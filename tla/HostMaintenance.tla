---------------------------- MODULE HostMaintenance ----------------------------
(***************************************************************************)
(* Who may touch a node's container, and when.                             *)
(*                                                                         *)
(* Five programs share a node: the agent in the container admits kernel    *)
(* operations; the host service answers inventory, update and remove       *)
(* requests; a worker per update job runs in a systemd unit of its own and *)
(* has update.sh as its child; an operator may run update.sh or            *)
(* uninstall.sh by hand.  They exclude one another with                    *)
(*   - maintenance.lock, a flock held for the time of an admission;        *)
(*   - container-update.json, the marker the agent looks at;               *)
(*   - update.json, the host's record of the last update job;              *)
(*   - the product lock directory of the scripts.                          *)
(* saveUpdate writes the record and then the marker: a program can die     *)
(* between the two, and at any other point.                                *)
(***************************************************************************)
EXTENDS Naturals

CONSTANTS
  Job,               \* update job identifiers (random in the code)
  KernelOp,          \* kernel operations
  Cli,               \* update.sh run by hand
  Service, Agent, Uninstaller, Nobody,
  MaxServiceCrashes, MaxWorkerCrashes, MaxCliCrashes, MaxAgentCrashes

ASSUME ProgramsDistinct ==
  /\ Cli \notin {Service, Agent, Uninstaller, Nobody}
  /\ Service \notin {Agent, Uninstaller, Nobody}
  /\ Agent \notin {Uninstaller, Nobody} /\ Uninstaller # Nobody
  /\ Job \cap {Cli, Service, Agent, Uninstaller, Nobody} = {}

\* update.sh runs as the child of a job's worker, or by hand.
Script == Job \cup {Cli}

Status == {"queued", "running", "succeeded", "failed"}

VARIABLES
  flock,       \* who holds maintenance.lock
  product,     \* whose directory /run/trojanpanelnext-update.lock is
  marker,      \* container-update.json: owner, status
  record,      \* update.json: job, status
  operations,  \* operations/*.json without an outcome
  agent,       \* the container: "up", "dead", "stopped", "gone"
  service,     \* where the host service stands
  task,        \* the request it serves
  worker,      \* [Job -> where the worker stands]; "unused": no such job yet
  script,      \* [Script -> where update.sh stands]
  uninstall,   \* where a removal run by hand stands
  removal,     \* "none", "started": TLS snapshots exist, "done"
  crashes      \* [program -> how often it died]

updates == <<marker, record>>
node == <<operations, agent>>
vars == <<flock, product, marker, record, operations, agent, service, task,
          worker, script, uninstall, removal, crashes>>

Active(status) == status \in {"queued", "running"}

CliBusy == marker.owner = Cli /\ Active(marker.status)

\* The marker that saveUpdate writes after the record.
MarkerOf(r) == [owner |-> r.job, status |-> r.status]

\* Seeded fault: a unit that is stopping counts as gone.
UnitRunning(j) == worker[j] \notin {"unused", "none", "deactivating", "dead"}

\* systemctl show: a unit that is stopping still counts.
UnitAlive(j) == worker[j] \notin {"unused", "none", "dead"}

Init ==
  /\ flock = Nobody
  /\ product = Nobody
  /\ marker = [owner |-> Nobody, status |-> "succeeded"]
  /\ record = [job |-> Nobody, status |-> "succeeded"]
  /\ operations = {}
  /\ agent = "up"
  /\ service = "idle"
  /\ task = "none"
  /\ worker = [j \in Job |-> "unused"]
  /\ script = [s \in Script |-> "none"]
  /\ uninstall = "none"
  /\ removal = "none"
  /\ crashes = [p \in {"service", "worker", "cli", "agent"} |-> 0]

-----------------------------------------------------------------------------
(* The agent: Manager.Start takes the lock, reads the marker, writes the   *)
(* queued operation and lets the lock go; run ends the operation later.    *)
AgentOnly == UNCHANGED <<product, updates, service, task, worker, script,
                         uninstall, removal>>

AgentLocks ==
  /\ agent = "up"
  /\ flock = Nobody
  /\ flock' = Agent
  /\ AgentOnly
  /\ UNCHANGED <<node, crashes>>

AgentAdmits ==
  /\ flock = Agent
  /\ ~Active(marker.status)
  /\ \E op \in KernelOp \ operations : operations' = operations \cup {op}
  /\ flock' = Nobody
  /\ AgentOnly
  /\ UNCHANGED <<agent, crashes>>

AgentRefuses ==
  /\ flock = Agent
  /\ flock' = Nobody
  /\ AgentOnly
  /\ UNCHANGED <<node, crashes>>

OperationEnds ==
  /\ agent = "up"
  /\ \E op \in operations : operations' = operations \ {op}
  /\ AgentOnly
  /\ UNCHANGED <<flock, agent, crashes>>

AgentDies ==
  /\ agent = "up"
  /\ crashes["agent"] < MaxAgentCrashes
  /\ crashes' = [crashes EXCEPT !["agent"] = @ + 1]
  /\ agent' = "dead"
  /\ flock' = IF flock = Agent THEN Nobody ELSE flock
  /\ AgentOnly
  /\ UNCHANGED operations

\* Docker starts it again; loadOperations settles what was interrupted.
AgentBoots ==
  /\ agent = "dead"
  /\ agent' = "up"
  /\ operations' = {}
  /\ AgentOnly
  /\ UNCHANGED <<flock, crashes>>

-----------------------------------------------------------------------------
(* The host service serves one request at a time, with the lock from the   *)
(* first look at the state to the answer.                                  *)
ServiceOnly == UNCHANGED <<script, uninstall, crashes>>

ServiceLocks(t) ==
  /\ flock = Nobody
  /\ \/ service = "starting" /\ t = "recover"
     \/ service = "idle" /\ t = "inventory"
     \/ service = "idle" /\ t \in {"update", "remove"} /\ removal # "done"
  /\ flock' = Service
  /\ service' = "reconcile"
  /\ task' = t
  /\ ServiceOnly
  /\ UNCHANGED <<product, updates, node, worker, removal>>

Answer ==
  /\ service' = "idle"
  /\ task' = "none"
  /\ flock' = Nobody

(* A request is refused while a CLI update runs, and when Docker, systemd  *)
(* or a state file cannot be read.  RecoverUpdate leaves a CLI update be   *)
(* and serves; on an error the service exits, which is ServiceDies.        *)
ServiceRefuses ==
  /\ service \in {"reconcile", "act"}
  /\ task = "recover" => service = "reconcile" /\ CliBusy
  /\ Answer
  /\ ServiceOnly
  /\ UNCHANGED <<product, updates, node, worker, removal>>

(* reconcileUpdate: an unfinished job whose unit is gone was interrupted.  *)
Reconcile ==
  /\ service = "reconcile"
  /\ ~CliBusy
  /\ IF Active(record.status) /\ ~UnitAlive(record.job)
       THEN record' = [record EXCEPT !.status = "failed"] /\ service' = "mark"
       ELSE service' = "act" /\ UNCHANGED record
  /\ ServiceOnly
  /\ UNCHANGED <<flock, task, product, marker, node, worker, removal>>

Mark ==
  /\ service = "mark"
  /\ marker' = MarkerOf(record)
  /\ service' = "act"
  /\ ServiceOnly
  /\ UNCHANGED <<flock, task, product, record, node, worker, removal>>

InventoryAnswers ==
  /\ service = "act"
  /\ task = "inventory"
  /\ Answer
  /\ ServiceOnly
  /\ UNCHANGED <<product, updates, node, worker, removal>>

(* Seeded fault: RecoverUpdate only reconciles.                            *)
RecoveredOnce ==
  /\ service = "act"
  /\ task = "recover"
  /\ Answer
  /\ ServiceOnly
  /\ UNCHANGED <<product, updates, node, worker, removal>>

(* RecoverUpdate: the record is written over the marker once more.         *)
Recovered ==
  /\ service = "act"
  /\ task = "recover"
  /\ marker' = IF record.job = Nobody THEN marker ELSE MarkerOf(record)
  /\ Answer
  /\ ServiceOnly
  /\ UNCHANGED <<product, record, node, worker, removal>>

(* Seeded fault: the update is queued beside a kernel operation.           *)
UpdateQueuedBlind ==
  /\ service = "act"
  /\ task = "update"
  /\ ~Active(record.status)
  /\ \E j \in Job :
       /\ worker[j] = "unused"
       /\ worker' = [worker EXCEPT ![j] = "none"]
       /\ record' = [job |-> j, status |-> "queued"]
  /\ service' = "queued"
  /\ ServiceOnly
  /\ UNCHANGED <<flock, task, product, marker, node, removal>>

UpdateQueued ==
  /\ service = "act"
  /\ task = "update"
  /\ ~Active(record.status)
  /\ operations = {}
  /\ \E j \in Job :
       /\ worker[j] = "unused"
       /\ worker' = [worker EXCEPT ![j] = "none"]
       /\ record' = [job |-> j, status |-> "queued"]
  /\ service' = "queued"
  /\ ServiceOnly
  /\ UNCHANGED <<flock, task, product, marker, node, removal>>

UpdateMarked ==
  /\ service = "queued"
  /\ marker' = MarkerOf(record)
  /\ service' = "launch"
  /\ ServiceOnly
  /\ UNCHANGED <<flock, task, product, record, node, worker, removal>>

WorkerLaunched ==
  /\ service = "launch"
  /\ worker' = [worker EXCEPT ![record.job] = "starting"]
  /\ Answer
  /\ ServiceOnly
  /\ UNCHANGED <<product, updates, node, removal>>

(* systemd-run failed, or its five seconds passed after the unit started.  *)
LaunchFailed ==
  /\ service = "launch"
  /\ worker' \in {worker, [worker EXCEPT ![record.job] = "starting"]}
  /\ record' = [record EXCEPT !.status = "failed"]
  /\ service' = "launch_failed"
  /\ ServiceOnly
  /\ UNCHANGED <<flock, task, product, marker, node, removal>>

LaunchFailureMarked ==
  /\ service = "launch_failed"
  /\ marker' = MarkerOf(record)
  /\ Answer
  /\ ServiceOnly
  /\ UNCHANGED <<product, record, node, worker, removal>>

(* Seeded fault: remove looks neither at the job nor at the product lock.  *)
RemovalStartsBlind ==
  /\ service = "act"
  /\ task = "remove"
  /\ removal' = "started"
  /\ service' = "removing"
  /\ ServiceOnly
  /\ UNCHANGED <<flock, product, task, updates, node, worker>>

(* remove: reserve the product lock, snapshot the TLS files, uninstall.    *)
RemovalStarts ==
  /\ service = "act"
  /\ task = "remove"
  /\ ~Active(record.status)
  /\ product = Nobody
  /\ product' = Service
  /\ removal' = "started"
  /\ service' = "removing"
  /\ ServiceOnly
  /\ UNCHANGED <<flock, task, updates, node, worker>>

RemovalEnds ==
  /\ service = "removing"
  /\ \/ agent' = "gone" /\ removal' = "done"
     \/ agent' \in {agent, "gone"} /\ UNCHANGED removal
  /\ product' = Nobody
  /\ Answer
  /\ ServiceOnly
  /\ UNCHANGED <<updates, operations, worker>>

(* systemd starts it again; a product lock of its own stays behind.        *)
ServiceDies ==
  /\ service \notin {"down", "starting"}
  /\ crashes["service"] < MaxServiceCrashes
  /\ crashes' = [crashes EXCEPT !["service"] = @ + 1]
  /\ service' = "starting"
  /\ task' = "none"
  /\ flock' = IF flock = Service THEN Nobody ELSE flock
  /\ UNCHANGED <<product, updates, node, worker, script, uninstall, removal>>

-----------------------------------------------------------------------------
(* RunUpdate, the worker of job j: it runs only the job that is queued, and *)
(* looks at the kernel operations once more.                               *)
WorkerOnly == UNCHANGED <<product, node, service, task, uninstall, removal, crashes>>

WorkerTurnsAway(j) ==
  /\ worker[j] = "starting"
  /\ flock = Nobody
  /\ CliBusy \/ record # [job |-> j, status |-> "queued"] \/ removal = "done"
  /\ worker' = [worker EXCEPT ![j] = "dead"]
  /\ WorkerOnly
  /\ UNCHANGED <<flock, updates, script>>

WorkerBegins(j) ==
  /\ worker[j] = "starting"
  /\ flock = Nobody
  /\ flock' = j
  /\ ~CliBusy
  /\ record = [job |-> j, status |-> "queued"]
  /\ removal # "done"
  /\ IF operations = {}
       THEN /\ record' = [record EXCEPT !.status = "running"]
            /\ worker' = [worker EXCEPT ![j] = "begun"]
       ELSE /\ record' = [record EXCEPT !.status = "failed"]
            /\ worker' = [worker EXCEPT ![j] = "ended"]
  /\ WorkerOnly
  /\ UNCHANGED <<marker, script>>

WorkerExecutes(j) ==
  /\ worker[j] = "begun"
  /\ marker' = MarkerOf(record)
  /\ flock' = Nobody
  /\ worker' = [worker EXCEPT ![j] = "running"]
  /\ script' = [script EXCEPT ![j] = "begin"]
  /\ WorkerOnly
  /\ UNCHANGED record

WorkerRecords(j) ==
  /\ worker[j] = "running"
  /\ script[j] \in {"ok", "failed"}
  /\ flock = Nobody
  /\ IF record = [job |-> j, status |-> "running"]
       THEN /\ record' = [record EXCEPT !.status =
                            IF script[j] = "ok" THEN "succeeded" ELSE "failed"]
            /\ flock' = j
            /\ worker' = [worker EXCEPT ![j] = "ended"]
       ELSE /\ worker' = [worker EXCEPT ![j] = "dead"]
            /\ UNCHANGED <<record, flock>>
  /\ WorkerOnly
  /\ UNCHANGED <<marker, script>>

WorkerMarks(j) ==
  /\ worker[j] = "ended"
  /\ marker' = MarkerOf(record)
  /\ flock' = Nobody
  /\ worker' = [worker EXCEPT ![j] = "dead"]
  /\ WorkerOnly
  /\ UNCHANGED <<record, script>>

\* update.sh before and after its admission.
Early == {"begin", "locked", "leaving"}

Past == {"admitted", "halted", "switching", "deployed", "committed", "restoring"}

Interrupted(step) ==
  IF step \in {"leaving", "committed", "restoring"} THEN step
  ELSE IF step \in Early THEN "leaving" ELSE "restoring"

(* The worker dies: systemd ends its control group, and the unit is        *)
(* "deactivating" for as long as the script's exit trap restores.          *)
WorkerDies(j) ==
  /\ worker[j] \in {"starting", "begun", "running", "ended"}
  /\ crashes["worker"] < MaxWorkerCrashes
  /\ crashes' = [crashes EXCEPT !["worker"] = @ + 1]
  /\ flock' = IF flock = j THEN Nobody ELSE flock
  /\ IF script[j] \in Early \cup Past
       THEN /\ worker' = [worker EXCEPT ![j] = "deactivating"]
            /\ script' = [script EXCEPT ![j] = Interrupted(@)]
       ELSE /\ worker' = [worker EXCEPT ![j] = "dead"]
            /\ UNCHANGED script
  /\ UNCHANGED <<product, updates, node, service, task, uninstall, removal>>

UnitStops(j) ==
  /\ worker[j] = "deactivating"
  /\ script[j] \in {"ok", "failed"}
  /\ worker' = [worker EXCEPT ![j] = "dead"]
  /\ WorkerOnly
  /\ UNCHANGED <<flock, updates, script>>

(* TimeoutStopSec, or a kill by hand: nothing is restored.                 *)
UnitKilled(j) ==
  /\ UnitAlive(j)
  /\ crashes["worker"] < MaxWorkerCrashes
  /\ crashes' = [crashes EXCEPT !["worker"] = @ + 1]
  /\ flock' = IF flock = j THEN Nobody ELSE flock
  /\ worker' = [worker EXCEPT ![j] = "dead"]
  /\ script' = [script EXCEPT ![j] = IF @ = "none" THEN "none" ELSE "killed"]
  /\ UNCHANGED <<product, updates, node, service, task, uninstall, removal>>

-----------------------------------------------------------------------------
(* update.sh, as the child of worker s or by hand.                         *)
ScriptOnly == UNCHANGED <<record, operations, worker, uninstall, removal>>

Move(s, from, to) ==
  /\ script[s] = from
  /\ script' = [script EXCEPT ![s] = to]

CliStarts ==
  /\ Move(Cli, "none", "begin")
  /\ removal # "done"
  /\ ScriptOnly
  /\ UNCHANGED <<flock, product, marker, agent, service, task, crashes>>

ScriptReserves(s) ==
  /\ Move(s, "begin", "locked")
  /\ product = Nobody
  /\ product' = s
  /\ ScriptOnly
  /\ UNCHANGED <<flock, marker, agent, service, task, crashes>>

\* check_pending_host_removal: no removal, no other program's update job.
NothingPending(s) ==
  /\ removal = "none"
  /\ Active(record.status) => record.job = s

\* admit_node_update: under the lock, which it does not wait for.
ScriptAdmits(s) ==
  /\ Move(s, "locked", "admitted")
  /\ flock = Nobody
  /\ NothingPending(s)
  /\ Active(marker.status) => marker.owner = s /\ s # Cli
  /\ operations = {}
  /\ marker' = IF s = Cli THEN [owner |-> Cli, status |-> "running"] ELSE marker
  /\ ScriptOnly
  /\ UNCHANGED <<flock, product, agent, service, task, crashes>>

\* systemctl stop: whatever the service was doing ends here.
ScriptHaltsService(s) ==
  /\ Move(s, "admitted", "halted")
  /\ NothingPending(s)
  /\ service' = "down"
  /\ task' = "none"
  /\ flock' = IF flock = Service THEN Nobody ELSE flock
  /\ ScriptOnly
  /\ UNCHANGED <<product, marker, agent, crashes>>

ScriptStopsAgent(s) ==
  /\ Move(s, "halted", "switching")
  /\ NothingPending(s)
  /\ agent' = "stopped"
  /\ flock' = IF flock = Agent THEN Nobody ELSE flock
  /\ ScriptOnly
  /\ UNCHANGED <<product, marker, service, task, crashes>>

ScriptDeploys(s) ==
  /\ Move(s, "switching", "deployed")
  /\ agent' = "dead"
  /\ ScriptOnly
  /\ UNCHANGED <<flock, product, marker, service, task, crashes>>

ScriptCommits(s) ==
  /\ Move(s, "deployed", "committed")
  /\ agent = "up"
  /\ service' = "starting"
  /\ ScriptOnly
  /\ UNCHANGED <<flock, product, marker, agent, task, crashes>>

(* Anything may go wrong before the commit.  The exit trap undoes what was *)
(* done; an undo that fails leaves the marker and the product lock behind. *)
ScriptFails(s) ==
  /\ script[s] \in (Early \cup Past) \ {"leaving", "committed", "restoring"}
  /\ script' = [script EXCEPT ![s] = Interrupted(@)]
  /\ ScriptOnly
  /\ UNCHANGED <<flock, product, marker, agent, service, task, crashes>>

ReleaseProduct(s) == product' = IF product = s THEN Nobody ELSE product

\* clear_cli_update_marker: only by hand, only its own marker.
ClearMarker(s) ==
  IF s = Cli /\ marker.owner = Cli
    THEN /\ flock = Nobody
         /\ marker' = [owner |-> Nobody, status |-> "succeeded"]
    ELSE UNCHANGED marker

ScriptSucceeds(s) ==
  /\ Move(s, "committed", IF s = Cli THEN "none" ELSE "ok")
  /\ ClearMarker(s)
  /\ ReleaseProduct(s)
  /\ ScriptOnly
  /\ UNCHANGED <<flock, agent, service, task, crashes>>

ScriptLeaves(s) ==
  /\ Move(s, "leaving", IF s = Cli THEN "none" ELSE "failed")
  /\ ReleaseProduct(s)
  /\ ScriptOnly
  /\ UNCHANGED <<flock, marker, agent, service, task, crashes>>

ScriptRestores(s) ==
  /\ Move(s, "restoring", IF s = Cli THEN "none" ELSE "failed")
  /\ ClearMarker(s)
  /\ ReleaseProduct(s)
  /\ service' = IF service = "down" /\ removal # "done" THEN "starting" ELSE service
  /\ agent' = IF agent = "stopped" THEN "dead" ELSE agent
  /\ ScriptOnly
  /\ UNCHANGED <<flock, task, crashes>>

ScriptCannotRestore(s) ==
  /\ Move(s, "restoring", IF s = Cli THEN "wrecked" ELSE "failed")
  /\ ScriptOnly
  /\ UNCHANGED <<flock, product, marker, agent, service, task, crashes>>

CliKilled ==
  /\ script[Cli] \in Early \cup Past
  /\ crashes["cli"] < MaxCliCrashes
  /\ crashes' = [crashes EXCEPT !["cli"] = @ + 1]
  /\ script' = [script EXCEPT ![Cli] = IF @ \in Past THEN "wrecked" ELSE "killed"]
  /\ ScriptOnly
  /\ UNCHANGED <<flock, product, marker, agent, service, task>>

-----------------------------------------------------------------------------
(* uninstall.sh by hand holds both locks to its end.                       *)
UninstallOnly == UNCHANGED <<updates, operations, worker, script, crashes>>

UninstallReserves ==
  /\ uninstall = "none"
  /\ product = Nobody
  /\ product' = Uninstaller
  /\ uninstall' = "locked"
  /\ UninstallOnly
  /\ UNCHANGED <<flock, agent, service, task, removal>>

UninstallStarts ==
  /\ uninstall = "locked"
  /\ flock = Nobody
  /\ ~Active(marker.status)
  /\ flock' = Uninstaller
  /\ uninstall' = "removing"
  /\ UninstallOnly
  /\ UNCHANGED <<product, agent, service, task, removal>>

UninstallRefuses ==
  /\ uninstall = "locked"
  /\ product' = Nobody
  /\ uninstall' = "none"
  /\ UninstallOnly
  /\ UNCHANGED <<flock, agent, service, task, removal>>

UninstallEnds ==
  /\ uninstall = "removing"
  /\ flock' = Nobody
  /\ product' = Nobody
  /\ \/ /\ uninstall' = "none"
        /\ agent' \in {agent, "gone"}
        /\ UNCHANGED <<service, task, removal>>
     \/ /\ uninstall' = "done"
        /\ agent' = "gone"
        /\ service' = "down"
        /\ task' = "none"
        /\ removal' = "done"
  /\ UninstallOnly

-----------------------------------------------------------------------------
AgentStep == AgentLocks \/ AgentAdmits \/ AgentRefuses \/ OperationEnds \/ AgentBoots

ServiceStep ==
  \/ ServiceRefuses \/ Reconcile \/ Mark \/ InventoryAnswers \/ Recovered
  \/ UpdateQueued \/ UpdateMarked \/ WorkerLaunched \/ LaunchFailed
  \/ LaunchFailureMarked \/ RemovalStarts \/ RemovalEnds

WorkerStep(j) ==
  \/ WorkerTurnsAway(j) \/ WorkerBegins(j) \/ WorkerExecutes(j)
  \/ WorkerRecords(j) \/ WorkerMarks(j) \/ UnitStops(j)

ScriptStep(s) ==
  \/ ScriptReserves(s) \/ ScriptAdmits(s) \/ ScriptHaltsService(s)
  \/ ScriptStopsAgent(s) \/ ScriptDeploys(s) \/ ScriptCommits(s) \/ ScriptFails(s)
  \/ ScriptSucceeds(s) \/ ScriptLeaves(s) \/ ScriptRestores(s) \/ ScriptCannotRestore(s)

UninstallStep == UninstallReserves \/ UninstallStarts \/ UninstallRefuses \/ UninstallEnds

Next ==
  \/ AgentStep \/ AgentDies
  \/ \E t \in {"recover", "inventory", "update", "remove"} : ServiceLocks(t)
  \/ ServiceStep \/ ServiceDies
  \/ \E j \in Job : WorkerStep(j) \/ WorkerDies(j) \/ UnitKilled(j)
  \/ CliStarts \/ CliKilled
  \/ \E s \in Script : ScriptStep(s)
  \/ UninstallStep

Spec == Init /\ [][Next]_vars

(* Every program goes on.  The lock is polled without a queue (every 20 or *)
(* 50 ms) and is held briefly: a program that keeps asking gets it.        *)
FairSpec ==
  /\ Spec
  /\ WF_vars(AgentAdmits \/ AgentRefuses) /\ WF_vars(AgentBoots)
  /\ SF_vars(ServiceLocks("recover")) /\ WF_vars(ServiceStep)
  /\ \A j \in Job : SF_vars(WorkerStep(j)) /\ WF_vars(ScriptStep(j))
  /\ WF_vars(UninstallRefuses \/ UninstallEnds)

-----------------------------------------------------------------------------
\* update.sh may have the containers in pieces.
Switching(s) == script[s] \in Past

Removing == service = "removing" \/ uninstall = "removing"

TypeOK ==
  /\ flock \in Job \cup {Nobody, Agent, Service, Uninstaller}
  /\ product \in Script \cup {Nobody, Service, Uninstaller}
  /\ marker \in [owner : Script \cup {Nobody}, status : Status]
  /\ record \in [job : Job \cup {Nobody}, status : Status]
  /\ operations \subseteq KernelOp
  /\ agent \in {"up", "dead", "stopped", "gone"}
  /\ service \in {"down", "starting", "idle", "reconcile", "mark", "act", "queued",
                  "launch", "launch_failed", "removing"}
  /\ task \in {"none", "recover", "inventory", "update", "remove"}
  /\ worker \in [Job -> {"unused", "none", "starting", "begun", "running", "ended",
                         "deactivating", "dead"}]
  /\ script \in [Script -> Early \cup Past \cup {"none", "ok", "failed", "killed", "wrecked"}]
  /\ uninstall \in {"none", "locked", "removing", "done"}
  /\ removal \in {"none", "started", "done"}
  /\ crashes \in [{"service", "worker", "cli", "agent"} -> Nat]

(* No program uninstalls the containers that update.sh is replacing.       *)
UpdateExcludesRemoval == Removing => \A s \in Script : ~Switching(s)

(* While update.sh may have the containers in pieces, under a worker that  *)
(* died too and by hand after it was interrupted, the marker is active:    *)
(* the agent refuses kernel operations and nothing else starts.            *)
MarkerCoversSwitch ==
  /\ \A s \in Script : Switching(s) =>
       Active(marker.status) /\ marker.owner = s
  /\ script[Cli] = "wrecked" => CliBusy

(* The agent and the host take turns.                                      *)
Contract == INSTANCE NodeAdmission WITH
  Operation <- KernelOp, active <- operations, updating <- Active(marker.status)

ImplementsContract == Contract!Spec

(* A removal never runs beside a kernel operation.                         *)
RemovalExcludesOperations == Removing => operations = {}

(* Whatever crash of the service falls between the two writes, an update   *)
(* job's marker does not keep the node closed for ever.                    *)
AdmissionReopens ==
  Active(marker.status) /\ marker.owner \in Job ~> ~Active(marker.status)
=============================================================================
