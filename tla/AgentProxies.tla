------------------------------ MODULE AgentProxies ------------------------------
(***************************************************************************)
(* The proxy processes of one node: started and stopped by the panel's     *)
(* calls, by the traffic quota, by a kernel's replacement and by the       *)
(* agent's own start.                                                      *)
(*                                                                         *)
(* Xray instances (hysteria2 has the same supervisor, with a lock of its   *)
(* own) are guarded by a mutex that is only tried: a call that finds it    *)
(* busy returns an error, and its deferred Unlock then takes the lock away *)
(* from the call that holds it.  A later Unlock finds the mutex unlocked,  *)
(* which ends a Go program; the container's restart policy starts it again.*)
(* NaiveProxy instances are guarded by certificateRestart, held throughout *)
(* a call: what happens under it is one step here.                         *)
(***************************************************************************)
EXTENDS Naturals

CONSTANTS
  Xray, Naive,   \* the API ports of the two kinds of instances
  Handler,       \* gRPC calls the agent serves at a time
  Configured,    \* instances configured before the first start
  MaxEvents,     \* calls of the panel, kernel operations, instances that exit,
                 \* failed database accesses and crashes of the agent
  MaxFlips       \* times the quota is reached or lifted

Port == Xray \cup Naive

ASSUME PortAssumption == Xray \cap Naive = {} /\ Configured \subseteq Port
ASSUME BoundAssumption == MaxEvents \in Nat /\ MaxFlips \in Nat

VARIABLES
  config,    \* ports with a configuration file
  torn,      \* those whose file was opened, truncated, and not written yet
  row,       \* ports with a row in node_config
  running,   \* ports whose process is in cmdMap and alive
  orphans,   \* ports whose live process cmdMap no longer holds
  excused,   \* ports left down by an error that was logged or reported
  locked,    \* mutexXray
  thread,    \* what each goroutine is about to do
  reached,   \* CurrentServerQuota, in the panel's database
  blocked,   \* quotaState.blocked
  up,        \* the agent's program runs
  events, flips

disk == <<config, torn, row>>
processes == <<running, orphans, excused, locked>>
quota == <<reached, blocked>>
bounds == <<events, flips>>
vars == <<disk, processes, thread, quota, up, bounds>>

Thread == Handler \cup {"boot", "quota", "kernel"}

(* pc: where the goroutine is; at: inside or outside process.go's mutex;   *)
(* port, removes: the call's arguments; seen: what IsRunning returned;     *)
(* todo, rest: the ports of the loop; round: 2 while a kernel rolls back.  *)
Idle == [pc |-> "idle", at |-> "out", port |-> {}, seen |-> FALSE, todo |-> {},
         rest |-> {}, round |-> 1]

Init ==
  /\ config = Configured /\ torn = {} /\ row = Configured
  /\ running = {} /\ orphans = {} /\ excused = {}
  /\ locked = FALSE
  /\ thread = [t \in Thread |-> IF t = "boot" THEN [Idle EXCEPT !.pc = "check"] ELSE Idle]
  /\ reached \in BOOLEAN /\ blocked = FALSE
  /\ up = TRUE
  /\ events = 0 /\ flips = 0

Event ==
  /\ events < MaxEvents
  /\ events' = events + 1
  /\ UNCHANGED flips

(* Goroutine t becomes r, moves to another place, or ends.                 *)
Becomes(t, r) == thread' = [thread EXCEPT ![t] = r]
Goes(t, where) == Becomes(t, [thread[t] EXCEPT !.pc = where])
Ends(t) == Becomes(t, Idle)

(* The container dies and every process in it.                             *)
Dies ==
  /\ up' = FALSE
  /\ running' = {} /\ orphans' = {} /\ locked' = FALSE
  /\ thread' = [t \in Thread |-> Idle]
  /\ blocked' = FALSE
  /\ UNCHANGED <<disk, excused, reached>>

-----------------------------------------------------------------------------
(* process.go: Stop(port, removeFile) and StartXray(port).                 *)
Starting(t) == thread[t].pc \in {"add start", "boot start", "quota start", "kernel start"}
Stopping(t) == thread[t].pc \in {"remove stop", "quota stop", "kernel stop"}

(* The call that thread t makes next, if it is in a loop or a handler.     *)
Targets(t) == IF t \in Handler THEN thread[t].port ELSE thread[t].todo

(* InitXrayApp, for the agent's start and the quota: each configuration is *)
(* parsed, and rewritten without an obsolete option, before its instance   *)
(* starts; one that is gone or not whole is an error.                      *)
Migrates(t) == thread[t].pc \in {"boot start", "quota start"}
Migrated(t, p) == Migrates(t) => p \in config \ torn

TryLock(t) ==
  /\ up /\ (Starting(t) \/ Stopping(t)) /\ thread[t].at = "out"
  /\ \E p \in {q \in Targets(t) : Migrated(t, q)} :
       IF locked
         THEN /\ Becomes(t, [thread[t] EXCEPT !.at = "refused"])
              /\ UNCHANGED locked
         ELSE /\ Becomes(t, [thread[t] EXCEPT !.at = "inside", !.port = {p},
                                              !.seen = p \in running])
              /\ locked' = TRUE
  /\ UNCHANGED <<disk, running, orphans, excused, quota, up, bounds>>

(* Where each goroutine goes when its call has returned.                   *)
Left(t) == thread[t].todo \ thread[t].port
Returned(t) == [thread[t] EXCEPT !.at = "out", !.seen = FALSE]
InLoop(t) == [Returned(t) EXCEPT !.todo = Left(t), !.port = {}]

Succeeds(t) ==
  LET r == InLoop(t)
  IN  CASE thread[t].pc = "add start" -> [Returned(t) EXCEPT !.pc = "insert"]
        [] thread[t].pc = "remove stop" -> [Returned(t) EXCEPT !.pc = "delete"]
        [] thread[t].pc = "kernel stop" /\ Left(t) = {} ->
             [r EXCEPT !.pc = "kernel start", !.todo = thread[t].rest]
        [] thread[t].pc = "kernel start" /\ Left(t) = {} -> Idle
        [] OTHER -> r

(* Seeded fault: a failed start ends the loop as if it were complete.      *)
FailsUnnoticed(t) ==
  CASE t \in Handler -> Idle
    [] thread[t].pc = "quota stop" -> InLoop(t)
    [] thread[t].pc \in {"quota start", "boot start"} -> [InLoop(t) EXCEPT !.todo = {}]
    [] t = "kernel" /\ thread[t].round = 1 ->
         [Idle EXCEPT !.pc = "kernel list", !.round = 2]
    [] OTHER -> Idle

(* A failed stop is only logged by the quota; a failed start ends its loop:*)
(* the quota then stays blocked, a kernel operation restarts once more to  *)
(* roll back, and the agent's start goes on with the next kind.            *)
Fails(t) ==
  CASE t \in Handler -> Idle
    [] thread[t].pc = "quota stop" -> InLoop(t)
    [] thread[t].pc = "quota start" -> Idle
    [] thread[t].pc = "boot start" -> [InLoop(t) EXCEPT !.todo = {}]
    [] t = "kernel" /\ thread[t].round = 1 ->
         [Idle EXCEPT !.pc = "kernel list", !.round = 2]
    [] OTHER -> Idle

(* Ports that nobody starts again after the error.                         *)
Abandoned(t) ==
  IF thread[t].pc = "boot start" THEN thread[t].todo
  ELSE IF t = "kernel" /\ thread[t].round = 2 THEN thread[t].rest \ running
  ELSE {}

MigrationFails(t) ==
  /\ up /\ thread[t].at = "out"
  /\ \E p \in Targets(t) : ~Migrated(t, p)
  /\ Becomes(t, Fails(t))
  /\ excused' = excused \cup Abandoned(t)
  /\ UNCHANGED <<disk, running, orphans, locked, quota, up, bounds>>

(* The deferred Unlock: of an unlocked mutex, it ends the program.         *)
Unlock(t) ==
  /\ up /\ thread[t].at = "refused"
  /\ IF locked
       THEN /\ locked' = FALSE
            /\ Becomes(t, Fails(t))
            /\ excused' = excused \cup Abandoned(t)
            /\ UNCHANGED <<disk, running, orphans, quota, up>>
       ELSE Dies
  /\ UNCHANGED bounds

StartInside(started, abandoned) ==
  /\ locked' = FALSE
  /\ running' = running \cup started
  /\ orphans' = orphans \cup (running \cap started)
  /\ excused' = (excused \ started) \cup abandoned
  /\ UNCHANGED <<disk, quota, up>>

(* Xray exits at once from a file that is not whole, which is logged.      *)
Start(t) ==
  /\ up /\ Starting(t) /\ thread[t].at = "inside"
  /\ \/ ~locked /\ Dies
     \/ /\ locked /\ (thread[t].seen \/ thread[t].port \subseteq config)
        /\ IF thread[t].seen THEN StartInside({}, {})
             ELSE StartInside(thread[t].port \ torn, thread[t].port \cap torn)
        /\ Becomes(t, Succeeds(t))
     \/ /\ locked /\ ~thread[t].seen /\ ~(thread[t].port \subseteq config)
        /\ StartInside({}, Abandoned(t))
        /\ Becomes(t, Fails(t))
  /\ UNCHANGED bounds

RemoveFile(ports) == config' = config \ ports /\ torn' = torn \ ports

(* What IsRunning did not see is not killed, but its file is removed; what *)
(* was seen and has gone meanwhile is an error.                            *)
StopInside(stopped) ==
  /\ locked' = FALSE
  /\ running' = running \ stopped
  /\ UNCHANGED <<row, orphans, quota, up>>

Stop(t) ==
  /\ up /\ Stopping(t) /\ thread[t].at = "inside"
  /\ \/ ~locked /\ Dies
     \/ /\ locked /\ (thread[t].seen => thread[t].port \subseteq running)
        /\ StopInside(IF thread[t].seen THEN thread[t].port ELSE {})
        /\ IF thread[t].pc = "remove stop" THEN RemoveFile(thread[t].port)
             ELSE UNCHANGED <<config, torn>>
        /\ Becomes(t, Succeeds(t))
        /\ UNCHANGED excused
     \/ /\ locked /\ thread[t].seen /\ ~(thread[t].port \subseteq running)
        /\ StopInside({})
        /\ Becomes(t, Fails(t))
        /\ excused' = excused \cup Abandoned(t)
        /\ UNCHANGED <<config, torn>>
  /\ UNCHANGED bounds

-----------------------------------------------------------------------------
(* StartApp and StopApp, called by the panel through AddNode, RemoveNode.  *)
(* Any free goroutine of the gRPC server: which one makes no difference.   *)
Free == {h \in Handler : thread[h].pc = "idle"}

Called(h) ==
  /\ up /\ Free # {}
  /\ h = CHOOSE k \in Free : TRUE
  /\ Event

(* CanStartProxy: the quota is read here, and the instance started later.  *)
AddNode(h) ==
  /\ Called(h)
  /\ ~reached
  /\ \E p \in Port \ (running \cup orphans) :
       Becomes(h, [Idle EXCEPT !.pc = "write", !.port = {p}])
  /\ UNCHANGED <<disk, processes, quota, up>>

(* The file is opened with O_TRUNC first.                                  *)
CreateConfig(h) ==
  /\ up /\ thread[h].pc = "write"
  /\ thread[h].port \subseteq Xray
  /\ config' = config \cup thread[h].port
  /\ torn' = torn \cup thread[h].port
  /\ Goes(h, "fill")
  /\ UNCHANGED <<row, processes, quota, up, bounds>>

(* A template or a setting that does not parse leaves the file empty.      *)
WriteConfig(h) ==
  /\ up /\ thread[h].pc = "fill"
  /\ \/ torn' = torn \ thread[h].port /\ Goes(h, "add start") /\ UNCHANGED bounds
     \/ Event /\ Ends(h) /\ UNCHANGED torn
  /\ UNCHANGED <<config, row, processes, quota, up>>

(* NaiveProxy: the file and the process in one call under its lock.        *)
AddNaive(h) ==
  /\ up /\ thread[h].pc = "write"
  /\ ~(thread[h].port \subseteq Xray)
  /\ config' = config \cup thread[h].port
  /\ Goes(h, "insert")
  /\ running' = running \cup thread[h].port
  /\ excused' = excused \ thread[h].port
  /\ UNCHANGED <<torn, row, orphans, locked, quota, up, bounds>>

InsertNodeConfig(h) ==
  /\ up /\ thread[h].pc = "insert"
  /\ \/ row' = row \cup thread[h].port /\ UNCHANGED bounds
     \/ Event /\ UNCHANGED row
  /\ Ends(h)
  /\ UNCHANGED <<config, torn, processes, quota, up>>

RemoveNode(h) ==
  /\ Called(h)
  /\ \E p \in Port :
       IF p \in Xray
         THEN /\ Becomes(h, [Idle EXCEPT !.pc = "remove stop", !.port = {p}])
              /\ UNCHANGED <<config, torn, running>>
         ELSE /\ Becomes(h, [Idle EXCEPT !.pc = "delete", !.port = {p}])
              /\ RemoveFile({p})
              /\ running' = running \ {p}
  /\ UNCHANGED <<row, orphans, excused, locked, quota, up>>

DeleteNodeConfig(h) ==
  /\ up /\ thread[h].pc = "delete"
  /\ row' = row \ thread[h].port
  /\ Ends(h)
  /\ UNCHANGED <<config, torn, processes, quota, up, bounds>>

-----------------------------------------------------------------------------
(* InitApp.  The gRPC server answers already; the cron jobs start after it.*)
BootCheck ==
  /\ up /\ thread["boot"].pc = "check"
  /\ \/ blocked' = reached /\ UNCHANGED bounds
     \/ blocked' = FALSE /\ Event
  /\ IF blocked' THEN Ends("boot")
     ELSE Becomes("boot", [Idle EXCEPT !.pc = "boot start", !.todo = config \cap Xray])
  /\ UNCHANGED <<disk, processes, reached, up>>

(* Every configured NaiveProxy instance, under its lock.                   *)
StartNaive ==
  /\ running' = running \cup (config \cap Naive)
  /\ excused' = excused \ (config \cap Naive)

BootNaive ==
  /\ up /\ thread["boot"].pc = "boot start"
  /\ thread["boot"].todo = {} /\ thread["boot"].at = "out"
  /\ StartNaive
  /\ Ends("boot")
  /\ UNCHANGED <<disk, orphans, locked, quota, up, bounds>>

Cron == up /\ thread["boot"].pc = "idle"

-----------------------------------------------------------------------------
(* Seeded fault: what was stopped once is taken for stopped.               *)
ReconcileOnce ==
  /\ Cron /\ thread["quota"].pc = "idle"
  /\ IF reached
       THEN ~blocked /\ Becomes("quota", [Idle EXCEPT !.pc = "quota stop", !.todo = running \cap Xray])
       ELSE blocked /\ Becomes("quota", [Idle EXCEPT !.pc = "quota start", !.todo = config \cap Xray])
  /\ UNCHANGED <<disk, processes, quota, up, bounds>>

(* ReconcileTrafficQuota, every ten seconds: the quota and the blocked flag*)
(* are read first, then instances are stopped or started one by one.       *)
Reconcile ==
  /\ Cron /\ thread["quota"].pc = "idle"
  /\ IF reached
       THEN Becomes("quota", [Idle EXCEPT !.pc = "quota stop", !.todo = running \cap Xray])
       ELSE blocked /\ Becomes("quota", [Idle EXCEPT !.pc = "quota start", !.todo = config \cap Xray])
  /\ UNCHANGED <<disk, processes, quota, up, bounds>>

LoopEnds(where) ==
  /\ up /\ thread["quota"].pc = where
  /\ thread["quota"].todo = {} /\ thread["quota"].at = "out"
  /\ Ends("quota")
  /\ UNCHANGED <<disk, orphans, locked, reached, up, bounds>>

QuotaStopped ==
  /\ LoopEnds("quota stop")
  /\ running' = running \ Naive
  /\ blocked' = TRUE
  /\ UNCHANGED excused

QuotaRestored ==
  /\ LoopEnds("quota start")
  /\ StartNaive
  /\ blocked' = FALSE

(* MaintainCertificates: an instance that does not run, or runs with the   *)
(* old certificate, is restarted, whatever the quota is.                   *)
MaintainCertificates ==
  /\ Cron
  /\ (config \cap Naive) \ running # {}
  /\ StartNaive
  /\ UNCHANGED <<disk, orphans, locked, thread, quota, up, bounds>>

-----------------------------------------------------------------------------
(* ProcessLifecycle.Restart, for a new kernel and again to roll back.      *)
KernelSwitch ==
  /\ up /\ thread["kernel"].pc = "idle"
  /\ Event
  /\ Goes("kernel", "kernel list")
  /\ UNCHANGED <<disk, processes, quota, up>>

KernelList ==
  /\ up /\ thread["kernel"].pc = "kernel list"
  /\ LET ports == config \cap Xray
     IN  IF ports = {} THEN Ends("kernel")
         ELSE Becomes("kernel", [thread["kernel"] EXCEPT
                !.pc = "kernel stop", !.todo = ports, !.rest = ports])
  /\ UNCHANGED <<disk, processes, quota, up, bounds>>

-----------------------------------------------------------------------------
QuotaFlips ==
  /\ flips < MaxFlips
  /\ flips' = flips + 1
  /\ reached' = ~reached
  /\ UNCHANGED <<disk, processes, thread, blocked, up, events>>

Exits(p) ==
  /\ p \in running
  /\ Event
  /\ running' = running \ {p}
  /\ excused' = excused \cup {p}
  /\ UNCHANGED <<disk, orphans, locked, thread, quota, up>>

Crash ==
  /\ up
  /\ Event
  /\ Dies

(* restart: always                                                         *)
ContainerRestarts ==
  /\ ~up
  /\ up' = TRUE
  /\ excused' = {}
  /\ Becomes("boot", [Idle EXCEPT !.pc = "check"])
  /\ UNCHANGED <<disk, running, orphans, locked, quota, bounds>>

-----------------------------------------------------------------------------
Supervisor(t) == TryLock(t) \/ MigrationFails(t) \/ Unlock(t) \/ Start(t) \/ Stop(t)

Serve(h) ==
  CreateConfig(h) \/ WriteConfig(h) \/ AddNaive(h) \/ InsertNodeConfig(h) \/ DeleteNodeConfig(h)

Next ==
  \/ \E t \in Thread : Supervisor(t)
  \/ \E h \in Handler : AddNode(h) \/ RemoveNode(h) \/ Serve(h)
  \/ BootCheck \/ BootNaive
  \/ Reconcile \/ QuotaStopped \/ QuotaRestored
  \/ MaintainCertificates
  \/ KernelSwitch \/ KernelList
  \/ QuotaFlips \/ Crash \/ ContainerRestarts
  \/ \E p \in Port : Exits(p)

Spec == Init /\ [][Next]_vars

(* Goroutines run, the cron job fires, the container is restarted.         *)
FairSpec ==
  /\ Spec
  /\ \A t \in Thread : WF_vars(Supervisor(t))
  /\ \A h \in Handler : WF_vars(Serve(h))
  /\ WF_vars(BootCheck \/ BootNaive)
  /\ WF_vars(Reconcile \/ QuotaStopped \/ QuotaRestored)
  /\ WF_vars(KernelList) /\ WF_vars(ContainerRestarts)

-----------------------------------------------------------------------------
Step == {"idle", "check", "write", "fill", "insert", "delete", "kernel list",
         "add start", "boot start", "quota start", "kernel start",
         "remove stop", "quota stop", "kernel stop"}

(* The supervisor of process.go only ever sees ports of Xray instances, a  *)
(* call works on one port, and only such an instance can be orphaned.      *)
TypeOK ==
  /\ config \subseteq Port /\ torn \subseteq config \cap Xray /\ row \subseteq Port
  /\ running \subseteq Port /\ orphans \subseteq Xray /\ excused \subseteq Port
  /\ locked \in BOOLEAN /\ reached \in BOOLEAN /\ blocked \in BOOLEAN /\ up \in BOOLEAN
  /\ events \in Nat /\ flips \in Nat
  /\ thread \in [Thread -> [pc : Step, at : {"out", "inside", "refused"},
                            port : SUBSET Port, seen : BOOLEAN,
                            todo : SUBSET Xray, rest : SUBSET Xray, round : {1, 2}]]
  /\ \A t \in Thread :
       /\ \A p, q \in thread[t].port : p = q
       /\ thread[t].pc \notin {"write", "insert", "delete"} => thread[t].port \subseteq Xray
       /\ thread[t].at = "inside" => thread[t].port # {}

(* While the quota stays reached, no xray instance goes on running: not    *)
(* one that was started from an earlier check, by a kernel operation or by *)
(* the agent's start, and not one that the supervisor has lost.            *)
QuotaStopsProxies ==
  <>[]reached => <>[]((running \cup orphans) \cap Xray = {})

(* Once the quota stays lifted, every configured instance comes back,      *)
(* except where a logged error has left it down; but as long as one file   *)
(* is not whole, all instances may have to wait for it.                    *)
ProxiesComeBack ==
  <>[](~reached) => <>[](torn # {} \/ config \subseteq running \cup excused)
=============================================================================
