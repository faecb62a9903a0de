------------------------ MODULE HostMaintenance_proofs ------------------------
(***************************************************************************)
(* Updates and removals of a node exclude one another, for any number of   *)
(* update jobs, kernel operations and crashes.                             *)
(*                                                                         *)
(* The argument is the product lock's: whoever is past its own reservation *)
(* owns the directory, so no two of the scripts, the service's removal and *)
(* the uninstaller are past theirs.  A program that died may leave the     *)
(* directory behind, which only keeps the others out.                      *)
(*                                                                         *)
(* The marker's argument follows a job from its request to its result      *)
(* (Covered): an update that has been launched and is not finished owns an *)
(* active marker.  With it every step is one of NodeAdmission, or none.    *)
(***************************************************************************)
EXTENDS HostMaintenance, TLAPS

(* Reserved: what update.sh does between its reservation and its release.  *)
Reserved == Past \cup {"locked"}

(* The product lock has one owner.                                         *)
Owned ==
  /\ \A s \in Script : script[s] \in Reserved => product = s
  /\ service = "removing" => product = Service
  /\ uninstall \in {"locked", "removing"} => product = Uninstaller

Exclusive == TypeOK /\ Owned

LEMMA TypeInitially == Init => TypeOK
  BY ProgramsDistinct DEF Init, TypeOK, Script, Status

(* Every step keeps every variable's type.                                 *)
LEMMA TypeSteps == TypeOK /\ [Next]_vars => TypeOK'
<1> SUFFICES ASSUME TypeOK, [Next]_vars PROVE TypeOK'
  OBVIOUS
<1> USE DEF TypeOK
<1>1. CASE AgentStep \/ AgentDies
  BY <1>1 DEF AgentStep, AgentLocks, AgentAdmits, AgentRefuses, OperationEnds,
       AgentBoots, AgentDies, AgentOnly, updates, node
<1>2. ASSUME NEW t \in {"recover", "inventory", "update", "remove"}, ServiceLocks(t)
      PROVE  TypeOK'
  BY <1>2 DEF ServiceLocks, ServiceOnly, updates, node
<1>3. CASE ServiceStep
  <2> USE DEF ServiceOnly, updates, node, Answer, Script, Status
  <2>1. CASE ServiceRefuses \/ InventoryAnswers
    BY <2>1 DEF ServiceRefuses, InventoryAnswers
  <2>2. CASE Reconcile
    BY <2>2 DEF Reconcile
  <2>3. CASE Mark \/ Recovered
    BY <2>3 DEF Mark, Recovered, MarkerOf
  <2>4. CASE UpdateQueued
    BY <2>4 DEF UpdateQueued
  <2>5. CASE UpdateMarked \/ LaunchFailureMarked
    BY <2>5 DEF UpdateMarked, LaunchFailureMarked, MarkerOf
  <2>6. CASE WorkerLaunched
    <3>1. worker' = [j \in Job |-> IF j = record.job THEN "starting" ELSE worker[j]]
      BY <2>6, Zenon DEF WorkerLaunched
    <3>2. service' = "idle" /\ task' = "none" /\ flock' = Nobody
      BY <2>6 DEF WorkerLaunched
    <3>3. UNCHANGED <<product, updates, node, removal, script, uninstall, crashes>>
      BY <2>6 DEF WorkerLaunched
    <3> QED
      BY <3>1, <3>2, <3>3
  <2>7. CASE LaunchFailed
    BY <2>7 DEF LaunchFailed
  <2>8. CASE RemovalStarts \/ RemovalEnds
    BY <2>8 DEF RemovalStarts, RemovalEnds
  <2> QED
    BY <1>3, <2>1, <2>2, <2>3, <2>4, <2>5, <2>6, <2>7, <2>8 DEF ServiceStep
<1>4. CASE ServiceDies
  BY <1>4 DEF ServiceDies, updates, node
<1>5. ASSUME NEW j \in Job, WorkerStep(j) \/ WorkerDies(j) \/ UnitKilled(j)
      PROVE  TypeOK'
  <2> USE <1>5 DEF WorkerOnly, updates, node, Script, Status
  <2>1. CASE WorkerTurnsAway(j) \/ UnitStops(j)
    BY <2>1 DEF WorkerTurnsAway, UnitStops
  <2>2. CASE WorkerBegins(j)
    BY <2>2 DEF WorkerBegins
  <2>3. CASE WorkerExecutes(j)
    BY <2>3 DEF WorkerExecutes, MarkerOf, Early
  <2>4. CASE WorkerRecords(j)
    BY <2>4 DEF WorkerRecords
  <2>5. CASE WorkerMarks(j)
    BY <2>5 DEF WorkerMarks, MarkerOf
  <2>6. CASE WorkerDies(j)
    BY <2>6 DEF WorkerDies, Interrupted, Early, Past
  <2>7. CASE UnitKilled(j)
    BY <2>7 DEF UnitKilled
  <2> QED
    BY <2>1, <2>2, <2>3, <2>4, <2>5, <2>6, <2>7 DEF WorkerStep
<1>6. CASE CliStarts \/ CliKilled
  BY <1>6 DEF CliStarts, CliKilled, ScriptOnly, Move, Script, Early, Past
<1>7. ASSUME NEW s \in Script, ScriptStep(s)
      PROVE  TypeOK'
  <2> USE <1>7 DEF ScriptOnly, Move, Early, Past
  <2>1. CASE ScriptReserves(s) \/ ScriptHaltsService(s) \/ ScriptStopsAgent(s)
             \/ ScriptDeploys(s) \/ ScriptCommits(s)
    BY <2>1 DEF ScriptReserves, ScriptHaltsService, ScriptStopsAgent, ScriptDeploys, ScriptCommits
  <2>2. CASE ScriptAdmits(s)
    BY <2>2 DEF ScriptAdmits, Script, Status
  <2>3. CASE ScriptFails(s) \/ ScriptCannotRestore(s)
    BY <2>3 DEF ScriptFails, ScriptCannotRestore, Interrupted
  <2>4. CASE ScriptSucceeds(s) \/ ScriptLeaves(s) \/ ScriptRestores(s)
    BY <2>4 DEF ScriptSucceeds, ScriptLeaves, ScriptRestores, ReleaseProduct, ClearMarker, Script, Status
  <2> QED
    BY <2>1, <2>2, <2>3, <2>4 DEF ScriptStep
<1>8. CASE UninstallStep
  BY <1>8 DEF UninstallStep, UninstallReserves, UninstallStarts, UninstallRefuses,
       UninstallEnds, UninstallOnly, updates
<1>9. CASE UNCHANGED vars
  BY <1>9 DEF vars
<1> QED
  BY <1>1, <1>2, <1>3, <1>4, <1>5, <1>6, <1>7, <1>8, <1>9 DEF Next

(* Every variable keeps its type, for any number of jobs and crashes.      *)
THEOREM TypeCorrect == Spec => []TypeOK
<1>1. Init => TypeOK
  BY TypeInitially
<1>2. TypeOK /\ [Next]_vars => TypeOK'
  BY TypeSteps
<1> QED
  BY <1>1, <1>2, PTL DEF Spec

-----------------------------------------------------------------------------
LEMMA OwnedInitially == Init => Owned
  BY DEF Init, Owned, Script, Reserved, Past

(* Every step leaves the product lock with its owner: it is taken only     *)
(* while it is free and given back only by the program that owns it.       *)
LEMMA OwnedSteps == Exclusive /\ [Next]_vars => Owned'
<1> SUFFICES ASSUME TypeOK, Owned, [Next]_vars PROVE Owned'
  BY DEF Exclusive
<1> USE ProgramsDistinct DEF Owned, Script
<1>1. CASE AgentStep \/ AgentDies
  BY <1>1 DEF AgentStep, AgentLocks, AgentAdmits, AgentRefuses, OperationEnds,
       AgentBoots, AgentDies, AgentOnly, updates, node
<1>2. ASSUME NEW t \in {"recover", "inventory", "update", "remove"}, ServiceLocks(t)
      PROVE  Owned'
  BY <1>2 DEF ServiceLocks, ServiceOnly, updates, node
<1>3. CASE ServiceStep
  <2> USE DEF ServiceOnly, updates, node, Answer
  <2>1. CASE ServiceRefuses \/ InventoryAnswers \/ Reconcile \/ Mark \/ Recovered
    BY <2>1 DEF ServiceRefuses, InventoryAnswers, Reconcile, Mark, Recovered
  <2>2. CASE UpdateQueued \/ UpdateMarked \/ LaunchFailureMarked \/ WorkerLaunched \/ LaunchFailed
    BY <2>2 DEF UpdateQueued, UpdateMarked, LaunchFailureMarked, WorkerLaunched, LaunchFailed
  <2>3. CASE RemovalStarts
    BY <2>3 DEF RemovalStarts
  <2>4. CASE RemovalEnds
    BY <2>4 DEF RemovalEnds
  <2> QED
    BY <1>3, <2>1, <2>2, <2>3, <2>4 DEF ServiceStep
<1>4. CASE ServiceDies
  BY <1>4 DEF ServiceDies, updates, node
<1>5. ASSUME NEW j \in Job, WorkerStep(j) \/ WorkerDies(j) \/ UnitKilled(j)
      PROVE  Owned'
  <2> USE <1>5 DEF WorkerOnly, updates, node, Reserved
  <2>1. CASE WorkerTurnsAway(j) \/ UnitStops(j) \/ WorkerBegins(j)
    BY <2>1 DEF WorkerTurnsAway, UnitStops, WorkerBegins
  <2>2. CASE WorkerRecords(j) \/ WorkerMarks(j)
    BY <2>2 DEF WorkerRecords, WorkerMarks
  <2>3. CASE WorkerExecutes(j)
    BY <2>3 DEF WorkerExecutes, Past, TypeOK
  <2>4. CASE WorkerDies(j)
    BY <2>4 DEF WorkerDies, Interrupted, Early, Past, TypeOK
  <2>5. CASE UnitKilled(j)
    BY <2>5 DEF UnitKilled, Past, TypeOK
  <2> QED
    BY <2>1, <2>2, <2>3, <2>4, <2>5 DEF WorkerStep
<1>6. CASE CliStarts \/ CliKilled
  BY <1>6 DEF CliStarts, CliKilled, ScriptOnly, Move, Reserved, Past, Early, TypeOK
<1>7. ASSUME NEW s \in Script, ScriptStep(s)
      PROVE  Owned'
  <2> USE <1>7 DEF ScriptOnly, Move, Early, Past, Reserved, TypeOK
  <2>1. CASE ScriptReserves(s) \/ ScriptAdmits(s)
    BY <2>1 DEF ScriptReserves, ScriptAdmits
  <2>2. CASE ScriptHaltsService(s) \/ ScriptStopsAgent(s) \/ ScriptDeploys(s) \/ ScriptCommits(s)
    BY <2>2 DEF ScriptHaltsService, ScriptStopsAgent, ScriptDeploys, ScriptCommits
  <2>3. CASE ScriptFails(s) \/ ScriptCannotRestore(s)
    BY <2>3 DEF ScriptFails, ScriptCannotRestore, Interrupted
  <2>4. CASE ScriptSucceeds(s) \/ ScriptLeaves(s) \/ ScriptRestores(s)
    BY <2>4 DEF ScriptSucceeds, ScriptLeaves, ScriptRestores, ReleaseProduct
  <2> QED
    BY <2>1, <2>2, <2>3, <2>4 DEF ScriptStep
<1>8. CASE UninstallStep
  BY <1>8 DEF UninstallStep, UninstallReserves, UninstallStarts, UninstallRefuses,
       UninstallEnds, UninstallOnly, updates
<1>9. CASE UNCHANGED vars
  BY <1>9 DEF vars
<1> QED
  BY <1>1, <1>2, <1>3, <1>4, <1>5, <1>6, <1>7, <1>8, <1>9 DEF Next

(* No program uninstalls the containers that update.sh is replacing, for   *)
(* any number of jobs and whichever programs die in between.               *)
THEOREM UpdatesExcludeRemovals == Spec => []UpdateExcludesRemoval
<1>1. Init => Exclusive
  BY TypeInitially, OwnedInitially DEF Exclusive
<1>2. Exclusive /\ [Next]_vars => Exclusive'
  BY TypeSteps, OwnedSteps DEF Exclusive
<1>3. Exclusive => UpdateExcludesRemoval
  BY ProgramsDistinct
     DEF Exclusive, Owned, Reserved, UpdateExcludesRemoval, Removing, Switching, Script
<1> QED
  BY <1>1, <1>2, <1>3, PTL DEF Spec

-----------------------------------------------------------------------------
(* The flock: a request of the service, a worker that is writing and a     *)
(* removal by hand have it to themselves.                                  *)
Serving == {"reconcile", "mark", "act", "queued", "launch", "launch_failed", "removing"}

Turn ==
  /\ service \in Serving => flock = Service
  /\ \A j \in Job : worker[j] \in {"begun", "ended"} => flock = j
  /\ uninstall = "removing" => flock = Uninstaller

(* A job that is unfinished and was launched owns an active marker.        *)
Pending ==
  Active(record.status) =>
    /\ record.job \in Job
    /\ worker[record.job] # "none" =>
         marker.owner = record.job /\ Active(marker.status)

(* What the service has found out, or written, when it gets there.         *)
Answering ==
  /\ service \in Serving \ {"reconcile", "removing"} => ~CliBusy
  /\ service \in {"mark", "launch_failed"} => ~Active(record.status)
  /\ service = "act" /\ Active(record.status) => worker[record.job] # "none"
  /\ service \in {"queued", "launch"} =>
       record.status = "queued" /\ record.job \in Job /\ worker[record.job] = "none"
  /\ service = "queued" => operations = {}
  /\ service = "launch" => marker = MarkerOf(record)

(* The record is the job's for as long as its script may do something,     *)
(* with the worker or after its death.                                     *)
Working ==
  \A j \in Job :
    /\ worker[j] = "begun" => record = [job |-> j, status |-> "running"]
    /\ worker[j] = "ended" => ~Active(record.status) /\ ~CliBusy
    /\ script[j] \in Early \cup Past =>
         /\ worker[j] \in {"running", "deactivating"}
         /\ record = [job |-> j, status |-> "running"]

(* update.sh by hand clears its marker with its last step, or never.       *)
ByHand == script[Cli] \in Past \cup {"wrecked"} => CliBusy

Places == Turn /\ Pending /\ Answering /\ Working /\ ByHand

Covered == TypeOK /\ Places

LEMMA PlacesInitially == Init => Places
  BY ProgramsDistinct
     DEF Init, Places, Turn, Serving, Pending, Answering, Working, ByHand, Active,
         CliBusy, Script, Early, Past

LEMMA AgentPlaces == Covered /\ (AgentStep \/ AgentDies) => Places'
<1> SUFFICES ASSUME Covered, AgentStep \/ AgentDies PROVE Places'
  OBVIOUS
<1> USE ProgramsDistinct
<1>1. /\ flock' = flock \/ {flock, flock'} \subseteq {Agent, Nobody}
      /\ UNCHANGED <<marker, record, service, worker, script, uninstall>>
  BY DEF AgentStep, AgentLocks, AgentAdmits, AgentRefuses, OperationEnds, AgentBoots,
         AgentDies, AgentOnly, updates, node
<1>2. flock = Service => operations' \subseteq operations
  BY DEF AgentStep, AgentLocks, AgentAdmits, AgentRefuses, OperationEnds, AgentBoots,
         AgentDies, AgentOnly, updates, node
<1>3. Turn'
  BY <1>1 DEF Covered, Places, Turn, Serving
<1>4. Answering'
  BY <1>1, <1>2 DEF Covered, Places, Turn, Answering, Serving, CliBusy, Active, MarkerOf
<1>5. Pending' /\ Working' /\ ByHand'
  BY <1>1 DEF Covered, Places, Pending, Working, ByHand, CliBusy, Active
<1> QED
  BY <1>3, <1>4, <1>5 DEF Places

LEMMA RequestPlaces ==
  ASSUME Covered, NEW t \in {"recover", "inventory", "update", "remove"}, ServiceLocks(t)
  PROVE  Places'
<1> USE ProgramsDistinct
<1>1. /\ flock = Nobody /\ flock' = Service /\ service' = "reconcile"
      /\ UNCHANGED <<marker, record, operations, worker, script, uninstall>>
  BY DEF ServiceLocks, ServiceOnly, updates, node
<1>2. Turn' /\ Answering'
  BY <1>1 DEF Covered, Places, Turn, Answering, Serving
<1>3. Pending' /\ Working' /\ ByHand'
  BY <1>1 DEF Covered, Places, Pending, Working, ByHand, CliBusy, Active
<1> QED
  BY <1>2, <1>3 DEF Places

(* The service's steps: it has the lock, so no worker is writing, and the  *)
(* marker is not the CLI's once it has looked.                             *)
LEMMA ServicePlaces == Covered /\ ServiceStep => Places'
<1> SUFFICES ASSUME Covered, ServiceStep PROVE Places'
  OBVIOUS
<1> USE ProgramsDistinct
<1> USE DEF Covered, Places
<1>1. /\ service \in Serving /\ flock = Service
      /\ UNCHANGED <<script, uninstall>>
  BY DEF ServiceStep, ServiceRefuses, Reconcile, Mark, InventoryAnswers, Recovered,
         UpdateQueued, UpdateMarked, WorkerLaunched, LaunchFailed, LaunchFailureMarked,
         RemovalStarts, RemovalEnds, ServiceOnly, Serving, Turn
<1>2. \A j \in Job : worker[j] \notin {"begun", "ended"}
  BY <1>1 DEF Turn
<1>3. uninstall # "removing"
  BY <1>1 DEF Turn
<1>4. TypeOK
  OBVIOUS
<1> USE DEF ServiceOnly, updates, node, Answer
<1>5. CASE ServiceRefuses \/ InventoryAnswers
  <2>1. service' = "idle" /\ UNCHANGED <<marker, record, operations, worker>>
    BY <1>5 DEF ServiceRefuses, InventoryAnswers
  <2>2. Turn' /\ Answering'
    BY <1>1, <1>2, <1>3, <2>1 DEF Turn, Answering, Serving
  <2>3. Pending' /\ Working' /\ ByHand'
    BY <1>1, <2>1 DEF Pending, Working, ByHand, CliBusy, Active
  <2> QED
    BY <2>2, <2>3
<1>6. CASE Reconcile
  <2>1. Turn'
    BY <1>1, <1>6 DEF Reconcile, Turn, Serving
  <2>2. Pending'
    BY <1>4, <1>6 DEF Reconcile, Pending, Active, TypeOK
  <2>3. Answering'
    BY <1>4, <1>6 DEF Reconcile, Answering, Pending, Serving, CliBusy, Active, UnitAlive, TypeOK
  <2>4. Working'
    <3> SUFFICES ASSUME NEW j \in Job, script[j] \in Early \cup Past
                 PROVE  record' = [job |-> j, status |-> "running"]
      BY <1>1, <1>2, <1>6 DEF Working, Reconcile
    <3>1. record.job = j /\ worker[j] \in {"running", "deactivating"}
      BY DEF Working
    <3>2. UnitAlive(record.job)
      BY <3>1 DEF UnitAlive
    <3> QED
      BY <1>6, <3>2 DEF Reconcile, Working
  <2>5. ByHand'
    BY <1>1, <1>6 DEF Reconcile, ByHand, CliBusy, Active
  <2> QED
    BY <2>1, <2>2, <2>3, <2>4, <2>5
<1>7. CASE Mark \/ LaunchFailureMarked
  <2>1. /\ ~Active(record.status) /\ ~CliBusy
        /\ marker' = MarkerOf(record) /\ service' \in {"act", "idle"}
        /\ service' = "act" => flock' = flock
        /\ UNCHANGED <<record, operations, worker>>
    BY <1>7 DEF Mark, LaunchFailureMarked, Answering, Serving
  <2>2. Turn' /\ Pending'
    BY <1>1, <1>2, <1>3, <2>1 DEF Turn, Pending, Serving, Active
  <2>3. ~CliBusy'
    BY <2>1 DEF CliBusy, Active, MarkerOf
  <2>4. Answering' /\ ByHand'
    BY <1>1, <2>1, <2>3 DEF Answering, Serving, ByHand, Active
  <2>5. Working'
    BY <1>1, <1>2, <2>1 DEF Working
  <2> QED
    BY <2>2, <2>4, <2>5
<1>8. CASE Recovered
  <2>1. /\ service = "act" /\ service' = "idle" /\ UNCHANGED <<record, operations, worker>>
        /\ marker' = marker \/ (marker' = MarkerOf(record) /\ record.job # Nobody)
    BY <1>8 DEF Recovered
  <2>2. Turn' /\ Answering'
    BY <1>1, <1>2, <1>3, <2>1 DEF Turn, Answering, Serving
  <2>3. Pending'
    BY <2>1 DEF Pending, Active, MarkerOf
  <2>4. Working' /\ ByHand'
    BY <1>1, <1>2, <2>1 DEF Working, ByHand, Answering, Serving
  <2> QED
    BY <2>2, <2>3, <2>4
<1>9. CASE UpdateQueued
  <2>1. PICK j \in Job :
          /\ worker[j] = "unused"
          /\ worker' = [worker EXCEPT ![j] = "none"]
          /\ record' = [job |-> j, status |-> "queued"]
    BY <1>9 DEF UpdateQueued
  <2>2. /\ service = "act" /\ ~Active(record.status) /\ operations = {}
        /\ service' = "queued" /\ UNCHANGED <<flock, marker, operations>>
    BY <1>9 DEF UpdateQueued
  <2>3. worker'[j] = "none" /\ \A i \in Job \ {j} : worker'[i] = worker[i]
    BY <2>1 DEF TypeOK
  <2>4. Turn' /\ Pending'
    BY <1>1, <1>2, <1>3, <2>1, <2>2, <2>3 DEF Turn, Pending, Serving
  <2>5. Answering'
    BY <2>1, <2>2, <2>3 DEF Answering, Serving, CliBusy, Active
  <2>6. Working' /\ ByHand'
    BY <1>1, <1>2, <2>1, <2>2, <2>3 DEF Working, ByHand, CliBusy, Active
  <2> QED
    BY <2>4, <2>5, <2>6
<1>10. CASE UpdateMarked
  <2>1. /\ service = "queued" /\ service' = "launch" /\ marker' = MarkerOf(record)
        /\ UNCHANGED <<flock, record, operations, worker>>
    BY <1>10 DEF UpdateMarked
  <2>2. record.status = "queued" /\ record.job \in Job /\ worker[record.job] = "none"
    BY <2>1 DEF Answering
  <2>3. Turn' /\ Pending'
    BY <1>1, <2>1, <2>2 DEF Turn, Pending, Serving
  <2>4. Answering'
    BY <2>1, <2>2 DEF Answering, Serving, CliBusy, MarkerOf
  <2>5. Working' /\ ByHand'
    BY <1>1, <1>2, <2>1 DEF Working, ByHand, Answering, Serving
  <2> QED
    BY <2>3, <2>4, <2>5
<1>11. CASE WorkerLaunched
  <2>1. /\ service = "launch" /\ service' = "idle"
        /\ worker' = [worker EXCEPT ![record.job] = "starting"]
        /\ UNCHANGED <<marker, record, operations>>
    BY <1>11 DEF WorkerLaunched
  <2>2. /\ record.job \in Job /\ record.status = "queued" /\ worker[record.job] = "none"
        /\ marker = MarkerOf(record)
    BY <2>1 DEF Answering
  <2>3. /\ worker'[record.job] = "starting"
        /\ \A i \in Job : i # record.job => worker'[i] = worker[i]
    BY <2>1, <2>2 DEF TypeOK
  <2>4. Turn' /\ Answering'
    BY <1>1, <1>2, <1>3, <2>1, <2>3 DEF Turn, Answering, Serving
  <2>5. Pending'
    BY <2>1, <2>2 DEF Pending, Active, MarkerOf
  <2>6. Working' /\ ByHand'
    BY <1>1, <1>2, <2>1, <2>2, <2>3 DEF Working, ByHand, CliBusy, Active
  <2> QED
    BY <2>4, <2>5, <2>6
<1>12. CASE LaunchFailed
  <2>1. /\ service = "launch" /\ service' = "launch_failed"
        /\ worker' \in {worker, [worker EXCEPT ![record.job] = "starting"]}
        /\ record' = [record EXCEPT !.status = "failed"]
        /\ UNCHANGED <<flock, marker, operations>>
    BY <1>12 DEF LaunchFailed
  <2>2. record.job \in Job /\ record.status = "queued" /\ worker[record.job] = "none"
    BY <2>1 DEF Answering
  <2>3. \A i \in Job : \/ worker'[i] = worker[i]
                        \/ (worker'[i] = "starting" /\ i = record.job)
    <3>1. CASE worker' = worker
      BY <3>1
    <3>2. CASE worker' = [worker EXCEPT ![record.job] = "starting"]
      BY <2>2, <3>2 DEF TypeOK
    <3> QED
      BY <2>1, <3>1, <3>2
  <2>4. ~Active(record'.status)
    BY <2>1 DEF TypeOK, Active
  <2>5. Turn' /\ Pending'
    BY <1>1, <1>2, <1>3, <2>1, <2>3, <2>4 DEF Turn, Pending, Serving, Active
  <2>6. Answering'
    BY <2>1, <2>4 DEF Answering, Serving, CliBusy, Active
  <2>7. Working' /\ ByHand'
    BY <1>1, <1>2, <2>1, <2>2, <2>3 DEF Working, ByHand, CliBusy, Active
  <2> QED
    BY <2>5, <2>6, <2>7
<1>13. CASE RemovalStarts \/ RemovalEnds
  <2>1. /\ (service' = "removing" /\ flock' = flock) \/ service' = "idle"
        /\ UNCHANGED <<marker, record, operations, worker>>
    BY <1>13 DEF RemovalStarts, RemovalEnds
  <2>2. Turn' /\ Answering'
    BY <1>1, <1>2, <1>3, <2>1 DEF Turn, Answering, Serving
  <2>3. Pending' /\ Working' /\ ByHand'
    BY <1>1, <2>1 DEF Pending, Working, ByHand, CliBusy, Active
  <2> QED
    BY <2>2, <2>3
<1> QED
  BY <1>5, <1>6, <1>7, <1>8, <1>9, <1>10, <1>11, <1>12, <1>13 DEF ServiceStep

LEMMA ServiceDeathPlaces == Covered /\ ServiceDies => Places'
<1> SUFFICES ASSUME Covered, ServiceDies PROVE Places'
  OBVIOUS
<1> USE ProgramsDistinct
<1>1. /\ service' = "starting" /\ flock' = IF flock = Service THEN Nobody ELSE flock
      /\ UNCHANGED <<marker, record, operations, worker, script, uninstall>>
  BY DEF ServiceDies, updates, node
<1>2. Turn' /\ Answering'
  BY <1>1 DEF Covered, Places, Turn, Answering, Serving
<1>3. Pending' /\ Working' /\ ByHand'
  BY <1>1 DEF Covered, Places, Pending, Working, ByHand, CliBusy, Active
<1> QED
  BY <1>2, <1>3 DEF Places

(* The workers' steps: a worker writes the record only while it is its     *)
(* own, and under the lock.                                                *)
LEMMA WorkerPlaces ==
  ASSUME Covered, NEW j \in Job, WorkerStep(j) \/ WorkerDies(j) \/ UnitKilled(j)
  PROVE  Places'
<1> USE ProgramsDistinct
<1> USE DEF Covered, Places
<1>1. service' = service /\ uninstall' = uninstall /\ operations' = operations
  BY DEF WorkerStep, WorkerTurnsAway, WorkerBegins, WorkerExecutes, WorkerRecords,
         WorkerMarks, UnitStops, WorkerDies, UnitKilled, WorkerOnly, node
<1>2. TypeOK
  OBVIOUS
<1>3. \A i \in Job \ {j} : worker'[i] = worker[i] /\ script'[i] = script[i]
  BY <1>2 DEF WorkerStep, WorkerTurnsAway, WorkerBegins, WorkerExecutes, WorkerRecords,
         WorkerMarks, UnitStops, WorkerDies, UnitKilled, TypeOK, Script
<1>4. script'[Cli] = script[Cli]
  BY <1>2 DEF WorkerStep, WorkerTurnsAway, WorkerBegins, WorkerExecutes, WorkerRecords,
         WorkerMarks, UnitStops, WorkerDies, UnitKilled, TypeOK, Script
<1> USE DEF WorkerOnly, updates, node
<1>5. CASE WorkerTurnsAway(j) \/ UnitStops(j)
  <2>1. /\ worker[j] \in {"starting", "deactivating"} /\ worker'[j] = "dead"
        /\ worker[j] = "starting" \/ script[j] \in {"ok", "failed"}
        /\ UNCHANGED <<flock, marker, record, script>>
    BY <1>2, <1>5 DEF WorkerTurnsAway, UnitStops, TypeOK
  <2>2. Turn'
    BY <1>1, <1>3, <2>1 DEF Turn, Serving
  <2>3. Pending' /\ Answering'
    BY <1>1, <1>3, <2>1 DEF Pending, Answering, Serving, CliBusy, Active, MarkerOf
  <2>4. Working' /\ ByHand'
    BY <1>1, <1>3, <2>1 DEF Working, ByHand, CliBusy, Active, Early, Past
  <2> QED
    BY <2>2, <2>3, <2>4
<1>6. CASE WorkerBegins(j)
  <2>1. /\ worker[j] = "starting" /\ flock = Nobody /\ flock' = j /\ ~CliBusy
        /\ record = [job |-> j, status |-> "queued"]
        /\ \/ /\ record' = [record EXCEPT !.status = "running"]
              /\ worker'[j] = "begun"
           \/ /\ record' = [record EXCEPT !.status = "failed"]
              /\ worker'[j] = "ended"
        /\ UNCHANGED <<marker, script>>
    BY <1>2, <1>6 DEF WorkerBegins, TypeOK
  <2>2. record' \in {[job |-> j, status |-> "running"], [job |-> j, status |-> "failed"]}
    BY <2>1
  <2>3. \A i \in Job : script[i] \notin Early \cup Past
    BY <2>1 DEF Working
  <2>4. Turn'
    BY <1>1, <1>3, <2>1 DEF Turn, Serving
  <2>5. Pending'
    BY <2>1, <2>2 DEF Pending, Active
  <2>6. Answering'
    BY <1>1, <2>1 DEF Turn, Answering, Serving
  <2>7. Working'
    BY <1>3, <2>1, <2>2, <2>3 DEF Turn, Working, CliBusy, Active
  <2>8. ByHand'
    BY <1>4, <2>1 DEF ByHand, CliBusy
  <2> QED
    BY <2>4, <2>5, <2>6, <2>7, <2>8
<1>7. CASE WorkerExecutes(j)
  <2>1. /\ worker[j] = "begun" /\ worker'[j] = "running" /\ flock' = Nobody
        /\ marker' = MarkerOf(record) /\ script'[j] = "begin" /\ record' = record
    BY <1>2, <1>7 DEF WorkerExecutes, TypeOK, Script
  <2>2. record = [job |-> j, status |-> "running"] /\ flock = j
    BY <2>1 DEF Working, Turn
  <2>3. service \notin Serving /\ uninstall # "removing"
    BY <2>2 DEF Turn
  <2>4. \A i \in Job \ {j} : worker[i] \notin {"begun", "ended"}
    BY <2>2 DEF Turn
  <2>5. Turn' /\ Answering'
    BY <1>1, <1>3, <2>1, <2>3, <2>4 DEF Turn, Answering, Serving
  <2>6. Pending'
    BY <2>1, <2>2 DEF Pending, Active, MarkerOf
  <2>7. Working'
    <3>1. \A i \in Job \ {j} :
             script[i] \notin Early \cup Past /\ worker[i] \notin {"begun", "ended"}
      BY <2>2, <2>4 DEF Working
    <3>2. \A i \in Job : worker'[i] \notin {"begun", "ended"}
      BY <1>3, <2>1, <3>1
    <3>3. \A i \in Job : script'[i] \in Early \cup Past =>
             worker'[i] = "running" /\ record' = [job |-> i, status |-> "running"]
      BY <1>3, <2>1, <2>2, <3>1
    <3> QED
      BY <3>2, <3>3 DEF Working
  <2>8. ByHand'
    BY <1>4, <2>1, <2>2 DEF ByHand, CliBusy, Pending, Active
  <2> QED
    BY <2>5, <2>6, <2>7, <2>8
<1>8. CASE WorkerRecords(j)
  <2>1. worker[j] = "running" /\ script[j] \in {"ok", "failed"} /\ flock = Nobody
        /\ UNCHANGED <<marker, script>>
    BY <1>8 DEF WorkerRecords
  <2>2. service \notin Serving /\ uninstall # "removing"
        /\ \A i \in Job : worker[i] \notin {"begun", "ended"}
    BY <2>1 DEF Turn
  <2>3. \/ /\ record = [job |-> j, status |-> "running"]
           /\ record' = [record EXCEPT !.status =
                            IF script[j] = "ok" THEN "succeeded" ELSE "failed"]
           /\ flock' = j /\ worker'[j] = "ended"
        \/ worker'[j] = "dead" /\ UNCHANGED <<record, flock>>
    BY <1>2, <1>8 DEF WorkerRecords, TypeOK
  <2>4. CASE worker'[j] = "dead" /\ UNCHANGED <<record, flock>>
    <3>1. Turn' /\ Answering'
      BY <1>1, <1>3, <2>2, <2>4 DEF Turn, Answering, Serving
    <3>2. Pending' /\ Working'
      BY <1>3, <2>1, <2>2, <2>4 DEF Pending, Working, Active, Early, Past
    <3>3. ByHand'
      BY <1>4, <2>1 DEF ByHand, CliBusy
    <3> QED
      BY <3>1, <3>2, <3>3
  <2>5. CASE /\ record = [job |-> j, status |-> "running"]
             /\ record' = [record EXCEPT !.status =
                              IF script[j] = "ok" THEN "succeeded" ELSE "failed"]
             /\ flock' = j /\ worker'[j] = "ended"
    <3>1. ~Active(record'.status)
      BY <2>5 DEF Active
    <3>2. marker.owner = j
      BY <2>1, <2>5 DEF Pending, Active
    <3>3. ~CliBusy'
      BY <2>1, <3>2 DEF CliBusy
    <3>4. Turn' /\ Answering'
      BY <1>1, <1>3, <2>2, <2>5 DEF Turn, Answering, Serving
    <3>5. Pending'
      BY <3>1 DEF Pending, Active
    <3>6. \A i \in Job : script[i] \notin Early \cup Past
      BY <2>1, <2>5 DEF Working, Early, Past
    <3>7. Working'
      <4>1. \A i \in Job : worker'[i] # "begun" /\ script'[i] \notin Early \cup Past
        BY <1>3, <2>1, <2>2, <2>5, <3>6
      <4>2. \A i \in Job : worker'[i] = "ended" => ~Active(record'.status) /\ ~CliBusy'
        BY <3>1, <3>3
      <4> QED
        BY <4>1, <4>2 DEF Working, Active, CliBusy
    <3>8. ByHand'
      BY <1>4, <2>1 DEF ByHand, CliBusy
    <3> QED
      BY <3>4, <3>5, <3>7, <3>8
  <2> QED
    BY <2>3, <2>4, <2>5
<1>9. CASE WorkerMarks(j)
  <2>1. /\ worker[j] = "ended" /\ worker'[j] = "dead" /\ flock' = Nobody
        /\ marker' = MarkerOf(record) /\ UNCHANGED <<record, script>>
    BY <1>2, <1>9 DEF WorkerMarks, TypeOK
  <2>2. ~Active(record.status) /\ ~CliBusy /\ flock = j
    BY <2>1 DEF Working, Turn
  <2>3. service \notin Serving /\ uninstall # "removing"
        /\ \A i \in Job \ {j} : worker[i] \notin {"begun", "ended"}
    BY <2>2 DEF Turn
  <2>4. Turn' /\ Answering'
    BY <1>1, <1>3, <2>1, <2>3 DEF Turn, Answering, Serving
  <2>5. Pending' /\ Working'
    BY <1>3, <2>1, <2>2, <2>3 DEF Pending, Working, Active
  <2>6. ByHand'
    BY <1>4, <2>2 DEF ByHand
  <2> QED
    BY <2>4, <2>5, <2>6
<1>10. CASE WorkerDies(j) \/ UnitKilled(j)
  <2>1. /\ worker[j] \notin {"unused", "none", "dead"}
        /\ flock' = IF flock = j THEN Nobody ELSE flock
        /\ UNCHANGED <<marker, record>>
    BY <1>10 DEF WorkerDies, UnitKilled, UnitAlive
  <2>2. \/ worker'[j] = "dead" /\ script'[j] \notin Early \cup Past
        \/ worker'[j] = "deactivating" /\ script[j] \in Early \cup Past
    <3>1. CASE WorkerDies(j)
      BY <1>2, <3>1 DEF WorkerDies, TypeOK, Script
    <3>2. CASE UnitKilled(j)
      BY <1>2, <3>2 DEF UnitKilled, TypeOK, Script, Early, Past
    <3> QED
      BY <1>10, <3>1, <3>2
  <2>3. Turn'
    BY <1>1, <1>3, <2>1, <2>2 DEF Turn, Serving
  <2>4. Pending' /\ Answering'
    BY <1>1, <1>3, <2>1, <2>2 DEF Pending, Answering, Serving, CliBusy, Active, MarkerOf
  <2>5. Working'
    BY <1>3, <2>1, <2>2 DEF Working, CliBusy, Active
  <2>6. ByHand'
    BY <1>4, <2>1 DEF ByHand, CliBusy
  <2> QED
    BY <2>3, <2>4, <2>5, <2>6
<1> QED
  BY <1>5, <1>6, <1>7, <1>8, <1>9, <1>10 DEF WorkerStep

(* A run by hand: it is past its admission with its own marker only, and   *)
(* the marker goes with the script's last step.                            *)
LEMMA CliPlaces == Covered /\ (CliStarts \/ CliKilled) => Places'
<1> SUFFICES ASSUME Covered, CliStarts \/ CliKilled PROVE Places'
  OBVIOUS
<1> USE ProgramsDistinct
<1>1. /\ UNCHANGED <<flock, marker, record, operations, service, worker, uninstall>>
      /\ \A j \in Job : script'[j] = script[j]
      /\ script'[Cli] \in Past \cup {"wrecked"} => script[Cli] \in Past
  BY DEF CliStarts, CliKilled, Move, ScriptOnly, Covered, TypeOK, Script, Early, Past
<1>2. Turn' /\ Answering'
  BY <1>1 DEF Covered, Places, Turn, Answering, Serving, CliBusy, Active, MarkerOf
<1>3. Pending' /\ Working' /\ ByHand'
  BY <1>1 DEF Covered, Places, Pending, Working, ByHand, CliBusy, Active
<1> QED
  BY <1>2, <1>3 DEF Places

LEMMA UninstallPlaces == Covered /\ UninstallStep => Places'
<1> SUFFICES ASSUME Covered, UninstallStep PROVE Places'
  OBVIOUS
<1> USE ProgramsDistinct
<1>1. UNCHANGED <<marker, record, operations, worker, script>>
  BY DEF UninstallStep, UninstallReserves, UninstallStarts, UninstallRefuses,
         UninstallEnds, UninstallOnly, updates
<1>2. Turn'
  BY DEF UninstallStep, UninstallReserves, UninstallStarts, UninstallRefuses,
         UninstallEnds, UninstallOnly, Covered, Places, Turn, Serving
<1>3. service' \in {service, "down"}
  BY DEF UninstallStep, UninstallReserves, UninstallStarts, UninstallRefuses, UninstallEnds
<1>4. Answering'
  BY <1>1, <1>3 DEF Covered, Places, Answering, Serving, CliBusy, Active, MarkerOf
<1>5. Pending' /\ Working' /\ ByHand'
  BY <1>1 DEF Covered, Places, Pending, Working, ByHand, CliBusy, Active
<1> QED
  BY <1>2, <1>4, <1>5 DEF Places

(* update.sh writes the marker under the free lock only: its own when it is *)
(* admitted by hand, none when it ends.                                    *)
LEMMA ScriptMarker ==
  ASSUME TypeOK, NEW s \in Script, ScriptStep(s)
  PROVE  \/ marker' = marker /\ ~ (s = Cli /\ script[s] = "locked" /\ script'[s] = "admitted")
         \/ /\ s = Cli /\ flock = Nobody /\ ~Active(marker.status)
            /\ marker' = [owner |-> Cli, status |-> "running"]
         \/ /\ s = Cli /\ flock = Nobody /\ marker.owner = Cli
            /\ marker' = [owner |-> Nobody, status |-> "succeeded"]
            /\ script'[s] = "none"
<1> USE DEF Move, Early, Past, TypeOK
<1>1. CASE ScriptReserves(s) \/ ScriptHaltsService(s) \/ ScriptStopsAgent(s)
           \/ ScriptDeploys(s) \/ ScriptCommits(s) \/ ScriptLeaves(s)
  BY <1>1 DEF ScriptReserves, ScriptHaltsService, ScriptStopsAgent, ScriptDeploys,
              ScriptCommits, ScriptLeaves
<1>2. CASE ScriptFails(s) \/ ScriptCannotRestore(s)
  BY <1>2 DEF ScriptFails, ScriptCannotRestore, Interrupted
<1>3. CASE ScriptAdmits(s)
  BY <1>3 DEF ScriptAdmits
<1>4. CASE ScriptSucceeds(s) \/ ScriptRestores(s)
  BY <1>4 DEF ScriptSucceeds, ScriptRestores, ClearMarker
<1> QED
  BY <1>1, <1>2, <1>3, <1>4 DEF ScriptStep

LEMMA ScriptPlaces ==
  ASSUME Covered, NEW s \in Script, ScriptStep(s)
  PROVE  Places'
<1> USE ProgramsDistinct
<1>1. UNCHANGED <<record, operations, worker, uninstall>>
  BY DEF ScriptStep, ScriptReserves, ScriptAdmits, ScriptHaltsService, ScriptStopsAgent,
         ScriptDeploys, ScriptCommits, ScriptFails, ScriptSucceeds, ScriptLeaves,
         ScriptRestores, ScriptCannotRestore, ScriptOnly
<1>2. TypeOK /\ Turn /\ Pending /\ Answering /\ Working /\ ByHand
  BY DEF Covered, Places
<1>3. /\ \/ service' = service /\ (flock' = flock \/ (flock = Agent /\ flock' = Nobody))
         \/ service' = "starting" /\ flock' = flock
         \/ service' = "down" /\ flock' = IF flock = Service THEN Nobody ELSE flock
  BY DEF ScriptStep, ScriptReserves, ScriptAdmits, ScriptHaltsService, ScriptStopsAgent,
         ScriptDeploys, ScriptCommits, ScriptFails, ScriptSucceeds, ScriptLeaves,
         ScriptRestores, ScriptCannotRestore
<1>4. /\ \A i \in Script \ {s} : script'[i] = script[i]
      /\ script'[s] \in Early \cup Past => script[s] \in Early \cup Past
      /\ script'[s] \in Past \cup {"wrecked"} =>
           script[s] \in Past \/ (script[s] = "locked" /\ script'[s] = "admitted")
  <2> USE <1>2 DEF Move, Early, Past, TypeOK
  <2>1. CASE ScriptFails(s) \/ ScriptCannotRestore(s)
    BY <2>1 DEF ScriptFails, ScriptCannotRestore, Interrupted
  <2>2. CASE ~ (ScriptFails(s) \/ ScriptCannotRestore(s))
    BY <2>2 DEF ScriptStep, ScriptReserves, ScriptAdmits, ScriptHaltsService,
         ScriptStopsAgent, ScriptDeploys, ScriptCommits, ScriptSucceeds, ScriptLeaves,
         ScriptRestores
  <2> QED
    BY <2>1, <2>2
<1>5. Turn'
  BY <1>1, <1>2, <1>3 DEF Turn, Serving
<1>6. CASE marker' = marker /\ ~ (s = Cli /\ script[s] = "locked" /\ script'[s] = "admitted")
  <2>1. Answering'
    BY <1>1, <1>2, <1>3, <1>6 DEF Answering, Serving, CliBusy, Active, MarkerOf
  <2>2. Pending'
    BY <1>1, <1>2, <1>6 DEF Pending, Active
  <2>3. Working'
    BY <1>1, <1>2, <1>4, <1>6 DEF Working, CliBusy, Active, Script
  <2>4. ByHand'
    BY <1>2, <1>4, <1>6 DEF ByHand, CliBusy, Active, Script
  <2> QED
    BY <1>5, <2>1, <2>2, <2>3, <2>4 DEF Places
<1>7. CASE /\ s = Cli /\ flock = Nobody /\ ~Active(marker.status)
           /\ marker' = [owner |-> Cli, status |-> "running"]
  <2>1. service' \notin Serving /\ \A j \in Job : worker[j] \notin {"begun", "ended"}
    BY <1>2, <1>3, <1>7 DEF Turn, Serving
  <2>2. Answering' /\ ByHand'
    BY <1>7, <2>1 DEF Answering, Serving, ByHand, CliBusy, Active
  <2>3. Pending'
    BY <1>1, <1>2, <1>7 DEF Pending, Active
  <2>4. Working'
    BY <1>1, <1>2, <1>4, <1>7, <2>1 DEF Working, Script
  <2> QED
    BY <1>5, <2>2, <2>3, <2>4 DEF Places
<1>8. CASE /\ s = Cli /\ flock = Nobody /\ marker.owner = Cli
           /\ marker' = [owner |-> Nobody, status |-> "succeeded"]
           /\ script'[s] = "none"
  <2>1. service' \notin Serving /\ \A j \in Job : worker[j] \notin {"begun", "ended"}
    BY <1>2, <1>3, <1>8 DEF Turn, Serving
  <2>2. Answering' /\ ByHand'
    BY <1>8, <2>1 DEF Answering, Serving, ByHand, Past
  <2>3. Pending'
    BY <1>1, <1>2, <1>8 DEF Pending, Active
  <2>4. Working'
    BY <1>1, <1>2, <1>4, <1>8, <2>1 DEF Working, Script
  <2> QED
    BY <1>5, <2>2, <2>3, <2>4 DEF Places
<1> QED
  BY <1>2, <1>6, <1>7, <1>8, ScriptMarker

LEMMA CoveredSteps == Covered /\ [Next]_vars => Covered'
<1> SUFFICES ASSUME Covered, [Next]_vars PROVE Places'
  BY TypeSteps DEF Covered
<1>1. CASE UNCHANGED vars
  BY <1>1 DEF vars, Covered, Places, Turn, Pending, Answering, Working, ByHand, CliBusy,
              Active, MarkerOf
<1> QED
  BY <1>1, AgentPlaces, RequestPlaces, ServicePlaces, ServiceDeathPlaces, WorkerPlaces,
     CliPlaces, ScriptPlaces, UninstallPlaces DEF Next

LEMMA CoveredAlways == Spec => []Covered
<1>1. Init => Covered
  BY TypeInitially, PlacesInitially DEF Covered
<1> QED
  BY <1>1, CoveredSteps, PTL DEF Spec

(* While update.sh may have the containers in pieces the marker is active  *)
(* and its own, for any number of jobs, runs by hand and deaths.           *)
THEOREM MarkerAlwaysCovers == Spec => []MarkerCoversSwitch
<1>1. Covered => MarkerCoversSwitch
  <2> SUFFICES ASSUME Covered PROVE MarkerCoversSwitch
    OBVIOUS
  <2>1. ASSUME NEW j \in Job, script[j] \in Past
        PROVE  Active(marker.status) /\ marker.owner = j
    <3>1. record = [job |-> j, status |-> "running"] /\ worker[j] # "none"
      BY <2>1 DEF Covered, Places, Working
    <3>2. record.job = j /\ Active(record.status)
      BY <3>1 DEF Active
    <3> QED
      BY <3>1, <3>2 DEF Covered, Places, Pending
  <2>2. script[Cli] \in Past \cup {"wrecked"} => CliBusy
    BY DEF Covered, Places, ByHand
  <2> QED
    BY <2>1, <2>2 DEF MarkerCoversSwitch, Switching, Script, CliBusy
<1> QED
  BY <1>1, CoveredAlways, PTL

-----------------------------------------------------------------------------
\* What the contract sees of a state.
Turns == <<operations, Active(marker.status)>>

(* Steps that leave the marker's status alone only admit or end operations. *)
LEMMA AgentKeepsContract ==
  TypeOK /\ (AgentStep \/ AgentDies) => [Contract!Next]_Turns
<1> SUFFICES ASSUME TypeOK, AgentStep \/ AgentDies PROVE [Contract!Next]_Turns
  OBVIOUS
<1>1. marker' = marker
  BY DEF AgentStep, AgentLocks, AgentAdmits, AgentRefuses, OperationEnds, AgentBoots,
         AgentDies, AgentOnly, updates
<1>2. Active(marker.status)' = Active(marker.status)
  BY <1>1 DEF Active
<1>3. CASE AgentAdmits
  <2>1. PICK op \in KernelOp \ operations : operations' = operations \cup {op}
    BY <1>3 DEF AgentAdmits
  <2>2. ~Active(marker.status)
    BY <1>3 DEF AgentAdmits
  <2>3. Contract!Admit(op)
    BY <1>2, <2>1, <2>2 DEF Contract!Admit
  <2> QED
    BY <2>3 DEF Contract!Next
<1>4. CASE ~AgentAdmits
  <2>1. operations' \in SUBSET operations
    BY <1>4 DEF AgentStep, AgentLocks, AgentRefuses, OperationEnds, AgentBoots, AgentDies, node
  <2> QED
    BY <1>2, <2>1 DEF Contract!Next, Contract!Settle
<1> QED
  BY <1>3, <1>4

(* Everybody else leaves the operations alone, and opens an update only    *)
(* when there is none: the service at the admission, update.sh by hand.    *)
LEMMA HostKeepsContract ==
  ASSUME Covered, operations' = operations,
         ~Active(marker.status) /\ Active(marker'.status) => operations = {}
  PROVE  [Contract!Next]_Turns
<1>1. CASE Active(marker'.status) = Active(marker.status)
  BY <1>1 DEF Contract!Next, Contract!Settle
<1>2. CASE Active(marker.status) /\ ~Active(marker'.status)
  BY <1>2 DEF Contract!Next, Contract!End, Active
<1>3. CASE ~Active(marker.status) /\ Active(marker'.status)
  BY <1>3 DEF Contract!Next, Contract!Begin, Active
<1> QED
  BY <1>1, <1>2, <1>3 DEF Active

(* The host's side of the contract: every step of every program is a step  *)
(* of NodeAdmission or leaves what it speaks of alone.                     *)
THEOREM HostKeepsItsSide == Spec => ImplementsContract
<1>1. Init => Contract!Init
  BY DEF Init, Contract!Init, Active
<1>2. Covered /\ [Next]_vars => [Contract!Next]_Turns
  <2> SUFFICES ASSUME Covered, [Next]_vars PROVE [Contract!Next]_Turns
    OBVIOUS
  <2>1. TypeOK /\ Turn /\ Pending /\ Answering /\ Working
    BY DEF Covered, Places
  <2>2. CASE AgentStep \/ AgentDies
    BY <2>1, <2>2, AgentKeepsContract
  <2>3. ASSUME NEW t \in {"recover", "inventory", "update", "remove"}, ServiceLocks(t)
        PROVE  [Contract!Next]_Turns
    <3>1. UNCHANGED <<operations, marker>>
      BY <2>3 DEF ServiceLocks, updates, node
    <3> QED
      BY <3>1, HostKeepsContract
  <2>4. CASE ServiceStep
    <3>1. operations' = operations
      BY <2>4 DEF ServiceStep, ServiceRefuses, Reconcile, Mark, InventoryAnswers, Recovered,
           UpdateQueued, UpdateMarked, WorkerLaunched, LaunchFailed, LaunchFailureMarked,
           RemovalStarts, RemovalEnds, node
    <3>2. CASE UpdateMarked
      <4>1. operations = {}
        BY <2>1, <3>2 DEF UpdateMarked, Answering
      <4> QED
        BY <3>1, <4>1, HostKeepsContract
    <3>3. CASE Mark \/ LaunchFailureMarked
      <4>1. marker'.status = record.status /\ ~Active(record.status)
        BY <2>1, <3>3 DEF Mark, LaunchFailureMarked, Answering, MarkerOf
      <4> QED
        BY <3>1, <4>1, HostKeepsContract
    <3>4. CASE Recovered
      <4>1. marker' = marker \/ marker' = MarkerOf(record)
        BY <3>4 DEF Recovered
      <4>2. Active(record.status) => Active(marker.status)
        BY <2>1, <3>4 DEF Recovered, Answering, Pending
      <4>3. Active(marker'.status) => Active(marker.status)
        BY <4>1, <4>2 DEF MarkerOf
      <4> QED
        BY <3>1, <4>3, HostKeepsContract
    <3>5. CASE marker' = marker
      BY <3>1, <3>5, HostKeepsContract
    <3> QED
      BY <2>4, <3>2, <3>3, <3>4, <3>5
         DEF ServiceStep, ServiceRefuses, Reconcile, InventoryAnswers, UpdateQueued,
             WorkerLaunched, LaunchFailed, RemovalStarts, RemovalEnds, updates
  <2>5. ASSUME NEW j \in Job, WorkerStep(j) \/ WorkerDies(j) \/ UnitKilled(j)
        PROVE  [Contract!Next]_Turns
    <3>1. operations' = operations
      BY <2>5 DEF WorkerStep, WorkerTurnsAway, WorkerBegins, WorkerExecutes, WorkerRecords,
           WorkerMarks, UnitStops, WorkerDies, UnitKilled, WorkerOnly, node
    <3>2. CASE WorkerExecutes(j)
      <4>1. record = [job |-> j, status |-> "running"] /\ worker[j] # "none"
        BY <2>1, <3>2 DEF WorkerExecutes, Working
      <4>2. Active(marker.status)
        BY <2>1, <4>1 DEF Pending, Active
      <4> QED
        BY <3>1, <4>2, HostKeepsContract
    <3>3. CASE WorkerMarks(j)
      <4>1. marker'.status = record.status /\ ~Active(record.status)
        BY <2>1, <3>3 DEF WorkerMarks, Working, MarkerOf
      <4> QED
        BY <3>1, <4>1, HostKeepsContract
    <3>4. CASE marker' = marker
      BY <3>1, <3>4, HostKeepsContract
    <3> QED
      BY <2>5, <3>2, <3>3, <3>4
         DEF WorkerStep, WorkerTurnsAway, WorkerBegins, WorkerRecords, UnitStops,
             WorkerDies, UnitKilled, updates
  <2>6. ASSUME NEW s \in Script, ScriptStep(s)
        PROVE  [Contract!Next]_Turns
    <3>1. operations' = operations
      BY <2>6 DEF ScriptStep, ScriptReserves, ScriptAdmits, ScriptHaltsService,
           ScriptStopsAgent, ScriptDeploys, ScriptCommits, ScriptFails, ScriptSucceeds,
           ScriptLeaves, ScriptRestores, ScriptCannotRestore, ScriptOnly
    <3>2. CASE ScriptAdmits(s)
      <4>1. operations = {}
        BY <3>2 DEF ScriptAdmits
      <4> QED
        BY <3>1, <4>1, HostKeepsContract
    <3>3. CASE ScriptSucceeds(s) \/ ScriptRestores(s)
      <4>1. marker' = marker \/ ~Active(marker'.status)
        BY <3>3 DEF ScriptSucceeds, ScriptRestores, ClearMarker, Active
      <4> QED
        BY <3>1, <4>1, HostKeepsContract
    <3>4. CASE marker' = marker
      BY <3>1, <3>4, HostKeepsContract
    <3> QED
      BY <2>6, <3>2, <3>3, <3>4
         DEF ScriptStep, ScriptReserves, ScriptHaltsService, ScriptStopsAgent,
             ScriptDeploys, ScriptCommits, ScriptFails, ScriptLeaves, ScriptCannotRestore
  <2>7. CASE ServiceDies \/ CliStarts \/ CliKilled \/ UninstallStep \/ UNCHANGED vars
    <3>1. UNCHANGED <<operations, marker>>
      BY <2>7 DEF ServiceDies, CliStarts, CliKilled, ScriptOnly, UninstallStep,
           UninstallReserves, UninstallStarts, UninstallRefuses, UninstallEnds,
           UninstallOnly, updates, node, vars
    <3> QED
      BY <3>1, HostKeepsContract
  <2> QED
    BY <2>2, <2>3, <2>4, <2>5, <2>6, <2>7 DEF Next
<1> QED
  BY <1>1, <1>2, CoveredAlways, PTL DEF Spec, ImplementsContract, Contract!Spec, Turns
=============================================================================
