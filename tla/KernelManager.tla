----------------------------- MODULE KernelManager -----------------------------
(***************************************************************************)
(* The node agent's kernel version manager.                                *)
(*                                                                         *)
(* Start admits an operation (install a release, or go back to an          *)
(* installed version), records it on disk and leaves it to a goroutine,    *)
(* run.  The goroutine takes the kernel's mutex, prepares the candidate,   *)
(* switches the `current` link, restarts the kernel's instances, observes  *)
(* them, and either keeps the new version or goes back to the version      *)
(* that was current when the operation was ADMITTED.  Every stage is       *)
(* written to operations/<id>.json; the write's error is ignored.  When    *)
(* the agent restarts, loadOperations settles what was interrupted.        *)
(*                                                                         *)
(* Between two actions anything may happen: another operation of the same  *)
(* or of another kernel, the death of the agent, a failed write.           *)
(***************************************************************************)
EXTENDS Naturals, FiniteSets

CONSTANTS
  Kernel,             \* managed kernels (xray, hysteria2)
  Version,            \* releases that can be requested
  Key,                \* idempotency keys the panel sends
  OpId,               \* operation identifiers (random in the code)
  Builtin,            \* no `current` link: the binary of the image is used
  Down,               \* some instance of the kernel is not running
  NoOp,               \* no operation
  StartTime,          \* the clock when the model starts
  InitialAge,         \* [Version -> Nat]: when it was installed, 0 = absent
  KeepVersions,       \* versions prune keeps (3 in the code)
  Overlap,            \* may the panel admit work while some is unfinished?
  MaxPersistFailures, \* bound on ignored write errors
  MaxCrashes          \* bound on agent restarts

Action == {"install", "rollback"}

Terminal == {"succeeded", "failed", "rolled_back"}

\* The stages in which the live version may already have been replaced.
LiveStage == {"switching", "restarting", "observing", "rolling_back"}

Stage == Terminal \cup LiveStage \cup
           {"queued", "downloading", "verifying", "preflight"}

\* Where the goroutine of an operation stands; "idle": there is none.
Step == {"idle", "waiting", "downloading", "verifying", "validating", "ready",
         "preflight", "switching", "switched", "restarting", "observing",
         "pruning", "finishing", "undoing", "undo_restart", "undo_observe"}

Link == Version \cup {Builtin}

Operation ==
  [key : Key, kernel : Kernel, from : Link, target : Version,
   action : Action, stage : Stage, rollbackError : BOOLEAN]

ASSUME ValuesDistinct ==
  /\ NoOp \notin Operation
  /\ NoOp \notin OpId
  /\ Builtin \notin Version
  /\ Down \notin Link

ASSUME BoundsAreNumbers ==
  /\ StartTime \in Nat
  /\ InitialAge \in [Version -> 0..StartTime]
  /\ KeepVersions \in Nat \ {0}
  /\ Overlap \in BOOLEAN
  /\ MaxPersistFailures \in Nat
  /\ MaxCrashes \in Nat

VARIABLES
  up,           \* the agent has loaded its operations and serves requests
  mem,          \* Manager.operations
  idem,         \* Manager.idempotency
  disk,         \* operations/<id>.json
  pc,           \* the goroutines
  lock,         \* Manager.kernelLocks: the operation that holds each mutex
  current,      \* the `current` link of each kernel
  installedAt,  \* versions/<v>/metadata.json: Installed, 0 when absent
  proven,       \* versions/<v>/metadata.json: Successful
  serving,      \* the version the kernel's instances execute
  clock,        \* the time, as far as Installed stamps tell it apart
  updating,     \* the host's container update marker is queued or running
  before,       \* history: the link when the operation took the mutex
  faults,       \* writes that failed so far
  crashes       \* agent restarts so far

record == <<mem, disk, faults>>
kernelState == <<current, installedAt, proven, serving, clock>>
vars == <<up, mem, idem, disk, pc, lock, current, installedAt, proven,
          serving, clock, updating, before, faults, crashes>>

Installed(k, v) == installedAt[k][v] > 0

Ops(table) == {id \in OpId : table[id] # NoOp}

Settled(table, id) == table[id] # NoOp /\ table[id].stage \in Terminal

-----------------------------------------------------------------------------
(* Init stands for a node whose earlier operations have been forgotten by  *)
(* the panel: any installed version may be current, all were observed.     *)
Init ==
  /\ up = TRUE
  /\ mem = [id \in OpId |-> NoOp]
  /\ idem = [key \in Key |-> NoOp]
  /\ disk = [id \in OpId |-> NoOp]
  /\ pc = [id \in OpId |-> "idle"]
  /\ lock = [k \in Kernel |-> NoOp]
  /\ current \in [Kernel -> {v \in Version : InitialAge[v] > 0} \cup {Builtin}]
  /\ installedAt = [k \in Kernel |-> InitialAge]
  /\ proven = [k \in Kernel |-> {v \in Version : InitialAge[v] > 0}]
  /\ serving = current
  /\ clock = StartTime
  /\ updating = FALSE
  /\ before = [id \in OpId |-> Builtin]
  /\ faults = 0
  /\ crashes = 0

-----------------------------------------------------------------------------
(* persistLocked(op): every caller but Start ignores its error.            *)
Persist(id, op) ==
  \/ /\ disk' = [disk EXCEPT ![id] = op]
     /\ UNCHANGED faults
  \/ /\ faults < MaxPersistFailures
     /\ faults' = faults + 1
     /\ UNCHANGED disk

SetStage(id, stage) ==
  LET op == [mem[id] EXCEPT !.stage = stage]
  IN  /\ mem' = [mem EXCEPT ![id] = op]
      /\ Persist(id, op)

Goto(id, from, to) ==
  /\ pc[id] = from
  /\ pc' = [pc EXCEPT ![id] = to]

(* Seeded fault: the outcome is kept in memory and never saved.            *)
FinishUnsaved(id, stage, rollbackError) ==
  /\ mem' = [mem EXCEPT ![id].stage = stage, ![id].rollbackError = rollbackError]
  /\ pc' = [pc EXCEPT ![id] = "idle"]
  /\ lock' = [lock EXCEPT ![mem[id].kernel] = NoOp]
  /\ UNCHANGED <<up, idem, disk, updating, before, faults, crashes>>

(* Seeded fault: a return without the deferred Unlock.                     *)
FinishLocked(id, stage, rollbackError) ==
  LET op == [mem[id] EXCEPT !.stage = stage, !.rollbackError = rollbackError]
  IN  /\ mem' = [mem EXCEPT ![id] = op]
      /\ Persist(id, op)
      /\ pc' = [pc EXCEPT ![id] = "idle"]
      /\ UNCHANGED <<up, idem, lock, updating, before, crashes>>

(* finish, and the deferred Unlock of run.                                 *)
Finish(id, stage, rollbackError) ==
  LET op == [mem[id] EXCEPT !.stage = stage, !.rollbackError = rollbackError]
  IN  /\ mem' = [mem EXCEPT ![id] = op]
      /\ Persist(id, op)
      /\ pc' = [pc EXCEPT ![id] = "idle"]
      /\ lock' = [lock EXCEPT ![mem[id].kernel] = NoOp]
      /\ UNCHANGED <<up, idem, updating, before, crashes>>

Target(id) == mem[id].target
From(id) == mem[id].from
Of(id) == mem[id].kernel

\* What a step of a goroutine leaves alone unless it ends.
Running == UNCHANGED <<up, idem, lock, updating, before, crashes>>

-----------------------------------------------------------------------------
(* Seeded fault: Start does not look at the maintenance marker.            *)
StartDuringUpdate(key, k, v, action) ==
  \E id \in OpId :
    LET op == [key |-> key, kernel |-> k, from |-> current[k], target |-> v,
               action |-> action, stage |-> "queued", rollbackError |-> FALSE]
    IN  /\ up
        /\ idem[key] = NoOp
        /\ mem[id] = NoOp
        /\ disk[id] = NoOp
        /\ Overlap \/ \A i \in Ops(mem) : mem[i].kernel = k => Settled(mem, i)
        /\ mem' = [mem EXCEPT ![id] = op]
        /\ idem' = [idem EXCEPT ![key] = id]
        /\ disk' = [disk EXCEPT ![id] = op]
        /\ pc' = [pc EXCEPT ![id] = "waiting"]
        /\ UNCHANGED <<up, lock, kernelState, updating, before, faults, crashes>>

(* Start: the maintenance marker admits it, the key is new, FromVersion is *)
(* the link as it is NOW, and the queued operation is on disk before the   *)
(* goroutine exists.  (A known key returns the operation it stands for; a  *)
(* failed write takes the operation back: neither changes anything.)       *)
Start(key, k, v, action) ==
  \E id \in OpId :
    LET op == [key |-> key, kernel |-> k, from |-> current[k], target |-> v,
               action |-> action, stage |-> "queued", rollbackError |-> FALSE]
    IN  /\ up
        /\ ~updating
        /\ idem[key] = NoOp
        /\ mem[id] = NoOp
        /\ disk[id] = NoOp
        /\ Overlap \/ \A i \in Ops(mem) : mem[i].kernel = k => Settled(mem, i)
        /\ mem' = [mem EXCEPT ![id] = op]
        /\ idem' = [idem EXCEPT ![key] = id]
        /\ disk' = [disk EXCEPT ![id] = op]
        /\ pc' = [pc EXCEPT ![id] = "waiting"]
        /\ UNCHANGED <<up, lock, kernelState, updating, before, faults, crashes>>

-----------------------------------------------------------------------------
(* run: prepare the candidate.                                             *)
Acquire(id) ==
  /\ pc[id] = "waiting"
  /\ lock[Of(id)] = NoOp
  /\ lock' = [lock EXCEPT ![Of(id)] = id]
  /\ before' = [before EXCEPT ![id] = current[Of(id)]]
  /\ \/ /\ mem[id].action = "install"
        /\ SetStage(id, "downloading")
        /\ pc' = [pc EXCEPT ![id] = "downloading"]
     \/ /\ mem[id].action = "rollback"
        /\ pc' = [pc EXCEPT ![id] = "validating"]
        /\ UNCHANGED record
  /\ UNCHANGED <<up, idem, kernelState, updating, crashes>>

Downloaded(id) ==
  /\ Goto(id, "downloading", "verifying")
  /\ SetStage(id, "verifying")
  /\ Running
  /\ UNCHANGED kernelState

(* The staged directory is renamed into place unless the version is there: *)
(* then its integrity was checked and it stays as it is.                   *)
Publish(id) ==
  /\ Goto(id, "verifying", "ready")
  /\ IF Installed(Of(id), Target(id))
       THEN UNCHANGED <<installedAt, proven, clock>>
       ELSE /\ installedAt' = [installedAt EXCEPT ![Of(id)] =
                                 [@ EXCEPT ![Target(id)] = clock + 1]]
            /\ clock' = clock + 1
            /\ proven' = [proven EXCEPT ![Of(id)] = @ \ {Target(id)}]
  /\ Persist(id, mem[id])
  /\ Running
  /\ UNCHANGED <<mem, current, serving>>

Validate(id) ==
  /\ Goto(id, "validating", "ready")
  /\ Installed(Of(id), Target(id))
  /\ Target(id) \in proven[Of(id)]
  /\ Persist(id, mem[id])
  /\ Running
  /\ UNCHANGED <<mem, kernelState>>

BeginPreflight(id) ==
  /\ Goto(id, "ready", "preflight")
  /\ SetStage(id, "preflight")
  /\ Running
  /\ UNCHANGED kernelState

(* Download, checksum, validation, preflight or the link failed: the live  *)
(* version has not been touched.                                           *)
Refuse(id) ==
  /\ pc[id] \in {"downloading", "verifying", "validating", "preflight", "switching"}
  /\ Finish(id, "failed", FALSE)
  /\ UNCHANGED kernelState

-----------------------------------------------------------------------------
(* run: replace the live version.                                          *)
BeginSwitch(id) ==
  /\ Goto(id, "preflight", "switching")
  /\ SetStage(id, "switching")
  /\ Running
  /\ UNCHANGED kernelState

Switch(id) ==
  /\ Goto(id, "switching", "switched")
  /\ Installed(Of(id), Target(id))
  /\ current' = [current EXCEPT ![Of(id)] = Target(id)]
  /\ Running
  /\ UNCHANGED <<record, installedAt, proven, serving, clock>>

BeginRestart(id) ==
  /\ Goto(id, "switched", "restarting")
  /\ SetStage(id, "restarting")
  /\ Running
  /\ UNCHANGED kernelState

Restarted(id) ==
  /\ Goto(id, "restarting", "observing")
  /\ serving' = [serving EXCEPT ![Of(id)] = current[Of(id)]]
  /\ SetStage(id, "observing")
  /\ Running
  /\ UNCHANGED <<current, installedAt, proven, clock>>

\* Observe passed and markSuccessful wrote the metadata.
Observed(id) ==
  /\ Goto(id, "observing", "pruning")
  /\ proven' = [proven EXCEPT ![Of(id)] = @ \cup {Target(id)}]
  /\ Running
  /\ UNCHANGED <<record, current, installedAt, serving, clock>>

(* Seeded fault: prune keeps the newest versions, the current one or not.  *)
KeptNewest(k) ==
  {v \in proven[k] :
     /\ Installed(k, v)
     /\ Cardinality({w \in proven[k] : installedAt[k][w] > installedAt[k][v]})
          < KeepVersions}

\* The versions prune keeps: the current one, then the newest observed ones.
Kept(k) ==
  {v \in Version :
     /\ Installed(k, v)
     /\ \/ v = current[k]
        \/ /\ v \in proven[k]
           /\ Cardinality({w \in proven[k] \ {current[k]} :
                             installedAt[k][w] > installedAt[k][v]})
                < KeepVersions - (IF current[k] = Builtin THEN 0 ELSE 1)}

(* prune stops at the first directory it cannot remove; run ignores that.  *)
Prune(id) ==
  /\ Goto(id, "pruning", "finishing")
  /\ \E gone \in SUBSET {v \in Version : Installed(Of(id), v) /\ v \notin Kept(Of(id))} :
       /\ installedAt' = [installedAt EXCEPT ![Of(id)] =
                            [v \in Version |-> IF v \in gone THEN 0 ELSE @[v]]]
       /\ proven' = [proven EXCEPT ![Of(id)] = @ \ gone]
  /\ Running
  /\ UNCHANGED <<record, current, serving, clock>>

Succeed(id) ==
  /\ pc[id] = "finishing"
  /\ Finish(id, "succeeded", FALSE)
  /\ UNCHANGED kernelState

-----------------------------------------------------------------------------
(* Seeded fault: the stage is saved under a name no reader knows.          *)
BeginRollbackMisnamed(id) ==
  /\ Goto(id, "observing", "undoing")
  /\ SetStage(id, "rollback")
  /\ Running
  /\ UNCHANGED kernelState

(* run: the restart, the observation or the metadata write failed.         *)
BeginRollback(id) ==
  /\ \/ /\ Goto(id, "restarting", "undoing")
        /\ serving' = [serving EXCEPT ![Of(id)] = Down]
     \/ /\ Goto(id, "observing", "undoing")
        /\ \/ UNCHANGED serving
           \/ serving' = [serving EXCEPT ![Of(id)] = Down]
  /\ SetStage(id, "rolling_back")
  /\ Running
  /\ UNCHANGED <<current, installedAt, proven, clock>>

(* Seeded fault: go back to any observed version but the target.           *)
SwitchBackToAny(id) ==
  /\ Goto(id, "undoing", "undo_restart")
  /\ From(id) # Builtin
  /\ \E v \in proven[Of(id)] \ {Target(id)} :
       current' = [current EXCEPT ![Of(id)] = v]
  /\ Running
  /\ UNCHANGED <<record, installedAt, proven, serving, clock>>

(* Seeded fault: the link is put back and the instances are not restarted. *)
SwitchBackUnserved(id) ==
  /\ Goto(id, "undoing", "undo_observe")
  /\ From(id) # Builtin
  /\ Installed(Of(id), From(id))
  /\ current' = [current EXCEPT ![Of(id)] = From(id)]
  /\ Running
  /\ UNCHANGED <<record, installedAt, proven, serving, clock>>

(* rollback: switchCurrent(FromVersion), Restart, Observe.                 *)
SwitchBack(id) ==
  /\ Goto(id, "undoing", "undo_restart")
  /\ From(id) # Builtin
  /\ Installed(Of(id), From(id))
  /\ current' = [current EXCEPT ![Of(id)] = From(id)]
  /\ Running
  /\ UNCHANGED <<record, installedAt, proven, serving, clock>>

RestartedBack(id) ==
  /\ Goto(id, "undo_restart", "undo_observe")
  /\ serving' = [serving EXCEPT ![Of(id)] = current[Of(id)]]
  /\ Running
  /\ UNCHANGED <<record, current, installedAt, proven, clock>>

RolledBack(id) ==
  /\ pc[id] = "undo_observe"
  /\ Finish(id, "rolled_back", FALSE)
  /\ UNCHANGED kernelState

RollbackFailed(id) ==
  /\ pc[id] \in {"undoing", "undo_restart", "undo_observe"}
  /\ Finish(id, "failed", TRUE)
  /\ \/ pc[id] # "undo_restart" /\ UNCHANGED serving
     \/ pc[id] # "undoing" /\ serving' = [serving EXCEPT ![Of(id)] = Down]
  /\ UNCHANGED <<current, installedAt, proven, clock>>

Run(id) ==
  \/ Acquire(id) \/ Downloaded(id) \/ Publish(id) \/ Validate(id)
  \/ BeginPreflight(id) \/ Refuse(id) \/ BeginSwitch(id) \/ Switch(id)
  \/ BeginRestart(id) \/ Restarted(id) \/ Observed(id) \/ Prune(id)
  \/ Succeed(id) \/ BeginRollback(id) \/ SwitchBack(id)
  \/ RestartedBack(id) \/ RolledBack(id) \/ RollbackFailed(id)

-----------------------------------------------------------------------------
(* The agent dies: its memory, goroutines, mutexes and children are gone.  *)
Crash ==
  /\ crashes < MaxCrashes
  /\ crashes' = crashes + 1
  /\ up' = FALSE
  /\ mem' = [id \in OpId |-> NoOp]
  /\ idem' = [key \in Key |-> NoOp]
  /\ pc' = [id \in OpId |-> "idle"]
  /\ lock' = [k \in Kernel |-> NoOp]
  /\ serving' = [k \in Kernel |-> Down]
  /\ UNCHANGED <<disk, current, installedAt, proven, clock, updating, before, faults>>

\* loadOperations settles an interrupted operation without running it again.
CanSwitchBack(op) == op.from # Builtin /\ Installed(op.kernel, op.from)


(* Seeded fault: recovery does not say that it could not go back.          *)
RecoveredSilently(op) ==
  IF op.stage \in Terminal THEN op
  ELSE IF op.stage \in LiveStage /\ CanSwitchBack(op)
    THEN [op EXCEPT !.stage = "rolled_back"]
    ELSE [op EXCEPT !.stage = "failed"]

Recovered(op) ==
  IF op.stage \in Terminal THEN op
  ELSE IF op.stage \notin LiveStage THEN [op EXCEPT !.stage = "failed"]
  ELSE IF CanSwitchBack(op) \/ (op.from # Builtin /\ current[op.kernel] = op.from)
    THEN [op EXCEPT !.stage = "rolled_back"]
    ELSE [op EXCEPT !.stage = "failed", !.rollbackError = TRUE]

(* Seeded fault: recovery does not restore the idempotency table.          *)
RecoverWithoutKey(id) ==
  /\ ~up
  /\ disk[id] # NoOp
  /\ mem[id] = NoOp
  /\ IF disk[id].stage \in LiveStage /\ CanSwitchBack(disk[id])
       THEN current' = [current EXCEPT ![disk[id].kernel] = disk[id].from]
       ELSE UNCHANGED current
  /\ mem' = [mem EXCEPT ![id] = Recovered(disk[id])]
  /\ disk' = [disk EXCEPT ![id] = Recovered(disk[id])]
  /\ UNCHANGED <<up, idem, pc, lock, installedAt, proven, serving, clock,
                 updating, before, faults, crashes>>

(* One file of loadOperations, in any order (the names are random).  When  *)
(* the settled operation cannot be written the agent exits and starts over.*)
Recover(id) ==
  /\ ~up
  /\ disk[id] # NoOp
  /\ mem[id] = NoOp
  /\ LET op == disk[id]
     IN  /\ IF op.stage \in LiveStage /\ CanSwitchBack(op)
              THEN current' = [current EXCEPT ![op.kernel] = op.from]
              ELSE UNCHANGED current
         /\ \/ /\ mem' = [mem EXCEPT ![id] = Recovered(op)]
               /\ idem' = [idem EXCEPT ![op.key] = id]
               /\ disk' = [disk EXCEPT ![id] = Recovered(op)]
               /\ UNCHANGED faults
            \/ /\ faults < MaxPersistFailures
               /\ faults' = faults + 1
               /\ mem' = [i \in OpId |-> NoOp]
               /\ idem' = [key \in Key |-> NoOp]
               /\ UNCHANGED disk
  /\ UNCHANGED <<up, pc, lock, installedAt, proven, serving, clock,
                 updating, before, crashes>>

(* InitGrpcServer returned; InitApp starts the instances on BinaryPath.    *)
Boot ==
  /\ ~up
  /\ \A id \in OpId : disk[id] # NoOp => mem[id] # NoOp
  /\ up' = TRUE
  /\ serving' = current
  /\ UNCHANGED <<mem, idem, disk, pc, lock, current, installedAt, proven,
                 clock, updating, before, faults, crashes>>

-----------------------------------------------------------------------------
(* The host maintenance service, as this component sees it: it admits a    *)
(* container update only when no operation file is unfinished.             *)
BeginUpdate ==
  /\ ~updating
  /\ \A id \in Ops(disk) : Settled(disk, id)
  /\ updating' = TRUE
  /\ UNCHANGED <<up, mem, idem, disk, pc, lock, kernelState, before, faults, crashes>>

EndUpdate ==
  /\ updating
  /\ updating' = FALSE
  /\ UNCHANGED <<up, mem, idem, disk, pc, lock, kernelState, before, faults, crashes>>

Next ==
  \/ \E key \in Key, k \in Kernel, v \in Version, a \in Action : Start(key, k, v, a)
  \/ \E id \in OpId : Run(id)
  \/ \E id \in OpId : Recover(id)
  \/ Crash
  \/ Boot
  \/ BeginUpdate
  \/ EndUpdate

Spec == Init /\ [][Next]_vars

(* Every call of run ends (downloads, the 60 s of Restart and Observe and  *)
(* the preflight have deadlines), a waiting goroutine gets its mutex, and  *)
(* Docker restarts an agent that died.                                     *)
FairSpec ==
  /\ Spec
  /\ \A id \in OpId : WF_vars(Run(id)) /\ WF_vars(Recover(id))
  /\ WF_vars(Boot)

-----------------------------------------------------------------------------
TypeOK ==
  /\ up \in BOOLEAN
  /\ mem \in [OpId -> Operation \cup {NoOp}]
  /\ idem \in [Key -> OpId \cup {NoOp}]
  /\ disk \in [OpId -> Operation \cup {NoOp}]
  /\ pc \in [OpId -> Step]
  /\ lock \in [Kernel -> OpId \cup {NoOp}]
  /\ current \in [Kernel -> Link]
  /\ installedAt \in [Kernel -> [Version -> Nat]]
  /\ proven \in [Kernel -> SUBSET Version]
  /\ serving \in [Kernel -> Link \cup {Down}]
  /\ clock \in Nat
  /\ updating \in BOOLEAN
  /\ before \in [OpId -> Link]
  /\ faults \in Nat
  /\ crashes \in Nat

(* The `current` link never dangles: retention, failed installs, rollbacks *)
(* to a pruned version and recovery leave it on an installed version.      *)
CurrentInstalled ==
  \A k \in Kernel : current[k] # Builtin => Installed(k, current[k])

(* A key the panel sends again (a lost answer, an agent restart) never     *)
(* makes a second operation: two recorded operations have different keys.  *)
OneOperationPerKey ==
  \A i, j \in Ops(disk) : disk[i].key = disk[j].key => i = j

(* No goroutine works on a kernel while the host replaces the container.   *)
UpdateExcludesOperations ==
  updating => \A id \in OpId : pc[id] = "idle"

(* The manager keeps the agent's side of the turn-taking with the host:    *)
(* what it admits and settles are steps of NodeAdmission.                  *)
Unfinished == {id \in OpId : disk[id] # NoOp /\ disk[id].stage \notin Terminal}

Contract == INSTANCE NodeAdmission WITH Operation <- OpId, active <- Unfinished

ImplementsContract == Contract!Spec

(* An idle kernel whose link points to a version that never passed an      *)
(* observation has a failed operation that says its rollback failed.       *)
UnprovenCurrentIsReported ==
  \A k \in Kernel :
    up /\ lock[k] = NoOp /\ current[k] \in Version \ proven[k] =>
      \E id \in Ops(mem) :
        /\ mem[id].kernel = k
        /\ mem[id].target = current[k]
        /\ mem[id].stage = "failed"
        /\ mem[id].rollbackError

(* An outcome on record is final: nothing rewrites it, a restart included. *)
OutcomeIsFinal ==
  [][\A id \in OpId : Settled(disk, id) => disk'[id] = disk[id]]_vars

(* An operation that ends while the agent runs, in success or rolled back, *)
(* leaves the kernel's instances executing what the link says.             *)
EndedOperationIsServed ==
  [][\A id \in OpId :
       up /\ mem[id] # NoOp /\ ~Settled(mem, id)
          /\ mem'[id] # NoOp /\ mem'[id].stage \in {"succeeded", "rolled_back"}
       => serving'[mem[id].kernel] = current'[mem[id].kernel]]_vars

(* An operation that reports "rolled_back", by itself or in recovery, has  *)
(* put back the version that was live when it got the kernel.              *)
RollbackRestoresPrevious ==
  [][\A id \in OpId :
       disk[id] # NoOp /\ ~Settled(disk, id)
          /\ disk'[id] # NoOp /\ disk'[id].stage = "rolled_back"
       => current'[disk[id].kernel] = before[id]]_vars

(* Recovery moves the link only away from the version that the operation   *)
(* it settles was installing, never away from another operation's success. *)
RecoveryUndoesOnlyItsTarget ==
  [][\A id \in OpId :
       ~up /\ disk[id] # NoOp /\ mem[id] = NoOp /\ mem'[id] # NoOp
       => \A k \in Kernel : current'[k] # current[k] =>
            k = disk[id].kernel /\ current[k] = disk[id].target]_vars

(* Every admitted operation is eventually settled, by run or by recovery.  *)
AdmittedOperationSettles ==
  \A id \in OpId : (disk[id] # NoOp) ~> (up /\ Settled(mem, id))
=============================================================================
