-------------------------- MODULE KernelManager_proofs --------------------------
(***************************************************************************)
(* Safety of the kernel manager for any number of kernels, versions, keys  *)
(* and operations, any number of crashes and of failed writes.             *)
(*                                                                         *)
(* The argument.  A goroutine only ever changes its own entry of the       *)
(* operation tables (Advance); while it exists its operation is recorded   *)
(* and unfinished, in memory and on disk (LiveIsUnfinished).  The agent's  *)
(* tables agree with the files once they are loaded (TablesAgree), so a    *)
(* key on disk is known whenever Start may run, and the host admits a      *)
(* container update only when no goroutine can exist.                      *)
(*                                                                         *)
(* Rollback, recovery and the report of what was not observed (Serial)     *)
(* suppose that the operations of one kernel do not overlap, and hold      *)
(* until a write fails.                                                    *)
(***************************************************************************)
EXTENDS KernelManager, TLAPS

(* A goroutine exists only in a running agent, and for an operation that   *)
(* both tables hold without an outcome.                                    *)
LiveIsUnfinished ==
  \A id \in OpId : pc[id] # "idle" =>
    /\ up
    /\ mem[id] # NoOp /\ mem[id].stage \notin Terminal
    /\ disk[id] # NoOp /\ disk[id].stage \notin Terminal

(* What is in memory is on disk and its key is taken; once the agent is up *)
(* everything on disk is in memory.                                        *)
TablesAgree ==
  /\ \A id \in OpId : mem[id] # NoOp =>
       /\ disk[id] # NoOp
       /\ disk[id].key = mem[id].key
       /\ idem[mem[id].key] = id
  /\ up => \A id \in OpId : disk[id] # NoOp => mem[id] # NoOp

UpdateFindsAllSettled ==
  updating => \A id \in OpId : disk[id] # NoOp => disk[id].stage \in Terminal

TableInv ==
  /\ TypeOK
  /\ LiveIsUnfinished
  /\ TablesAgree
  /\ UpdateFindsAllSettled
  /\ OneOperationPerKey

-----------------------------------------------------------------------------
(* What any step of a goroutine does to the operation tables.              *)
Advance(id, op, s) ==
  /\ mem' = [mem EXCEPT ![id] = op]
  /\ disk' = disk \/ disk' = [disk EXCEPT ![id] = op]
  /\ pc' = [pc EXCEPT ![id] = s]
  /\ op.key = mem[id].key
  /\ s # "idle" => op.stage \notin Terminal
  /\ UNCHANGED <<up, idem, updating, crashes>>

LEMMA SetStageAdvances ==
  ASSUME TypeOK, NEW id \in OpId, mem[id] # NoOp,
         NEW stage \in Stage, SetStage(id, stage)
  PROVE  \E op \in Operation :
           /\ mem' = [mem EXCEPT ![id] = op]
           /\ disk' = disk \/ disk' = [disk EXCEPT ![id] = op]
           /\ op.key = mem[id].key
           /\ op.stage = stage
           /\ faults' \in Nat
<1> DEFINE op == [mem[id] EXCEPT !.stage = stage]
<1>1. mem[id] \in Operation
  BY DEF TypeOK
<1>2. op \in Operation /\ op.key = mem[id].key /\ op.stage = stage
  BY <1>1 DEF Operation
<1>3. /\ mem' = [mem EXCEPT ![id] = op]
      /\ disk' = disk \/ disk' = [disk EXCEPT ![id] = op]
      /\ faults' \in Nat
  BY DEF SetStage, Persist, TypeOK
<1>4. QED
  BY <1>2, <1>3

LEMMA FinishAdvances ==
  ASSUME TypeOK, NEW id \in OpId, mem[id] # NoOp,
         NEW stage \in Terminal, NEW e \in BOOLEAN, Finish(id, stage, e)
  PROVE  /\ \E op \in Operation : Advance(id, op, "idle")
         /\ lock' \in [Kernel -> OpId \cup {NoOp}]
         /\ before' = before
         /\ faults' \in Nat
<1> DEFINE op == [mem[id] EXCEPT !.stage = stage, !.rollbackError = e]
<1>1. mem[id] \in Operation
  BY DEF TypeOK
<1>2. op \in Operation /\ op.key = mem[id].key
  BY <1>1 DEF Operation, Stage
<1>3. Advance(id, op, "idle")
  BY <1>2 DEF Finish, Persist, Advance
<1>4. lock' \in [Kernel -> OpId \cup {NoOp}]
  BY <1>1 DEF Finish, TypeOK, Operation
<1>5. faults' \in Nat
  BY DEF Finish, Persist, TypeOK
<1>6. before' = before
  BY DEF Finish
<1>7. QED
  BY <1>2, <1>3, <1>4, <1>5, <1>6

(* The part of the state that is not the operation tables keeps its type.  *)
RestTypeOK ==
  /\ lock \in [Kernel -> OpId \cup {NoOp}]
  /\ current \in [Kernel -> Link]
  /\ installedAt \in [Kernel -> [Version -> Nat]]
  /\ proven \in [Kernel -> SUBSET Version]
  /\ serving \in [Kernel -> Link \cup {Down}]
  /\ clock \in Nat
  /\ before \in [OpId -> Link]
  /\ faults \in Nat
  /\ crashes \in Nat

(* A step that only changes the stage of its operation.                    *)
LEMMA StageStep ==
  ASSUME TypeOK, LiveIsUnfinished, NEW id \in OpId, mem[id] # NoOp,
         NEW stage \in Stage \ Terminal, NEW s \in Step,
         SetStage(id, stage), pc' = [pc EXCEPT ![id] = s],
         UNCHANGED <<up, idem, updating, crashes>>
  PROVE  /\ \E op \in Operation, t \in Step : Advance(id, op, t)
         /\ faults' \in Nat
<1>1. PICK op \in Operation :
        /\ mem' = [mem EXCEPT ![id] = op]
        /\ disk' = disk \/ disk' = [disk EXCEPT ![id] = op]
        /\ op.key = mem[id].key
        /\ op.stage = stage
        /\ faults' \in Nat
  BY SetStageAdvances
<1>2. Advance(id, op, s)
  BY <1>1 DEF Advance
<1>3. QED
  BY <1>1, <1>2

(* A step that leaves its operation as it is, whether it writes it or not. *)
LEMMA QuietStep ==
  ASSUME TypeOK, LiveIsUnfinished, NEW id \in OpId, pc[id] # "idle",
         NEW s \in Step, mem' = mem,
         Persist(id, mem[id]) \/ UNCHANGED <<disk, faults>>,
         pc' = [pc EXCEPT ![id] = s],
         UNCHANGED <<up, idem, updating, crashes>>
  PROVE  /\ \E op \in Operation, t \in Step : Advance(id, op, t)
         /\ faults' \in Nat
<1>1. mem[id] \in Operation /\ mem[id].stage \notin Terminal
  BY DEF TypeOK, LiveIsUnfinished
<1>2. mem' = [mem EXCEPT ![id] = mem[id]]
  BY DEF TypeOK
<1>3. disk' = disk \/ disk' = [disk EXCEPT ![id] = mem[id]]
  BY DEF Persist
<1>4. Advance(id, mem[id], s)
  BY <1>1, <1>2, <1>3 DEF Advance
<1>5. faults' \in Nat
  BY DEF Persist, TypeOK
<1>6. QED
  BY <1>1, <1>4, <1>5

LEMMA RunAdvances ==
  ASSUME TypeOK, LiveIsUnfinished, BoundsAreNumbers, NEW id \in OpId, Run(id)
  PROVE  /\ \E op \in Operation, s \in Step : Advance(id, op, s)
         /\ RestTypeOK'
<1>0. pc[id] # "idle"
  BY DEF Run, Acquire, Downloaded, Publish, Validate, BeginPreflight, Refuse,
         BeginSwitch, Switch, BeginRestart, Restarted, Observed, Prune, Succeed,
         BeginRollback, SwitchBack, RestartedBack, RolledBack, RollbackFailed, Goto
<1>1. mem[id] # NoOp /\ mem[id] \in Operation
  BY <1>0 DEF LiveIsUnfinished, TypeOK
<1>2. /\ Of(id) \in Kernel /\ Target(id) \in Version /\ From(id) \in Link
  BY <1>1 DEF Operation, Of, Target, From
<1>3. /\ lock \in [Kernel -> OpId \cup {NoOp}]
      /\ current \in [Kernel -> Link]
      /\ installedAt \in [Kernel -> [Version -> Nat]]
      /\ proven \in [Kernel -> SUBSET Version]
      /\ serving \in [Kernel -> Link \cup {Down}]
      /\ clock \in Nat
      /\ before \in [OpId -> Link]
      /\ crashes \in Nat
  BY DEF TypeOK
<1>4. /\ {"downloading", "verifying", "preflight", "switching", "restarting",
          "observing", "rolling_back"} \subseteq Stage \ Terminal
      /\ {"downloading", "validating", "verifying", "ready", "preflight",
          "switching", "switched", "restarting", "observing", "pruning",
          "finishing", "undoing", "undo_restart", "undo_observe"} \subseteq Step
      /\ {"succeeded", "failed", "rolled_back"} \subseteq Terminal
  BY DEF Stage, LiveStage, Terminal, Step
<1>a1. CASE Acquire(id)
  <2>1. RestTypeOK' \/ faults' \notin Nat
    BY <1>a1, <1>2, <1>3 DEF Acquire, RestTypeOK, kernelState, Of
  <2>2. CASE SetStage(id, "downloading") /\ pc' = [pc EXCEPT ![id] = "downloading"]
    <3>1. UNCHANGED <<up, idem, updating, crashes>>
      BY <1>a1 DEF Acquire
    <3>2. QED
      BY <2>1, <2>2, <3>1, <1>1, <1>4, StageStep
  <2>3. CASE UNCHANGED record /\ pc' = [pc EXCEPT ![id] = "validating"]
    <3>1. UNCHANGED <<up, idem, updating, crashes, mem, disk, faults>>
      BY <1>a1, <2>3 DEF Acquire, record
    <3>2. QED
      BY <2>1, <2>3, <3>1, <1>0, <1>4, QuietStep
  <2>4. QED
    BY <1>a1, <2>2, <2>3 DEF Acquire
<1>a2. CASE Downloaded(id)
  <2>1. RestTypeOK' \/ faults' \notin Nat
    BY <1>a2, <1>2, <1>3 DEF Downloaded, RestTypeOK, kernelState, Running
  <2>2. /\ SetStage(id, "verifying") /\ pc' = [pc EXCEPT ![id] = "verifying"]
        /\ UNCHANGED <<up, idem, updating, crashes>>
    BY <1>a2 DEF Downloaded, Goto, Running
  <2>3. QED
    BY <2>1, <2>2, <1>1, <1>4, StageStep
<1>a3. CASE Publish(id)
  <2>1. RestTypeOK' \/ faults' \notin Nat
    <3>1. CASE Installed(Of(id), Target(id))
      BY <1>a3, <3>1, <1>2, <1>3 DEF Publish, RestTypeOK, Running
    <3>2. CASE ~Installed(Of(id), Target(id))
      <4>1. /\ installedAt' = [installedAt EXCEPT ![Of(id)] =
                                 [@ EXCEPT ![Target(id)] = clock + 1]]
            /\ clock' = clock + 1
            /\ proven' = [proven EXCEPT ![Of(id)] = @ \ {Target(id)}]
        BY <1>a3, <3>2 DEF Publish
      <4>2. [installedAt[Of(id)] EXCEPT ![Target(id)] = clock + 1] \in [Version -> Nat]
        BY <1>2, <1>3
      <4>3. installedAt' \in [Kernel -> [Version -> Nat]]
        BY <4>1, <4>2, <1>2, <1>3
      <4>4. proven' \in [Kernel -> SUBSET Version] /\ clock' \in Nat
        BY <4>1, <1>2, <1>3
      <4>5. QED
        BY <4>3, <4>4, <1>a3, <1>3 DEF Publish, RestTypeOK, Running
    <3>3. QED
      BY <3>1, <3>2
  <2>2. /\ mem' = mem /\ Persist(id, mem[id])
        /\ pc' = [pc EXCEPT ![id] = "ready"]
        /\ UNCHANGED <<up, idem, updating, crashes>>
    BY <1>a3 DEF Publish, Goto, Running, record
  <2>3. QED
    BY <2>1, <2>2, <1>0, <1>4, QuietStep
<1>a4. CASE Validate(id)
  <2>1. RestTypeOK' \/ faults' \notin Nat
    BY <1>a4, <1>2, <1>3 DEF Validate, RestTypeOK, kernelState, Running
  <2>2. /\ mem' = mem /\ Persist(id, mem[id])
        /\ pc' = [pc EXCEPT ![id] = "ready"]
        /\ UNCHANGED <<up, idem, updating, crashes>>
    BY <1>a4 DEF Validate, Goto, Running, record
  <2>3. QED
    BY <2>1, <2>2, <1>0, <1>4, QuietStep
<1>a5. CASE BeginPreflight(id)
  <2>1. RestTypeOK' \/ faults' \notin Nat
    BY <1>a5, <1>2, <1>3 DEF BeginPreflight, RestTypeOK, kernelState, Running
  <2>2. /\ SetStage(id, "preflight") /\ pc' = [pc EXCEPT ![id] = "preflight"]
        /\ UNCHANGED <<up, idem, updating, crashes>>
    BY <1>a5 DEF BeginPreflight, Goto, Running
  <2>3. QED
    BY <2>1, <2>2, <1>1, <1>4, StageStep
<1>a6. CASE Refuse(id)
  <2>1. Finish(id, "failed", FALSE)
    BY <1>a6 DEF Refuse
  <2>2. /\ \E op \in Operation : Advance(id, op, "idle")
        /\ lock' \in [Kernel -> OpId \cup {NoOp}]
        /\ before' = before
        /\ faults' \in Nat
    BY <2>1, <1>1, <1>4, FinishAdvances
  <2>3. RestTypeOK'
    BY <1>a6, <2>1, <2>2, <1>2, <1>3 DEF Refuse, RestTypeOK, kernelState, Finish
  <2>4. QED
    BY <2>2, <2>3 DEF Step
<1>a7. CASE BeginSwitch(id)
  <2>1. RestTypeOK' \/ faults' \notin Nat
    BY <1>a7, <1>2, <1>3 DEF BeginSwitch, RestTypeOK, kernelState, Running
  <2>2. /\ SetStage(id, "switching") /\ pc' = [pc EXCEPT ![id] = "switching"]
        /\ UNCHANGED <<up, idem, updating, crashes>>
    BY <1>a7 DEF BeginSwitch, Goto, Running
  <2>3. QED
    BY <2>1, <2>2, <1>1, <1>4, StageStep
<1>a8. CASE Switch(id)
  <2>1. RestTypeOK' \/ faults' \notin Nat
    BY <1>a8, <1>2, <1>3 DEF Switch, RestTypeOK, Running, Link
  <2>2. /\ mem' = mem /\ UNCHANGED <<disk, faults>>
        /\ pc' = [pc EXCEPT ![id] = "switched"]
        /\ UNCHANGED <<up, idem, updating, crashes>>
    BY <1>a8 DEF Switch, Goto, Running, record
  <2>3. QED
    BY <2>1, <2>2, <1>0, <1>4, QuietStep
<1>a9. CASE BeginRestart(id)
  <2>1. RestTypeOK' \/ faults' \notin Nat
    BY <1>a9, <1>2, <1>3 DEF BeginRestart, RestTypeOK, kernelState, Running
  <2>2. /\ SetStage(id, "restarting") /\ pc' = [pc EXCEPT ![id] = "restarting"]
        /\ UNCHANGED <<up, idem, updating, crashes>>
    BY <1>a9 DEF BeginRestart, Goto, Running
  <2>3. QED
    BY <2>1, <2>2, <1>1, <1>4, StageStep
<1>a10. CASE Restarted(id)
  <2>1. RestTypeOK' \/ faults' \notin Nat
    BY <1>a10, <1>2, <1>3 DEF Restarted, RestTypeOK, kernelState, Running
  <2>2. /\ SetStage(id, "observing") /\ pc' = [pc EXCEPT ![id] = "observing"]
        /\ UNCHANGED <<up, idem, updating, crashes>>
    BY <1>a10 DEF Restarted, Goto, Running
  <2>3. QED
    BY <2>1, <2>2, <1>1, <1>4, StageStep
<1>a11. CASE Observed(id)
  <2>1. RestTypeOK' \/ faults' \notin Nat
    BY <1>a11, <1>2, <1>3 DEF Observed, RestTypeOK, Running
  <2>2. /\ mem' = mem /\ UNCHANGED <<disk, faults>>
        /\ pc' = [pc EXCEPT ![id] = "pruning"]
        /\ UNCHANGED <<up, idem, updating, crashes>>
    BY <1>a11 DEF Observed, Goto, Running, record
  <2>3. QED
    BY <2>1, <2>2, <1>0, <1>4, QuietStep
<1>a12. CASE Prune(id)
  <2>1. RestTypeOK' \/ faults' \notin Nat
    BY <1>a12, <1>2, <1>3 DEF Prune, RestTypeOK, Running
  <2>2. /\ mem' = mem /\ UNCHANGED <<disk, faults>>
        /\ pc' = [pc EXCEPT ![id] = "finishing"]
        /\ UNCHANGED <<up, idem, updating, crashes>>
    BY <1>a12 DEF Prune, Goto, Running, record
  <2>3. QED
    BY <2>1, <2>2, <1>0, <1>4, QuietStep
<1>a13. CASE Succeed(id)
  <2>1. Finish(id, "succeeded", FALSE)
    BY <1>a13 DEF Succeed
  <2>2. /\ \E op \in Operation : Advance(id, op, "idle")
        /\ lock' \in [Kernel -> OpId \cup {NoOp}]
        /\ before' = before
        /\ faults' \in Nat
    BY <2>1, <1>1, <1>4, FinishAdvances
  <2>3. RestTypeOK'
    BY <1>a13, <2>1, <2>2, <1>2, <1>3 DEF Succeed, RestTypeOK, kernelState, Finish
  <2>4. QED
    BY <2>2, <2>3 DEF Step
<1>a14. CASE BeginRollback(id)
  <2>1. RestTypeOK' \/ faults' \notin Nat
    BY <1>a14, <1>2, <1>3 DEF BeginRollback, RestTypeOK, kernelState, Running
  <2>2. /\ SetStage(id, "rolling_back") /\ pc' = [pc EXCEPT ![id] = "undoing"]
        /\ UNCHANGED <<up, idem, updating, crashes>>
    BY <1>a14 DEF BeginRollback, Goto, Running
  <2>3. QED
    BY <2>1, <2>2, <1>1, <1>4, StageStep
<1>a15. CASE SwitchBack(id)
  <2>1. RestTypeOK' \/ faults' \notin Nat
    BY <1>a15, <1>2, <1>3 DEF SwitchBack, RestTypeOK, Running
  <2>2. /\ mem' = mem /\ UNCHANGED <<disk, faults>>
        /\ pc' = [pc EXCEPT ![id] = "undo_restart"]
        /\ UNCHANGED <<up, idem, updating, crashes>>
    BY <1>a15 DEF SwitchBack, Goto, Running, record
  <2>3. QED
    BY <2>1, <2>2, <1>0, <1>4, QuietStep
<1>a16. CASE RestartedBack(id)
  <2>1. RestTypeOK' \/ faults' \notin Nat
    BY <1>a16, <1>2, <1>3 DEF RestartedBack, RestTypeOK, Running
  <2>2. /\ mem' = mem /\ UNCHANGED <<disk, faults>>
        /\ pc' = [pc EXCEPT ![id] = "undo_observe"]
        /\ UNCHANGED <<up, idem, updating, crashes>>
    BY <1>a16 DEF RestartedBack, Goto, Running, record
  <2>3. QED
    BY <2>1, <2>2, <1>0, <1>4, QuietStep
<1>a17. CASE RolledBack(id)
  <2>1. Finish(id, "rolled_back", FALSE)
    BY <1>a17 DEF RolledBack
  <2>2. /\ \E op \in Operation : Advance(id, op, "idle")
        /\ lock' \in [Kernel -> OpId \cup {NoOp}]
        /\ before' = before
        /\ faults' \in Nat
    BY <2>1, <1>1, <1>4, FinishAdvances
  <2>3. RestTypeOK'
    BY <1>a17, <2>1, <2>2, <1>2, <1>3 DEF RolledBack, RestTypeOK, kernelState, Finish
  <2>4. QED
    BY <2>2, <2>3 DEF Step
<1>a18. CASE RollbackFailed(id)
  <2>1. Finish(id, "failed", TRUE)
    BY <1>a18 DEF RollbackFailed
  <2>2. /\ \E op \in Operation : Advance(id, op, "idle")
        /\ lock' \in [Kernel -> OpId \cup {NoOp}]
        /\ before' = before
        /\ faults' \in Nat
    BY <2>1, <1>1, <1>4, FinishAdvances
  <2>3. RestTypeOK'
    BY <1>a18, <2>1, <2>2, <1>2, <1>3 DEF RollbackFailed, RestTypeOK, kernelState, Finish
  <2>4. QED
    BY <2>2, <2>3 DEF Step
<1>q. QED
  BY <1>a1, <1>a2, <1>a3, <1>a4, <1>a5, <1>a6, <1>a7, <1>a8, <1>a9, <1>a10, <1>a11, <1>a12, <1>a13, <1>a14, <1>a15, <1>a16, <1>a17, <1>a18 DEF Run

-----------------------------------------------------------------------------
(* A goroutine's step preserves the invariant of the tables.               *)
LEMMA AdvancePreserves ==
  ASSUME TableInv, ValuesDistinct, NEW id \in OpId, pc[id] # "idle",
         NEW op \in Operation, NEW s \in Step, Advance(id, op, s), RestTypeOK'
  PROVE  TableInv'
<1>1. /\ mem \in [OpId -> Operation \cup {NoOp}]
      /\ disk \in [OpId -> Operation \cup {NoOp}]
      /\ pc \in [OpId -> Step]
      /\ mem[id] # NoOp /\ disk[id] # NoOp /\ op # NoOp
      /\ disk[id].stage \notin Terminal /\ up
      /\ disk[id].key = mem[id].key
  BY DEF TableInv, TypeOK, LiveIsUnfinished, TablesAgree, ValuesDistinct
<1>2. /\ mem'[id] = op /\ pc'[id] = s
      /\ \A i \in OpId \ {id} : mem'[i] = mem[i] /\ pc'[i] = pc[i] /\ disk'[i] = disk[i]
      /\ disk'[id] = disk[id] \/ disk'[id] = op
      /\ op.key = mem[id].key
      /\ up' = up /\ idem' = idem /\ updating' = updating
  BY <1>1 DEF Advance
<1>3. TypeOK'
  <2>1. mem' \in [OpId -> Operation \cup {NoOp}] /\ disk' \in [OpId -> Operation \cup {NoOp}]
    BY <1>1 DEF Advance
  <2>2. pc' \in [OpId -> Step]
    BY <1>1 DEF Advance
  <2>3. QED
    BY <2>1, <2>2, <1>2 DEF TableInv, TypeOK, RestTypeOK
<1>4. LiveIsUnfinished'
  <2> SUFFICES ASSUME NEW i \in OpId, pc'[i] # "idle"
               PROVE  /\ up'
                      /\ mem'[i] # NoOp /\ mem'[i].stage \notin Terminal
                      /\ disk'[i] # NoOp /\ disk'[i].stage \notin Terminal
    BY DEF LiveIsUnfinished
  <2>1. CASE i = id
    <3>1. op.stage \notin Terminal
      BY <2>1, <1>2 DEF Advance
    <3>2. QED
      BY <2>1, <3>1, <1>1, <1>2
  <2>2. CASE i # id
    BY <2>2, <1>1, <1>2 DEF TableInv, LiveIsUnfinished
  <2>3. QED
    BY <2>1, <2>2
<1>5. TablesAgree'
  BY <1>1, <1>2 DEF TableInv, TablesAgree
<1>6. ~updating
  BY <1>1 DEF TableInv, UpdateFindsAllSettled
<1>7. UpdateFindsAllSettled'
  BY <1>2, <1>6 DEF UpdateFindsAllSettled
<1>8. \A i \in OpId : /\ disk'[i] # NoOp <=> disk[i] # NoOp
                      /\ disk[i] # NoOp => disk'[i].key = disk[i].key
  BY <1>1, <1>2
<1>9. OneOperationPerKey'
  BY <1>8 DEF TableInv, OneOperationPerKey, Ops
<1>10. QED
  BY <1>3, <1>4, <1>5, <1>7, <1>9 DEF TableInv

LEMMA RunPreserves ==
  ASSUME TableInv, ValuesDistinct, BoundsAreNumbers, NEW id \in OpId, Run(id)
  PROVE  TableInv'
<1>1. pc[id] # "idle"
  BY DEF Run, Acquire, Downloaded, Publish, Validate, BeginPreflight, Refuse,
         BeginSwitch, Switch, BeginRestart, Restarted, Observed, Prune, Succeed,
         BeginRollback, SwitchBack, RestartedBack, RolledBack, RollbackFailed, Goto
<1>2. (\E op \in Operation, s \in Step : Advance(id, op, s)) /\ RestTypeOK'
  BY RunAdvances DEF TableInv
<1>3. QED
  BY <1>1, <1>2, AdvancePreserves

(* The key is new, so no file has it: every file is loaded and its key is  *)
(* in the table.  No update is under way, so there is none to disturb.     *)
LEMMA StartPreserves ==
  ASSUME TableInv, ValuesDistinct,
         NEW key \in Key, NEW k \in Kernel, NEW v \in Version, NEW a \in Action,
         Start(key, k, v, a)
  PROVE  TableInv'
<1> DEFINE op == [key |-> key, kernel |-> k, from |-> current[k], target |-> v,
                  action |-> a, stage |-> "queued", rollbackError |-> FALSE]
<1>1. PICK id \in OpId :
        /\ up /\ ~updating /\ idem[key] = NoOp
        /\ mem[id] = NoOp /\ disk[id] = NoOp
        /\ mem' = [mem EXCEPT ![id] = op]
        /\ idem' = [idem EXCEPT ![key] = id]
        /\ disk' = [disk EXCEPT ![id] = op]
        /\ pc' = [pc EXCEPT ![id] = "waiting"]
        /\ UNCHANGED <<up, lock, kernelState, updating, before, faults, crashes>>
  BY Zenon DEF Start
<1>2. op \in Operation /\ op # NoOp /\ op.key = key /\ op.stage \notin Terminal
  <2>1. current[k] \in Link
    BY DEF TableInv, TypeOK
  <2>2. "queued" \in Stage /\ "queued" \notin Terminal
    BY DEF Stage, Terminal
  <2>3. op \in Operation
    BY <2>1, <2>2 DEF Operation
  <2>4. QED
    BY <2>2, <2>3 DEF ValuesDistinct
<1> HIDE DEF op
<1>3. /\ mem \in [OpId -> Operation \cup {NoOp}]
      /\ disk \in [OpId -> Operation \cup {NoOp}]
      /\ pc \in [OpId -> Step]
      /\ idem \in [Key -> OpId \cup {NoOp}]
      /\ id # NoOp
  BY DEF TableInv, TypeOK, ValuesDistinct
<1>4. \A i \in OpId : disk[i] # NoOp =>
        mem[i] # NoOp /\ idem[mem[i].key] = i /\ disk[i].key = mem[i].key
  BY <1>1 DEF TableInv, TablesAgree
<1>5. \A i \in OpId : disk[i] # NoOp => disk[i].key # key
  BY <1>1, <1>4, <1>3 DEF ValuesDistinct
<1>6. TypeOK'
  <2>1. mem' \in [OpId -> Operation \cup {NoOp}] /\ disk' \in [OpId -> Operation \cup {NoOp}]
    BY <1>1, <1>2, <1>3
  <2>2. pc' \in [OpId -> Step] /\ idem' \in [Key -> OpId \cup {NoOp}]
    BY <1>1, <1>3 DEF Step
  <2>3. QED
    BY <2>1, <2>2, <1>1 DEF TableInv, TypeOK, kernelState
<1>7. LiveIsUnfinished'
  BY <1>1, <1>2, <1>3 DEF TableInv, LiveIsUnfinished
<1>8. TablesAgree'
  <2>1. \A i \in OpId : mem'[i] # NoOp =>
          disk'[i] # NoOp /\ disk'[i].key = mem'[i].key /\ idem'[mem'[i].key] = i
    <3> SUFFICES ASSUME NEW i \in OpId, mem'[i] # NoOp
                 PROVE  disk'[i] # NoOp /\ disk'[i].key = mem'[i].key /\ idem'[mem'[i].key] = i
      OBVIOUS
    <3>1. CASE i = id
      BY <3>1, <1>1, <1>2, <1>3
    <3>2. CASE i # id
      <4>1. mem'[i] = mem[i] /\ disk'[i] = disk[i]
        BY <3>2, <1>1, <1>3
      <4>2. disk[i] # NoOp /\ disk[i].key = mem[i].key /\ idem[mem[i].key] = i
        BY <4>1 DEF TableInv, TablesAgree
      <4>3. mem[i].key # key
        BY <4>2, <1>5
      <4>4. mem[i].key \in Key
        BY <4>1, <1>3 DEF Operation
      <4>5. idem'[mem[i].key] = idem[mem[i].key]
        BY <4>3, <4>4, <1>1, <1>3
      <4>6. QED
        BY <4>1, <4>2, <4>5
    <3>3. QED
      BY <3>1, <3>2
  <2>2. \A i \in OpId : disk'[i] # NoOp => mem'[i] # NoOp
    BY <1>1, <1>2, <1>3, <1>4
  <2>3. QED
    BY <2>1, <2>2 DEF TablesAgree
<1>9. UpdateFindsAllSettled'
  BY <1>1 DEF UpdateFindsAllSettled
<1>10. OneOperationPerKey'
  <2> SUFFICES ASSUME NEW i \in OpId, NEW j \in OpId, disk'[i] # NoOp, disk'[j] # NoOp,
                      disk'[i].key = disk'[j].key
               PROVE  i = j
    BY DEF OneOperationPerKey, Ops
  <2>1. disk'[id] = op /\ \A x \in OpId \ {id} : disk'[x] = disk[x]
    BY <1>1, <1>3
  <2>2. CASE i # id /\ j # id
    BY <2>1, <2>2 DEF TableInv, OneOperationPerKey, Ops
  <2>3. CASE i = id \/ j = id
    BY <2>1, <2>3, <1>2, <1>5
  <2>4. QED
    BY <2>2, <2>3
<1>11. QED
  BY <1>6, <1>7, <1>8, <1>9, <1>10 DEF TableInv

(* Recovery writes an outcome for the file it loads, under the same key;   *)
(* no goroutine exists then.                                               *)
LEMMA RecoverPreserves ==
  ASSUME TableInv, ValuesDistinct, NEW id \in OpId, Recover(id)
  PROVE  TableInv'
<1> DEFINE op == Recovered(disk[id])
<1>1. /\ ~up /\ disk[id] # NoOp /\ mem[id] = NoOp
      /\ UNCHANGED <<up, pc, lock, installedAt, proven, serving, clock,
                     updating, before, crashes>>
  BY DEF Recover
<1>2. /\ mem \in [OpId -> Operation \cup {NoOp}]
      /\ disk \in [OpId -> Operation \cup {NoOp}]
      /\ idem \in [Key -> OpId \cup {NoOp}]
      /\ current \in [Kernel -> Link]
      /\ disk[id] \in Operation
      /\ disk[id].kernel \in Kernel /\ disk[id].from \in Link /\ disk[id].key \in Key
  BY <1>1 DEF TableInv, TypeOK, Operation
<1>3. op \in Operation /\ op.key = disk[id].key /\ op.stage \in Terminal
  BY <1>2 DEF Recovered, Operation, Stage, Terminal, LiveStage
<1>4. op # NoOp
  BY <1>3 DEF ValuesDistinct
<1>5. disk[id].stage \in Terminal => op = disk[id]
  BY DEF Recovered
<1> HIDE DEF op
<1>6. current' \in [Kernel -> Link]
  BY <1>2 DEF Recover
<1>7. \A i \in OpId : pc[i] = "idle"
  BY <1>1 DEF TableInv, LiveIsUnfinished
<1>8. CASE /\ mem' = [mem EXCEPT ![id] = op]
           /\ idem' = [idem EXCEPT ![disk[id].key] = id]
           /\ disk' = [disk EXCEPT ![id] = op]
           /\ UNCHANGED faults
  <2>1. TypeOK'
    <3>1. mem' \in [OpId -> Operation \cup {NoOp}] /\ disk' \in [OpId -> Operation \cup {NoOp}]
      BY <1>2, <1>3, <1>8
    <3>2. idem' \in [Key -> OpId \cup {NoOp}]
      BY <1>2, <1>8
    <3>3. QED
      BY <3>1, <3>2, <1>1, <1>6, <1>8 DEF TableInv, TypeOK
  <2>2. LiveIsUnfinished'
    BY <1>1, <1>7 DEF LiveIsUnfinished
  <2>3. TablesAgree'
    <3> SUFFICES ASSUME NEW i \in OpId, mem'[i] # NoOp
                 PROVE  disk'[i] # NoOp /\ disk'[i].key = mem'[i].key /\ idem'[mem'[i].key] = i
      BY <1>1 DEF TablesAgree
    <3>1. CASE i = id
      BY <3>1, <1>2, <1>3, <1>4, <1>8
    <3>2. CASE i # id
      <4>1. mem'[i] = mem[i] /\ disk'[i] = disk[i]
        BY <3>2, <1>2, <1>8
      <4>2. disk[i] # NoOp /\ disk[i].key = mem[i].key /\ idem[mem[i].key] = i
        BY <4>1 DEF TableInv, TablesAgree
      <4>3. mem[i].key # disk[id].key
        BY <3>2, <4>2, <1>1 DEF TableInv, OneOperationPerKey, Ops
      <4>4. mem[i].key \in Key
        BY <4>1, <1>2 DEF Operation
      <4>5. QED
        BY <4>1, <4>2, <4>3, <4>4, <1>2, <1>8
    <3>3. QED
      BY <3>1, <3>2
  <2>4. UpdateFindsAllSettled'
    BY <1>1, <1>2, <1>3, <1>8 DEF TableInv, UpdateFindsAllSettled
  <2>5. OneOperationPerKey'
    <3>1. \A i \in OpId : (disk'[i] # NoOp <=> disk[i] # NoOp) /\ (disk[i] # NoOp => disk'[i].key = disk[i].key)
      BY <1>1, <1>2, <1>3, <1>4, <1>8
    <3>2. QED
      BY <3>1 DEF TableInv, OneOperationPerKey, Ops
  <2>6. QED
    BY <2>1, <2>2, <2>3, <2>4, <2>5 DEF TableInv
<1>9. CASE /\ mem' = [i \in OpId |-> NoOp]
           /\ idem' = [key \in Key |-> NoOp]
           /\ UNCHANGED disk
           /\ faults' = faults + 1
  <2>1. TypeOK'
    BY <1>1, <1>6, <1>9 DEF TableInv, TypeOK
  <2>2. LiveIsUnfinished'
    BY <1>1, <1>7 DEF LiveIsUnfinished
  <2>3. TablesAgree'
    BY <1>1, <1>9 DEF TablesAgree
  <2>4. UpdateFindsAllSettled' /\ OneOperationPerKey'
    BY <1>1, <1>9 DEF TableInv, UpdateFindsAllSettled, OneOperationPerKey, Ops
  <2>5. QED
    BY <2>1, <2>2, <2>3, <2>4 DEF TableInv
<1>10. QED
  BY <1>8, <1>9 DEF Recover, op

-----------------------------------------------------------------------------
LEMMA InitTables == ASSUME BoundsAreNumbers, Init PROVE TableInv
<1>1. current \in [Kernel -> Link]
  BY DEF Init, Link
<1>2. installedAt \in [Kernel -> [Version -> Nat]]
  BY DEF Init, BoundsAreNumbers
<1>3. TypeOK
  BY <1>1, <1>2 DEF Init, TypeOK, Link, Step, BoundsAreNumbers
<1>4. LiveIsUnfinished /\ TablesAgree /\ UpdateFindsAllSettled /\ OneOperationPerKey
  BY DEF Init, LiveIsUnfinished, TablesAgree, UpdateFindsAllSettled, OneOperationPerKey, Ops
<1>5. QED
  BY <1>3, <1>4 DEF TableInv

LEMMA NextTables ==
  ASSUME TableInv, ValuesDistinct, BoundsAreNumbers, [Next]_vars
  PROVE  TableInv'
<1>1. ASSUME NEW key \in Key, NEW k \in Kernel, NEW v \in Version, NEW a \in Action,
             Start(key, k, v, a)
      PROVE  TableInv'
  BY <1>1, StartPreserves
<1>2. ASSUME NEW id \in OpId, Run(id) PROVE TableInv'
  BY <1>2, RunPreserves
<1>3. ASSUME NEW id \in OpId, Recover(id) PROVE TableInv'
  BY <1>3, RecoverPreserves
<1>4. CASE Crash
  <2>1. TypeOK'
    <3>1. /\ mem' \in [OpId -> Operation \cup {NoOp}]
          /\ idem' \in [Key -> OpId \cup {NoOp}]
          /\ lock' \in [Kernel -> OpId \cup {NoOp}]
          /\ serving' \in [Kernel -> Link \cup {Down}]
      BY <1>4 DEF Crash
    <3>2. pc' \in [OpId -> Step]
      BY <1>4 DEF Crash, Step
    <3>3. crashes \in Nat /\ crashes' = crashes + 1 /\ up' = FALSE
      BY <1>4 DEF Crash, TableInv, TypeOK
    <3>4. UNCHANGED <<disk, current, installedAt, proven, clock, updating, before, faults>>
      BY <1>4 DEF Crash
    <3>5. /\ disk' \in [OpId -> Operation \cup {NoOp}]
          /\ current' \in [Kernel -> Link]
          /\ installedAt' \in [Kernel -> [Version -> Nat]]
          /\ proven' \in [Kernel -> SUBSET Version]
          /\ clock' \in Nat /\ faults' \in Nat /\ updating' \in BOOLEAN
          /\ before' \in [OpId -> Link]
      BY <3>4 DEF TableInv, TypeOK
    <3>6. up' \in BOOLEAN
      BY <3>3, Zenon
    <3>7. crashes' \in Nat
      BY <3>3
    <3>8. QED
      BY <3>1, <3>2, <3>5, <3>6, <3>7 DEF TypeOK
  <2>2. LiveIsUnfinished' /\ TablesAgree'
    BY <1>4 DEF Crash, LiveIsUnfinished, TablesAgree
  <2>3. UpdateFindsAllSettled' /\ OneOperationPerKey'
    BY <1>4 DEF Crash, TableInv, UpdateFindsAllSettled, OneOperationPerKey, Ops
  <2>4. QED
    BY <2>1, <2>2, <2>3 DEF TableInv
<1>5. CASE Boot
  <2>1. TypeOK'
    BY <1>5 DEF Boot, TableInv, TypeOK
  <2>2. LiveIsUnfinished' /\ TablesAgree'
    BY <1>5 DEF Boot, TableInv, LiveIsUnfinished, TablesAgree
  <2>3. UpdateFindsAllSettled' /\ OneOperationPerKey'
    BY <1>5 DEF Boot, TableInv, UpdateFindsAllSettled, OneOperationPerKey, Ops
  <2>4. QED
    BY <2>1, <2>2, <2>3 DEF TableInv
<1>6. CASE BeginUpdate \/ EndUpdate
  <2>1. /\ updating' \in BOOLEAN
        /\ updating' => \A i \in OpId : disk[i] # NoOp => disk[i].stage \in Terminal
        /\ UNCHANGED <<up, mem, idem, disk, pc, lock, current, installedAt, proven,
                       serving, clock, before, faults, crashes>>
    BY <1>6 DEF BeginUpdate, EndUpdate, Ops, Settled, kernelState
  <2>2. TypeOK'
    BY <2>1 DEF TableInv, TypeOK
  <2>3. LiveIsUnfinished' /\ TablesAgree'
    BY <2>1 DEF TableInv, LiveIsUnfinished, TablesAgree
  <2>4. UpdateFindsAllSettled' /\ OneOperationPerKey'
    BY <2>1 DEF TableInv, UpdateFindsAllSettled, OneOperationPerKey, Ops
  <2>5. QED
    BY <2>2, <2>3, <2>4 DEF TableInv
<1>7. CASE UNCHANGED vars
  <2>1. TypeOK'
    BY <1>7 DEF vars, TableInv, TypeOK
  <2>2. LiveIsUnfinished' /\ TablesAgree'
    BY <1>7 DEF vars, TableInv, LiveIsUnfinished, TablesAgree
  <2>3. UpdateFindsAllSettled' /\ OneOperationPerKey'
    BY <1>7 DEF vars, TableInv, UpdateFindsAllSettled, OneOperationPerKey, Ops
  <2>4. QED
    BY <2>1, <2>2, <2>3 DEF TableInv
<1>8. QED
  BY <1>1, <1>2, <1>3, <1>4, <1>5, <1>6, <1>7 DEF Next

(* The operation tables stay consistent in every reachable state.          *)
THEOREM TablesStayConsistent == Spec => []TableInv
<1>1. Init => TableInv
  BY InitTables, BoundsAreNumbers
<1>2. TableInv /\ [Next]_vars => TableInv'
  BY NextTables, ValuesDistinct, BoundsAreNumbers
<1>3. QED
  BY <1>1, <1>2, PTL DEF Spec

(* Every variable has its type, for any number of crashes and faults.      *)
THEOREM TypeCorrect == Spec => []TypeOK
<1>1. TableInv => TypeOK
  BY DEF TableInv
<1>2. QED
  BY <1>1, TablesStayConsistent, PTL

(* A key that the panel sends again never makes a second operation.        *)
THEOREM KeysAreUsedOnce == Spec => []OneOperationPerKey
<1>1. TableInv => OneOperationPerKey
  BY DEF TableInv
<1>2. QED
  BY <1>1, TablesStayConsistent, PTL

(* No goroutine works on a kernel while the host replaces the container.   *)
THEOREM UpdatesAreExclusive == Spec => []UpdateExcludesOperations
<1>1. TableInv => UpdateExcludesOperations
  BY DEF TableInv, LiveIsUnfinished, UpdateFindsAllSettled, UpdateExcludesOperations
<1>2. QED
  BY <1>1, TablesStayConsistent, PTL

-----------------------------------------------------------------------------
(* An outcome on disk is final: goroutines write only unfinished files,    *)
(* Start only absent ones, and recovery leaves an outcome as it is.        *)
THEOREM OutcomesAreFinal == Spec => OutcomeIsFinal
<1>1. TableInv /\ [Next]_vars => [\A id \in OpId : Settled(disk, id) => disk'[id] = disk[id]]_vars
  <2> SUFFICES ASSUME TableInv, Next, NEW id \in OpId, Settled(disk, id)
               PROVE  disk'[id] = disk[id]
    OBVIOUS
  <2>1. disk[id] # NoOp /\ disk[id].stage \in Terminal
    BY DEF Settled
  <2>2. disk \in [OpId -> Operation \cup {NoOp}]
    BY DEF TableInv, TypeOK
  <2>3. ASSUME NEW key \in Key, NEW k \in Kernel, NEW v \in Version, NEW a \in Action,
               Start(key, k, v, a)
        PROVE  disk'[id] = disk[id]
    BY <2>1, <2>2, <2>3 DEF Start
  <2>4. ASSUME NEW i \in OpId, Run(i) PROVE disk'[id] = disk[id]
    <3>1. pc[i] # "idle"
      BY <2>4 DEF Run, Acquire, Downloaded, Publish, Validate, BeginPreflight, Refuse,
         BeginSwitch, Switch, BeginRestart, Restarted, Observed, Prune, Succeed,
         BeginRollback, SwitchBack, RestartedBack, RolledBack, RollbackFailed, Goto
    <3>2. i # id
      BY <2>1, <3>1 DEF TableInv, LiveIsUnfinished
    <3>3. PICK op \in Operation, s \in Step : Advance(i, op, s)
      BY <2>4, RunAdvances, BoundsAreNumbers DEF TableInv
    <3>4. QED
      BY <2>2, <3>2, <3>3 DEF Advance
  <2>5. ASSUME NEW i \in OpId, Recover(i) PROVE disk'[id] = disk[id]
    <3>1. disk' = disk \/ disk' = [disk EXCEPT ![i] = Recovered(disk[i])]
      BY <2>5 DEF Recover
    <3>2. CASE i = id
      BY <2>1, <2>2, <3>1, <3>2 DEF Recovered
    <3>3. CASE i # id
      BY <2>2, <3>1, <3>3
    <3>4. QED
      BY <3>2, <3>3
  <2>6. CASE Crash \/ Boot \/ BeginUpdate \/ EndUpdate
    BY <2>6 DEF Crash, Boot, BeginUpdate, EndUpdate
  <2>7. QED
    BY <2>3, <2>4, <2>5, <2>6 DEF Next
<1>2. QED
  BY <1>1, TablesStayConsistent, PTL DEF Spec, OutcomeIsFinal

-----------------------------------------------------------------------------
(* The link never dangles.  Whoever moves it checks that the version is    *)
(* there, and prune, the only one that removes versions, keeps it.         *)
LEMMA RunKeepsLink ==
  ASSUME TableInv, CurrentInstalled, NEW id \in OpId, Run(id)
  PROVE  CurrentInstalled'
<1>1. pc[id] # "idle"
  BY DEF Run, Acquire, Downloaded, Publish, Validate, BeginPreflight, Refuse,
         BeginSwitch, Switch, BeginRestart, Restarted, Observed, Prune, Succeed,
         BeginRollback, SwitchBack, RestartedBack, RolledBack, RollbackFailed, Goto
<1>2. /\ Of(id) \in Kernel /\ Target(id) \in Version /\ From(id) \in Link
      /\ current \in [Kernel -> Link]
      /\ installedAt \in [Kernel -> [Version -> Nat]]
      /\ clock \in Nat
  BY <1>1 DEF TableInv, LiveIsUnfinished, TypeOK, Operation, Of, Target, From
<1>3. CASE UNCHANGED <<current, installedAt>>
  BY <1>3 DEF CurrentInstalled, Installed
<1>4. CASE Publish(id)
  <2>1. CASE Installed(Of(id), Target(id))
    BY <1>3, <1>4, <2>1 DEF Publish
  <2>2. CASE ~Installed(Of(id), Target(id))
    <3>1. /\ installedAt' = [installedAt EXCEPT ![Of(id)] =
                               [@ EXCEPT ![Target(id)] = clock + 1]]
          /\ current' = current
      BY <1>4, <2>2 DEF Publish
    <3>2. \A k \in Kernel, v \in Version :
            installedAt'[k][v] = installedAt[k][v] \/ installedAt'[k][v] = clock + 1
      BY <1>2, <3>1
    <3>3. QED
      BY <1>2, <3>1, <3>2 DEF CurrentInstalled, Installed, Link
  <2>3. QED
    BY <2>1, <2>2
<1>5. CASE Switch(id)
  <2>1. current' = [current EXCEPT ![Of(id)] = Target(id)] /\ installedAt' = installedAt
    BY <1>5 DEF Switch
  <2>2. Installed(Of(id), Target(id))
    BY <1>5 DEF Switch
  <2>3. QED
    BY <1>2, <2>1, <2>2 DEF CurrentInstalled, Installed
<1>6. CASE Prune(id)
  <2>1. PICK gone \in SUBSET {v \in Version : Installed(Of(id), v) /\ v \notin Kept(Of(id))} :
          installedAt' = [installedAt EXCEPT ![Of(id)] =
                            [v \in Version |-> IF v \in gone THEN 0 ELSE @[v]]]
    BY <1>6 DEF Prune
  <2>2. current' = current
    BY <1>6 DEF Prune
  <2>3. current[Of(id)] \in Version => current[Of(id)] \notin gone
    BY <1>2 DEF Kept
  <2>4. ASSUME NEW k \in Kernel, current[k] # Builtin
        PROVE  installedAt'[k][current[k]] = installedAt[k][current[k]]
    <3>1. current[k] \in Version
      BY <1>2, <2>4 DEF Link
    <3>2. CASE k = Of(id)
      BY <1>2, <2>1, <2>3, <3>1, <3>2
    <3>3. CASE k # Of(id)
      BY <1>2, <2>1, <3>3
    <3>4. QED
      BY <3>2, <3>3
  <2>5. QED
    BY <2>2, <2>4 DEF CurrentInstalled, Installed
<1>7. CASE SwitchBack(id)
  <2>1. current' = [current EXCEPT ![Of(id)] = From(id)] /\ installedAt' = installedAt
    BY <1>7 DEF SwitchBack
  <2>2. Installed(Of(id), From(id))
    BY <1>7 DEF SwitchBack
  <2>3. QED
    BY <1>2, <2>1, <2>2 DEF CurrentInstalled, Installed
<1>8. ASSUME ~Publish(id), ~Switch(id), ~Prune(id), ~SwitchBack(id)
      PROVE  UNCHANGED <<current, installedAt>>
  BY <1>8 DEF Run, kernelState, Acquire, Downloaded, Validate, BeginPreflight, Refuse, BeginSwitch, BeginRestart, Restarted, Observed, Succeed, BeginRollback, RestartedBack, RolledBack, RollbackFailed
<1>9. QED
  BY <1>3, <1>4, <1>5, <1>6, <1>7, <1>8

LEMMA RecoverKeepsLink ==
  ASSUME TableInv, CurrentInstalled, NEW id \in OpId, Recover(id)
  PROVE  CurrentInstalled'
<1>1. disk[id] \in Operation /\ current \in [Kernel -> Link]
  BY DEF Recover, TableInv, TypeOK
<1>2. disk[id].kernel \in Kernel
  BY <1>1 DEF Operation
<1>3. installedAt' = installedAt
  BY DEF Recover
<1>4. CASE current' = current
  BY <1>3, <1>4 DEF CurrentInstalled, Installed
<1>5. CASE /\ Installed(disk[id].kernel, disk[id].from)
           /\ current' = [current EXCEPT ![disk[id].kernel] = disk[id].from]
  BY <1>1, <1>2, <1>3, <1>5 DEF CurrentInstalled, Installed
<1>6. QED
  BY <1>4, <1>5 DEF Recover, CanSwitchBack

(* `current` always names a version that is installed: no failed install,  *)
(* rollback, retention or recovery leaves it dangling.                     *)
THEOREM LinkNeverDangles == Spec => []CurrentInstalled
<1>1. Init => CurrentInstalled
  BY DEF Init, CurrentInstalled, Installed
<1>2. TableInv /\ CurrentInstalled /\ [Next]_vars => CurrentInstalled'
  <2> SUFFICES ASSUME TableInv, CurrentInstalled, [Next]_vars PROVE CurrentInstalled'
    OBVIOUS
  <2>1. CASE \E id \in OpId : Run(id)
    BY <2>1, RunKeepsLink
  <2>2. CASE \E id \in OpId : Recover(id)
    BY <2>2, RecoverKeepsLink
  <2>3. CASE UNCHANGED <<current, installedAt>>
    BY <2>3 DEF CurrentInstalled, Installed
  <2>4. ASSUME NEW key \in Key, NEW k \in Kernel, NEW v \in Version, NEW a \in Action,
               Start(key, k, v, a)
        PROVE  UNCHANGED <<current, installedAt>>
    BY <2>4 DEF Start, kernelState
  <2>5. Crash \/ Boot \/ BeginUpdate \/ EndUpdate \/ UNCHANGED vars
          => UNCHANGED <<current, installedAt>>
    BY DEF Crash, Boot, BeginUpdate, EndUpdate, vars, kernelState
  <2>6. QED
    BY <2>1, <2>2, <2>3, <2>4, <2>5 DEF Next
<1>3. QED
  BY <1>1, <1>2, TablesStayConsistent, PTL DEF Spec

-----------------------------------------------------------------------------
(* The manager implements the agent's side of the contract with the host:  *)
(* a goroutine at most settles its operation, Start admits one while no    *)
(* update is under way, recovery settles.                                  *)
THEOREM KeepsContract == Spec => ImplementsContract
<1>1. Init => Contract!Init
  BY DEF Init, Contract!Init, Unfinished
<1>2. TableInv /\ [Next]_vars => [Contract!Next]_<<Unfinished, updating>>
  <2> SUFFICES ASSUME TableInv, [Next]_vars
               PROVE  [Contract!Next]_<<Unfinished, updating>>
    OBVIOUS
  <2>1. disk \in [OpId -> Operation \cup {NoOp}]
    BY DEF TableInv, TypeOK
  <2>2. ASSUME NEW key \in Key, NEW k \in Kernel, NEW v \in Version, NEW a \in Action,
               Start(key, k, v, a)
        PROVE  Contract!Next
    <3> DEFINE op == [key |-> key, kernel |-> k, from |-> current[k], target |-> v,
                      action |-> a, stage |-> "queued", rollbackError |-> FALSE]
    <3>1. PICK id \in OpId : /\ ~updating /\ updating' = updating
                             /\ disk[id] = NoOp
                             /\ disk' = [disk EXCEPT ![id] = op]
      BY <2>2 DEF Start
    <3>2. op.stage \notin Terminal /\ op # NoOp
      <4>1. current[k] \in Link
        BY DEF TableInv, TypeOK
      <4>2. "queued" \in Stage /\ "queued" \notin Terminal
        BY DEF Stage, Terminal
      <4>3. op \in Operation
        BY <4>1, <4>2 DEF Operation
      <4>4. QED
        BY <4>2, <4>3, ValuesDistinct DEF ValuesDistinct
    <3> HIDE DEF op
    <3>3. id \notin Unfinished /\ Unfinished' = Unfinished \cup {id}
      BY <2>1, <3>1, <3>2 DEF Unfinished
    <3>4. Contract!Admit(id)
      BY <3>1, <3>3 DEF Contract!Admit
    <3>5. QED
      BY <3>4 DEF Contract!Next
  <2>3. ASSUME NEW id \in OpId, Run(id) PROVE Contract!Next
    <3>1. pc[id] # "idle"
      BY <2>3 DEF Run, Acquire, Downloaded, Publish, Validate, BeginPreflight, Refuse,
         BeginSwitch, Switch, BeginRestart, Restarted, Observed, Prune, Succeed,
         BeginRollback, SwitchBack, RestartedBack, RolledBack, RollbackFailed, Goto
    <3>2. id \in Unfinished
      BY <3>1 DEF TableInv, LiveIsUnfinished, Unfinished
    <3>3. PICK op \in Operation, s \in Step : Advance(id, op, s)
      BY <2>3, RunAdvances, BoundsAreNumbers DEF TableInv
    <3>4. Unfinished' \in SUBSET Unfinished /\ updating' = updating
      BY <2>1, <3>2, <3>3 DEF Advance, Unfinished
    <3>5. QED
      BY <3>4 DEF Contract!Next, Contract!Settle
  <2>4. ASSUME NEW id \in OpId, Recover(id) PROVE Contract!Next
    <3>1. disk[id] # NoOp /\ updating' = updating
      BY <2>4 DEF Recover
    <3>2. disk' = disk \/ disk' = [disk EXCEPT ![id] = Recovered(disk[id])]
      BY <2>4 DEF Recover
    <3>3. disk[id] \in Operation
      BY <2>1, <3>1
    <3>4. Recovered(disk[id]).stage \in Terminal
      BY <3>3 DEF Recovered, Operation, Terminal
    <3>5. Unfinished' \in SUBSET Unfinished
      BY <2>1, <3>1, <3>2, <3>4 DEF Unfinished
    <3>6. QED
      BY <3>1, <3>5 DEF Contract!Next, Contract!Settle
  <2>5. CASE BeginUpdate
    BY <2>5 DEF BeginUpdate, Ops, Settled, Unfinished, Contract!Next, Contract!Begin
  <2>6. CASE EndUpdate
    BY <2>6 DEF EndUpdate, Unfinished, Contract!Next, Contract!End
  <2>7. CASE Crash \/ Boot \/ UNCHANGED vars
    BY <2>7 DEF Crash, Boot, vars, Unfinished
  <2>8. QED
    BY <2>2, <2>3, <2>4, <2>5, <2>6, <2>7 DEF Next
<1>3. QED
  BY <1>1, <1>2, TablesStayConsistent, PTL DEF Spec, ImplementsContract, Contract!Spec

(* The contract's own invariant, carried back: while an update is admitted *)
(* every operation file has an outcome, and while one has none no update   *)
(* begins.                                                                 *)
THEOREM TurnsAreTaken == Spec => []Contract!TakingTurns
<1>1. Contract!Init => Contract!TakingTurns
  BY DEF Contract!Init, Contract!TakingTurns
<1>2. Contract!TakingTurns /\ [Contract!Next]_<<Unfinished, updating>>
        => Contract!TakingTurns'
  BY DEF Contract!TakingTurns, Contract!Next, Contract!Settle, Contract!Begin,
     Contract!End, Contract!Admit
<1>3. QED
  BY <1>1, <1>2, KeepsContract, PTL DEF ImplementsContract, Contract!Spec

-----------------------------------------------------------------------------
(* A goroutine past Acquire holds its kernel's mutex, and where run says   *)
(* that the instances execute what the link names, they do.                *)
Holding == Step \ {"idle", "waiting"}

Mutex == \A id \in OpId : pc[id] \in Holding => lock[Of(id)] = id

Serves ==
  \A id \in OpId : pc[id] \in {"observing", "pruning", "finishing", "undo_observe"} =>
    serving[Of(id)] = current[Of(id)]

(* A step of run works on its own kernel and on its own record.            *)
LEMMA RunStaysHome ==
  ASSUME TableInv, NEW id \in OpId, Run(id)
  PROVE  /\ pc[id] # "idle" /\ up /\ up' = up
         /\ mem[id] \in Operation /\ disk[id] \in Operation
         /\ \A i \in OpId \ {id} : /\ mem'[i] = mem[i] /\ disk'[i] = disk[i]
                                   /\ pc'[i] = pc[i] /\ before'[i] = before[i]
         /\ mem'[id] # NoOp /\ mem'[id].kernel = mem[id].kernel
         /\ \A k \in Kernel \ {Of(id)} :
              /\ current'[k] = current[k] /\ serving'[k] = serving[k] /\ lock'[k] = lock[k]
              /\ installedAt'[k] = installedAt[k] /\ proven'[k] = proven[k]
<1>1. pc[id] # "idle"
  BY DEF Run, Acquire, Downloaded, Publish, Validate, BeginPreflight, Refuse,
         BeginSwitch, Switch, BeginRestart, Restarted, Observed, Prune, Succeed,
         BeginRollback, SwitchBack, RestartedBack, RolledBack, RollbackFailed, Goto
<1>2. up /\ mem[id] \in Operation /\ disk[id] \in Operation /\ mem[id] # NoOp
  BY <1>1 DEF TableInv, LiveIsUnfinished, TypeOK
<1>3. Of(id) \in Kernel
  BY <1>2 DEF Of, Operation
<1>4. PICK op \in Operation, s \in Step : Advance(id, op, s)
  BY RunAdvances, BoundsAreNumbers DEF TableInv
<1>5. /\ \A i \in OpId \ {id} : mem'[i] = mem[i] /\ disk'[i] = disk[i] /\ pc'[i] = pc[i]
      /\ up' = up /\ mem'[id] = op
  BY <1>4 DEF Advance, TableInv, TypeOK
<1>6. op # NoOp
  BY ValuesDistinct DEF ValuesDistinct
<1>7. /\ \A i \in OpId \ {id} : before'[i] = before[i]
      /\ \A k \in Kernel \ {Of(id)} : lock'[k] = lock[k]
  BY <1>3 DEF Run, Acquire, Downloaded, Publish, Validate, BeginPreflight, Refuse,
         BeginSwitch, Switch, BeginRestart, Restarted, Observed, Prune, Succeed,
         BeginRollback, SwitchBack, RestartedBack, RolledBack, RollbackFailed,
         Running, Finish, Of, TableInv, TypeOK
<1>8. \A k \in Kernel \ {Of(id)} :
        /\ current'[k] = current[k] /\ serving'[k] = serving[k]
        /\ installedAt'[k] = installedAt[k] /\ proven'[k] = proven[k]
  BY <1>3 DEF Run, Acquire, Downloaded, Publish, Validate, BeginPreflight, Refuse,
         BeginSwitch, Switch, BeginRestart, Restarted, Observed, Prune, Succeed,
         BeginRollback, SwitchBack, RestartedBack, RolledBack, RollbackFailed,
         kernelState, TableInv, TypeOK
<1>9. mem'[id].kernel = mem[id].kernel
  <2>1. \/ mem' = mem
        \/ \E g \in Stage : SetStage(id, g)
        \/ \E g \in Terminal, e \in BOOLEAN : Finish(id, g, e)
    BY DEF Run, Acquire, Downloaded, Publish, Validate, BeginPreflight, Refuse,
         BeginSwitch, Switch, BeginRestart, Restarted, Observed, Prune, Succeed,
         BeginRollback, SwitchBack, RestartedBack, RolledBack, RollbackFailed,
         record, Stage, LiveStage, Terminal
  <2>2. ASSUME NEW g \in Stage, SetStage(id, g) PROVE mem'[id].kernel = mem[id].kernel
    BY <1>2, <2>2 DEF SetStage, Operation, TableInv, TypeOK
  <2>3. ASSUME NEW g \in Terminal, NEW e \in BOOLEAN, Finish(id, g, e)
        PROVE  mem'[id].kernel = mem[id].kernel
    BY <1>2, <2>3 DEF Finish, Operation, TableInv, TypeOK
  <2> QED
    BY <2>1, <2>2, <2>3
<1> QED
  BY <1>1, <1>2, <1>5, <1>6, <1>7, <1>8, <1>9

\* A goroutine past Acquire ends or goes on, and the mutex follows it.
LEMMA RunKeepsMutex ==
  ASSUME TableInv, Mutex, NEW id \in OpId, Run(id)
  PROVE  Mutex'
<1> USE DEF Of
<1>1. /\ pc[id] # "idle" /\ mem[id] \in Operation
      /\ mem'[id].kernel = mem[id].kernel
      /\ \A i \in OpId \ {id} : mem'[i] = mem[i] /\ pc'[i] = pc[i]
      /\ \A k \in Kernel \ {Of(id)} : lock'[k] = lock[k]
  BY RunStaysHome
<1>2. Of(id) \in Kernel
  BY <1>1 DEF Operation
<1>3. CASE Acquire(id)
  <2>1. lock[Of(id)] = NoOp /\ lock'[Of(id)] = id
    BY <1>2, <1>3 DEF Acquire, TableInv, TypeOK
  <2>2. ASSUME NEW i \in OpId \ {id}, pc'[i] \in Holding PROVE lock'[mem'[i].kernel] = i
    <3>1. lock[Of(i)] = i /\ Of(i) \in Kernel /\ i # NoOp
      BY <1>1, <2>2, ValuesDistinct
         DEF Mutex, Holding, TableInv, TypeOK, LiveIsUnfinished, Operation, ValuesDistinct
    <3>2. Of(i) # Of(id)
      BY <2>1, <3>1
    <3> QED
      BY <1>1, <3>1, <3>2
  <2> QED
    BY <1>1, <2>1, <2>2 DEF Mutex
<1>4. CASE ~Acquire(id)
  <2>1. pc[id] \in Holding
    BY <1>4 DEF Run, Downloaded, Publish, Validate, BeginPreflight, Refuse,
         BeginSwitch, Switch, BeginRestart, Restarted, Observed, Prune, Succeed,
         BeginRollback, SwitchBack, RestartedBack, RolledBack, RollbackFailed, Goto,
         Holding, Step
  <2>2. lock' = lock \/ pc'[id] = "idle"
    BY <1>4 DEF Run, Downloaded, Publish, Validate, BeginPreflight, Refuse,
         BeginSwitch, Switch, BeginRestart, Restarted, Observed, Prune, Succeed,
         BeginRollback, SwitchBack, RestartedBack, RolledBack, RollbackFailed,
         Finish, Running, TableInv, TypeOK
  <2>3. ASSUME NEW i \in OpId \ {id}, pc'[i] \in Holding PROVE lock'[mem'[i].kernel] = i
    <3>1. lock[Of(i)] = i /\ lock[Of(id)] = id /\ Of(i) \in Kernel
      BY <1>1, <2>1, <2>3
         DEF Mutex, Holding, TableInv, TypeOK, LiveIsUnfinished, Operation
    <3> QED
      BY <1>1, <3>1
  <2>4. pc'[id] \in Holding => lock'[mem'[id].kernel] = id
    BY <1>1, <2>1, <2>2 DEF Mutex, Holding
  <2> QED
    BY <2>3, <2>4 DEF Mutex
<1> QED
  BY <1>3, <1>4

\* Only the holder of the mutex moves the link or restarts the instances.
LEMMA RunKeepsServing ==
  ASSUME TableInv, Mutex, Serves, NEW id \in OpId, Run(id)
  PROVE  Serves'
<1> USE DEF Of
<1>1. /\ pc[id] # "idle" /\ mem[id] \in Operation
      /\ mem'[id].kernel = mem[id].kernel
      /\ \A i \in OpId \ {id} : mem'[i] = mem[i] /\ pc'[i] = pc[i]
      /\ \A k \in Kernel \ {Of(id)} : serving'[k] = serving[k] /\ current'[k] = current[k]
  BY RunStaysHome
<1>2. Of(id) \in Kernel
  BY <1>1 DEF Operation
<1>3. ASSUME NEW i \in OpId \ {id},
             pc'[i] \in {"observing", "pruning", "finishing", "undo_observe"}
      PROVE  serving'[mem'[i].kernel] = current'[mem'[i].kernel]
  <2>1. /\ lock[Of(i)] = i /\ Of(i) \in Kernel
        /\ serving[Of(i)] = current[Of(i)] /\ i # NoOp
    BY <1>1, <1>3, ValuesDistinct
       DEF Mutex, Serves, Holding, Step, TableInv, TypeOK, LiveIsUnfinished, Operation,
           ValuesDistinct
  <2>2. CASE Of(i) # Of(id)
    BY <1>1, <2>1, <2>2
  <2>3. CASE Of(i) = Of(id)
    <3>1. pc[id] \notin Holding
      BY <2>1, <2>3 DEF Mutex
    <3>2. ~Acquire(id)
      BY <2>1, <2>3 DEF Acquire
    <3> QED
      BY <3>1, <3>2 DEF Run, Downloaded, Publish, Validate, BeginPreflight, Refuse,
         BeginSwitch, Switch, BeginRestart, Restarted, Observed, Prune, Succeed,
         BeginRollback, SwitchBack, RestartedBack, RolledBack, RollbackFailed, Goto,
         Holding, Step
  <2> QED
    BY <2>2, <2>3
<1>4. ASSUME pc'[id] \in {"observing", "pruning", "finishing", "undo_observe"}
      PROVE  serving'[Of(id)] = current'[Of(id)]
  <2>1. \/ Restarted(id) \/ RestartedBack(id) \/ Observed(id) \/ Prune(id)
    BY <1>4 DEF Run, Acquire, Downloaded, Publish, Validate, BeginPreflight, Refuse,
         BeginSwitch, Switch, BeginRestart, Succeed, BeginRollback, SwitchBack,
         RolledBack, RollbackFailed, Finish, Goto, TableInv, TypeOK
  <2> QED
    BY <1>2, <2>1 DEF Restarted, RestartedBack, Observed, Prune, Goto, Serves, TableInv, TypeOK
<1> QED
  BY <1>1, <1>3, <1>4 DEF Serves

Attended == Mutex /\ Serves

LEMMA InitAttended == Init => Attended
  BY DEF Init, Attended, Mutex, Serves, Holding

LEMMA NextAttended ==
  ASSUME TableInv, Attended, [Next]_vars
  PROVE  Attended'
<1>1. CASE \E id \in OpId : Run(id)
  BY <1>1, RunKeepsMutex, RunKeepsServing DEF Attended
<1>2. ASSUME NEW key \in Key, NEW k \in Kernel, NEW v \in Version, NEW a \in Action,
             Start(key, k, v, a)
      PROVE  Attended'
  <2>1. PICK id \in OpId : /\ pc' = [pc EXCEPT ![id] = "waiting"]
                           /\ \A i \in OpId \ {id} : mem'[i] = mem[i]
                           /\ lock' = lock /\ serving' = serving /\ current' = current
    BY <1>2 DEF Start, kernelState, TableInv, TypeOK
  <2>2. ASSUME NEW i \in OpId, pc'[i] \notin {"idle", "waiting"}
        PROVE  pc'[i] = pc[i] /\ Of(i)' = Of(i)
    BY <2>1, <2>2 DEF TableInv, TypeOK, Of
  <2>3. Mutex'
    BY <2>1, <2>2 DEF Mutex, Attended, Holding
  <2>4. Serves'
    BY <2>1, <2>2 DEF Serves, Attended
  <2> QED
    BY <2>3, <2>4 DEF Attended
<1>3. CASE (\E id \in OpId : Recover(id)) \/ Crash \/ Boot
  <2>1. \A i \in OpId : pc'[i] = "idle"
    BY <1>3 DEF Recover, Crash, Boot, TableInv, LiveIsUnfinished
  <2> QED
    BY <2>1 DEF Attended, Mutex, Serves, Holding
<1>4. CASE BeginUpdate \/ EndUpdate \/ UNCHANGED vars
  BY <1>4 DEF BeginUpdate, EndUpdate, vars, kernelState, Attended, Mutex, Serves, Of
<1> QED
  BY <1>1, <1>2, <1>3, <1>4 DEF Next

LEMMA AttendedInvariant == Spec => []Attended
<1>1. TableInv /\ Attended /\ [Next]_vars => Attended'
  BY NextAttended
<1> QED
  BY <1>1, InitAttended, TablesStayConsistent, PTL DEF Spec

(* An operation that ends while the agent runs, in success or rolled back, *)
(* leaves the kernel's instances executing what the link names: neither    *)
(* another operation of the kernel nor a failed write comes in between.    *)
THEOREM EndedOperationsAreServed == Spec => EndedOperationIsServed
<1>1. TableInv /\ Attended /\ [Next]_vars =>
        [\A id \in OpId :
           up /\ mem[id] # NoOp /\ ~Settled(mem, id)
              /\ mem'[id] # NoOp /\ mem'[id].stage \in {"succeeded", "rolled_back"}
           => serving'[mem[id].kernel] = current'[mem[id].kernel]]_vars
  <2> SUFFICES ASSUME TableInv, Attended, Next, NEW id \in OpId,
                      up, mem[id] # NoOp, ~Settled(mem, id),
                      mem'[id] # NoOp, mem'[id].stage \in {"succeeded", "rolled_back"}
               PROVE  serving'[mem[id].kernel] = current'[mem[id].kernel]
    OBVIOUS
  <2>1. mem[id] \in Operation /\ mem[id].stage \notin {"succeeded", "rolled_back"}
    BY DEF Settled, Terminal, TableInv, TypeOK
  <2>2. mem' # mem
    BY <2>1
  <2>3. ASSUME NEW key \in Key, NEW k \in Kernel, NEW v \in Version, NEW a \in Action,
               Start(key, k, v, a)
        PROVE  FALSE
    <3>1. PICK i \in OpId : /\ mem[i] = NoOp
                            /\ \A j \in OpId \ {i} : mem'[j] = mem[j]
      BY <2>3 DEF Start, TableInv, TypeOK
    <3> QED
      BY <2>1, <3>1
  <2>4. ~Crash /\ ~Boot /\ ~BeginUpdate /\ ~EndUpdate /\ \A i \in OpId : ~Recover(i)
    BY <2>2 DEF Crash, Boot, BeginUpdate, EndUpdate, Recover
  <2>5. PICK i \in OpId : Run(i)
    BY <2>3, <2>4 DEF Next
  <2>6. i = id
    BY <2>1, <2>5, RunStaysHome
  <2>7. ASSUME NEW g \in Stage \ {"succeeded", "rolled_back"}, SetStage(id, g)
        PROVE  FALSE
    BY <2>1, <2>7 DEF SetStage, Operation, TableInv, TypeOK
  <2>8. ASSUME NEW e \in BOOLEAN, Finish(id, "failed", e) PROVE FALSE
    BY <2>1, <2>8 DEF Finish, Operation, TableInv, TypeOK
  <2>9. Succeed(id) \/ RolledBack(id)
    BY <2>2, <2>5, <2>6, <2>7, <2>8 DEF Run, Acquire, Downloaded, Publish, Validate,
         BeginPreflight, Refuse, BeginSwitch, Switch, BeginRestart, Restarted, Observed, Prune,
         BeginRollback, SwitchBack, RestartedBack, RollbackFailed,
         record, Stage, LiveStage
  <2> QED
    BY <2>9 DEF Succeed, RolledBack, kernelState, Attended, Serves, Of
<1> QED
  BY <1>1, AttendedInvariant, TablesStayConsistent, PTL DEF Spec, EndedOperationIsServed

-----------------------------------------------------------------------------
(* What AdmittedOperationSettles rests on, for any overlap and any faults: *)
(* an operation that memory holds without an outcome has a goroutine, and  *)
(* a mutex that is taken is held by a goroutine that is past Acquire and   *)
(* works on that kernel, so that whoever waits for it waits for a worker.  *)
NobodyIsForgotten ==
  /\ \A id \in OpId : mem[id] # NoOp /\ ~Settled(mem, id) => pc[id] # "idle"
  /\ \A k \in Kernel : lock[k] # NoOp => pc[lock[k]] \in Holding /\ Of(lock[k]) = k

LEMMA RunForgetsNobody ==
  ASSUME TableInv, NobodyIsForgotten, NEW id \in OpId, Run(id)
  PROVE  NobodyIsForgotten'
<1>1. /\ pc[id] \in Step \ {"idle"} /\ pc'[id] \in Step
      /\ mem[id] \in Operation /\ Of(id) \in Kernel
      /\ mem'[id] # NoOp /\ mem'[id].kernel = mem[id].kernel
      /\ \A i \in OpId \ {id} : mem'[i] = mem[i] /\ pc'[i] = pc[i]
      /\ \A k \in Kernel \ {Of(id)} : lock'[k] = lock[k]
      /\ lock \in [Kernel -> OpId \cup {NoOp}] /\ pc \in [OpId -> Step]
  <2>1. pc'[id] \in Step
    BY RunPreserves, ValuesDistinct, BoundsAreNumbers DEF TableInv, TypeOK
  <2> QED
    BY <2>1, RunStaysHome DEF Of, Operation, TableInv, TypeOK
<1>2. CASE \E g \in Terminal, e \in BOOLEAN : Finish(id, g, e)
  <2>1. /\ pc'[id] = "idle" /\ mem'[id].stage \in Terminal
        /\ lock' = [lock EXCEPT ![Of(id)] = NoOp]
    BY <1>1, <1>2 DEF Finish, Of, Operation, TableInv, TypeOK
  <2>2. \A i \in OpId : mem'[i] # NoOp /\ ~Settled(mem, i)' => pc'[i] # "idle"
    BY <1>1, <2>1 DEF NobodyIsForgotten, Settled
  <2>3. ASSUME NEW k \in Kernel, lock'[k] # NoOp
        PROVE  pc'[lock'[k]] \in Holding /\ mem'[lock'[k]].kernel = k
    <3>1. k # Of(id) /\ lock'[k] = lock[k] /\ lock[k] \in OpId
      BY <1>1, <2>1, <2>3
    <3>2. pc[lock[k]] \in Holding /\ mem[lock[k]].kernel = k
      BY <2>3, <3>1 DEF NobodyIsForgotten, Of
    <3>3. lock[k] # id
      BY <3>1, <3>2 DEF Of
    <3> QED
      BY <1>1, <3>1, <3>2, <3>3
  <2> QED
    BY <2>2, <2>3 DEF NobodyIsForgotten, Of
<1>3. CASE pc'[id] \in Holding /\ (lock' = lock \/ lock' = [lock EXCEPT ![Of(id)] = id])
  <2>1. \A i \in OpId : mem'[i] # NoOp /\ ~Settled(mem, i)' => pc'[i] # "idle"
    BY <1>1, <1>3 DEF NobodyIsForgotten, Settled, Holding
  <2>2. ASSUME NEW k \in Kernel, lock'[k] # NoOp
        PROVE  pc'[lock'[k]] \in Holding /\ mem'[lock'[k]].kernel = k
    <3>1. CASE lock'[k] = id
      <4>1. k = Of(id)
        BY <1>1, <1>3, <2>2, <3>1 DEF NobodyIsForgotten
      <4> QED
        BY <1>1, <1>3, <3>1, <4>1 DEF Of
    <3>2. CASE lock'[k] # id
      BY <1>1, <1>3, <2>2, <3>2 DEF NobodyIsForgotten, Of
    <3> QED
      BY <3>1, <3>2
  <2> QED
    BY <2>1, <2>2 DEF NobodyIsForgotten, Of
<1>4. \/ \E g \in Terminal, e \in BOOLEAN : Finish(id, g, e)
      \/ pc'[id] \in Holding /\ (lock' = lock \/ lock' = [lock EXCEPT ![Of(id)] = id])
  <2>1. CASE Refuse(id) \/ Succeed(id) \/ RolledBack(id) \/ RollbackFailed(id)
    BY <2>1 DEF Refuse, Succeed, RolledBack, RollbackFailed, Terminal
  <2>2. CASE ~(Refuse(id) \/ Succeed(id) \/ RolledBack(id) \/ RollbackFailed(id))
    BY <1>1, <2>2 DEF Run, Acquire, Downloaded, Publish, Validate, BeginPreflight,
         BeginSwitch, Switch, BeginRestart, Restarted, Observed, Prune, BeginRollback,
         SwitchBack, RestartedBack, Goto, Running, Holding, Step
  <2> QED
    BY <2>1, <2>2
<1> QED
  BY <1>2, <1>3, <1>4

LEMMA NextForgetsNobody ==
  ASSUME TableInv, NobodyIsForgotten, [Next]_vars
  PROVE  NobodyIsForgotten'
<1>1. CASE \E id \in OpId : Run(id)
  BY <1>1, RunForgetsNobody
<1>2. ASSUME NEW key \in Key, NEW k \in Kernel, NEW v \in Version, NEW a \in Action,
             Start(key, k, v, a)
      PROVE  NobodyIsForgotten'
  <2>1. PICK id \in OpId : /\ mem[id] = NoOp
                           /\ pc' = [pc EXCEPT ![id] = "waiting"]
                           /\ \A i \in OpId \ {id} : mem'[i] = mem[i]
                           /\ lock' = lock
    BY <1>2 DEF Start, TableInv, TypeOK
  <2>2. \A i \in OpId : mem'[i] # NoOp /\ ~Settled(mem, i)' => pc'[i] # "idle"
    BY <2>1 DEF NobodyIsForgotten, Settled, TableInv, TypeOK
  <2>3. ASSUME NEW h \in Kernel, lock[h] # NoOp
        PROVE  pc'[lock[h]] \in Holding /\ mem'[lock[h]].kernel = h
    <3>1. lock[h] \in OpId /\ pc[lock[h]] \in Holding /\ mem[lock[h]].kernel = h
      BY <2>3 DEF NobodyIsForgotten, Of, TableInv, TypeOK
    <3>2. lock[h] # id
      BY <2>1, <3>1 DEF Holding, TableInv, LiveIsUnfinished
    <3> QED
      BY <2>1, <3>1, <3>2 DEF TableInv, TypeOK
  <2> QED
    BY <2>1, <2>2, <2>3 DEF NobodyIsForgotten, Of
<1>3. ASSUME NEW id \in OpId, Recover(id) PROVE NobodyIsForgotten'
  <2>1. /\ disk[id] \in Operation /\ UNCHANGED <<pc, lock>>
        /\ mem \in [OpId -> Operation \cup {NoOp}] /\ \A i \in OpId : pc[i] = "idle"
        /\ \/ mem' = [mem EXCEPT ![id] = Recovered(disk[id])]
           \/ mem' = [i \in OpId |-> NoOp]
    BY <1>3 DEF Recover, TableInv, TypeOK, LiveIsUnfinished
  <2>2. Recovered(disk[id]).stage \in Terminal
    BY <2>1 DEF Recovered, Operation, Terminal
  <2>3. \A i \in OpId : mem'[i] # NoOp => Settled(mem, i)'
    BY <2>1, <2>2 DEF NobodyIsForgotten, Settled
  <2>4. \A k \in Kernel : lock[k] = NoOp
    BY <2>1 DEF NobodyIsForgotten, Holding, TableInv, TypeOK
  <2> QED
    BY <2>1, <2>3, <2>4 DEF NobodyIsForgotten
<1>4. CASE Crash
  BY <1>4 DEF Crash, NobodyIsForgotten
<1>5. CASE Boot \/ BeginUpdate \/ EndUpdate \/ UNCHANGED vars
  BY <1>5 DEF Boot, BeginUpdate, EndUpdate, vars, NobodyIsForgotten, Settled, Of
<1> QED
  BY <1>1, <1>2, <1>3, <1>4, <1>5 DEF Next

(* No operation is left without a goroutine and no mutex without a worker, *)
(* whatever overlaps, crashes or is not saved.                             *)
THEOREM OperationsAreAttended == Spec => []NobodyIsForgotten
<1>1. Init => NobodyIsForgotten
  BY DEF Init, NobodyIsForgotten
<1>2. TableInv /\ NobodyIsForgotten /\ [Next]_vars => NobodyIsForgotten'
  BY NextForgetsNobody
<1> QED
  BY <1>1, <1>2, TablesStayConsistent, PTL DEF Spec

-----------------------------------------------------------------------------
(* Rollback and recovery, as long as the panel keeps operations of one     *)
(* kernel apart (no Overlap) and no write fails.                           *)
(*                                                                         *)
(* Then a kernel has at most one operation without an outcome (Single),    *)
(* memory and disk say the same (Saved), and the stage on disk tells where *)
(* the link is (Positioned), also after a crash.  A version that was not   *)
(* observed has a report before the next operation starts from it          *)
(* (Reports).                                                              *)
Open(id) == disk[id] # NoOp /\ disk[id].stage \notin Terminal

StageAt(s) ==
  CASE s \in {"waiting", "validating"} -> {"queued"}
    [] s = "ready" -> {"queued", "verifying"}
    [] s = "switched" -> {"switching"}
    [] s \in {"pruning", "finishing"} -> {"observing"}
    [] s \in {"undoing", "undo_restart", "undo_observe"} -> {"rolling_back"}
    [] OTHER -> {s}

Placed ==
  \A id \in OpId :
    /\ pc[id] # "idle" => disk[id].stage \in StageAt(pc[id])
    /\ up /\ Open(id) => pc[id] # "idle"

Saved ==
  \A id \in OpId : mem[id] # NoOp =>
    /\ mem[id] = disk[id]
    /\ ~up => mem[id].stage \in Terminal

Single ==
  \A i, j \in OpId : Open(i) /\ Open(j) /\ disk[i].kernel = disk[j].kernel => i = j

(* Where the link may be, by the stage on disk and the goroutine's place.  *)
LinkAt(op, s) ==
  CASE s \in {"switching", "undo_restart", "undo_observe"} -> {op.from}
    [] s \in {"switched", "undoing"} \/ op.stage \in {"restarting", "observing"} -> {op.target}
    [] s = "idle" /\ op.stage \in {"switching", "rolling_back"} -> {op.from, op.target}
    [] OTHER -> {op.from}

SpotOf(op, s, link, first, seen) ==
  /\ link \in LinkAt(op, s)
  /\ op.stage # "queued" \/ s \in Holding => first = op.from
  /\ s \in {"pruning", "finishing"} => op.target \in seen

Spot(id) ==
  SpotOf(disk[id], pc[id], current[disk[id].kernel], before[id], proven[disk[id].kernel])

Positioned == \A id \in OpId : Open(id) => Spot(id)

Reported(k, v) ==
  \E id \in OpId : /\ disk[id] # NoOp
                   /\ disk[id].kernel = k /\ disk[id].target = v
                   /\ disk[id].stage = "failed" /\ disk[id].rollbackError

Unproven(k, v) == v \in Version /\ Installed(k, v) /\ v \notin proven[k]

Trying(k, v) ==
  \E id \in OpId : /\ Open(id) /\ disk[id].stage \in LiveStage
                   /\ disk[id].kernel = k /\ disk[id].target = v

Reports ==
  \A k \in Kernel :
    /\ Unproven(k, current[k]) => Reported(k, current[k]) \/ Trying(k, current[k])
    /\ \A id \in OpId : Open(id) /\ disk[id].kernel = k /\ Unproven(k, disk[id].from) =>
         Reported(k, disk[id].from)

Serial == Placed /\ Saved /\ Single /\ Positioned /\ Reports

\* A step of run keeps memory and disk together, and its place tells the stage.
LEMMA RunSaves ==
  ASSUME TableInv, Saved, Placed, NEW id \in OpId, Run(id), faults = 0, faults' = 0
  PROVE  /\ disk[id] \in Operation /\ disk'[id] \in Operation
         /\ mem[id] = disk[id] /\ mem'[id] = disk'[id]
         /\ disk'[id].kernel = disk[id].kernel
         /\ disk'[id].from = disk[id].from /\ disk'[id].target = disk[id].target
         /\ IF pc'[id] = "idle" THEN disk'[id].stage \in Terminal
                                ELSE /\ disk'[id].stage \in StageAt(pc'[id])
                                     /\ disk'[id].stage \notin Terminal
<1>1. pc[id] # "idle" /\ mem[id] \in Operation /\ disk[id] \in Operation
  BY RunStaysHome
<1>2. /\ mem[id] = disk[id] /\ disk[id].stage \notin Terminal
      /\ disk[id].stage \in StageAt(pc[id])
  BY <1>1 DEF Saved, Placed, TableInv, LiveIsUnfinished
<1>3. ASSUME NEW g \in Stage \ Terminal, NEW s \in Step \ {"idle"}, SetStage(id, g),
             g \in StageAt(s), pc' = [pc EXCEPT ![id] = s]
      PROVE  /\ disk'[id] \in Operation /\ mem'[id] = disk'[id]
             /\ disk'[id].kernel = disk[id].kernel
             /\ disk'[id].from = disk[id].from /\ disk'[id].target = disk[id].target
             /\ pc'[id] # "idle" /\ disk'[id].stage \in StageAt(pc'[id])
             /\ disk'[id].stage \notin Terminal
  <2>1. disk' = [disk EXCEPT ![id] = mem'[id]] /\ mem'[id] = [mem[id] EXCEPT !.stage = g]
    BY <1>3 DEF SetStage, Persist, TableInv, TypeOK
  <2>2. disk'[id] = [mem[id] EXCEPT !.stage = g] /\ pc'[id] = s
    BY <2>1, <1>3 DEF TableInv, TypeOK
  <2> QED
    BY <1>1, <1>2, <1>3, <2>1, <2>2 DEF Operation
<1>4. ASSUME NEW s \in Step \ {"idle"}, mem' = mem,
             Persist(id, mem[id]) \/ UNCHANGED <<disk, faults>>,
             disk[id].stage \in StageAt(s), pc' = [pc EXCEPT ![id] = s]
      PROVE  /\ disk'[id] = disk[id] /\ mem'[id] = disk[id]
             /\ pc'[id] # "idle" /\ disk'[id].stage \in StageAt(pc'[id])
             /\ disk'[id].stage \notin Terminal
  BY <1>1, <1>2, <1>4 DEF Persist, TableInv, TypeOK
<1>5. ASSUME NEW g \in Terminal, NEW e \in BOOLEAN, Finish(id, g, e)
      PROVE  /\ disk'[id] \in Operation /\ mem'[id] = disk'[id]
             /\ disk'[id].kernel = disk[id].kernel
             /\ disk'[id].from = disk[id].from /\ disk'[id].target = disk[id].target
             /\ pc'[id] = "idle" /\ disk'[id].stage \in Terminal
  <2>1. /\ disk' = [disk EXCEPT ![id] = mem'[id]]
        /\ mem'[id] = [mem[id] EXCEPT !.stage = g, !.rollbackError = e]
        /\ pc'[id] = "idle"
    BY <1>5 DEF Finish, Persist, TableInv, TypeOK
  <2>2. disk'[id] = [mem[id] EXCEPT !.stage = g, !.rollbackError = e]
    BY <2>1 DEF TableInv, TypeOK
  <2>3. g \in Stage
    BY DEF Stage
  <2>4. /\ disk'[id] \in Operation /\ disk'[id].stage = g
        /\ disk'[id].kernel = mem[id].kernel
        /\ disk'[id].from = mem[id].from /\ disk'[id].target = mem[id].target
    BY <1>1, <2>2, <2>3 DEF Operation
  <2> QED
    BY <1>2, <2>1, <2>2, <2>4
<1>6. CASE Acquire(id) \/ Downloaded(id) \/ BeginPreflight(id) \/ BeginSwitch(id)
             \/ BeginRestart(id) \/ Restarted(id) \/ BeginRollback(id)
  <2>1. \/ \E g \in {"downloading", "verifying", "preflight", "switching", "restarting",
                     "observing"} : SetStage(id, g) /\ pc' = [pc EXCEPT ![id] = g]
        \/ SetStage(id, "rolling_back") /\ pc' = [pc EXCEPT ![id] = "undoing"]
        \/ pc[id] = "waiting" /\ UNCHANGED record /\ pc' = [pc EXCEPT ![id] = "validating"]
    <3>1. CASE Acquire(id)
      BY <3>1 DEF Acquire
    <3>2. CASE Downloaded(id) \/ BeginPreflight(id) \/ BeginSwitch(id)
      BY <3>2 DEF Downloaded, BeginPreflight, BeginSwitch, Goto
    <3>3. CASE BeginRestart(id) \/ Restarted(id)
      BY <3>3 DEF BeginRestart, Restarted, Goto
    <3>4. CASE BeginRollback(id)
      BY <3>4 DEF BeginRollback, Goto
    <3> QED
      BY <1>6, <3>1, <3>2, <3>3, <3>4
  <2>2. \A g \in {"downloading", "verifying", "preflight", "switching", "restarting",
                 "observing"} :
          g \in Stage \ Terminal /\ g \in Step \ {"idle"} /\ g \in StageAt(g)
    BY DEF Stage, LiveStage, Terminal, Step, StageAt
  <2>3. /\ "rolling_back" \in Stage \ Terminal /\ "undoing" \in Step \ {"idle"}
        /\ "rolling_back" \in StageAt("undoing")
    BY DEF Stage, LiveStage, Terminal, Step, StageAt
  <2>4. ASSUME pc[id] = "waiting", UNCHANGED record, pc' = [pc EXCEPT ![id] = "validating"]
        PROVE  disk[id].stage \in StageAt("validating") /\ "validating" \in Step
    BY <1>2, <2>4 DEF StageAt, Step
  <2>5. CASE \E g \in {"downloading", "verifying", "preflight", "switching", "restarting",
                      "observing"} : SetStage(id, g) /\ pc' = [pc EXCEPT ![id] = g]
    BY <1>1, <1>2, <1>3, <2>2, <2>5
  <2>6. CASE SetStage(id, "rolling_back") /\ pc' = [pc EXCEPT ![id] = "undoing"]
    BY <1>1, <1>2, <1>3, <2>3, <2>6
  <2> QED
    BY <1>1, <1>2, <1>4, <2>1, <2>4, <2>5, <2>6 DEF record
<1>7. CASE Publish(id) \/ Validate(id)
  <2>1. disk[id].stage \in StageAt("ready") /\ "ready" \in Step
    BY <1>2, <1>7 DEF Publish, Validate, Goto, StageAt, Step
  <2>2. mem' = mem /\ Persist(id, mem[id]) /\ pc' = [pc EXCEPT ![id] = "ready"]
    BY <1>7 DEF Publish, Validate, Goto
  <2> QED
    BY <1>1, <1>2, <1>4, <2>1, <2>2
<1>8. CASE Switch(id) \/ Observed(id) \/ Prune(id) \/ SwitchBack(id) \/ RestartedBack(id)
  <2>1. PICK s \in {"switched", "pruning", "finishing", "undo_restart", "undo_observe"} :
          pc' = [pc EXCEPT ![id] = s] /\ disk[id].stage \in StageAt(s)
    BY <1>2, <1>8 DEF Switch, Observed, Prune, SwitchBack, RestartedBack, Goto, StageAt
  <2>2. mem' = mem /\ UNCHANGED <<disk, faults>> /\ s \in Step \ {"idle"}
    BY <1>8 DEF Switch, Observed, Prune, SwitchBack, RestartedBack, record, Step
  <2> QED
    BY <1>1, <1>2, <1>4, <2>1, <2>2
<1>9. CASE Refuse(id) \/ Succeed(id) \/ RolledBack(id) \/ RollbackFailed(id)
  <2>1. \E g \in Terminal, e \in BOOLEAN : Finish(id, g, e)
    BY <1>9 DEF Refuse, Succeed, RolledBack, RollbackFailed, Terminal
  <2> QED
    BY <1>1, <1>2, <1>5, <2>1
<1> QED
  BY <1>6, <1>7, <1>8, <1>9 DEF Run

(* Where the link is while a goroutine is at work.                         *)
Moved == {"switched", "restarting", "observing", "pruning", "finishing", "undoing"}

LEMMA SpotTells ==
  ASSUME NEW op, NEW s \in Step \ {"idle"}, NEW link, NEW first, NEW seen,
         op.stage \in StageAt(s)
  PROVE  SpotOf(op, s, link, first, seen) <=>
           /\ link = IF s \in Moved THEN op.target ELSE op.from
           /\ s \in Holding => first = op.from
           /\ s \in {"pruning", "finishing"} => op.target \in seen
<1>1. LinkAt(op, s) = {IF s \in Moved THEN op.target ELSE op.from}
  BY DEF LinkAt, Moved, Step, StageAt
<1>2. op.stage # "queued" => s \in Holding
  BY DEF Step, StageAt, Holding
<1> QED
  BY <1>1, <1>2 DEF SpotOf

(* A crash leaves the goroutine's place unknown, and the stage still tells.*)
LEMMA SpotLasts ==
  ASSUME NEW op, NEW s \in Step, NEW link, NEW first, NEW seen,
         s # "idle" => op.stage \in StageAt(s),
         SpotOf(op, s, link, first, seen)
  PROVE  SpotOf(op, "idle", link, first, seen)
<1>1. LinkAt(op, s) \subseteq LinkAt(op, "idle")
  BY DEF LinkAt, Step, StageAt
<1> QED
  BY <1>1 DEF SpotOf, Holding

\* What a step of run does to the link, and what it knows when it ends.
LEMMA RunPositions ==
  ASSUME TableInv, Placed, Saved, Positioned, NEW id \in OpId, Run(id),
         faults = 0, faults' = 0
  PROVE  /\ pc'[id] # "idle" => Spot(id)'
         /\ pc'[id] = "idle" =>
              \/ current'[Of(id)] = From(id)
              \/ Target(id) \in proven'[Of(id)] /\ current'[Of(id)] = Target(id)
              \/ /\ disk'[id].stage = "failed" /\ disk'[id].rollbackError
                 /\ current'[Of(id)] = Target(id)
<1> USE DEF Of, From, Target
<1> DEFINE k == mem[id].kernel
           At == IF pc[id] \in Moved THEN mem[id].target ELSE mem[id].from
<1>1. /\ pc[id] \in Step \ {"idle"} /\ pc'[id] \in Step
      /\ mem[id] \in Operation /\ mem[id] = disk[id] /\ mem'[id] = disk'[id]
      /\ disk'[id].kernel = k /\ disk'[id].from = mem[id].from
      /\ disk'[id].target = mem[id].target
      /\ disk[id].stage \in StageAt(pc[id])
      /\ pc'[id] # "idle" => disk'[id].stage \in StageAt(pc'[id])
  <2>1. pc'[id] \in Step
    BY RunPreserves, ValuesDistinct, BoundsAreNumbers DEF TableInv, TypeOK
  <2> QED
    BY <2>1, RunSaves, RunStaysHome DEF Placed, TableInv, TypeOK
<1>2. k \in Kernel /\ mem[id].target \in Version /\ mem[id].from \in Link
  BY <1>1 DEF Operation
<1>3. Open(id)
  BY <1>1 DEF Open, TableInv, LiveIsUnfinished
<1>4. /\ current[k] = At
      /\ pc[id] \in Holding => before[id] = mem[id].from
      /\ pc[id] \in {"pruning", "finishing"} => mem[id].target \in proven[k]
  BY <1>1, <1>3, SpotTells DEF Positioned, Spot
<1>5. pc'[id] # "idle" =>
        (Spot(id)' <=>
           /\ current'[k] = IF pc'[id] \in Moved THEN mem[id].target ELSE mem[id].from
           /\ pc'[id] \in Holding => before'[id] = mem[id].from
           /\ pc'[id] \in {"pruning", "finishing"} => mem[id].target \in proven'[k])
  BY <1>1, SpotTells DEF Spot
<1>6. /\ pc \in [OpId -> Step] /\ current \in [Kernel -> Link]
      /\ proven \in [Kernel -> SUBSET Version] /\ before \in [OpId -> Link]
  BY DEF TableInv, TypeOK
<1>7. CASE \/ Acquire(id) \/ Downloaded(id) \/ Publish(id) \/ Validate(id)
           \/ BeginPreflight(id) \/ BeginSwitch(id) \/ Refuse(id)
  <2>1. /\ current' = current /\ pc'[id] \notin Moved /\ pc[id] \notin Moved
        /\ pc'[id] \notin {"pruning", "finishing"}
    BY <1>6, <1>7 DEF Acquire, Downloaded, Publish, Validate, BeginPreflight, BeginSwitch, Refuse,
           Finish, Goto, kernelState, Moved
  <2>2. pc'[id] \in Holding => before'[id] = mem[id].from
    <3>1. CASE Acquire(id)
      BY <1>4, <1>6, <2>1, <3>1 DEF Acquire
    <3>2. CASE ~Acquire(id)
      <4>1. before' = before /\ pc[id] \in Holding
        BY <1>7, <3>2 DEF Downloaded, Publish, Validate, BeginPreflight, BeginSwitch, Refuse,
           Finish, Goto, Running, Holding, Step
      <4> QED
        BY <1>4, <4>1
    <3> QED
      BY <3>1, <3>2
  <2> QED
    BY <1>4, <1>5, <2>1, <2>2 DEF k, At
<1>8. CASE Switch(id)
  BY <1>2, <1>4, <1>5, <1>6, <1>8 DEF Switch, Goto, Running, Moved, Holding, Step, k
<1>9. CASE BeginRestart(id) \/ Restarted(id) \/ BeginRollback(id)
  <2>1. /\ current' = current /\ before' = before
        /\ pc[id] \in Moved /\ pc[id] \in Holding
        /\ pc'[id] \in {"restarting", "observing", "undoing"}
    BY <1>6, <1>9 DEF BeginRestart, Restarted, BeginRollback, Goto, Running, kernelState,
           Moved, Holding, Step
  <2> QED
    BY <1>4, <1>5, <2>1 DEF Moved, At
<1>10. CASE Observed(id)
  <2>1. /\ current' = current /\ before' = before /\ mem[id].target \in proven'[k]
        /\ pc[id] = "observing" /\ pc'[id] = "pruning"
    BY <1>2, <1>6, <1>10 DEF Observed, Goto, Running, k
  <2> QED
    BY <1>4, <1>5, <2>1 DEF Moved, At, Holding, Step
<1>11. CASE Prune(id)
  <2>1. PICK gone \in SUBSET {v \in Version : Installed(k, v) /\ v \notin Kept(k)} :
          proven' = [proven EXCEPT ![k] = @ \ gone]
    BY <1>11 DEF Prune, k
  <2>2. /\ current' = current /\ before' = before
        /\ pc[id] = "pruning" /\ pc'[id] = "finishing"
    BY <1>6, <1>11 DEF Prune, Goto, Running
  <2>3. current[k] = mem[id].target /\ mem[id].target \in proven[k]
    BY <1>4, <2>2 DEF Moved, At
  <2>4. mem[id].target \notin gone
    BY <1>2, <2>1, <2>3 DEF Kept
  <2> QED
    BY <1>2, <1>4, <1>5, <1>6, <2>1, <2>2, <2>3, <2>4 DEF Moved, Holding, Step
<1>12. CASE Succeed(id)
  <2>1. current' = current /\ proven' = proven /\ pc[id] = "finishing" /\ pc'[id] = "idle"
    BY <1>6, <1>12 DEF Succeed, Finish, kernelState
  <2> QED
    BY <1>4, <2>1 DEF Moved, At, k
<1>13. CASE SwitchBack(id) \/ RestartedBack(id) \/ RolledBack(id)
  <2>1. /\ before' = before /\ pc[id] \in Holding
        /\ pc'[id] \notin Moved \cup {"pruning", "finishing"}
    BY <1>6, <1>13 DEF SwitchBack, RestartedBack, RolledBack, Finish, Goto, Running, Moved,
           Holding, Step
  <2>2. current'[k] = mem[id].from
    <3>1. CASE SwitchBack(id)
      BY <1>2, <1>6, <3>1 DEF SwitchBack, k
    <3>2. CASE RestartedBack(id) \/ RolledBack(id)
      BY <1>4, <3>2 DEF RestartedBack, RolledBack, Goto, kernelState, Moved, At
    <3> QED
      BY <1>13, <3>1, <3>2
  <2> QED
    BY <1>4, <1>5, <2>1, <2>2 DEF k
<1>14. CASE RollbackFailed(id)
  <2>1. /\ current' = current /\ pc'[id] = "idle"
        /\ pc[id] \in {"undoing", "undo_restart", "undo_observe"}
        /\ mem'[id] = [mem[id] EXCEPT !.stage = "failed", !.rollbackError = TRUE]
    BY <1>6, <1>14 DEF RollbackFailed, Finish, TableInv, TypeOK
  <2>2. disk'[id].stage = "failed" /\ disk'[id].rollbackError
    BY <1>1, <2>1 DEF Operation
  <2>3. current[k] = mem[id].from \/ current[k] = mem[id].target
    BY <1>4 DEF At
  <2> QED
    BY <2>1, <2>2, <2>3 DEF k
<1> QED
  BY <1>7, <1>8, <1>9, <1>10, <1>11, <1>12, <1>13, <1>14 DEF Run

\* No step of run takes an observation back from a version that stays, except
\* that a version that was gone is installed anew.
LEMMA RunProves ==
  ASSUME TableInv, NEW id \in OpId, Run(id),
         NEW v \in Version, Installed(Of(id), v)', v \notin proven'[Of(id)]
  PROVE  \/ Installed(Of(id), v) /\ v \notin proven[Of(id)]
         \/ Publish(id) /\ v = Target(id) /\ ~Installed(Of(id), v)
<1> DEFINE k == Of(id)
<1>1. /\ mem[id] \in Operation
      /\ mem'[id].kernel = mem[id].kernel
  BY RunStaysHome
<1>2. /\ k \in Kernel /\ Target(id) \in Version
      /\ proven \in [Kernel -> SUBSET Version]
      /\ installedAt \in [Kernel -> [Version -> Nat]] /\ clock \in Nat
  BY <1>1 DEF Of, Target, Operation, TableInv, TypeOK
<1>3. installedAt'[k][v] > 0
  BY <1>1 DEF Installed, Of
<1> HIDE DEF k
<1>4. CASE Publish(id)
  BY <1>2, <1>3, <1>4 DEF Publish, Installed, k
<1>5. CASE Prune(id)
  <2>1. PICK gone \in SUBSET {w \in Version : Installed(k, w) /\ w \notin Kept(k)} :
          /\ installedAt' = [installedAt EXCEPT ![k] =
                               [w \in Version |-> IF w \in gone THEN 0 ELSE @[w]]]
          /\ proven' = [proven EXCEPT ![k] = @ \ gone]
    BY <1>5 DEF Prune, k
  <2>2. v \notin gone
    BY <1>2, <1>3, <2>1
  <2>3. installedAt'[k][v] = installedAt[k][v] /\ (v \in proven'[k] <=> v \in proven[k])
    BY <1>2, <2>1, <2>2
  <2> QED
    BY <1>3, <2>3 DEF Installed, k
<1>6. CASE Observed(id)
  BY <1>2, <1>3, <1>6 DEF Observed, Installed, k
<1>7. CASE ~Publish(id) /\ ~Prune(id) /\ ~Observed(id)
  <2>1. installedAt' = installedAt /\ proven' = proven
    BY <1>7 DEF Run, Acquire, Downloaded, Validate, BeginPreflight, Refuse,
         BeginSwitch, Switch, BeginRestart, Restarted, Succeed,
         BeginRollback, SwitchBack, RestartedBack, RolledBack, RollbackFailed, kernelState
  <2> QED
    BY <1>3, <2>1 DEF Installed, k
<1> QED
  BY <1>4, <1>5, <1>6, <1>7

LEMMA RunKeepsSerial ==
  ASSUME TableInv, CurrentInstalled, Serial, NEW id \in OpId, Run(id),
         faults = 0, faults' = 0
  PROVE  Serial'
<1>0. PICK k \in Kernel : k = mem[id].kernel
  BY RunStaysHome DEF Operation
<1>1. /\ pc[id] \in Step \ {"idle"} /\ up /\ up'
      /\ disk[id] \in Operation /\ disk'[id] \in Operation
      /\ mem[id] = disk[id] /\ mem'[id] = disk'[id]
      /\ disk'[id].kernel = k
      /\ disk'[id].from = disk[id].from /\ disk'[id].target = disk[id].target
      /\ IF pc'[id] = "idle" THEN disk'[id].stage \in Terminal
                             ELSE /\ disk'[id].stage \in StageAt(pc'[id])
                                  /\ disk'[id].stage \notin Terminal
  BY <1>0, RunSaves, RunStaysHome DEF Serial, TableInv, TypeOK
<1>2. /\ \A i \in OpId \ {id} : /\ mem'[i] = mem[i] /\ disk'[i] = disk[i]
                                /\ pc'[i] = pc[i] /\ before'[i] = before[i]
      /\ \A h \in Kernel \ {k} : /\ current'[h] = current[h]
                                 /\ installedAt'[h] = installedAt[h] /\ proven'[h] = proven[h]
  BY <1>0, RunStaysHome DEF Of
<1>3. /\ k \in Kernel /\ disk[id].kernel = k /\ Open(id)
      /\ disk[id].from \in Link /\ disk[id].target \in Version
      /\ disk \in [OpId -> Operation \cup {NoOp}]
      /\ disk[id] # NoOp /\ disk'[id] # NoOp
  BY <1>0, <1>1, ValuesDistinct DEF Operation, Open, TableInv, TypeOK, LiveIsUnfinished, ValuesDistinct
<1>4. /\ pc'[id] # "idle" => Spot(id)'
      /\ pc'[id] = "idle" =>
           \/ current'[k] = disk[id].from
           \/ disk[id].target \in proven'[k] /\ current'[k] = disk[id].target
           \/ /\ disk'[id].stage = "failed" /\ disk'[id].rollbackError
              /\ current'[k] = disk[id].target
  BY <1>0, <1>1, RunPositions DEF Of, From, Target, Serial
<1>5. \A i \in OpId \ {id} : Open(i)' <=> Open(i)
  BY <1>2 DEF Open
<1>6. \A i \in OpId \ {id} : Open(i) => disk[i].kernel \in Kernel \ {k}
  BY <1>3 DEF Serial, Single, Open, Operation
<1>7. Open(id)' <=> pc'[id] # "idle"
  BY <1>1, <1>3 DEF Open
<1>8. Placed'
  BY <1>1, <1>2, <1>5, <1>7 DEF Serial, Placed
<1>9. Saved'
  BY <1>1, <1>2 DEF Serial, Saved
<1>10. Single'
  BY <1>1, <1>2, <1>3, <1>5, <1>6 DEF Serial, Single
<1>11. Positioned'
  <2>1. ASSUME NEW i \in OpId \ {id}, Open(i) PROVE Spot(i)'
    BY <1>2, <1>6, <2>1 DEF Serial, Positioned, Spot
  <2> QED
    BY <1>4, <1>5, <1>7, <2>1 DEF Positioned
<1>12. ASSUME NEW h \in Kernel, NEW v, Reported(h, v) PROVE Reported(h, v)'
  <2>1. PICK i \in OpId : /\ disk[i] # NoOp /\ disk[i].kernel = h /\ disk[i].target = v
                          /\ disk[i].stage = "failed" /\ disk[i].rollbackError
    BY <1>12 DEF Reported
  <2>2. i # id
    BY <1>3, <2>1 DEF Open, Terminal
  <2> QED
    BY <1>2, <2>1, <2>2 DEF Reported
<1>13. Reports'
  <2>1. ASSUME NEW h \in Kernel \ {k}
        PROVE  /\ Unproven(h, current[h])' => Reported(h, current[h])' \/ Trying(h, current[h])'
               /\ \A i \in OpId : Open(i)' /\ disk'[i].kernel = h /\ Unproven(h, disk[i].from)' =>
                    Reported(h, disk[i].from)'
    <3>1. \A v : Unproven(h, v)' <=> Unproven(h, v)
      BY <1>2, <2>1 DEF Unproven, Installed
    <3>2. \A v : Trying(h, v) => Trying(h, v)'
      BY <1>2, <1>3, <1>5, <2>1 DEF Trying
    <3>3. \A i \in OpId : Open(i)' /\ disk'[i].kernel = h => Open(i) /\ disk'[i] = disk[i]
      BY <1>1, <1>2, <1>5, <2>1
    <3>4. current'[h] = current[h]
      BY <1>2, <2>1
    <3> QED
      BY <1>12, <2>1, <3>1, <3>2, <3>3, <3>4 DEF Serial, Reports
  <2>2. ASSUME NEW w \in Version, w = disk[id].from, Unproven(k, w)'
        PROVE  Reported(k, w)'
    <3>1. Unproven(k, w)
      <4>1. \/ Unproven(k, w)
            \/ Publish(id) /\ w = disk[id].target /\ ~Installed(k, w)
        BY <1>0, <1>1, <2>2, RunProves DEF Unproven, Of, Target, Installed
      <4>2. ASSUME Publish(id) PROVE Installed(k, w)
        <5>1. pc[id] = "verifying" /\ disk[id].stage \in StageAt(pc[id])
          BY <4>2 DEF Publish, Goto, Serial, Placed
        <5>2. current[k] = disk[id].from
          BY <1>3, <5>1, SpotTells DEF Serial, Positioned, Spot, Moved, Step
        <5> QED
          BY <1>3, <2>2, <5>2, ValuesDistinct DEF CurrentInstalled, ValuesDistinct
      <4> QED
        BY <4>1, <4>2
    <3> QED
      BY <1>3, <1>12, <2>2, <3>1 DEF Serial, Reports
  <2>3. Unproven(k, current[k])' => Reported(k, current[k])' \/ Trying(k, current[k])'
    <3> SUFFICES ASSUME Unproven(k, current[k])'
                 PROVE  Reported(k, current[k])' \/ Trying(k, current[k])'
      OBVIOUS
    <3>1. current'[k] \in Version /\ current'[k] \notin proven'[k]
      BY DEF Unproven
    <3>2. CASE current'[k] = disk[id].from
      BY <2>2, <3>1, <3>2
    <3>3. CASE pc'[id] = "idle" /\ current'[k] # disk[id].from
      BY <1>1, <1>3, <1>4, <3>1, <3>3 DEF Reported
    <3>4. CASE pc'[id] # "idle" /\ current'[k] # disk[id].from
      <4>1. pc'[id] \in Step
        BY RunPreserves, ValuesDistinct, BoundsAreNumbers DEF TableInv, TypeOK
      <4>2. current'[k] = disk[id].target /\ pc'[id] \in Moved
        BY <1>1, <1>4, <3>4, <4>1, SpotTells DEF Spot
      <4>3. disk'[id].stage \in LiveStage
        BY <1>1, <3>4, <4>2 DEF Moved, StageAt, LiveStage
      <4> QED
        BY <1>1, <1>3, <1>7, <3>4, <4>2, <4>3 DEF Trying
    <3> QED
      BY <3>2, <3>3, <3>4
  <2>4. \A i \in OpId : Open(i)' /\ disk'[i].kernel = k /\ Unproven(k, disk[i].from)' =>
          Reported(k, disk[i].from)'
    <3> SUFFICES ASSUME NEW i \in OpId, Open(i)', disk'[i].kernel = k, Unproven(k, disk[i].from)'
                 PROVE  Reported(k, disk[i].from)'
      OBVIOUS
    <3>1. i = id
      BY <1>2, <1>5, <1>6
    <3> QED
      BY <1>1, <2>2, <3>1 DEF Unproven
  <2> QED
    BY <2>1, <2>3, <2>4 DEF Reports
<1> QED
  BY <1>8, <1>9, <1>10, <1>11, <1>13 DEF Serial

(* Recovery settles one file: what no goroutine finished goes back to the  *)
(* version it had started from, or says that it could not.                 *)
LEMMA RecoverSettles ==
  ASSUME TableInv, Positioned, NEW id \in OpId, Recover(id), faults = 0, faults' = 0,
         disk[id].stage \notin Terminal
  PROVE  /\ Open(id) /\ disk[id] \in Operation /\ disk'[id] \in Operation
         /\ disk'[id].kernel = disk[id].kernel /\ disk'[id].target = disk[id].target
         /\ disk'[id].stage \in Terminal
         /\ current[disk[id].kernel] \in LinkAt(disk[id], "idle")
         /\ disk[id].stage \in LiveStage => before[id] = disk[id].from
         /\ \/ current'[disk[id].kernel] = disk[id].from
            \/ /\ current' = current
               /\ current[disk[id].kernel] = disk[id].target
               /\ disk'[id].stage = "failed" /\ disk'[id].rollbackError
         /\ disk'[id].stage = "rolled_back" =>
              disk[id].stage \in LiveStage /\ current'[disk[id].kernel] = disk[id].from
<1> DEFINE op == disk[id]
           k == op.kernel
<1>1. /\ op \in Operation /\ Open(id) /\ pc[id] = "idle" /\ k \in Kernel
      /\ current \in [Kernel -> Link] /\ disk \in [OpId -> Operation \cup {NoOp}]
      /\ op.stage \notin Terminal /\ faults' # faults + 1
  BY DEF Recover, Open, TableInv, TypeOK, LiveIsUnfinished, Operation
<1>2. disk'[id] = Recovered(op)
  BY <1>1 DEF Recover
<1>3. /\ current[k] \in LinkAt(op, "idle")
      /\ op.stage # "queued" => before[id] = op.from
  BY <1>1 DEF Positioned, Spot, SpotOf
<1>4. current' = IF op.stage \in LiveStage /\ CanSwitchBack(op)
                   THEN [current EXCEPT ![k] = op.from] ELSE current
  BY DEF Recover
<1>5. /\ Recovered(op) \in Operation /\ Recovered(op).kernel = k
      /\ Recovered(op).target = op.target /\ Recovered(op).stage \in Terminal
  BY <1>1 DEF Recovered, Operation, Stage, Terminal
<1>6. op.stage \notin LiveStage => current[k] = op.from
  BY <1>3 DEF LinkAt, LiveStage
<1>7. op.stage \in LiveStage => current[k] \in {op.from, op.target}
  BY <1>3 DEF LinkAt
<1>8. CASE op.stage \notin LiveStage
  <2>1. Recovered(op).stage = "failed"
    BY <1>1, <1>8 DEF Recovered, Operation
  <2> QED
    BY <1>1, <1>2, <1>3, <1>4, <1>5, <1>6, <1>8, <2>1
<1>9. CASE op.stage \in LiveStage /\ CanSwitchBack(op)
  <2>1. current'[k] = op.from
    BY <1>1, <1>4, <1>9
  <2> QED
    BY <1>1, <1>2, <1>3, <1>5, <1>9, <2>1 DEF LiveStage
<1>10. CASE op.stage \in LiveStage /\ ~CanSwitchBack(op) /\ current[k] = op.from
  BY <1>1, <1>2, <1>3, <1>4, <1>5, <1>10 DEF LiveStage
<1>11. CASE op.stage \in LiveStage /\ ~CanSwitchBack(op) /\ current[k] # op.from
  <2>1. Recovered(op).stage = "failed" /\ Recovered(op).rollbackError
    BY <1>1, <1>11 DEF Recovered, Operation
  <2> QED
    BY <1>1, <1>2, <1>3, <1>4, <1>5, <1>7, <1>11, <2>1 DEF LiveStage
<1> QED
  BY <1>8, <1>9, <1>10, <1>11

LEMMA RecoverKeepsSerial ==
  ASSUME TableInv, Serial, NEW id \in OpId, Recover(id), faults = 0, faults' = 0
  PROVE  Serial'
<1>1. /\ ~up /\ ~up' /\ disk[id] \in Operation /\ disk[id] # NoOp
      /\ mem \in [OpId -> Operation \cup {NoOp}]
      /\ disk \in [OpId -> Operation \cup {NoOp}]
      /\ current \in [Kernel -> Link] /\ faults' # faults + 1
      /\ UNCHANGED <<pc, installedAt, proven, before>>
      /\ \A i \in OpId : pc[i] = "idle"
  BY DEF Recover, TableInv, TypeOK, LiveIsUnfinished
<1>2. /\ mem' = [mem EXCEPT ![id] = Recovered(disk[id])]
      /\ disk' = [disk EXCEPT ![id] = Recovered(disk[id])]
  BY <1>1 DEF Recover
<1>3. /\ Recovered(disk[id]) \in Operation /\ Recovered(disk[id]).stage \in Terminal
      /\ Recovered(disk[id]) # NoOp
  <2>1. Recovered(disk[id]) \in Operation /\ Recovered(disk[id]).stage \in Terminal
    BY <1>1 DEF Recovered, Operation, Stage, Terminal
  <2> QED
    BY <2>1, ValuesDistinct DEF ValuesDistinct
<1>4. Placed'
  BY <1>1 DEF Placed
<1>5. Saved'
  BY <1>1, <1>2, <1>3 DEF Serial, Saved
<1>6. CASE disk[id].stage \in Terminal
  <2>1. disk' = disk /\ current' = current
    <3>1. disk[id].stage \notin LiveStage /\ Recovered(disk[id]) = disk[id]
      BY <1>6 DEF Terminal, LiveStage, Recovered
    <3> QED
      BY <1>1, <1>2, <3>1 DEF Recover
  <2>2. Single' /\ Positioned'
    BY <1>1, <2>1 DEF Serial, Single, Positioned, Spot, Open
  <2>3. Reports'
    BY <1>1, <2>1 DEF Serial, Reports, Reported, Trying, Unproven, Installed, Open
  <2> QED
    BY <1>4, <1>5, <2>2, <2>3 DEF Serial
<1>7. CASE disk[id].stage \notin Terminal
  <2>1. PICK k \in Kernel, w \in Link : k = disk[id].kernel /\ w = disk[id].from
    BY <1>1 DEF Operation
  <2>2. /\ Open(id) /\ disk'[id] # NoOp
        /\ disk'[id].kernel = k /\ disk'[id].target = disk[id].target
        /\ disk'[id].stage \in Terminal
        /\ \/ current'[k] = w
           \/ /\ current'[k] = disk[id].target
              /\ disk'[id].stage = "failed" /\ disk'[id].rollbackError
    BY <1>1, <1>2, <1>3, <1>7, <2>1, RecoverSettles DEF Serial
  <2>3. /\ \A i \in OpId \ {id} : disk'[i] = disk[i]
        /\ \A h \in Kernel \ {k} : current'[h] = current[h]
    BY <1>1, <1>2, <2>1 DEF Recover
  <2>4. /\ ~Open(id)'
        /\ \A i \in OpId \ {id} : Open(i)' <=> Open(i)
    BY <2>2, <2>3 DEF Open
  <2>5. \A i \in OpId \ {id} : Open(i) => disk[i].kernel \in Kernel \ {k}
    BY <1>1, <2>1, <2>2 DEF Serial, Single, Open, Operation
  <2>6. Single'
    BY <2>3, <2>4 DEF Serial, Single
  <2>7. Positioned'
    BY <1>1, <2>3, <2>4, <2>5 DEF Serial, Positioned, Spot
  <2>8. ASSUME NEW h \in Kernel, NEW v, Reported(h, v) PROVE Reported(h, v)'
    <3>1. PICK i \in OpId : /\ disk[i] # NoOp /\ disk[i].kernel = h /\ disk[i].target = v
                            /\ disk[i].stage = "failed" /\ disk[i].rollbackError
      BY <2>8 DEF Reported
    <3>2. i # id
      BY <1>7, <3>1 DEF Terminal
    <3> QED
      BY <2>3, <3>1, <3>2 DEF Reported
  <2>9. Reports'
    <3>1. \A h \in Kernel, v \in Version : Unproven(h, v)' <=> Unproven(h, v)
      BY <1>1 DEF Unproven, Installed
    <3>2. ASSUME NEW h \in Kernel \ {k}
          PROVE  /\ Unproven(h, current[h])' => Reported(h, current[h])' \/ Trying(h, current[h])'
                 /\ \A i \in OpId : Open(i)' /\ disk'[i].kernel = h /\ Unproven(h, disk[i].from)' =>
                      Reported(h, disk[i].from)'
      <4>1. \A v : Trying(h, v) => Trying(h, v)'
        BY <2>1, <2>3, <2>4, <3>2 DEF Trying
      <4>2. current'[h] = current[h]
        BY <2>3, <3>2
      <4>3. \A i \in OpId : Open(i)' => Open(i) /\ disk'[i] = disk[i]
        BY <2>3, <2>4
      <4>4. \A v : Unproven(h, v)' <=> Unproven(h, v)
        BY <1>1 DEF Unproven, Installed
      <4> QED
        BY <2>8, <3>2, <4>1, <4>2, <4>3, <4>4 DEF Serial, Reports
    <3>3. \A i \in OpId : ~(Open(i)' /\ disk'[i].kernel = k)
      BY <2>3, <2>4, <2>5
    <3>4. ASSUME NEW v \in Version, v = current'[k], Unproven(k, v)'
          PROVE  Reported(k, v)'
      <4>1. CASE v = w
        <5>1. Reported(k, v)
          BY <2>1, <2>2, <3>1, <3>4, <4>1 DEF Serial, Reports
        <5> QED
          BY <2>8, <5>1
      <4>2. CASE v # w
        BY <2>2, <3>4, <4>2 DEF Reported
      <4> QED
        BY <4>1, <4>2
    <3>5. Unproven(k, current[k])' => Reported(k, current[k])'
      BY <3>4 DEF Unproven
    <3> QED
      BY <3>2, <3>3, <3>5 DEF Reports
  <2> QED
    BY <1>4, <1>5, <2>6, <2>7, <2>9 DEF Serial
<1> QED
  BY <1>6, <1>7

\* Nothing else of the kernel is unfinished when an operation is admitted.
LEMMA StartKeepsSerial ==
  ASSUME ~Overlap, TableInv, Serial, NEW key \in Key, NEW k \in Kernel, NEW v \in Version,
         NEW a \in Action, Start(key, k, v, a)
  PROVE  Serial'
<1>1. PICK id \in OpId :
        /\ up /\ mem[id] = NoOp /\ disk[id] = NoOp
        /\ \A i \in Ops(mem) : mem[i].kernel = k => Settled(mem, i)
        /\ disk' = [disk EXCEPT ![id] = [key |-> key, kernel |-> k, from |-> current[k],
                      target |-> v, action |-> a, stage |-> "queued", rollbackError |-> FALSE]]
        /\ mem' = [mem EXCEPT ![id] = [key |-> key, kernel |-> k, from |-> current[k],
                      target |-> v, action |-> a, stage |-> "queued", rollbackError |-> FALSE]]
        /\ pc' = [pc EXCEPT ![id] = "waiting"]
        /\ UNCHANGED <<up, current, installedAt, proven, before>>
  BY DEF Start, kernelState
<1>2. PICK w \in Link : w = current[k]
  BY DEF TableInv, TypeOK
<1>3. [key |-> key, kernel |-> k, from |-> w, target |-> v, action |-> a,
       stage |-> "queued", rollbackError |-> FALSE] \in Operation
  BY DEF Operation, Stage
<1>4. /\ disk'[id] \in Operation /\ disk'[id] # NoOp /\ mem'[id] = disk'[id]
      /\ disk'[id].kernel = k /\ disk'[id].from = w /\ disk'[id].stage = "queued"
      /\ pc'[id] = "waiting"
  BY <1>1, <1>2, <1>3, ValuesDistinct DEF TableInv, TypeOK, ValuesDistinct
<1>5. /\ \A i \in OpId \ {id} : mem'[i] = mem[i] /\ disk'[i] = disk[i] /\ pc'[i] = pc[i]
      /\ UNCHANGED <<up, current, installedAt, proven, before>> /\ up
  BY <1>1 DEF TableInv, TypeOK
<1>6. Open(id)' /\ ~Open(id) /\ \A i \in OpId \ {id} : Open(i)' <=> Open(i)
  BY <1>1, <1>4, <1>5 DEF Open, Terminal
<1>7. \A i \in OpId : Open(i) => disk[i].kernel # k
  BY <1>1 DEF Open, Serial, Saved, TableInv, TablesAgree, Ops, Settled
<1>8. Placed' /\ Saved'
  BY <1>4, <1>5, <1>6 DEF Serial, Placed, Saved, StageAt
<1>9. Single'
  BY <1>4, <1>5, <1>6, <1>7 DEF Serial, Single
<1>10. Positioned'
  <2>1. Spot(id)'
    <3>1. LinkAt(disk'[id], "waiting") = {w}
      BY <1>4 DEF LinkAt
    <3> QED
      BY <1>2, <1>4, <1>5, <3>1 DEF Spot, SpotOf, Holding
  <2>2. \A i \in OpId \ {id} : Open(i) => Spot(i)'
    BY <1>5 DEF Serial, Positioned, Spot
  <2> QED
    BY <1>6, <2>1, <2>2 DEF Positioned
<1>11. Reports'
  <2>1. \A h \in Kernel : \A u : Unproven(h, u)' <=> Unproven(h, u)
    BY <1>5 DEF Unproven, Installed
  <2>2. \A h \in Kernel : \A u : Reported(h, u) => Reported(h, u)'
    BY <1>1, <1>5 DEF Reported
  <2>3. \A h \in Kernel : \A u : Trying(h, u) => Trying(h, u)'
    BY <1>5, <1>6 DEF Trying
  <2>4. \A u : ~Trying(k, u)
    BY <1>7 DEF Trying
  <2>5. ASSUME NEW h \in Kernel, NEW i \in OpId, Open(i)', disk'[i].kernel = h,
               NEW u \in Link, u = disk'[i].from, Unproven(h, u)'
        PROVE  Reported(h, u)'
    <3>1. CASE i = id
      <4>1. h = k /\ u = current[k]
        BY <1>2, <1>4, <2>5, <3>1
      <4> QED
        BY <2>1, <2>2, <2>4, <2>5, <4>1 DEF Serial, Reports
    <3>2. CASE i # id
      BY <1>5, <1>6, <2>1, <2>2, <2>5, <3>2 DEF Serial, Reports
    <3> QED
      BY <3>1, <3>2
  <2>6. \A i \in OpId : Open(i)' => disk'[i].from \in Link
    BY <1>4, <1>5, <1>6 DEF Open, TableInv, TypeOK, Operation
  <2>7. ASSUME NEW h \in Kernel
        PROVE  Unproven(h, current[h])' => Reported(h, current[h])' \/ Trying(h, current[h])'
    <3>1. current'[h] = current[h]
      BY <1>5
    <3> QED
      BY <2>1, <2>2, <2>3, <3>1 DEF Serial, Reports
  <2>8. ASSUME NEW h \in Kernel, NEW i \in OpId, Open(i)', disk'[i].kernel = h,
               Unproven(h, disk[i].from)'
        PROVE  Reported(h, disk[i].from)'
    BY <2>5, <2>6, <2>8
  <2> QED
    BY <2>7, <2>8 DEF Reports
<1> QED
  BY <1>8, <1>9, <1>10, <1>11 DEF Serial

LEMMA NextKeepsSerial ==
  ASSUME ~Overlap, TableInv, CurrentInstalled, Serial, [Next]_vars, faults = 0, faults' = 0
  PROVE  Serial'
<1>1. CASE \E key \in Key, k \in Kernel, v \in Version, a \in Action : Start(key, k, v, a)
  BY <1>1, StartKeepsSerial
<1>2. CASE \E id \in OpId : Run(id)
  BY <1>2, RunKeepsSerial
<1>3. CASE \E id \in OpId : Recover(id)
  BY <1>3, RecoverKeepsSerial
<1>4. CASE Crash
  <2>1. /\ ~up' /\ \A i \in OpId : mem'[i] = NoOp /\ pc'[i] = "idle"
        /\ UNCHANGED <<disk, current, installedAt, proven, before>>
    BY <1>4 DEF Crash
  <2>2. Placed' /\ Saved' /\ Single'
    BY <2>1 DEF Serial, Placed, Saved, Single, Open
  <2>3. ASSUME NEW i \in OpId, Open(i) PROVE Spot(i)'
    <3>1. SpotOf(disk[i], pc[i], current[disk[i].kernel], before[i], proven[disk[i].kernel])
      BY <2>3 DEF Serial, Positioned, Spot
    <3>2. pc[i] \in Step /\ (pc[i] # "idle" => disk[i].stage \in StageAt(pc[i]))
      BY DEF Serial, Placed, TableInv, TypeOK
    <3> QED
      BY <2>1, <3>1, <3>2, SpotLasts DEF Spot
  <2>4. Positioned'
    BY <2>1, <2>3 DEF Positioned, Open
  <2>5. Reports'
    BY <2>1 DEF Serial, Reports, Reported, Trying, Unproven, Installed, Open
  <2> QED
    BY <2>2, <2>4, <2>5 DEF Serial
<1>5. CASE Boot
  <2>1. /\ \A i \in OpId : (disk[i] # NoOp => mem[i] # NoOp) /\ pc[i] = "idle"
        /\ ~up /\ UNCHANGED <<mem, pc, disk, current, installedAt, proven, before>>
    BY <1>5 DEF Boot, TableInv, LiveIsUnfinished
  <2>2. \A i \in OpId : ~Open(i)
    BY <2>1 DEF Serial, Saved, Open
  <2>3. \A i \in OpId : ~Open(i)'
    BY <2>1, <2>2 DEF Open
  <2>4. Placed' /\ Saved' /\ Single' /\ Positioned'
    BY <1>5, <2>1, <2>3 DEF Boot, Serial, Placed, Saved, Single, Positioned
  <2>5. Reports'
    BY <2>1 DEF Serial, Reports, Reported, Trying, Unproven, Installed, Open
  <2> QED
    BY <2>4, <2>5 DEF Serial
<1>6. CASE BeginUpdate \/ EndUpdate \/ UNCHANGED vars
  <2>1. UNCHANGED <<up, mem, pc, disk, current, installedAt, proven, before>>
    BY <1>6 DEF BeginUpdate, EndUpdate, vars, kernelState
  <2>2. Placed' /\ Saved' /\ Single'
    BY <2>1 DEF Serial, Placed, Saved, Single, Open
  <2>3. Positioned'
    BY <2>1 DEF Serial, Positioned, Spot, Open
  <2>4. Reports'
    BY <2>1 DEF Serial, Reports, Reported, Trying, Unproven, Installed, Open
  <2> QED
    BY <2>2, <2>3, <2>4 DEF Serial
<1> QED
  BY <1>1, <1>2, <1>3, <1>4, <1>5, <1>6 DEF Next

LEMMA InitSerial == Init => Serial
<1> SUFFICES ASSUME Init PROVE Serial
  OBVIOUS
<1>1. Placed /\ Saved /\ Single /\ Positioned
  BY DEF Init, Placed, Saved, Single, Positioned, Open
<1>2. \A k \in Kernel : \A v : ~Unproven(k, v)
  BY DEF Init, Unproven, Installed
<1> QED
  BY <1>1, <1>2 DEF Serial, Reports, Open, Init

UntilAWriteFails == faults = 0 => Serial

LEMMA FaultsOnlyGrow ==
  ASSUME TableInv, [Next]_vars, faults' = 0
  PROVE  faults = 0
<1>1. faults \in Nat
  BY DEF TableInv, TypeOK
<1>2. ASSUME NEW id \in OpId, Run(id) PROVE faults' \in {faults, faults + 1}
  BY <1>2 DEF Run, Acquire, Downloaded, Publish, Validate, BeginPreflight, Refuse,
         BeginSwitch, Switch, BeginRestart, Restarted, Observed, Prune, Succeed,
         BeginRollback, SwitchBack, RestartedBack, RolledBack, RollbackFailed,
         SetStage, Finish, Persist, record
<1>3. ASSUME NEW key \in Key, NEW k \in Kernel, NEW v \in Version, NEW a \in Action,
             Start(key, k, v, a)
      PROVE  faults' = faults
  BY <1>3 DEF Start
<1>4. ASSUME NEW id \in OpId, Recover(id) PROVE faults' \in {faults, faults + 1}
  BY <1>4 DEF Recover
<1>5. Crash \/ Boot \/ BeginUpdate \/ EndUpdate \/ UNCHANGED vars => faults' = faults
  BY DEF Crash, Boot, BeginUpdate, EndUpdate, vars
<1> QED
  BY <1>1, <1>2, <1>3, <1>4, <1>5 DEF Next

LEMMA SerialInvariant == ASSUME ~Overlap PROVE Spec => []UntilAWriteFails
<1>1. Init => UntilAWriteFails
  BY InitSerial DEF UntilAWriteFails
<1>2. TableInv /\ CurrentInstalled /\ UntilAWriteFails /\ [Next]_vars => UntilAWriteFails'
  BY NextKeepsSerial, FaultsOnlyGrow DEF UntilAWriteFails
<1> QED
  BY <1>1, <1>2, TablesStayConsistent, LinkNeverDangles, PTL DEF Spec

(* An idle kernel never runs a version that nobody observed unless an      *)
(* operation says so: as long as operations of one kernel do not overlap,  *)
(* and until a write fails.                                                *)
THEOREM UnprovenVersionsAreReported ==
  ASSUME ~Overlap
  PROVE  Spec => [](faults = 0 => UnprovenCurrentIsReported)
<1>1. TableInv /\ CurrentInstalled /\ Attended /\ UntilAWriteFails =>
        (faults = 0 => UnprovenCurrentIsReported)
  <2> SUFFICES ASSUME TableInv, CurrentInstalled, Attended, Serial,
                      NEW k \in Kernel, up, lock[k] = NoOp, current[k] \in Version \ proven[k]
               PROVE  \E id \in Ops(mem) :
                        /\ mem[id].kernel = k /\ mem[id].target = current[k]
                        /\ mem[id].stage = "failed" /\ mem[id].rollbackError
    BY DEF UntilAWriteFails, UnprovenCurrentIsReported
  <2>1. Unproven(k, current[k])
    BY ValuesDistinct DEF Unproven, CurrentInstalled, ValuesDistinct
  <2>2. ~Trying(k, current[k])
    <3> SUFFICES ASSUME NEW id \in OpId, Open(id), disk[id].stage \in LiveStage,
                        disk[id].kernel = k
                 PROVE  FALSE
      BY DEF Trying
    <3>1. pc[id] \in Holding
      BY DEF Serial, Placed, Holding, StageAt, LiveStage, TableInv, TypeOK
    <3>2. mem[id] = disk[id]
      BY DEF Serial, Saved, TableInv, TablesAgree, Open
    <3> QED
      BY <3>1, <3>2, ValuesDistinct DEF Attended, Mutex, Of, ValuesDistinct
  <2>3. Reported(k, current[k])
    BY <2>1, <2>2 DEF Serial, Reports
  <2> QED
    BY <2>3 DEF Reported, Serial, Saved, TableInv, TablesAgree, Ops
<1> QED
  BY <1>1, SerialInvariant, AttendedInvariant, TablesStayConsistent, LinkNeverDangles, PTL

AllWritten == faults = 0

LEMMA NoWriteFails == ASSUME MaxPersistFailures = 0 PROVE Spec => []AllWritten
<1>1. Init => AllWritten
  BY DEF Init, AllWritten
<1>2. AllWritten /\ [Next]_vars => AllWritten'
  <2> SUFFICES ASSUME faults = 0, [Next]_vars PROVE faults' = 0
    BY DEF AllWritten
  <2>1. ASSUME NEW id \in OpId, Run(id) PROVE faults' = faults
    BY <2>1 DEF Run, Acquire, Downloaded, Publish, Validate, BeginPreflight, Refuse,
         BeginSwitch, Switch, BeginRestart, Restarted, Observed, Prune, Succeed,
         BeginRollback, SwitchBack, RestartedBack, RolledBack, RollbackFailed,
         SetStage, Finish, Persist, record
  <2>2. ASSUME NEW key \in Key, NEW k \in Kernel, NEW v \in Version, NEW a \in Action,
               Start(key, k, v, a)
        PROVE  faults' = faults
    BY <2>2 DEF Start
  <2>3. ASSUME NEW id \in OpId, Recover(id) PROVE faults' = faults
    BY <2>3 DEF Recover
  <2>4. Crash \/ Boot \/ BeginUpdate \/ EndUpdate \/ UNCHANGED vars => faults' = faults
    BY DEF Crash, Boot, BeginUpdate, EndUpdate, vars
  <2> QED
    BY <2>1, <2>2, <2>3, <2>4 DEF Next
<1> QED
  BY <1>1, <1>2, PTL DEF Spec

\* Only run's last step and recovery report a rollback.
LEMMA OnlyRolledBackReports ==
  ASSUME TableInv, Serial, NEW i \in OpId, Run(i), NEW id \in OpId, ~Settled(disk, id),
         disk[id] # NoOp, disk'[id].stage = "rolled_back", faults = 0, faults' = 0
  PROVE  RolledBack(id)
<1>1. disk[id].stage # "rolled_back" /\ \A j \in OpId \ {i} : disk'[j] = disk[j]
  BY RunStaysHome DEF Settled, Terminal
<1>2. i = id
  BY <1>1
<1>3. mem'[id] = disk'[id] /\ mem[id] \in Operation
  BY <1>2, RunSaves, RunStaysHome DEF Serial
<1>4. ASSUME NEW g \in Stage \ {"rolled_back"}, SetStage(id, g) PROVE FALSE
  BY <1>3, <1>4 DEF SetStage, Operation, TableInv, TypeOK
<1>5. ASSUME NEW g \in {"failed", "succeeded"}, NEW e \in BOOLEAN, Finish(id, g, e) PROVE FALSE
  BY <1>3, <1>5 DEF Finish, Operation, TableInv, TypeOK
<1>6. mem' # mem
  BY <1>1, <1>2, <1>3, RunSaves DEF Serial
<1> QED
  BY <1>2, <1>4, <1>5, <1>6 DEF Run, Acquire, Downloaded, Publish, Validate,
     BeginPreflight, Refuse, BeginSwitch, Switch, BeginRestart, Restarted, Observed, Prune,
     Succeed, BeginRollback, SwitchBack, RestartedBack, RollbackFailed,
     record, Stage, LiveStage

(* An operation that reports "rolled_back", by itself or in recovery, has  *)
(* put back the version that was live when it got the kernel.              *)
THEOREM RollbacksRestoreThePrevious ==
  ASSUME ~Overlap, MaxPersistFailures = 0
  PROVE  Spec => RollbackRestoresPrevious
<1>1. TableInv /\ UntilAWriteFails /\ [Next]_vars /\ AllWritten /\ AllWritten' =>
        [\A id \in OpId :
           disk[id] # NoOp /\ ~Settled(disk, id)
              /\ disk'[id] # NoOp /\ disk'[id].stage = "rolled_back"
           => current'[disk[id].kernel] = before[id]]_vars
  <2> SUFFICES ASSUME TableInv, Serial, Next, faults = 0, faults' = 0, NEW id \in OpId,
                      disk[id] # NoOp, ~Settled(disk, id), disk'[id].stage = "rolled_back"
               PROVE  current'[disk[id].kernel] = before[id]
    BY DEF UntilAWriteFails, AllWritten
  <2>1. Open(id) /\ disk[id].stage # "rolled_back"
    BY DEF Open, Settled, Terminal
  <2>2. CASE \E i \in OpId : Run(i)
    <3>1. RolledBack(id)
      BY <2>2, OnlyRolledBackReports
    <3>2. /\ pc[id] = "undo_observe" /\ current' = current
          /\ disk[id].stage \in StageAt(pc[id])
      BY <3>1 DEF RolledBack, kernelState, Serial, Placed
    <3>3. current[disk[id].kernel] = disk[id].from /\ before[id] = disk[id].from
      BY <2>1, <3>2, SpotTells DEF Serial, Positioned, Spot, Moved, Holding, Step
    <3> QED
      BY <3>2, <3>3
  <2>3. ASSUME NEW i \in OpId, Recover(i) PROVE current'[disk[id].kernel] = before[id]
    <3>1. disk' = [disk EXCEPT ![i] = Recovered(disk[i])] /\ disk \in [OpId -> Operation \cup {NoOp}]
      BY <2>1, <2>3 DEF Recover, TableInv, TypeOK
    <3>2. i = id
      BY <2>1, <3>1
    <3> QED
      BY <2>1, <2>3, <3>2, RecoverSettles DEF Serial, Open
  <2>4. ASSUME NEW key \in Key, NEW k \in Kernel, NEW v \in Version, NEW a \in Action,
               Start(key, k, v, a)
        PROVE  disk'[id] = disk[id]
    BY <2>4 DEF Start, TableInv, TypeOK
  <2>5. Crash \/ Boot \/ BeginUpdate \/ EndUpdate => disk' = disk
    BY DEF Crash, Boot, BeginUpdate, EndUpdate
  <2> QED
    BY <2>1, <2>2, <2>3, <2>4, <2>5 DEF Next
<1> QED
  BY <1>1, SerialInvariant, NoWriteFails, TablesStayConsistent, PTL
     DEF Spec, RollbackRestoresPrevious

(* Recovery moves the link only away from the version that the operation   *)
(* it settles was installing, never away from another operation's success. *)
THEOREM RecoveryUndoesItsOwn ==
  ASSUME ~Overlap, MaxPersistFailures = 0
  PROVE  Spec => RecoveryUndoesOnlyItsTarget
<1>1. TableInv /\ UntilAWriteFails /\ [Next]_vars /\ AllWritten /\ AllWritten' =>
        [\A id \in OpId :
           ~up /\ disk[id] # NoOp /\ mem[id] = NoOp /\ mem'[id] # NoOp
           => \A k \in Kernel : current'[k] # current[k] =>
                k = disk[id].kernel /\ current[k] = disk[id].target]_vars
  <2> SUFFICES ASSUME TableInv, Serial, Next, faults = 0, faults' = 0, NEW id \in OpId,
                      ~up, disk[id] # NoOp, mem[id] = NoOp, mem'[id] # NoOp,
                      NEW k \in Kernel, current'[k] # current[k]
               PROVE  k = disk[id].kernel /\ current[k] = disk[id].target
    BY DEF UntilAWriteFails, AllWritten
  <2>1. PICK i \in OpId : Recover(i)
    BY RunStaysHome DEF Next, Start, Crash, Boot, BeginUpdate, EndUpdate, kernelState
  <2>2. mem' = [mem EXCEPT ![i] = Recovered(disk[i])] /\ mem \in [OpId -> Operation \cup {NoOp}]
    BY <2>1 DEF Recover, TableInv, TypeOK
  <2>3. i = id
    BY <2>2
  <2>4. disk[id].stage \in LiveStage
    BY <2>1, <2>3 DEF Recover
  <2>5. disk[id].stage \notin Terminal
    BY <2>4 DEF LiveStage, Terminal
  <2>6. /\ current[disk[id].kernel] \in LinkAt(disk[id], "idle")
        /\ \/ current'[disk[id].kernel] = disk[id].from
           \/ current' = current
    BY <2>1, <2>3, <2>5, RecoverSettles DEF Serial
  <2>7. k = disk[id].kernel
    BY <2>1, <2>3 DEF Recover, TableInv, TypeOK
  <2>8. current[k] \in {disk[id].from, disk[id].target}
    BY <2>6, <2>7 DEF LinkAt
  <2> QED
    BY <2>6, <2>7, <2>8
<1> QED
  BY <1>1, SerialInvariant, NoWriteFails, TablesStayConsistent, PTL
     DEF Spec, RecoveryUndoesOnlyItsTarget
=============================================================================
