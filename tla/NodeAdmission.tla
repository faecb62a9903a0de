----------------------------- MODULE NodeAdmission -----------------------------
(***************************************************************************)
(* What the agent and the host promise each other about one node: kernel   *)
(* operations and a container update take turns.  The agent admits an      *)
(* operation only while no update is under way, the host begins an update  *)
(* only while no operation is unfinished; either may end at any time, an   *)
(* agent restart ends several operations at once.                          *)
(*                                                                         *)
(* KernelManager and HostMaintenance each see one side of this contract    *)
(* and implement it.                                                       *)
(***************************************************************************)
CONSTANT Operation

VARIABLES
  active,     \* kernel operations that have no outcome
  updating    \* a container update is admitted

Init ==
  /\ active = {}
  /\ updating = FALSE

Admit(op) ==
  /\ ~updating
  /\ op \notin active
  /\ active' = active \cup {op}
  /\ UNCHANGED updating

Settle ==
  /\ active' \in SUBSET active
  /\ UNCHANGED updating

Begin ==
  /\ active = {}
  /\ updating' = TRUE
  /\ UNCHANGED active

End ==
  /\ updating' = FALSE
  /\ UNCHANGED active

Next == Settle \/ Begin \/ End \/ \E op \in Operation : Admit(op)

Spec == Init /\ [][Next]_<<active, updating>>

(* A container is never replaced under a running kernel operation.         *)
TakingTurns == updating => active = {}
=============================================================================
