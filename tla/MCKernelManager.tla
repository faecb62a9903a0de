---------------------------- MODULE MCKernelManager ----------------------------
(* Instances of KernelManager for TLC. *)
EXTENDS KernelManager, TLC

CONSTANTS v1, v2, v3

\* Two versions of history, the newer one last, and one release to install.
MCInitialAge == [v \in Version |-> IF v = v1 THEN 1 ELSE IF v = v2 THEN 2 ELSE 0]

\* Only v1 is installed: the smallest history that has something to go back to.
MCFirstAge == [v \in Version |-> IF v = v1 THEN 1 ELSE 0]

\* Identifiers are random and keys are opaque: permuting them changes nothing.
MCSymmetry == Permutations(OpId) \cup Permutations(Key)
=============================================================================
