--------------------------- MODULE MCHostMaintenance ---------------------------
(* Instances of HostMaintenance for TLC. *)
EXTENDS HostMaintenance, TLC

\* Job identifiers are random.
MCSymmetry == Permutations(Job)
=============================================================================
