----------------------------- MODULE MCKernelTask -----------------------------
(* Instances of KernelTask for TLC. *)
EXTENDS KernelTask, TLC

CONSTANTS a, b, i1, i2, i3

\* One kernel on each of two nodes.
MCApart == (i1 :> a) @@ (i2 :> b)

\* Two kernels on one node.
MCTwin == (i1 :> a) @@ (i2 :> a)

\* Two kernels on one node and one on another.
MCPair == (i1 :> a) @@ (i2 :> a) @@ (i3 :> b)
=============================================================================
