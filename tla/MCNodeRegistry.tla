------------------------------ MODULE MCNodeRegistry ---------------------------
(* An instance of NodeRegistry.                                            *)
EXTENDS NodeRegistry

CONSTANTS s1, s2, a, b, c

MCPlace == [s \in Server |-> IF s = s1 THEN {a, b} ELSE {c}]
MCHome == [s \in Server |-> [ip |-> IF s = s1 THEN a ELSE c, grpc |-> 8100]]
MCFirst == [server |-> s1, at |-> MCHome[s1], port |-> 1, type |-> "xray", sub |-> 1]
MCAgentPort == [h \in Ip |-> 8100]
================================================================================
