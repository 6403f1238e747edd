----------------------------- MODULE MCNodeHost -----------------------------
(* One node, with an embedded store or remote, that hosts an agent.         *)
EXTENDS NodeHost, TLC

CONSTANTS node, profile

MCNodeOf == [inst \in Instances |-> node]
MCProfileOf == [inst \in Instances |-> profile]
=============================================================================
