---------------------------- MODULE MCAgentControl ----------------------------
(* Instances of AgentControl for TLC: one agent that names its session, as it is told  *)
(* to where the two keys differ.                                                       *)
EXTENDS AgentControl

CONSTANTS p1, p2, a1, s1

MCHeader == [a \in {a1} |-> s1]
=============================================================================
