---------------------------- MODULE MCConfigStore ----------------------------
(* Instances of ConfigStore for TLC: a YAML file with one provider without an API key  *)
(* and one with.  Ranks and orders are bounded by the specification's own constants,   *)
(* so that the state space is finite.                                                  *)
EXTENDS ConfigStore

CONSTANTS p1, p2, s1, k1, k2

MCSeed == <<[id |-> p1, api_key |-> None, rank |-> 1], [id |-> p2, api_key |-> k1, rank |-> 2]>>

\* p2 is the one with API keys.
MCApiKeys == [p \in {p1, p2} |-> IF p = p2 THEN {k1, k2} ELSE {}]
=============================================================================
