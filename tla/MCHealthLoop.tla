---------------------------- MODULE MCHealthLoop ----------------------------
(* Instances of HealthLoop for TLC: what happens around the loop is bounded by the   *)
(* number of outside events, after which a behaviour is left to the loop.            *)
EXTENDS HealthLoop

CONSTANTS
    p1, p2, t1, t2, t3,
    MaxEvents   \* bound: marks, admin writes, changes of endpoints, restarts

VARIABLE events

MCInit == Init /\ events = 0

MCNext ==
    \/ Loop /\ UNCHANGED events
    \/ events < MaxEvents /\ Outside /\ events' = events + 1

MCSpec == MCInit /\ [][MCNext]_<<vars, events>> /\ Fairness
=============================================================================
