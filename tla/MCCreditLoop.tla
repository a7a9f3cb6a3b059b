---------------------------- MODULE MCCreditLoop ----------------------------
(* Instances of CreditLoop for TLC: what happens around the loop is bounded by the   *)
(* number of outside events, after which a behaviour is left to the loop.  The table  *)
(* starts empty or with both providers, and the second is a billed one.               *)
EXTENDS CreditLoop

CONSTANTS
    p1, p2, k1, k2,
    MaxEvents   \* bound: admin writes, changes of what a billing API answers, restarts

\* An account that is run dry, one that is low by its second field, one that has enough.
MCAnswer == {[diem |-> 0, balance |-> None], [diem |-> 0, balance |-> 1],
             [diem |-> 2, balance |-> None]}

\* The rows of the instance: no threshold, or one that separates the answers.
MCSetting == {row \in Setting : row.threshold \in {None, 2}}

VARIABLE events

MCInit ==
    /\ Init
    /\ rows \in {<<>>, <<p1, p2>>}
    /\ settings \in [Provider -> MCSetting]
    /\ settings[p2] = [billed |-> TRUE, key |-> k2, threshold |-> 2]
    /\ rows = <<>> => settings[p1] = settings[p2]   \* no row, no settings to tell apart
    /\ events = 0

MCNext ==
    \/ Loop /\ UNCHANGED events
    \/ /\ events < MaxEvents
       /\ Outside
       /\ settings' \in [Provider -> MCSetting]
       /\ events' = events + 1

MCSpec == MCInit /\ [][MCNext]_<<vars, events>> /\ Fairness
=============================================================================
