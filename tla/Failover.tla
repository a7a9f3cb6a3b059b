------------------------------ MODULE Failover ------------------------------
(***************************************************************************)
(* What the router promises a client, whatever the order it tries providers *)
(* in: the providers fit for the request when it arrives are called one at  *)
(* a time, each at most once; a provider leaves the list uncalled only when *)
(* an operator deletes it; the answer is that of the provider being called, *)
(* and a refusal means that nobody is left to call.                         *)
(***************************************************************************)
CONSTANTS
    Provider, Request,
    Nobody    \* no provider

VARIABLES
    known,    \* the providers that exist
    phase,    \* "waiting", "rejected", "trying", "served", "refused", "broken", "lost"
    current,  \* the provider being called, or that answered
    left      \* the providers not yet called

vars == <<known, phase, current, left>>

Init ==
    /\ known \subseteq Provider
    /\ phase = [r \in Request |-> "waiting"]
    /\ current = [r \in Request |-> Nobody]
    /\ left = [r \in Request |-> {}]

\* Call one of these providers, the ones that no longer exist aside; refuse when there is
\* none.
CallNext(r, ps) ==
    \/ \E p \in ps \cap known, gone \in SUBSET (ps \ known) :
        /\ phase' = [phase EXCEPT ![r] = "trying"]
        /\ current' = [current EXCEPT ![r] = p]
        /\ left' = [left EXCEPT ![r] = ps \ (gone \cup {p})]
    \/ /\ ps \cap known = {}
       /\ phase' = [phase EXCEPT ![r] = "refused"]
       /\ current' = [current EXCEPT ![r] = Nobody]
       /\ left' = [left EXCEPT ![r] = {}]

Arrive(r) ==
    /\ phase[r] = "waiting"
    /\ \E fit \in SUBSET known : CallNext(r, fit)
    /\ UNCHANGED known

\* The request is not one the router takes.
Reject(r) ==
    /\ phase[r] = "waiting"
    /\ phase' = [phase EXCEPT ![r] = "rejected"]
    /\ UNCHANGED <<known, current, left>>

Fail(r) ==
    /\ phase[r] = "trying"
    /\ CallNext(r, left[r])
    /\ UNCHANGED known

Serve(r) ==
    /\ phase[r] = "trying"
    /\ phase' = [phase EXCEPT ![r] = "served"]
    /\ UNCHANGED <<known, current, left>>

\* The router itself fails, on the request or on the answer.
Break(r) ==
    /\ phase[r] \in {"waiting", "trying"}
    /\ phase' = [phase EXCEPT ![r] = "broken"]
    /\ current' = [current EXCEPT ![r] = Nobody]
    /\ UNCHANGED <<known, left>>

\* Operators add and remove providers.
Administer ==
    /\ known' \in SUBSET Provider
    /\ UNCHANGED <<phase, current, left>>

\* The process dies with the calls in flight.
Die ==
    /\ phase' = [r \in Request |-> IF phase[r] = "trying" THEN "lost" ELSE phase[r]]
    /\ UNCHANGED <<known, current, left>>

Next ==
    \/ \E r \in Request : Arrive(r) \/ Reject(r) \/ Fail(r) \/ Serve(r) \/ Break(r)
    \/ Administer
    \/ Die

Spec == Init /\ [][Next]_vars

\* A request that reaches a provider comes to an end: the client is not left waiting.
CallsEnd ==
    \A r \in Request : phase[r] = "trying" ~> phase[r] \notin {"waiting", "trying"}
=============================================================================
