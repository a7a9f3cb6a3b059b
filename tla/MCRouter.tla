------------------------------ MODULE MCRouter ------------------------------
(* An instance of Router for TLC: two providers that differ in what they support, a    *)
(* request for each, and a bound on what disturbs them.  Probing goes on for ever.     *)
EXTENDS Router, TLC

CONSTANTS
    p1, p2, t1, t2, r1, r2,
    key,
    MaxEvents   \* bound: admin writes, credit reports, changes of endpoints and crashes

VARIABLE events

insider == [bearer |-> key, apiKey |-> Absent, header |-> Absent]
MCSender == {insider}

MCName == {"canonical"}
MCAlias == [n \in {} |-> "canonical"]
MCModelPart == [n \in MCName |-> "m"]

MCRow == {[priority |-> 1, models |-> {"m"}, supports |-> {"tools"}],
          [priority |-> 1, models |-> {"m"}, supports |-> {}]}

MCAsk == r1 :> [sender |-> insider, body |-> "object", name |-> "canonical", needs |-> {"tools"}]
      @@ r2 :> [sender |-> insider, body |-> "object", name |-> "canonical", needs |-> {}]

\* The router starts with both providers, the one fit for both requests and the one fit
\* for r2 alone, and nobody pinned.
MCInit ==
    /\ RouterInit /\ events = 0
    /\ rows = <<p1, p2>>
    /\ target[p1] = t1 /\ target[p2] = t2
    /\ providers[p1].supports = {"tools"} /\ providers[p2].supports = {}
    /\ DOMAIN priority = DOMAIN providers
    /\ override = <<>>

\* After the first disturbance of any kind p1 may also be deleted, or created again.
MCNext ==
    \/ \E r \in Request : (Respond(r) \/ FailOver(r)) /\ UNCHANGED events
    \/ Checking /\ UNCHANGED events
    \/ events = 0 /\ Disturbance /\ events' = 1
    \/ /\ events \in 1..(MaxEvents - 1)
       /\ Delete(p1) \/ \E row \in Row : row.supports # {} /\ Create(p1, row, t1)
       /\ events' = events + 1

MCSpec == MCInit /\ [][MCNext]_<<routerVars, events>> /\ RouterFairness
=============================================================================
