------------------------------ MODULE MCProxy ------------------------------
(* Instances of Proxy for TLC.  The database starts in any state; what then *)
(* happens around the requests is bounded by the number of outside events.  *)
EXTENDS Proxy, TLC

CONSTANTS
    p1, p2, p3, r1, r2,
    key, agent, \* the one key of the router, and the session every caller names
    MaxEvents   \* bound: admin writes, reports of the loops and restarts in a behaviour

VARIABLE events

\* Who knows the key and who does not.
insider == [bearer |-> key, apiKey |-> Absent, header |-> agent]
stranger == [bearer |-> Absent, apiKey |-> Absent, header |-> agent]
MCSender == {insider, stranger}

\* Two names for one upstream model: an alias and the canonical id it stands for.
MCName == {"alias", "canonical"}
MCAlias == "alias" :> "canonical"
MCModelPart == [n \in MCName |-> "m"]

\* Rows of equal capability: a provider is a candidate when it is listed, healthy and
\* funded.  And one whose models cannot be searched, which an operator may store.
plain == [priority |-> 1, models |-> {"m"}, supports |-> {"tools"}]
MCRow == {plain, [plain EXCEPT !.models = None]}

MCAsk == r1 :> [sender |-> insider, body |-> "object", name |-> "alias", needs |-> {"tools"}]
      @@ r2 :> [sender |-> stranger, body |-> "object", name |-> "alias", needs |-> {}]

MCInit == Init /\ Range(providers) \subseteq {plain} /\ events = 0

MCNext ==
    \/ /\ \E r \in Request : Reject(r) \/ ResolveRaises(r) \/ Receive(r) \/ Upstream(r)
       /\ UNCHANGED events
    \/ events < MaxEvents /\ (Admin \/ Background) /\ events' = events + 1

MCSpec == MCInit /\ [][MCNext]_<<vars, events>> /\ Fairness
=============================================================================
