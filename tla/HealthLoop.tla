----------------------------- MODULE HealthLoop -----------------------------
(***************************************************************************)
(* The background health checker (run_health_loop, run_health_check and     *)
(* _check_health of src/router/credit_health.py, started by main.py's       *)
(* lifespan).  Once in every interval it reads the providers table and      *)
(* probes the endpoints one after the other, awaiting each.  While an       *)
(* answer is under way the table, the endpoints and the health map change   *)
(* under it: operators add, move and delete providers, and requests that    *)
(* fail mark providers unhealthy in the same map.                           *)
(***************************************************************************)
EXTENDS Integers, Sequences, FiniteSets, Functions

CONSTANTS
    Provider,   \* provider ids
    Target,     \* what a row says of how to reach its provider: endpoint and API key
    Response,   \* what may be answered to GET /models: HTTP statuses, 0 for none
    Raises,     \* targets a probe raises a ValueError for (a key that no header can hold)
    Malformed,  \* targets whose endpoint httpx refuses to parse (httpx.InvalidURL)
    StoreFails  \* whether the database may fail (sqlite3.Error)

ASSUME FiniteAssumption == IsFiniteSet(Provider)
ASSUME ResponseAssumption == Response \subseteq Nat
ASSUME PoisonAssumption == Raises \subseteq Target /\ Malformed \subseteq Target
ASSUME StoreAssumption == StoreFails \in BOOLEAN

VARIABLES
    rows,     \* the ids in the providers table, in the order of their rowids
    target,   \* of each row
    up,       \* what would be answered at each target now
    healthy,  \* _health_healthy, with the default written out
    loop,     \* the task: "sleeping", "probing" (awaiting an answer), "dead"
    todo,     \* the rest of the round's snapshot, [id, target] each, the one probed first
    wire,     \* what was answered to its probe, on its way: <<>> or <<answer>>
    blamed    \* history: providers that answered badly or failed a request

vars == <<rows, target, up, healthy, loop, todo, wire, blamed>>
outside == <<rows, target, up>>

listed == Range(rows)

TypeOK ==
    /\ rows \in Seq(Provider) /\ IsInjective(rows)
    /\ target \in [Provider -> Target]
    /\ up \in [Target -> Response]
    /\ healthy \in [Provider -> BOOLEAN]
    /\ loop \in {"sleeping", "probing", "dead"}
    /\ todo \in Seq([id : Provider, target : Target])
    /\ wire \in {<<>>} \cup {<<a>> : a \in Response}
    /\ blamed \subseteq Provider
    /\ loop = "probing" <=> todo # <<>>
    /\ wire # <<>> => loop = "probing"

\* The verdict on an answer: 404 and 405 say that the endpoint is there and has no
\* /models, anything else but 200 is bad.
_check_health(answer) == answer \in {200, 404, 405}

\* The providers behind these targets, or still to be probed at those of this snapshot,
\* where the answer would be bad now.
bad(targets, snapshot, answers) ==
    {p \in Provider :
        \/ ~_check_health(answers[targets[p]])
        \/ \E i \in DOMAIN snapshot :
              snapshot[i].id = p /\ ~_check_health(answers[snapshot[i].target])}

Init ==
    /\ rows \in UNION {Injection(1..n, Provider) : n \in 0..Cardinality(Provider)}
    /\ target \in [Provider -> Target]
    /\ up \in [Target -> Response]
    /\ healthy = [p \in Provider |-> TRUE]
    /\ loop = "sleeping"
    /\ todo = <<>>
    /\ wire = <<>>
    /\ blamed = bad(target, <<>>, up)

-----------------------------------------------------------------------------
(* The loop.                                                               *)

\* The for statement goes on with these providers: the probe of the first is sent, or
\* raises.  run_health_loop catches a ValueError around the whole round; an InvalidURL it
\* does not catch.
Continue(rest) ==
    LET poisoned == rest # <<>> /\ Head(rest).target \in Raises
        fatal == rest # <<>> /\ Head(rest).target \in Malformed \ Raises
    IN  /\ loop' = IF fatal THEN "dead"
                   ELSE IF poisoned \/ rest = <<>> THEN "sleeping" ELSE "probing"
        /\ todo' = IF poisoned \/ fatal THEN <<>> ELSE rest

\* The interval is over: the table is read, in the order of a full scan.
BeginRound ==
    /\ loop = "sleeping"
    /\ Continue([i \in DOMAIN rows |-> [id |-> rows[i], target |-> target[rows[i]]]])
    /\ UNCHANGED <<outside, healthy, wire, blamed>>

\* Reading the table fails: a sqlite3.Error is not caught, an OSError (from making the
\* database's directory) skips the round.
SnapshotFails ==
    /\ StoreFails
    /\ loop = "sleeping"
    /\ loop' \in {"dead", "sleeping"}
    /\ UNCHANGED <<outside, healthy, todo, wire, blamed>>

\* The endpoint of the snapshot answers, or does not in time.
EndpointAnswers ==
    /\ loop = "probing" /\ wire = <<>>
    /\ wire' = <<up[Head(todo).target]>>
    /\ UNCHANGED <<outside, healthy, loop, todo, blamed>>

\* Mutants: the verdict is written under the next id; a good answer does not lift a mark;
\* a round ends at its first bad answer; an answer is left over for the next probe.
run_health_check_Keeps ==
    /\ loop = "probing" /\ wire # <<>>
    /\ healthy' = [healthy EXCEPT ![Head(todo).id] = _check_health(wire[1])]
    /\ Continue(Tail(todo))
    /\ UNCHANGED <<outside, wire, blamed>>
run_health_check_Next ==
    /\ loop = "probing" /\ wire # <<>>
    /\ LET p == IF Len(todo) > 1 THEN todo[2].id ELSE Head(todo).id
       IN  healthy' = [healthy EXCEPT ![p] = _check_health(wire[1])]
    /\ Continue(Tail(todo))
    /\ wire' = <<>>
    /\ UNCHANGED <<outside, blamed>>
run_health_check_OnlyDown ==
    /\ loop = "probing" /\ wire # <<>>
    /\ healthy' = [healthy EXCEPT ![Head(todo).id] = @ /\ _check_health(wire[1])]
    /\ Continue(Tail(todo))
    /\ wire' = <<>>
    /\ UNCHANGED <<outside, blamed>>
run_health_check_StopsAtBad ==
    /\ loop = "probing" /\ wire # <<>>
    /\ healthy' = [healthy EXCEPT ![Head(todo).id] = _check_health(wire[1])]
    /\ Continue(IF _check_health(wire[1]) THEN Tail(todo) ELSE <<>>)
    /\ wire' = <<>>
    /\ UNCHANGED <<outside, blamed>>

\* The answer arrives: the verdict is written, whatever was written meanwhile and whether
\* or not the provider is still in the table, and the next probe is sent.
run_health_check ==
    /\ loop = "probing" /\ wire # <<>>
    /\ healthy' = [healthy EXCEPT ![Head(todo).id] = _check_health(wire[1])]
    /\ Continue(Tail(todo))
    /\ wire' = <<>>
    /\ UNCHANGED <<outside, blamed>>

-----------------------------------------------------------------------------
(* What happens around it.                                                 *)

\* A request fails at the provider, which may have been deleted since it was resolved.
mark_provider_unhealthy(p) ==
    /\ healthy' = [healthy EXCEPT ![p] = FALSE]
    /\ blamed' = blamed \cup {p}
    /\ UNCHANGED <<outside, loop, todo, wire>>

create_provider(p, t) ==
    /\ p \notin listed
    /\ rows' = Append(rows, p)
    /\ target' = [target EXCEPT ![p] = t]
    /\ blamed' = blamed \cup bad(target', todo, up)
    /\ UNCHANGED <<up, healthy, loop, todo, wire>>

\* PATCH: another endpoint, another key.
update_provider(p, t) ==
    /\ p \in listed
    /\ target' = [target EXCEPT ![p] = t]
    /\ blamed' = blamed \cup bad(target', todo, up)
    /\ UNCHANGED <<rows, up, healthy, loop, todo, wire>>

delete_provider(p) ==
    /\ \E i \in DOMAIN rows :
        rows[i] = p /\ rows' = SubSeq(rows, 1, i - 1) \o SubSeq(rows, i + 1, Len(rows))
    /\ UNCHANGED <<target, up, healthy, loop, todo, wire, blamed>>

EndpointChanges(t, answer) ==
    /\ up' = [up EXCEPT ![t] = answer]
    /\ blamed' = blamed \cup bad(target, todo, up')
    /\ UNCHANGED <<rows, target, healthy, loop, todo, wire>>

\* The process dies, its maps and its task with it, and a new one starts.
Restart ==
    /\ healthy' = [p \in Provider |-> TRUE]
    /\ loop' = "sleeping"
    /\ todo' = <<>>
    /\ wire' = <<>>
    /\ blamed' = bad(target, <<>>, up)
    /\ UNCHANGED outside

Outside ==
    \/ \E p \in Provider : mark_provider_unhealthy(p)
    \/ \E p \in Provider, t \in Target : create_provider(p, t) \/ update_provider(p, t)
    \/ \E p \in Provider : delete_provider(p)
    \/ \E t \in Target, a \in Response : EndpointChanges(t, a)
    \/ Restart

Loop == BeginRound \/ SnapshotFails \/ EndpointAnswers \/ run_health_check

Next == Loop \/ Outside

\* The interval passes, a probe is answered or times out (httpx gives each read 10 s), the
\* event loop comes round to the task, and an OSError does not meet every round for ever.
Fairness ==
    /\ WF_vars(BeginRound)
    /\ WF_vars(EndpointAnswers)
    /\ WF_vars(run_health_check)

Spec == Init /\ [][Next]_vars /\ Fairness

-----------------------------------------------------------------------------
(* Properties.                                                             *)

\* The map does not slander: in one life of the process a provider that never failed a
\* request, and whose endpoint never answered badly while its row or a running round named
\* it, is never marked unhealthy, however rounds, deletions, moves to other endpoints and
\* late answers overlap.
NotSlandered == \A p \in Provider : ~healthy[p] => p \in blamed

\* The map converges: once operators, endpoints and requests leave it alone, the flag of
\* each listed provider settles on the verdict on its endpoint.  A late answer, one from
\* an endpoint or with a key that the provider no longer has, or an old mark is corrected
\* in a later round: a provider marked by a failed request comes back, a bad one is found.
\* All this while the task lives: sqlite3.Error kills it for good.
Converges ==
    [](loop # "dead") /\ <>[][~Outside]_vars =>
        \A p \in Provider, ok \in BOOLEAN :
            <>[](p \in listed /\ _check_health(up[target[p]]) = ok) => <>[](healthy[p] = ok)

\* docs/plan.md:174: "periodic HTTP GET to each provider's endpoint".  Every provider that
\* stays in the table is probed again and again while the task lives, unless its own
\* settings raise.
EachProbed ==
    [](loop # "dead") => \A p \in Provider :
        <>[](p \in listed /\ target[p] \notin Raises \cup Malformed)
            => []<>(loop = "probing" /\ Head(todo).id = p)
=============================================================================
