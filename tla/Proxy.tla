------------------------------- MODULE Proxy -------------------------------
(***************************************************************************)
(* The request path of the router (src/router/proxy.py) with everything     *)
(* that can move under it: the admin API writing the provider tables        *)
(* (src/router/admin.py, src/router/db.py), the background loops writing    *)
(* the health and credit maps (src/router/credit_health.py), and the death  *)
(* and restart of the process.                                              *)
(*                                                                         *)
(* One asyncio event loop runs all of it, so a handler is interrupted only  *)
(* at an await.  In the request path the only one is the call of the        *)
(* upstream provider: an action here is everything between two such calls.  *)
(***************************************************************************)
EXTENDS RoutingEngine, Auth

CONSTANTS
    Request,    \* client requests, each sent at most once
    Ask,        \* what each request carries and asks: sender, kind of body, "model", needs
    Status,     \* HTTP statuses the adapter can return
    MaxOrder    \* bound: the longest provider_order an operator PUTs

ASSUME AskAssumption ==
    Ask \in [Request -> [sender : Sender, body : {"object", "other json", "no json"},
                         name : Name, needs : SUBSET Feature]]
\* 502 and 504 are the adapter's own: connection error and timeout.
ASSUME StatusAssumption == Status \subseteq 100..599 /\ {502, 504} \subseteq Status
ASSUME MaxOrderAssumption == MaxOrder \in Nat

VARIABLES
    \* SQLite, outlives the process
    providers,  \* id -> row
    priority,   \* provider_priority: id -> priority_order (ids need not exist)
    override,   \* agent_override: session -> id (which need not exist)
    \* memory of the process
    healthy,    \* _health_healthy, with the default written out
    below,      \* is_below_credit_threshold of each provider
    \* one request, the locals of _try_candidates
    pc,         \* "new", "calling" (awaiting the upstream), "answered", "lost"
    cands,      \* candidates, the list resolve_candidates returned
    chosen,     \* chosen_id, the id it returned beside the list
    at,         \* position of the loop in candidates
    lastError,  \* last_status once last_error is set, 0 before
    reply,      \* what the client got
    calls       \* history: how often each provider was called for it: 0, 1, 2 for more

db == <<providers, priority, override>>
memory == <<healthy, below>>
request == <<pc, cands, chosen, at, lastError, reply, calls>>
vars == <<providers, priority, override, healthy, below,
          pc, cands, chosen, at, lastError, reply, calls>>

ErrorStatus == {s \in Status : s >= 400}

ReplyCode == {"none", "invalid_api_key", "invalid_json", "no_provider", "ok",
              "upstream_error", "failover_exhausted", "internal_error"}

NoReply == [code |-> "none", status |-> 0, by |-> None]

TypeOK ==
    /\ IsTable(providers, Provider, Row)
    /\ IsTable(priority, Provider, Int)
    /\ IsTable(override, Session, Provider)
    /\ healthy \in [Provider -> BOOLEAN]
    /\ below \in [Provider -> BOOLEAN]
    /\ pc \in [Request -> {"new", "calling", "answered", "lost"}]
    /\ cands \in [Request -> Seq(Provider)]
    /\ chosen \in [Request -> Provider \cup {None}]
    /\ at \in [Request -> Nat]
    /\ lastError \in [Request -> ErrorStatus \cup {0}]
    /\ reply \in [Request -> [code : ReplyCode, status : Nat, by : Provider \cup {None}]]
    /\ calls \in [Request -> [Provider -> 0..2]]

\* A process that has just started, over whatever an earlier one left in the database.
Init ==
    /\ providers \in Tables(Provider, Row)
    /\ priority \in {[p \in ps |-> providers[p].priority] : ps \in SUBSET DOMAIN providers}
    /\ override \in Tables(Session, Provider)
    /\ healthy = [p \in Provider |-> TRUE]
    /\ below = [p \in Provider |-> FALSE]
    /\ pc = [r \in Request |-> "new"]
    /\ cands = [r \in Request |-> <<>>]
    /\ chosen = [r \in Request |-> None]
    /\ at = [r \in Request |-> 0]
    /\ lastError = [r \in Request |-> 0]
    /\ reply = [r \in Request |-> NoReply]
    /\ calls = [r \in Request |-> [p \in Provider |-> 0]]

-----------------------------------------------------------------------------
(* The request path.                                                       *)

canonical(r) == resolve_canonical_model(Ask[r].name)

Answer(r, code, status, by) ==
    /\ pc' = [pc EXCEPT ![r] = "answered"]
    /\ reply' = [reply EXCEPT ![r] = [code |-> code, status |-> status, by |-> by]]

\* Mutant: an unhealthy provider is passed over as a deleted one is.
StillListed_Healthy(c, i) == {k \in i..Len(c) : c[k] \in DOMAIN providers /\ healthy[c[k]]}

\* The candidates from position i on that are still in the table, by position.
StillListed(c, i) == {k \in i..Len(c) : c[k] \in DOMAIN providers}

\* Mutant: a deleted candidate ends the loop (break for continue).
TryFrom_Breaks(r, c, i, err) ==
    IF i \in StillListed(c, i)
    THEN /\ at' = [at EXCEPT ![r] = i]
         /\ calls' = [calls EXCEPT ![r][c[i]] = IF @ = 0 THEN 1 ELSE 2]
         /\ pc' = [pc EXCEPT ![r] = "calling"]
         /\ UNCHANGED reply
    ELSE /\ at' = [at EXCEPT ![r] = i]
         /\ IF err = 0 THEN Answer(r, "failover_exhausted", 503, None)
                       ELSE Answer(r, "upstream_error", err, None)
         /\ UNCHANGED calls

\* The loop over the candidates c from position i to its next await or its end: a
\* candidate deleted in the meantime is passed over, the next one is called; when none
\* is left the client gets the last upstream error.
TryFrom(r, c, i, err) ==
    IF StillListed(c, i) # {}
    THEN \E k \in StillListed(c, i) :
            /\ \A j \in StillListed(c, i) : k <= j
            /\ at' = [at EXCEPT ![r] = k]
            /\ calls' = [calls EXCEPT ![r][c[k]] = IF @ = 0 THEN 1 ELSE 2]
            /\ pc' = [pc EXCEPT ![r] = "calling"]
            /\ UNCHANGED reply
    ELSE /\ at' = [at EXCEPT ![r] = Len(c) + 1]
         /\ IF err = 0 THEN Answer(r, "failover_exhausted", 503, None)
                       ELSE Answer(r, "upstream_error", err, None)
         /\ UNCHANGED calls

\* What a request is turned away with before anything is resolved: the dependency of the
\* whole /v1 router comes first, then the parsing; a body that is JSON and no object makes
\* body.get raise.
rejection(q) ==
    CASE ~require_client_key(q.sender) -> [code |-> "invalid_api_key", status |-> 401]
      [] require_client_key(q.sender) /\ q.body = "no json" ->
            [code |-> "invalid_json", status |-> 400]
      [] OTHER -> [code |-> "internal_error", status |-> 500]

admits(q) == require_client_key(q.sender) /\ q.body = "object"

Reject(r) ==
    /\ pc[r] = "new" /\ ~admits(Ask[r])
    /\ Answer(r, rejection(Ask[r]).code, rejection(Ask[r]).status, None)
    /\ UNCHANGED <<db, memory, cands, chosen, at, lastError, calls>>

\* A ranked row whose models cannot be searched makes resolve_candidates raise TypeError: a
\* 500, whichever model is asked for and whoever else lists it.
ResolveRaises(r) ==
    /\ pc[r] = "new" /\ admits(Ask[r])
    /\ ~searchable(Routed(providers, priority), providers)
    /\ Answer(r, "internal_error", 500, None)
    /\ UNCHANGED <<db, memory, cands, chosen, at, lastError, calls>>

\* POST /v1/chat/completions or /v1/embeddings up to the first await: candidates are
\* resolved once, from the tables and maps of this moment.
Receive(r) ==
    /\ pc[r] = "new" /\ admits(Ask[r])
    /\ searchable(Routed(providers, priority), providers)
    /\ \E c \in Listings(Available(providers, priority, healthy, below,
                                   upstream_model_part(canonical(r)), Ask[r].needs),
                         SortKey(providers, priority)) :
        LET s == get_session_id(Ask[r].sender)
            id == Chosen(c, IF s \in DOMAIN override THEN override[s] ELSE None)
        IN  /\ cands' = [cands EXCEPT ![r] = c]
            /\ chosen' = [chosen EXCEPT ![r] = id]
            /\ IF id = None \/ c = <<>>
               THEN /\ Answer(r, "no_provider", 503, None)
                    /\ UNCHANGED <<at, calls>>
               ELSE TryFrom(r, c, 1, 0)
    /\ UNCHANGED <<db, memory, lastError>>

\* The upstream answers below 400: the answer goes to the client under the provider's
\* name (X-Router-Provider).
UpstreamOk(r) ==
    /\ pc[r] = "calling"
    /\ \E s \in Status \ ErrorStatus : Answer(r, "ok", s, cands[r][at[r]])
    /\ UNCHANGED <<db, memory, cands, chosen, at, lastError, calls>>

\* Mutants: the failed candidate is called again; the first failure is passed on, others
\* untried; the loop starts over when the list is spent.
UpstreamFail_Retries(r) ==
    /\ pc[r] = "calling"
    /\ \E s \in ErrorStatus :
        /\ lastError' = [lastError EXCEPT ![r] = s]
        /\ TryFrom(r, cands[r], at[r], s)
    /\ healthy' = [healthy EXCEPT ![cands[r][at[r]]] = FALSE]
    /\ UNCHANGED <<db, below, cands, chosen>>
UpstreamFail_GivesUp(r) ==
    /\ pc[r] = "calling"
    /\ \E s \in ErrorStatus :
        /\ lastError' = [lastError EXCEPT ![r] = s]
        /\ Answer(r, "upstream_error", s, None)
    /\ healthy' = [healthy EXCEPT ![cands[r][at[r]]] = FALSE]
    /\ UNCHANGED <<db, below, cands, chosen, at, calls>>
UpstreamFail_StartsOver(r) ==
    /\ pc[r] = "calling"
    /\ \E s \in ErrorStatus :
        /\ lastError' = [lastError EXCEPT ![r] = s]
        /\ TryFrom(r, cands[r], IF at[r] = Len(cands[r]) THEN 1 ELSE at[r] + 1, s)
    /\ healthy' = [healthy EXCEPT ![cands[r][at[r]]] = FALSE]
    /\ UNCHANGED <<db, below, cands, chosen>>

\* The upstream answers 400 or more, times out (504) or cannot be reached (502): the
\* provider is marked unhealthy and the loop goes on.
UpstreamFail(r) ==
    /\ pc[r] = "calling"
    /\ \E s \in ErrorStatus :
        /\ lastError' = [lastError EXCEPT ![r] = s]
        /\ TryFrom(r, cands[r], at[r] + 1, s)
    /\ healthy' = [healthy EXCEPT ![cands[r][at[r]]] = FALSE]
    /\ UNCHANGED <<db, below, cands, chosen>>

\* The adapter raises what it does not catch (a malformed endpoint URL, say): the
\* framework answers 500, no other candidate is tried and no provider is marked.
UpstreamRaise(r) ==
    /\ pc[r] = "calling"
    /\ Answer(r, "internal_error", 500, None)
    /\ UNCHANGED <<db, memory, cands, chosen, at, lastError, calls>>

Upstream(r) == UpstreamOk(r) \/ UpstreamFail(r) \/ UpstreamRaise(r)

-----------------------------------------------------------------------------
(* The admin API.  A caller without the admin key gets a 401 and changes       *)
(* nothing; of the others only a pin depends on who calls.                     *)

\* POST /admin/providers: a new row, then its priority row.  An id already in the table
\* violates the primary key and nothing is written.
create_provider(p, row) ==
    /\ p \notin DOMAIN providers
    /\ providers' = Upsert(providers, p, row)
    /\ priority' = Upsert(priority, p, row.priority)
    /\ UNCHANGED <<override, memory, request>>

\* PATCH /admin/providers/{id}: any columns; a patched priority also goes to
\* provider_priority, over whatever order was PUT there.
update_provider(p, row) ==
    /\ p \in DOMAIN providers
    /\ providers' = [providers EXCEPT ![p] = row]
    /\ \/ row.priority = providers[p].priority /\ UNCHANGED priority
       \/ priority' = Upsert(priority, p, row.priority)
    /\ UNCHANGED <<override, memory, request>>

\* DELETE /admin/providers/{id}: cascades over the tables, leaves the health and credit
\* maps as they are.
delete_provider(p) ==
    /\ p \in DOMAIN providers
    /\ providers' = Remove(providers, {p})
    /\ priority' = Remove(priority, {p})
    /\ override' = Remove(override, {s \in DOMAIN override : override[s] = p})
    /\ UNCHANGED <<memory, request>>

\* Mutant: clearing the pin stores a NULL provider.
post_override_Null(q, id) ==
    /\ require_admin_key(q)
    /\ override' = Upsert(override, get_session_id(q), id)
    /\ UNCHANGED <<providers, priority, memory, request>>

\* POST /admin/override: pin the caller's session to an id, existing or not, or clear the
\* pin.
post_override(q, id) ==
    /\ require_admin_key(q)
    /\ override' = IF id = None THEN Remove(override, {get_session_id(q)})
                               ELSE Upsert(override, get_session_id(q), id)
    /\ UNCHANGED <<providers, priority, memory, request>>

\* PUT /admin/routing-config with a provider_order: each id listed, existing or not, gets
\* its index, the last one if it is listed twice; the rows of the other providers stay.
set_routing_config(order) ==
    /\ \E last \in [Range(order) -> DOMAIN order] :
        /\ \A p \in Range(order) :
              order[last[p]] = p /\ \A i \in DOMAIN order : order[i] = p => i <= last[p]
        /\ priority' = [p \in DOMAIN priority \cup Range(order) |->
                           IF p \in Range(order) THEN last[p] ELSE priority[p]]
    /\ UNCHANGED <<providers, override, memory, request>>

-----------------------------------------------------------------------------
(* The background loops, and the process.                                  *)

\* A health check ends: run_health_check's set_healthy.  The provider may have been
\* deleted since the round began.
set_healthy(p, ok) ==
    /\ healthy' = [healthy EXCEPT ![p] = ok]
    /\ UNCHANGED <<db, below, request>>

\* A credit reading ends: set_credit_state.
set_credit_state(p, low) ==
    /\ below' = [below EXCEPT ![p] = low]
    /\ UNCHANGED <<db, healthy, request>>

\* The process dies and a new one starts: the maps and the requests in flight are gone.
Restart ==
    /\ healthy' = [p \in Provider |-> TRUE]
    /\ below' = [p \in Provider |-> FALSE]
    /\ pc' = [r \in Request |-> IF pc[r] = "calling" THEN "lost" ELSE pc[r]]
    /\ UNCHANGED <<db, cands, chosen, at, lastError, reply, calls>>

Admin ==
    \/ \E p \in Provider, row \in Row : create_provider(p, row)
    \/ \E p \in Provider, row \in Row : update_provider(p, row)
    \/ \E p \in Provider : delete_provider(p)
    \/ \E q \in Sender, id \in Provider \cup {None} : post_override(q, id)
    \/ \E n \in 1..MaxOrder : \E order \in [0..(n - 1) -> Provider] : set_routing_config(order)

Background ==
    \/ \E p \in Provider, ok \in BOOLEAN : set_healthy(p, ok)
    \/ \E p \in Provider, low \in BOOLEAN : set_credit_state(p, low)
    \/ Restart

Next ==
    \/ \E r \in Request : Reject(r) \/ ResolveRaises(r) \/ Receive(r)
    \/ \E r \in Request : Upstream(r)
    \/ Admin
    \/ Background

\* Every upstream call ends: the adapter gives each read 60 s and reports 504.  Nobody is
\* obliged to send a request, to administer the router or to stop it.
Fairness == \A r \in Request : WF_vars(Upstream(r))

Spec == Init /\ [][Next]_vars /\ Fairness

-----------------------------------------------------------------------------
(* Properties.                                                             *)

called(r) == {p \in Provider : calls[r][p] > 0}

\* Every answer is accounted for by the calls made for it.  A request turned away, and one
\* answered 503 "no_provider", were given to nobody; a success is signed by the provider
\* called last; an error passed on from an upstream is the last one met, after the list was
\* spent; the router's own 500 cut the list short, or came before there was one.  In
\* particular the answer "failover_exhausted" of proxy.py:103 is never given: the list is
\* resolved and its head looked up without an await between, so at least one candidate is
\* always called.
Explained(r) ==
    LET a == reply[r] IN
    \/ a.code \in {"invalid_api_key", "invalid_json"} /\ called(r) = {} /\ ~admits(Ask[r])
    \/ a.code = "no_provider" /\ called(r) = {} /\ cands[r] = <<>>
    \/ /\ a.code = "ok" /\ a.status < 400
       /\ at[r] \in 1..Len(cands[r]) /\ a.by = cands[r][at[r]] /\ a.by \in called(r)
    \/ /\ a.code = "upstream_error" /\ a.status = lastError[r] /\ a.status >= 400
       /\ called(r) # {} /\ at[r] > Len(cands[r])
    \/ /\ a.code = "internal_error"
       /\ at[r] \in 1..Len(cands[r]) \/ (called(r) = {} /\ cands[r] = <<>>)

ReplyExplained == \A r \in Request : pc[r] = "answered" => Explained(r)

\* Where the loop of _try_candidates stands: the list holds no provider twice, what has
\* been called was called once and stands at or before the loop's position, the provider
\* awaited is the one at that position, and for a request that is not admitted there is no
\* list.  With TypeOK and ReplyExplained this is inductive.
LoopOK(r) ==
    /\ \A i, j \in 1..Len(cands[r]) : cands[r][i] = cands[r][j] => i = j
    /\ \A p \in called(r) :
          calls[r][p] = 1 /\ \E k \in 1..Len(cands[r]) : k <= at[r] /\ cands[r][k] = p
    /\ pc[r] = "new" \/ ~admits(Ask[r]) => cands[r] = <<>> /\ at[r] = 0 /\ lastError[r] = 0
    /\ pc[r] = "calling" => at[r] \in 1..Len(cands[r]) /\ cands[r][at[r]] \in called(r)
    /\ pc[r] # "answered" => reply[r] = NoReply

LoopInv == \A r \in Request : LoopOK(r)

\* The client's request is never sent twice to one provider, however the tables and the
\* health map change while the loop of _try_candidates runs.
CallOnce == \A r \in Request, p \in Provider : calls[r][p] <= 1

\* The loop passes over a candidate without calling it only if an operator has deleted
\* it: neither a health report, nor a change of the priorities, nor a failure of another
\* candidate takes a provider off the list a request has begun to try.
NoneSkipped ==
    [][\A r \in Request :
          \A k \in (at[r] + 1)..(at'[r] - 1) : cands'[r][k] \notin DOMAIN providers]_vars

\* What a client sees of a request, in the terms of Failover.
phaseOf(r) ==
    CASE pc[r] = "new" -> "waiting"
      [] pc[r] = "calling" -> "trying"
      [] pc[r] = "lost" -> "lost"
      [] pc[r] = "answered" /\ reply[r].code = "ok" -> "served"
      [] pc[r] = "answered" /\ reply[r].code # "ok" /\ ~admits(Ask[r]) -> "rejected"
      [] pc[r] = "answered" /\ reply[r].code = "internal_error" /\ admits(Ask[r]) -> "broken"
      [] OTHER -> "refused"

phase == [r \in Request |-> phaseOf(r)]

current == [r \in Request |->
    IF phaseOf(r) \in {"trying", "lost", "served"} THEN cands[r][at[r]] ELSE None]

left == [r \in Request |-> {cands[r][k] : k \in (at[r] + 1)..Len(cands[r])}]

Promise == INSTANCE Failover WITH Nobody <- None, known <- DOMAIN providers

\* Proxy implements Failover: one call at a time, each provider at most once, a refusal
\* only when nobody is left to call.
KeepsPromise == Promise!Spec

\* A request that reaches an upstream ends, with an answer or with the process: failing
\* over again and again does not go on for ever, however operators churn the tables.
CallsEnd == Promise!CallsEnd

(* What the documentation says and the code does not do.                   *)

\* docs/plan.md:146: a session's override forces that provider when it is in the filtered
\* list.  The loop of proxy.py:83 takes the list from its head and never looks at the id
\* resolve_candidates chose.
OverrideForced ==
    \A r \in Request : called(r) # {} => chosen[r] \in called(r)
=============================================================================
