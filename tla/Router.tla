------------------------------- MODULE Router -------------------------------
(***************************************************************************)
(* The router in one process: the request path and the admin API of Proxy   *)
(* with the health loop of HealthLoop.  They meet in two places, the        *)
(* providers table, which the admin API writes and the loop reads once a    *)
(* round, and the map _health_healthy, which requests and the loop write.   *)
(* Proxy alone takes any health report at any time; here a report is one    *)
(* that a probe has brought.  The credit loop meets the requests in its own *)
(* map only and stays a report here; CreditLoop opens it.                   *)
(***************************************************************************)
EXTENDS Proxy

CONSTANTS Target, Response    \* as in HealthLoop

ASSUME HealthAssumption == Response \subseteq Nat

VARIABLES rows, target, up, loop, todo, wire, blamed    \* as in HealthLoop

loopState == <<rows, target, up, loop, todo, wire, blamed>>
routerVars == <<vars, loopState>>

\* Endpoints and API keys are well formed and the database does not fail.
Health == INSTANCE HealthLoop WITH
    Raises <- {}, Malformed <- {}, StoreFails <- FALSE

\* A process that has just started, over whatever an earlier one left in the database.
RouterInit ==
    /\ Init
    /\ Health!Init
    /\ Range(rows) = DOMAIN providers

-----------------------------------------------------------------------------
(* Requests.                                                               *)

Respond(r) ==
    /\ Reject(r) \/ ResolveRaises(r) \/ Receive(r) \/ UpstreamOk(r) \/ UpstreamRaise(r)
    /\ UNCHANGED loopState

\* A failing upstream takes its provider out of the map the loop maintains.
FailOver(r) == UpstreamFail(r) /\ Health!mark_provider_unhealthy(cands[r][at[r]])

-----------------------------------------------------------------------------
(* The admin API, the loop and the world.                                  *)

Create(p, row, t) == create_provider(p, row) /\ Health!create_provider(p, t)

Patch(p, row, t) == update_provider(p, row) /\ Health!update_provider(p, t)

Delete(p) == delete_provider(p) /\ Health!delete_provider(p)

Configure ==
    /\ \/ \E q \in Sender, id \in Provider \cup {None} : post_override(q, id)
       \/ \E n \in 1..MaxOrder : \E order \in [0..(n - 1) -> Provider] : set_routing_config(order)
    /\ UNCHANGED loopState

ReportCredit(p, low) == set_credit_state(p, low) /\ UNCHANGED loopState

Checking == Health!Loop /\ UNCHANGED <<db, below, request>>

EndpointChanges(t, answer) == Health!EndpointChanges(t, answer) /\ UNCHANGED vars

Crash == Restart /\ Health!Restart

Disturbance ==
    \/ \E p \in Provider, row \in Row, t \in Target : Create(p, row, t) \/ Patch(p, row, t)
    \/ \E p \in Provider : Delete(p)
    \/ Configure
    \/ \E p \in Provider, low \in BOOLEAN : ReportCredit(p, low)
    \/ \E t \in Target, a \in Response : EndpointChanges(t, a)
    \/ Crash

RouterNext ==
    \/ \E r \in Request : Respond(r) \/ FailOver(r)
    \/ Checking
    \/ Disturbance

Settle(r) == pc[r] = "calling" /\ (Respond(r) \/ FailOver(r))

\* That of the two halves: upstream calls and probes end, and the interval passes.
RouterFairness ==
    /\ \A r \in Request : WF_routerVars(Settle(r))
    /\ WF_routerVars(Checking)

RouterSpec == RouterInit /\ [][RouterNext]_routerVars /\ RouterFairness

-----------------------------------------------------------------------------
(* Properties.                                                             *)

fits(p, r) ==
    /\ p \in Routed(providers, priority)
    /\ upstream_model_part(canonical(r)) \in providers[p].models
    /\ Ask[r].needs \subseteq providers[p].supports

\* An outage has a cause: a request the router could not place was either one that no
\* configured provider is fit for, or each fit one had misbehaved in this life of the
\* process or was out of credit.  A probe's verdict that lands on another provider, or a
\* mark that a restart or a deletion leaves behind, would refuse clients for no reason.
RefusedForCause ==
    [][\A r \in Request :
          pc[r] = "new" /\ reply'[r].code = "no_provider" =>
             \A p \in Provider : fits(p, r) => p \in blamed \/ below[p]]_routerVars
=============================================================================
