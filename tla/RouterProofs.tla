---------------------------- MODULE RouterProofs ----------------------------
(* Proofs about Router: the proofs of its two halves, put together.                    *)
EXTENDS Router, ProxyProofs

HealthProofs == INSTANCE HealthLoopProofs WITH
    Raises <- {}, Malformed <- {}, StoreFails <- FALSE

-----------------------------------------------------------------------------
(* The health half: Router and the proofs instantiate the same module.     *)

LEMMA HealthAssumptions ==
    HealthProofs!IsFiniteSet(Provider) /\ Response \subseteq Nat /\ {} \subseteq Target
BY ProviderAssumption, HealthAssumption DEF IsFiniteSet, HealthProofs!IsFiniteSet

LEMMA SameInit == Health!Init => HealthProofs!Init
BY DEF Health!Init, HealthProofs!Init, Health!bad, HealthProofs!bad, Health!_check_health,
   HealthProofs!_check_health, Health!Injection, HealthProofs!Injection, Health!IsInjective,
   HealthProofs!IsInjective, Health!Cardinality, HealthProofs!Cardinality

LEMMA SameContinue ==
    ASSUME NEW rest PROVE Health!Continue(rest) <=> HealthProofs!Continue(rest)
BY DEF Health!Continue, HealthProofs!Continue

LEMMA SameLoop == Health!Loop => HealthProofs!Loop
BY SameContinue DEF Health!Loop, HealthProofs!Loop, Health!BeginRound, HealthProofs!BeginRound,
   Health!SnapshotFails, HealthProofs!SnapshotFails, Health!EndpointAnswers,
   HealthProofs!EndpointAnswers, Health!run_health_check, HealthProofs!run_health_check,
   Health!_check_health, HealthProofs!_check_health, Health!outside, HealthProofs!outside

LEMMA SameOutside == Health!Outside => HealthProofs!Outside
BY DEF Health!Outside, HealthProofs!Outside, Health!mark_provider_unhealthy,
   HealthProofs!mark_provider_unhealthy, Health!create_provider, HealthProofs!create_provider,
   Health!update_provider, HealthProofs!update_provider, Health!delete_provider,
   HealthProofs!delete_provider, Health!EndpointChanges, HealthProofs!EndpointChanges,
   Health!Restart, HealthProofs!Restart, Health!bad, HealthProofs!bad,
   Health!_check_health, HealthProofs!_check_health, Health!outside, HealthProofs!outside,
   Health!listed, HealthProofs!listed, Health!Range, HealthProofs!Range
-----------------------------------------------------------------------------
(* Each step of the router is one of each half, or leaves that half alone.  *)

\* The ids in the table as the loop reads it are the keys of the table as requests read it.
OneTable == Range(rows) = DOMAIN providers

RInv == IInv /\ HealthProofs!IInv /\ OneTable

LEMMA HealthType ==
    ASSUME HealthProofs!IInv
    PROVE  /\ rows \in Seq(Provider) /\ IsInjective(rows)
           /\ healthy \in [Provider -> BOOLEAN]
           /\ todo \in Seq([id : Provider, target : Target])
           /\ loop = "probing" <=> todo # <<>>
           /\ \A p \in Provider : ~healthy[p] => p \in blamed
BY DEF HealthProofs!IInv, HealthProofs!TypeOK, HealthProofs!NotSlandered,
   HealthProofs!IsInjective, IsInjective

LEMMA HealthHolds ==
    ASSUME HealthProofs!IInv,
           Health!Next \/ UNCHANGED <<loopState, healthy>>
    PROVE  HealthProofs!IInv'
<1>1. HealthProofs!Next \/ UNCHANGED HealthProofs!vars
  BY SameLoop, SameOutside DEF Health!Next, HealthProofs!Next, loopState, HealthProofs!vars
<1> QED  BY <1>1, HealthAssumptions, HealthProofs!IInvStep

\* A provider the loop has asked about is a known id, its verdict a report in the sense of
\* Proxy.
LEMMA CheckingReports ==
    ASSUME IInv, HealthProofs!IInv, Checking
    PROVE  [Next]_vars
<1>1. UNCHANGED <<db, below, request>> /\ Health!Loop
  BY DEF Checking
<1>2. CASE healthy' = healthy
  BY <1>1, <1>2 DEF vars, db, request
<1>3. CASE Health!run_health_check
  <2>1. healthy' = [healthy EXCEPT ![Head(todo).id] = Health!_check_health(wire[1])]
    BY <1>3 DEF Health!run_health_check
  <2>2. todo # <<>> /\ todo \in Seq([id : Provider, target : Target])
    BY <1>3, HealthType DEF Health!run_health_check
  <2>3. Head(todo).id \in Provider
    <3> DEFINE Entry == [id : Provider, target : Target]
    <3>1. todo \in Seq(Entry)
      BY <2>2
    <3> HIDE DEF Entry
    <3>2. Head(todo) \in Entry
      BY <2>2, <3>1
    <3> QED  BY <3>2 DEF Entry
  <2>4. Health!_check_health(wire[1]) \in BOOLEAN
    BY DEF Health!_check_health
  <2>5. set_healthy(Head(todo).id, Health!_check_health(wire[1]))
    BY <1>1, <2>1 DEF set_healthy
  <2>6. Background
    BY <2>3, <2>4, <2>5 DEF Background
  <2> QED  BY <2>6 DEF Next
<1>4. healthy' = healthy \/ Health!run_health_check
  BY <1>1 DEF Health!Loop, Health!BeginRound, Health!SnapshotFails, Health!EndpointAnswers
<1> QED  BY <1>2, <1>3, <1>4

LEMMA Halves ==
    ASSUME IInv, HealthProofs!IInv, [RouterNext]_routerVars
    PROVE  [Next]_vars /\ (Health!Next \/ UNCHANGED <<loopState, healthy>>)
<1> DEFINE Both == [Next]_vars /\ (Health!Next \/ UNCHANGED <<loopState, healthy>>)
<1>1. ASSUME NEW r \in Request, Respond(r) PROVE Both
  BY <1>1 DEF Respond, Reject, ResolveRaises, Receive, UpstreamOk, UpstreamRaise, memory, Next,
     Upstream
<1>2. ASSUME NEW r \in Request, FailOver(r) PROVE Both
  <2>1. cands[r][at[r]] \in Provider
    BY <1>2 DEF FailOver, UpstreamFail, IInv, TypeOK, LoopInv, LoopOK, called
  <2>2. Health!Outside
    BY <1>2, <2>1 DEF FailOver, Health!Outside
  <2> QED  BY <1>2, <2>2 DEF FailOver, Next, Upstream, Health!Next
<1>3. CASE Checking
  BY <1>3, CheckingReports DEF Checking, Health!Next
<1>4. ASSUME NEW p \in Provider, NEW row \in Row, NEW t \in Target, Create(p, row, t) \/ Patch(p, row, t)
      PROVE  Both
  BY <1>4 DEF Create, Patch, Next, Admin, Health!Next, Health!Outside
<1>5. ASSUME NEW p \in Provider, Delete(p) PROVE Both
  BY <1>5 DEF Delete, Next, Admin, Health!Next, Health!Outside
<1>6. CASE Configure
  <2>1. Admin /\ memory' = memory
    BY <1>6 DEF Configure, Admin, post_override, set_routing_config
  <2> QED  BY <1>6, <2>1 DEF Configure, Next, memory
<1>7. ASSUME NEW p \in Provider, NEW low \in BOOLEAN, ReportCredit(p, low) PROVE Both
  BY <1>7 DEF ReportCredit, set_credit_state, Next, Background
<1>8. ASSUME NEW t \in Target, NEW a \in Response, EndpointChanges(t, a) PROVE Both
  BY <1>8 DEF EndpointChanges, Health!Next, Health!Outside
<1>9. CASE Crash
  BY <1>9 DEF Crash, Next, Background, Health!Next, Health!Outside
<1>10. CASE UNCHANGED routerVars
  BY <1>10 DEF routerVars, vars
<1> QED
  BY <1>1, <1>2, <1>3, <1>4, <1>5, <1>6, <1>7, <1>8, <1>9, <1>10 DEF RouterNext, Disturbance

\* Whatever changes the one view of the table changes the other.
LEMMA OneTableStep == ASSUME RInv, [RouterNext]_routerVars PROVE OneTable'
<1>0. OneTable /\ rows \in Seq(Provider) /\ IsInjective(rows)
  BY HealthType DEF RInv
<1>1. CASE rows' = rows /\ DOMAIN providers' = DOMAIN providers
  BY <1>0, <1>1 DEF OneTable
<1>2. ASSUME NEW p \in Provider, NEW row \in Row, NEW t \in Target, Create(p, row, t) PROVE OneTable'
  <2>1. rows' = Append(rows, p) /\ p \notin Range(rows)
    BY <1>2 DEF Create, Health!create_provider, Health!listed, Health!Range, Range
  <2>2. DOMAIN providers' = DOMAIN providers \cup {p}
    BY <1>2 DEF Create, create_provider, Upsert
  <2> QED  BY <1>0, <2>1, <2>2, RowAdded DEF OneTable
<1>3. ASSUME NEW p \in Provider, Delete(p) PROVE OneTable'
  <2>1. PICK i \in DOMAIN rows :
           rows[i] = p /\ rows' = SubSeq(rows, 1, i - 1) \o SubSeq(rows, i + 1, Len(rows))
    BY <1>3 DEF Delete, Health!delete_provider
  <2>2. Range(rows') = Range(rows) \ {p}
    BY <1>0, <2>1, RowRemoved
  <2>3. DOMAIN providers' = DOMAIN providers \ {p}
    BY <1>3 DEF Delete, delete_provider, Remove
  <2> QED  BY <1>0, <2>2, <2>3 DEF OneTable
<1>4. ASSUME NEW r \in Request, Respond(r) PROVE OneTable'
  BY <1>1, <1>4 DEF Respond, Reject, ResolveRaises, Receive, UpstreamOk, UpstreamRaise, db,
     loopState
<1>5. ASSUME NEW r \in Request, FailOver(r) PROVE OneTable'
  BY <1>1, <1>5 DEF FailOver, UpstreamFail, db, Health!mark_provider_unhealthy, Health!outside
<1>6. CASE Checking
  BY <1>1, <1>6 DEF Checking, db, Health!Loop, Health!BeginRound, Health!SnapshotFails,
     Health!EndpointAnswers, Health!run_health_check, Health!outside
<1>7. ASSUME NEW p \in Provider, NEW row \in Row, NEW t \in Target, Patch(p, row, t) PROVE OneTable'
  BY <1>1, <1>7 DEF Patch, update_provider, Health!update_provider
<1>8. CASE Configure
  BY <1>1, <1>8 DEF Configure, post_override, set_routing_config, loopState
<1>9. ASSUME NEW p \in Provider, NEW low \in BOOLEAN, ReportCredit(p, low) PROVE OneTable'
  BY <1>1, <1>9 DEF ReportCredit, set_credit_state, db, loopState
<1>10. ASSUME NEW t \in Target, NEW a \in Response, EndpointChanges(t, a) PROVE OneTable'
  BY <1>1, <1>10 DEF EndpointChanges, vars, Health!EndpointChanges
<1>11. CASE Crash
  BY <1>1, <1>11 DEF Crash, Restart, db, Health!Restart, Health!outside
<1>12. CASE UNCHANGED routerVars
  BY <1>1, <1>12 DEF routerVars, vars, loopState
<1> QED
  BY <1>2, <1>3, <1>4, <1>5, <1>6, <1>7, <1>8, <1>9, <1>10, <1>11, <1>12
     DEF RouterNext, Disturbance

LEMMA RInvInit == RouterInit => RInv
BY IInvInit, SameInit, HealthAssumptions, HealthProofs!IInvInit DEF RouterInit, RInv, OneTable

LEMMA RInvStep == RInv /\ [RouterNext]_routerVars => RInv'
<1> SUFFICES ASSUME RInv, [RouterNext]_routerVars PROVE RInv'
  OBVIOUS
<1>1. [Next]_vars /\ (Health!Next \/ UNCHANGED <<loopState, healthy>>)
  BY Halves DEF RInv
<1>2. IInv'
  BY <1>1, IInvStep DEF RInv
<1>3. HealthProofs!IInv'
  BY <1>1, HealthHolds DEF RInv
<1>4. OneTable'
  BY OneTableStep
<1> QED  BY <1>2, <1>3, <1>4 DEF RInv

-----------------------------------------------------------------------------
(* Refusals.                                                               *)

\* Only its own arrival answers a request "no_provider".
LEMMA OnlyReceiveRefuses ==
    ASSUME IInv, [Next]_vars, NEW r \in Request, pc[r] = "new", reply'[r].code = "no_provider"
    PROVE  Receive(r)
<1>0. TypeOK /\ LoopOK(r) /\ reply[r].code = "none"
  BY DEF IInv, LoopInv, LoopOK, NoReply
<1>1. reply'[r] # reply[r]
  BY <1>0
<1>2. ASSUME NEW q \in Request, Reject(q) PROVE FALSE
  <2>1. /\ reply' = [reply EXCEPT ![q] = [code |-> rejection(Ask[q]).code,
                                         status |-> rejection(Ask[q]).status, by |-> None]]
        /\ rejection(Ask[q]).code # "no_provider"
    BY <1>2 DEF Reject, Answer, rejection
  <2> QED  BY <1>0, <1>1, <2>1 DEF TypeOK
<1>3. ASSUME NEW q \in Request, Receive(q), q # r PROVE FALSE
  <2>1. PICK c :
           \/ Answer(q, "no_provider", 503, None)
           \/ TryFrom(q, c, 1, 0)
    BY <1>3 DEF Receive
  <2>2. CASE Answer(q, "no_provider", 503, None)
    BY <1>0, <1>1, <1>3, <2>2 DEF Answer, TypeOK
  <2>3. CASE TryFrom(q, c, 1, 0)
    <3>1. r \in Request \ {q}
      BY <1>3
    <3>2. reply'[r] = reply[r]
      BY <1>0, <2>3, <3>1, TryFromFrame
    <3> QED  BY <1>1, <3>2
  <2> QED  BY <2>1, <2>2, <2>3
<1>4. ASSUME NEW q \in Request, Upstream(q) PROVE FALSE
  <2>1. q # r
    BY <1>4 DEF Upstream, UpstreamOk, UpstreamFail, UpstreamRaise
  <2>2. CASE UpstreamFail(q)
    <3>1. PICK st \in ErrorStatus : TryFrom(q, cands[q], at[q] + 1, st)
      BY <2>2 DEF UpstreamFail
    <3> QED  BY <1>0, <1>1, <2>1, <3>1, TryFromFrame
  <2>3. CASE UpstreamOk(q) \/ UpstreamRaise(q)
    BY <1>0, <1>1, <2>1, <2>3 DEF UpstreamOk, UpstreamRaise, Answer, TypeOK
  <2> QED  BY <1>4, <2>2, <2>3 DEF Upstream
<1>5. CASE Admin \/ Background \/ UNCHANGED vars
  BY <1>1, <1>5 DEF Admin, create_provider, update_provider, delete_provider, post_override,
     set_routing_config, Background, set_healthy, set_credit_state, Restart, request, vars
<1>6. ASSUME NEW q \in Request, ResolveRaises(q) PROVE FALSE
  BY <1>0, <1>1, <1>6 DEF ResolveRaises, Answer, TypeOK
<1>7. ASSUME NEW q \in Request, Reject(q) \/ ResolveRaises(q) \/ Receive(q) PROVE Receive(r)
  BY <1>2, <1>3, <1>6, <1>7
<1> QED  BY <1>4, <1>5, <1>7 DEF Next

\* It does so when nobody is available at that moment.
LEMMA RefusedWhenEmpty ==
    ASSUME IInv, NEW r \in Request, Receive(r), reply'[r].code = "no_provider"
    PROVE  Available(providers, priority, healthy, below,
                     upstream_model_part(canonical(r)), Ask[r].needs) = {}
<1> DEFINE ps == Available(providers, priority, healthy, below,
                           upstream_model_part(canonical(r)), Ask[r].needs)
           key == SortKey(providers, priority)
           s == get_session_id(Ask[r].sender)
           id(c) == Chosen(c, IF s \in DOMAIN override THEN override[s] ELSE None)
<1>0. TypeOK /\ LoopOK(r) /\ reply[r].code = "none"
  BY DEF IInv, LoopInv, LoopOK, NoReply, Receive
<1>1. PICK c \in Listings(ps, key) :
         IF id(c) = None \/ c = <<>> THEN TRUE ELSE TryFrom(r, c, 1, 0)
  BY DEF Receive
<1>2. ps \in SUBSET Provider
  BY <1>0, AvailableListed DEF TypeOK, IsTable
<1> HIDE DEF ps, key, id
<1>3. c \in Seq(ps) /\ c \in Seq(Provider)
  BY <1>1, <1>2, ListingIsSequence
<1>4. id(c) = None => c = <<>>
  <2>1. \A p \in Range(c) : p # None
    BY <1>3, NoneAssumption DEF Range
  <2>2. c # <<>> => c[1] \in Range(c)
    BY <1>3 DEF Range
  <2> QED  BY <2>1, <2>2 DEF Chosen, id
<1>5. c = <<>>
  <2>1. SUFFICES ASSUME TryFrom(r, c, 1, 0) PROVE FALSE
    BY <1>1, <1>4
  <2> QED  BY <1>0, <2>1 DEF TryFrom, Answer, TypeOK
<1>6. \A p \in ps : \E k \in DOMAIN c : c[k] = p
  BY <1>1 DEF Listings, Bijection, Surjection
<1> QED  BY <1>5, <1>6 DEF ps

\* Who fits, is not marked and is not out of credit is available.
LEMMA FitIsAvailable ==
    ASSUME NEW r \in Request, NEW p \in Provider, fits(p, r), healthy[p], ~below[p]
    PROVE  p \in Available(providers, priority, healthy, below,
                           upstream_model_part(canonical(r)), Ask[r].needs)
BY DEF fits, Available, filter_available, filter_by_capability, providers_with_model

-----------------------------------------------------------------------------
(* Theorems.                                                               *)

\* The two halves stay well formed, their tables have the same ids, and every mark has a
\* cause on record, however they interleave.
THEOREM RouterInvariance == RouterSpec => []RInv
BY RInvInit, RInvStep, PTL DEF RouterSpec

\* The request path keeps its promise when the health reports it meets are those of the
\* loop: what is proved of Proxy holds of the composed router.
THEOREM RouterKeepsPromise == RouterSpec => KeepsPromise
<1>1. RouterInit => Promise!Init
  BY PromiseInit DEF RouterInit
<1>2. RInv /\ [RouterNext]_routerVars => [Promise!Next]_(Promise!vars)
  BY Halves, PromiseStep DEF RInv
<1> QED  BY <1>1, <1>2, RouterInvariance, PTL DEF RouterSpec, KeepsPromise, Promise!Spec

\* No request is refused while a fit provider has done nothing to be left out.
THEOREM RefusalsHaveCause == RouterSpec => RefusedForCause
<1> DEFINE Caused ==
             \A r \in Request :
                pc[r] = "new" /\ reply'[r].code = "no_provider" =>
                   \A p \in Provider : fits(p, r) => p \in blamed \/ below[p]
<1>1. RInv /\ [RouterNext]_routerVars => [Caused]_routerVars
  <2> SUFFICES ASSUME RInv, [RouterNext]_routerVars, NEW r \in Request, pc[r] = "new",
                      reply'[r].code = "no_provider", NEW p \in Provider, fits(p, r)
               PROVE  p \in blamed \/ below[p]
    OBVIOUS
  <2>1. [Next]_vars /\ IInv
    BY Halves DEF RInv
  <2>2. Receive(r)
    BY <2>1, OnlyReceiveRefuses
  <2>3. ~healthy[p] \/ below[p]
    BY <2>1, <2>2, RefusedWhenEmpty, FitIsAvailable
  <2> QED  BY <2>3, HealthType DEF RInv
<1> QED  BY <1>1, RouterInvariance, PTL DEF RouterSpec, RefusedForCause
=============================================================================
