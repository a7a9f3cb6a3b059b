---------------------------- MODULE ProxyProofs ----------------------------
(* Proofs about Proxy, for any providers, requests, rows and statuses.      *)
EXTENDS Proxy, TableProofs, FiniteSetTheorems

\* The providers fit for a request are among those in the table.
LEMMA AvailableListed ==
    ASSUME NEW model, NEW needs
    PROVE  Available(providers, priority, healthy, below, model, needs) \subseteq DOMAIN providers
BY DEF Available, filter_available, filter_by_capability, providers_with_model, Routed

\* A listing of a set of providers is a sequence that holds each of them, once.
LEMMA ListingIsSequence ==
    ASSUME NEW ps \in SUBSET Provider, NEW key, NEW c \in Listings(ps, key)
    PROVE  /\ c \in Seq(ps)
           /\ c \in Seq(Provider)
           /\ \A i, j \in 1..Len(c) : c[i] = c[j] => i = j
<1>1. Cardinality(ps) \in Nat
  BY ProviderAssumption, FS_Subset, FS_CardinalityType
<1>2. c \in [1..Cardinality(ps) -> ps] /\ \A i, j \in DOMAIN c : c[i] = c[j] => i = j
  BY DEF Listings, Bijection, Injection, IsInjective
<1>3. c \in Seq(ps) /\ Len(c) = Cardinality(ps)
  BY <1>1, <1>2
<1>4. c \in Seq(Provider)
  BY <1>1, <1>2
<1> QED  BY <1>2, <1>3, <1>4

-----------------------------------------------------------------------------
(* Types.                                                                  *)

LEMMA StatusIsNat == Status \subseteq Nat /\ ErrorStatus \subseteq Status /\ 0 \notin ErrorStatus
BY StatusAssumption DEF ErrorStatus

\* The part of the state the loop of _try_candidates writes keeps its type.
LEMMA TryFromType ==
    ASSUME TypeOK, NEW r \in Request, NEW c \in Seq(Provider), NEW i \in Nat,
           NEW err \in ErrorStatus \cup {0}, TryFrom(r, c, i, err)
    PROVE  /\ pc' \in [Request -> {"new", "calling", "answered", "lost"}]
           /\ at' \in [Request -> Nat]
           /\ reply' \in [Request -> [code : ReplyCode, status : Nat,
                                     by : Provider \cup {None}]]
           /\ calls' \in [Request -> [Provider -> 0..2]]
<1>0. Len(c) \in Nat /\ \A k \in 1..Len(c) : c[k] \in Provider
  OBVIOUS
<1>1. CASE StillListed(c, i) # {}
  <2>1. PICK k \in StillListed(c, i) :
            /\ at' = [at EXCEPT ![r] = k]
            /\ calls' = [calls EXCEPT ![r][c[k]] = IF @ = 0 THEN 1 ELSE 2]
            /\ pc' = [pc EXCEPT ![r] = "calling"]
            /\ UNCHANGED reply
    BY <1>1 DEF TryFrom
  <2>2. k \in Nat
    BY <1>0 DEF StillListed
  <2>3. at' \in [Request -> Nat] /\ pc' \in [Request -> {"new", "calling", "answered", "lost"}]
    BY <2>1, <2>2 DEF TypeOK
  <2>4. c[k] \in Provider
    BY DEF StillListed, TypeOK, IsTable
  <2>5. calls' \in [Request -> [Provider -> 0..2]]
    BY <2>1, <2>4 DEF TypeOK
  <2> QED  BY <2>1, <2>3, <2>5 DEF TypeOK
<1>2. CASE StillListed(c, i) = {}
  <2>1. /\ at' = [at EXCEPT ![r] = Len(c) + 1]
        /\ pc' = [pc EXCEPT ![r] = "answered"]
        /\ UNCHANGED calls
    BY <1>2 DEF TryFrom, Answer
  <2>2. \E code \in ReplyCode, status \in Nat :
            reply' = [reply EXCEPT ![r] =
                         [code |-> code, status |-> status, by |-> None]]
    <3>1. CASE err = 0
      <4>1. "failover_exhausted" \in ReplyCode /\ 503 \in Nat
        BY DEF ReplyCode
      <4> QED  BY <1>2, <3>1, <4>1 DEF TryFrom, Answer
    <3>2. CASE err # 0
      <4>1. err \in Nat
        BY StatusIsNat
      <4>2. "upstream_error" \in ReplyCode
        BY DEF ReplyCode
      <4> QED  BY <1>2, <3>2, <4>1, <4>2 DEF TryFrom, Answer
    <3> QED  BY <3>1, <3>2
  <2> QED  BY <1>0, <2>1, <2>2 DEF TypeOK
<1> QED  BY <1>1, <1>2

\* What has been called was called once and stands in the list c before position i.
Behind(r, c, i) ==
    \A p \in called(r) : calls[r][p] = 1 /\ \E k \in 1..Len(c) : k < i /\ c[k] = p

\* What the loop leaves behind for the request it serves: entered with the list c at a
\* position beyond everything called so far, and with an error to pass on or a candidate
\* still in the table, it calls somebody new or gives an explained answer.
LEMMA TryFromLoop ==
    ASSUME TypeOK, NEW r \in Request, NEW c \in Seq(Provider), NEW i \in Nat \ {0},
           NEW err \in ErrorStatus \cup {0}, TryFrom(r, c, i, err),
           \A j, k \in 1..Len(c) : c[j] = c[k] => j = k,
           Behind(r, c, i),
           err = 0 => StillListed(c, i) # {},
           err # 0 => called(r) # {},
           reply[r] = NoReply, admits(Ask[r]),
           cands' = [cands EXCEPT ![r] = c],
           err # 0 => lastError' = [lastError EXCEPT ![r] = err]
    PROVE  LoopOK(r)' /\ (pc'[r] = "answered" => Explained(r)')
<1>0. Len(c) \in Nat /\ \A k \in 1..Len(c) : c[k] \in Provider
  OBVIOUS
<1>a. cands'[r] = c
  BY DEF TypeOK
<1>1. CASE StillListed(c, i) # {}
  <2>1. PICK k \in StillListed(c, i) :
            /\ at' = [at EXCEPT ![r] = k]
            /\ calls' = [calls EXCEPT ![r][c[k]] = IF @ = 0 THEN 1 ELSE 2]
            /\ pc' = [pc EXCEPT ![r] = "calling"]
            /\ UNCHANGED reply
    BY <1>1 DEF TryFrom
  <2>2. k \in 1..Len(c) /\ i <= k
    BY <1>0 DEF StillListed
  <2>3. at'[r] = k /\ pc'[r] = "calling" /\ reply'[r] = NoReply
    BY <2>1 DEF TypeOK
  <2>4. calls[r] \in [Provider -> 0..2]
          /\ calls'[r] = [calls[r] EXCEPT ![c[k]] = IF @ = 0 THEN 1 ELSE 2]
    BY <2>1 DEF TypeOK
  <2>5. calls[r][c[k]] = 0
    <3>1. c[k] \notin called(r)
      BY <1>0, <2>2 DEF Behind
    <3> QED  BY <1>0, <2>2, <2>4, <3>1 DEF called
  <2>6. calls'[r][c[k]] = 1 /\ \A p \in Provider \ {c[k]} : calls'[r][p] = calls[r][p]
    BY <1>0, <2>2, <2>4, <2>5
  <2>7. called(r)' = called(r) \cup {c[k]}
    BY <1>0, <2>2, <2>6 DEF called
  <2>8. \A p \in called(r)' : calls'[r][p] = 1 /\ \E j \in 1..Len(c) : j <= k /\ c[j] = p
    <3> TAKE p \in called(r)'
    <3>1. CASE p = c[k]
      BY <2>2, <2>6, <3>1
    <3>2. CASE p # c[k]
      <4>1. p \in called(r) /\ p \in Provider
        BY <2>7, <3>2 DEF called
      <4>2. PICK j \in 1..Len(c) : j < i /\ c[j] = p
        BY <4>1 DEF Behind
      <4>3. j <= k
        BY <1>0, <2>2, <4>2
      <4>4. calls[r][p] = 1
        BY <4>1 DEF Behind
      <4> QED  BY <2>6, <3>2, <4>1, <4>2, <4>3, <4>4
    <3> QED  BY <3>1, <3>2
  <2>9. c[k] \in called(r)'
    BY <2>7
  <2> QED  BY <1>a, <2>2, <2>3, <2>8, <2>9 DEF LoopOK
<1>2. CASE StillListed(c, i) = {}
  <2>1. err # 0 /\ err \in Nat /\ err >= 400
    BY <1>2, StatusIsNat DEF ErrorStatus
  <2>2. /\ at' = [at EXCEPT ![r] = Len(c) + 1]
        /\ Answer(r, "upstream_error", err, None)
        /\ UNCHANGED calls
    BY <1>2, <2>1 DEF TryFrom
  <2>3. /\ at'[r] = Len(c) + 1 /\ pc'[r] = "answered"
        /\ reply'[r].code = "upstream_error" /\ reply'[r].status = err
        /\ lastError'[r] = err
    BY <2>1, <2>2 DEF TypeOK, Answer
  <2>4. Explained(r)'
    BY <1>0, <1>a, <2>1, <2>2, <2>3 DEF Explained, called
  <2>5. called(r)' = called(r) /\ calls' = calls
    BY <2>2 DEF called
  <2>6. \A p \in called(r)' : calls'[r][p] = 1 /\ \E k \in 1..Len(c) : k <= Len(c) + 1 /\ c[k] = p
    BY <1>0, <2>5 DEF Behind
  <2> QED  BY <1>a, <2>3, <2>4, <2>6 DEF LoopOK
<1> QED  BY <1>1, <1>2

-----------------------------------------------------------------------------
(* The inductive invariant.                                                *)

IInv == TypeOK /\ LoopInv /\ ReplyExplained

LEMMA IInvInit == Init => IInv
<1> SUFFICES ASSUME Init PROVE IInv
  OBVIOUS
<1>1. IsTable(providers, Provider, Row) /\ IsTable(override, Session, Provider)
  BY DEF Init, Tables, IsTable
<1>2. IsTable(priority, Provider, Int)
  <2>1. PICK ps \in SUBSET DOMAIN providers : priority = [p \in ps |-> providers[p].priority]
    BY DEF Init
  <2>2. \A p \in ps : p \in Provider /\ providers[p].priority \in Int
    BY <1>1, <2>1, RowAssumption DEF IsTable
  <2> QED  BY <2>1, <2>2 DEF IsTable
<1>3. NoReply \in [code : ReplyCode, status : Nat, by : Provider \cup {None}]
  BY DEF NoReply, ReplyCode
<1>4. TypeOK
  BY <1>1, <1>2, <1>3 DEF Init, TypeOK
<1>5. LoopInv /\ ReplyExplained
  BY DEF Init, LoopInv, LoopOK, ReplyExplained, called
<1> QED  BY <1>4, <1>5 DEF IInv

\* A request that waits for an upstream has been admitted.
LEMMA CallingAdmitted ==
    ASSUME NEW r \in Request, LoopOK(r), pc[r] = "calling" PROVE admits(Ask[r])
BY DEF LoopOK

\* A request the step does not touch stays as it was.
LEMMA Untouched ==
    ASSUME IInv, NEW q \in Request,
           pc'[q] = pc[q], cands'[q] = cands[q], at'[q] = at[q],
           lastError'[q] = lastError[q], reply'[q] = reply[q], calls'[q] = calls[q]
    PROVE  LoopOK(q)' /\ (pc'[q] = "answered" => Explained(q)')
BY DEF IInv, LoopInv, LoopOK, ReplyExplained, Explained, called

\* So a step that serves one request need only be followed for that one.
LEMMA OneRequest ==
    ASSUME IInv, TypeOK', NEW r \in Request,
           \A q \in Request \ {r} :
              /\ pc'[q] = pc[q] /\ cands'[q] = cands[q] /\ at'[q] = at[q]
              /\ lastError'[q] = lastError[q] /\ reply'[q] = reply[q]
              /\ calls'[q] = calls[q],
           LoopOK(r)' /\ (pc'[r] = "answered" => Explained(r)')
    PROVE  IInv'
<1>1. \A q \in Request : LoopOK(q)' /\ (pc'[q] = "answered" => Explained(q)')
  BY Untouched
<1> QED  BY <1>1 DEF IInv, LoopInv, ReplyExplained

LEMMA TryFromFrame ==
    ASSUME NEW r \in Request, NEW c, NEW i, NEW err, TypeOK, TryFrom(r, c, i, err)
    PROVE  \A q \in Request \ {r} :
              /\ pc'[q] = pc[q] /\ at'[q] = at[q] /\ reply'[q] = reply[q]
              /\ calls'[q] = calls[q]
BY DEF TryFrom, Answer, TypeOK

LEMMA RejectStep == ASSUME IInv, NEW r \in Request, Reject(r) PROVE IInv'
<1> USE DEF db, memory
<1> DEFINE x == rejection(Ask[r])
<1>0. TypeOK /\ LoopOK(r) /\ pc[r] = "new" /\ ~admits(Ask[r])
  BY DEF IInv, LoopInv, Reject
<1>1. x.code \in {"invalid_api_key", "invalid_json", "internal_error"} /\ x.status \in Nat
  BY DEF rejection
<1> HIDE DEF x
<1>2. Answer(r, x.code, x.status, None)
  BY DEF Reject, x
<1>3. [code |-> x.code, status |-> x.status, by |-> None]
        \in [code : ReplyCode, status : Nat, by : Provider \cup {None}]
  BY <1>1 DEF ReplyCode
<1>4. /\ UNCHANGED <<providers, priority, override, healthy, below>>
      /\ UNCHANGED <<cands, chosen, at, lastError, calls>>
  BY DEF Reject
<1>5. TypeOK'
  BY <1>0, <1>2, <1>3, <1>4 DEF Answer, TypeOK
<1>6. pc'[r] = "answered" /\ reply'[r].code = x.code
  BY <1>0, <1>2 DEF Answer, TypeOK
<1>7. called(r) = {} /\ called(r)' = {} /\ cands'[r] = <<>>
  BY <1>0, <1>4 DEF LoopOK, called
<1>8. LoopOK(r)' /\ Explained(r)'
  BY <1>0, <1>1, <1>4, <1>6, <1>7 DEF LoopOK, Explained
<1>9. \A q \in Request \ {r} : pc'[q] = pc[q] /\ reply'[q] = reply[q]
  BY <1>0, <1>2 DEF Answer, TypeOK
<1> QED  BY <1>4, <1>5, <1>8, <1>9, OneRequest

LEMMA ResolveRaisesStep == ASSUME IInv, NEW r \in Request, ResolveRaises(r) PROVE IInv'
<1> USE DEF db, memory
<1>0. TypeOK /\ LoopOK(r) /\ pc[r] = "new"
  BY DEF IInv, LoopInv, ResolveRaises
<1>1. [code |-> "internal_error", status |-> 500, by |-> None]
        \in [code : ReplyCode, status : Nat, by : Provider \cup {None}]
  BY DEF ReplyCode
<1>2. TypeOK'
  BY <1>0, <1>1 DEF ResolveRaises, Answer, TypeOK
<1>3. /\ pc'[r] = "answered" /\ reply'[r].code = "internal_error"
      /\ cands' = cands /\ at' = at /\ calls' = calls /\ lastError' = lastError
  BY <1>0 DEF ResolveRaises, Answer, TypeOK
<1>4. called(r) = {} /\ called(r)' = {} /\ cands'[r] = <<>>
  BY <1>0, <1>3 DEF LoopOK, called
<1>5. LoopOK(r)' /\ Explained(r)'
  BY <1>0, <1>3, <1>4 DEF LoopOK, Explained
<1>6. \A q \in Request \ {r} : pc'[q] = pc[q] /\ reply'[q] = reply[q]
  BY <1>0 DEF ResolveRaises, Answer, TypeOK
<1> QED  BY <1>2, <1>3, <1>5, <1>6, OneRequest

LEMMA ReceiveStep == ASSUME IInv, NEW r \in Request, Receive(r) PROVE IInv'
<1> USE DEF db, memory
<1> DEFINE ps == Available(providers, priority, healthy, below,
                           upstream_model_part(canonical(r)), Ask[r].needs)
           key == SortKey(providers, priority)
           s == get_session_id(Ask[r].sender)
           id(c) == Chosen(c, IF s \in DOMAIN override THEN override[s] ELSE None)
<1>0. TypeOK /\ LoopOK(r) /\ pc[r] = "new"
  BY DEF IInv, LoopInv, Receive
<1>1. PICK c \in Listings(ps, key) :
          /\ cands' = [cands EXCEPT ![r] = c]
          /\ chosen' = [chosen EXCEPT ![r] = id(c)]
          /\ IF id(c) = None \/ c = <<>>
             THEN /\ Answer(r, "no_provider", 503, None)
                  /\ UNCHANGED <<at, calls>>
             ELSE TryFrom(r, c, 1, 0)
  BY DEF Receive
<1>2. ps \subseteq DOMAIN providers /\ ps \subseteq Provider
  BY <1>0, AvailableListed DEF TypeOK, IsTable
<1> HIDE DEF ps, key, id
<1>3. c \in Seq(Provider) /\ c \in Seq(ps) /\ \A i, j \in 1..Len(c) : c[i] = c[j] => i = j
  BY <1>1, <1>2, ListingIsSequence
<1>4. id(c) \in Range(c) \cup {None} /\ (id(c) = None => c = <<>>)
  <2>1. \A p \in Range(c) : p # None
    BY <1>3, NoneAssumption DEF Range
  <2>2. c # <<>> => c[1] \in Range(c)
    BY <1>3 DEF Range
  <2> QED  BY <2>1, <2>2 DEF Chosen, id
<1>5. id(c) \in Provider \cup {None}
  BY <1>3, <1>4 DEF Range
<1>6. called(r) = {} /\ lastError[r] = 0 /\ at[r] = 0 /\ reply[r] = NoReply /\ admits(Ask[r])
  BY <1>0 DEF LoopOK, Receive
<1>7. lastError' = lastError /\ UNCHANGED <<providers, priority, override, healthy, below>>
  BY DEF Receive
<1>8. cands' \in [Request -> Seq(Provider)] /\ chosen' \in [Request -> Provider \cup {None}]
  BY <1>0, <1>1, <1>3, <1>5 DEF TypeOK
<1>9. cands'[r] = c /\ \A q \in Request \ {r} : cands'[q] = cands[q]
  BY <1>0, <1>1 DEF TypeOK
<1>10. CASE c = <<>>
  <2>1. /\ pc' = [pc EXCEPT ![r] = "answered"]
        /\ reply' = [reply EXCEPT ![r] = [code |-> "no_provider", status |-> 503,
                                          by |-> None]]
        /\ UNCHANGED <<at, calls>>
    BY <1>1, <1>10 DEF Answer
  <2>2. [code |-> "no_provider", status |-> 503, by |-> None]
          \in [code : ReplyCode, status : Nat, by : Provider \cup {None}]
    BY DEF ReplyCode
  <2>3. TypeOK'
    BY <1>0, <1>7, <1>8, <2>1, <2>2 DEF TypeOK
  <2>4. pc'[r] = "answered" /\ reply'[r].code = "no_provider" /\ called(r)' = {}
    BY <1>0, <1>6, <2>1 DEF TypeOK, called
  <2>5. LoopOK(r)' /\ Explained(r)'
    BY <1>3, <1>6, <1>9, <1>10, <2>4 DEF LoopOK, Explained
  <2>6. \A q \in Request \ {r} : pc'[q] = pc[q] /\ reply'[q] = reply[q]
    BY <1>0, <2>1 DEF TypeOK
  <2> QED  BY <1>7, <1>9, <2>1, <2>3, <2>5, <2>6, OneRequest
<1>11. CASE c # <<>>
  <2>1. TryFrom(r, c, 1, 0)
    BY <1>1, <1>4, <1>11
  <2>2. 1 \in StillListed(c, 1)
    BY <1>2, <1>3, <1>11 DEF StillListed
  <2>3. TypeOK'
    BY <1>0, <1>3, <1>7, <1>8, <2>1, TryFromType DEF TypeOK
  <2>4. LoopOK(r)' /\ (pc'[r] = "answered" => Explained(r)')
    <3>1. Behind(r, c, 1)
      BY <1>6 DEF Behind
    <3>2. 0 = 0 => StillListed(c, 1) # {}
      BY <2>2
    <3>3. 1 \in Nat \ {0} /\ 0 \in ErrorStatus \cup {0}
      OBVIOUS
    <3>4. /\ cands' = [cands EXCEPT ![r] = c] /\ c \in Seq(Provider)
          /\ reply[r] = NoReply /\ admits(Ask[r])
      BY <1>1, <1>3, <1>6
    <3>5. \A j, k \in 1..Len(c) : c[j] = c[k] => j = k
      BY <1>3
    <3> QED  BY <1>0, <2>1, <3>1, <3>2, <3>3, <3>4, <3>5, TryFromLoop
  <2>5. \A q \in Request \ {r} :
           /\ pc'[q] = pc[q] /\ at'[q] = at[q] /\ reply'[q] = reply[q]
           /\ calls'[q] = calls[q]
    BY <1>0, <2>1, TryFromFrame
  <2> QED  BY <1>7, <1>9, <2>3, <2>4, <2>5, OneRequest
<1> QED  BY <1>10, <1>11

LEMMA UpstreamOkStep == ASSUME IInv, NEW r \in Request, UpstreamOk(r) PROVE IInv'
<1> USE DEF db, memory
<1>0. TypeOK /\ LoopOK(r) /\ pc[r] = "calling"
  BY DEF IInv, LoopInv, UpstreamOk
<1>1. at[r] \in 1..Len(cands[r]) /\ cands[r][at[r]] \in called(r) /\ cands[r][at[r]] \in Provider
  BY <1>0 DEF LoopOK, TypeOK
<1>2. PICK st \in Status \ ErrorStatus : Answer(r, "ok", st, cands[r][at[r]])
  BY DEF UpstreamOk
<1>3. st \in Nat /\ st < 400
  BY StatusIsNat, StatusAssumption DEF ErrorStatus
<1>4. [code |-> "ok", status |-> st, by |-> cands[r][at[r]]]
        \in [code : ReplyCode, status : Nat, by : Provider \cup {None}]
  BY <1>1, <1>3 DEF ReplyCode
<1>5. TypeOK'
  BY <1>0, <1>2, <1>4 DEF UpstreamOk, Answer, TypeOK
<1>6. /\ pc'[r] = "answered" /\ reply'[r].code = "ok" /\ reply'[r].status = st
      /\ reply'[r].by = cands[r][at[r]]
      /\ cands' = cands /\ at' = at /\ calls' = calls /\ lastError' = lastError
  BY <1>0, <1>2 DEF UpstreamOk, Answer, TypeOK
<1>7. LoopOK(r)' /\ Explained(r)'
  BY <1>0, <1>1, <1>3, <1>6 DEF LoopOK, Explained, called
<1>8. \A q \in Request \ {r} : pc'[q] = pc[q] /\ reply'[q] = reply[q]
  BY <1>0, <1>2 DEF Answer, TypeOK
<1> QED  BY <1>5, <1>6, <1>7, <1>8, OneRequest

LEMMA UpstreamRaiseStep == ASSUME IInv, NEW r \in Request, UpstreamRaise(r) PROVE IInv'
<1> USE DEF db, memory
<1>0. TypeOK /\ LoopOK(r) /\ pc[r] = "calling"
  BY DEF IInv, LoopInv, UpstreamRaise
<1>1. [code |-> "internal_error", status |-> 500, by |-> None]
        \in [code : ReplyCode, status : Nat, by : Provider \cup {None}]
  BY DEF ReplyCode
<1>2. TypeOK'
  BY <1>0, <1>1 DEF UpstreamRaise, Answer, TypeOK
<1>3. /\ pc'[r] = "answered" /\ reply'[r].code = "internal_error"
      /\ cands' = cands /\ at' = at /\ calls' = calls /\ lastError' = lastError
  BY <1>0 DEF UpstreamRaise, Answer, TypeOK
<1>4. LoopOK(r)' /\ Explained(r)'
  BY <1>0, <1>3 DEF LoopOK, Explained, called
<1>5. \A q \in Request \ {r} : pc'[q] = pc[q] /\ reply'[q] = reply[q]
  BY <1>0 DEF UpstreamRaise, Answer, TypeOK
<1> QED  BY <1>2, <1>3, <1>4, <1>5, OneRequest

LEMMA UpstreamFailStep == ASSUME IInv, NEW r \in Request, UpstreamFail(r) PROVE IInv'
<1> USE DEF db
<1> DEFINE c == cands[r]
<1>0. TypeOK /\ LoopOK(r) /\ pc[r] = "calling"
  BY DEF IInv, LoopInv, UpstreamFail
<1>1. /\ at[r] \in 1..Len(c) /\ c[at[r]] \in called(r) /\ c[at[r]] \in Provider
      /\ c \in Seq(Provider) /\ at[r] \in Nat /\ reply[r] = NoReply
  BY <1>0 DEF LoopOK, TypeOK
<1>2. PICK st \in ErrorStatus :
          /\ lastError' = [lastError EXCEPT ![r] = st]
          /\ TryFrom(r, c, at[r] + 1, st)
  BY DEF UpstreamFail
<1>3. /\ UNCHANGED <<providers, priority, override, below, cands, chosen>>
      /\ healthy' = [healthy EXCEPT ![c[at[r]]] = FALSE]
  BY DEF UpstreamFail
<1>4. at[r] + 1 \in Nat \ {0} /\ st \in ErrorStatus \cup {0} /\ st # 0
  BY <1>1, StatusIsNat
<1>5. TypeOK'
  <2>1. healthy' \in [Provider -> BOOLEAN] /\ lastError' \in [Request -> ErrorStatus \cup {0}]
    BY <1>0, <1>2, <1>3 DEF TypeOK
  <2> QED  BY <1>0, <1>1, <1>2, <1>3, <1>4, <2>1, TryFromType DEF TypeOK
<1>6. LoopOK(r)' /\ (pc'[r] = "answered" => Explained(r)')
  <2>1. \A j, k \in 1..Len(c) : c[j] = c[k] => j = k
    BY <1>0 DEF LoopOK
  <2>2. Behind(r, c, at[r] + 1)
    BY <1>0, <1>1 DEF LoopOK, Behind
  <2>3. cands' = [cands EXCEPT ![r] = c]
    BY <1>0, <1>3 DEF TypeOK
  <2>4. called(r) # {}
    BY <1>1
  <2>5. (st = 0 => StillListed(c, at[r] + 1) # {}) /\ (st # 0 => called(r) # {})
    BY <1>4, <2>4
  <2>6. st # 0 => lastError' = [lastError EXCEPT ![r] = st]
    BY <1>2
  <2>7. TypeOK /\ c \in Seq(Provider) /\ reply[r] = NoReply /\ admits(Ask[r])
    BY <1>0, <1>1, CallingAdmitted
  <2>8. TryFrom(r, c, at[r] + 1, st)
    BY <1>2
  <2>9. at[r] + 1 \in Nat \ {0} /\ st \in ErrorStatus \cup {0}
    BY <1>4
  <2> HIDE DEF c
  <2> QED  BY <2>1, <2>2, <2>3, <2>5, <2>6, <2>7, <2>8, <2>9, TryFromLoop
<1>7. \A q \in Request \ {r} :
         /\ pc'[q] = pc[q] /\ at'[q] = at[q] /\ reply'[q] = reply[q]
         /\ calls'[q] = calls[q] /\ lastError'[q] = lastError[q] /\ cands'[q] = cands[q]
  BY <1>0, <1>2, <1>3, TryFromFrame DEF TypeOK
<1> QED  BY <1>5, <1>6, <1>7, OneRequest

\* The admin API and the loops write only the tables and the maps.
LEMMA OutsideStep == ASSUME IInv, TypeOK', UNCHANGED request PROVE IInv'
<1>1. \A q \in Request : LoopOK(q)' /\ (pc'[q] = "answered" => Explained(q)')
  BY Untouched DEF request
<1> QED  BY <1>1 DEF IInv, LoopInv, ReplyExplained

LEMMA AdminStep == ASSUME IInv, Admin PROVE IInv'
<1> USE DEF memory
<1>0. TypeOK
  BY DEF IInv
<1>1. ASSUME NEW p \in Provider, NEW row \in Row, create_provider(p, row) PROVE IInv'
  <2>1. IsTable(providers', Provider, Row) /\ IsTable(priority', Provider, Int)
    BY <1>0, <1>1, UpsertTable, RowAssumption DEF create_provider, TypeOK
  <2> QED  BY <1>0, <1>1, <2>1, OutsideStep DEF create_provider, TypeOK, request
<1>2. ASSUME NEW p \in Provider, NEW row \in Row, update_provider(p, row) PROVE IInv'
  <2>1. IsTable(providers', Provider, Row)
    BY <1>0, <1>2 DEF update_provider, TypeOK, IsTable
  <2>2. IsTable(priority', Provider, Int)
    BY <1>0, <1>2, UpsertTable, RowAssumption DEF update_provider, TypeOK
  <2> QED  BY <1>0, <1>2, <2>1, <2>2, OutsideStep DEF update_provider, TypeOK, request
<1>3. ASSUME NEW p \in Provider, delete_provider(p) PROVE IInv'
  <2>1. /\ IsTable(providers', Provider, Row) /\ IsTable(priority', Provider, Int)
        /\ IsTable(override', Session, Provider)
    BY <1>0, <1>3, RemoveTable DEF delete_provider, TypeOK
  <2> QED  BY <1>0, <1>3, <2>1, OutsideStep DEF delete_provider, TypeOK, request
<1>4. ASSUME NEW q \in Sender, NEW id \in Provider \cup {None}, post_override(q, id) PROVE IInv'
  <2>1. get_session_id(q) \in Session
    BY DEF Session
  <2>2. IsTable(override', Session, Provider)
    BY <1>0, <1>4, <2>1, UpsertTable, RemoveTable DEF post_override, TypeOK
  <2> QED  BY <1>0, <1>4, <2>2, OutsideStep DEF post_override, TypeOK, request
<1>5. ASSUME NEW n \in 1..MaxOrder, NEW order \in [0..(n - 1) -> Provider], set_routing_config(order)
      PROVE  IInv'
  <2>1. IsTable(priority', Provider, Int)
    <3>1. PICK last \in [Range(order) -> DOMAIN order] :
             priority' = [p \in DOMAIN priority \cup Range(order) |->
                             IF p \in Range(order) THEN last[p] ELSE priority[p]]
      BY <1>5 DEF set_routing_config
    <3>2. Range(order) \subseteq Provider /\ DOMAIN order \subseteq Int
      BY DEF Range
    <3> QED  BY <1>0, <3>1, <3>2 DEF TypeOK, IsTable
  <2> QED  BY <1>0, <1>5, <2>1, OutsideStep DEF set_routing_config, TypeOK, request
<1> QED  BY <1>1, <1>2, <1>3, <1>4, <1>5 DEF Admin

LEMMA BackgroundStep == ASSUME IInv, Background PROVE IInv'
<1> USE DEF db
<1>0. TypeOK
  BY DEF IInv
<1>1. ASSUME NEW p \in Provider, NEW ok \in BOOLEAN, set_healthy(p, ok) PROVE IInv'
  <2>1. TypeOK'
    BY <1>0, <1>1 DEF set_healthy, TypeOK, request
  <2> QED  BY <1>1, <2>1, OutsideStep DEF set_healthy
<1>2. ASSUME NEW p \in Provider, NEW low \in BOOLEAN, set_credit_state(p, low) PROVE IInv'
  <2>1. TypeOK'
    BY <1>0, <1>2 DEF set_credit_state, TypeOK, request
  <2> QED  BY <1>2, <2>1, OutsideStep DEF set_credit_state
<1>3. CASE Restart
  <2>1. TypeOK'
    BY <1>0, <1>3 DEF Restart, TypeOK
  <2>2. \A q \in Request : LoopOK(q)' /\ (pc'[q] = "answered" => Explained(q)')
    <3> TAKE q \in Request
    <3>1. pc'[q] = (IF pc[q] = "calling" THEN "lost" ELSE pc[q])
      BY <1>3 DEF Restart
    <3> QED  BY <1>3, <3>1 DEF Restart, IInv, LoopInv, LoopOK, ReplyExplained, Explained, called
  <2> QED  BY <2>1, <2>2 DEF IInv, LoopInv, ReplyExplained
<1> QED  BY <1>1, <1>2, <1>3 DEF Background

LEMMA IInvStep == IInv /\ [Next]_vars => IInv'
<1> SUFFICES ASSUME IInv, [Next]_vars PROVE IInv'
  OBVIOUS
<1>1. ASSUME NEW r \in Request, Reject(r) \/ ResolveRaises(r) \/ Receive(r) PROVE IInv'
  BY <1>1, RejectStep, ResolveRaisesStep, ReceiveStep
<1>2. ASSUME NEW r \in Request, Upstream(r) PROVE IInv'
  BY <1>2, UpstreamOkStep, UpstreamFailStep, UpstreamRaiseStep DEF Upstream
<1>3. CASE Admin
  BY <1>3, AdminStep
<1>4. CASE Background
  BY <1>4, BackgroundStep
<1>5. CASE UNCHANGED vars
  <2>1. TypeOK'
    BY <1>5 DEF IInv, TypeOK, IsTable, vars
  <2> QED  BY <1>5, <2>1, OutsideStep DEF vars, request
<1> QED  BY <1>1, <1>2, <1>3, <1>4, <1>5 DEF Next

\* The invariant the other results rest on: TypeOK alone is not inductive without where
\* the loop of _try_candidates stands, nor ReplyExplained without it.
THEOREM Invariance == Spec => []IInv
BY IInvInit, IInvStep, PTL DEF Spec

\* The tables, the maps and the requests keep their types, whatever the operators write.
THEOREM TypeCorrect == Spec => []TypeOK
<1>1. IInv => TypeOK
  BY DEF IInv
<1> QED  BY <1>1, Invariance, PTL

\* The loop of _try_candidates stands where its list and its calls say.
THEOREM LoopStands == Spec => []LoopInv
<1>1. IInv => LoopInv
  BY DEF IInv
<1> QED  BY <1>1, Invariance, PTL

\* Every answer of proxy.py is accounted for by the calls made for it, for any number of
\* providers and requests.
THEOREM RepliesExplained == Spec => []ReplyExplained
<1>1. IInv => ReplyExplained
  BY DEF IInv
<1> QED  BY <1>1, Invariance, PTL

\* The loop of _try_candidates never sends a request twice to one provider.
THEOREM CalledOnce == Spec => []CallOnce
<1>1. IInv => CallOnce
  <2> SUFFICES ASSUME IInv, NEW r \in Request, NEW p \in Provider PROVE calls[r][p] <= 1
    BY DEF CallOnce
  <2>1. LoopOK(r) /\ calls[r][p] \in 0..2
    BY DEF IInv, LoopInv, TypeOK
  <2>2. p \in called(r) => calls[r][p] = 1
    BY <2>1 DEF LoopOK
  <2>3. p \notin called(r) => calls[r][p] = 0
    BY <2>1 DEF called
  <2> QED  BY <2>2, <2>3
<1> QED  BY <1>1, Invariance, PTL

\* The loop passes over deleted candidates only.
LEMMA TryFromSkips ==
    ASSUME TypeOK, NEW r \in Request, NEW c \in Seq(Provider), NEW i \in Nat \ {0}, NEW err,
           TryFrom(r, c, i, err)
    PROVE  \A k \in i..(at'[r] - 1) : c[k] \notin DOMAIN providers
<1>0. Len(c) \in Nat
  OBVIOUS
<1>1. CASE StillListed(c, i) # {}
  <2>1. PICK k \in StillListed(c, i) :
            /\ \A j \in StillListed(c, i) : k <= j
            /\ at' = [at EXCEPT ![r] = k]
    BY <1>1 DEF TryFrom
  <2>2. at'[r] = k /\ k \in i..Len(c)
    BY <2>1 DEF TypeOK, StillListed
  <2> SUFFICES ASSUME NEW j \in i..(k - 1) PROVE c[j] \notin DOMAIN providers
    BY <2>2
  <2>3. j \in i..Len(c) /\ ~(k <= j)
    BY <1>0, <2>2
  <2> QED  BY <2>1, <2>3 DEF StillListed
<1>2. CASE StillListed(c, i) = {}
  <2>1. at'[r] = Len(c) + 1
    BY <1>2 DEF TryFrom, TypeOK
  <2>2. \A k \in i..Len(c) : c[k] \notin DOMAIN providers
    BY <1>2 DEF StillListed
  <2> QED  BY <1>0, <2>1, <2>2
<1> QED  BY <1>1, <1>2

\* A candidate is passed over only when an operator has deleted it: in every step the
\* positions the loop leaves behind it uncalled hold ids no longer in the table.
THEOREM SkipsOnlyDeleted == Spec => NoneSkipped
<1> DEFINE Skips(r) ==
             \A k \in (at[r] + 1)..(at'[r] - 1) : cands'[r][k] \notin DOMAIN providers
<1>1. ASSUME IInv, Next, NEW r \in Request PROVE Skips(r)
  <2>0. TypeOK /\ LoopOK(r) /\ at[r] \in Nat
    BY <1>1 DEF IInv, LoopInv, TypeOK
  <2>1. ASSUME at'[r] = at[r] PROVE Skips(r)
    BY <2>0, <2>1
  <2>2. ASSUME NEW q \in Request, Receive(q) PROVE Skips(r)
    <3>0. TypeOK'
      BY <1>1, <2>2, ReceiveStep DEF IInv
    <3>1. PICK c :
             /\ cands' = [cands EXCEPT ![q] = c]
             /\ (UNCHANGED at) \/ TryFrom(q, c, 1, 0)
      BY <2>2 DEF Receive
    <3>2. cands'[q] = c /\ c \in Seq(Provider)
      BY <2>0, <3>0, <3>1 DEF TypeOK
    <3>3. CASE q = r /\ TryFrom(q, c, 1, 0)
      <4>1. at[r] = 0
        BY <2>0, <2>2, <3>3 DEF LoopOK, Receive
      <4>2. 1 \in Nat \ {0}
        OBVIOUS
      <4>3. \A k \in 1..(at'[r] - 1) : c[k] \notin DOMAIN providers
        BY <2>0, <3>2, <3>3, <4>2, TryFromSkips
      <4> QED  BY <3>2, <3>3, <4>1, <4>3
    <3>4. CASE q # r /\ TryFrom(q, c, 1, 0)
      BY <2>0, <2>1, <3>4, TryFromFrame
    <3> QED  BY <2>1, <3>1, <3>3, <3>4
  <2>3. ASSUME NEW q \in Request, UpstreamFail(q) PROVE Skips(r)
    <3>1. PICK st \in ErrorStatus : TryFrom(q, cands[q], at[q] + 1, st)
      BY <2>3 DEF UpstreamFail
    <3>2. cands' = cands
      BY <2>3 DEF UpstreamFail
    <3>3. CASE q = r
      <4>1. cands[q] \in Seq(Provider) /\ at[q] + 1 \in Nat \ {0}
        BY <2>0 DEF TypeOK
      <4>2. \A k \in (at[q] + 1)..(at'[q] - 1) : cands[q][k] \notin DOMAIN providers
        BY <2>0, <3>1, <4>1, TryFromSkips
      <4> QED  BY <3>2, <3>3, <4>2
    <3>4. CASE q # r
      BY <2>0, <2>1, <3>1, <3>4, TryFromFrame
    <3> QED  BY <3>3, <3>4
  <2>4. ASSUME NEW q \in Request,
               Reject(q) \/ ResolveRaises(q) \/ UpstreamOk(q) \/ UpstreamRaise(q)
        PROVE  Skips(r)
    BY <2>1, <2>4 DEF Reject, ResolveRaises, UpstreamOk, UpstreamRaise
  <2>5. CASE Admin
    BY <2>1, <2>5 DEF Admin, create_provider, update_provider, delete_provider, post_override,
       set_routing_config, request
  <2>6. CASE Background
    BY <2>1, <2>6 DEF Background, set_healthy, set_credit_state, Restart, request
  <2> QED  BY <1>1, <2>2, <2>3, <2>4, <2>5, <2>6 DEF Next, Upstream
<1>2. IInv /\ [Next]_vars => [\A r \in Request : Skips(r)]_vars
  BY <1>1
<1> QED  BY <1>2, Invariance, PTL DEF Spec, NoneSkipped

-----------------------------------------------------------------------------
(* Who is called first.                                                    *)

\* The providers fit for a request at this moment, and what they are sorted by.
fitFor(r) == Available(providers, priority, healthy, below,
                    upstream_model_part(canonical(r)), Ask[r].needs)

rank == SortKey(providers, priority)

pinOf(r) == LET s == get_session_id(Ask[r].sender)
            IN  IF s \in DOMAIN override THEN override[s] ELSE None

\* Nobody is deleted between the resolution of the list and the call of its head.
LEMMA ReceiveCallsHead ==
    ASSUME IInv, NEW r \in Request, Receive(r)
    PROVE  \E c \in Listings(fitFor(r), rank) :
              /\ c \in Seq(Provider) /\ cands'[r] = c /\ chosen'[r] = Chosen(c, pinOf(r))
              /\ c = <<>> => pc'[r] = "answered" /\ called(r)' = {}
              /\ c # <<>> => pc'[r] = "calling" /\ at'[r] = 1 /\ called(r)' = {c[1]}
              /\ \A q \in Request \ {r} : cands'[q] = cands[q] /\ chosen'[q] = chosen[q]
                                          /\ calls'[q] = calls[q] /\ pc'[q] = pc[q]
<1>0. TypeOK /\ LoopOK(r) /\ pc[r] = "new" /\ TypeOK'
  BY ReceiveStep DEF IInv, LoopInv, Receive
<1>1. PICK c \in Listings(fitFor(r), rank) :
          /\ cands' = [cands EXCEPT ![r] = c]
          /\ chosen' = [chosen EXCEPT ![r] = Chosen(c, pinOf(r))]
          /\ IF Chosen(c, pinOf(r)) = None \/ c = <<>>
             THEN /\ Answer(r, "no_provider", 503, None)
                  /\ UNCHANGED <<at, calls>>
             ELSE TryFrom(r, c, 1, 0)
  BY DEF Receive, fitFor, rank, pinOf
<1>2. fitFor(r) \subseteq DOMAIN providers /\ fitFor(r) \subseteq Provider
  BY <1>0, AvailableListed DEF TypeOK, IsTable, fitFor
<1> HIDE DEF fitFor, rank, pinOf
<1>3. c \in Seq(Provider) /\ c \in Seq(fitFor(r))
  BY <1>1, <1>2, ListingIsSequence
<1>4. cands'[r] = c /\ chosen'[r] = Chosen(c, pinOf(r))
        /\ \A q \in Request \ {r} : cands'[q] = cands[q] /\ chosen'[q] = chosen[q]
  BY <1>0, <1>1 DEF TypeOK
<1>5. \A p \in Provider : calls[r][p] = 0
  <2>1. called(r) = {} /\ calls[r] \in [Provider -> 0..2]
    BY <1>0 DEF LoopOK, TypeOK
  <2> QED  BY <2>1 DEF called
<1>6. CASE c = <<>>
  <2>1. Answer(r, "no_provider", 503, None) /\ UNCHANGED <<at, calls>>
    BY <1>1, <1>6
  <2>2. pc'[r] = "answered" /\ called(r)' = {}
          /\ \A q \in Request \ {r} : calls'[q] = calls[q] /\ pc'[q] = pc[q]
    BY <1>0, <1>5, <2>1 DEF Answer, TypeOK, called
  <2> QED  BY <1>3, <1>4, <1>6, <2>2
<1>7. CASE c # <<>>
  <2>1. c[1] \in Provider /\ 1 \in 1..Len(c) /\ c[1] \in DOMAIN providers /\ c[1] \in Range(c)
    BY <1>2, <1>3, <1>7 DEF Range
  <2>2. Chosen(c, pinOf(r)) # None
    <3>1. \A p \in Range(c) : p # None
      BY <1>3, NoneAssumption DEF Range
    <3> QED  BY <1>7, <2>1, <3>1 DEF Chosen
  <2>3. TryFrom(r, c, 1, 0) /\ 1 \in StillListed(c, 1)
    BY <1>1, <1>7, <2>1, <2>2 DEF StillListed
  <2>4. PICK k \in StillListed(c, 1) :
            /\ \A j \in StillListed(c, 1) : k <= j
            /\ at' = [at EXCEPT ![r] = k]
            /\ calls' = [calls EXCEPT ![r][c[k]] = IF @ = 0 THEN 1 ELSE 2]
            /\ pc' = [pc EXCEPT ![r] = "calling"]
    BY <2>3 DEF TryFrom
  <2>5. k = 1
    <3>1. k \in 1..Len(c) /\ k <= 1
      BY <2>3, <2>4 DEF StillListed
    <3> QED  BY <1>3, <3>1
  <2>6. pc'[r] = "calling" /\ at'[r] = 1
          /\ \A q \in Request \ {r} : calls'[q] = calls[q] /\ pc'[q] = pc[q]
    BY <1>0, <2>4, <2>5 DEF TypeOK
  <2>7. \A p \in Provider : calls'[r][p] = IF p = c[1] THEN 1 ELSE 0
    BY <1>0, <1>5, <2>1, <2>4, <2>5 DEF TypeOK
  <2>8. called(r)' = {c[1]}
    BY <2>1, <2>7 DEF called
  <2> QED  BY <1>3, <1>4, <1>7, <2>6, <2>8
<1> QED  BY <1>6, <1>7

\* No call is ever forgotten, and only Receive resolves.
LEMMA CallsKept ==
    ASSUME IInv, [Next]_vars, NEW r \in Request, ~Receive(r)
    PROVE  /\ cands'[r] = cands[r] /\ chosen'[r] = chosen[r]
           /\ called(r) \subseteq called(r)'
           /\ called(r)' # {} => called(r) # {}
           /\ pc[r] = "new" => pc'[r] # "calling"
<1>0. TypeOK /\ LoopInv
  BY DEF IInv
<1>1. ASSUME NEW q \in Request, Receive(q)
      PROVE  UNCHANGED <<cands[r], chosen[r], calls[r], pc[r]>>
  BY <1>1, ReceiveCallsHead
<1>2. ASSUME NEW q \in Request,
             Reject(q) \/ ResolveRaises(q) \/ UpstreamOk(q) \/ UpstreamRaise(q)
      PROVE  /\ UNCHANGED <<cands, chosen, calls>>
             /\ pc[r] = "new" => pc'[r] # "calling"
  BY <1>0, <1>2 DEF Reject, ResolveRaises, UpstreamOk, UpstreamRaise, Answer, TypeOK
<1>3. ASSUME NEW q \in Request, UpstreamFail(q)
      PROVE  /\ UNCHANGED <<cands, chosen>> /\ called(r) \subseteq called(r)'
             /\ called(r)' # {} => called(r) # {}
             /\ pc[r] = "new" => pc'[r] # "calling"
  <2>1. pc[q] = "calling" /\ UNCHANGED <<cands, chosen>>
    BY <1>3 DEF UpstreamFail
  <2>2. PICK st \in ErrorStatus : TryFrom(q, cands[q], at[q] + 1, st)
    BY <1>3 DEF UpstreamFail
  <2>3. CASE q # r
    <3>1. pc'[r] = pc[r] /\ calls'[r] = calls[r]
      BY <1>0, <2>2, <2>3, TryFromFrame
    <3> QED  BY <2>1, <3>1 DEF called
  <2>4. CASE q = r
    <3>1. called(r) # {}
      BY <1>0, <2>1, <2>4 DEF LoopInv, LoopOK
    <3>2. \A p \in Provider : calls[r][p] > 0 => calls'[r][p] > 0
      <4>1. calls[r] \in [Provider -> 0..2]
        BY <1>0 DEF TypeOK
      <4>2. UNCHANGED calls \/ \E p \in DOMAIN providers :
                                  calls' = [calls EXCEPT ![r][p] = IF @ = 0 THEN 1 ELSE 2]
        BY <2>2, <2>4 DEF TryFrom, StillListed
      <4>3. calls \in [Request -> [Provider -> 0..2]]
        BY <1>0 DEF TypeOK
      <4>4. ASSUME NEW p, calls' = [calls EXCEPT ![r][p] = IF @ = 0 THEN 1 ELSE 2],
                   NEW o \in Provider, calls[r][o] > 0
            PROVE  calls'[r][o] > 0
        <5>1. calls'[r] = [calls[r] EXCEPT ![p] = IF @ = 0 THEN 1 ELSE 2]
          BY <4>3, <4>4
        <5> QED  BY <4>1, <4>4, <5>1
      <4> QED  BY <4>2, <4>4
    <3> QED  BY <2>1, <2>4, <3>1, <3>2 DEF called
  <2> QED  BY <2>3, <2>4
<1>4. CASE Admin \/ UNCHANGED vars
  <2>1. UNCHANGED request
    BY <1>4 DEF Admin, create_provider, update_provider, delete_provider, post_override,
       set_routing_config, request, vars
  <2> QED  BY <2>1 DEF request, called
<1>5. CASE Background
  <2>1. UNCHANGED <<cands, chosen, calls>> /\ (pc[r] = "new" => pc'[r] # "calling")
    BY <1>5 DEF Background, set_healthy, set_credit_state, Restart, request
  <2> QED  BY <2>1 DEF called
<1> QED  BY <1>1, <1>2, <1>3, <1>4, <1>5 DEF Next, Upstream, called

\* The order operators give the providers decides who is called first: one that is fit at
\* that moment and that no other fit one precedes.
THEOREM BestFirst ==
    Spec => [][\A r \in Request : pc[r] = "new" /\ pc'[r] = "calling" =>
                 LET first == cands'[r][at'[r]]
                 IN  first \in fitFor(r) /\ \A p \in fitFor(r) : rank[first] <= rank[p]]_vars
<1> DEFINE Best(r) == pc[r] = "new" /\ pc'[r] = "calling" =>
                        LET first == cands'[r][at'[r]]
                        IN  first \in fitFor(r) /\ \A p \in fitFor(r) : rank[first] <= rank[p]
<1>1. ASSUME IInv, [Next]_vars, NEW r \in Request PROVE Best(r)
  <2>1. CASE Receive(r)
    <3>1. PICK c \in Listings(fitFor(r), rank) :
              /\ c \in Seq(Provider) /\ cands'[r] = c
              /\ c = <<>> => pc'[r] = "answered"
              /\ c # <<>> => at'[r] = 1
      BY <1>1, <2>1, ReceiveCallsHead
    <3> SUFFICES ASSUME c # <<>>
                 PROVE  c[1] \in fitFor(r) /\ \A p \in fitFor(r) : rank[c[1]] <= rank[p]
      BY <3>1
    <3>2. \A p \in fitFor(r) : rank[p] \in Int
      <4>1. TypeOK
        BY <1>1 DEF IInv
      <4>2. fitFor(r) \subseteq Routed(providers, priority)
        BY DEF fitFor, Available, filter_available, filter_by_capability, providers_with_model
      <4>3. \A p \in DOMAIN providers : providers[p].priority \in Int
        BY <4>1, RowAssumption DEF TypeOK, IsTable
      <4>4. \A p \in DOMAIN priority : priority[p] \in Int
        BY <4>1 DEF TypeOK, IsTable
      <4> QED  BY <4>2, <4>3, <4>4 DEF Routed, rank, SortKey
    <3> HIDE DEF fitFor, rank
    <3>3. /\ DOMAIN c = 1..Cardinality(fitFor(r)) /\ c \in [DOMAIN c -> fitFor(r)]
          /\ \A p \in fitFor(r) : \E i \in DOMAIN c : c[i] = p
          /\ \A i, j \in DOMAIN c : i < j => rank[c[i]] <= rank[c[j]]
      BY <3>1 DEF Listings, Bijection, Injection, Surjection
    <3>4. DOMAIN c = 1..Len(c) /\ Len(c) \in Nat /\ 1 \in DOMAIN c
      BY <3>1
    <3>5. ASSUME NEW p \in fitFor(r) PROVE rank[c[1]] <= rank[p]
      <4>1. PICK i \in DOMAIN c : c[i] = p
        BY <3>3
      <4>2. CASE i = 1
        BY <3>2, <4>1, <4>2
      <4>3. CASE i # 1
        <5>1. 1 < i
          BY <3>4, <4>3
        <5>2. rank[c[1]] <= rank[c[i]]
          BY <3>3, <3>4, <4>1, <5>1
        <5> QED  BY <4>1, <5>2
      <4> QED  BY <4>2, <4>3
    <3> QED  BY <3>3, <3>4, <3>5
  <2>2. CASE ~Receive(r)
    BY <1>1, <2>2, CallsKept
  <2> QED  BY <2>1, <2>2
<1>2. IInv /\ [Next]_vars => [\A r \in Request : Best(r)]_vars
  BY <1>1
<1> QED  BY <1>2, Invariance, PTL DEF Spec

\* Whoever else is called for a request, the head of its list has been.
HeadCalled == \A r \in Request : called(r) # {} => cands[r][1] \in called(r)

\* Where no pin is in force for a request, the id resolve_candidates returns is the head.
HeadChosen == \A r \in Request : called(r) # {} => chosen[r] = cands[r][1]

Unpinned == \A r \in Request : get_session_id(Ask[r].sender) \notin DOMAIN override

LEMMA HeadCalledStep == IInv /\ HeadCalled /\ [Next]_vars => HeadCalled'
<1> SUFFICES ASSUME IInv, HeadCalled, [Next]_vars, NEW r \in Request, called(r)' # {}
             PROVE  cands'[r][1] \in called(r)'
  BY DEF HeadCalled, called
<1>1. CASE Receive(r)
  BY <1>1, ReceiveCallsHead
<1>2. CASE ~Receive(r)
  BY <1>2, CallsKept DEF HeadCalled
<1> QED  BY <1>1, <1>2

LEMMA HeadChosenStep == IInv /\ Unpinned /\ HeadChosen /\ [Next]_vars => HeadChosen'
<1> SUFFICES ASSUME IInv, Unpinned, HeadChosen, [Next]_vars, NEW r \in Request, called(r)' # {}
             PROVE  chosen'[r] = cands'[r][1]
  BY DEF HeadChosen, called
<1>1. CASE Receive(r)
  <2>1. pinOf(r) = None
    BY DEF Unpinned, pinOf
  <2>2. PICK c \in Seq(Provider) : /\ cands'[r] = c /\ chosen'[r] = Chosen(c, None)
                                   /\ c = <<>> => called(r)' = {}
    BY <1>1, <2>1, ReceiveCallsHead
  <2>3. None \notin Range(c)
    BY NoneAssumption DEF Range
  <2> QED  BY <2>2, <2>3 DEF Chosen
<1>2. CASE ~Receive(r)
  BY <1>2, CallsKept DEF HeadChosen
<1> QED  BY <1>1, <1>2

\* However long a request fails over, its first choice has had its turn.
THEOREM FirstHasItsTurn == Spec => []HeadCalled
<1>1. Init => HeadCalled
  BY DEF Init, HeadCalled, called
<1> QED  BY <1>1, HeadCalledStep, Invariance, PTL DEF Spec

\* What plan.md:146 says of the chosen id holds where nobody who sends a request has a pin:
\* the id is the head of the list.  The run that violates it pins one of the senders.
THEOREM ForcedUnpinned == Spec /\ []Unpinned => []OverrideForced
<1>1. Init => HeadCalled /\ HeadChosen
  BY DEF Init, HeadCalled, HeadChosen, called
<1>2. HeadCalled /\ HeadChosen => OverrideForced
  BY DEF HeadCalled, HeadChosen, OverrideForced
<1> QED  BY <1>1, <1>2, HeadCalledStep, HeadChosenStep, Invariance, PTL DEF Spec

-----------------------------------------------------------------------------
(* Proxy implements Failover.                                              *)

LEMMA PromiseInit == Init => Promise!Init
<1> SUFFICES ASSUME Init PROVE Promise!Init
  OBVIOUS
<1>1. DOMAIN providers \subseteq Provider
  BY DEF Init, Tables
<1>2. \A r \in Request : pc[r] = "new" /\ cands[r] = <<>> /\ at[r] = 0
  BY DEF Init
<1>3. phase = [r \in Request |-> "waiting"] /\ current = [r \in Request |-> None]
  BY <1>2 DEF phase, current, phaseOf
<1>4. left = [r \in Request |-> {}]
  BY <1>2 DEF left
<1> QED  BY <1>1, <1>3, <1>4 DEF Promise!Init

\* The functions of the mapping change at one request when the request does.
LEMMA MapsChangeAt ==
    ASSUME NEW r \in Request,
           \A q \in Request \ {r} : pc'[q] = pc[q] /\ cands'[q] = cands[q] /\ at'[q] = at[q]
                                   /\ reply'[q] = reply[q]
    PROVE  /\ phase' = [phase EXCEPT ![r] = phase'[r]]
           /\ current' = [current EXCEPT ![r] = current'[r]]
           /\ left' = [left EXCEPT ![r] = left'[r]]
<1>1. \A q \in Request \ {r} : phaseOf(q)' = phaseOf(q)
  BY DEF phaseOf
<1>2. phase' = [phase EXCEPT ![r] = phase'[r]]
  BY <1>1 DEF phase
<1>3. current' = [current EXCEPT ![r] = current'[r]]
  <2>1. DOMAIN current = Request /\ DOMAIN current' = Request
    BY DEF current
  <2>2. \A q \in Request \ {r} : current'[q] = current[q]
    BY <1>1 DEF current
  <2>3. current = [q \in Request |-> current[q]] /\ current' = [q \in Request |-> current'[q]]
    BY DEF current
  <2> QED  BY <2>1, <2>2, <2>3
<1>4. left' = [left EXCEPT ![r] = left'[r]]
  <2>1. DOMAIN left = Request /\ DOMAIN left' = Request
    BY DEF left
  <2>2. \A q \in Request \ {r} : left'[q] = left[q]
    BY DEF left
  <2>3. left = [q \in Request |-> left[q]] /\ left' = [q \in Request |-> left'[q]]
    BY DEF left
  <2> QED  BY <2>1, <2>2, <2>3
<1> QED  BY <1>2, <1>3, <1>4

\* The rest of the loop, from position i, is a call of one of the candidates from there on
\* or a refusal.
LEMMA TryFromCallsNext ==
    ASSUME TypeOK, TypeOK', NEW r \in Request, NEW c \in Seq(Provider), NEW i \in Nat \ {0},
           NEW err, TryFrom(r, c, i, err), cands'[r] = c,
           \A q \in Request \ {r} : cands'[q] = cands[q], admits(Ask[r]),
           \A j, k \in 1..Len(c) : c[j] = c[k] => j = k
    PROVE  Promise!CallNext(r, {c[k] : k \in i..Len(c)})
<1> DEFINE ps == {c[k] : k \in i..Len(c)}
<1>0. Len(c) \in Nat
  OBVIOUS
<1>1. /\ phase' = [phase EXCEPT ![r] = phase'[r]]
      /\ current' = [current EXCEPT ![r] = current'[r]]
      /\ left' = [left EXCEPT ![r] = left'[r]]
  BY TryFromFrame, MapsChangeAt
<1>2. CASE StillListed(c, i) # {}
  <2>1. PICK k \in StillListed(c, i) :
            /\ \A j \in StillListed(c, i) : k <= j
            /\ at' = [at EXCEPT ![r] = k]
            /\ pc' = [pc EXCEPT ![r] = "calling"]
    BY <1>2 DEF TryFrom
  <2>2. k \in i..Len(c) /\ c[k] \in DOMAIN providers /\ at'[r] = k /\ pc'[r] = "calling"
    BY <2>1 DEF StillListed, TypeOK
  <2> DEFINE gone == {c[j] : j \in i..(k - 1)}
  <2>3. gone \in SUBSET (ps \ DOMAIN providers)
    <3>1. \A j \in i..(k - 1) : j \in i..Len(c) /\ ~(k <= j)
      BY <1>0, <2>2
    <3> QED  BY <2>1, <3>1 DEF StillListed
  <2>4. phase'[r] = "trying" /\ current'[r] = c[k]
    BY <2>2 DEF phase, current, phaseOf
  <2>5. left'[r] = {c[j] : j \in (k + 1)..Len(c)}
    BY <2>2 DEF left
  <2>6. {c[j] : j \in (k + 1)..Len(c)} = ps \ (gone \cup {c[k]})
    <3>1. \A j \in (k + 1)..Len(c) : c[j] \in ps /\ c[j] \notin gone /\ c[j] # c[k]
      BY <1>0, <2>2
    <3>2. \A j \in i..Len(c) : j \in i..(k - 1) \/ j = k \/ j \in (k + 1)..Len(c)
      BY <1>0, <2>2
    <3> QED  BY <3>1, <3>2
  <2>7. c[k] \in ps \cap DOMAIN providers
    BY <2>2
  <2> HIDE DEF ps, gone
  <2>8. /\ phase' = [phase EXCEPT ![r] = "trying"]
        /\ current' = [current EXCEPT ![r] = c[k]]
        /\ left' = [left EXCEPT ![r] = ps \ (gone \cup {c[k]})]
    BY <1>1, <2>4, <2>5, <2>6
  <2>9. \E p \in ps \cap DOMAIN providers, g \in SUBSET (ps \ DOMAIN providers) :
           /\ phase' = [phase EXCEPT ![r] = "trying"]
           /\ current' = [current EXCEPT ![r] = p]
           /\ left' = [left EXCEPT ![r] = ps \ (g \cup {p})]
    BY <2>3, <2>7, <2>8
  <2> QED  BY <2>9 DEF Promise!CallNext, ps
<1>3. CASE StillListed(c, i) = {}
  <2>1. /\ at'[r] = Len(c) + 1 /\ pc'[r] = "answered"
        /\ reply'[r].code \in {"failover_exhausted", "upstream_error"}
    BY <1>0, <1>3 DEF TryFrom, Answer, TypeOK
  <2>2. phase'[r] = "refused" /\ current'[r] = None
    BY <2>1 DEF phase, current, phaseOf
  <2>3. left'[r] = {}
    BY <1>0, <2>1 DEF left
  <2>4. ps \cap DOMAIN providers = {}
    BY <1>3 DEF StillListed
  <2> HIDE DEF ps
  <2> QED  BY <1>1, <2>2, <2>3, <2>4 DEF Promise!CallNext, ps
<1> QED  BY <1>2, <1>3

\* The mapping looks at the request's own state only.
LEMMA MapsUnchanged ==
    ASSUME pc' = pc, cands' = cands, at' = at, reply' = reply
    PROVE  phase' = phase /\ current' = current /\ left' = left
BY DEF phase, current, left, phaseOf

LEMMA RejectRejects == ASSUME IInv, NEW r \in Request, Reject(r) PROVE Promise!Reject(r)
<1> USE DEF db, memory
<1>0. TypeOK /\ LoopOK(r) /\ pc[r] = "new" /\ ~admits(Ask[r])
  BY DEF IInv, LoopInv, Reject
<1>1. /\ cands' = cands /\ at' = at /\ UNCHANGED (DOMAIN providers)
      /\ pc'[r] = "answered" /\ reply'[r].code # "ok"
      /\ \A q \in Request \ {r} : pc'[q] = pc[q] /\ reply'[q] = reply[q]
  BY <1>0 DEF Reject, rejection, Answer, TypeOK
<1>2. phase[r] = "waiting" /\ phase'[r] = "rejected"
      /\ current'[r] = current[r] /\ left'[r] = left[r]
  BY <1>0, <1>1 DEF phase, current, left, phaseOf
<1>3. /\ phase' = [phase EXCEPT ![r] = "rejected"]
      /\ current' = [current EXCEPT ![r] = current[r]]
      /\ left' = [left EXCEPT ![r] = left[r]]
  BY <1>1, <1>2, MapsChangeAt
<1>4. current' = current /\ left' = left
  BY <1>3 DEF current, left
<1> QED  BY <1>1, <1>2, <1>3, <1>4 DEF Promise!Reject

LEMMA ReceiveArrives == ASSUME IInv, NEW r \in Request, Receive(r) PROVE Promise!Arrive(r)
<1> USE DEF db, memory
<1> DEFINE ps == Available(providers, priority, healthy, below,
                           upstream_model_part(canonical(r)), Ask[r].needs)
           key == SortKey(providers, priority)
           s == get_session_id(Ask[r].sender)
           id(c) == Chosen(c, IF s \in DOMAIN override THEN override[s] ELSE None)
<1>0. TypeOK /\ TypeOK' /\ LoopOK(r) /\ pc[r] = "new" /\ admits(Ask[r])
  BY ReceiveStep DEF IInv, LoopInv, Receive
<1>1. PICK c \in Listings(ps, key) :
          /\ cands' = [cands EXCEPT ![r] = c]
          /\ IF id(c) = None \/ c = <<>>
             THEN /\ Answer(r, "no_provider", 503, None)
                  /\ UNCHANGED <<at, calls>>
             ELSE TryFrom(r, c, 1, 0)
  BY DEF Receive
<1>2. ps \subseteq DOMAIN providers /\ ps \subseteq Provider
  BY <1>0, AvailableListed DEF TypeOK, IsTable
<1> HIDE DEF ps, key, id
<1>3. c \in Seq(Provider) /\ c \in Seq(ps) /\ \A i, j \in 1..Len(c) : c[i] = c[j] => i = j
  BY <1>1, <1>2, ListingIsSequence
<1>4. cands'[r] = c /\ \A q \in Request \ {r} : cands'[q] = cands[q]
  BY <1>0, <1>1 DEF TypeOK
<1>5. phase[r] = "waiting" /\ UNCHANGED (DOMAIN providers)
  BY <1>0 DEF phase, phaseOf, Receive
<1>6. (id(c) = None \/ c = <<>>) => c = <<>>
  <2>1. \A p \in Range(c) : p # None
    BY <1>3, NoneAssumption DEF Range
  <2>2. c # <<>> => c[1] \in Range(c)
    BY <1>3 DEF Range
  <2> QED  BY <2>1, <2>2 DEF Chosen, id
<1>7. \E fit \in SUBSET DOMAIN providers : Promise!CallNext(r, fit)
  <2>1. CASE c = <<>>
    <3>1. /\ pc' = [pc EXCEPT ![r] = "answered"]
          /\ reply' = [reply EXCEPT ![r] = [code |-> "no_provider", status |-> 503,
                                            by |-> None]]
          /\ UNCHANGED at
      BY <1>1, <2>1 DEF Answer
    <3>2. pc'[r] = "answered" /\ reply'[r].code = "no_provider" /\ cands'[r] = <<>>
          /\ at'[r] = 0
      BY <1>0, <1>4, <2>1, <3>1 DEF TypeOK, LoopOK
    <3>3. phase'[r] = "refused" /\ current'[r] = None /\ left'[r] = {}
      BY <1>0, <3>2 DEF phase, current, left, phaseOf
    <3>4. \A q \in Request \ {r} : pc'[q] = pc[q] /\ at'[q] = at[q] /\ reply'[q] = reply[q]
      BY <1>0, <3>1 DEF TypeOK
    <3>5. /\ phase' = [phase EXCEPT ![r] = "refused"]
          /\ current' = [current EXCEPT ![r] = None]
          /\ left' = [left EXCEPT ![r] = {}]
      BY <1>4, <3>3, <3>4, MapsChangeAt
    <3>6. Promise!CallNext(r, {})
      BY <3>5 DEF Promise!CallNext
    <3> QED  BY <3>6
  <2>2. CASE c # <<>>
    <3>1. TryFrom(r, c, 1, 0)
      BY <1>1, <1>6, <2>2
    <3>2. 1 \in Nat \ {0}
      OBVIOUS
    <3>3. Promise!CallNext(r, {c[k] : k \in 1..Len(c)})
      BY <1>0, <1>3, <1>4, <3>1, <3>2, TryFromCallsNext
    <3>4. {c[k] : k \in 1..Len(c)} \subseteq DOMAIN providers
      BY <1>2, <1>3
    <3> QED  BY <3>3, <3>4
  <2> QED  BY <2>1, <2>2
<1> QED  BY <1>5, <1>7 DEF Promise!Arrive

LEMMA UpstreamFailFails == ASSUME IInv, NEW r \in Request, UpstreamFail(r) PROVE Promise!Fail(r)
<1> USE DEF db
<1>0. TypeOK /\ TypeOK' /\ LoopOK(r) /\ pc[r] = "calling" /\ admits(Ask[r])
  BY UpstreamFailStep, CallingAdmitted DEF IInv, LoopInv, UpstreamFail
<1>1. PICK st \in ErrorStatus : TryFrom(r, cands[r], at[r] + 1, st)
  BY DEF UpstreamFail
<1>2. cands' = cands /\ UNCHANGED (DOMAIN providers)
  BY DEF UpstreamFail
<1>3. /\ cands[r] \in Seq(Provider) /\ at[r] + 1 \in Nat \ {0}
      /\ \A j, k \in 1..Len(cands[r]) : cands[r][j] = cands[r][k] => j = k
  <2>1. cands[r] \in Seq(Provider) /\ at[r] + 1 \in Nat \ {0}
    BY <1>0 DEF TypeOK
  <2>2. \A j, k \in 1..Len(cands[r]) : cands[r][j] = cands[r][k] => j = k
    BY <1>0 DEF LoopOK
  <2> QED  BY <2>1, <2>2
<1>4. Promise!CallNext(r, {cands[r][k] : k \in (at[r] + 1)..Len(cands[r])})
  <2>1. cands'[r] = cands[r] /\ \A q \in Request \ {r} : cands'[q] = cands[q]
    BY <1>2
  <2> QED  BY <1>0, <1>1, <1>3, <2>1, TryFromCallsNext
<1>5. left[r] = {cands[r][k] : k \in (at[r] + 1)..Len(cands[r])} /\ phase[r] = "trying"
  BY <1>0 DEF left, phase, phaseOf
<1> QED  BY <1>2, <1>4, <1>5 DEF Promise!Fail

LEMMA UpstreamOkServes == ASSUME IInv, NEW r \in Request, UpstreamOk(r) PROVE Promise!Serve(r)
<1> USE DEF db, memory
<1>0. TypeOK /\ pc[r] = "calling"
  BY DEF IInv, UpstreamOk
<1>1. /\ cands' = cands /\ at' = at /\ UNCHANGED (DOMAIN providers)
      /\ pc'[r] = "answered" /\ reply'[r].code = "ok"
      /\ \A q \in Request \ {r} : pc'[q] = pc[q] /\ reply'[q] = reply[q]
  BY <1>0 DEF UpstreamOk, Answer, TypeOK
<1>2. phase[r] = "trying" /\ phase'[r] = "served"
      /\ current'[r] = current[r] /\ left'[r] = left[r]
  BY <1>0, <1>1 DEF phase, current, left, phaseOf
<1>3. /\ phase' = [phase EXCEPT ![r] = "served"]
      /\ current' = [current EXCEPT ![r] = current[r]]
      /\ left' = [left EXCEPT ![r] = left[r]]
  BY <1>1, <1>2, MapsChangeAt
<1>4. current' = current /\ left' = left
  BY <1>3 DEF current, left
<1> QED  BY <1>1, <1>2, <1>3, <1>4 DEF Promise!Serve

LEMMA UpstreamRaiseBreaks == ASSUME IInv, NEW r \in Request, UpstreamRaise(r) PROVE Promise!Break(r)
<1> USE DEF db, memory
<1>0. TypeOK /\ pc[r] = "calling" /\ admits(Ask[r])
  BY CallingAdmitted DEF IInv, LoopInv, UpstreamRaise
<1>1. /\ cands' = cands /\ at' = at /\ UNCHANGED (DOMAIN providers)
      /\ pc'[r] = "answered" /\ reply'[r].code = "internal_error"
      /\ \A q \in Request \ {r} : pc'[q] = pc[q] /\ reply'[q] = reply[q]
  BY <1>0 DEF UpstreamRaise, Answer, TypeOK
<1>2. phase[r] = "trying" /\ phase'[r] = "broken" /\ current'[r] = None /\ left'[r] = left[r]
  BY <1>0, <1>1 DEF phase, current, left, phaseOf
<1>3. /\ phase' = [phase EXCEPT ![r] = "broken"]
      /\ current' = [current EXCEPT ![r] = None]
      /\ left' = [left EXCEPT ![r] = left[r]]
  BY <1>1, <1>2, MapsChangeAt
<1>4. left' = left
  BY <1>3 DEF left
<1> QED  BY <1>1, <1>2, <1>3, <1>4 DEF Promise!Break

LEMMA ResolveRaisesBreaks ==
    ASSUME IInv, NEW r \in Request, ResolveRaises(r) PROVE Promise!Break(r)
<1> USE DEF db, memory
<1>0. TypeOK /\ pc[r] = "new" /\ admits(Ask[r])
  BY DEF IInv, ResolveRaises
<1>1. /\ cands' = cands /\ at' = at /\ UNCHANGED (DOMAIN providers)
      /\ pc'[r] = "answered" /\ reply'[r].code = "internal_error"
      /\ \A q \in Request \ {r} : pc'[q] = pc[q] /\ reply'[q] = reply[q]
  BY <1>0 DEF ResolveRaises, Answer, TypeOK
<1>2. phase[r] = "waiting" /\ phase'[r] = "broken" /\ current'[r] = None /\ left'[r] = left[r]
  BY <1>0, <1>1 DEF phase, current, left, phaseOf
<1>3. /\ phase' = [phase EXCEPT ![r] = "broken"]
      /\ current' = [current EXCEPT ![r] = None]
      /\ left' = [left EXCEPT ![r] = left[r]]
  BY <1>1, <1>2, MapsChangeAt
<1>4. left' = left
  BY <1>3 DEF left
<1> QED  BY <1>1, <1>2, <1>3, <1>4 DEF Promise!Break

LEMMA RestartDies == ASSUME IInv, Restart PROVE Promise!Die
<1>1. \A r \in Request : phaseOf(r)' = (IF phaseOf(r) = "trying" THEN "lost" ELSE phaseOf(r))
  BY DEF Restart, phaseOf, IInv, TypeOK
<1>2. phase' = [r \in Request |-> IF phase[r] = "trying" THEN "lost" ELSE phase[r]]
  BY <1>1 DEF phase
<1>3. current' = current
  <2>1. \A r \in Request : current'[r] = current[r]
    BY <1>1 DEF current, Restart
  <2>2. current = [r \in Request |-> current[r]] /\ current' = [r \in Request |-> current'[r]]
    BY DEF current
  <2> QED  BY <2>1, <2>2
<1>4. left' = left
  BY DEF left, Restart
<1>5. UNCHANGED (DOMAIN providers)
  BY DEF Restart, db
<1> QED  BY <1>2, <1>3, <1>4, <1>5 DEF Promise!Die

LEMMA PromiseStep == IInv /\ [Next]_vars => [Promise!Next]_(Promise!vars)
<1> SUFFICES ASSUME IInv, [Next]_vars PROVE [Promise!Next]_(Promise!vars)
  OBVIOUS
<1>1. ASSUME NEW r \in Request, Reject(r) \/ ResolveRaises(r) \/ Receive(r) PROVE Promise!Next
  BY <1>1, RejectRejects, ResolveRaisesBreaks, ReceiveArrives DEF Promise!Next
<1>2. ASSUME NEW r \in Request, Upstream(r) PROVE Promise!Next
  BY <1>2, UpstreamOkServes, UpstreamFailFails, UpstreamRaiseBreaks DEF Upstream, Promise!Next
<1>3. CASE Admin
  <2>1. pc' = pc /\ cands' = cands /\ at' = at /\ reply' = reply
    BY <1>3 DEF Admin, create_provider, update_provider, delete_provider, post_override,
       set_routing_config, request
  <2>2. (DOMAIN providers)' \in SUBSET Provider
    BY <1>3, AdminStep DEF IInv, TypeOK, IsTable
  <2> QED  BY <2>1, <2>2, MapsUnchanged DEF Promise!Next, Promise!Administer
<1>4. CASE Background
  <2>1. CASE Restart
    BY <2>1, RestartDies DEF Promise!Next
  <2>2. CASE ~Restart
    <3>1. pc' = pc /\ cands' = cands /\ at' = at /\ reply' = reply /\ providers' = providers
      BY <1>4, <2>2 DEF Background, set_healthy, set_credit_state, db, request
    <3> QED  BY <3>1, MapsUnchanged DEF Promise!vars
  <2> QED  BY <2>1, <2>2
<1>5. CASE UNCHANGED vars
  BY <1>5, MapsUnchanged DEF vars, Promise!vars
<1> QED  BY <1>1, <1>2, <1>3, <1>4, <1>5 DEF Next

\* Every behaviour of the request path, seen through the mapping, is one of Failover: each
\* fit provider is called at most once, one at a time, and a refusal means nobody is left.
THEOREM ProxyKeepsPromise == Spec => KeepsPromise
BY PromiseInit, PromiseStep, Invariance, PTL DEF Spec, KeepsPromise, Promise!Spec
=============================================================================
