-------------------------- MODULE HealthLoopProofs --------------------------
(* Proofs about HealthLoop, for any providers, targets and responses, whatever raises. *)
EXTENDS HealthLoop, TableProofs, FiniteSetTheorems

\* What makes NotSlandered inductive: whoever a probe could now find bad is on record, and
\* so is the provider a bad answer is on its way for.
Recorded ==
    /\ bad(target, todo, up) \subseteq blamed
    /\ wire # <<>> /\ ~_check_health(wire[1]) => Head(todo).id \in blamed

IInv == TypeOK /\ NotSlandered /\ Recorded

-----------------------------------------------------------------------------
(* Lemmas.                                                                 *)

\* A shorter snapshot puts no more providers at risk.
LEMMA BadTail ==
    ASSUME NEW targets, NEW answers, NEW T, NEW s \in Seq(T), s # <<>>
    PROVE  /\ bad(targets, Tail(s), answers) \subseteq bad(targets, s, answers)
           /\ bad(targets, <<>>, answers) \subseteq bad(targets, s, answers)
<1>1. \A i \in DOMAIN Tail(s) : i + 1 \in DOMAIN s /\ Tail(s)[i] = s[i + 1]
  OBVIOUS
<1>2. DOMAIN <<>> = {}
  OBVIOUS
<1> QED  BY <1>1, <1>2 DEF bad

\* Whatever the for statement goes on with, it leaves a well-formed round, or none.
LEMMA ContinueType ==
    ASSUME NEW rest \in Seq([id : Provider, target : Target]), Continue(rest)
    PROVE  /\ todo' \in Seq([id : Provider, target : Target])
           /\ loop' \in {"sleeping", "probing", "dead"}
           /\ loop' = "probing" <=> todo' # <<>>
           /\ todo' \in {rest, <<>>}
<1> DEFINE fatal == rest # <<>> /\ Head(rest).target \in Malformed \ Raises
           poisoned == rest # <<>> /\ Head(rest).target \in Raises
<1>1. CASE fatal
  BY <1>1 DEF Continue
<1>2. CASE ~fatal /\ poisoned
  BY <1>2 DEF Continue
<1>3. CASE ~fatal /\ ~poisoned
  BY <1>3 DEF Continue
<1> QED  BY <1>1, <1>2, <1>3

LEMMA InitType == Init => TypeOK
<1> SUFFICES ASSUME Init PROVE TypeOK
  OBVIOUS
<1>1. rows \in Seq(Provider) /\ IsInjective(rows)
  <2>1. Cardinality(Provider) \in Nat
    BY FiniteAssumption, FS_CardinalityType
  <2>2. PICK n \in 0..Cardinality(Provider) : rows \in Injection(1..n, Provider)
    BY DEF Init
  <2> QED  BY <2>1, <2>2 DEF Injection
<1>2. bad(target, <<>>, up) \subseteq Provider
  BY DEF bad
<1>3. <<>> \in Seq([id : Provider, target : Target]) /\ wire = <<>>
  BY DEF Init
<1> QED  BY <1>1, <1>2, <1>3 DEF Init, TypeOK

-----------------------------------------------------------------------------
(* The invariant, action by action.                                        *)

LEMMA IInvInit == Init => IInv
BY InitType DEF Init, IInv, NotSlandered, Recorded

\* What is left of a round after its first probe, or after none, has its type.
LEMMA TodoType ==
    ASSUME TypeOK, todo # <<>>
    PROVE  /\ Head(todo) \in [id : Provider, target : Target]
           /\ Tail(todo) \in Seq([id : Provider, target : Target])
           /\ todo[1] = Head(todo) /\ 1 \in DOMAIN todo
<1> DEFINE Entry == [id : Provider, target : Target]
<1>1. todo \in Seq(Entry)
  BY DEF TypeOK
<1> HIDE DEF Entry
<1>2. Head(todo) \in Entry /\ Tail(todo) \in Seq(Entry) /\ todo[1] = Head(todo) /\ 1 \in DOMAIN todo
  BY <1>1
<1> QED  BY <1>2 DEF Entry

\* The snapshot holds each row's id with its target: it endangers nobody whom the table
\* does not.
LEMMA BeginRoundStep == ASSUME IInv, BeginRound PROVE IInv'
<1> DEFINE snapshot == [i \in DOMAIN rows |-> [id |-> rows[i], target |-> target[rows[i]]]]
           Entry == [id : Provider, target : Target]
<1>0. TypeOK /\ wire = <<>> /\ UNCHANGED <<rows, target, up, healthy, wire, blamed>>
  BY DEF IInv, BeginRound, outside, TypeOK
<1>1. \A i \in DOMAIN rows : rows[i] \in Provider /\ target[rows[i]] \in Target
  BY <1>0 DEF TypeOK
<1>2. DOMAIN rows = 1..Len(rows) /\ Len(rows) \in Nat
  BY <1>0 DEF TypeOK
<1>3. snapshot \in [1..Len(rows) -> Entry]
  BY <1>1, <1>2
<1>4. snapshot \in Seq(Entry)
  <2> HIDE DEF snapshot, Entry
  <2> QED  BY <1>2, <1>3
<1>5. bad(target, snapshot, up) \subseteq bad(target, <<>>, up)
  BY <1>1, <1>3 DEF bad
<1>6. Continue(snapshot)
  BY DEF BeginRound
<1> HIDE DEF snapshot
<1>7. /\ todo' \in Seq(Entry) /\ loop' \in {"sleeping", "probing", "dead"}
      /\ loop' = "probing" <=> todo' # <<>>
      /\ todo' \in {snapshot, <<>>}
  BY <1>4, <1>6, ContinueType
<1>8. bad(target, <<>>, up) \subseteq bad(target, todo, up)
  BY DEF bad
<1>9. bad(target, todo, up)' \subseteq blamed
  BY <1>0, <1>5, <1>7, <1>8 DEF bad, IInv, Recorded
<1> QED  BY <1>0, <1>7, <1>9 DEF IInv, TypeOK, NotSlandered, Recorded

LEMMA SnapshotFailsStep == ASSUME IInv, SnapshotFails PROVE IInv'
<1>1. todo = <<>> /\ wire = <<>>
  BY DEF IInv, TypeOK, SnapshotFails
<1> QED  BY <1>1 DEF IInv, TypeOK, NotSlandered, Recorded, SnapshotFails, outside, bad, _check_health

\* The answer is that of the target of the snapshot's first entry: if it is bad, its
\* provider is among those endangered.
LEMMA EndpointAnswersStep == ASSUME IInv, EndpointAnswers PROVE IInv'
<1>0. TypeOK /\ todo # <<>> /\ UNCHANGED <<rows, target, up, healthy, loop, todo, blamed>>
  BY DEF IInv, EndpointAnswers, outside, TypeOK
<1>1. Head(todo).target \in Target /\ Head(todo).id \in Provider
  BY <1>0, TodoType
<1>2. up[Head(todo).target] \in Response /\ wire' = <<up[Head(todo).target]>>
  BY <1>0, <1>1 DEF TypeOK, EndpointAnswers
<1>3. ASSUME ~_check_health(wire'[1]) PROVE Head(todo).id \in blamed
  <2>1. wire'[1] = up[todo[1].target] /\ todo[1] = Head(todo) /\ 1 \in DOMAIN todo
    BY <1>0, <1>2, TodoType
  <2>2. Head(todo).id \in bad(target, todo, up)
    BY <1>1, <1>3, <2>1 DEF bad
  <2> QED  BY <2>2 DEF IInv, Recorded
<1>4. bad(target, todo, up)' \subseteq blamed
  BY <1>0 DEF IInv, Recorded, bad, _check_health
<1>5. TypeOK'
  BY <1>0, <1>2 DEF TypeOK, EndpointAnswers
<1> QED  BY <1>0, <1>3, <1>4, <1>5 DEF IInv, NotSlandered, Recorded

\* The verdict written is that on the answer under way, and a bad one is on record.
LEMMA ProbeStep == ASSUME IInv, run_health_check PROVE IInv'
<1>0. TypeOK /\ todo # <<>> /\ wire # <<>> /\ wire' = <<>>
        /\ UNCHANGED <<rows, target, up, blamed>>
  BY DEF IInv, run_health_check, outside, TypeOK
<1>1. Head(todo).id \in Provider /\ Tail(todo) \in Seq([id : Provider, target : Target])
  BY <1>0, TodoType
<1>2. /\ todo' \in Seq([id : Provider, target : Target])
      /\ loop' \in {"sleeping", "probing", "dead"}
      /\ loop' = "probing" <=> todo' # <<>>
      /\ todo' \in {Tail(todo), <<>>}
  BY <1>1, ContinueType DEF run_health_check
<1>3. bad(target, todo', up) \subseteq blamed
  <2>1. todo \in Seq([id : Provider, target : Target]) /\ todo # <<>>
    BY <1>0 DEF TypeOK
  <2>2. bad(target, todo', up) \subseteq bad(target, todo, up)
    BY <1>2, <2>1, BadTail
  <2> QED  BY <2>2 DEF IInv, Recorded
<1>4. healthy' = [healthy EXCEPT ![Head(todo).id] = _check_health(wire[1])]
  BY DEF run_health_check
<1>5. _check_health(wire[1]) \in BOOLEAN
  BY DEF _check_health
<1>6. healthy' \in [Provider -> BOOLEAN]
  BY <1>0, <1>4, <1>5 DEF TypeOK
<1>7. NotSlandered'
  <2> SUFFICES ASSUME NEW p \in Provider, ~healthy'[p] PROVE p \in blamed
    BY <1>0 DEF NotSlandered
  <2>1. CASE p = Head(todo).id
    BY <1>0, <1>4, <2>1 DEF IInv, TypeOK, Recorded
  <2>2. CASE p # Head(todo).id
    BY <1>0, <1>4, <2>2 DEF IInv, TypeOK, NotSlandered
  <2> QED  BY <2>1, <2>2
<1>8. bad(target, todo, up)' \subseteq blamed'
  BY <1>0, <1>3 DEF bad, _check_health
<1> QED  BY <1>0, <1>2, <1>6, <1>7, <1>8 DEF IInv, TypeOK, Recorded

\* An outside event that leaves the flags and the round alone, and records whom it
\* endangers.
LEMMA RecordingStep ==
    ASSUME IInv, UNCHANGED <<healthy, loop, todo, wire>>,
           rows' \in Seq(Provider), IsInjective(rows'),
           target' \in [Provider -> Target], up' \in [Target -> Response],
           blamed' = blamed \cup bad(target', todo, up')
    PROVE  IInv'
<1>1. bad(target', todo, up') \subseteq Provider
  BY DEF bad
<1>2. bad(target, todo, up)' = bad(target', todo, up')
  BY DEF bad, _check_health
<1> QED  BY <1>1, <1>2 DEF IInv, TypeOK, NotSlandered, Recorded, _check_health

LEMMA OutsideStep == ASSUME IInv, Outside PROVE IInv'
<1>0. TypeOK
  BY DEF IInv
<1>1. ASSUME NEW p \in Provider, mark_provider_unhealthy(p) PROVE IInv'
  <2>1. bad(target, todo, up)' \subseteq blamed'
    BY <1>1 DEF mark_provider_unhealthy, outside, bad, _check_health, IInv, Recorded
  <2>2. healthy' \in [Provider -> BOOLEAN] /\ \A q \in Provider : healthy'[q] = (q # p /\ healthy[q])
    BY <1>0, <1>1 DEF mark_provider_unhealthy, TypeOK
  <2> QED  BY <1>1, <2>1, <2>2 DEF mark_provider_unhealthy, outside, IInv, TypeOK, NotSlandered, Recorded, _check_health
<1>2. ASSUME NEW p \in Provider, NEW t \in Target, create_provider(p, t) PROVE IInv'
  <2>1. rows' \in Seq(Provider) /\ IsInjective(rows')
    BY <1>0, <1>2, RowAdded DEF create_provider, listed, TypeOK
  <2>2. target' \in [Provider -> Target]
    BY <1>0, <1>2 DEF create_provider, TypeOK
  <2> QED  BY <1>0, <1>2, <2>1, <2>2, RecordingStep DEF create_provider, TypeOK
<1>3. ASSUME NEW p \in Provider, NEW t \in Target, update_provider(p, t) PROVE IInv'
  <2>1. target' \in [Provider -> Target]
    BY <1>0, <1>3 DEF update_provider, TypeOK
  <2> QED  BY <1>0, <1>3, <2>1, RecordingStep DEF update_provider, TypeOK
<1>4. ASSUME NEW p \in Provider, delete_provider(p) PROVE IInv'
  <2>1. rows' \in Seq(Provider) /\ IsInjective(rows')
    <3>1. PICK i \in DOMAIN rows : rows' = SubSeq(rows, 1, i - 1) \o SubSeq(rows, i + 1, Len(rows))
      BY <1>4 DEF delete_provider
    <3>2. rows \in Seq(Provider) /\ IsInjective(rows)
      BY <1>0 DEF TypeOK
    <3> QED  BY <3>1, <3>2, RowRemoved
  <2>2. blamed' = blamed \cup bad(target', todo, up')
    BY <1>4 DEF delete_provider, IInv, Recorded, bad, _check_health
  <2> QED  BY <1>0, <1>4, <2>1, <2>2, RecordingStep DEF delete_provider, TypeOK
<1>5. ASSUME NEW t \in Target, NEW a \in Response, EndpointChanges(t, a) PROVE IInv'
  <2>1. up' \in [Target -> Response]
    BY <1>0, <1>5 DEF EndpointChanges, TypeOK
  <2>2. blamed' = blamed \cup bad(target', todo, up')
    BY <1>5 DEF EndpointChanges, bad
  <2> QED  BY <1>0, <1>5, <2>1, <2>2, RecordingStep DEF EndpointChanges, TypeOK
<1>6. CASE Restart
  <2>1. bad(target, <<>>, up) \subseteq Provider /\ blamed' = bad(target, <<>>, up)
    BY <1>6 DEF bad, Restart
  <2>2. bad(target, todo, up)' = blamed'
    BY <1>6, <2>1 DEF bad, Restart, outside, _check_health
  <2> QED  BY <1>0, <1>6, <2>1, <2>2 DEF Restart, outside, IInv, TypeOK, NotSlandered, Recorded
<1> QED  BY <1>1, <1>2, <1>3, <1>4, <1>5, <1>6 DEF Outside

LEMMA IInvStep == IInv /\ [Next]_vars => IInv'
<1> SUFFICES ASSUME IInv, [Next]_vars PROVE IInv'
  OBVIOUS
<1>1. CASE Loop
  BY <1>1, BeginRoundStep, SnapshotFailsStep, EndpointAnswersStep, ProbeStep DEF Loop
<1>2. CASE Outside
  BY <1>2, OutsideStep
<1>3. CASE UNCHANGED vars
  BY <1>3 DEF vars, IInv, TypeOK, NotSlandered, Recorded, bad, _check_health
<1> QED  BY <1>1, <1>2, <1>3 DEF Next

-----------------------------------------------------------------------------
(* Theorems.                                                               *)

\* The invariant that the theorems about the health loop rest on: types, no slander, and
\* every risk on record.
THEOREM Invariance == Spec => []IInv
BY IInvInit, IInvStep, PTL DEF Spec

\* Every state of the loop is of its type: in particular it probes exactly while it has
\* providers to probe, and no id is in the table twice.
THEOREM TypeCorrect == Spec => []TypeOK
<1>1. IInv => TypeOK
  BY DEF IInv
<1> QED  BY <1>1, Invariance, PTL

\* However rounds, deletions, moves and late answers overlap, no provider is marked
\* unhealthy that neither failed a request nor had an endpoint that answered badly.
THEOREM NobodySlandered == Spec => []NotSlandered
<1>1. IInv => NotSlandered
  BY DEF IInv
<1> QED  BY <1>1, Invariance, PTL

-----------------------------------------------------------------------------
(* The safety half of Converges: a round that nothing outside disturbs sets every flag *)
(* right, and right they stay.                                                         *)

verdict(p) == _check_health(up[target[p]])

\* What is under way for p is of its present target and that target's present answer.
Aligned(p) ==
    /\ \A i \in DOMAIN todo : todo[i].id = p => todo[i].target = target[p]
    /\ wire # <<>> /\ Head(todo).id = p => wire[1] = up[target[p]]

Settled(p) == Aligned(p) /\ healthy[p] = verdict(p)

\* The round will settle p, or has.
Covered(p) ==
    /\ Aligned(p)
    /\ healthy[p] # verdict(p) => \E i \in DOMAIN todo : todo[i].id = p

\* A snapshot is aligned with the table it is taken from, and names all of it.
LEMMA BeginRoundCovers ==
    ASSUME IInv, BeginRound, NEW p \in Provider
    PROVE  /\ Aligned(p)' /\ UNCHANGED <<healthy, target, up>>
           /\ Raises \cup Malformed = {} /\ p \in listed => Covered(p)'
<1> DEFINE snapshot == [i \in DOMAIN rows |-> [id |-> rows[i], target |-> target[rows[i]]]]
<1>1. rows \in Seq(Provider) /\ wire' = <<>> /\ UNCHANGED <<healthy, target, up>>
  BY DEF IInv, TypeOK, BeginRound, outside
<1>2. todo' = snapshot \/ todo' = <<>>
  BY DEF BeginRound, Continue
<1>3. \A i \in DOMAIN snapshot : snapshot[i].id = rows[i] /\ snapshot[i].target = target[rows[i]]
  OBVIOUS
<1>4. DOMAIN snapshot = DOMAIN rows /\ DOMAIN <<>> = {}
  OBVIOUS
<1>5. Continue(snapshot)
  BY DEF BeginRound
<1>6. Raises \cup Malformed = {} => todo' = snapshot
  BY <1>5 DEF Continue
<1> HIDE DEF snapshot
<1>7. Aligned(p)'
  BY <1>1, <1>2, <1>3, <1>4 DEF Aligned
<1>8. ASSUME Raises \cup Malformed = {}, p \in listed PROVE \E i \in DOMAIN todo' : todo'[i].id = p
  <2>1. PICK i \in DOMAIN rows : rows[i] = p
    BY <1>8 DEF listed, Range
  <2> QED  BY <1>3, <1>4, <1>6, <1>8, <2>1
<1> QED  BY <1>1, <1>7, <1>8 DEF Covered

LEMMA ProbeAligns ==
    ASSUME IInv, run_health_check, NEW p \in Provider, Aligned(p)
    PROVE  /\ Aligned(p)' /\ UNCHANGED <<target, up>>
           /\ IF Head(todo).id = p THEN healthy'[p] = verdict(p) ELSE healthy'[p] = healthy[p]
           /\ Raises \cup Malformed = {} =>
                \A i \in DOMAIN todo : todo[i].id = p /\ Head(todo).id # p =>
                    \E j \in DOMAIN todo' : todo'[j].id = p
<1> DEFINE Entry == [id : Provider, target : Target]
<1>1. /\ todo \in Seq(Entry) /\ todo # <<>> /\ wire # <<>> /\ wire' = <<>>
      /\ UNCHANGED <<target, up>> /\ healthy \in [Provider -> BOOLEAN]
      /\ healthy' = [healthy EXCEPT ![Head(todo).id] = _check_health(wire[1])]
      /\ todo' = Tail(todo) \/ todo' = <<>>
  BY DEF IInv, TypeOK, run_health_check, outside, Continue
<1>2. Raises \cup Malformed = {} => todo' = Tail(todo)
  BY DEF run_health_check, Continue
<1> HIDE DEF Entry
<1>3. /\ \A i \in DOMAIN Tail(todo) : i + 1 \in DOMAIN todo /\ Tail(todo)[i] = todo[i + 1]
      /\ \A i \in DOMAIN todo :
            i = 1 \/ (i - 1 \in DOMAIN Tail(todo) /\ Tail(todo)[i - 1] = todo[i])
  BY <1>1, TailEntries
<1>4. DOMAIN <<>> = {} /\ todo[1] = Head(todo)
  BY <1>1
<1>5. \A i \in DOMAIN todo' : todo'[i].id = p => todo'[i].target = target[p]
  BY <1>1, <1>3, <1>4 DEF Aligned
<1>6. Aligned(p)'
  BY <1>1, <1>5 DEF Aligned
<1>7. IF Head(todo).id = p THEN healthy'[p] = verdict(p) ELSE healthy'[p] = healthy[p]
  BY <1>1 DEF Aligned, verdict
<1>8. ASSUME Raises \cup Malformed = {}, NEW i \in DOMAIN todo, todo[i].id = p, Head(todo).id # p
      PROVE  \E j \in DOMAIN todo' : todo'[j].id = p
  <2>1. i # 1
    BY <1>4, <1>8
  <2>2. i - 1 \in DOMAIN Tail(todo) /\ Tail(todo)[i - 1].id = p
    BY <1>3, <1>8, <2>1
  <2> QED  BY <1>2, <1>8, <2>2
<1> QED  BY <1>1, <1>6, <1>7, <1>8

LEMMA EndpointAnswersAligns ==
    ASSUME IInv, EndpointAnswers, NEW p \in Provider, Aligned(p)
    PROVE  Aligned(p)' /\ UNCHANGED <<target, up, healthy, todo>>
<1>1. TypeOK /\ todo # <<>>
  BY DEF IInv, EndpointAnswers, TypeOK
<1>2. todo[1] = Head(todo) /\ 1 \in DOMAIN todo
  BY <1>1, TodoType
<1>3. UNCHANGED <<target, up, healthy, todo>> /\ wire' = <<up[Head(todo).target]>>
  BY DEF EndpointAnswers, outside
<1>4. wire'[1] = up[Head(todo).target]
  BY <1>3
<1> QED  BY <1>2, <1>3, <1>4 DEF Aligned

\* Without a disturbance, what is aligned, settled or covered stays so.
LEMMA PeacefulStep ==
    ASSUME IInv, [Next]_vars, [~Outside]_vars, NEW p \in Provider
    PROVE  /\ Settled(p) => Settled(p)'
           /\ Raises \cup Malformed = {} => (Covered(p) => Covered(p)')
<1> SUFFICES ASSUME Aligned(p)
    PROVE  /\ Settled(p) => Settled(p)'
           /\ Raises \cup Malformed = {} => (Covered(p) => Covered(p)')
  BY DEF Settled, Covered
<1>1. CASE BeginRound
  <2>1. todo = <<>> /\ DOMAIN <<>> = {}
    BY <1>1 DEF BeginRound, IInv, TypeOK
  <2>2. Aligned(p)' /\ verdict(p)' = verdict(p) /\ healthy' = healthy
    BY <1>1, BeginRoundCovers DEF verdict, _check_health
  <2> QED  BY <2>1, <2>2 DEF Settled, Covered
<1>2. CASE SnapshotFails
  BY <1>2 DEF SnapshotFails, outside, Settled, Covered, Aligned, verdict, _check_health
<1>3. CASE EndpointAnswers
  <2>1. Aligned(p)' /\ verdict(p)' = verdict(p) /\ UNCHANGED <<healthy, todo>>
    BY <1>3, EndpointAnswersAligns DEF verdict, _check_health
  <2> QED  BY <2>1 DEF Settled, Covered
<1>4. CASE run_health_check
  <2>1. /\ Aligned(p)' /\ verdict(p)' = verdict(p)
        /\ IF Head(todo).id = p THEN healthy'[p] = verdict(p) ELSE healthy'[p] = healthy[p]
    BY <1>4, ProbeAligns DEF verdict, _check_health
  <2>2. Settled(p) => Settled(p)'
    BY <2>1 DEF Settled
  <2>3. ASSUME Raises \cup Malformed = {}, Covered(p) PROVE Covered(p)'
    <3>1. \A i \in DOMAIN todo : todo[i].id = p /\ Head(todo).id # p =>
              \E j \in DOMAIN todo' : todo'[j].id = p
      BY <1>4, <2>3, ProbeAligns
    <3> QED  BY <2>1, <2>3, <3>1 DEF Covered
  <2> QED  BY <2>2, <2>3
<1>5. CASE UNCHANGED vars
  BY <1>5 DEF vars, Settled, Covered, Aligned, verdict, _check_health
<1> QED  BY <1>1, <1>2, <1>3, <1>4, <1>5 DEF Next, Loop

\* A flag that is right, with nothing under way that could make it wrong, stays right
\* through every round, as long as operators, endpoints and requests leave it alone.
THEOREM SettledStays ==
    ASSUME NEW p \in Provider
    PROVE  Spec => [](Settled(p) /\ [][~Outside]_vars => []Settled(p))
<1>1. IInv /\ [Next]_vars /\ [~Outside]_vars => (Settled(p) => Settled(p)')
  BY PeacefulStep
<1> QED  BY <1>1, Invariance, PTL DEF Spec

\* The round that health_poison cuts short reaches everybody when no target raises: one that
\* begins names every provider in the table, and if nothing disturbs it, it has set the flag
\* of each to the verdict on its endpoint by the time the loop sleeps again.
THEOREM RoundSettles ==
    ASSUME NEW p \in Provider, Raises \cup Malformed = {}
    PROVE  Spec => /\ [][BeginRound /\ p \in listed => Covered(p)']_vars
                   /\ [](Covered(p) /\ [][~Outside]_vars => [](loop = "sleeping" => Settled(p)))
<1>1. IInv /\ [Next]_vars => [BeginRound /\ p \in listed => Covered(p)']_vars
  BY BeginRoundCovers
<1>2. IInv /\ [Next]_vars /\ [~Outside]_vars => (Covered(p) => Covered(p)')
  BY PeacefulStep
<1>3. IInv /\ Covered(p) => (loop = "sleeping" => Settled(p))
  <2> SUFFICES ASSUME IInv, Covered(p), loop = "sleeping" PROVE Settled(p)
    OBVIOUS
  <2>1. todo = <<>> /\ DOMAIN <<>> = {}
    BY DEF IInv, TypeOK
  <2> QED  BY <2>1 DEF Covered, Settled
<1> QED  BY <1>1, <1>2, <1>3, Invariance, PTL DEF Spec
=============================================================================
