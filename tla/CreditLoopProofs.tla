-------------------------- MODULE CreditLoopProofs --------------------------
(* Proofs about CreditLoop, for any providers, keys, amounts and answers, whatever     *)
(* fails.                                                                              *)
EXTENDS CreditLoop, TableProofs, FiniteSetTheorems

\* What makes ExcludedForCause inductive: whoever a reading could now find wanting is on
\* record, and so is the provider for whom a low reading is on its way.
Recorded ==
    /\ Short(listed, settings, todo, funds) \subseteq poor
    /\ wire # <<>> /\ Wanting(Head(todo).row, wire[1]) => Head(todo).id \in poor

\* What makes LastKnownGood an action of every reachable state: the loop's own count of
\* failures is the length of the streak it is meant to count.
IInv == TypeOK /\ fails = streak /\ ExcludedForCause /\ Recorded

Entry == [id : Provider, row : Setting]

-----------------------------------------------------------------------------
(* Lemmas.                                                                 *)

LEMMA InitType == Init => TypeOK
<1> SUFFICES ASSUME Init PROVE TypeOK
  OBVIOUS
<1>1. rows \in Seq(Provider) /\ IsInjective(rows)
  <2>1. Cardinality(Provider) \in Nat
    BY FiniteAssumption, FS_CardinalityType
  <2>2. PICK n \in 0..Cardinality(Provider) : rows \in Injection(1..n, Provider)
    BY DEF Init
  <2> QED  BY <2>1, <2>2 DEF Injection
<1>2. <<>> \in Seq([id : Provider, row : Setting]) /\ 0 \in 0..N
  BY DEF N
<1>3. Short(listed, settings, <<>>, funds) \subseteq Provider
  BY DEF Short
<1> QED  BY <1>1, <1>2, <1>3 DEF Init, TypeOK

\* Between two rounds nothing is under way; in one the first entry is being read.
LEMMA TodoType ==
    ASSUME TypeOK, todo # <<>>
    PROVE  /\ Head(todo) \in Entry /\ Tail(todo) \in Seq(Entry)
           /\ Head(todo).id \in Provider /\ Head(todo).row \in Setting
           /\ todo[1] = Head(todo) /\ 1 \in DOMAIN todo
<1>1. todo \in Seq(Entry)
  BY DEF TypeOK, Entry
<1>2. Head(todo) \in Entry /\ Tail(todo) \in Seq(Entry) /\ todo[1] = Head(todo) /\ 1 \in DOMAIN todo
  BY <1>1
<1> QED  BY <1>2 DEF Entry

\* What is read of an answer, and of the account a row names.
LEMMA ReadType == \A a \in Answer \cup {Failed} : Read(a) \in Reading
<1> TAKE a \in Answer \cup {Failed}
<1>1. CASE a = Failed
  BY <1>1 DEF Read, Reading
<1>2. CASE a # Failed
  <2>1. a.diem \in Amount \cup {None} /\ a.balance \in Amount \cup {None}
    BY <1>2, AnswerAssumption
  <2> QED  BY <1>2, <2>1 DEF Read, Reading
<1> QED  BY <1>1, <1>2

LEMMA AccountType ==
    ASSUME TypeOK, NEW row \in Setting
    PROVE  funds[row.key] \in Answer \cup {Failed} /\ Read(funds[row.key]) \in Reading
<1>1. funds[row.key] \in Answer \cup {Failed}
  BY DEF TypeOK, Setting
<1> QED  BY <1>1, ReadType

\* The state a reading leaves says "below" of the readings that are too low for the row.
LEMMA CreditStateLow ==
    ASSUME NEW row, NEW reading \in Reading \ {Failed}, row.billed \in BOOLEAN,
           row.threshold \in Amount \cup {None},
           NEW s, s = CreditState(row, reading)
    PROVE  Wanting(row, reading) = (s.supported /\ s.balance # None /\ s.below)
<1>1. /\ s.supported = row.billed /\ s.balance = reading
      /\ s.below = (/\ row.billed /\ row.threshold # None
                    /\ reading # None /\ reading < row.threshold)
  BY DEF CreditState
<1>2. reading \in Amount \cup {None}
  BY DEF Reading
<1> QED  BY <1>1, <1>2, AmountAssumption DEF Wanting

\* A shorter snapshot and a shorter table endanger nobody else.
LEMMA ShortTail ==
    ASSUME NEW ids, NEW fewer, fewer \subseteq ids, NEW table, NEW accounts,
           NEW T, NEW s \in Seq(T), s # <<>>
    PROVE  Short(fewer, table, Tail(s), accounts) \subseteq Short(ids, table, s, accounts)
<1>1. \A i \in DOMAIN Tail(s) : i + 1 \in DOMAIN s /\ Tail(s)[i] = s[i + 1]
  OBVIOUS
<1> QED  BY <1>1 DEF Short

\* Any state a reading leaves is one of a provider's states.
LEMMA CreditStateType ==
    ASSUME NEW row, row.billed \in BOOLEAN, NEW balance \in Amount \cup {None}
    PROVE  CreditState(row, balance) \in State
<1> DEFINE low == row.billed /\ row.threshold # None /\ balance # None /\ balance < row.threshold
<1>1. low \in BOOLEAN
  OBVIOUS
<1> HIDE DEF low
<1>2. [supported |-> row.billed, balance |-> balance, below |-> low] \in State
  BY <1>1 DEF State
<1> QED  BY <1>2 DEF CreditState, low

LEMMA CountType == \A n \in 0..N : Count(n) \in 0..N
BY DEF Count, N

-----------------------------------------------------------------------------
(* The invariant, action by action.                                        *)

LEMMA IInvInit == Init => IInv
BY InitType DEF Init, IInv, ExcludedForCause, Recorded, is_below_credit_threshold

LEMMA BeginRoundStep == ASSUME IInv, BeginRound PROVE IInv'
<1> DEFINE snapshot == [i \in DOMAIN rows |-> [id |-> rows[i], row |-> settings[rows[i]]]]
<1>0. /\ TypeOK /\ wire = <<>>
      /\ UNCHANGED <<rows, settings, funds, credit, fails, wire, streak, poor>>
  BY DEF IInv, BeginRound, outside, TypeOK
<1>1. \A i \in DOMAIN rows : rows[i] \in Provider /\ settings[rows[i]] \in Setting
  BY <1>0 DEF TypeOK
<1>2. DOMAIN rows = 1..Len(rows) /\ Len(rows) \in Nat
  BY <1>0 DEF TypeOK
<1>3. snapshot \in [1..Len(rows) -> Entry]
  BY <1>1, <1>2 DEF Entry
<1>4. Continue(snapshot)
  BY DEF BeginRound
<1>5. Short(listed, settings, snapshot, funds) \subseteq Short(listed, settings, todo, funds)
  BY <1>1 DEF Short, listed, Range
<1> HIDE DEF snapshot
<1>6. snapshot \in Seq(Entry)
  BY <1>2, <1>3
<1>7. TypeOK'
  BY <1>0, <1>4, <1>6 DEF Continue, TypeOK, Entry
<1>8. Short(listed, settings, todo, funds)' \subseteq poor'
  BY <1>0, <1>4, <1>5 DEF Continue, Short, listed, IInv, Recorded, Wanting, Read
<1> QED  BY <1>0, <1>7, <1>8 DEF IInv, ExcludedForCause, Recorded, is_below_credit_threshold

\* The reading is that of the account the snapshot's first entry names: if it is low, its
\* provider is among those endangered.
LEMMA MonitorAnswersStep == ASSUME IInv, MonitorAnswers PROVE IInv'
<1> DEFINE row == Head(todo).row
           p == Head(todo).id
<1>0. /\ TypeOK /\ todo # <<>>
      /\ UNCHANGED <<rows, settings, funds, credit, fails, loop, todo, streak, poor>>
  BY DEF IInv, MonitorAnswers, outside, TypeOK
<1>1. p \in Provider /\ row \in Setting /\ todo[1] = Head(todo) /\ 1 \in DOMAIN todo
  BY <1>0, TodoType
<1>2. PICK a \in Reading : wire' = <<a>> /\ a = IF row.billed THEN Read(funds[row.key]) ELSE None
  <2>1. Read(funds[row.key]) \in Reading /\ None \in Reading
    BY <1>0, <1>1, AccountType DEF Reading
  <2> QED  BY <2>1 DEF MonitorAnswers
<1>3. ASSUME Wanting(row, a) PROVE p \in poor
  <2>1. a = Read(funds[row.key])
    BY <1>2, <1>3 DEF Wanting
  <2>2. p \in Short(listed, settings, todo, funds)
    BY <1>1, <1>3, <2>1 DEF Short
  <2> QED  BY <2>2 DEF IInv, Recorded
<1>4. wire'[1] = a /\ (wire' # <<>> /\ Wanting(Head(todo).row, wire'[1]) => Head(todo).id \in poor)
  BY <1>2, <1>3
<1>5. Recorded'
  BY <1>0, <1>4 DEF IInv, Recorded, Short, Wanting, Read, listed
<1>6. TypeOK'
  BY <1>0, <1>2 DEF MonitorAnswers, TypeOK
<1> QED  BY <1>0, <1>5, <1>6 DEF IInv, ExcludedForCause, is_below_credit_threshold

\* What both ways of ending a reading have in common.
LEMMA ReadingStep ==
    ASSUME IInv, loop = "reading", UNCHANGED <<rows, settings, funds, poor>>,
           Continue(Tail(todo)), wire' = <<>>,
           NEW s \in {<<>>} \cup {<<st>> : st \in State}, NEW n \in 0..N,
           s # <<>> /\ s[1].supported /\ s[1].balance # None /\ s[1].below
              => Head(todo).id \in poor,
           credit' = [credit EXCEPT ![Head(todo).id] = s],
           fails' = [fails EXCEPT ![Head(todo).id] = n],
           streak' = [streak EXCEPT ![Head(todo).id] = n]
    PROVE  IInv'
<1>0. TypeOK /\ todo # <<>>
  BY DEF IInv, TypeOK
<1>1. Tail(todo) \in Seq(Entry)
  BY <1>0, TodoType
<1>2. /\ todo' \in Seq(Entry) /\ loop' \in {"sleeping", "reading"}
      /\ loop' = "reading" <=> todo' # <<>>
  BY <1>1 DEF Continue
<1>3. credit' \in [Provider -> {<<>>} \cup {<<st>> : st \in State}]
  BY <1>0 DEF TypeOK
<1>4. fails' \in [Provider -> 0..N] /\ streak' \in [Provider -> 0..N] /\ fails' = streak'
  BY <1>0 DEF IInv, TypeOK
<1>5. TypeOK'
  BY <1>0, <1>2, <1>3, <1>4 DEF TypeOK, Entry
<1>6. ExcludedForCause'
  <2> SUFFICES ASSUME NEW p \in Provider, is_below_credit_threshold(p)' PROVE p \in poor
    BY DEF ExcludedForCause
  <2>1. CASE p = Head(todo).id
    BY <1>0, <2>1 DEF TypeOK, is_below_credit_threshold
  <2>2. CASE p # Head(todo).id
    BY <1>0, <2>2 DEF TypeOK, is_below_credit_threshold, IInv, ExcludedForCause
  <2> QED  BY <2>1, <2>2
<1>7. Recorded'
  <2>1. Short(listed, settings, Tail(todo), funds) \subseteq Short(listed, settings, todo, funds)
    BY <1>0, ShortTail DEF TypeOK
  <2>2. Short(listed, settings, todo, funds)' = Short(listed, settings, Tail(todo), funds)
    BY DEF Continue, Short, Wanting, Read, listed
  <2> QED  BY <2>1, <2>2 DEF IInv, Recorded
<1> QED  BY <1>4, <1>5, <1>6, <1>7 DEF IInv

LEMMA ReadingArrivesStep == ASSUME IInv, ReadingArrives PROVE IInv'
<1>0. TypeOK /\ todo # <<>> /\ wire[1] \in Amount \cup {None}
  BY DEF IInv, ReadingArrives, TypeOK, Reading
<1> DEFINE st == CreditState(Head(todo).row, wire[1])
<1>1. /\ Head(todo).row.billed \in BOOLEAN
      /\ Head(todo).row.threshold \in Amount \cup {None}
  BY <1>0, TodoType DEF Setting
<1>2. st \in State
  BY <1>0, <1>1, CreditStateType
<1>3. 0 \in 0..N
  BY DEF N
<1>4. wire[1] \in Reading \ {Failed} /\ wire # <<>>
  BY <1>0, AmountAssumption DEF ReadingArrives, Reading
<1>5. ASSUME st.supported, st.balance # None, st.below PROVE Head(todo).id \in poor
  <2>1. Wanting(Head(todo).row, wire[1])
    BY <1>1, <1>4, <1>5, CreditStateLow
  <2> QED  BY <1>4, <2>1 DEF IInv, Recorded
<1>6. /\ loop = "reading" /\ UNCHANGED <<rows, settings, funds, poor>>
      /\ Continue(Tail(todo)) /\ wire' = <<>>
      /\ credit' = [credit EXCEPT ![Head(todo).id] = <<st>>]
      /\ fails' = [fails EXCEPT ![Head(todo).id] = 0]
      /\ streak' = [streak EXCEPT ![Head(todo).id] = 0]
  BY DEF ReadingArrives, outside
<1> HIDE DEF st
<1> QED  BY <1>2, <1>3, <1>5, <1>6, ReadingStep

\* The count goes up with the streak, as far as N; short of it what is known is kept.
LEMMA ReadingFailsCounts ==
    ASSUME IInv, ReadingFails
    PROVE  \E n \in 0..N :
              /\ fails' = [fails EXCEPT ![Head(todo).id] = n]
              /\ streak' = [streak EXCEPT ![Head(todo).id] = n]
              /\ n = Count(streak[Head(todo).id])
              /\ credit' = [credit EXCEPT ![Head(todo).id] =
                              IF n < N /\ @ # <<>> THEN @ ELSE <<CreditState(Unread, None)>>]
<1> DEFINE p == Head(todo).id
           n == Count(fails[p])
<1>1. p \in Provider
  BY TodoType DEF IInv, ReadingFails, TypeOK
<1>2. fails[p] \in 0..N /\ fails[p] = streak[p]
  BY <1>1 DEF IInv, TypeOK
<1>3. n \in 0..N
  BY <1>2, CountType
<1>4. fails' = [fails EXCEPT ![p] = n] /\ streak' = [streak EXCEPT ![p] = n]
  BY <1>2 DEF ReadingFails
<1>5. fails'[p] = n
  BY <1>1, <1>4 DEF IInv, TypeOK
<1>6. credit' = [credit EXCEPT ![p] = IF n < N /\ @ # <<>> THEN @
                                     ELSE <<CreditState(Unread, None)>>]
  BY <1>5 DEF ReadingFails
<1> QED  BY <1>2, <1>3, <1>4, <1>6

LEMMA ReadingFailsStep == ASSUME IInv, ReadingFails PROVE IInv'
<1> DEFINE p == Head(todo).id
           States == {<<>>} \cup {<<st>> : st \in State}
<1>1. PICK n \in 0..N :
         /\ fails' = [fails EXCEPT ![p] = n] /\ streak' = [streak EXCEPT ![p] = n]
         /\ credit' = [credit EXCEPT ![p] =
                         IF n < N /\ @ # <<>> THEN @ ELSE <<CreditState(Unread, None)>>]
  BY ReadingFailsCounts
<1>2. /\ CreditState(Unread, None) \in State /\ ~CreditState(Unread, None).below
  <2>1. Unread.billed \in BOOLEAN /\ Unread.threshold = None
    BY DEF Unread
  <2>2. ~CreditState(Unread, None).below
    BY <2>1 DEF CreditState
  <2> QED  BY <2>1, <2>2, CreditStateType
<1>3. p \in Provider /\ credit \in [Provider -> States]
  BY TodoType DEF IInv, ReadingFails, TypeOK
<1>4. PICK s \in States :
         /\ credit' = [credit EXCEPT ![p] = s]
         /\ s = credit[p] \/ s = <<CreditState(Unread, None)>>
  <2>1. CASE n < N /\ credit[p] # <<>>
    BY <1>1, <1>3, <2>1
  <2>2. CASE ~(n < N /\ credit[p] # <<>>)
    BY <1>1, <1>2, <2>2
  <2> QED  BY <2>1, <2>2
<1>5. s # <<>> /\ s[1].supported /\ s[1].balance # None /\ s[1].below => p \in poor
  <2>1. CASE s = credit[p]
    BY <1>3, <2>1 DEF IInv, ExcludedForCause, is_below_credit_threshold
  <2>2. CASE s = <<CreditState(Unread, None)>>
    BY <1>2, <2>2
  <2> QED  BY <1>4, <2>1, <2>2
<1> QED  BY <1>1, <1>4, <1>5, ReadingStep DEF ReadingFails, outside

\* An outside event that leaves verdicts and the round alone, and records whom it endangers.
LEMMA RecordingStep ==
    ASSUME IInv, UNCHANGED <<credit, fails, loop, todo, wire, streak>>,
           rows' \in Seq(Provider), IsInjective(rows'),
           settings' \in [Provider -> Setting], funds' \in [Key -> Answer \cup {Failed}],
           poor' = poor \cup Short(Range(rows'), settings', todo, funds')
    PROVE  IInv'
<1>1. Short(Range(rows'), settings', todo, funds') \subseteq Provider
  BY DEF Short
<1>2. Short(listed, settings, todo, funds)' = Short(Range(rows'), settings', todo, funds')
  BY DEF Short, Wanting, Read, listed, Range
<1>3. TypeOK'
  BY <1>1 DEF IInv, TypeOK
<1>4. Recorded' /\ ExcludedForCause'
  BY <1>2 DEF IInv, Recorded, ExcludedForCause, is_below_credit_threshold, Wanting
<1> QED  BY <1>3, <1>4 DEF IInv

LEMMA OutsideStep == ASSUME IInv, Outside PROVE IInv'
<1>0. TypeOK
  BY DEF IInv
<1>1. ASSUME NEW p \in Provider, NEW row \in Setting, create_provider(p, row) PROVE IInv'
  <2>1. rows' \in Seq(Provider) /\ IsInjective(rows')
    BY <1>0, <1>1, RowAdded DEF create_provider, listed, TypeOK
  <2>2. settings' \in [Provider -> Setting]
    BY <1>0, <1>1 DEF create_provider, TypeOK
  <2> QED  BY <1>0, <1>1, <2>1, <2>2, RecordingStep DEF create_provider, TypeOK
<1>2. ASSUME NEW p \in Provider, NEW row \in Setting, update_provider(p, row) PROVE IInv'
  <2>1. settings' \in [Provider -> Setting]
    BY <1>0, <1>2 DEF update_provider, TypeOK
  <2> QED  BY <1>0, <1>2, <2>1, RecordingStep DEF update_provider, TypeOK, listed
<1>3. ASSUME NEW p \in Provider, delete_provider(p) PROVE IInv'
  <2>1. rows' \in Seq(Provider) /\ IsInjective(rows') /\ Range(rows') \subseteq Range(rows)
    <3>1. PICK i \in DOMAIN rows : rows' = SubSeq(rows, 1, i - 1) \o SubSeq(rows, i + 1, Len(rows))
      BY <1>3 DEF delete_provider
    <3>2. rows \in Seq(Provider) /\ IsInjective(rows)
      BY <1>0 DEF TypeOK
    <3> QED  BY <3>1, <3>2, RowRemoved
  <2>2. poor' = poor \cup Short(Range(rows'), settings', todo, funds')
    <3>1. Short(Range(rows'), settings', todo, funds') \subseteq Short(listed, settings, todo, funds)
      BY <1>3, <2>1 DEF delete_provider, Short, listed
    <3> QED  BY <1>3, <3>1 DEF delete_provider, IInv, Recorded
  <2> QED  BY <1>0, <1>3, <2>1, <2>2, RecordingStep DEF delete_provider, TypeOK
<1>4. ASSUME NEW k \in Key, NEW a \in Answer \cup {Failed}, FundsChange(k, a) PROVE IInv'
  <2>1. funds' \in [Key -> Answer \cup {Failed}]
    BY <1>0, <1>4 DEF FundsChange, TypeOK
  <2> QED  BY <1>0, <1>4, <2>1, RecordingStep DEF FundsChange, TypeOK, listed
<1>5. CASE Restart
  <2>1. Short(listed, settings, <<>>, funds) \subseteq Provider
    BY DEF Short
  <2>2. Short(listed, settings, todo, funds)' = poor'
    BY <1>5 DEF Restart, outside, Short, Wanting, Read, listed
  <2>3. TypeOK'
    BY <1>0, <1>5, <2>1 DEF Restart, outside, TypeOK, N
  <2> QED  BY <1>5, <2>2, <2>3 DEF Restart, IInv, Recorded, ExcludedForCause, is_below_credit_threshold
<1> QED  BY <1>1, <1>2, <1>3, <1>4, <1>5 DEF Outside

LEMMA IInvStep == IInv /\ [Next]_vars => IInv'
<1> SUFFICES ASSUME IInv, [Next]_vars PROVE IInv'
  OBVIOUS
<1>1. CASE ImportMonitors \/ SnapshotFails
  <2>1. todo = <<>> /\ wire = <<>> /\ TypeOK'
    BY <1>1 DEF ImportMonitors, SnapshotFails, outside, IInv, TypeOK
  <2>2. Short(listed, settings, todo, funds)' = Short(listed, settings, todo, funds)
    BY <1>1 DEF ImportMonitors, SnapshotFails, outside, Short, Wanting, Read, listed
  <2> QED  BY <1>1, <2>1, <2>2 DEF ImportMonitors, SnapshotFails, outside, IInv, Recorded,
              ExcludedForCause, is_below_credit_threshold
<1>2. CASE BeginRound \/ MonitorAnswers \/ ReadingArrives \/ ReadingFails
  BY <1>2, BeginRoundStep, MonitorAnswersStep, ReadingArrivesStep, ReadingFailsStep
<1>3. CASE Outside
  BY <1>3, OutsideStep
<1>4. CASE UNCHANGED vars
  BY <1>4 DEF vars, IInv, TypeOK, Recorded, ExcludedForCause, is_below_credit_threshold,
              Short, Wanting, Read, listed
<1> QED  BY <1>1, <1>2, <1>3, <1>4 DEF Next, Loop

-----------------------------------------------------------------------------
(* Theorems.                                                               *)

\* The invariant that the theorems about the credit loop rest on.
THEOREM Invariance == Spec => []IInv
BY IInvInit, IInvStep, PTL DEF Spec

\* Every state of the loop is of its type; in particular it reads exactly while it has
\* providers to read.
THEOREM TypeCorrect == Spec => []TypeOK
<1>1. IInv => TypeOK
  BY DEF IInv
<1> QED  BY <1>1, Invariance, PTL

\* However rounds, patches, deletions, failures and late answers overlap, no provider is
\* taken for below its threshold whose account was never read as below it.
THEOREM NobodyExcludedWithoutCause == Spec => []ExcludedForCause
<1>1. IInv => ExcludedForCause
  BY DEF IInv
<1> QED  BY <1>1, Invariance, PTL

\* Every account has run dry, and its billing API says so with a plain 0 or nothing at all.
Dry == \A k \in Key : funds[k] = Failed \/ (funds[k].diem \in {None, 0} /\ funds[k].balance = None)

LEMMA NobodyShort == TypeOK /\ Dry => Short(listed, settings, todo, funds) = {}
<1> SUFFICES ASSUME TypeOK, Dry PROVE Short(listed, settings, todo, funds) = {}
  OBVIOUS
<1>1. ASSUME NEW row \in Setting PROVE ~Wanting(row, Read(funds[row.key]))
  <2>1. row.key \in Key
    BY <1>1 DEF Setting
  <2>2. Read(funds[row.key]) \in {Failed, None}
    BY <2>1 DEF Dry, Read
  <2> QED  BY <2>2, AmountAssumption DEF Wanting
<1>2. \A p \in Provider : settings[p] \in Setting
  BY DEF TypeOK
<1>3. \A i \in DOMAIN todo : todo[i].row \in Setting
  <2>1. todo \in Seq(Entry)
    BY DEF TypeOK, Entry
  <2>2. \A i \in DOMAIN todo : todo[i] \in Entry
    BY <2>1
  <2> QED  BY <2>2 DEF Entry
<1> QED  BY <1>1, <1>2, <1>3 DEF Short

\* The record grows by those endangered now, and by nobody else.
LEMMA PoorGrows ==
    IInv /\ [Next]_vars => poor' \subseteq poor \cup Short(listed, settings, todo, funds)'
<1> SUFFICES ASSUME IInv, [Next]_vars
             PROVE  poor' \subseteq poor \cup Short(listed, settings, todo, funds)'
  OBVIOUS
<1>1. CASE Loop \/ UNCHANGED vars
  BY <1>1 DEF Loop, vars, ImportMonitors, BeginRound, SnapshotFails, MonitorAnswers,
              ReadingArrives, ReadingFails
<1>2. CASE Outside
  <2>1. CASE UNCHANGED poor
    BY <2>1
  <2>2. ASSUME NEW p \in Provider, NEW row \in Setting,
               create_provider(p, row) \/ update_provider(p, row)
        PROVE  poor' = poor \cup Short(listed, settings, todo, funds)'
    <3>1. /\ UNCHANGED <<todo, funds>>
          /\ poor' = poor \cup Short(Range(rows'), settings', todo, funds)
      BY <2>2 DEF create_provider, update_provider, listed
    <3>2. Short(listed, settings, todo, funds)' = Short(Range(rows'), settings', todo, funds)
      BY <3>1 DEF listed, Range, Short, Wanting, Read
    <3> QED  BY <3>1, <3>2
  <2>3. ASSUME NEW k \in Key, NEW a \in Answer \cup {Failed}, FundsChange(k, a)
        PROVE  poor' = poor \cup Short(listed, settings, todo, funds)'
    BY <2>3 DEF FundsChange, listed, Short, Wanting, Read
  <2>4. CASE Restart
    BY <2>4 DEF Restart, outside, listed, Short, Wanting, Read
  <2>5. ASSUME NEW p \in Provider, delete_provider(p) PROVE UNCHANGED poor
    BY <2>5 DEF delete_provider
  <2> QED  BY <1>2, <2>1, <2>2, <2>3, <2>4, <2>5 DEF Outside
<1> QED  BY <1>1, <1>2 DEF Next

\* The other side of Python's "or" in VeniceMonitor: in a process all of whose accounts have
\* run dry from its start on, and say so with a plain 0, nobody is excluded for want of
\* credit, whatever the thresholds are and however the loop, patches and restarts overlap.
THEOREM ZeroExcludesNobody ==
    Spec /\ []Dry => [](\A p \in Provider : ~is_below_credit_threshold(p))
<1> DEFINE Clean == poor = {}
<1>1. Init /\ IInv /\ Dry => Clean
  <2>1. Init => poor = Short(listed, settings, todo, funds)
    BY DEF Init
  <2> QED  BY <2>1, NobodyShort DEF IInv
<1>2. (TypeOK /\ Dry => Short(listed, settings, todo, funds) = {})'
  BY NobodyShort, PTL
<1>3. IInv /\ IInv' /\ Dry' /\ Clean /\ [Next]_vars => Clean'
  BY <1>2, PoorGrows DEF IInv
<1>4. IInv /\ Clean => \A p \in Provider : ~is_below_credit_threshold(p)
  BY DEF IInv, ExcludedForCause
<1> HIDE DEF Clean
<1> QED  BY <1>1, <1>3, <1>4, Invariance, PTL DEF Spec

\* What a step may change of what is known of one provider's credit.
Justified(p) ==
    credit[p] # <<>> /\ credit'[p] # credit[p]
       => \/ credit'[p] = <<>>
          \/ wire # <<>> /\ wire[1] # Failed /\ Head(todo).id = p
          \/ streak'[p] = N

LEMMA ChangesJustified ==
    ASSUME IInv, [Next]_vars, NEW p \in Provider
    PROVE  Justified(p)
<1>1. CASE ReadingArrives
  BY <1>1 DEF ReadingArrives, IInv, TypeOK, Justified
<1>2. CASE ReadingFails
  <2> SUFFICES ASSUME credit[p] # <<>>, credit'[p] # credit[p] PROVE streak'[p] = N
    BY DEF Justified
  <2>1. PICK n \in 0..N :
           /\ streak' = [streak EXCEPT ![Head(todo).id] = n]
           /\ credit' = [credit EXCEPT ![Head(todo).id] =
                           IF n < N /\ @ # <<>> THEN @ ELSE <<CreditState(Unread, None)>>]
    BY <1>2, ReadingFailsCounts
  <2>2. Head(todo).id = p /\ ~(n < N)
    BY <2>1 DEF IInv, TypeOK
  <2> QED  BY <2>1, <2>2 DEF IInv, TypeOK, N
<1>3. CASE Restart
  BY <1>3 DEF Restart, Justified
<1>4. CASE UNCHANGED credit
  BY <1>4 DEF Justified
<1>5. ReadingArrives \/ ReadingFails \/ Restart \/ UNCHANGED credit
  BY DEF Next, Loop, Outside, vars, ImportMonitors, BeginRound, SnapshotFails, MonitorAnswers,
     create_provider, update_provider, delete_provider, FundsChange
<1> QED  BY <1>1, <1>2, <1>3, <1>4, <1>5

\* A failing billing API does not disturb what is known of a balance before the third
\* failure in a row, however rounds, deletions and patches overlap.
THEOREM KnownStaysKnown == Spec => LastKnownGood
<1>1. IInv /\ [Next]_vars => [\A p \in Provider : Justified(p)]_vars
  BY ChangesJustified
<1> QED  BY <1>1, Invariance, PTL DEF Spec, LastKnownGood, Justified

-----------------------------------------------------------------------------
(* The safety half of Settles: a round that nothing outside disturbs sets every        *)
(* verdict right, and right they stay.                                                 *)

\* What p's monitor would make of its account now, and the verdict on p.
answer(p) == IF settings[p].billed THEN Read(funds[settings[p].key]) ELSE None

low(p) == Wanting(settings[p], Read(funds[settings[p].key]))

\* What is under way for p is of its present row and its monitor's present answer.
Aligned(p) ==
    /\ \A i \in DOMAIN todo : todo[i].id = p => todo[i].row = settings[p]
    /\ wire # <<>> /\ Head(todo).id = p => wire[1] = answer(p)

Settled(p) == Aligned(p) /\ is_below_credit_threshold(p) = low(p)

\* The round will settle p, or has.
Covered(p) ==
    /\ Aligned(p)
    /\ is_below_credit_threshold(p) # low(p) => \E i \in DOMAIN todo : todo[i].id = p

\* A snapshot is aligned with the table it is taken from, and names all of it.
LEMMA BeginRoundCovers ==
    ASSUME IInv, BeginRound, NEW p \in Provider
    PROVE  /\ Aligned(p)' /\ UNCHANGED <<credit, settings, funds>>
           /\ p \in listed => Covered(p)'
<1> DEFINE snapshot == [i \in DOMAIN rows |-> [id |-> rows[i], row |-> settings[rows[i]]]]
<1>1. rows \in Seq(Provider) /\ wire' = <<>> /\ UNCHANGED <<credit, settings, funds>>
  BY DEF IInv, TypeOK, BeginRound, outside
<1>2. todo' = snapshot
  BY DEF BeginRound, Continue
<1>3. \A i \in DOMAIN snapshot : snapshot[i].id = rows[i] /\ snapshot[i].row = settings[rows[i]]
  OBVIOUS
<1>4. DOMAIN snapshot = DOMAIN rows
  OBVIOUS
<1> HIDE DEF snapshot
<1>5. Aligned(p)'
  BY <1>1, <1>2, <1>3, <1>4 DEF Aligned
<1>6. ASSUME p \in listed PROVE \E i \in DOMAIN todo' : todo'[i].id = p
  <2>1. PICK i \in DOMAIN rows : rows[i] = p
    BY <1>6 DEF listed, Range
  <2> QED  BY <1>2, <1>3, <1>4, <2>1
<1> QED  BY <1>1, <1>5, <1>6 DEF Covered

LEMMA MonitorAnswersAligns ==
    ASSUME IInv, MonitorAnswers, NEW p \in Provider, Aligned(p)
    PROVE  Aligned(p)' /\ UNCHANGED <<settings, funds, credit, todo>>
<1>1. todo \in Seq(Entry) /\ todo # <<>>
  BY DEF IInv, MonitorAnswers, TypeOK, Entry
<1>2. todo[1] = Head(todo) /\ 1 \in DOMAIN todo
  BY <1>1
<1>3. /\ UNCHANGED <<settings, funds, credit, todo>>
      /\ wire' = <<IF Head(todo).row.billed THEN Read(funds[Head(todo).row.key]) ELSE None>>
  BY DEF MonitorAnswers, outside
<1>4. wire'[1] = IF Head(todo).row.billed THEN Read(funds[Head(todo).row.key]) ELSE None
  BY <1>3
<1> QED  BY <1>2, <1>3, <1>4 DEF Aligned, answer, Read

\* A reading's end, whichever: the round goes on with the rest.
LEMMA ReadingAligns ==
    ASSUME IInv, ReadingArrives \/ ReadingFails, NEW p \in Provider, Aligned(p)
    PROVE  /\ Aligned(p)' /\ UNCHANGED <<settings, funds>>
           /\ \A i \in DOMAIN todo : todo[i].id = p /\ Head(todo).id # p =>
                  \E j \in DOMAIN todo' : todo'[j].id = p
<1>1. /\ todo \in Seq(Entry) /\ todo # <<>> /\ todo' = Tail(todo) /\ wire' = <<>>
      /\ UNCHANGED <<settings, funds>>
  BY DEF IInv, TypeOK, ReadingArrives, ReadingFails, outside, Continue, Entry
<1>2. /\ \A i \in DOMAIN Tail(todo) : i + 1 \in DOMAIN todo /\ Tail(todo)[i] = todo[i + 1]
      /\ \A i \in DOMAIN todo :
            i = 1 \/ (i - 1 \in DOMAIN Tail(todo) /\ Tail(todo)[i - 1] = todo[i])
  BY <1>1, TailEntries
<1>3. todo[1] = Head(todo)
  BY <1>1
<1>4. Aligned(p)'
  BY <1>1, <1>2 DEF Aligned
<1>5. ASSUME NEW i \in DOMAIN todo, todo[i].id = p, Head(todo).id # p
      PROVE  \E j \in DOMAIN todo' : todo'[j].id = p
  <2>1. i # 1
    BY <1>3, <1>5
  <2>2. i - 1 \in DOMAIN Tail(todo) /\ Tail(todo)[i - 1].id = p
    BY <1>2, <1>5, <2>1
  <2> QED  BY <1>1, <2>2
<1> QED  BY <1>1, <1>4, <1>5

\* The verdict that a good reading of p leaves is the one on p's row and balance, and a
\* failed one leaves none that is low, or the one before.
LEMMA VerdictWritten ==
    ASSUME IInv, ReadingArrives \/ ReadingFails, NEW p \in Provider, Aligned(p)
    PROVE  /\ Head(todo).id # p =>
                is_below_credit_threshold(p)' = is_below_credit_threshold(p)
           /\ Head(todo).id = p /\ ReadingArrives =>
                is_below_credit_threshold(p)' = low(p)
           /\ Head(todo).id = p /\ ReadingFails =>
                /\ answer(p) = Failed /\ low(p) = FALSE
                /\ is_below_credit_threshold(p)' \in {is_below_credit_threshold(p), FALSE}
<1>0. TypeOK /\ loop = "reading" /\ wire # <<>>
  BY DEF IInv, ReadingArrives, ReadingFails
<1>1. /\ todo \in Seq(Entry) /\ todo # <<>>
      /\ credit \in [Provider -> {<<>>} \cup {<<s>> : s \in State}]
      /\ settings[p] \in Setting /\ Read(funds[settings[p].key]) \in Reading
  <2>1. todo \in Seq(Entry) /\ todo # <<>>
    BY <1>0 DEF TypeOK, Entry
  <2>2. credit \in [Provider -> {<<>>} \cup {<<s>> : s \in State}]
    BY <1>0 DEF TypeOK
  <2>3. settings[p] \in Setting /\ Read(funds[settings[p].key]) \in Reading
    BY <1>0, AccountType DEF TypeOK
  <2> QED  BY <2>1, <2>2, <2>3
<1>2. todo[1] = Head(todo) /\ 1 \in DOMAIN todo
  BY <1>1
<1>3. Head(todo).id = p => Head(todo).row = settings[p] /\ wire[1] = answer(p)
  BY <1>0, <1>2 DEF Aligned
<1>4. CASE ReadingArrives
  <2>1. /\ credit' = [credit EXCEPT ![Head(todo).id] = <<CreditState(Head(todo).row, wire[1])>>]
        /\ wire[1] # Failed
    BY <1>4 DEF ReadingArrives
  <2>2. Head(todo).id # p => credit'[p] = credit[p]
    BY <1>1, <2>1
  <2>3. ASSUME Head(todo).id = p PROVE is_below_credit_threshold(p)' = low(p)
    <3> DEFINE written == CreditState(settings[p], answer(p))
    <3>1. credit'[p] = <<written>> /\ answer(p) # Failed
      BY <1>1, <1>3, <2>1, <2>3
    <3>2. is_below_credit_threshold(p)' =
             (written.supported /\ written.balance # None /\ written.below)
      <4> HIDE DEF written
      <4> QED  BY <3>1 DEF is_below_credit_threshold
    <3>3. /\ settings[p].billed \in BOOLEAN /\ settings[p].threshold \in Amount \cup {None}
          /\ answer(p) \in Reading \ {Failed}
      BY <1>1, <3>1 DEF Setting, Reading, answer
    <3>4. Wanting(settings[p], answer(p)) = (written.supported /\ written.balance # None /\ written.below)
      BY <3>3, CreditStateLow
    <3>5. Wanting(settings[p], answer(p)) = low(p)
      BY DEF Wanting, low, answer
    <3> QED  BY <3>2, <3>4, <3>5
  <2>4. ReadingFails => FALSE
    BY <1>4 DEF ReadingArrives, ReadingFails
  <2> QED  BY <2>2, <2>3, <2>4 DEF is_below_credit_threshold
<1>5. CASE ReadingFails
  <2>1. PICK n \in 0..N :
           credit' = [credit EXCEPT ![Head(todo).id] =
                        IF n < N /\ @ # <<>> THEN @ ELSE <<CreditState(Unread, None)>>]
    BY <1>5, ReadingFailsCounts
  <2>2. Head(todo).id # p => credit'[p] = credit[p]
    BY <1>1, <2>1
  <2>3. Head(todo).id = p => credit'[p] \in {credit[p], <<CreditState(Unread, None)>>}
    BY <1>1, <2>1
  <2>4. credit'[p] = <<CreditState(Unread, None)>> => is_below_credit_threshold(p)' = FALSE
    <3> DEFINE written == CreditState(Unread, None)
    <3>1. written.below = FALSE
      BY DEF CreditState, Unread
    <3> HIDE DEF written
    <3>2. credit'[p] = <<written>> => is_below_credit_threshold(p)' = FALSE
      BY <3>1 DEF is_below_credit_threshold
    <3> QED  BY <3>2 DEF written
  <2>5. credit'[p] = credit[p] => is_below_credit_threshold(p)' = is_below_credit_threshold(p)
    BY DEF is_below_credit_threshold
  <2>6. Head(todo).id = p => answer(p) = Failed /\ low(p) = FALSE
    <3>1. wire[1] = Failed /\ ~ReadingArrives
      BY <1>5 DEF ReadingFails, ReadingArrives
    <3> QED  BY <1>3, <3>1, AmountAssumption DEF low, answer, Wanting
  <2>7. ~ReadingArrives
    BY <1>5 DEF ReadingFails, ReadingArrives
  <2> QED  BY <2>2, <2>3, <2>4, <2>5, <2>6, <2>7
<1> QED  BY <1>4, <1>5

\* Without a disturbance, what is settled stays so, and so does what is covered as long as
\* p's monitor can be read.
LEMMA PeacefulStep ==
    ASSUME IInv, [Next]_vars, [~Outside]_vars, NEW p \in Provider
    PROVE  /\ Settled(p) => Settled(p)'
           /\ Covered(p) /\ answer(p) # Failed => Covered(p)' /\ answer(p)' # Failed
<1> SUFFICES ASSUME Aligned(p)
    PROVE  /\ Settled(p) => Settled(p)'
           /\ Covered(p) /\ answer(p) # Failed => Covered(p)' /\ answer(p)' # Failed
  BY DEF Settled, Covered
<1>1. CASE BeginRound
  <2>1. todo = <<>> /\ DOMAIN <<>> = {}
    BY <1>1 DEF BeginRound, IInv, TypeOK
  <2>2. /\ Aligned(p)' /\ low(p)' = low(p) /\ answer(p)' = answer(p)
        /\ is_below_credit_threshold(p)' = is_below_credit_threshold(p)
    BY <1>1, BeginRoundCovers DEF low, answer, Wanting, Read, is_below_credit_threshold
  <2> QED  BY <2>1, <2>2 DEF Settled, Covered
<1>2. CASE ImportMonitors \/ SnapshotFails \/ UNCHANGED vars
  BY <1>2 DEF ImportMonitors, SnapshotFails, vars, outside, Settled, Covered, Aligned, low, answer,
              Wanting, Read, is_below_credit_threshold
<1>3. CASE MonitorAnswers
  <2>1. /\ Aligned(p)' /\ low(p)' = low(p) /\ answer(p)' = answer(p) /\ todo' = todo
        /\ is_below_credit_threshold(p)' = is_below_credit_threshold(p)
    BY <1>3, MonitorAnswersAligns DEF low, answer, Wanting, Read, is_below_credit_threshold
  <2> QED  BY <2>1 DEF Settled, Covered
<1>4. CASE ReadingArrives \/ ReadingFails
  <2>1. /\ Aligned(p)' /\ low(p)' = low(p) /\ answer(p)' = answer(p)
        /\ \A i \in DOMAIN todo : todo[i].id = p /\ Head(todo).id # p =>
              \E j \in DOMAIN todo' : todo'[j].id = p
    BY <1>4, ReadingAligns DEF low, answer, Wanting, Read
  <2>2. CASE Head(todo).id # p
    <3>1. is_below_credit_threshold(p)' = is_below_credit_threshold(p)
      BY <1>4, <2>2, VerdictWritten
    <3> QED  BY <2>1, <2>2, <3>1 DEF Settled, Covered
  <2>3. CASE Head(todo).id = p /\ ReadingArrives
    <3>1. is_below_credit_threshold(p)' = low(p)
      BY <2>3, VerdictWritten
    <3> QED  BY <2>1, <3>1 DEF Settled, Covered
  <2>4. CASE Head(todo).id = p /\ ReadingFails
    <3>1. /\ answer(p) = Failed /\ low(p) = FALSE
          /\ is_below_credit_threshold(p)' \in {is_below_credit_threshold(p), FALSE}
      BY <2>4, VerdictWritten
    <3> QED  BY <2>1, <3>1 DEF Settled
  <2> QED  BY <1>4, <2>2, <2>3, <2>4
<1> QED  BY <1>1, <1>2, <1>3, <1>4 DEF Next, Loop

\* A verdict that is right, with nothing under way that could make it wrong, stays right
\* through every round, a failed reading included, as long as operators and accounts leave
\* it alone.
THEOREM SettledStays ==
    ASSUME NEW p \in Provider
    PROVE  Spec => [](Settled(p) /\ [][~Outside]_vars => []Settled(p))
<1>1. IInv /\ [Next]_vars /\ [~Outside]_vars => (Settled(p) => Settled(p)')
  BY PeacefulStep
<1> QED  BY <1>1, Invariance, PTL DEF Spec

\* A round that begins names every provider in the table, and if nothing disturbs it, it has
\* set the verdict of each that can be read by the time the loop sleeps again.  One that
\* cannot takes N rounds, which is left to the run.
THEOREM RoundSettles ==
    ASSUME NEW p \in Provider
    PROVE  Spec => /\ [][BeginRound /\ p \in listed => Covered(p)']_vars
                   /\ [](Covered(p) /\ answer(p) # Failed /\ [][~Outside]_vars
                           => [](loop = "sleeping" => Settled(p)))
<1> DEFINE Readable == answer(p) # Failed
<1>1. IInv /\ [Next]_vars => [BeginRound /\ p \in listed => Covered(p)']_vars
  BY BeginRoundCovers
<1>2. IInv /\ [Next]_vars /\ [~Outside]_vars
         => (Covered(p) /\ Readable => Covered(p)' /\ Readable')
  BY PeacefulStep
<1>3. IInv /\ Covered(p) => (loop = "sleeping" => Settled(p))
  <2> SUFFICES ASSUME IInv, Covered(p), loop = "sleeping" PROVE Settled(p)
    OBVIOUS
  <2>1. todo = <<>> /\ DOMAIN <<>> = {}
    BY DEF IInv, TypeOK
  <2> QED  BY <2>1 DEF Covered, Settled
<1> HIDE DEF Readable
<1>4. Spec => /\ [][BeginRound /\ p \in listed => Covered(p)']_vars
              /\ [](Covered(p) /\ Readable /\ [][~Outside]_vars
                      => [](loop = "sleeping" => Settled(p)))
  BY <1>1, <1>2, <1>3, Invariance, PTL DEF Spec
<1> QED  BY <1>4 DEF Readable

\* The task that credit_import kills never starts: without the monitors no balance is ever
\* known, and nobody is excluded for want of credit.
THEOREM NobodyExcluded ==
    ASSUME ~MonitorsLoad
    PROVE  Spec => [](\A p \in Provider : ~is_below_credit_threshold(p))
<1> DEFINE Blind == /\ loop \in {"created", "dead"} /\ todo = <<>>
                    /\ \A p \in Provider : credit[p] = <<>>
<1>1. Init => Blind
  BY DEF Init
<1>2. Blind /\ [Next]_vars => Blind'
  <2> SUFFICES ASSUME Blind, [Next]_vars PROVE Blind'
    OBVIOUS
  <2>1. CASE Loop
    BY <2>1 DEF Loop, ImportMonitors, BeginRound, SnapshotFails, MonitorAnswers, ReadingArrives,
                ReadingFails
  <2>2. CASE Outside
    BY <2>2 DEF Outside, create_provider, update_provider, delete_provider, FundsChange, Restart
  <2>3. CASE UNCHANGED vars
    BY <2>3 DEF vars
  <2> QED  BY <2>1, <2>2, <2>3 DEF Next
<1>3. Blind => \A p \in Provider : ~is_below_credit_threshold(p)
  BY DEF is_below_credit_threshold
<1> QED  BY <1>1, <1>2, <1>3, PTL DEF Spec
=============================================================================
