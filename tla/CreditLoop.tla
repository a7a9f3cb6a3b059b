----------------------------- MODULE CreditLoop -----------------------------
(***************************************************************************)
(* The background credit monitor (run_credit_loop and set_credit_state of   *)
(* src/router/credit_health.py, the registry of src/router/monitors).  Once *)
(* in every interval it reads the providers table, thresholds included, and *)
(* asks each provider's monitor for the balance of the account its API key  *)
(* belongs to, awaiting each.  A failed reading leaves the last one in      *)
(* force; after three in a row the balance is unknown, and an unknown       *)
(* balance excludes nobody.                                                 *)
(***************************************************************************)
EXTENDS Integers, Sequences, FiniteSets, Functions

CONSTANTS
    Provider,      \* provider ids
    Key,           \* what a row may hold for an API key, each the key of one account
    Amount,        \* balances and thresholds
    None,          \* Python's None: no threshold, no balance, a field that is not there
    Answer,        \* what a billing API may answer, the fields read in their order
    Failed,        \* a reading that raises
    MonitorsLoad,  \* whether router.monitors can be imported
    StoreFails     \* whether the database may fail (sqlite3.Error)

ASSUME FiniteAssumption == IsFiniteSet(Provider)
ASSUME AmountAssumption == Amount \subseteq Int /\ None \notin Amount /\ Failed \notin Amount
ASSUME AnswerAssumption ==
    Answer \subseteq [diem : Amount \cup {None}, balance : Amount \cup {None}]
ASSUME FlagAssumption == MonitorsLoad \in BOOLEAN /\ StoreFails \in BOOLEAN

\* N_FAIL_BEFORE_OVERWRITE
N == 3

VARIABLES
    rows,       \* the ids in the providers table, in the order of their rowids
    settings,   \* of each row: whether its provider_type has a billing API (venice), its API
                \* key and its credit_threshold
    funds,      \* what the billing API would answer to each key now
    credit,     \* _credit_state: <<>> or one record [supported, balance, below]
    fails,      \* fail_count, a local of the task, counted to N
    loop,       \* the task: "created", "sleeping", "reading" (awaiting a monitor), "dead"
    todo,       \* the rest of the round's snapshot, [id, row] each
    wire,       \* what the first one's monitor made of the answer, on its way: <<>> or
                \* <<reading>>
    streak,     \* history: readings of the provider that failed since the last good one
    poor        \* history: providers whose account read low while a row or a round named it

vars == <<rows, settings, funds, credit, fails, loop, todo, wire, streak, poor>>
outside == <<rows, settings, funds>>

listed == Range(rows)

Setting == [billed : BOOLEAN, key : Key, threshold : Amount \cup {None}]
Reading == Amount \cup {None, Failed}
State == [supported : BOOLEAN, balance : Amount \cup {None}, below : BOOLEAN]

TypeOK ==
    /\ rows \in Seq(Provider) /\ IsInjective(rows)
    /\ settings \in [Provider -> Setting]
    /\ funds \in [Key -> Answer \cup {Failed}]
    /\ credit \in [Provider -> {<<>>} \cup {<<s>> : s \in State}]
    /\ fails \in [Provider -> 0..N]
    /\ loop \in {"created", "sleeping", "reading", "dead"}
    /\ todo \in Seq([id : Provider, row : Setting])
    /\ wire \in {<<>>} \cup {<<a>> : a \in Reading}
    /\ streak \in [Provider -> 0..N]
    /\ poor \subseteq Provider
    /\ loop = "reading" <=> todo # <<>>
    /\ wire # <<>> => loop = "reading"

\* What VeniceMonitor makes of an answer: Python's "or" takes the second field where the
\* first is missing, and also where it is 0.  So an account whose only field says 0 reads as
\* one whose balance is unknown.  (The other endpoints have one field more, "remaining",
\* and a number without a field around it reads like a first field alone.)
Read(answer) ==
    IF answer = Failed THEN Failed
    ELSE IF answer.diem \in {None, 0} THEN answer.balance ELSE answer.diem

\* The readings that exclude a provider with this row.
Wanting(row, reading) ==
    row.billed /\ {reading, row.threshold} \subseteq Amount /\ reading < row.threshold

\* The providers for whom a row of the table, or an entry of the snapshot, names an account
\* that would read too low now.
Short(ids, table, snapshot, accounts) ==
    {p \in Provider :
        \/ p \in ids /\ Wanting(table[p], Read(accounts[table[p].key]))
        \/ \E i \in DOMAIN snapshot :
              /\ snapshot[i].id = p
              /\ Wanting(snapshot[i].row, Read(accounts[snapshot[i].row.key]))}

Init ==
    /\ rows \in UNION {Injection(1..n, Provider) : n \in 0..Cardinality(Provider)}
    /\ settings \in [Provider -> Setting]
    /\ funds \in [Key -> Answer \cup {Failed}]
    /\ credit = [p \in Provider |-> <<>>]
    /\ fails = [p \in Provider |-> 0]
    /\ loop = "created"
    /\ todo = <<>>
    /\ wire = <<>>
    /\ streak = [p \in Provider |-> 0]
    /\ poor = Short(listed, settings, <<>>, funds)

-----------------------------------------------------------------------------
(* The state a reading leaves, and what the router makes of it.            *)

\* Mutant: a balance at the threshold is taken for one below it.
CreditState_AtThreshold(row, balance) ==
    [supported |-> row.billed, balance |-> balance,
     below |-> row.billed /\ row.threshold # None /\ balance # None /\ balance <= row.threshold]

\* set_credit_state: below_threshold is computed when all three are known; both call sites
\* pass False or None for it otherwise.
CreditState(row, balance) ==
    [supported |-> row.billed, balance |-> balance,
     below |-> row.billed /\ row.threshold # None /\ balance # None /\ balance < row.threshold]

\* A failure is taken as one of a provider that has a billing API.
Unread == [billed |-> TRUE, threshold |-> None]

is_below_credit_threshold(p) ==
    credit[p] # <<>> /\ LET s == credit[p][1]
                        IN  s.supported /\ s.balance # None /\ s.below

\* One more, as far as N.
Count(n) == IF n < N THEN n + 1 ELSE N

-----------------------------------------------------------------------------
(* The loop.                                                               *)

Continue(rest) ==
    /\ loop' = IF rest = <<>> THEN "sleeping" ELSE "reading"
    /\ todo' = rest

\* The task's first step imports the monitors, outside of any try.
ImportMonitors ==
    /\ loop = "created"
    /\ loop' = IF MonitorsLoad THEN "sleeping" ELSE "dead"
    /\ UNCHANGED <<outside, credit, fails, todo, wire, streak, poor>>

\* The interval is over (the first round starts at once): the table is read.
BeginRound ==
    /\ loop = "sleeping"
    /\ Continue([i \in DOMAIN rows |-> [id |-> rows[i], row |-> settings[rows[i]]]])
    /\ UNCHANGED <<outside, credit, fails, wire, streak, poor>>

\* Reading the table fails: a sqlite3.Error is not caught, an OSError (from making the
\* database's directory) skips the round.
SnapshotFails ==
    /\ StoreFails
    /\ loop = "sleeping"
    /\ loop' \in {"dead", "sleeping"}
    /\ UNCHANGED <<outside, credit, fails, todo, wire, streak, poor>>

\* The first provider's monitor has its answer, asked for with the API key of the snapshot;
\* the one of providers without a billing API asks nobody and never fails.
MonitorAnswers ==
    /\ loop = "reading" /\ wire = <<>>
    /\ LET row == Head(todo).row
       IN  wire' = <<IF row.billed THEN Read(funds[row.key]) ELSE None>>
    /\ UNCHANGED <<outside, credit, fails, loop, todo, streak, poor>>

\* Mutants: a reading is left over for the next provider; a good one does not forget the
\* failures.
ReadingArrives_Keeps ==
    /\ loop = "reading" /\ wire # <<>> /\ wire[1] # Failed
    /\ LET p == Head(todo).id
       IN  /\ credit' = [credit EXCEPT ![p] = <<CreditState(Head(todo).row, wire[1])>>]
           /\ fails' = [fails EXCEPT ![p] = 0]
           /\ streak' = [streak EXCEPT ![p] = 0]
    /\ Continue(Tail(todo))
    /\ UNCHANGED <<outside, wire, poor>>
ReadingArrives_NoReset ==
    /\ loop = "reading" /\ wire # <<>> /\ wire[1] # Failed
    /\ LET p == Head(todo).id
       IN  /\ credit' = [credit EXCEPT ![p] = <<CreditState(Head(todo).row, wire[1])>>]
           /\ streak' = [streak EXCEPT ![p] = 0]
    /\ Continue(Tail(todo))
    /\ wire' = <<>>
    /\ UNCHANGED <<outside, fails, poor>>

\* A good reading: the failures are forgotten and the state is written, with the threshold
\* of the round's snapshot.
ReadingArrives ==
    /\ loop = "reading" /\ wire # <<>> /\ wire[1] # Failed
    /\ LET p == Head(todo).id
       IN  /\ credit' = [credit EXCEPT ![p] = <<CreditState(Head(todo).row, wire[1])>>]
           /\ fails' = [fails EXCEPT ![p] = 0]
           /\ streak' = [streak EXCEPT ![p] = 0]
    /\ Continue(Tail(todo))
    /\ wire' = <<>>
    /\ UNCHANGED <<outside, poor>>

\* Mutant: an error never takes the last verdict back.
ReadingFails_Forever ==
    /\ loop = "reading" /\ wire = <<Failed>>
    /\ LET p == Head(todo).id
       IN  /\ fails' = [fails EXCEPT ![p] = Count(@)]
           /\ credit' = [credit EXCEPT ![p] = IF @ # <<>> THEN @
                                             ELSE <<CreditState(Unread, None)>>]
           /\ streak' = [streak EXCEPT ![p] = Count(@)]
    /\ Continue(Tail(todo))
    /\ wire' = <<>>
    /\ UNCHANGED <<outside, poor>>

\* A failed one: what is known stays known until the N-th failure in a row, then the
\* balance is unknown.
ReadingFails ==
    /\ loop = "reading" /\ wire = <<Failed>>
    /\ LET p == Head(todo).id
       IN  /\ fails' = [fails EXCEPT ![p] = Count(@)]
           /\ credit' = [credit EXCEPT ![p] = IF fails'[p] < N /\ @ # <<>> THEN @
                                             ELSE <<CreditState(Unread, None)>>]
           /\ streak' = [streak EXCEPT ![p] = Count(@)]
    /\ Continue(Tail(todo))
    /\ wire' = <<>>
    /\ UNCHANGED <<outside, poor>>

-----------------------------------------------------------------------------
(* What happens around it.                                                 *)

create_provider(p, row) ==
    /\ p \notin listed
    /\ rows' = Append(rows, p)
    /\ settings' = [settings EXCEPT ![p] = row]
    /\ poor' = poor \cup Short(Range(rows'), settings', todo, funds)
    /\ UNCHANGED <<funds, credit, fails, loop, todo, wire, streak>>

\* Neither the state nor the count of the provider is dropped with its row.
delete_provider(p) ==
    /\ \E i \in DOMAIN rows :
        rows[i] = p /\ rows' = SubSeq(rows, 1, i - 1) \o SubSeq(rows, i + 1, Len(rows))
    /\ UNCHANGED <<settings, funds, credit, fails, loop, todo, wire, streak, poor>>

\* PATCH sets a type, a key or a threshold; None means "not given", so it cannot take a
\* threshold away.
update_provider(p, row) ==
    /\ p \in listed
    /\ row.threshold = None => settings[p].threshold = None
    /\ settings' = [settings EXCEPT ![p] = row]
    /\ poor' = poor \cup Short(listed, settings', todo, funds)
    /\ UNCHANGED <<rows, funds, credit, fails, loop, todo, wire, streak>>

\* The account is charged or topped up; the billing API fails, or answers again.
FundsChange(k, answer) ==
    /\ funds' = [funds EXCEPT ![k] = answer]
    /\ poor' = poor \cup Short(listed, settings, todo, funds')
    /\ UNCHANGED <<rows, settings, credit, fails, loop, todo, wire, streak>>

\* The process dies, and a new one starts.
Restart ==
    /\ credit' = [p \in Provider |-> <<>>]
    /\ fails' = [p \in Provider |-> 0]
    /\ streak' = [p \in Provider |-> 0]
    /\ loop' = "created"
    /\ todo' = <<>>
    /\ wire' = <<>>
    /\ poor' = Short(listed, settings, <<>>, funds)
    /\ UNCHANGED outside

Outside ==
    \/ \E p \in Provider, row \in Setting : create_provider(p, row) \/ update_provider(p, row)
    \/ \E p \in Provider : delete_provider(p)
    \/ \E k \in Key, a \in Answer \cup {Failed} : FundsChange(k, a)
    \/ Restart

Loop == ImportMonitors \/ BeginRound \/ SnapshotFails \/ MonitorAnswers
            \/ ReadingArrives \/ ReadingFails

Next == Loop \/ Outside

\* The interval passes, a billing call is answered or times out, the event loop comes round
\* to the task, and an OSError does not meet every round for ever.
Fairness ==
    /\ WF_vars(ImportMonitors)
    /\ WF_vars(BeginRound)
    /\ WF_vars(MonitorAnswers)
    /\ WF_vars(ReadingArrives \/ ReadingFails)

Spec == Init /\ [][Next]_vars /\ Fairness

-----------------------------------------------------------------------------
(* Properties.                                                             *)

\* What is known of a provider's credit is not disturbed by a failing billing API: it
\* changes on a good reading, at the third failed one in a row, or with the process.
LastKnownGood ==
    [][\A p \in Provider :
          credit[p] # <<>> /\ credit'[p] # credit[p]
             => \/ credit'[p] = <<>>
                \/ wire # <<>> /\ wire[1] # Failed /\ Head(todo).id = p
                \/ streak'[p] = N]_vars

\* Nobody is excluded without a cause: in one life of the process a provider is taken for
\* below its threshold only if, while its row or a running round named an account and a
\* threshold, that account read as a balance below that threshold, however rounds, patches
\* of key, type and threshold, deletions, failed readings and late answers overlap.
ExcludedForCause == \A p \in Provider : is_below_credit_threshold(p) => p \in poor

\* A provider is excluded for want of credit when, and only when, what is read of its
\* account is a balance below its threshold: once operators and accounts come to rest, the
\* verdict on every listed provider settles on that.  A key or a threshold read before an
\* await and patched during it is stale for one round; a balance nobody can read any more,
\* and one that reads as unknown (see Read), excludes nobody.
\* All this while the task lives: sqlite3.Error kills it for good.
Settles ==
    [](loop # "dead") /\ <>[][~Outside]_vars =>
        \A p \in Provider, low \in BOOLEAN :
            <>[](p \in listed /\ low = Wanting(settings[p], Read(funds[settings[p].key])))
               => <>[](is_below_credit_threshold(p) = low)

\* docs/plan.md:173: a loop "updates credit state and marks "below threshold"".  Every
\* provider that stays in the table is read again and again.
EachRead ==
    \A p \in Provider :
        <>[](p \in listed) => []<>(loop = "reading" /\ Head(todo).id = p)
=============================================================================
