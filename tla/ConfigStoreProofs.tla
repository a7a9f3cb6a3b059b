------------------------- MODULE ConfigStoreProofs -------------------------
(* Proofs about ConfigStore, for any seeds, providers, ranks and keys.                 *)
EXTENDS ConfigStore, TableProofs

-----------------------------------------------------------------------------
(* Types.                                                                  *)

\* What the fields of a transaction are.
LEMMA TransactionShape ==
    ASSUME NEW t \in Transaction
    PROVE  /\ t.op \in {"insert", "update", "rank", "delete", "override", "failover",
                        "routing", "raise"}
           /\ t.op = "insert" => t.id \in Provider /\ t.rank \in Int /\ t.token \in Token \cup {None}
           /\ t.op = "update" => t.id \in Provider /\ t.patch \in Option(Rank)
                                    /\ t.token \in Token \cup {None}
           /\ t.op = "rank" => t.id \in Provider /\ t.rank \in Int
           /\ t.op = "delete" => t.id \in Provider
           /\ t.op = "override" => t.session \in Bearer /\ t.id \in Provider \cup {None}
           /\ t.op = "failover" => t.ids \subseteq Provider
           /\ t.op = "routing" => t.strategy \in Strategy
BY DEF Transaction

\* The next transaction, and what is left after it.
LEMMA JobType ==
    ASSUME TypeOK, job # <<>>
    PROVE  /\ Head(job) \in Transaction /\ Tail(job) \in Seq(Transaction)
           /\ Head(job) = job[1] /\ 1 \in DOMAIN job
           /\ Len(job) \in Nat \ {0} /\ DOMAIN job = 1..Len(job)
           /\ Len(Tail(job)) = Len(job) - 1 /\ DOMAIN Tail(job) = 1..(Len(job) - 1)
           /\ \A i \in 1..(Len(job) - 1) : Tail(job)[i] = job[i + 1]
BY DEF TypeOK

\* A token is made of the process's key and what an operator gave.
LEMMA TokenType ==
    ASSUME NEW key \in EncKey \cup {None}, NEW plain \in ApiKey \cup {Empty, None}
    PROVE  encrypt_api_key(key, plain) \in Token \cup {None}
BY DEF encrypt_api_key, Token

LEMMA InitType == Init => TypeOK
<1> SUFFICES ASSUME Init PROVE TypeOK
  OBVIOUS
<1>1. \A keys, values : IsTable(<<>>, keys, values)
  BY DEF IsTable
<1>2. given \in [Provider -> Token \cup {None}]
  BY DEF Init
<1>3. <<>> \in Seq(Transaction) /\ <<>> \in Seq(Provider)
  OBVIOUS
<1> QED  BY <1>1, <1>2, <1>3 DEF Init, TypeOK

\* What a committed transaction leaves of the job and the process.
LEMMA DoneType ==
    ASSUME TypeOK, job # <<>>, Done
    PROVE  /\ job' \in Seq(Transaction) /\ proc' \in {"booting", "up"} /\ ran' \in BOOLEAN
           /\ proc' = "booting" => job' # <<>>
           /\ enc' = enc /\ given' = given
<1>1. Tail(job) \in Seq(Transaction) /\ proc \in {"booting", "up"}
  BY JobType DEF TypeOK
<1> QED  BY <1>1 DEF Done, TypeOK

LEMMA CommitType == ASSUME TypeOK, Commit PROVE TypeOK'
<1>0. job # <<>>
  BY DEF Commit, Is, provider_insert, provider_update, provider_priority_set, provider_delete,
     agent_override_set, failover_conditions_replace_all, routing_config_set, Raise
<1> DEFINE t == Head(job)
           Stored == [priority : Int, api_key_encrypted : Token \cup {None}]
<1>1. t \in Transaction
  BY <1>0, JobType
<1>2. CASE provider_insert
  <2>1. t.id \in Provider /\ t.rank \in Int /\ t.token \in Token \cup {None}
    BY <1>1, <1>2, TransactionShape DEF provider_insert, Is
  <2>2. [priority |-> t.rank, api_key_encrypted |-> t.token] \in Stored
    BY <2>1
  <2>3. IsTable(providers', Provider, Stored)
    BY <1>2, <2>1, <2>2, UpsertTable DEF TypeOK, provider_insert
  <2>4. Done
    BY <1>2 DEF provider_insert
  <2> QED  BY <1>0, <1>2, <2>3, <2>4, DoneType DEF TypeOK, provider_insert
<1>3. CASE provider_update
  <2>1. t.id \in Provider /\ t.patch \in Option(Rank) /\ t.token \in Token \cup {None}
    BY <1>1, <1>3, TransactionShape DEF provider_update, Is
  <2>2. t.patch # <<>> => t.patch[1] \in Int
    BY <2>1, StoreConstants DEF Option
  <2>3. IsTable(providers', Provider, Stored)
    <3>1. DOMAIN providers' = DOMAIN providers
      BY <1>3 DEF provider_update
    <3>2. ASSUME NEW p \in DOMAIN providers PROVE providers'[p] \in Stored
      <4>1. providers[p] \in Stored
        BY DEF TypeOK, IsTable
      <4>2. CASE p # t.id
        BY <1>3, <4>1, <4>2 DEF provider_update
      <4>3. CASE p = t.id
        BY <1>3, <2>1, <2>2, <4>1, <4>3 DEF provider_update
      <4> QED  BY <4>2, <4>3
    <3>3. providers' = [p \in DOMAIN providers |-> providers'[p]]
      BY <1>3 DEF provider_update
    <3> QED  BY <3>1, <3>2, <3>3 DEF TypeOK, IsTable
  <2>4. Done
    BY <1>3 DEF provider_update
  <2> QED  BY <1>0, <1>3, <2>3, <2>4, DoneType DEF TypeOK, provider_update
<1>4. CASE provider_priority_set
  <2>1. t.id \in Provider /\ t.rank \in Int /\ Done
    BY <1>1, <1>4, TransactionShape DEF provider_priority_set, Is
  <2>2. IsTable(priority', Provider, Int)
    BY <1>4, <2>1, UpsertTable DEF TypeOK, provider_priority_set
  <2> QED  BY <1>0, <1>4, <2>1, <2>2, DoneType DEF TypeOK, provider_priority_set
<1>5. CASE provider_delete
  <2>1. /\ IsTable(providers', Provider, Stored) /\ IsTable(priority', Provider, Int)
        /\ IsTable(override', Bearer, Provider) /\ Done
    BY <1>5, RemoveTable DEF TypeOK, provider_delete
  <2> QED  BY <1>0, <1>5, <2>1, DoneType DEF TypeOK, provider_delete
<1>6. CASE agent_override_set
  <2>1. t.session \in Bearer /\ t.id \in Provider \cup {None} /\ Done
    BY <1>1, <1>6, TransactionShape DEF agent_override_set, Is
  <2>2. IsTable(override', Bearer, Provider)
    BY <1>6, <2>1, UpsertTable, RemoveTable DEF TypeOK, agent_override_set
  <2> QED  BY <1>0, <1>6, <2>1, <2>2, DoneType DEF TypeOK, agent_override_set
<1>7. CASE failover_conditions_replace_all
  <2>1. t.ids \subseteq Provider /\ Done
    BY <1>1, <1>7, TransactionShape DEF failover_conditions_replace_all, Is
  <2> QED  BY <1>0, <1>7, <2>1, DoneType DEF TypeOK, failover_conditions_replace_all
<1>8. CASE routing_config_set
  <2>1. t.strategy \in Strategy /\ Done
    BY <1>1, <1>8, TransactionShape DEF routing_config_set, Is
  <2> QED  BY <1>0, <1>8, <2>1, DoneType DEF TypeOK, routing_config_set
<1>9. CASE Raise
  BY <1>9 DEF Raise, db, history, TypeOK
<1> QED  BY <1>2, <1>3, <1>4, <1>5, <1>6, <1>7, <1>8, <1>9 DEF Commit

\* The transactions the handlers and the bootstrap put together are well formed.
LEMMA InsertType ==
    ASSUME NEW p \in Provider, NEW rank \in Int, NEW token \in Token \cup {None}
    PROVE  insert(p, rank, token) \in Transaction
BY DEF insert, Transaction

LEMMA RankType ==
    ASSUME NEW p \in Provider, NEW rank \in Int PROVE rank_(p, rank) \in Transaction
BY DEF rank_, Transaction

LEMMA UpdateType ==
    ASSUME NEW p \in Provider, NEW rank \in Option(Rank), NEW token \in Token \cup {None}
    PROVE  update(p, rank, token) \in Transaction
BY DEF update, Transaction

\* An order's element by element ranks, a value that is given or not.
LEMMA OptionType ==
    ASSUME NEW S, NEW o \in Option(S)
    PROVE  /\ o \in Seq(S) /\ Len(o) \in {0, 1} /\ DOMAIN o = 1..Len(o)
           /\ o # <<>> => Len(o) = 1
           /\ \A i \in DOMAIN o : o[i] \in S
<1>1. CASE o = <<>>
  BY <1>1
<1>2. CASE o # <<>>
  <2>1. PICK v \in S : o = <<v>>
    BY <1>2 DEF Option
  <2> QED  BY <2>1
<1> QED  BY <1>1, <1>2

LEMMA FunctionIsSequence ==
    ASSUME NEW S, NEW n \in Nat, NEW f \in [1..n -> S]
    PROVE  f \in Seq(S) /\ Len(f) = n /\ DOMAIN f = 1..n
OBVIOUS

\* The job of a PATCH; the parts of the job of a PUT, and the job they make.
patch(p, rank, token) == <<update(p, rank, token)>> \o [i \in DOMAIN rank |-> rank_(p, rank[i])]
routings(routing) == [i \in DOMAIN routing |-> [op |-> "routing", strategy |-> routing[i]]]
ranks(order) == [i \in DOMAIN order |-> rank_(order[i], i - 1)]
failovers(conditions) == [i \in DOMAIN conditions |-> [op |-> "failover", ids |-> conditions[i]]]
put(routing, order, conditions) == routings(routing) \o ranks(order) \o failovers(conditions)

LEMMA PutParts ==
    ASSUME NEW routing \in Option(Strategy), NEW order \in Seq(Provider),
           NEW conditions \in Option(SUBSET Provider)
    PROVE  /\ routings(routing) \in Seq(Transaction) /\ Len(routings(routing)) = Len(routing)
           /\ ranks(order) \in Seq(Transaction) /\ Len(ranks(order)) = Len(order)
           /\ failovers(conditions) \in Seq(Transaction)
           /\ Len(failovers(conditions)) = Len(conditions)
<1>1. routings(routing) \in [1..Len(routing) -> Transaction] /\ Len(routing) \in Nat
  BY OptionType DEF routings, Transaction
<1>2. ranks(order) \in [1..Len(order) -> Transaction] /\ Len(order) \in Nat
  <2>1. \A i \in DOMAIN order : order[i] \in Provider /\ i - 1 \in Int
    OBVIOUS
  <2>2. \A i \in DOMAIN order : rank_(order[i], i - 1) \in Transaction
    BY <2>1, RankType
  <2> QED  BY <2>2 DEF ranks
<1>3. failovers(conditions) \in [1..Len(conditions) -> Transaction] /\ Len(conditions) \in Nat
  BY OptionType DEF failovers, Transaction
<1> QED  BY <1>1, <1>2, <1>3, FunctionIsSequence

\* Where each part stands in the whole.
LEMMA Concatenation ==
    ASSUME NEW S, NEW a \in Seq(S), NEW b \in Seq(S), NEW c \in Seq(S)
    PROVE  LET abc == a \o b \o c IN
           /\ abc \in Seq(S) /\ Len(abc) = Len(a) + Len(b) + Len(c)
           /\ DOMAIN abc = 1..(Len(a) + Len(b) + Len(c))
           /\ \A i \in 1..Len(a) : abc[i] = a[i]
           /\ \A i \in (Len(a) + 1)..(Len(a) + Len(b)) : abc[i] = b[i - Len(a)]
           /\ \A i \in (Len(a) + Len(b) + 1)..(Len(a) + Len(b) + Len(c)) :
                 abc[i] = c[i - Len(a) - Len(b)]
<1>1. /\ a \o b \in Seq(S) /\ Len(a \o b) = Len(a) + Len(b)
      /\ \A i \in 1..Len(a) : (a \o b)[i] = a[i]
      /\ \A i \in (Len(a) + 1)..(Len(a) + Len(b)) : (a \o b)[i] = b[i - Len(a)]
  OBVIOUS
<1> DEFINE ab == a \o b
<1> HIDE DEF ab
<1>2. ab \in Seq(S) /\ Len(ab) = Len(a) + Len(b) /\ Len(a) \in Nat /\ Len(b) \in Nat
  BY <1>1 DEF ab
<1>3. /\ ab \o c \in Seq(S) /\ Len(ab \o c) = Len(ab) + Len(c)
      /\ DOMAIN (ab \o c) = 1..(Len(ab) + Len(c))
      /\ \A i \in 1..Len(ab) : (ab \o c)[i] = ab[i]
      /\ \A i \in (Len(ab) + 1)..(Len(ab) + Len(c)) : (ab \o c)[i] = c[i - Len(ab)]
  BY <1>2, SMTT(30)
<1>4. Len(c) \in Nat
  OBVIOUS
<1>5. \A i \in 1..Len(a) : (ab \o c)[i] = a[i]
  BY <1>1, <1>2, <1>3 DEF ab
<1>6. \A i \in (Len(a) + 1)..(Len(a) + Len(b)) : (ab \o c)[i] = b[i - Len(a)]
  BY <1>1, <1>2, <1>3 DEF ab
<1>7. \A i \in (Len(a) + Len(b) + 1)..(Len(a) + Len(b) + Len(c)) :
         (ab \o c)[i] = c[i - Len(a) - Len(b)]
  <2> TAKE i \in (Len(a) + Len(b) + 1)..(Len(a) + Len(b) + Len(c))
  <2>1. i \in (Len(ab) + 1)..(Len(ab) + Len(c)) /\ i - Len(ab) = i - Len(a) - Len(b)
    BY <1>2, <1>4
  <2> QED  BY <1>3, <2>1
<1> QED  BY <1>2, <1>3, <1>5, <1>6, <1>7 DEF ab

LEMMA PutJob ==
    ASSUME NEW routing \in Option(Strategy), NEW order \in Seq(Provider),
           NEW conditions \in Option(SUBSET Provider)
    PROVE  LET job_ == put(routing, order, conditions)
               m == Len(routing)
               n == Len(order)
               l == Len(conditions)
           IN  /\ job_ \in Seq(Transaction) /\ DOMAIN job_ = 1..(m + n + l) /\ Len(job_) = m + n + l
               /\ m \in {0, 1} /\ n \in Nat /\ l \in {0, 1}
               /\ \A i \in 1..m : job_[i].op = "routing"
               /\ \A i \in (m + 1)..(m + n) : job_[i] = rank_(order[i - m], i - m - 1)
               /\ \A i \in (m + n + 1)..(m + n + l) :
                     job_[i].op = "failover" /\ job_[i].ids \in Range(conditions)
<1> DEFINE a == routings(routing)
           b == ranks(order)
           c == failovers(conditions)
           abc == a \o b \o c
<1>1. \A i \in 1..Len(routing) : a[i].op = "routing"
  BY OptionType DEF routings
<1>2. \A i \in 1..Len(order) : b[i] = rank_(order[i], i - 1)
  BY DEF ranks
<1>3. \A i \in 1..Len(conditions) : c[i].op = "failover" /\ c[i].ids \in Range(conditions)
  BY OptionType DEF failovers, Range
<1>4. /\ a \in Seq(Transaction) /\ b \in Seq(Transaction) /\ c \in Seq(Transaction)
      /\ Len(a) = Len(routing) /\ Len(b) = Len(order) /\ Len(c) = Len(conditions)
  BY PutParts
<1>5. Len(routing) \in {0, 1} /\ Len(order) \in Nat /\ Len(conditions) \in {0, 1}
  BY OptionType
<1>6. abc = a \o b \o c
  OBVIOUS
<1> HIDE DEF a, b, c, abc
<1>7. a \in Seq(Transaction) /\ b \in Seq(Transaction) /\ c \in Seq(Transaction)
  BY <1>4
<1>8. /\ abc \in Seq(Transaction) /\ Len(abc) = Len(a) + Len(b) + Len(c)
      /\ DOMAIN abc = 1..(Len(a) + Len(b) + Len(c))
      /\ \A i \in 1..Len(a) : abc[i] = a[i]
      /\ \A i \in (Len(a) + 1)..(Len(a) + Len(b)) : abc[i] = b[i - Len(a)]
      /\ \A i \in (Len(a) + Len(b) + 1)..(Len(a) + Len(b) + Len(c)) :
            abc[i] = c[i - Len(a) - Len(b)]
  BY <1>6, <1>7, Concatenation
<1>9. ASSUME NEW i \in (Len(a) + 1)..(Len(a) + Len(b))
      PROVE  abc[i] = rank_(order[i - Len(a)], i - Len(a) - 1)
  <2>1. i - Len(a) \in 1..Len(order)
    BY <1>4, <1>5
  <2> QED  BY <1>2, <1>8, <2>1
<1>10. ASSUME NEW i \in (Len(a) + Len(b) + 1)..(Len(a) + Len(b) + Len(c))
       PROVE  abc[i].op = "failover" /\ abc[i].ids \in Range(conditions)
  <2>1. i - Len(a) - Len(b) \in 1..Len(conditions)
    BY <1>4, <1>5
  <2> QED  BY <1>3, <1>8, <2>1
<1>11. abc = put(routing, order, conditions)
  BY <1>6 DEF a, b, c, put
<1>12. \A i \in 1..Len(routing) : abc[i].op = "routing"
  BY <1>1, <1>4, <1>8
<1> QED  BY <1>4, <1>5, <1>8, <1>9, <1>10, <1>11, <1>12

\* The job of a PUT holds nothing else than what was given.
LEMMA PutOps ==
    ASSUME NEW routing \in Option(Strategy), NEW order \in Seq(Provider),
           NEW conditions \in Option(SUBSET Provider)
    PROVE  LET job_ == put(routing, order, conditions)
           IN  \A i \in DOMAIN job_ :
                  \/ job_[i].op = "routing"
                  \/ job_[i].op = "rank" /\ job_[i].id \in Range(order)
                  \/ job_[i].op = "failover" /\ job_[i].ids \in Range(conditions)
<1> DEFINE job_ == put(routing, order, conditions)
           m == Len(routing)
           n == Len(order)
           l == Len(conditions)
<1>1. /\ job_ \in Seq(Transaction) /\ DOMAIN job_ = 1..(m + n + l) /\ Len(job_) = m + n + l
      /\ m \in {0, 1} /\ n \in Nat /\ l \in {0, 1}
      /\ \A i \in 1..m : job_[i].op = "routing"
      /\ \A i \in (m + 1)..(m + n) : job_[i] = rank_(order[i - m], i - m - 1)
      /\ \A i \in (m + n + 1)..(m + n + l) :
            job_[i].op = "failover" /\ job_[i].ids \in Range(conditions)
  BY PutJob
<1>2. DOMAIN order = 1..n
  OBVIOUS
<1> HIDE DEF job_, m, n, l
<1>3. \A i \in (m + 1)..(m + n) : job_[i].op = "rank" /\ job_[i].id \in Range(order)
  <2> TAKE i \in (m + 1)..(m + n)
  <2>1. i - m \in DOMAIN order
    BY <1>1, <1>2
  <2>2. order[i - m] \in Range(order)
    BY <2>1 DEF Range
  <2>3. job_[i] = rank_(order[i - m], i - m - 1)
    BY <1>1
  <2> QED  BY <2>2, <2>3 DEF rank_
<1>4. \A i \in DOMAIN job_ : i \in 1..m \/ i \in (m + 1)..(m + n) \/ i \in (m + n + 1)..(m + n + l)
  BY <1>1
<1>5. \A i \in DOMAIN job_ :
         \/ job_[i].op = "routing"
         \/ job_[i].op = "rank" /\ job_[i].id \in Range(order)
         \/ job_[i].op = "failover" /\ job_[i].ids \in Range(conditions)
  BY <1>1, <1>3, <1>4
<1> QED  BY <1>5 DEF job_

\* One transaction, then others.
LEMMA Prepended ==
    ASSUME NEW S, NEW x \in S, NEW s \in Seq(S)
    PROVE  LET t == <<x>> \o s
           IN  /\ t \in Seq(S) /\ Len(t) = 1 + Len(s) /\ DOMAIN t = 1..(1 + Len(s))
               /\ t # <<>> /\ Head(t) = x /\ t[1] = x
               /\ \A i \in 2..(1 + Len(s)) : t[i] = s[i - 1]
OBVIOUS

\* The job of a PATCH: the row, and its rank when one was given.
LEMMA PatchJob ==
    ASSUME NEW p \in Provider, NEW rank \in Option(Rank), NEW token \in Token \cup {None}
    PROVE  LET job_ == patch(p, rank, token)
           IN  /\ job_ \in Seq(Transaction) /\ DOMAIN job_ = 1..(1 + Len(rank))
               /\ Len(rank) \in {0, 1} /\ Len(job_) = 1 + Len(rank)
               /\ rank = <<>> <=> Len(rank) = 0
               /\ job_ # <<>> /\ Head(job_) = update(p, rank, token)
               /\ job_[1] = update(p, rank, token)
               /\ \A i \in DOMAIN job_ : i > 1 => job_[i].op = "rank" /\ job_[i].id = p
<1> DEFINE x == update(p, rank, token)
           s == [i \in DOMAIN rank |-> rank_(p, rank[i])]
           t == <<x>> \o s
<1>1. \A i \in DOMAIN rank : rank_(p, rank[i]) \in Transaction
  BY OptionType, RankType, StoreConstants
<1>2. DOMAIN rank = 1..Len(rank) /\ Len(rank) \in {0, 1} /\ (rank = <<>> <=> Len(rank) = 0)
  BY OptionType
<1>3. s \in [1..Len(rank) -> Transaction]
         /\ \A i \in 1..Len(rank) : s[i].op = "rank" /\ s[i].id = p
  BY <1>1, <1>2 DEF rank_
<1>4. x \in Transaction
  BY UpdateType
<1>5. t = <<x>> \o s
  OBVIOUS
<1> HIDE DEF x, s, t
<1>6. s \in Seq(Transaction) /\ Len(s) = Len(rank)
  BY <1>2, <1>3, FunctionIsSequence
<1>7. /\ t \in Seq(Transaction) /\ Len(t) = 1 + Len(s) /\ DOMAIN t = 1..(1 + Len(s))
      /\ t # <<>> /\ Head(t) = x /\ t[1] = x
      /\ \A i \in 2..(1 + Len(s)) : t[i] = s[i - 1]
  BY <1>4, <1>5, <1>6, Prepended
<1>8. ASSUME NEW i \in DOMAIN t, i > 1 PROVE t[i].op = "rank" /\ t[i].id = p
  <2>1. i \in 2..(1 + Len(s)) /\ i - 1 \in 1..Len(rank)
    BY <1>2, <1>6, <1>7, <1>8
  <2> QED  BY <1>3, <1>7, <2>1
<1>9. t = patch(p, rank, token)
  BY <1>5 DEF patch, x, s
<1> QED  BY <1>2, <1>6, <1>7, <1>8, <1>9 DEF x

LEMMA PutType ==
    ASSUME TypeOK, NEW routing \in Option(Strategy), NEW order \in Seq(Provider),
           NEW conditions \in Option(SUBSET Provider),
           set_routing_config(routing, order, conditions)
    PROVE  job' \in Seq(Transaction) /\ ghosts' \subseteq Provider /\ asked' \in Seq(Provider)
<1>1. job' = put(routing, order, conditions)
  BY DEF set_routing_config, put, routings, ranks, failovers
<1>2. job' \in Seq(Transaction)
  BY <1>1, PutJob
<1>3. Range(order) \subseteq Provider /\ UNION Range(conditions) \subseteq Provider
  BY OptionType DEF Range
<1>4. ghosts' \subseteq Provider
  BY <1>3 DEF set_routing_config, Ghosts, TypeOK
<1>5. asked' \in Seq(Provider)
  BY DEF set_routing_config, TypeOK
<1> QED  BY <1>2, <1>4, <1>5

\* Every provider_order of a PUT is a sequence of ids.
LEMMA OrdersType == Orders \subseteq Seq(Provider)
<1> SUFFICES ASSUME NEW order \in Orders PROVE order \in Seq(Provider)
  OBVIOUS
<1>1. PICK n \in 0..MaxOrder : order \in [1..n -> Provider]
  BY DEF Orders
<1> QED  BY <1>1, StoreConstants

LEMMA AdminType == ASSUME TypeOK, Admin PROVE TypeOK'
<1>0. proc = "up" /\ UNCHANGED <<db, proc, enc, ran, cut>>
  BY DEF Admin, idle, create_provider, update_provider, delete_provider, post_override,
     set_routing_config
<1>1. ASSUME NEW p \in Provider, Forget(p) PROVE asked' \in Seq(Provider)
  BY <1>1 DEF Forget, TypeOK
<1> DEFINE Given == given' \in [Provider -> Token \cup {None}]
<1>2. ASSUME NEW p \in Provider, NEW rank \in Rank, NEW key \in ApiKeys[p] \cup {None},
             create_provider(p, rank, key)
      PROVE  job' \in Seq(Transaction) /\ asked' \in Seq(Provider) /\ ghosts' = ghosts /\ Given
  <2>1. key \in ApiKey \cup {Empty, None} /\ rank \in Int
    BY StoreConstants DEF ApiKey, Range
  <2>2. encrypt_api_key(enc, key) \in Token \cup {None}
    BY <2>1, TokenType DEF TypeOK
  <2>3. job' \in Seq(Transaction)
    BY <1>2, <2>1, <2>2, InsertType, RankType DEF create_provider
  <2> QED  BY <1>1, <1>2, <2>2, <2>3 DEF create_provider, TypeOK
<1>3. ASSUME NEW p \in Provider, NEW rank \in Option(Rank), NEW key \in ApiKeys[p] \cup {Empty, None},
             update_provider(p, rank, key)
      PROVE  job' \in Seq(Transaction) /\ asked' \in Seq(Provider) /\ ghosts' = ghosts /\ Given
  <2> DEFINE token == encrypt_api_key(enc, key)
  <2>1. key \in ApiKey \cup {Empty, None}
    BY StoreConstants DEF ApiKey, Range
  <2>2. token \in Token \cup {None}
    BY <2>1, TokenType DEF TypeOK
  <2>3. job' \in Seq(Transaction)
    BY <1>3, <2>2, PatchJob DEF update_provider, patch
  <2>7. Given
    BY <1>3, <2>2 DEF update_provider, TypeOK
  <2>8. asked' \in Seq(Provider)
    BY <1>1, <1>3 DEF update_provider, TypeOK
  <2> QED  BY <1>3, <2>3, <2>7, <2>8 DEF update_provider
<1>4. ASSUME NEW p \in Provider, delete_provider(p)
      PROVE  job' \in Seq(Transaction) /\ asked' \in Seq(Provider) /\ ghosts' = ghosts /\ Given
  <2>1. [op |-> "delete", id |-> p] \in Transaction
    BY DEF Transaction
  <2> QED  BY <1>1, <1>4, <2>1 DEF delete_provider, TypeOK
<1>5. ASSUME NEW s \in Bearer, NEW id \in Provider \cup {None}, post_override(s, id)
      PROVE  job' \in Seq(Transaction) /\ asked' = asked /\ ghosts' \subseteq Provider /\ Given
  <2>1. [op |-> "override", session |-> s, id |-> id] \in Transaction
    BY DEF Transaction
  <2> QED  BY <1>5, <2>1 DEF post_override, Ghosts, TypeOK
<1>6. ASSUME NEW routing \in Option(Strategy), NEW order \in Orders,
             NEW ids \in Option(SUBSET Provider), set_routing_config(routing, order, ids)
      PROVE  job' \in Seq(Transaction) /\ asked' \in Seq(Provider) /\ ghosts' \subseteq Provider
               /\ Given
  BY <1>6, PutType, OrdersType DEF set_routing_config, TypeOK
<1>7. job' \in Seq(Transaction) /\ asked' \in Seq(Provider) /\ ghosts' \subseteq Provider /\ Given
  BY <1>2, <1>3, <1>4, <1>5, <1>6 DEF Admin, TypeOK
<1> QED  BY <1>0, <1>7 DEF TypeOK, db

-----------------------------------------------------------------------------
(* The job of the bootstrap.                                               *)

\* The k-th of the transactions that store the seeds: an insert, then its rank.
stored(key, k) ==
    LET seed == Seed[(k + 1) \div 2]
    IN  IF k % 2 = 1
        THEN insert(seed.id, seed.rank, encrypt_api_key(key, seed.api_key))
        ELSE rank_(seed.id, seed.rank)

LEMMA SeedType ==
    ASSUME NEW i \in DOMAIN Seed
    PROVE  /\ Seed[i].id \in Provider /\ Seed[i].rank \in Int
           /\ Seed[i].api_key \in ApiKey \cup {Empty, None}
<1> DEFINE Record == [id : Provider, api_key : ApiKey \cup {None}, rank : Int]
<1>1. Seed \in Seq(Record)
  BY StoreConstants
<1> HIDE DEF Record
<1>2. Seed[i] \in Record
  BY <1>1
<1> QED  BY <1>2 DEF Record

LEMMA StoredType ==
    ASSUME NEW key \in EncKey \cup {None}, NEW n \in 0..Len(Seed), NEW k \in 1..(2 * n)
    PROVE  /\ (k + 1) \div 2 \in DOMAIN Seed
           /\ stored(key, k) \in Transaction
           /\ stored(key, k).op \in {"insert", "rank"}
           /\ stored(key, k).op = "insert" =>
                 /\ k + 1 \in 1..(2 * n)
                 /\ stored(key, k + 1).op = "rank"
                 /\ stored(key, k + 1).id = stored(key, k).id
                 /\ stored(key, k).id = Seed[(k + 1) \div 2].id
                 /\ stored(key, k).token = encrypt_api_key(key, Seed[(k + 1) \div 2].api_key)
           /\ stored(key, k).op = "rank" =>
                 /\ k - 1 \in 1..(2 * n)
                 /\ stored(key, k - 1).op = "insert"
                 /\ stored(key, k - 1).id = stored(key, k).id
<1> DEFINE j == (k + 1) \div 2
           seed == Seed[j]
<1>0. Len(Seed) \in Nat /\ DOMAIN Seed = 1..Len(Seed) /\ n \in Nat /\ k \in Nat
  BY StoreConstants
<1>1. j \in DOMAIN Seed
  BY <1>0
<1>2. seed.id \in Provider /\ seed.rank \in Int
        /\ encrypt_api_key(key, seed.api_key) \in Token \cup {None}
  BY <1>1, SeedType, TokenType
<1>3. CASE k % 2 = 1
  <2>1. k + 1 \in 1..(2 * n) /\ (k + 1 + 1) \div 2 = j /\ (k + 1) % 2 # 1
    BY <1>0, <1>3
  <2>2. stored(key, k) = insert(seed.id, seed.rank, encrypt_api_key(key, seed.api_key))
    BY <1>3 DEF stored
  <2>3. stored(key, k + 1) = rank_(seed.id, seed.rank)
    BY <2>1 DEF stored
  <2>4. stored(key, k) \in Transaction
    BY <1>2, <2>2, InsertType
  <2> QED  BY <1>1, <2>1, <2>2, <2>3, <2>4 DEF insert, rank_
<1>4. CASE k % 2 # 1
  <2>1. k - 1 \in 1..(2 * n) /\ (k - 1 + 1) \div 2 = j /\ (k - 1) % 2 = 1
    BY <1>0, <1>4
  <2>2. stored(key, k) = rank_(seed.id, seed.rank)
    BY <1>4 DEF stored
  <2>3. stored(key, k - 1) = insert(seed.id, seed.rank, encrypt_api_key(key, seed.api_key))
    BY <2>1 DEF stored
  <2>4. stored(key, k) \in Transaction
    BY <1>2, <2>2, RankType
  <2> QED  BY <1>1, <2>1, <2>2, <2>3, <2>4 DEF insert, rank_
<1> QED  BY <1>3, <1>4

\* The same, of every row Boot stores at once.
LEMMA StoredPairs ==
    ASSUME NEW key \in EncKey \cup {None}, NEW n \in 0..Len(Seed)
    PROVE  \A k \in 1..(2 * n) :
           /\ stored(key, k).op = "insert" =>
                 /\ (k + 1) \div 2 \in DOMAIN Seed
                 /\ k + 1 \in 1..(2 * n)
                 /\ stored(key, k + 1).op = "rank"
                 /\ stored(key, k + 1).id = stored(key, k).id
                 /\ stored(key, k).id = Seed[(k + 1) \div 2].id
                 /\ stored(key, k).token = encrypt_api_key(key, Seed[(k + 1) \div 2].api_key)
           /\ stored(key, k).op = "rank" =>
                 /\ k - 1 \in 1..(2 * n)
                 /\ stored(key, k - 1).op = "insert"
                 /\ stored(key, k - 1).id = stored(key, k).id
<1> TAKE k \in 1..(2 * n)
<1>1. /\ (k + 1) \div 2 \in DOMAIN Seed
      /\ stored(key, k) \in Transaction
      /\ stored(key, k).op \in {"insert", "rank"}
      /\ stored(key, k).op = "insert" =>
            /\ k + 1 \in 1..(2 * n)
            /\ stored(key, k + 1).op = "rank"
            /\ stored(key, k + 1).id = stored(key, k).id
            /\ stored(key, k).id = Seed[(k + 1) \div 2].id
            /\ stored(key, k).token = encrypt_api_key(key, Seed[(k + 1) \div 2].api_key)
      /\ stored(key, k).op = "rank" =>
            /\ k - 1 \in 1..(2 * n)
            /\ stored(key, k - 1).op = "insert"
            /\ stored(key, k - 1).id = stored(key, k).id
  BY StoredType, ZenonT(40)
<1> QED  BY <1>1, Zenon

LEMMA SeedingShape ==
    ASSUME NEW key \in EncKey \cup {None}, NEW n \in 0..Len(Seed)
    PROVE  LET s == Seeding(key, n) IN
           /\ s \in Seq(Transaction) /\ DOMAIN s = 1..Len(s) /\ Len(s) \in Nat
           /\ Len(s) >= 2 * n + 1
           /\ Len(s) = IF n < Len(Seed) THEN 2 * n + 2 ELSE 2 * n + 1
           /\ s[1].op = "routing"
           /\ \A k \in 1..(2 * n) : s[k + 1] = stored(key, k)
           /\ \A i \in DOMAIN s : i > 2 * n + 1 => s[i].op = "raise"
<1> DEFINE a == <<[op |-> "routing", strategy |-> SeedStrategy]>>
           b == [k \in 1..(2 * n) |-> stored(key, k)]
           c == IF n < Len(Seed) THEN <<[op |-> "raise"]>> ELSE <<>>
           abc == a \o b \o c
<1>0. n \in Nat /\ 2 * n \in Nat
  BY StoreConstants
<1>1. [op |-> "routing", strategy |-> SeedStrategy] \in Transaction
  BY StoreConstants DEF Transaction
<1>2. a \in Seq(Transaction) /\ Len(a) = 1 /\ a[1].op = "routing"
  BY <1>1
<1>3. b \in [1..(2 * n) -> Transaction] /\ \A k \in 1..(2 * n) : b[k] = stored(key, k)
  BY StoredType
<1>4. b \in Seq(Transaction) /\ Len(b) = 2 * n
  <2> HIDE DEF b
  <2> QED  BY <1>0, <1>3, FunctionIsSequence
<1>5. [op |-> "raise"] \in Transaction
  BY DEF Transaction
<1>6. /\ c \in Seq(Transaction) /\ Len(c) \in {0, 1} /\ \A i \in 1..Len(c) : c[i].op = "raise"
      /\ Len(c) = IF n < Len(Seed) THEN 1 ELSE 0
  BY <1>5
<1>7. Seeding(key, n) = abc
  BY DEF Seeding, stored
<1> HIDE DEF a, b, c
<1>8. /\ abc \in Seq(Transaction) /\ Len(abc) = 1 + 2 * n + Len(c)
      /\ DOMAIN abc = 1..(1 + 2 * n + Len(c))
      /\ \A i \in 1..1 : abc[i] = a[i]
      /\ \A i \in 2..(1 + 2 * n) : abc[i] = b[i - 1]
      /\ \A i \in (1 + 2 * n + 1)..(1 + 2 * n + Len(c)) : abc[i] = c[i - 1 - 2 * n]
  <2>1. /\ abc \in Seq(Transaction) /\ Len(abc) = Len(a) + Len(b) + Len(c)
        /\ DOMAIN abc = 1..(Len(a) + Len(b) + Len(c))
        /\ \A i \in 1..Len(a) : abc[i] = a[i]
        /\ \A i \in (Len(a) + 1)..(Len(a) + Len(b)) : abc[i] = b[i - Len(a)]
        /\ \A i \in (Len(a) + Len(b) + 1)..(Len(a) + Len(b) + Len(c)) :
              abc[i] = c[i - Len(a) - Len(b)]
    <3>1. a \in Seq(Transaction) /\ b \in Seq(Transaction) /\ c \in Seq(Transaction)
      BY <1>2, <1>4, <1>6
    <3>2. abc = a \o b \o c
      OBVIOUS
    <3> HIDE DEF abc
    <3> QED  BY <3>1, <3>2, Concatenation
  <2> HIDE DEF abc
  <2>2. Len(a) + 1 = 2 /\ Len(a) + Len(b) = 1 + 2 * n
    BY <1>0, <1>2, <1>4
  <2> QED  BY <1>2, <1>4, <2>1, <2>2
<1> HIDE DEF abc
<1>9. \A k \in 1..(2 * n) : abc[k + 1] = stored(key, k)
  <2> TAKE k \in 1..(2 * n)
  <2>1. k + 1 \in 2..(1 + 2 * n) /\ k + 1 - 1 = k
    BY <1>0
  <2> QED  BY <1>3, <1>8, <2>1
<1>10. \A i \in DOMAIN abc : i > 2 * n + 1 => abc[i].op = "raise"
  <2> SUFFICES ASSUME NEW i \in DOMAIN abc, i > 2 * n + 1 PROVE abc[i].op = "raise"
    OBVIOUS
  <2>1. i \in (1 + 2 * n + 1)..(1 + 2 * n + Len(c)) /\ i - 1 - 2 * n \in 1..Len(c)
    BY <1>0, <1>6, <1>8
  <2> QED  BY <1>6, <1>8, <2>1
<1>11. /\ abc[1].op = "routing" /\ Len(abc) \in Nat /\ Len(abc) >= 2 * n + 1
       /\ Len(abc) = IF n < Len(Seed) THEN 2 * n + 2 ELSE 2 * n + 1
       /\ DOMAIN abc = 1..Len(abc)
  BY <1>0, <1>2, <1>6, <1>8
<1> QED  BY <1>7, <1>8, <1>9, <1>10, <1>11

\* What the first start, or any over an empty table, is given for a key.
LEMMA SeedOfSeed == \A i \in DOMAIN Seed : SeedOf(Seed[i].id) = Seed[i]
<1> SUFFICES ASSUME NEW i \in DOMAIN Seed PROVE SeedOf(Seed[i].id) = Seed[i]
  OBVIOUS
<1> DEFINE j == CHOOSE k \in DOMAIN Seed : Seed[k].id = Seed[i].id
<1>1. j \in DOMAIN Seed /\ Seed[j].id = Seed[i].id
  OBVIOUS
<1> HIDE DEF j
<1>2. j = i
  BY <1>1, StoreConstants
<1> QED  BY <1>2 DEF SeedOf, j

LEMMA ProcessType ==
    ASSUME TypeOK, Process, Is("update") => Head(job).id \in DOMAIN providers
    PROVE  TypeOK'
<1>1. CASE Crash
  <2>1. given' \in [Provider -> Token \cup {None}]
    <3>1. CASE ~Is("update")
      BY <1>1, <3>1 DEF Crash, TypeOK
    <3>2. CASE Is("update")
      <4>1. given' = [given EXCEPT ![Head(job).id] = providers[Head(job).id].api_key_encrypted]
        BY <1>1, <3>2 DEF Crash
      <4>2. providers[Head(job).id].api_key_encrypted \in Token \cup {None}
        BY <3>2 DEF TypeOK, IsTable
      <4> QED  BY <4>1, <4>2 DEF TypeOK
    <3> QED  BY <3>1, <3>2
  <2>2. cut' \subseteq Provider /\ asked' \in Seq(Provider)
    BY <1>1 DEF Crash, TypeOK, IsTable
  <2> QED  BY <1>1, <2>1, <2>2 DEF Crash, db, TypeOK
<1>2. ASSUME NEW key \in EncKey \cup {None}, Boot(key) PROVE TypeOK'
  <2>0. UNCHANGED <<db, cut, ghosts>> /\ enc' = key /\ job = <<>>
    BY <1>2 DEF Boot, TypeOK
  <2>1. CASE DOMAIN providers # {} \/ Seed = <<>>
    BY <1>2, <2>0, <2>1 DEF Boot, db, TypeOK
  <2>2. CASE ~(DOMAIN providers # {} \/ Seed = <<>>)
    <3>1. PICK n \in 0..Len(Seed) : job' = Seeding(key, n)
      BY <1>2, <2>2 DEF Boot
    <3>2. job' \in Seq(Transaction) /\ job' # <<>>
      <4>1. n \in Nat /\ 2 * n + 1 > 0
        BY StoreConstants
      <4>2. job' \in Seq(Transaction) /\ Len(job') > 0
        BY <3>1, <4>1, SeedingShape
      <4> QED  BY <4>2
    <3>3. given' \in [Provider -> Token \cup {None}]
      <4>1. given' = [p \in Provider |->
                         IF \E i \in DOMAIN Seed : Seed[i].id = p
                         THEN encrypt_api_key(key, SeedOf(p).api_key) ELSE given[p]]
        BY <1>2, <2>2 DEF Boot
      <4>2. ASSUME NEW i \in DOMAIN Seed
            PROVE  encrypt_api_key(key, SeedOf(Seed[i].id).api_key) \in Token \cup {None}
        BY SeedOfSeed, SeedType, TokenType
      <4>3. ASSUME NEW p \in Provider PROVE given'[p] \in Token \cup {None}
        <5>1. given[p] \in Token \cup {None}
          BY DEF TypeOK
        <5> QED  BY <4>1, <4>2, <5>1
      <4> QED  BY <4>1, <4>3
    <3>4. proc' = "booting" /\ asked' = <<>> /\ ran' = ran
      BY <1>2, <2>2 DEF Boot
    <3> QED  BY <2>0, <3>2, <3>3, <3>4 DEF db, TypeOK
  <2> QED  BY <2>1, <2>2
<1> QED  BY <1>1, <1>2 DEF Process

-----------------------------------------------------------------------------
(* The inductive invariant: what the transactions still to come promise.   *)

\* An insert is followed by the rank of the same provider.
Paired ==
    \A i \in DOMAIN job : job[i].op = "insert" =>
        i + 1 \in DOMAIN job /\ job[i + 1].op = "rank" /\ job[i + 1].id = job[i].id

\* A provider has its rank, or will have it in the next transaction, or a crash cut its
\* creation in two.
Ranked ==
    \A p \in DOMAIN providers \ DOMAIN priority :
        p \in cut \/ (Is("rank") /\ Head(job).id = p)

\* A deletion is a job of its own.
Alone == \A i \in DOMAIN job : job[i].op = "delete" => Len(job) = 1

known == DOMAIN providers \cup ghosts

\* What is going to be named exists, is a ghost, or is just being created.
Sourced ==
    \A i \in DOMAIN job :
        /\ job[i].op = "rank" =>
              \/ job[i].id \in known
              \/ i > 1 /\ job[i - 1].op = "insert" /\ job[i - 1].id = job[i].id
        /\ job[i].op = "override" => job[i].id \in known \cup {None}
        /\ job[i].op = "failover" => job[i].ids \subseteq known

\* The token of a row is the last one given for it, or will be after the next transaction.
Keyed ==
    /\ \A i \in DOMAIN job :
          /\ job[i].op = "insert" => job[i].token = given[job[i].id]
          /\ job[i].op = "update" =>
                i = 1 /\ job[i].id \in DOMAIN providers
                      /\ job[i].token \in {None, given[job[i].id]}
    /\ \A p \in DOMAIN providers :
          \/ providers[p].api_key_encrypted = given[p]
          \/ Is("update") /\ Head(job).id = p /\ Head(job).token # None

IInv == TypeOK /\ Paired /\ Ranked /\ Alone /\ NoOrphans /\ Sourced /\ Keyed

LEMMA IInvInit == Init => IInv
<1> SUFFICES ASSUME Init PROVE IInv
  OBVIOUS
<1>1. DOMAIN job = {} /\ DOMAIN providers = {} /\ DOMAIN priority = {} /\ Range(override) = {}
        /\ failover = {}
  BY DEF Init, Range
<1> QED  BY <1>1, InitType DEF Init, IInv, Paired, Ranked, Alone, NoOrphans, Sourced, Keyed

\* Each handler starts from rest, with this job.
NewJob ==
    \/ \E p \in Provider, rank \in Int, token \in Token \cup {None} :
          /\ p \notin DOMAIN providers
          /\ job' = <<insert(p, rank, token), rank_(p, rank)>>
          /\ given' = [given EXCEPT ![p] = token]
          /\ ghosts' = ghosts /\ Forget(p)
    \/ \E p \in DOMAIN providers, rank \in Option(Rank), token \in Token \cup {None} :
          /\ job' = patch(p, rank, token)
          /\ given' = IF token = None THEN given ELSE [given EXCEPT ![p] = token]
          /\ ghosts' = ghosts
          /\ IF rank = <<>> THEN UNCHANGED asked ELSE Forget(p)
    \/ \E p \in DOMAIN providers :
          /\ job' = <<[op |-> "delete", id |-> p]>>
          /\ given' = given /\ ghosts' = ghosts /\ Forget(p)
    \/ \E s \in Bearer, id \in Provider \cup {None} :
          /\ job' = <<[op |-> "override", session |-> s, id |-> id]>>
          /\ given' = given /\ asked' = asked /\ Ghosts({id} \ {None})
    \/ \E routing \in Option(Strategy), order \in Seq(Provider), ids \in Option(SUBSET Provider) :
          /\ job' = put(routing, order, ids)
          /\ given' = given /\ Ghosts(Range(order) \cup UNION Range(ids))
          /\ asked' = IF order = <<>> THEN asked ELSE order

LEMMA AdminStarts ==
    ASSUME TypeOK, Admin
    PROVE  idle /\ UNCHANGED <<db, proc, enc, ran, cut>> /\ NewJob
<1>1. ASSUME NEW p \in Provider, NEW rank \in Rank, NEW key \in ApiKeys[p] \cup {None},
             create_provider(p, rank, key)
      PROVE  NewJob
  <2>1. key \in ApiKey \cup {Empty, None} /\ rank \in Int
    BY StoreConstants DEF ApiKey, Range
  <2>2. encrypt_api_key(enc, key) \in Token \cup {None}
    BY <2>1, TokenType DEF TypeOK
  <2> QED  BY <1>1, <2>1, <2>2 DEF create_provider, NewJob
<1>2. ASSUME NEW p \in Provider, NEW rank \in Option(Rank), NEW key \in ApiKeys[p] \cup {Empty, None},
             update_provider(p, rank, key)
      PROVE  NewJob
  <2> DEFINE token == encrypt_api_key(enc, key)
  <2>1. key \in ApiKey \cup {Empty, None}
    BY StoreConstants DEF ApiKey, Range
  <2>2. token \in Token \cup {None}
    BY <2>1, TokenType DEF TypeOK
  <2>3. /\ p \in DOMAIN providers
        /\ job' = patch(p, rank, token)
        /\ given' = IF token = None THEN given ELSE [given EXCEPT ![p] = token]
        /\ ghosts' = ghosts
        /\ IF rank = <<>> THEN UNCHANGED asked ELSE Forget(p)
    BY <1>2 DEF update_provider, patch
  <2> HIDE DEF token
  <2> QED  BY <2>2, <2>3 DEF NewJob
<1>3. ASSUME NEW p \in Provider, delete_provider(p) PROVE NewJob
  BY <1>3 DEF delete_provider, NewJob
<1>4. ASSUME NEW s \in Bearer, NEW id \in Provider \cup {None}, post_override(s, id) PROVE NewJob
  BY <1>4 DEF post_override, NewJob
<1>5. ASSUME NEW routing \in Option(Strategy), NEW order \in Orders,
             NEW ids \in Option(SUBSET Provider), set_routing_config(routing, order, ids)
      PROVE  NewJob
  <2>1. order \in Seq(Provider)
    BY OrdersType
  <2> QED  BY <1>5, <2>1 DEF set_routing_config, put, routings, ranks, failovers, NewJob
<1>6. NewJob
  BY <1>1, <1>2, <1>3, <1>4, <1>5 DEF Admin
<1>7. idle /\ UNCHANGED <<db, proc, enc, ran, cut>>
  BY DEF Admin, create_provider, update_provider, delete_provider, post_override,
     set_routing_config
<1> QED  BY <1>6, <1>7

-----------------------------------------------------------------------------
(* The invariant, group by group of actions.                               *)

LEMMA AdminStep == ASSUME IInv, Admin PROVE IInv'
<1>0. /\ TypeOK /\ TypeOK' /\ job = <<>> /\ UNCHANGED <<db, proc, enc, ran, cut>> /\ NewJob
      /\ DOMAIN job = {}
  BY AdminStarts, AdminType DEF IInv, idle
<1>1. /\ \A p \in DOMAIN providers \ DOMAIN priority : p \in cut
      /\ \A p \in DOMAIN providers : providers[p].api_key_encrypted = given[p]
      /\ NoOrphans /\ DOMAIN providers \subseteq Provider
      /\ given \in [Provider -> Token \cup {None}]
  BY <1>0 DEF IInv, Ranked, Keyed, Is, TypeOK, IsTable
<1>2. ghosts \subseteq ghosts' /\ known \subseteq known'
  BY <1>0 DEF NewJob, Ghosts, known, db
<1>3. Ranked' /\ NoOrphans'
  BY <1>0, <1>1, <1>2 DEF Ranked, NoOrphans, db
<1> DEFINE Sound == Paired' /\ Alone' /\ Sourced' /\ Keyed'
<1>4. ASSUME NEW p \in Provider, NEW rank \in Int, NEW token \in Token \cup {None},
             p \notin DOMAIN providers,
             job' = <<insert(p, rank, token), rank_(p, rank)>>,
             given' = [given EXCEPT ![p] = token]
      PROVE  Sound
  <2>1. DOMAIN job' = 1..2 /\ job'[1] = insert(p, rank, token) /\ job'[2] = rank_(p, rank)
    BY <1>4
  <2>2. Paired' /\ Alone' /\ Sourced'
    BY <2>1 DEF Paired, Alone, Sourced, insert, rank_
  <2>3. given'[p] = token /\ \A q \in DOMAIN providers : given'[q] = given[q]
    BY <1>1, <1>4
  <2>4. Keyed'
    BY <1>0, <1>1, <2>1, <2>3 DEF Keyed, insert, rank_, db
  <2> QED  BY <2>2, <2>4
<1>5. ASSUME NEW p \in DOMAIN providers, NEW rank \in Option(Rank), NEW token \in Token \cup {None},
             job' = patch(p, rank, token),
             given' = IF token = None THEN given ELSE [given EXCEPT ![p] = token]
      PROVE  Sound
  <2>1. DOMAIN job' = 1..(1 + Len(rank)) /\ job'[1] = update(p, rank, token) /\ job' # <<>>
          /\ Head(job') = update(p, rank, token)
          /\ \A i \in DOMAIN job' : i > 1 => job'[i].op = "rank" /\ job'[i].id = p
    BY <1>1, <1>5, PatchJob
  <2>2. Paired' /\ Alone'
    BY <2>1 DEF Paired, Alone, update
  <2>3. p \in known'
    BY <1>2 DEF known
  <2>4. Sourced'
    BY <2>1, <2>3 DEF Sourced, update
  <2>5. given'[p] = (IF token = None THEN given[p] ELSE token)
          /\ \A q \in DOMAIN providers : q # p => given'[q] = given[q]
    BY <1>1, <1>5
  <2>6. ASSUME NEW i \in DOMAIN job'
        PROVE  /\ job'[i].op = "insert" => job'[i].token = given'[job'[i].id]
               /\ job'[i].op = "update" =>
                     i = 1 /\ job'[i].id \in DOMAIN providers
                           /\ job'[i].token \in {None, given'[job'[i].id]}
    BY <2>1, <2>5 DEF update
  <2>7. ASSUME NEW q \in DOMAIN providers
        PROVE  \/ providers[q].api_key_encrypted = given'[q]
               \/ Head(job').op = "update" /\ Head(job').id = q /\ Head(job').token # None
    BY <1>1, <2>1, <2>5 DEF update
  <2>8. providers' = providers
    BY <1>0 DEF db
  <2>9. Keyed'
    BY <2>1, <2>6, <2>7, <2>8 DEF Keyed, Is
  <2> QED  BY <2>2, <2>4, <2>9
<1>6. ASSUME NEW p \in DOMAIN providers, job' = <<[op |-> "delete", id |-> p]>>, given' = given
      PROVE  Sound
  <2>1. DOMAIN job' = 1..1 /\ Len(job') = 1 /\ job'[1].op = "delete"
    BY <1>6
  <2>2. Paired' /\ Alone' /\ Sourced'
    BY <2>1 DEF Paired, Alone, Sourced
  <2>3. Keyed'
    BY <1>0, <1>1, <1>6, <2>1 DEF Keyed, db
  <2> QED  BY <2>2, <2>3
<1>7. ASSUME NEW s \in Bearer, NEW id \in Provider \cup {None},
             job' = <<[op |-> "override", session |-> s, id |-> id]>>,
             given' = given, Ghosts({id} \ {None})
      PROVE  Sound
  <2>1. DOMAIN job' = 1..1 /\ job'[1].op = "override" /\ job'[1].id = id
    BY <1>7
  <2>2. Paired' /\ Alone'
    BY <2>1 DEF Paired, Alone
  <2>3. id \in known' \cup {None}
    BY <1>0, <1>7 DEF Ghosts, known, db
  <2>4. Sourced'
    BY <2>1, <2>3 DEF Sourced
  <2>5. Keyed'
    BY <1>0, <1>1, <1>7, <2>1 DEF Keyed, db
  <2> QED  BY <2>2, <2>4, <2>5
<1>8. ASSUME NEW routing \in Option(Strategy), NEW order \in Seq(Provider),
             NEW ids \in Option(SUBSET Provider),
             job' = put(routing, order, ids),
             given' = given, Ghosts(Range(order) \cup UNION Range(ids))
      PROVE  Sound
  <2>1. \A i \in DOMAIN job' :
           \/ job'[i].op = "routing"
           \/ job'[i].op = "rank" /\ job'[i].id \in Range(order)
           \/ job'[i].op = "failover" /\ job'[i].ids \in Range(ids)
    BY <1>8, PutOps
  <2>2. Paired' /\ Alone'
    BY <2>1 DEF Paired, Alone
  <2>3. Range(order) \subseteq known' /\ \A x \in Range(ids) : x \subseteq known'
    BY <1>0, <1>8 DEF Ghosts, known, db
  <2>4. Sourced'
    BY <2>1, <2>3 DEF Sourced
  <2>5. Keyed'
    BY <1>0, <1>1, <1>8, <2>1 DEF Keyed, db
  <2> QED  BY <2>2, <2>4, <2>5
<1>9. Sound
  BY <1>0, <1>4, <1>5, <1>6, <1>7, <1>8 DEF NewJob
<1> QED  BY <1>0, <1>3, <1>9 DEF IInv

\* A transaction is over: the rest of the job is as sound as before.
LEMMA RestIsSound ==
    ASSUME IInv, job # <<>>, job' = Tail(job), given' = given,
           Is("delete") \/ known \subseteq known',
           Is("insert") => Head(job).id \in known'
    PROVE  /\ Paired' /\ Alone' /\ Sourced'
           /\ \A i \in DOMAIN job' :
                 /\ job'[i].op = "insert" => job'[i].token = given'[job'[i].id]
                 /\ job'[i].op # "update"
<1>1. /\ Head(job) = job[1] /\ 1 \in DOMAIN job
      /\ Len(job) \in Nat \ {0} /\ DOMAIN job = 1..Len(job)
      /\ Len(job') = Len(job) - 1 /\ DOMAIN job' = 1..(Len(job) - 1)
      /\ \A i \in 1..(Len(job) - 1) : job'[i] = job[i + 1]
  BY JobType DEF IInv
<1>2. ASSUME NEW i \in DOMAIN job'
      PROVE  i \in Nat /\ i >= 1 /\ i + 1 \in DOMAIN job /\ i \in DOMAIN job /\ job'[i] = job[i + 1]
               /\ Len(job) # 1 /\ i + 1 # 1 /\ i + 1 - 1 = i
  BY <1>1, <1>2
<1>3. Paired'
  <2> SUFFICES ASSUME NEW i \in DOMAIN job', job'[i].op = "insert"
               PROVE  i + 1 \in DOMAIN job' /\ job'[i + 1].op = "rank" /\ job'[i + 1].id = job'[i].id
    BY DEF Paired
  <2>1. i + 1 + 1 \in DOMAIN job /\ job[i + 1 + 1].op = "rank" /\ job[i + 1 + 1].id = job[i + 1].id
    BY <1>2 DEF IInv, Paired
  <2>2. i + 1 \in 1..(Len(job) - 1)
    BY <1>1, <1>2, <2>1
  <2> QED  BY <1>1, <1>2, <2>1, <2>2
<1>4. Alone'
  BY <1>2 DEF IInv, Alone
<1>5. Sourced'
  <2> SUFFICES ASSUME NEW i \in DOMAIN job'
               PROVE  /\ job'[i].op = "rank" =>
                            \/ job'[i].id \in known'
                            \/ i > 1 /\ job'[i - 1].op = "insert" /\ job'[i - 1].id = job'[i].id
                      /\ job'[i].op = "override" => job'[i].id \in known' \cup {None}
                      /\ job'[i].op = "failover" => job'[i].ids \subseteq known'
    BY DEF Sourced
  <2>1. ~Is("delete")
    BY <1>1, <1>2 DEF IInv, Alone, Is
  <2>2. known \subseteq known'
    BY <2>1
  <2>3. /\ job[i + 1].op = "rank" =>
              job[i + 1].id \in known \/ (job[i].op = "insert" /\ job[i].id = job[i + 1].id)
        /\ job[i + 1].op = "override" => job[i + 1].id \in known \cup {None}
        /\ job[i + 1].op = "failover" => job[i + 1].ids \subseteq known
    BY <1>2 DEF IInv, Sourced
  <2>4. CASE i = 1
    BY <1>1, <1>2, <2>2, <2>3, <2>4 DEF Is
  <2>5. CASE i > 1
    <3>1. i - 1 \in 1..(Len(job) - 1) /\ i - 1 + 1 = i
      BY <1>1, <2>5
    <3>2. job'[i - 1] = job[i]
      BY <1>1, <3>1
    <3> QED  BY <1>2, <2>2, <2>3, <2>5, <3>2
  <2> QED  BY <1>2, <2>4, <2>5
<1>6. ASSUME NEW i \in DOMAIN job'
      PROVE  /\ job'[i].op = "insert" => job'[i].token = given'[job'[i].id]
             /\ job'[i].op # "update"
  BY <1>2 DEF IInv, Keyed
<1> QED  BY <1>3, <1>4, <1>5, <1>6

LEMMA CommitStep == ASSUME IInv, Commit PROVE IInv'
<1> DEFINE t == Head(job)
<1>0. TypeOK /\ TypeOK' /\ job # <<>> /\ (Done \/ Raise)
  BY CommitType DEF IInv, Commit, Is, provider_insert, provider_update, provider_priority_set,
     provider_delete, agent_override_set, failover_conditions_replace_all, routing_config_set, Raise
<1>1. /\ t \in Transaction /\ t = job[1] /\ 1 \in DOMAIN job
      /\ Len(job) \in Nat \ {0} /\ DOMAIN job = 1..Len(job)
      /\ Len(Tail(job)) = Len(job) - 1
      /\ \A i \in 1..(Len(job) - 1) : Tail(job)[i] = job[i + 1]
  BY <1>0, JobType
<1>2. /\ t.op = "rank" => t.id \in known
      /\ t.op = "override" => t.id \in known \cup {None}
      /\ t.op = "failover" => t.ids \subseteq known
      /\ t.op = "insert" => /\ t.token = given[t.id]
                            /\ 2 \in DOMAIN job /\ job[2].op = "rank" /\ job[2].id = t.id
      /\ t.op = "update" => t.id \in DOMAIN providers /\ t.token \in {None, given[t.id]}
      /\ t.op = "delete" => Len(job) = 1
  <2>1. t.op = "insert" => 1 + 1 \in DOMAIN job /\ job[1 + 1].op = "rank" /\ job[1 + 1].id = t.id
    BY <1>1 DEF IInv, Paired
  <2>2. /\ t.op = "rank" => t.id \in known
        /\ t.op = "override" => t.id \in known \cup {None}
        /\ t.op = "failover" => t.ids \subseteq known
    BY <1>1 DEF IInv, Sourced
  <2>3. /\ t.op = "insert" => t.token = given[t.id]
        /\ t.op = "update" => t.id \in DOMAIN providers /\ t.token \in {None, given[t.id]}
        /\ t.op = "delete" => Len(job) = 1
    BY <1>1 DEF IInv, Alone, Keyed
  <2> QED  BY <2>1, <2>2, <2>3
<1>3. /\ \A p \in DOMAIN providers : p \notin DOMAIN priority /\ p \notin cut
                                       => t.op = "rank" /\ t.id = p
      /\ \A p \in DOMAIN providers : providers[p].api_key_encrypted = given[p]
              \/ (t.op = "update" /\ t.id = p /\ t.token # None)
  BY <1>0 DEF IInv, Ranked, Keyed, Is
<1> HIDE DEF t
<1> DEFINE Settled == \A p \in DOMAIN providers' : providers'[p].api_key_encrypted = given'[p]
<1>4. ASSUME Done, Is("delete") \/ known \subseteq known', Is("insert") => t.id \in known',
             Ranked', NoOrphans', Settled
      PROVE  IInv'
  <2>1. job' = Tail(job) /\ given' = given
    BY <1>4 DEF Done
  <2>2. /\ Paired' /\ Alone' /\ Sourced'
        /\ \A i \in DOMAIN job' :
              /\ job'[i].op = "insert" => job'[i].token = given'[job'[i].id]
              /\ job'[i].op # "update"
    BY <1>0, <1>4, <2>1, RestIsSound DEF t
  <2>3. Keyed'
    BY <1>4, <2>2 DEF Keyed
  <2> QED  BY <1>0, <1>4, <2>2, <2>3 DEF IInv
<1>5. CASE provider_insert
  <2>1. /\ t.op = "insert" /\ Done
        /\ providers' = Upsert(providers, t.id, [priority |-> t.rank, api_key_encrypted |-> t.token])
        /\ ghosts' = ghosts \ {t.id}
        /\ priority' = priority /\ override' = override /\ failover' = failover /\ cut' = cut
    BY <1>5 DEF provider_insert, Is, t
  <2>2. /\ DOMAIN providers' = DOMAIN providers \cup {t.id}
        /\ providers'[t.id].api_key_encrypted = t.token
        /\ \A p \in DOMAIN providers : p # t.id => providers'[p] = providers[p]
    BY <2>1 DEF Upsert
  <2>3. known \subseteq known' /\ t.id \in known'
    BY <2>1, <2>2 DEF known
  <2>4. job' = Tail(job) /\ job' # <<>> /\ Head(job').op = "rank" /\ Head(job').id = t.id
    <3>1. job' = Tail(job)
      BY <2>1 DEF Done
    <3>2. Len(job') \in Nat \ {0} /\ job'[1] = job[2]
      BY <1>1, <1>2, <2>1, <3>1
    <3>3. job' # <<>> /\ Head(job') = job'[1]
      BY <1>0, <3>2 DEF TypeOK
    <3> QED  BY <1>2, <2>1, <3>1, <3>2, <3>3
  <2>5. Ranked'
    BY <1>3, <2>1, <2>2, <2>4 DEF Ranked, Is
  <2>6. NoOrphans'
    BY <2>1, <2>3 DEF IInv, NoOrphans, known
  <2>7. Settled
    BY <1>2, <1>3, <2>1, <2>2 DEF Done
  <2> QED  BY <1>4, <2>1, <2>3, <2>5, <2>6, <2>7
<1>6. CASE provider_update
  <2>1. /\ t.op = "update" /\ Done
        /\ providers' = [providers EXCEPT
               ![t.id].priority = IF t.patch = <<>> THEN @ ELSE t.patch[1],
               ![t.id].api_key_encrypted = IF t.token = None THEN @ ELSE t.token]
        /\ ghosts' = ghosts
        /\ priority' = priority /\ override' = override /\ failover' = failover /\ cut' = cut
    BY <1>6 DEF provider_update, Is, t
  <2>2. /\ DOMAIN providers' = DOMAIN providers
        /\ \A p \in DOMAIN providers : p # t.id => providers'[p] = providers[p]
    BY <2>1
  <2>3. providers'[t.id].api_key_encrypted
           = IF t.token = None THEN providers[t.id].api_key_encrypted ELSE t.token
    <3>1. /\ providers[t.id] \in [priority : Int, api_key_encrypted : Token \cup {None}]
          /\ t.id \in DOMAIN providers
      BY <1>0, <1>2, <2>1 DEF TypeOK, IsTable
    <3> QED  BY <2>1, <3>1
  <2>4. known' = known
    BY <2>1, <2>2 DEF known
  <2>5. Ranked' /\ NoOrphans'
    BY <1>3, <2>1, <2>2 DEF IInv, Ranked, NoOrphans, Is
  <2>6. Settled
    BY <1>2, <1>3, <2>1, <2>2, <2>3 DEF Done
  <2> QED  BY <1>4, <2>1, <2>4, <2>5, <2>6 DEF Is, t
<1>7. CASE provider_priority_set
  <2>1. /\ t.op = "rank" /\ Done
        /\ priority' = Upsert(priority, t.id, t.rank)
        /\ cut' = cut \ {t.id}
        /\ providers' = providers /\ override' = override /\ failover' = failover /\ ghosts' = ghosts
    BY <1>7 DEF provider_priority_set, Is, t
  <2>2. DOMAIN priority' = DOMAIN priority \cup {t.id}
    BY <2>1 DEF Upsert
  <2>3. known' = known
    BY <2>1 DEF known
  <2>4. Ranked' /\ NoOrphans'
    BY <1>2, <1>3, <2>1, <2>2 DEF IInv, Ranked, NoOrphans, Is, known
  <2>5. Settled
    BY <1>3, <2>1 DEF Done
  <2> QED  BY <1>4, <2>1, <2>3, <2>4, <2>5 DEF Is, t
<1>8. CASE provider_delete
  <2>1. /\ t.op = "delete" /\ Done
        /\ priority' = Remove(priority, {t.id})
        /\ failover' = failover \ {t.id}
        /\ override' = Remove(override, {s \in DOMAIN override : override[s] = t.id})
        /\ providers' = Remove(providers, {t.id})
        /\ cut' = cut \ {t.id} /\ ghosts' = ghosts
    BY <1>8 DEF provider_delete, Is, t
  <2>2. /\ DOMAIN priority' = DOMAIN priority \ {t.id}
        /\ DOMAIN providers' = DOMAIN providers \ {t.id}
        /\ \A p \in DOMAIN providers' : providers'[p] = providers[p]
        /\ \A s \in DOMAIN override' :
              s \in DOMAIN override /\ override'[s] = override[s] /\ override[s] # t.id
    BY <2>1 DEF Remove
  <2>3. Range(override') \subseteq Range(override) \ {t.id}
    BY <2>2 DEF Range
  <2>4. Ranked' /\ NoOrphans'
    BY <1>3, <2>1, <2>2, <2>3 DEF IInv, Ranked, NoOrphans, Is
  <2>5. Settled
    BY <1>3, <2>1, <2>2 DEF Done
  <2>6. Is("delete") /\ ~Is("insert")
    BY <1>0, <2>1 DEF Is, t
  <2> QED  BY <1>4, <2>1, <2>4, <2>5, <2>6
<1>9. CASE agent_override_set
  <2>1. /\ t.op = "override" /\ Done
        /\ override' = IF t.id = None THEN Remove(override, {t.session})
                                      ELSE Upsert(override, t.session, t.id)
        /\ providers' = providers /\ priority' = priority /\ failover' = failover
        /\ ghosts' = ghosts /\ cut' = cut
    BY <1>9 DEF agent_override_set, Is, t
  <2>2. Range(override') \subseteq Range(override) \cup ({t.id} \ {None})
    <3>1. CASE t.id = None
      BY <2>1, <3>1 DEF Range, Remove
    <3>2. CASE t.id # None
      <4>1. override' = Upsert(override, t.session, t.id)
        BY <2>1, <3>2
      <4>2. \A k \in DOMAIN override' :
               override'[k] = t.id \/ (k \in DOMAIN override /\ override'[k] = override[k])
        BY <4>1 DEF Upsert
      <4> QED  BY <3>2, <4>2 DEF Range
    <3> QED  BY <3>1, <3>2
  <2>3. known' = known
    BY <2>1 DEF known
  <2>4. Ranked' /\ NoOrphans'
    BY <1>2, <1>3, <2>1, <2>2 DEF IInv, Ranked, NoOrphans, Is, known
  <2>5. Settled
    BY <1>3, <2>1 DEF Done
  <2> QED  BY <1>4, <2>1, <2>3, <2>4, <2>5 DEF Is, t
<1>10. CASE failover_conditions_replace_all
  <2>1. /\ t.op = "failover" /\ Done /\ failover' = t.ids
        /\ providers' = providers /\ priority' = priority /\ override' = override
        /\ ghosts' = ghosts /\ cut' = cut
    BY <1>10 DEF failover_conditions_replace_all, Is, t
  <2>2. known' = known
    BY <2>1 DEF known
  <2>3. Ranked' /\ NoOrphans'
    BY <1>2, <1>3, <2>1 DEF IInv, Ranked, NoOrphans, Is, known
  <2>4. Settled
    BY <1>3, <2>1 DEF Done
  <2> QED  BY <1>4, <2>1, <2>2, <2>3, <2>4 DEF Is, t
<1>11. CASE routing_config_set
  <2>1. /\ t.op = "routing" /\ Done /\ failover' = failover
        /\ providers' = providers /\ priority' = priority /\ override' = override
        /\ ghosts' = ghosts /\ cut' = cut
    BY <1>11 DEF routing_config_set, Is, t
  <2>2. known' = known
    BY <2>1 DEF known
  <2>3. Ranked' /\ NoOrphans'
    BY <1>3, <2>1 DEF IInv, Ranked, NoOrphans, Is
  <2>4. Settled
    BY <1>3, <2>1 DEF Done
  <2> QED  BY <1>4, <2>1, <2>2, <2>3, <2>4 DEF Is, t
<1>12. CASE Raise
  <2>1. t.op = "raise" /\ job' = <<>> /\ UNCHANGED <<db, history>>
    BY <1>12 DEF Raise, Is, t
  <2>2. DOMAIN job' = {}
    BY <2>1
  <2>3. Settled /\ Ranked' /\ NoOrphans'
    BY <1>3, <2>1 DEF IInv, Ranked, NoOrphans, Is, db, history
  <2>4. Paired' /\ Alone' /\ Sourced' /\ Keyed'
    BY <2>2, <2>3 DEF Paired, Alone, Sourced, Keyed
  <2> QED  BY <1>0, <2>3, <2>4 DEF IInv
<1> QED  BY <1>5, <1>6, <1>7, <1>8, <1>9, <1>10, <1>11, <1>12 DEF Commit

LEMMA CrashStep == ASSUME IInv, Crash PROVE IInv'
<1>1. /\ TypeOK /\ job' = <<>> /\ DOMAIN job' = {} /\ UNCHANGED <<db, ghosts>>
      /\ Is("update") => Head(job).id \in DOMAIN providers
  <2>1. Is("update") => Head(job) = job[1] /\ 1 \in DOMAIN job
    BY JobType DEF IInv, Is
  <2> QED  BY <2>1 DEF Crash, IInv, Keyed, Is
<1>2. TypeOK'
  BY <1>1, ProcessType DEF Process
<1>3. Ranked'
  BY <1>1 DEF Crash, IInv, Ranked, Is, db
<1>4. NoOrphans'
  BY <1>1 DEF IInv, NoOrphans, db
<1>5. \A p \in DOMAIN providers : providers[p].api_key_encrypted = given'[p]
  <2> SUFFICES ASSUME NEW p \in DOMAIN providers PROVE providers[p].api_key_encrypted = given'[p]
    OBVIOUS
  <2>1. p \in Provider /\ given \in [Provider -> Token \cup {None}]
    BY <1>1 DEF TypeOK, IsTable
  <2>2. CASE Is("update")
    <3>1. given' = [given EXCEPT ![Head(job).id] = providers[Head(job).id].api_key_encrypted]
      BY <2>2 DEF Crash
    <3>2. providers[p].api_key_encrypted = given[p] \/ Head(job).id = p
      BY DEF IInv, Keyed
    <3> QED  BY <2>1, <3>1, <3>2
  <2>3. CASE ~Is("update")
    BY <2>3 DEF Crash, IInv, Keyed
  <2> QED  BY <2>2, <2>3
<1>6. Paired' /\ Alone' /\ Sourced' /\ Keyed'
  BY <1>1, <1>5 DEF Paired, Alone, Sourced, Keyed, db
<1> QED  BY <1>2, <1>3, <1>4, <1>6 DEF IInv

LEMMA BootStep ==
    ASSUME IInv, NEW key \in EncKey \cup {None}, Boot(key) PROVE IInv'
<1>1. TypeOK /\ job = <<>> /\ DOMAIN job = {} /\ UNCHANGED <<db, cut, ghosts>>
  BY DEF Boot, IInv, TypeOK
<1>2. TypeOK'
  BY <1>1, ProcessType DEF Process, Is
<1>3. /\ \A p \in DOMAIN providers : p \notin DOMAIN priority => p \in cut
      /\ \A p \in DOMAIN providers : providers[p].api_key_encrypted = given[p]
  BY <1>1 DEF IInv, Ranked, Keyed, Is
<1>4. Ranked' /\ NoOrphans'
  BY <1>1, <1>3 DEF IInv, Ranked, NoOrphans, db
<1>5. CASE DOMAIN providers # {} \/ Seed = <<>>
  <2>1. job' = job /\ given' = given
    BY <1>5 DEF Boot
  <2>2. Paired' /\ Alone' /\ Sourced' /\ Keyed'
    BY <1>1, <1>3, <2>1 DEF Paired, Alone, Sourced, Keyed, db
  <2> QED  BY <1>2, <1>4, <2>2 DEF IInv
<1>6. CASE ~(DOMAIN providers # {} \/ Seed = <<>>)
  <2>1. PICK n \in 0..Len(Seed) : job' = Seeding(key, n)
    BY <1>6 DEF Boot
  <2>2. n \in Nat /\ 2 * n \in Nat
    BY StoreConstants
  <2>3. /\ DOMAIN job' = 1..Len(job') /\ Len(job') \in Nat /\ Len(job') >= 2 * n + 1
        /\ job'[1].op = "routing"
        /\ \A k \in 1..(2 * n) : job'[k + 1] = stored(key, k)
        /\ \A i \in DOMAIN job' : i > 2 * n + 1 => job'[i].op = "raise"
    BY <2>1, SeedingShape
  <2>4. ASSUME NEW i \in DOMAIN job', job'[i].op \notin {"routing", "raise"}
        PROVE  i - 1 \in 1..(2 * n) /\ i - 1 + 1 = i /\ i > 1 /\ job'[i] = stored(key, i - 1)
    <3>1. i \in Nat /\ i >= 1 /\ i # 1 /\ ~(i > 2 * n + 1)
      BY <2>3, <2>4
    <3>2. i - 1 \in 1..(2 * n) /\ i - 1 + 1 = i /\ i > 1
      BY <2>2, <3>1
    <3> QED  BY <2>3, <3>2
  <2>10. \A k \in 1..(2 * n) :
           /\ stored(key, k).op = "insert" =>
                 /\ (k + 1) \div 2 \in DOMAIN Seed
                 /\ k + 1 \in 1..(2 * n)
                 /\ stored(key, k + 1).op = "rank"
                 /\ stored(key, k + 1).id = stored(key, k).id
                 /\ stored(key, k).id = Seed[(k + 1) \div 2].id
                 /\ stored(key, k).token = encrypt_api_key(key, Seed[(k + 1) \div 2].api_key)
           /\ stored(key, k).op = "rank" =>
                 /\ k - 1 \in 1..(2 * n)
                 /\ stored(key, k - 1).op = "insert"
                 /\ stored(key, k - 1).id = stored(key, k).id
    BY StoredPairs
  <2>5. ASSUME NEW i \in DOMAIN job', job'[i].op = "insert"
        PROVE  /\ i + 1 \in DOMAIN job' /\ job'[i + 1].op = "rank" /\ job'[i + 1].id = job'[i].id
               /\ job'[i].token = given'[job'[i].id]
    <3>1. i - 1 \in 1..(2 * n) /\ i - 1 + 1 = i /\ job'[i] = stored(key, i - 1)
      BY <2>4, <2>5
    <3> DEFINE k == i - 1
               j == (k + 1) \div 2
    <3>5. k \in 1..(2 * n) /\ job'[i] = stored(key, k) /\ k + 1 = i
      BY <3>1
    <3> HIDE DEF k
    <3>2. /\ j \in DOMAIN Seed
          /\ k + 1 \in 1..(2 * n) /\ stored(key, k + 1).op = "rank"
          /\ stored(key, k + 1).id = stored(key, k).id
          /\ stored(key, k).id = Seed[j].id
          /\ stored(key, k).token = encrypt_api_key(key, Seed[j].api_key)
      BY <2>5, <2>10, <3>5
    <3> HIDE DEF j
    <3>3. i + 1 \in DOMAIN job' /\ job'[i + 1] = stored(key, k + 1)
      <4>1. k + 1 + 1 \in 1..Len(job')
        BY <2>2, <2>3, <3>2
      <4> QED  BY <2>3, <3>2, <3>5, <4>1
    <3>4. given'[Seed[j].id] = encrypt_api_key(key, Seed[j].api_key)
      <4>1. given' = [p \in Provider |->
                         IF \E m \in DOMAIN Seed : Seed[m].id = p
                         THEN encrypt_api_key(key, SeedOf(p).api_key) ELSE given[p]]
        BY <1>6 DEF Boot
      <4>2. Seed[j].id \in Provider /\ SeedOf(Seed[j].id) = Seed[j]
        BY <3>2, SeedType, SeedOfSeed
      <4> QED  BY <3>2, <4>1, <4>2
    <3> QED  BY <3>2, <3>3, <3>4, <3>5
  <2>6. ASSUME NEW i \in DOMAIN job', job'[i].op = "rank"
        PROVE  i > 1 /\ job'[i - 1].op = "insert" /\ job'[i - 1].id = job'[i].id
    <3> DEFINE k == i - 1
    <3>1. k \in 1..(2 * n) /\ i > 1 /\ job'[i] = stored(key, k) /\ i - 1 = k
      BY <2>4, <2>6
    <3> HIDE DEF k
    <3>2. /\ k - 1 \in 1..(2 * n)
          /\ stored(key, k - 1).op = "insert"
          /\ stored(key, k - 1).id = stored(key, k).id
      BY <2>6, <2>10, <3>1
    <3>3. job'[k] = stored(key, k - 1)
      <4> DEFINE h == k - 1
      <4>1. h \in 1..(2 * n) /\ h + 1 = k
        BY <2>2, <3>1, <3>2
      <4> HIDE DEF h
      <4>2. job'[k] = stored(key, h)
        BY <2>3, <4>1
      <4> QED  BY <4>2 DEF h
    <3> QED  BY <3>1, <3>2, <3>3
  <2>7. \A i \in DOMAIN job' : job'[i].op \in {"routing", "raise", "insert", "rank"}
    <3>1. SUFFICES ASSUME NEW i \in DOMAIN job' PROVE job'[i].op \in {"routing", "raise", "insert", "rank"}
      OBVIOUS
    <3>2. job'[i].op \notin {"routing", "raise"} => job'[i].op \in {"insert", "rank"}
      BY <2>4, StoredType
    <3> QED  BY <3>2
  <2>8. Paired' /\ Alone' /\ Sourced'
    BY <2>5, <2>6, <2>7 DEF Paired, Alone, Sourced
  <2>9. Keyed'
    BY <1>1, <1>6, <2>5, <2>7 DEF Keyed, db
  <2> QED  BY <1>2, <1>4, <2>8, <2>9 DEF IInv
<1> QED  BY <1>5, <1>6

LEMMA IInvStep == IInv /\ [Next]_vars => IInv'
<1> SUFFICES ASSUME IInv, [Next]_vars PROVE IInv'
  OBVIOUS
<1>1. CASE Commit
  BY <1>1, CommitStep
<1>2. CASE Admin
  BY <1>2, AdminStep
<1>3. CASE Process
  BY <1>3, CrashStep, BootStep DEF Process
<1>4. CASE UNCHANGED vars
  <2>1. TypeOK'
    BY <1>4 DEF vars, IInv, TypeOK
  <2> QED  BY <1>4, <2>1 DEF vars, IInv, Paired, Ranked, Alone, NoOrphans, Sourced, Keyed, known, Is
<1> QED  BY <1>1, <1>2, <1>3, <1>4 DEF Next

-----------------------------------------------------------------------------
(* Theorems.                                                               *)

\* The inductive invariant holds for any providers, seeds, ranks and keys, whenever the
\* process dies and whatever encryption key it is started again with.
THEOREM Invariance == Spec => []IInv
  BY IInvInit, IInvStep, PTL DEF Spec

\* The tables keep to their schema and the handlers' jobs are well formed.
THEOREM TypeCorrect == Spec => []TypeOK
<1>1. IInv => TypeOK
  BY DEF IInv
<1> QED  BY <1>1, Invariance, PTL

\* A provider without a priority row, which the routing engine would never list, is one
\* whose creation a crash cut in two: create_provider and the bootstrap leave no other.
THEOREM UnrankedOnlyByCrash == Spec => []RankedUnlessCut
<1>1. IInv => RankedUnlessCut
  BY DEF IInv, Ranked, RankedUnlessCut, Is
<1> QED  BY <1>1, Invariance, PTL

\* provider_delete leaves nothing behind that names the provider, though the schema's
\* REFERENCES are not enforced.
THEOREM NothingOrphaned == Spec => []NoOrphans
<1>1. IInv => NoOrphans
  BY DEF IInv
<1> QED  BY <1>1, Invariance, PTL

\* The key sent to a provider is the last one accepted for it, or none.
THEOREM LastKeyKept == Spec => []KeyKept
<1>1. IInv => KeyKept
  BY DEF IInv, Keyed, KeyKept, idle, Is
<1> QED  BY <1>1, Invariance, PTL
-----------------------------------------------------------------------------
(* The order an operator PUT: its first m positions are written, the others  *)
(* stand in the job, from position k + 1 on; nothing else in the job writes  *)
(* the rank of an id of the order.                                           *)

Placed(m) ==
    \A j \in 1..m :
        /\ asked[j] \in DOMAIN priority /\ priority[asked[j]] >= j - 1
        /\ (\A i \in (j + 1)..m : asked[i] # asked[j]) => priority[asked[j]] = j - 1

window(m, k) == (k + 1)..(k + Len(asked) - m)

Coming(m, k) ==
    /\ k + Len(asked) - m <= Len(job)
    /\ \A i \in window(m, k) : job[i] = rank_(asked[m + i - k], m + i - k - 1)
    /\ \A i \in DOMAIN job \ window(m, k) :
          job[i].op \in {"rank", "delete"} => job[i].id \notin Range(asked)

Ordered ==
    /\ \E m \in 0..Len(asked), k \in Nat : Placed(m) /\ Coming(m, k)
    /\ \A i \in DOMAIN job : job[i].op = "raise" => asked = <<>>

\* No order is remembered.
LEMMA Forgotten == ASSUME TypeOK', asked' = <<>> PROVE Ordered'
<1>1. Len(asked') = 0 /\ Len(job') \in Nat /\ Range(asked') = {}
  BY DEF TypeOK, Range
<1>2. Placed(0)' /\ Coming(0, 0)'
  BY <1>1 DEF Placed, Coming, window
<1> QED  BY <1>1, <1>2 DEF Ordered

\* What is written of an order stays as long as the ranks of its ids do.
LEMMA PlacedKept ==
    ASSUME TypeOK, NEW m \in 0..Len(asked), Placed(m), asked' = asked,
           \A p \in Range(asked) \cap DOMAIN priority :
              p \in DOMAIN priority' /\ priority'[p] = priority[p]
    PROVE  Placed(m)'
<1>1. \A j \in 1..m : asked[j] \in Range(asked)
  BY DEF Range, TypeOK
<1> QED  BY <1>1 DEF Placed

\* An order that is all written stays, under a job that leaves the ranks of its ids alone.
LEMMA OrderStays ==
    ASSUME TypeOK, TypeOK', Placed(Len(asked)), asked' = asked,
           \A p \in Range(asked) \cap DOMAIN priority :
              p \in DOMAIN priority' /\ priority'[p] = priority[p],
           \A i \in DOMAIN job' :
              /\ job'[i].op \in {"rank", "delete"} => job'[i].id \notin Range(asked)
              /\ job'[i].op = "raise" => asked = <<>>
    PROVE  Ordered'
<1> DEFINE n == Len(asked)
<1>1. n \in Nat /\ Len(job') \in Nat /\ n \in 0..n
  BY DEF TypeOK
<1>2. Placed(n)'
  BY <1>1, PlacedKept
<1>3. Coming(n, 0)'
  <2>1. window(n, 0)' = {} /\ 0 + Len(asked') - n <= Len(job')
    BY <1>1 DEF window
  <2> QED  BY <2>1 DEF Coming
<1>4. \E m \in 0..Len(asked'), k \in Nat : Placed(m)' /\ Coming(m, k)'
  BY <1>1, <1>2, <1>3
<1> QED  BY <1>4 DEF Ordered

\* At rest the order is all written.
LEMMA OrderedAtRest == ASSUME TypeOK, Ordered, job = <<>> PROVE Placed(Len(asked))
<1>1. PICK m \in 0..Len(asked), k \in Nat : Placed(m) /\ Coming(m, k)
  BY DEF Ordered
<1>2. Len(job) = 0 /\ Len(asked) \in Nat
  BY DEF TypeOK
<1>3. m = Len(asked)
  BY <1>1, <1>2 DEF Coming
<1> QED  BY <1>1, <1>3

LEMMA AdminOrder == ASSUME IInv, TypeOK', Ordered, Admin PROVE Ordered'
<1>0. /\ TypeOK /\ job = <<>> /\ UNCHANGED <<db, proc, enc, ran, cut>> /\ NewJob
      /\ Placed(Len(asked)) /\ priority' = priority
  BY AdminStarts, OrderedAtRest DEF IInv, idle, db
<1>1. ASSUME asked' = asked,
             \A i \in DOMAIN job' :
                /\ job'[i].op \in {"rank", "delete"} => job'[i].id \notin Range(asked)
                /\ job'[i].op # "raise"
      PROVE  Ordered'
  BY <1>0, <1>1, OrderStays
<1>2. ASSUME NEW p \in Provider, Forget(p),
             \A i \in DOMAIN job' :
                /\ job'[i].op \in {"rank", "delete"} => job'[i].id = p
                /\ job'[i].op # "raise"
      PROVE  Ordered'
  <2>1. CASE p \in Range(asked)
    BY <1>2, <2>1, Forgotten DEF Forget
  <2>2. CASE p \notin Range(asked)
    BY <1>1, <1>2, <2>2 DEF Forget
  <2> QED  BY <2>1, <2>2
<1>3. ASSUME NEW p \in Provider, NEW rank \in Int, NEW token,
             job' = <<insert(p, rank, token), rank_(p, rank)>>, Forget(p)
      PROVE  Ordered'
  <2>1. DOMAIN job' = 1..2 /\ job'[1] = insert(p, rank, token) /\ job'[2] = rank_(p, rank)
    BY <1>3
  <2> QED  BY <1>2, <1>3, <2>1 DEF insert, rank_
<1>4. ASSUME NEW p \in DOMAIN providers, NEW rank \in Option(Rank), NEW token \in Token \cup {None},
             job' = patch(p, rank, token), IF rank = <<>> THEN UNCHANGED asked ELSE Forget(p)
      PROVE  Ordered'
  <2>0. p \in Provider
    BY <1>0 DEF TypeOK, IsTable
  <2>1. /\ DOMAIN job' = 1..(1 + Len(rank)) /\ job'[1] = update(p, rank, token)
        /\ rank = <<>> <=> Len(rank) = 0
        /\ Len(rank) \in {0, 1}
        /\ \A i \in DOMAIN job' : i > 1 => job'[i].op = "rank" /\ job'[i].id = p
    BY <1>4, <2>0, PatchJob
  <2>2. CASE rank = <<>>
    <3>1. \A i \in DOMAIN job' : job'[i].op = "update"
      BY <2>1, <2>2 DEF update
    <3> QED  BY <1>1, <1>4, <2>2, <3>1
  <2>3. CASE rank # <<>>
    <3>1. \A i \in DOMAIN job' : job'[i].op = "update" \/ (job'[i].op = "rank" /\ job'[i].id = p)
      BY <2>1 DEF update
    <3> QED  BY <1>2, <1>4, <2>0, <2>3, <3>1
  <2> QED  BY <2>2, <2>3
<1>5. ASSUME NEW p \in DOMAIN providers, job' = <<[op |-> "delete", id |-> p]>>, Forget(p)
      PROVE  Ordered'
  <2>1. p \in Provider /\ DOMAIN job' = 1..1 /\ job'[1].op = "delete" /\ job'[1].id = p
    BY <1>0, <1>5 DEF TypeOK, IsTable
  <2> QED  BY <1>2, <1>5, <2>1
<1>6. ASSUME NEW s, NEW id, job' = <<[op |-> "override", session |-> s, id |-> id]>>, asked' = asked
      PROVE  Ordered'
  <2>1. DOMAIN job' = 1..1 /\ job'[1].op = "override"
    BY <1>6
  <2> QED  BY <1>1, <1>6, <2>1
<1>7. ASSUME NEW routing \in Option(Strategy), NEW order \in Seq(Provider),
             NEW ids \in Option(SUBSET Provider),
             job' = put(routing, order, ids), asked' = IF order = <<>> THEN asked ELSE order
      PROVE  Ordered'
  <2>1. \A i \in DOMAIN job' :
           \/ job'[i].op = "routing"
           \/ job'[i].op = "rank" /\ job'[i].id \in Range(order)
           \/ job'[i].op = "failover" /\ job'[i].ids \in Range(ids)
    BY <1>7, PutOps
  <2>2. CASE order = <<>>
    <3>1. Range(order) = {} /\ asked' = asked
      BY <1>7, <2>2 DEF Range
    <3> QED  BY <1>1, <2>1, <3>1
  <2>3. CASE order # <<>>
    <3> DEFINE job_ == put(routing, order, ids)
               m == Len(routing)
               n == Len(order)
               l == Len(ids)
    <3>1. /\ job_ \in Seq(Transaction) /\ DOMAIN job_ = 1..(m + n + l) /\ Len(job_) = m + n + l
          /\ m \in {0, 1} /\ n \in Nat /\ l \in {0, 1}
          /\ \A i \in 1..m : job_[i].op = "routing"
          /\ \A i \in (m + 1)..(m + n) : job_[i] = rank_(order[i - m], i - m - 1)
          /\ \A i \in (m + n + 1)..(m + n + l) :
                job_[i].op = "failover" /\ job_[i].ids \in Range(ids)
      BY PutJob
    <3>2. job' = job_ /\ asked' = order /\ Len(asked') = n
      BY <1>7, <2>3
    <3> HIDE DEF job_, m, n, l
    <3>3. Placed(0)'
      BY DEF Placed
    <3>4. Coming(0, m)'
      <4>1. window(0, m)' = (m + 1)..(m + n)
        BY <3>1, <3>2 DEF window
      <4>2. m + Len(asked') - 0 <= Len(job')
        BY <3>1, <3>2
      <4>3. \A i \in (m + 1)..(m + n) : job'[i] = rank_(asked'[0 + i - m], 0 + i - m - 1)
        BY <3>1, <3>2
      <4>4. \A i \in DOMAIN job' \ ((m + 1)..(m + n)) : job'[i].op \in {"routing", "failover"}
        BY <3>1, <3>2
      <4> QED  BY <4>1, <4>2, <4>3, <4>4 DEF Coming
    <3>5. \A i \in DOMAIN job' : job'[i].op # "raise"
      BY <2>1
    <3>6. \E k \in 0..Len(asked'), j \in Nat : Placed(k)' /\ Coming(k, j)'
      BY <3>1, <3>2, <3>3, <3>4
    <3> QED  BY <3>5, <3>6 DEF Ordered
  <2> QED  BY <2>2, <2>3
<1> QED  BY <1>0, <1>3, <1>4, <1>5, <1>6, <1>7 DEF NewJob

LEMMA ProcessOrder == ASSUME IInv, TypeOK', Ordered, Process PROVE Ordered'
<1>0. TypeOK
  BY DEF IInv
<1>1. CASE Crash
  <2>1. CASE job = <<>>
    <3>1. asked' = asked /\ priority' = priority /\ DOMAIN job' = {}
      BY <1>1, <2>1 DEF Crash, db
    <3> QED  BY <1>0, <2>1, <3>1, OrderedAtRest, OrderStays
  <2>2. CASE job # <<>>
    BY <1>1, <2>2, Forgotten DEF Crash
  <2> QED  BY <2>1, <2>2
<1>2. ASSUME NEW key \in EncKey \cup {None}, Boot(key) PROVE Ordered'
  <2>1. CASE DOMAIN providers # {} \/ Seed = <<>>
    <3>1. asked' = asked /\ priority' = priority /\ job' = job /\ job = <<>> /\ DOMAIN job = {}
      BY <1>0, <1>2, <2>1 DEF Boot, db, TypeOK
    <3> QED  BY <1>0, <3>1, OrderedAtRest, OrderStays
  <2>2. CASE ~(DOMAIN providers # {} \/ Seed = <<>>)
    BY <1>2, <2>2, Forgotten DEF Boot
  <2> QED  BY <2>1, <2>2
<1> QED  BY <1>1, <1>2 DEF Process

\* The ranks after a transaction.
LEMMA RanksAfter ==
    ASSUME Done, Commit, job # <<>>
    PROVE  /\ job' = Tail(job) /\ asked' = asked
           /\ Head(job).op \notin {"rank", "delete"} => priority' = priority
           /\ \A p \in DOMAIN priority :
                 Head(job).op \in {"rank", "delete"} => p = Head(job).id
                    \/ (p \in DOMAIN priority' /\ priority'[p] = priority[p])
           /\ Head(job).op = "rank" => /\ Head(job).id \in DOMAIN priority'
                                       /\ priority'[Head(job).id] = Head(job).rank
<1>1. CASE provider_insert
  BY <1>1 DEF provider_insert, Is, Done
<1>2. CASE provider_update
  BY <1>2 DEF provider_update, Is, Done
<1>3. CASE provider_priority_set
  BY <1>3 DEF provider_priority_set, Is, Done, Upsert
<1>4. CASE provider_delete
  BY <1>4 DEF provider_delete, Is, Done, Remove
<1>5. CASE agent_override_set
  BY <1>5 DEF agent_override_set, Is, Done
<1>6. CASE failover_conditions_replace_all
  BY <1>6 DEF failover_conditions_replace_all, Is, Done
<1>7. CASE routing_config_set
  BY <1>7 DEF routing_config_set, Is, Done
<1>8. CASE Raise
  BY <1>8 DEF Raise, Is, history, db, Done
<1> QED  BY <1>1, <1>2, <1>3, <1>4, <1>5, <1>6, <1>7, <1>8 DEF Commit
LEMMA CommitOrder == ASSUME IInv, TypeOK', Ordered, Commit PROVE Ordered'
<1> DEFINE t == Head(job)
           n == Len(asked)
<1>0. TypeOK /\ job # <<>> /\ (Done \/ Raise)
  BY DEF IInv, Commit, Is, provider_insert, provider_update, provider_priority_set,
     provider_delete, agent_override_set, failover_conditions_replace_all, routing_config_set, Raise
<1>1. /\ t = job[1] /\ 1 \in DOMAIN job
      /\ Len(job) \in Nat \ {0} /\ DOMAIN job = 1..Len(job)
      /\ Len(Tail(job)) = Len(job) - 1 /\ DOMAIN Tail(job) = 1..(Len(job) - 1)
      /\ \A i \in 1..(Len(job) - 1) : Tail(job)[i] = job[i + 1]
  BY <1>0, JobType
<1>2. n \in Nat /\ DOMAIN asked = 1..n
  BY <1>0 DEF TypeOK
<1>3. CASE Raise
  <2>1. asked' = asked /\ asked = <<>>
    BY <1>1, <1>3 DEF Raise, Is, history, Ordered
  <2> QED  BY <2>1, Forgotten
<1>4. CASE Done
  <2>1. PICK m \in 0..n, k \in Nat : Placed(m) /\ Coming(m, k)
    BY DEF Ordered
  <2>2. /\ job' = Tail(job) /\ asked' = asked
        /\ t.op \notin {"rank", "delete"} => priority' = priority
        /\ \A p \in DOMAIN priority :
              t.op \in {"rank", "delete"} => p = t.id
                 \/ (p \in DOMAIN priority' /\ priority'[p] = priority[p])
        /\ t.op = "rank" => t.id \in DOMAIN priority' /\ priority'[t.id] = t.rank
    BY <1>0, <1>4, RanksAfter
  <2> HIDE DEF t, n
  <2>3. \A i \in DOMAIN job' : i \in 1..(Len(job) - 1) /\ i + 1 \in DOMAIN job /\ job'[i] = job[i + 1]
    BY <1>1, <2>2
  <2>4. \A i \in DOMAIN job' : job'[i].op = "raise" => asked = <<>>
    BY <2>3 DEF Ordered
  <2>5. /\ k + n - m <= Len(job)
        /\ \A i \in (k + 1)..(k + n - m) : job[i] = rank_(asked[m + i - k], m + i - k - 1)
        /\ \A i \in DOMAIN job \ ((k + 1)..(k + n - m)) :
              job[i].op \in {"rank", "delete"} => job[i].id \notin Range(asked)
    BY <2>1 DEF Coming, window, n
  <2>6. ASSUME 1 \notin (k + 1)..(k + n - m)
        PROVE  \A p \in Range(asked) \cap DOMAIN priority :
                  p \in DOMAIN priority' /\ priority'[p] = priority[p]
    <3>1. t.op \in {"rank", "delete"} => t.id \notin Range(asked)
      BY <1>1, <2>5, <2>6
    <3> QED  BY <2>2, <3>1
  <2>7. CASE m = n
    <3>1. (k + 1)..(k + n - m) = {}
      BY <1>2, <2>7
    <3>2. \A p \in Range(asked) \cap DOMAIN priority : p \in DOMAIN priority' /\ priority'[p] = priority[p]
      BY <2>6, <3>1
    <3>3. \A i \in DOMAIN job' : job'[i].op \in {"rank", "delete"} => job'[i].id \notin Range(asked)
      BY <2>3, <2>5, <3>1
    <3> QED  BY <1>0, <2>1, <2>2, <2>4, <2>7, <3>2, <3>3, OrderStays DEF n
  <2>8. CASE m # n /\ k > 0
    <3>1. 1 \notin (k + 1)..(k + n - m) /\ k - 1 \in Nat
      BY <2>8
    <3>2. Placed(m)'
      BY <1>0, <2>1, <2>2, <2>6, <3>1, PlacedKept DEF n
    <3>3. Coming(m, k - 1)'
      <4>1. k - 1 + n - m <= Len(job')
        BY <1>1, <1>2, <2>2, <2>5
      <4>2. ASSUME NEW i \in (k - 1 + 1)..(k - 1 + n - m)
            PROVE  job'[i] = rank_(asked[m + i - (k - 1)], m + i - (k - 1) - 1)
        <5>1. i + 1 \in (k + 1)..(k + n - m) /\ i \in 1..(Len(job) - 1)
          BY <1>1, <1>2, <2>5, <2>8
        <5>2. m + (i + 1) - k = m + i - (k - 1)
          OBVIOUS
        <5>3. job'[i] = job[i + 1]
          BY <1>1, <2>2, <5>1
        <5>4. job[i + 1] = rank_(asked[m + (i + 1) - k], m + (i + 1) - k - 1)
          BY <2>5, <5>1
        <5> QED  BY <5>2, <5>3, <5>4
      <4>3. ASSUME NEW i \in DOMAIN job' \ ((k - 1 + 1)..(k - 1 + n - m)),
                   job'[i].op \in {"rank", "delete"}
            PROVE  job'[i].id \notin Range(asked)
        <5>1. i + 1 \notin (k + 1)..(k + n - m) /\ i + 1 \in DOMAIN job /\ job'[i] = job[i + 1]
          BY <1>2, <2>3
        <5> QED  BY <2>5, <4>3, <5>1
      <4> QED  BY <2>2, <4>1, <4>2, <4>3 DEF Coming, window, n
    <3>4. \E j \in 0..Len(asked'), h \in Nat : Placed(j)' /\ Coming(j, h)'
      BY <2>2, <3>1, <3>2, <3>3 DEF n
    <3> QED  BY <2>2, <2>4, <3>4 DEF Ordered
  <2>9. CASE m # n /\ k = 0
    <3>1. m + 1 \in 1..n /\ 1 \in (k + 1)..(k + n - m) /\ m \in Nat
      BY <1>2, <2>9
    <3>2. t = rank_(asked[m + 1], m)
      <4>1. m + 1 - k = m + 1 /\ m + 1 - k - 1 = m
        BY <2>9, <3>1
      <4>2. job[1] = rank_(asked[m + 1 - k], m + 1 - k - 1)
        BY <2>5, <3>1
      <4> QED  BY <1>1, <4>1, <4>2
    <3>3. t.op = "rank" /\ t.id = asked[m + 1] /\ t.rank = m
      BY <3>2 DEF rank_
    <3>4. Placed(m + 1)'
      <4> SUFFICES ASSUME NEW j \in 1..(m + 1)
                   PROVE  /\ asked[j] \in DOMAIN priority' /\ priority'[asked[j]] >= j - 1
                          /\ (\A i \in (j + 1)..(m + 1) : asked[i] # asked[j])
                                => priority'[asked[j]] = j - 1
        BY <2>2 DEF Placed
      <4>1. CASE asked[j] = asked[m + 1]
        <5>1. asked[j] \in DOMAIN priority' /\ priority'[asked[j]] = m
          BY <2>2, <3>3, <4>1
        <5>2. j # m + 1 => m + 1 \in (j + 1)..(m + 1)
          BY <3>1
        <5> QED  BY <3>1, <4>1, <5>1, <5>2
      <4>2. CASE asked[j] # asked[m + 1]
        <5>1. j \in 1..m
          BY <3>1, <4>2
        <5>2. /\ asked[j] \in DOMAIN priority /\ priority[asked[j]] >= j - 1
              /\ (\A i \in (j + 1)..m : asked[i] # asked[j]) => priority[asked[j]] = j - 1
          BY <2>1, <5>1 DEF Placed
        <5>3. asked[j] \in DOMAIN priority' /\ priority'[asked[j]] = priority[asked[j]]
          BY <2>2, <3>3, <4>2, <5>2
        <5>4. (j + 1)..m \subseteq (j + 1)..(m + 1)
          BY <3>1
        <5> QED  BY <5>2, <5>3, <5>4
      <4> QED  BY <4>1, <4>2
    <3>5. Coming(m + 1, 0)'
      <4>1. 0 + n - (m + 1) <= Len(job')
        BY <1>1, <1>2, <2>2, <2>5, <2>9
      <4>2. ASSUME NEW i \in (0 + 1)..(0 + n - (m + 1))
            PROVE  job'[i] = rank_(asked[m + 1 + i - 0], m + 1 + i - 0 - 1)
        <5>1. i + 1 \in (k + 1)..(k + n - m) /\ i \in 1..(Len(job) - 1)
          BY <1>1, <1>2, <2>5, <2>9
        <5>2. m + (i + 1) - k = m + 1 + i - 0
          BY <2>9
        <5>3. job'[i] = job[i + 1]
          BY <1>1, <2>2, <5>1
        <5>4. job[i + 1] = rank_(asked[m + (i + 1) - k], m + (i + 1) - k - 1)
          BY <2>5, <5>1
        <5> QED  BY <5>2, <5>3, <5>4
      <4>3. ASSUME NEW i \in DOMAIN job' \ ((0 + 1)..(0 + n - (m + 1))),
                   job'[i].op \in {"rank", "delete"}
            PROVE  job'[i].id \notin Range(asked)
        <5>1. i + 1 \notin (k + 1)..(k + n - m) /\ i + 1 \in DOMAIN job /\ job'[i] = job[i + 1]
          BY <1>2, <2>3, <2>9
        <5> QED  BY <2>5, <4>3, <5>1
      <4> QED  BY <2>2, <4>1, <4>2, <4>3 DEF Coming, window, n
    <3>6. \E j \in 0..Len(asked'), h \in Nat : Placed(j)' /\ Coming(j, h)'
      BY <2>2, <3>1, <3>4, <3>5 DEF n
    <3> QED  BY <2>2, <2>4, <3>6 DEF Ordered
  <2> QED  BY <2>7, <2>8, <2>9
<1> QED  BY <1>0, <1>3, <1>4

LEMMA OrderedInit == Init => Ordered
<1> SUFFICES ASSUME Init PROVE Ordered
  OBVIOUS
<1>1. Len(asked) = 0 /\ Len(job) = 0 /\ Range(asked) = {} /\ DOMAIN job = {}
  BY DEF Init, Range
<1>2. Placed(0) /\ Coming(0, 0)
  BY <1>1 DEF Placed, Coming, window
<1> QED  BY <1>1, <1>2 DEF Ordered

LEMMA OrderedStep == IInv /\ Ordered /\ [Next]_vars => Ordered'
<1> SUFFICES ASSUME IInv, Ordered, [Next]_vars PROVE Ordered'
  OBVIOUS
<1>1. TypeOK'
  BY IInvStep DEF IInv
<1>2. CASE UNCHANGED vars
  <2>1. job' = job /\ asked' = asked /\ priority' = priority
    BY <1>2 DEF vars
  <2>2. \A m, k : (Placed(m) <=> Placed(m)') /\ (Coming(m, k) <=> Coming(m, k)')
    BY <2>1 DEF Placed, Coming, window
  <2>3. \E m \in 0..Len(asked'), k \in Nat : Placed(m)' /\ Coming(m, k)'
    BY <2>1, <2>2 DEF Ordered
  <2> QED  BY <2>1, <2>3 DEF Ordered
<1> QED  BY <1>1, <1>2, CommitOrder, AdminOrder, ProcessOrder DEF Next

\* The order an operator PUT stays in force, of an id listed twice the last position,
\* until a priority of one of its ids is written again.
THEOREM OrderStaysInForce == Spec => []OrderKept
<1>1. Spec => []Ordered
  BY OrderedInit, OrderedStep, Invariance, PTL DEF Spec
<1>2. IInv /\ Ordered => OrderKept
  <2> SUFFICES ASSUME IInv, Ordered, idle, NEW i \in DOMAIN asked, NEW j \in DOMAIN asked, i < j,
                      asked[i] \notin Range(SubSeq(asked, i + 1, Len(asked)))
               PROVE  priority[asked[i]] < priority[asked[j]]
    BY DEF OrderKept
  <2> DEFINE n == Len(asked)
  <2>1. TypeOK /\ Placed(n)
    BY OrderedAtRest DEF IInv, idle
  <2>2. n \in Nat /\ DOMAIN asked = 1..n /\ asked \in Seq(Provider)
    BY <2>1 DEF TypeOK
  <2>3. ASSUME NEW h \in (i + 1)..n PROVE asked[h] # asked[i]
    <3> DEFINE rest == SubSeq(asked, i + 1, n)
    <3>1. i + 1 \in Int /\ n \in Int /\ i + 1 <= n /\ \A k \in (i + 1)..n : asked[k] \in Provider
      BY <2>2
    <3>3. /\ rest \in Seq(Provider)
          /\ Len(rest) = n - (i + 1) + 1
          /\ \A k \in 1..(n - (i + 1) + 1) : rest[k] = asked[i + 1 + k - 1]
      BY <3>1, SubSeqProperties
    <3> HIDE DEF rest
    <3> DEFINE k == h - i
    <3>5. k \in 1..(n - (i + 1) + 1) /\ i + 1 + k - 1 = h
      BY <2>2
    <3> HIDE DEF k
    <3>6. k \in DOMAIN rest
      BY <3>3, <3>5
    <3>4. rest[k] = asked[h]
      BY <3>3, <3>5
    <3>2. asked[h] \in Range(rest)
      BY <3>4, <3>6 DEF Range
    <3> USE DEF rest
    <3> QED  BY <3>2
  <2>4. priority[asked[i]] = i - 1
    BY <2>1, <2>2, <2>3 DEF Placed
  <2>5. asked[j] \in DOMAIN priority /\ priority[asked[j]] >= j - 1
    BY <2>1, <2>2 DEF Placed
  <2>6. priority[asked[j]] \in Int
    BY <2>1, <2>5 DEF TypeOK, IsTable
  <2> QED  BY <2>2, <2>4, <2>5, <2>6
<1> QED  BY <1>1, <1>2, Invariance, PTL

-----------------------------------------------------------------------------
(* The bootstrap: how far it has come.                                     *)

\* The transactions of the bootstrap, two for each seed after the first one.
LEMMA SeedingAt ==
    ASSUME NEW key \in EncKey \cup {None}, NEW m \in 0..Len(Seed)
    PROVE  LET s == Seeding(key, m) IN
           /\ s[1].op = "routing"
           /\ \A k \in 1..m :
                 /\ s[2 * k] = insert(Seed[k].id, Seed[k].rank,
                                      encrypt_api_key(key, Seed[k].api_key))
                 /\ s[2 * k + 1] = rank_(Seed[k].id, Seed[k].rank)
           /\ Len(s) = IF m < Len(Seed) THEN 2 * m + 2 ELSE 2 * m + 1
           /\ m < Len(Seed) => s[2 * m + 2].op = "raise"
<1> DEFINE s == Seeding(key, m)
<1>0. m \in Nat /\ Len(Seed) \in Nat
  BY StoreConstants
<1>1. /\ DOMAIN s = 1..Len(s) /\ Len(s) \in Nat
      /\ Len(s) = IF m < Len(Seed) THEN 2 * m + 2 ELSE 2 * m + 1
      /\ s[1].op = "routing"
      /\ \A k \in 1..(2 * m) : s[k + 1] = stored(key, k)
      /\ \A i \in DOMAIN s : i > 2 * m + 1 => s[i].op = "raise"
  BY SeedingShape
<1> HIDE DEF s
<1>2. ASSUME NEW k \in 1..m
      PROVE  /\ s[2 * k] = insert(Seed[k].id, Seed[k].rank, encrypt_api_key(key, Seed[k].api_key))
             /\ s[2 * k + 1] = rank_(Seed[k].id, Seed[k].rank)
  <2>1. 2 * k - 1 \in 1..(2 * m) /\ 2 * k \in 1..(2 * m) /\ (2 * k - 1) + 1 = 2 * k
    BY <1>0
  <2>2. (2 * k - 1 + 1) \div 2 = k /\ (2 * k - 1) % 2 = 1
    BY <1>0
  <2>3. (2 * k + 1) \div 2 = k /\ (2 * k) % 2 # 1
    BY <1>0
  <2>4. s[2 * k - 1 + 1] = stored(key, 2 * k - 1) /\ s[2 * k + 1] = stored(key, 2 * k)
    BY <1>1, <2>1
  <2>5. stored(key, 2 * k - 1) = insert(Seed[k].id, Seed[k].rank, encrypt_api_key(key, Seed[k].api_key))
    BY <2>2 DEF stored
  <2>6. stored(key, 2 * k) = rank_(Seed[k].id, Seed[k].rank)
    BY <2>3 DEF stored
  <2> QED  BY <2>1, <2>4, <2>5, <2>6
<1>3. m < Len(Seed) => s[2 * m + 2].op = "raise"
  BY <1>0, <1>1
<1> QED  BY <1>1, <1>2, <1>3 DEF s

\* The rows of the first n seeds are stored, and nothing else; the ranks of the first n.
Stored(n) ==
    /\ DOMAIN providers = {Seed[i].id : i \in 1..n}
    /\ \A i \in 1..n : providers[Seed[i].id].priority = Seed[i].rank

RanksStored(n) ==
    \A i \in 1..n : Seed[i].id \in DOMAIN priority /\ priority[Seed[i].id] = Seed[i].rank

\* Of the transactions for the first m seeds the first d are done.
Rest(m, d) ==
    /\ Len(job) = Len(Seeding(enc, m)) - d
    /\ \A i \in DOMAIN job : job[i] = Seeding(enc, m)[d + i]

\* n seeds are stored, the last one without its rank while h = 0.
Halfway(m, n, h) ==
    /\ Stored(n) /\ RanksStored(n + h - 1)
    /\ Rest(m, 2 * n + h)
    /\ ~ran => DOMAIN priority = {Seed[i].id : i \in 1..(n + h - 1)}

Booting ==
    proc = "booting" => \E m \in 0..Len(Seed) : \E n \in 0..m, h \in {0, 1} : Halfway(m, n, h)

\* Before the process has ever been up the tables hold what starts that failed have left.
NotYet ==
    ~ran /\ proc = "down" =>
        /\ DOMAIN priority \subseteq DOMAIN providers
        /\ \E n \in 0..Len(Seed) :
              Stored(n) /\ RanksStored(n - 1) /\ (n > 0 => RanksStored(n) \/ Seed[n].id \in cut)

BootInv == Booting /\ NotYet /\ (proc = "up" => ran)

LEMMA BootInvInit == Init => BootInv
<1> SUFFICES ASSUME Init PROVE BootInv
  OBVIOUS
<1>1. proc = "down" /\ DOMAIN providers = {} /\ DOMAIN priority = {}
  BY DEF Init
<1>2. 0 \in 0..Len(Seed) /\ Stored(0) /\ RanksStored(0 - 1)
  BY <1>1, StoreConstants DEF Stored, RanksStored
<1> QED  BY <1>1, <1>2 DEF BootInv, Booting, NotYet

\* The next transaction of the bootstrap.
Upcoming(m, n, h) ==
    \/ h = 0 /\ n = 0 /\ Is("routing")
    \/ /\ h = 0 /\ n # 0 /\ n \in DOMAIN Seed
       /\ Head(job) = rank_(Seed[n].id, Seed[n].rank)
    \/ /\ h = 1 /\ n < m /\ n + 1 \in DOMAIN Seed
       /\ Head(job) = insert(Seed[n + 1].id, Seed[n + 1].rank,
                             encrypt_api_key(enc, Seed[n + 1].api_key))
    \/ h = 1 /\ n = m /\ m < Len(Seed) /\ Is("raise")

LEMMA BootHead ==
    ASSUME TypeOK, proc = "booting", NEW m \in 0..Len(Seed), NEW n \in 0..m, NEW h \in {0, 1},
           NEW d, d = 2 * n + h, Rest(m, d)
    PROVE  /\ Head(job) = Seeding(enc, m)[d + 1]
           /\ Len(job) = (IF m < Len(Seed) THEN 2 * m + 2 ELSE 2 * m + 1) - d
           /\ Upcoming(m, n, h)
<1> DEFINE s == Seeding(enc, m)
<1>0. m \in Nat /\ n \in Nat /\ Len(Seed) \in Nat /\ n <= m /\ m <= Len(Seed)
        /\ DOMAIN Seed = 1..Len(Seed) /\ enc \in EncKey \cup {None} /\ job # <<>>
  BY StoreConstants DEF TypeOK
<1>1. /\ s[1].op = "routing"
      /\ \A k \in 1..m :
            /\ s[2 * k] = insert(Seed[k].id, Seed[k].rank, encrypt_api_key(enc, Seed[k].api_key))
            /\ s[2 * k + 1] = rank_(Seed[k].id, Seed[k].rank)
      /\ Len(s) = IF m < Len(Seed) THEN 2 * m + 2 ELSE 2 * m + 1
      /\ m < Len(Seed) => s[2 * m + 2].op = "raise"
  BY <1>0, SeedingAt
<1>2. Head(job) = job[1] /\ 1 \in DOMAIN job /\ Len(job) \in Nat \ {0}
  BY <1>0, JobType
<1>3. Head(job) = s[2 * n + h + 1] /\ Len(job) = Len(s) - (2 * n + h) /\ d = 2 * n + h
  BY <1>2 DEF Rest
<1> HIDE DEF s
<1>4. CASE h = 0 /\ n = 0
  BY <1>0, <1>1, <1>3, <1>4 DEF Is, Upcoming, s
<1>5. CASE h = 0 /\ n # 0
  <2>1. n \in 1..m /\ 2 * n + h + 1 = 2 * n + 1 /\ n \in 1..Len(Seed)
    BY <1>0, <1>5
  <2> QED  BY <1>0, <1>1, <1>3, <1>5, <2>1 DEF s, Upcoming
<1>6. CASE h = 1 /\ n < m
  <2> DEFINE k == n + 1
  <2>1. k \in 1..m /\ 2 * n + h + 1 = 2 * k /\ k \in 1..Len(Seed)
    BY <1>0, <1>6
  <2> HIDE DEF k
  <2>2. Head(job) = insert(Seed[k].id, Seed[k].rank, encrypt_api_key(enc, Seed[k].api_key))
    BY <1>1, <1>3, <2>1
  <2> QED  BY <1>0, <1>1, <1>3, <1>6, <2>1, <2>2 DEF s, k, Upcoming
<1>7. CASE h = 1 /\ n = m
  <2>1. m < Len(Seed) /\ 2 * n + h + 1 = 2 * m + 2
    BY <1>0, <1>1, <1>2, <1>3, <1>7
  <2> QED  BY <1>0, <1>1, <1>3, <1>7, <2>1 DEF Is, Upcoming, s
<1> QED  BY <1>0, <1>3, <1>4, <1>5, <1>6, <1>7 DEF Upcoming

LEMMA BootNext ==
    TypeOK /\ proc = "booting" =>
        \A m \in 0..Len(Seed) : \A n \in 0..m, h \in {0, 1} :
            Rest(m, 2 * n + h) => Upcoming(m, n, h)
<1> SUFFICES ASSUME TypeOK, proc = "booting", NEW m \in 0..Len(Seed), NEW n \in 0..m,
                    NEW h \in {0, 1}, Rest(m, 2 * n + h)
             PROVE  Upcoming(m, n, h)
  OBVIOUS
<1> DEFINE d == 2 * n + h
<1>1. d = 2 * n + h /\ Rest(m, d)
  OBVIOUS
<1> HIDE DEF d
<1> QED  BY <1>1, BootHead

\* The rank that ends the bootstrap is that of the last seed.
LEMMA LastRank ==
    ASSUME NEW l \in Nat, NEW m \in 0..l, NEW n \in 0..m,
           1 = (IF m < l THEN 2 * m + 2 ELSE 2 * m + 1) - (2 * n + 0)
    PROVE  n = l
OBVIOUS

\* One transaction of the bootstrap: one position further, or the end.
LEMMA BootCommit ==
    ASSUME IInv, BootInv, proc = "booting", Commit
    PROVE  /\ BootInv'
           /\ proc' = "up" => Stored(Len(Seed))' /\ RanksStored(Len(Seed))'
<1>0. /\ TypeOK /\ job # <<>> /\ Len(Seed) \in Nat /\ DOMAIN Seed = 1..Len(Seed)
      /\ \A i, j \in 1..Len(Seed) : Seed[i].id = Seed[j].id => i = j
  BY StoreConstants DEF IInv, TypeOK
<1>1. PICK m \in 0..Len(Seed) : \E n \in 0..m, h \in {0, 1} : Halfway(m, n, h)
  BY DEF BootInv, Booting
<1>2. PICK n \in 0..m, h \in {0, 1} : Halfway(m, n, h)
  BY <1>1
<1>3. /\ m \in Nat /\ n \in Nat /\ n <= m /\ m <= Len(Seed) /\ h \in Nat
      /\ n \in 0..Len(Seed)
  BY <1>0
<1>4. /\ Stored(n) /\ RanksStored(n + h - 1) /\ Rest(m, 2 * n + h)
      /\ ~ran => DOMAIN priority = {Seed[i].id : i \in 1..(n + h - 1)}
  BY <1>2 DEF Halfway
<1> DEFINE Bound == IF m < Len(Seed) THEN 2 * m + 2 ELSE 2 * m + 1
<1>5. /\ Head(job) = Seeding(enc, m)[2 * n + h + 1]
      /\ Len(job) = Bound - (2 * n + h)
      /\ \/ h = 0 /\ n = 0 /\ Is("routing")
         \/ /\ h = 0 /\ n # 0 /\ n \in DOMAIN Seed
            /\ Head(job) = rank_(Seed[n].id, Seed[n].rank)
         \/ /\ h = 1 /\ n < m /\ n + 1 \in DOMAIN Seed
            /\ Head(job) = insert(Seed[n + 1].id, Seed[n + 1].rank,
                                  encrypt_api_key(enc, Seed[n + 1].api_key))
         \/ h = 1 /\ n = m /\ m < Len(Seed) /\ Is("raise")
  <2> DEFINE d == 2 * n + h
  <2>1. d = 2 * n + h /\ Rest(m, d)
    BY <1>4
  <2> HIDE DEF d
  <2>0. TypeOK
    BY <1>0
  <2>2. Head(job) = Seeding(enc, m)[d + 1]
    BY <2>0, <2>1, BootHead
  <2>3. Len(job) = Bound - d
    <3>1. enc \in EncKey \cup {None}
      BY <1>0 DEF TypeOK
    <3>2. Len(Seeding(enc, m)) = Bound
      BY <3>1, SeedingAt
    <3> QED  BY <2>1, <3>2 DEF Rest
  <2>4. Upcoming(m, n, h)
    BY <2>0, <2>1, BootHead
  <2> QED  BY <2>1, <2>2, <2>3, <2>4 DEF Upcoming
<1>6. /\ Len(job) \in Nat \ {0} /\ Len(Tail(job)) = Len(job) - 1
      /\ DOMAIN Tail(job) = 1..(Len(job) - 1) /\ DOMAIN job = 1..Len(job)
      /\ \A i \in 1..(Len(job) - 1) : Tail(job)[i] = job[i + 1]
      /\ Tail(job) = <<>> <=> Len(job) = 1
  <2>1. Tail(job) \in Seq(Transaction)
    BY <1>0, JobType
  <2>2. Tail(job) = <<>> <=> Len(Tail(job)) = 0
    BY <2>1, EmptySeq
  <2> QED  BY <1>0, <2>2, JobType
\* What is left, if anything is, is the rest one position further.
<1>7. ASSUME Done
      PROVE  /\ enc' = enc /\ job' = Tail(job)
             /\ proc' = (IF Len(job) = 1 THEN "up" ELSE "booting")
             /\ proc' = "up" => ran'
             /\ ran' = (ran \/ proc' = "up")
             /\ Len(job') = Bound - (2 * n + h) - 1
             /\ \A i \in DOMAIN job' : job'[i] = Seeding(enc', m)[2 * n + h + 1 + i]
  <2>1. /\ enc' = enc /\ job' = Tail(job)
        /\ proc' = (IF Len(job) = 1 THEN "up" ELSE "booting")
        /\ ran' = (ran \/ proc' = "up")
    BY <1>6, <1>7 DEF Done
  <2>2. ASSUME NEW i \in DOMAIN job' PROVE job'[i] = Seeding(enc', m)[2 * n + h + 1 + i]
    <3>1. i \in 1..(Len(job) - 1) /\ i + 1 \in DOMAIN job /\ i \in Nat
      BY <1>6, <2>1
    <3>2. job'[i] = job[i + 1]
      BY <1>6, <2>1, <3>1
    <3>3. job[i + 1] = Seeding(enc, m)[2 * n + h + (i + 1)]
      BY <1>4, <3>1 DEF Rest
    <3>4. 2 * n + h + (i + 1) = 2 * n + h + 1 + i
      BY <1>3, <3>1
    <3> QED  BY <2>1, <3>2, <3>3, <3>4
  <2> QED  BY <1>5, <1>6, <2>1, <2>2
<1>8. Len(Seeding(enc, m)) = Bound
  <2>1. enc \in EncKey \cup {None}
    BY <1>0 DEF TypeOK
  <2> QED  BY <2>1, SeedingAt
<1> HIDE DEF Bound
\* It is enough to find the new position.
<1>9. ASSUME Done, NEW k \in 0..m, NEW g \in {0, 1}, 2 * n + h + 1 = 2 * k + g,
             Stored(k)', RanksStored(k + g - 1)',
             ~ran => DOMAIN priority' = {Seed[i].id : i \in 1..(k + g - 1)}
      PROVE  BootInv'
  <2>1. Rest(m, 2 * k + g)'
    <3>1. Len(job') = Len(Seeding(enc', m)) - (2 * k + g)
      <4>1. enc' = enc /\ Len(job') = Bound - (2 * n + h) - 1
        BY <1>7, <1>9
      <4>2. Bound \in Int
        BY <1>3 DEF Bound
      <4> QED  BY <1>3, <1>8, <1>9, <4>1, <4>2
    <3>2. \A i \in DOMAIN job' : job'[i] = Seeding(enc', m)[2 * k + g + i]
      BY <1>7, <1>9
    <3> QED  BY <3>1, <3>2 DEF Rest
  <2>2. ~ran' => ~ran
    BY <1>7, <1>9
  <2>3. Halfway(m, k, g)'
    BY <1>9, <2>1, <2>2 DEF Halfway
  <2> QED  BY <1>7, <1>9, <2>3 DEF BootInv, Booting, NotYet
<1>10. CASE h = 0 /\ n = 0 /\ Is("routing")
  <2>1. routing_config_set
    BY <1>10 DEF Commit, Is, provider_insert, provider_update, provider_priority_set,
       provider_delete, agent_override_set, failover_conditions_replace_all, Raise
  <2>2. Done /\ UNCHANGED <<providers, priority>>
    BY <2>1 DEF routing_config_set
  <2>3. Stored(0)' /\ RanksStored(0 + 1 - 1)'
    BY <1>4, <1>10, <2>2 DEF Stored, RanksStored
  <2>4. 1..(n + h - 1) = {} /\ 1..(0 + 1 - 1) = {}
    BY <1>10
  <2>5. ~ran => DOMAIN priority' = {Seed[i].id : i \in 1..(0 + 1 - 1)}
    BY <1>4, <2>2, <2>4
  <2>6. 0 \in 0..m /\ 2 * n + h + 1 = 2 * 0 + 1
    BY <1>3, <1>10
  <2>7. BootInv'
    BY <1>9, <2>2, <2>3, <2>5, <2>6
  <2>8. proc' = "up" => Len(Seed) = 0
    <3>1. proc' = "up" => Len(job) = 1
      BY <1>7, <2>2
    <3> QED  BY <1>0, <1>3, <1>5, <1>10, <3>1 DEF Bound
  <2> QED  BY <2>3, <2>7, <2>8
<1>11. CASE h = 0 /\ n # 0 /\ n \in DOMAIN Seed /\ Head(job) = rank_(Seed[n].id, Seed[n].rank)
  <2>1. Is("rank") /\ Head(job).id = Seed[n].id /\ Head(job).rank = Seed[n].rank
    BY <1>0, <1>11 DEF Is, rank_
  <2>2. provider_priority_set
    BY <2>1 DEF Commit, Is, provider_insert, provider_update, routing_config_set,
       provider_delete, agent_override_set, failover_conditions_replace_all, Raise
  <2>3. Done /\ providers' = providers /\ priority' = Upsert(priority, Seed[n].id, Seed[n].rank)
    BY <2>1, <2>2 DEF provider_priority_set
  <2>4. Stored(n)'
    BY <1>4, <2>3 DEF Stored
  <2>5. RanksStored(n)'
    <3>1. SUFFICES ASSUME NEW i \in 1..n
                   PROVE  Seed[i].id \in DOMAIN priority' /\ priority'[Seed[i].id] = Seed[i].rank
      BY DEF RanksStored
    <3>2. CASE i = n
      BY <2>3, <3>2 DEF Upsert
    <3>3. CASE i # n
      <4>1. i \in 1..(n + h - 1) /\ Seed[i].id # Seed[n].id
        BY <1>0, <1>3, <1>11, <3>3
      <4>2. Seed[i].id \in DOMAIN priority /\ priority[Seed[i].id] = Seed[i].rank
        BY <1>4, <4>1 DEF RanksStored
      <4> QED  BY <2>3, <4>1, <4>2 DEF Upsert
    <3> QED  BY <3>2, <3>3
  <2>6. ~ran => DOMAIN priority' = {Seed[i].id : i \in 1..n}
    <3>1. DOMAIN priority' = DOMAIN priority \cup {Seed[n].id}
      BY <2>3 DEF Upsert
    <3>2. 1..n = 1..(n + h - 1) \cup {n}
      BY <1>3, <1>11
    <3> QED  BY <1>4, <3>1, <3>2
  <2>7. n + 1 - 1 = n /\ 2 * n + h + 1 = 2 * n + 1
    BY <1>3, <1>11
  <2>8. BootInv'
    BY <1>9, <2>3, <2>4, <2>5, <2>6, <2>7
  <2>9. proc' = "up" => n = Len(Seed)
    <3>1. proc' = "up" => Len(job) = 1
      BY <1>7, <2>3
    <3>2. Len(job) = (IF m < Len(Seed) THEN 2 * m + 2 ELSE 2 * m + 1) - (2 * n + h)
      BY <1>5 DEF Bound
    <3> QED  BY <1>0, <1>11, <3>1, <3>2, LastRank
  <2> QED  BY <2>4, <2>5, <2>8, <2>9
<1>12. CASE /\ h = 1 /\ n < m /\ n + 1 \in DOMAIN Seed
            /\ Head(job) = insert(Seed[n + 1].id, Seed[n + 1].rank,
                                  encrypt_api_key(enc, Seed[n + 1].api_key))
  <2> DEFINE k == n + 1
             seed == Seed[k]
  <2>1. k \in 1..Len(Seed) /\ k \in 0..m /\ 2 * n + h + 1 = 2 * k + 0 /\ k + 0 - 1 = n
          /\ n + h - 1 = n
    BY <1>0, <1>3, <1>12
  <2>2. Is("insert") /\ Head(job).id = seed.id /\ Head(job).rank = seed.rank
    BY <1>0, <1>12 DEF Is, insert
  <2>3. provider_insert
    BY <2>2 DEF Commit, Is, provider_priority_set, provider_update, routing_config_set,
       provider_delete, agent_override_set, failover_conditions_replace_all, Raise
  <2> HIDE DEF k
  <2>4. /\ Done /\ priority' = priority
        /\ providers' = Upsert(providers, seed.id,
                            [priority |-> seed.rank, api_key_encrypted |-> Head(job).token])
    BY <2>2, <2>3 DEF provider_insert
  <2>5. Stored(k)'
    <3>1. DOMAIN providers' = DOMAIN providers \cup {seed.id}
      BY <2>4 DEF Upsert
    <3>2. 1..k = 1..n \cup {k} /\ k \notin 1..n
      BY <1>3, <2>1
    <3>3. DOMAIN providers' = {Seed[i].id : i \in 1..k}
      BY <1>4, <3>1, <3>2 DEF Stored
    <3>4. ASSUME NEW i \in 1..k PROVE providers'[Seed[i].id].priority = Seed[i].rank
      <4>1. CASE i = k
        BY <2>4, <4>1 DEF Upsert
      <4>2. CASE i # k
        <5>1. i \in 1..n /\ i \in 1..Len(Seed)
          BY <1>3, <3>2, <4>2
        <5>2. Seed[i].id # seed.id
          BY <1>0, <2>1, <4>2, <5>1
        <5>3. Seed[i].id \in DOMAIN providers /\ providers[Seed[i].id].priority = Seed[i].rank
          BY <1>4, <5>1 DEF Stored
        <5> QED  BY <2>4, <5>2, <5>3 DEF Upsert
      <4> QED  BY <4>1, <4>2
    <3> QED  BY <3>3, <3>4 DEF Stored
  <2>6. RanksStored(k + 0 - 1)'
    BY <1>4, <2>1, <2>4 DEF RanksStored
  <2>7. ~ran => DOMAIN priority' = {Seed[i].id : i \in 1..(k + 0 - 1)}
    BY <1>4, <2>1, <2>4
  <2>8. BootInv'
    BY <1>9, <2>1, <2>4, <2>5, <2>6, <2>7
  <2>9. proc' # "up"
    <3>1. proc' = "up" => Len(job) = 1
      BY <1>7, <2>4
    <3> QED  BY <1>0, <1>3, <1>5, <1>12, <3>1 DEF Bound
  <2> QED  BY <2>8, <2>9
<1>13. CASE h = 1 /\ n = m /\ m < Len(Seed) /\ Is("raise")
  <2>1. Raise
    BY <1>13 DEF Commit, Is, provider_insert, provider_priority_set, provider_update,
       routing_config_set, provider_delete, agent_override_set, failover_conditions_replace_all
  <2>2. /\ proc' = "down" /\ UNCHANGED <<providers, priority, ran, cut>>
    BY <2>1 DEF Raise, db, history
  <2>3. n + h - 1 = n
    BY <1>3, <1>13
  <2>4. Stored(n)' /\ RanksStored(n)' /\ RanksStored(n - 1)'
    <3>1. \A i \in 1..(n - 1) : i \in 1..n
      BY <1>3
    <3> QED  BY <1>4, <2>2, <2>3, <3>1 DEF Stored, RanksStored
  <2>5. ~ran' => DOMAIN priority' \subseteq DOMAIN providers'
    BY <1>4, <2>2, <2>3 DEF Stored
  <2>6. NotYet'
    BY <1>3, <2>2, <2>4, <2>5 DEF NotYet
  <2> QED  BY <2>2, <2>6 DEF BootInv, Booting
<1> QED  BY <1>5, <1>10, <1>11, <1>12, <1>13

\* A death before the process has ever been up leaves what is stored, the last seed perhaps
\* without its rank.
LEMMA BootCrash ==
    ASSUME IInv, BootInv, Crash PROVE BootInv'
<1>1. proc' = "down" /\ UNCHANGED <<providers, priority, ran>> /\ proc \in {"booting", "up"}
  BY DEF Crash, db, IInv, TypeOK
<1>2. SUFFICES ASSUME ~ran, proc = "booting" PROVE NotYet'
  BY <1>1 DEF BootInv, Booting, NotYet
<1>3. PICK m \in 0..Len(Seed) : \E n \in 0..m, h \in {0, 1} : Halfway(m, n, h)
  BY <1>2 DEF BootInv, Booting
<1>4. PICK n \in 0..m, h \in {0, 1} : Halfway(m, n, h)
  BY <1>3
<1>5. /\ m \in Nat /\ n \in Nat /\ n \in 0..Len(Seed) /\ Len(Seed) \in Nat /\ TypeOK
      /\ \A i, j \in 1..Len(Seed) : Seed[i].id = Seed[j].id => i = j
  BY StoreConstants DEF IInv
<1>6. /\ Stored(n) /\ RanksStored(n + h - 1) /\ Rest(m, 2 * n + h)
      /\ DOMAIN priority = {Seed[i].id : i \in 1..(n + h - 1)}
  BY <1>2, <1>4 DEF Halfway
<1>7. 1..(n + h - 1) \subseteq 1..n /\ 1..(n - 1) \subseteq 1..(n + h - 1) /\ 1..(n - 1) \subseteq 1..n
  BY <1>5
<1>8. DOMAIN priority \subseteq DOMAIN providers /\ RanksStored(n - 1)
  BY <1>6, <1>7 DEF Stored, RanksStored
<1>9. ASSUME n > 0 PROVE RanksStored(n) \/ Seed[n].id \in cut'
  <2>1. CASE h = 1
    <3>1. n + h - 1 = n
      BY <1>5, <2>1
    <3> QED  BY <1>6, <3>1
  <2>2. CASE h = 0
    <3> DEFINE d == 2 * n + h
    <3>1. d = 2 * n + h /\ Rest(m, d)
      BY <1>6
    <3> HIDE DEF d
    <3>2. Upcoming(m, n, h)
      BY <1>2, <1>5, <3>1, BootHead
    <3>3. n \in 1..Len(Seed) /\ Head(job) = rank_(Seed[n].id, Seed[n].rank) /\ n \notin 1..(n + h - 1)
      BY <1>5, <1>9, <2>2, <3>2 DEF Upcoming
    <3>4. Is("rank") /\ Head(job).id = Seed[n].id
      BY <1>2, <1>5, <3>3 DEF Is, rank_, TypeOK
    <3>5. Seed[n].id \notin DOMAIN priority
      <4>1. ASSUME NEW i \in 1..(n + h - 1) PROVE Seed[i].id # Seed[n].id
        <5>1. i \in 1..Len(Seed) /\ i # n
          BY <1>5, <1>7, <3>3
        <5> QED  BY <1>5, <3>3, <5>1
      <4> QED  BY <1>6, <4>1
    <3>6. Seed[n].id \in DOMAIN providers
      BY <1>5, <1>6, <1>9 DEF Stored
    <3> QED  BY <3>4, <3>5, <3>6 DEF Crash
  <2> QED  BY <2>1, <2>2
<1> QED  BY <1>1, <1>5, <1>6, <1>8, <1>9 DEF NotYet, Stored, RanksStored

LEMMA BootStarts ==
    ASSUME IInv, BootInv, NEW key \in EncKey \cup {None}, Boot(key) PROVE BootInv'
<1>1. proc = "down" /\ UNCHANGED <<providers, priority>> /\ enc' = key
  BY DEF Boot, db
<1>2. CASE DOMAIN providers # {} \/ Seed = <<>>
  BY <1>2 DEF Boot, BootInv, Booting, NotYet
<1>3. CASE ~(DOMAIN providers # {} \/ Seed = <<>>)
  <2>1. PICK m \in 0..Len(Seed) : job' = Seeding(key, m)
    BY <1>3 DEF Boot
  <2>2. proc' = "booting" /\ ran' = ran
    BY <1>3 DEF Boot
  <2>3. m \in Nat /\ Seeding(key, m) \in Seq(Transaction)
    BY SeedingShape, StoreConstants
  <2>4. Stored(0)' /\ RanksStored(0 + 0 - 1)'
    <3>1. 1..0 = {} /\ 1..(0 + 0 - 1) = {}
      OBVIOUS
    <3>2. DOMAIN providers' = {}
      BY <1>1, <1>3
    <3> QED  BY <3>1, <3>2 DEF Stored, RanksStored
  <2>5. Rest(m, 2 * 0 + 0)'
    <3>1. Len(job') = Len(Seeding(enc', m)) - (2 * 0 + 0)
      BY <1>1, <2>1, <2>3
    <3>2. ASSUME NEW i \in DOMAIN job' PROVE job'[i] = Seeding(enc', m)[2 * 0 + 0 + i]
      <4>1. i \in Nat
        BY <2>1, <2>3
      <4> QED  BY <1>1, <2>1, <4>1
    <3> QED  BY <3>1, <3>2 DEF Rest
  <2>6. ~ran' => DOMAIN priority' = {Seed[i].id : i \in 1..(0 + 0 - 1)}
    <3>1. 1..(0 + 0 - 1) = {}
      OBVIOUS
    <3>2. ~ran' => DOMAIN priority' = {}
      BY <1>1, <1>3, <2>2 DEF BootInv, NotYet
    <3> QED  BY <3>1, <3>2
  <2>7. Halfway(m, 0, 0)'
    BY <2>4, <2>5, <2>6 DEF Halfway
  <2>8. 0 \in 0..m
    BY <2>3
  <2> QED  BY <2>2, <2>7, <2>8 DEF BootInv, Booting, NotYet
<1> QED  BY <1>2, <1>3

LEMMA BootInvStep == IInv /\ BootInv /\ [Next]_vars => BootInv'
<1> SUFFICES ASSUME IInv, BootInv, [Next]_vars PROVE BootInv'
  OBVIOUS
<1>0. TypeOK
  BY DEF IInv
<1>1. CASE Commit
  <2>1. CASE proc = "booting"
    BY <1>1, <2>1, BootCommit
  <2>2. CASE proc # "booting"
    <3>1. proc = "up" /\ ran
      BY <1>0, <1>1, <2>2 DEF Commit, Is, provider_insert, provider_update, provider_priority_set,
         provider_delete, agent_override_set, failover_conditions_replace_all, routing_config_set,
         Raise, TypeOK, BootInv
    <3>2. (Done \/ Raise)
      BY <1>1 DEF Commit, provider_insert, provider_update, provider_priority_set,
         provider_delete, agent_override_set, failover_conditions_replace_all, routing_config_set
    <3>3. proc' # "booting" /\ ran'
      BY <3>1, <3>2 DEF Done, Raise, history
    <3> QED  BY <3>3 DEF BootInv, Booting, NotYet
  <2> QED  BY <2>1, <2>2
<1>2. CASE Admin
  <2>1. proc = "up" /\ proc' = proc /\ ran' = ran
    BY <1>0, <1>2, AdminStarts DEF idle
  <2> QED  BY <2>1 DEF BootInv, Booting, NotYet
<1>3. CASE Process
  BY <1>3, BootCrash, BootStarts DEF Process
<1>4. CASE UNCHANGED vars
  <2>1. UNCHANGED <<providers, priority, proc, enc, job, ran, cut>>
    BY <1>4 DEF vars
  <2>2. \A n : Stored(n)' = Stored(n) /\ RanksStored(n)' = RanksStored(n)
    BY <2>1 DEF Stored, RanksStored
  <2>3. \A m, d : Rest(m, d)' = Rest(m, d)
    BY <2>1 DEF Rest
  <2>4. \A m, n, h : Halfway(m, n, h)' = Halfway(m, n, h)
    BY <2>1, <2>2, <2>3 DEF Halfway
  <2> QED  BY <2>1, <2>2, <2>4 DEF BootInv, Booting, NotYet
<1> QED  BY <1>1, <1>2, <1>3, <1>4 DEF Next

\* A first run comes up with the first seeds of the file, in order, and with all of them
\* routed to but for one a death cut in two, whatever starts came before it.
THEOREM SeedsInOrder == Spec => SeededInOrder
<1> DEFINE InOrder ==
        \E n \in 0..Len(Seed) :
           /\ n = 0 => Seed = <<>>
           /\ DOMAIN providers' = {Seed[i].id : i \in 1..n}
           /\ \A i \in 1..n : LET seed == Seed[i] IN
                 /\ providers'[seed.id].priority = seed.rank
                 /\ \/ seed.id \in DOMAIN priority' /\ priority'[seed.id] = seed.rank
                    \/ i = n /\ seed.id \in cut'
<1>1. ASSUME IInv, BootInv, Next, ~ran, ran'
      PROVE  InOrder
  <2>0. TypeOK /\ Len(Seed) \in Nat /\ (Len(Seed) = 0 => Seed = <<>>)
    <3> DEFINE Record == [id : Provider, api_key : ApiKey \cup {None}, rank : Int]
    <3>1. Seed \in Seq(Record)
      BY StoreConstants
    <3> HIDE DEF Record
    <3> QED  BY <1>1, <3>1 DEF IInv
  <2>1. CASE Commit
    <3>1. Done /\ proc \in {"booting", "up"} /\ proc' = "up"
      BY <1>1, <2>0, <2>1 DEF Commit, Is, Done, provider_insert, provider_update,
         provider_priority_set, provider_delete, agent_override_set,
         failover_conditions_replace_all, routing_config_set, Raise, history, TypeOK
    <3>2. proc = "booting"
      BY <1>1, <3>1 DEF BootInv
    <3>3. Stored(Len(Seed))' /\ RanksStored(Len(Seed))'
      BY <1>1, <2>1, <3>1, <3>2, BootCommit
    <3> DEFINE n == Len(Seed)
    <3>4. n \in 0..Len(Seed) /\ (n = 0 => Seed = <<>>)
      BY <2>0
    <3>5. Stored(n)' /\ RanksStored(n)'
      BY <3>3
    <3> HIDE DEF n
    <3> QED  BY <3>4, <3>5 DEF Stored, RanksStored
  <2>2. CASE Admin
    BY <1>1, <2>0, <2>2, AdminStarts
  <2>3. CASE Crash
    BY <1>1, <2>3 DEF Crash
  <2>4. ASSUME NEW key \in EncKey \cup {None}, Boot(key)
        PROVE  InOrder
    <3>1. proc = "down" /\ UNCHANGED <<providers, priority, cut>>
            /\ (DOMAIN providers # {} \/ Seed = <<>>)
      BY <1>1, <2>4 DEF Boot, db
    <3>2. PICK n \in 0..Len(Seed) :
             Stored(n) /\ RanksStored(n - 1) /\ (n > 0 => RanksStored(n) \/ Seed[n].id \in cut)
      BY <1>1, <3>1 DEF BootInv, NotYet
    <3>3. n = 0 => Seed = <<>>
      BY <3>1, <3>2 DEF Stored
    <3>4. ASSUME NEW i \in 1..n
          PROVE  \/ Seed[i].id \in DOMAIN priority /\ priority[Seed[i].id] = Seed[i].rank
                 \/ i = n /\ Seed[i].id \in cut
      <4>1. n \in Nat /\ n > 0
        BY <2>0
      <4>2. CASE i = n
        BY <3>2, <4>1, <4>2 DEF RanksStored
      <4>3. CASE i # n
        <5>1. i \in 1..(n - 1)
          BY <4>1, <4>3
        <5> QED  BY <3>2, <5>1 DEF RanksStored
      <4> QED  BY <4>2, <4>3
    <3> QED  BY <3>1, <3>2, <3>3, <3>4 DEF Stored
  <2> QED  BY <1>1, <2>1, <2>2, <2>3, <2>4 DEF Next, Process
<1>2. IInv /\ BootInv /\ [Next]_vars =>
         (~ran /\ ran' => InOrder)
  BY <1>1 DEF vars
<1> QED  BY <1>2, IInvInit, IInvStep, BootInvInit, BootInvStep, PTL DEF Spec, SeededInOrder

\* A start that stores some of the seeds and does not come up.
CutShort == proc = "booting" /\ proc' = "down"

\* What holds of bootstrap.py:2, and all that keeps it from holding: a first run comes up
\* with all of the seeds if no start before it was cut short.
THEOREM SeededWholeUnlessCut == Spec /\ [][~CutShort]_vars => SeededWhole
<1> DEFINE Empty_ == ~ran /\ proc = "down" => DOMAIN providers = {}
<1>1. Init => Empty_
  BY DEF Init
<1>2. ASSUME IInv, BootInv, Empty_, [Next]_vars, [~CutShort]_vars PROVE Empty_'
  <2> SUFFICES ASSUME ~ran', proc' = "down" PROVE DOMAIN providers' = {}
    OBVIOUS
  <2>1. CASE UNCHANGED vars
    BY <1>2, <2>1 DEF vars
  <2>2. CASE ~UNCHANGED vars
    <3>1. Next /\ ~CutShort
      BY <1>2, <2>2
    <3>2. ~ran
      BY <1>2, <3>1, AdminStarts DEF Next, Commit, Done, provider_insert, provider_update,
         provider_priority_set, provider_delete, agent_override_set, IInv,
         failover_conditions_replace_all, routing_config_set, Raise, Process, Crash, Boot, history
    <3>3. proc \in {"booting", "down"}
      BY <1>2, <3>2 DEF IInv, TypeOK, BootInv
    <3>4. proc = "down"
      BY <3>1, <3>3 DEF CutShort
    <3>5. FALSE
      BY <1>2, <3>1, <3>4, AdminStarts DEF Next, Commit, Is, Process, Crash, Boot, idle, IInv, TypeOK,
         provider_insert, provider_update, provider_priority_set, provider_delete,
         agent_override_set, failover_conditions_replace_all, routing_config_set, Raise
    <3> QED  BY <3>5
  <2> QED  BY <2>1, <2>2
<1>3. ASSUME IInv, BootInv, Empty_, [Next]_vars, ~ran, ran'
      PROVE  {Seed[i].id : i \in DOMAIN Seed} \subseteq DOMAIN providers'
  <2>0. Next /\ TypeOK
    BY <1>3 DEF vars, IInv
  <2>1. CASE Commit
    <3>1. Done /\ proc \in {"booting", "up"} /\ proc' = "up"
      BY <1>3, <2>0, <2>1 DEF Commit, Is, Done, provider_insert, provider_update,
         provider_priority_set, provider_delete, agent_override_set,
         failover_conditions_replace_all, routing_config_set, Raise, history, TypeOK
    <3>2. Stored(Len(Seed))'
      BY <1>3, <2>1, <3>1, BootCommit DEF BootInv
    <3>3. DOMAIN Seed = 1..Len(Seed)
      BY StoreConstants
    <3> QED  BY <3>2, <3>3 DEF Stored
  <2>2. CASE Admin
    BY <1>3, <2>0, <2>2, AdminStarts
  <2>3. CASE Process
    <3>1. DOMAIN providers = {} /\ (DOMAIN providers # {} \/ Seed = <<>>)
      BY <1>3, <2>3 DEF Process, Crash, Boot
    <3> QED  BY <3>1
  <2> QED  BY <2>0, <2>1, <2>2, <2>3 DEF Next
<1>4. IInv /\ BootInv /\ Empty_ /\ [Next]_vars /\ [~CutShort]_vars => Empty_'
  BY <1>2
<1>5. IInv /\ BootInv /\ Empty_ /\ [Next]_vars =>
         (~ran /\ ran' => {Seed[i].id : i \in DOMAIN Seed} \subseteq DOMAIN providers')
  BY <1>3
<1> HIDE DEF Empty_
<1> QED  BY <1>1, <1>4, <1>5, IInvInit, IInvStep, BootInvInit, BootInvStep, PTL DEF Spec, SeededWhole

-----------------------------------------------------------------------------
(* Handlers are steps: the transactions of a handler amount to one step of Proxy.      *)

\* A handler begins with the one transaction that is not a rank, a list of conditions or
\* the strategy, if it has one.
Headed ==
    proc = "up" => \A i \in DOMAIN job :
        job[i].op # "raise" /\ (i > 1 => job[i].op \in {"rank", "failover", "routing"})

LEMMA HeadedInit == Init => Headed
BY DEF Init, Headed

LEMMA HeadedStep == IInv /\ Headed /\ [Next]_vars => Headed'
<1> SUFFICES ASSUME IInv, Headed, [Next]_vars PROVE Headed'
  OBVIOUS
<1>0. TypeOK
  BY DEF IInv
<1>1. CASE Commit
  <2>1. job # <<>> /\ (Done \/ Raise)
    BY <1>1 DEF Commit, Is, provider_insert, provider_update, provider_priority_set,
       provider_delete, agent_override_set, failover_conditions_replace_all, routing_config_set,
       Raise
  <2>2. CASE Raise
    BY <2>2 DEF Raise, Headed
  <2>3. CASE Done
    <3>1. /\ job' = Tail(job) /\ proc' = (IF job' = <<>> THEN "up" ELSE proc)
          /\ Len(job) \in Nat \ {0} /\ DOMAIN job = 1..Len(job)
          /\ DOMAIN job' = 1..(Len(job) - 1)
          /\ \A i \in 1..(Len(job) - 1) : job'[i] = job[i + 1]
      BY <1>0, <2>1, <2>3, JobType DEF Done
    <3>2. CASE job' = <<>>
      BY <3>2 DEF Headed
    <3>3. CASE job' # <<>>
      <4>1. ASSUME proc' = "up", NEW i \in DOMAIN job'
            PROVE  job'[i].op # "raise" /\ job'[i].op \in {"rank", "failover", "routing"}
        <5>1. i + 1 \in DOMAIN job /\ i + 1 > 1 /\ job'[i] = job[i + 1] /\ proc = "up"
          BY <3>1, <3>3, <4>1
        <5> QED  BY <5>1 DEF Headed
      <4> QED  BY <4>1 DEF Headed
    <3> QED  BY <3>2, <3>3
  <2> QED  BY <2>1, <2>2, <2>3
<1>2. CASE Admin
  <2>1. NewJob
    BY <1>0, <1>2, AdminStarts
  <2>2. ASSUME NEW p \in Provider, NEW rank \in Int, NEW token \in Token \cup {None},
               job' = <<insert(p, rank, token), rank_(p, rank)>>
        PROVE  Headed'
    BY <2>2 DEF Headed, insert, rank_
  <2>3. ASSUME NEW p \in DOMAIN providers, NEW rank \in Option(Rank),
               NEW token \in Token \cup {None}, job' = patch(p, rank, token)
        PROVE  Headed'
    <3>1. p \in Provider
      BY <1>0 DEF TypeOK, IsTable
    <3>2. \A i \in DOMAIN job' : i > 1 => job'[i].op = "rank"
      BY <2>3, <3>1, PatchJob
    <3>3. job'[1].op = "update" /\ \A i \in DOMAIN job' : i = 1 \/ i > 1
      <4>1. job'[1] = update(p, rank, token)
        BY <2>3, <3>1, PatchJob
      <4>2. DOMAIN job' = 1..(1 + Len(rank)) /\ Len(rank) \in {0, 1}
        BY <2>3, <3>1, PatchJob
      <4> QED  BY <4>1, <4>2 DEF update
    <3> QED  BY <3>2, <3>3 DEF Headed
  <2>4. ASSUME NEW p \in DOMAIN providers, job' = <<[op |-> "delete", id |-> p]>> PROVE Headed'
    BY <2>4 DEF Headed
  <2>5. ASSUME NEW s \in Bearer, NEW id \in Provider \cup {None},
               job' = <<[op |-> "override", session |-> s, id |-> id]>>
        PROVE  Headed'
    BY <2>5 DEF Headed
  <2>6. ASSUME NEW routing \in Option(Strategy), NEW order \in Seq(Provider),
               NEW ids \in Option(SUBSET Provider), job' = put(routing, order, ids)
        PROVE  Headed'
    <3>1. \A i \in DOMAIN job' : job'[i].op \in {"routing", "rank", "failover"}
      BY <2>6, PutOps
    <3> QED  BY <3>1 DEF Headed
  <2> QED  BY <2>1, <2>2, <2>3, <2>4, <2>5, <2>6 DEF NewJob
<1>3. CASE Process
  <2>1. CASE Crash
    BY <2>1 DEF Crash, Headed
  <2>2. ASSUME NEW key \in EncKey \cup {None}, Boot(key) PROVE Headed'
    <3>1. proc' = "up" => job' = <<>>
      BY <1>0, <2>2 DEF Boot, TypeOK
    <3> QED  BY <3>1 DEF Headed
  <2> QED  BY <1>3, <2>1, <2>2 DEF Process
<1>4. CASE UNCHANGED vars
  BY <1>4 DEF vars, Headed
<1> QED  BY <1>1, <1>2, <1>3, <1>4 DEF Next

\* The tables as Proxy reads them when nothing is under way.
rows == [p \in DOMAIN providers |-> row(providers[p].priority)]
pins == [k \in {<<"token", s>> : s \in DOMAIN override} |-> override[k[2]]]

\* The last of the ranks to come.
Last(p) == CHOOSE i \in Ranking(p) : \A j \in Ranking(p) : j <= i

LEMMA LastRanking ==
    ASSUME TypeOK, NEW p, Ranking(p) # {}
    PROVE  /\ Last(p) \in Ranking(p) /\ \A j \in Ranking(p) : j <= Last(p)
           /\ \A i \in Ranking(p) : (\A j \in Ranking(p) : j <= i) => i = Last(p)
<1>1. DOMAIN job = 1..Len(job) /\ Len(job) \in Nat
  BY DEF TypeOK
<1>2. Ranking(p) \subseteq 1..Len(job)
  BY <1>1 DEF Ranking
<1>3. \E i \in Ranking(p) : \A j \in Ranking(p) : j <= i
  BY <1>1, <1>2, Greatest
<1>4. Last(p) \in Ranking(p) /\ \A j \in Ranking(p) : j <= Last(p)
  BY <1>3 DEF Last
<1> QED  BY <1>1, <1>2, <1>4

\* Nothing under way, and nothing of a seed half done.
LEMMA AtRest ==
    TypeOK /\ (job = <<>> \/ (proc # "up" /\ ~Is("rank"))) =>
        providersSoon = rows /\ prioritySoon = priority /\ overrideSoon = pins
<1> SUFFICES ASSUME TypeOK, job = <<>> \/ (proc # "up" /\ ~Is("rank"))
             PROVE  providersSoon = rows /\ prioritySoon = priority /\ overrideSoon = pins
  OBVIOUS
<1>1. \A op : ~Soon(op)
  BY DEF Soon, Is
<1>2. \A p : Ranking(p) = {}
  <2> SUFFICES ASSUME NEW p, NEW i \in Ranking(p) PROVE FALSE
    OBVIOUS
  <2>1. i \in DOMAIN job /\ (proc = "up" \/ i = 1) /\ job[i].op = "rank"
    BY DEF Ranking
  <2>2. job # <<>>
    BY <2>1
  <2>3. Head(job) = job[1]
    BY <2>2, JobType
  <2> QED  BY <2>1, <2>2, <2>3 DEF Is
<1>3. providersSoon = rows
  BY <1>1 DEF providersSoon, rows
<1>4. overrideSoon = pins
  BY <1>1 DEF overrideSoon, pins
<1>5. prioritySoon = priority
  <2>1. priority = [p \in DOMAIN priority |-> priority[p]]
    BY DEF TypeOK, IsTable
  <2>2. prioritySoon = [p \in DOMAIN priority |-> priority[p]]
    BY <1>1, <1>2 DEF prioritySoon
  <2> QED  BY <2>1, <2>2
<1> QED  BY <1>3, <1>4, <1>5

\* While a handler runs its transactions change nothing that Proxy reads: they make true
\* what has been read since it began.
LEMMA PriorityKept ==
    ASSUME IInv, Headed, proc = "up", Commit PROVE prioritySoon' = prioritySoon
<1>0. TypeOK /\ job # <<>>
  BY DEF IInv, Commit, Is, provider_insert, provider_update, provider_priority_set,
     provider_delete, agent_override_set, failover_conditions_replace_all, routing_config_set,
     Raise
<1>1. /\ Head(job) = job[1] /\ 1 \in DOMAIN job
      /\ Len(job) \in Nat \ {0} /\ DOMAIN job = 1..Len(job)
  BY <1>0, JobType
<1>2. Done
  <2>1. ~Raise
    BY <1>0, <1>1 DEF Raise, Is, Headed
  <2> QED  BY <2>1 DEF Commit, provider_insert, provider_update, provider_priority_set,
       provider_delete, agent_override_set, failover_conditions_replace_all, routing_config_set
<1>3. /\ proc' = "up" /\ job' = Tail(job) /\ DOMAIN job' = 1..(Len(job) - 1)
      /\ \A i \in 1..(Len(job) - 1) : job'[i] = job[i + 1]
  BY <1>0, <1>2, JobType DEF Done
<1>4. \A i \in DOMAIN job' : job'[i].op \in {"rank", "failover", "routing"}
  <2>1. ASSUME NEW i \in DOMAIN job' PROVE i + 1 \in DOMAIN job /\ i + 1 > 1 /\ job'[i] = job[i + 1]
    BY <1>1, <1>3
  <2> QED  BY <2>1 DEF Headed
<1>5. ~Soon("delete")'
  <2>1. job' # <<>> => Head(job') = job'[1] /\ 1 \in DOMAIN job'
    <3>1. job' \in Seq(Transaction)
      BY <1>0, <1>3, JobType
    <3> QED  BY <3>1
  <2> QED  BY <1>4, <2>1 DEF Soon, Is
<1>6. TypeOK'
  BY CommitType DEF IInv
\* The ranks to come are the same, one position nearer, but for one that is done now.
<1>7. \A p : Ranking(p) = {i \in DOMAIN job : job[i].op = "rank" /\ job[i].id = p}
  BY DEF Ranking
<1>8. \A p : Ranking(p)' = {i \in DOMAIN job' : job'[i].op = "rank" /\ job'[i].id = p}
  BY <1>3 DEF Ranking
<1>9. ASSUME NEW p, NEW i \in Ranking(p)'
      PROVE  i + 1 \in Ranking(p) /\ job[i + 1] = job'[i]
  <2>1. i \in 1..(Len(job) - 1) /\ job'[i].op = "rank" /\ job'[i].id = p
    BY <1>3, <1>8, <1>9
  <2>2. i + 1 \in DOMAIN job /\ job[i + 1] = job'[i]
    BY <1>1, <1>3, <2>1
  <2> QED  BY <1>7, <2>1, <2>2
<1>10. ASSUME NEW p, NEW i \in Ranking(p), i # 1 PROVE i - 1 \in Ranking(p)' /\ i - 1 + 1 = i
  <2>1. i \in 1..Len(job) /\ job[i].op = "rank" /\ job[i].id = p
    BY <1>1, <1>7
  <2>2. i - 1 \in 1..(Len(job) - 1) /\ i - 1 + 1 = i
    BY <1>1, <1>10, <2>1
  <2>3. job'[i - 1] = job[i]
    BY <1>3, <2>2
  <2> QED  BY <1>3, <1>8, <2>1, <2>2, <2>3
<1> DEFINE kept == IF Soon("delete") THEN DOMAIN priority \ {Head(job).id} ELSE DOMAIN priority
           ids == {q \in Provider : Ranking(q) # {}}
<1>11. prioritySoon = [p \in kept \cup ids |->
                          IF Ranking(p) # {} THEN job[Last(p)].rank ELSE priority[p]]
  BY DEF prioritySoon, Last
<1>12. prioritySoon' = [p \in DOMAIN priority' \cup {q \in Provider : Ranking(q)' # {}} |->
                           IF Ranking(p)' # {} THEN job'[Last(p)'].rank ELSE priority'[p]]
  BY <1>5 DEF prioritySoon, Last
\* The table of priorities itself.
<1>13. /\ DOMAIN priority' \cup {q \in Provider : Ranking(q)' # {}} = kept \cup ids
       /\ \A p \in kept \cup ids : Ranking(p)' = {} =>
             IF Ranking(p) # {} THEN Ranking(p) = {1} /\ priority'[p] = job[1].rank
                                ELSE priority'[p] = priority[p]
  <2>1. \A p : Ranking(p)' # {} => Ranking(p) # {}
    BY <1>9
  <2>2. \A p : Ranking(p)' = {} => Ranking(p) \subseteq {1}
    BY <1>10
  <2>3. \A p : 1 \in Ranking(p) <=> Is("rank") /\ Head(job).id = p
    BY <1>0, <1>1, <1>7 DEF Is
  <2>4. CASE Is("rank")
    <3> DEFINE r == Head(job).id
    <3>1. r \in Provider /\ Head(job).rank \in Int
      BY <1>0, <2>4, JobType, TransactionShape DEF Is
    <3>2. priority' = Upsert(priority, r, job[1].rank)
      BY <1>1, <2>4 DEF Commit, Is, provider_insert, provider_update, provider_priority_set,
         provider_delete, agent_override_set, failover_conditions_replace_all,
         routing_config_set, Raise
    <3>3. kept = DOMAIN priority
      BY <2>4 DEF Soon, Is
    <3>4. r \in ids
      BY <2>3, <2>4, <3>1
    <3> HIDE DEF kept, r
    <3>5. DOMAIN priority' = DOMAIN priority \cup {r}
      BY <3>2 DEF Upsert
    <3>6. \A q : Ranking(q) # {} /\ Ranking(q)' = {} => q = r
      BY <2>2, <2>3 DEF r
    <3>7. \A p \in kept \cup ids : Ranking(p)' = {} =>
             IF Ranking(p) # {} THEN Ranking(p) = {1} /\ priority'[p] = job[1].rank
                                ELSE priority'[p] = priority[p]
      <4>1. ASSUME NEW p \in kept \cup ids, Ranking(p)' = {}
            PROVE  IF Ranking(p) # {} THEN Ranking(p) = {1} /\ priority'[p] = job[1].rank
                                      ELSE priority'[p] = priority[p]
        <5>1. CASE Ranking(p) # {}
          BY <2>2, <3>2, <3>6, <4>1, <5>1 DEF Upsert
        <5>2. CASE Ranking(p) = {}
          <6>1. p # r /\ p \in DOMAIN priority
            BY <3>3, <3>4, <4>1, <5>2
          <6> QED  BY <3>2, <5>2, <6>1 DEF Upsert
        <5> QED  BY <5>1, <5>2
      <4> QED  BY <4>1
    <3>8. DOMAIN priority' \cup {q \in Provider : Ranking(q)' # {}} = kept \cup ids
      BY <2>1, <3>3, <3>4, <3>5, <3>6
    <3> QED  BY <3>7, <3>8
  <2>5. CASE ~Is("rank")
    <3>1. \A p : Ranking(p)' = {} <=> Ranking(p) = {}
      BY <2>1, <2>2, <2>3, <2>5
    <3>2. DOMAIN priority' = kept /\ \A p \in kept : priority'[p] = priority[p]
      <4>1. CASE Is("delete")
        <5>1. priority' = Remove(priority, {Head(job).id})
          BY <4>1 DEF Commit, Is, provider_insert, provider_update, provider_priority_set,
             provider_delete, agent_override_set, failover_conditions_replace_all,
             routing_config_set, Raise
        <5> QED  BY <4>1, <5>1 DEF Soon, Remove
      <4>2. CASE ~Is("delete")
        <5>1. priority' = priority
          BY <2>5, <4>2 DEF Commit, provider_insert, provider_update, provider_priority_set,
             provider_delete, agent_override_set, failover_conditions_replace_all,
             routing_config_set, Raise, db
        <5> QED  BY <4>2, <5>1 DEF Soon
      <4> QED  BY <4>1, <4>2
    <3> HIDE DEF kept
    <3> QED  BY <3>1, <3>2
  <2> QED  BY <2>4, <2>5
<1> HIDE DEF kept, ids
\* The last rank stays the last.
<1>14. ASSUME NEW p, Ranking(p)' # {} PROVE job'[Last(p)'].rank = job[Last(p)].rank
  <2> DEFINE i == Last(p)'
  <2>1. i \in Ranking(p)' /\ \A j \in Ranking(p)' : j <= i
    <3>1. Ranking(p)' \subseteq 1..(Len(job) - 1)
      BY <1>3, <1>8
    <3>2. Len(job) - 1 \in Nat
      BY <1>1
    <3>3. \E k \in Ranking(p)' : \A j \in Ranking(p)' : j <= k
      <4> DEFINE R == Ranking(p)'
                 l == Len(job) - 1
      <4>1. l \in Nat /\ R \subseteq 1..l /\ R # {}
        BY <1>14, <3>1, <3>2
      <4> HIDE DEF R, l
      <4>2. \E k \in R : \A j \in R : j <= k
        BY <4>1, Greatest
      <4> QED  BY <4>2 DEF R
    <3> QED  BY <3>3 DEF Last
  <2> HIDE DEF i
  <2>2. i + 1 \in Ranking(p) /\ job[i + 1] = job'[i]
    BY <1>9, <2>1
  <2>3. \A j \in Ranking(p) : j <= i + 1
    <3> SUFFICES ASSUME NEW j \in Ranking(p) PROVE j <= i + 1
      OBVIOUS
    <3>1. j \in Nat /\ i \in Nat
      BY <1>1, <1>3, <1>7, <1>8, <2>1
    <3>2. CASE j = 1
      BY <3>1, <3>2
    <3>3. CASE j # 1
      <4>1. j - 1 <= i
        BY <1>10, <2>1, <3>3
      <4> QED  BY <3>1, <4>1
    <3> QED  BY <3>2, <3>3
  <2>4. i + 1 = Last(p)
    BY <1>0, <2>2, <2>3, LastRanking
  <2> QED  BY <2>2, <2>4 DEF i
<1>15. ASSUME NEW p, Ranking(p) = {1} PROVE Last(p) = 1
  BY <1>0, <1>15, LastRanking
<1>16. \A p \in kept \cup ids :
         (IF Ranking(p)' # {} THEN job'[Last(p)'].rank ELSE priority'[p])
            = (IF Ranking(p) # {} THEN job[Last(p)].rank ELSE priority[p])
  <2> SUFFICES ASSUME NEW p \in kept \cup ids
               PROVE (IF Ranking(p)' # {} THEN job'[Last(p)'].rank ELSE priority'[p])
                        = (IF Ranking(p) # {} THEN job[Last(p)].rank ELSE priority[p])
    OBVIOUS
  <2>1. CASE Ranking(p)' # {}
    <3>1. Ranking(p) # {}
      BY <1>9, <2>1
    <3> QED  BY <1>14, <2>1, <3>1
  <2>2. CASE Ranking(p)' = {}
    BY <1>13, <1>15, <2>2
  <2> QED  BY <2>1, <2>2
<1> QED  BY <1>11, <1>12, <1>13, <1>16

LEMMA RowsKept ==
    ASSUME IInv, Headed, proc = "up", Commit
    PROVE  providersSoon' = providersSoon /\ overrideSoon' = overrideSoon
<1> DEFINE t == Head(job)
<1>0. TypeOK /\ job # <<>>
  BY DEF IInv, Commit, Is, provider_insert, provider_update, provider_priority_set,
     provider_delete, agent_override_set, failover_conditions_replace_all, routing_config_set,
     Raise
<1>1. /\ Head(job) = job[1] /\ 1 \in DOMAIN job /\ DOMAIN job = 1..Len(job)
      /\ Len(job) \in Nat \ {0}
  BY <1>0, JobType
<1>2. Done
  <2>1. ~Raise
    BY <1>0, <1>1 DEF Raise, Is, Headed
  <2> QED  BY <2>1 DEF Commit, provider_insert, provider_update, provider_priority_set,
       provider_delete, agent_override_set, failover_conditions_replace_all, routing_config_set
<1>3. /\ proc' = "up" /\ job' = Tail(job) /\ DOMAIN job' = 1..(Len(job) - 1)
      /\ \A i \in 1..(Len(job) - 1) : job'[i] = job[i + 1]
  BY <1>0, <1>2, JobType DEF Done
\* What is left writes neither rows nor overrides.
<1>4. \A op \in {"insert", "update", "delete", "override"} : ~Soon(op)'
  <2>1. ASSUME NEW i \in DOMAIN job' PROVE i + 1 \in DOMAIN job /\ i + 1 > 1 /\ job'[i] = job[i + 1]
    BY <1>1, <1>3
  <2>2. \A i \in DOMAIN job' : job'[i].op \in {"rank", "failover", "routing"}
    BY <2>1 DEF Headed
  <2>3. job' # <<>> => Head(job') = job'[1] /\ 1 \in DOMAIN job'
    <3>1. job' \in Seq(Transaction)
      BY <1>0, <1>3, JobType
    <3> QED  BY <3>1
  <2> QED  BY <2>2, <2>3 DEF Soon, Is
<1>5. providersSoon' = rows' /\ overrideSoon' = pins'
  BY <1>4 DEF providersSoon, overrideSoon, rows, pins
<1>6. \A op : Soon(op) <=> t.op = op
  BY <1>0 DEF Soon, Is
<1>7. t \in Transaction
  BY <1>0, JobType
<1>8. CASE t.op = "insert"
  <2>1. /\ providers' = Upsert(providers, t.id, [priority |-> t.rank, api_key_encrypted |-> t.token])
        /\ override' = override
    BY <1>8 DEF Commit, Is, provider_insert, provider_update, provider_priority_set,
       provider_delete, agent_override_set, failover_conditions_replace_all,
       routing_config_set, Raise
  <2>2. providersSoon = Upsert(rows, t.id, row(t.rank)) /\ overrideSoon = pins
    BY <1>6, <1>8 DEF providersSoon, overrideSoon, rows, pins
  <2>3. rows' = Upsert(rows, t.id, row(t.rank))
    BY <2>1 DEF rows, Upsert, row
  <2> QED  BY <1>5, <2>1, <2>2, <2>3 DEF pins
<1>9. CASE t.op = "update"
  <2>1. /\ providers' = [providers EXCEPT
                ![t.id].priority = IF t.patch = <<>> THEN @ ELSE t.patch[1],
                ![t.id].api_key_encrypted = IF t.token = None THEN @ ELSE t.token]
        /\ override' = override
    BY <1>9 DEF Commit, Is, provider_insert, provider_update, provider_priority_set,
       provider_delete, agent_override_set, failover_conditions_replace_all,
       routing_config_set, Raise
  <2>2. t.id \in DOMAIN providers
    BY <1>0, <1>1, <1>9 DEF IInv, Keyed
  <2>3. overrideSoon = pins
    BY <1>6, <1>9 DEF overrideSoon, pins
  <2>4. DOMAIN providers' = DOMAIN providers /\ \A p \in DOMAIN providers : p # t.id =>
             providers'[p] = providers[p]
    BY <2>1
  <2>5. providers'[t.id].priority = IF t.patch = <<>> THEN providers[t.id].priority ELSE t.patch[1]
    <3>1. providers[t.id] \in [priority : Int, api_key_encrypted : Token \cup {None}]
      BY <1>0, <2>2 DEF TypeOK, IsTable
    <3> QED  BY <2>1, <2>2, <3>1
  <2>6. rows' = providersSoon
    <3>1. CASE t.patch = <<>>
      <4>1. providersSoon = rows
        BY <1>6, <1>9, <3>1 DEF providersSoon, rows
      <4>2. \A p \in DOMAIN providers : providers'[p].priority = providers[p].priority
        BY <2>4, <2>5, <3>1
      <4> QED  BY <2>4, <4>1, <4>2 DEF rows
    <3>2. CASE t.patch # <<>>
      <4>1. providersSoon = Upsert(rows, t.id, row(t.patch[1]))
        BY <1>6, <1>9, <3>2 DEF providersSoon, rows
      <4>2. \A p \in DOMAIN providers :
               providers'[p].priority = IF p = t.id THEN t.patch[1] ELSE providers[p].priority
        BY <2>4, <2>5, <3>2
      <4> QED  BY <2>2, <2>4, <4>1, <4>2 DEF rows, Upsert
    <3> QED  BY <3>1, <3>2
  <2> QED  BY <1>5, <2>1, <2>3, <2>6 DEF pins
<1>10. CASE t.op = "delete"
  <2>1. /\ providers' = Remove(providers, {t.id})
        /\ override' = Remove(override, {s \in DOMAIN override : override[s] = t.id})
    BY <1>10 DEF Commit, Is, provider_insert, provider_update, provider_priority_set,
       provider_delete, agent_override_set, failover_conditions_replace_all,
       routing_config_set, Raise
  <2>2. /\ providersSoon = Remove(rows, {t.id})
        /\ overrideSoon = Remove(pins, {k \in DOMAIN pins : pins[k] = t.id})
    BY <1>6, <1>10 DEF providersSoon, overrideSoon, rows, pins
  <2>3. rows' = Remove(rows, {t.id})
    BY <2>1 DEF rows, Remove
  <2>4. pins' = Remove(pins, {k \in DOMAIN pins : pins[k] = t.id})
    BY <2>1 DEF pins, Remove
  <2> QED  BY <1>5, <2>2, <2>3, <2>4
<1>11. CASE t.op = "override"
  <2>1. /\ providers' = providers
        /\ override' = IF t.id = None THEN Remove(override, {t.session})
                                      ELSE Upsert(override, t.session, t.id)
    BY <1>11 DEF Commit, Is, provider_insert, provider_update, provider_priority_set,
       provider_delete, agent_override_set, failover_conditions_replace_all,
       routing_config_set, Raise
  <2>2. providersSoon = rows
    BY <1>6, <1>11 DEF providersSoon, rows
  <2>3. overrideSoon = IF t.id = None THEN Remove(pins, {<<"token", t.session>>})
                                      ELSE Upsert(pins, <<"token", t.session>>, t.id)
    BY <1>6, <1>11 DEF overrideSoon, pins
  <2>4. pins' = overrideSoon
    <3>1. CASE t.id = None
      BY <2>1, <2>3, <3>1 DEF pins, Remove
    <3>2. CASE t.id # None
      BY <2>1, <2>3, <3>2 DEF pins, Upsert
    <3> QED  BY <3>1, <3>2
  <2> QED  BY <1>5, <2>1, <2>2, <2>4 DEF rows
<1>12. CASE t.op \notin {"insert", "update", "delete", "override"}
  <2>1. UNCHANGED <<providers, override>>
    BY <1>12 DEF Commit, Is, provider_insert, provider_update, provider_priority_set,
       provider_delete, agent_override_set, failover_conditions_replace_all,
       routing_config_set, Raise, db
  <2>2. providersSoon = rows /\ overrideSoon = pins
    BY <1>6, <1>12 DEF providersSoon, overrideSoon, rows, pins
  <2> QED  BY <1>5, <2>1, <2>2 DEF rows, pins
<1> QED  BY <1>8, <1>9, <1>10, <1>11, <1>12

\* In the middle of a seed.
LEMMA HalfSeed ==
    TypeOK /\ proc = "booting" /\ Is("rank") =>
        /\ providersSoon = rows /\ overrideSoon = pins
        /\ prioritySoon = Upsert(priority, Head(job).id, Head(job).rank)
<1> SUFFICES ASSUME TypeOK, proc = "booting", Is("rank")
             PROVE  /\ providersSoon = rows /\ overrideSoon = pins
                    /\ prioritySoon = Upsert(priority, Head(job).id, Head(job).rank)
  OBVIOUS
<1> DEFINE t == Head(job)
<1>1. \A op : ~Soon(op)
  BY DEF Soon
<1>2. t = job[1] /\ 1 \in DOMAIN job /\ t.op = "rank" /\ t.id \in Provider
  BY JobType, TransactionShape DEF Is
<1>3. \A p : Ranking(p) = IF p = t.id THEN {1} ELSE {}
  BY <1>2 DEF Ranking
<1>4. Last(t.id) = 1
  BY <1>3, LastRanking
<1>5. prioritySoon = [p \in DOMAIN priority \cup {q \in Provider : Ranking(q) # {}} |->
                         IF Ranking(p) # {} THEN job[Last(p)].rank ELSE priority[p]]
  BY <1>1 DEF prioritySoon, Last
<1>6. {q \in Provider : Ranking(q) # {}} = {t.id}
  BY <1>2, <1>3
<1>7. prioritySoon = Upsert(priority, t.id, t.rank)
  BY <1>2, <1>3, <1>4, <1>5, <1>6 DEF Upsert
<1> QED  BY <1>1, <1>7 DEF providersSoon, overrideSoon, rows, pins

LEMMA AtRestAfter ==
    ASSUME TypeOK', job' = <<>> \/ (proc' # "up" /\ ~Is("rank")')
    PROVE  providersSoon' = rows' /\ prioritySoon' = priority' /\ overrideSoon' = pins'
<1>1. (TypeOK /\ (job = <<>> \/ (proc # "up" /\ ~Is("rank"))) =>
          providersSoon = rows /\ prioritySoon = priority /\ overrideSoon = pins)'
  BY AtRest, PTL
<1> QED  BY <1>1

LEMMA HalfSeedAfter ==
    ASSUME TypeOK', proc' = "booting", Is("rank")'
    PROVE  /\ providersSoon' = rows' /\ overrideSoon' = pins'
           /\ prioritySoon' = Upsert(priority', Head(job').id, Head(job').rank)
<1>1. (TypeOK /\ proc = "booting" /\ Is("rank") =>
        /\ providersSoon = rows /\ overrideSoon = pins
        /\ prioritySoon = Upsert(priority, Head(job).id, Head(job).rank))'
  BY HalfSeed, PTL
<1> QED  BY <1>1

\* The admin actions of Proxy, on these tables.
Same == UNCHANGED <<providersSoon, prioritySoon, overrideSoon>>

LEMMA SameIsStutter == Same => UNCHANGED Atomic!vars
BY DEF Same, Atomic!vars

AnyRank == Rank \cup {Seed[i].rank : i \in DOMAIN Seed}

LEMMA CreateIsStep ==
    ASSUME NEW p \in Provider, NEW n \in AnyRank, p \notin DOMAIN providersSoon,
           providersSoon' = Upsert(providersSoon, p, row(n)),
           prioritySoon' = Upsert(prioritySoon, p, n), overrideSoon' = overrideSoon
    PROVE  Atomic!Next
<1>1. row(n).priority = n /\ row(n) \in {row(k) : k \in Rank \cup {Seed[i].rank : i \in DOMAIN Seed}}
  BY DEF row, AnyRank
<1>2. Atomic!create_provider(p, row(n))
  BY <1>1 DEF Atomic!create_provider, Atomic!Upsert, Upsert, Atomic!memory, Atomic!request
<1>3. Atomic!Admin
  BY <1>1, <1>2 DEF Atomic!Admin
<1> QED  BY <1>3 DEF Atomic!Next

LEMMA UpdateIsStep ==
    ASSUME NEW p \in Provider, NEW n \in AnyRank, p \in DOMAIN providersSoon, providersSoon = rows,
           providersSoon' = Upsert(providersSoon, p, row(n)),
           prioritySoon' = Upsert(prioritySoon, p, n), overrideSoon' = overrideSoon
    PROVE  Atomic!Next
<1>1. row(n).priority = n /\ row(n) \in {row(k) : k \in Rank \cup {Seed[i].rank : i \in DOMAIN Seed}}
  BY DEF row, AnyRank
<1>0. providersSoon' = [providersSoon EXCEPT ![p] = row(n)]
  <2>1. Upsert(rows, p, row(n)) = [rows EXCEPT ![p] = row(n)]
    BY DEF Upsert, rows
  <2> QED  BY <2>1
<1>2. Atomic!update_provider(p, row(n))
  BY <1>0, <1>1 DEF Atomic!update_provider, Atomic!Upsert, Upsert, Atomic!memory, Atomic!request
<1>3. Atomic!Admin
  BY <1>1, <1>2 DEF Atomic!Admin
<1> QED  BY <1>3 DEF Atomic!Next

LEMMA DeleteIsStep ==
    ASSUME NEW p \in Provider, p \in DOMAIN providersSoon,
           providersSoon' = Remove(providersSoon, {p}),
           prioritySoon' = Remove(prioritySoon, {p}),
           overrideSoon' = Remove(overrideSoon, {k \in DOMAIN overrideSoon : overrideSoon[k] = p})
    PROVE  Atomic!Next
<1>1. Atomic!delete_provider(p)
  BY DEF Atomic!delete_provider, Atomic!Remove, Remove, Atomic!memory, Atomic!request
<1>2. Atomic!Admin
  BY <1>1 DEF Atomic!Admin
<1> QED  BY <1>2 DEF Atomic!Next

LEMMA OverrideIsStep ==
    ASSUME NEW s \in Bearer, NEW id \in Provider \cup {None},
           providersSoon' = providersSoon, prioritySoon' = prioritySoon,
           overrideSoon' = IF id = None THEN Remove(overrideSoon, {<<"token", s>>})
                                        ELSE Upsert(overrideSoon, <<"token", s>>, id)
    PROVE  Atomic!Next
<1> DEFINE q == [bearer |-> s, apiKey |-> None, header |-> None]
<1>1. q \in {[bearer |-> r, apiKey |-> None, header |-> None] : r \in Bearer}
  OBVIOUS
<1>2. Atomic!require_admin_key(q) /\ Atomic!get_session_id(q) = <<"token", s>>
  BY DEF Atomic!require_admin_key, Atomic!ALLOW_ANON_DEV, Atomic!get_session_id, Atomic!sha256
<1>3. Atomic!post_override(q, id)
  BY <1>2 DEF Atomic!post_override, Atomic!Remove, Remove, Atomic!Upsert, Upsert,
     Atomic!memory, Atomic!request
<1>4. Atomic!Admin
  BY <1>1, <1>3 DEF Atomic!Admin
<1> QED  BY <1>4 DEF Atomic!Next

LEMMA OrderIsStep ==
    ASSUME NEW order \in Orders, order # <<>>, NEW last \in [Range(order) -> DOMAIN order],
           \A p \in Range(order) :
              order[last[p]] = p /\ \A i \in DOMAIN order : order[i] = p => i <= last[p],
           providersSoon' = providersSoon, overrideSoon' = overrideSoon,
           prioritySoon' = [p \in DOMAIN prioritySoon \cup Range(order) |->
                               IF p \in Range(order) THEN last[p] - 1 ELSE prioritySoon[p]]
    PROVE  Atomic!Next
<1>1. PICK n \in 0..MaxOrder : order \in [1..n -> Provider]
  BY DEF Orders
<1>2. n \in 1..MaxOrder /\ DOMAIN order = 1..n
  <2>1. n # 0
    <3>1. n = 0 => DOMAIN order = {}
      BY <1>1
    <3>2. order \in Seq(Provider)
      BY OrdersType
    <3> QED  BY <3>1, <3>2, EmptySeq
  <2> QED  BY <1>1, <2>1
<1> DEFINE order0 == [i \in 0..(n - 1) |-> order[i + 1]]
           last0 == [p \in Range(order) |-> last[p] - 1]
<1>3. n \in Nat /\ n > 0 /\ order0 \in [0..(n - 1) -> Provider]
  BY <1>1, <1>2, StoreConstants
<1>4. DOMAIN order0 = 0..(n - 1) /\ \A i \in 1..n : i - 1 \in 0..(n - 1) /\ order0[i - 1] = order[i]
  BY <1>3
<1>5. \A i \in 0..(n - 1) : i + 1 \in 1..n /\ order0[i] = order[i + 1]
  BY <1>3
<1> HIDE DEF order0
<1>6. Range(order0) = Range(order)
  <2>1. ASSUME NEW i \in 1..n PROVE order[i] \in Range(order0)
    BY <1>4 DEF Range
  <2>2. ASSUME NEW i \in 0..(n - 1) PROVE order0[i] \in Range(order)
    BY <1>2, <1>5 DEF Range
  <2>3. \A x \in Range(order) : x \in Range(order0)
    BY <1>2, <2>1 DEF Range
  <2>4. \A x \in Range(order0) : x \in Range(order)
    BY <1>4, <2>2 DEF Range
  <2> QED  BY <2>3, <2>4
<1>7. last0 \in [Range(order0) -> DOMAIN order0]
  BY <1>2, <1>4, <1>6
<1>8. ASSUME NEW p \in Range(order0)
      PROVE  order0[last0[p]] = p /\ \A i \in DOMAIN order0 : order0[i] = p => i <= last0[p]
  <2>1. last[p] \in 1..n /\ order[last[p]] = p /\ last0[p] = last[p] - 1
    BY <1>2, <1>6, <1>8
  <2>2. ASSUME NEW i \in 0..(n - 1), order0[i] = p PROVE i <= last[p] - 1
    <3>1. i + 1 \in DOMAIN order /\ order[i + 1] = p
      BY <1>2, <1>5, <2>2
    <3>2. i + 1 <= last[p]
      BY <1>6, <1>8, <3>1
    <3> QED  BY <2>1, <3>2
  <2> QED  BY <1>4, <2>1, <2>2
<1>9. prioritySoon' = [p \in DOMAIN prioritySoon \cup Range(order0) |->
                           IF p \in Range(order0) THEN last0[p] ELSE prioritySoon[p]]
  BY <1>6
<1> HIDE DEF last0
<1>10. Atomic!set_routing_config(order0)
  BY <1>7, <1>8, <1>9 DEF Atomic!set_routing_config, Atomic!Range, Range,
     Atomic!memory, Atomic!request
<1>11. Atomic!Admin
  BY <1>2, <1>3, <1>10 DEF Atomic!Admin
<1> QED  BY <1>11 DEF Atomic!Next

\* The ranks to come after a step.
Lasts ==
    \A p : Ranking(p) # {} =>
        /\ Last(p) \in Ranking(p) /\ \A j \in Ranking(p) : j <= Last(p)
        /\ \A i \in Ranking(p) : (\A j \in Ranking(p) : j <= i) => i = Last(p)

LEMMA LastRankingAfter == TypeOK' => Lasts'
<1>1. TypeOK => Lasts
  BY LastRanking DEF Lasts
<1> QED  BY <1>1, PTL

LEMMA PriorityAfter ==
    prioritySoon' = LET kept == IF Soon("delete")' THEN DOMAIN priority' \ {Head(job').id}
                                                   ELSE DOMAIN priority'
                    IN  [p \in kept \cup {q \in Provider : Ranking(q)' # {}} |->
                            IF Ranking(p)' # {} THEN job'[Last(p)'].rank ELSE priority'[p]]
BY DEF prioritySoon, Last

LEMMA OneRank ==
    ASSUME TypeOK', ~Soon("delete")', NEW p \in Provider, NEW i,
           \A q : Ranking(q)' = IF q = p THEN {i} ELSE {}
    PROVE  prioritySoon' = Upsert(priority', p, job'[i].rank)
<1>1. Last(p)' = i
  BY LastRankingAfter DEF Lasts
<1>2. {q \in Provider : Ranking(q)' # {}} = {p}
  OBVIOUS
<1> QED  BY <1>1, <1>2, PriorityAfter DEF Upsert

LEMMA NoRank ==
    ASSUME TypeOK', \A q : Ranking(q)' = {}
    PROVE  prioritySoon' = IF Soon("delete")' THEN Remove(priority', {Head(job').id}) ELSE priority'
<1>1. {q \in Provider : Ranking(q)' # {}} = {}
  OBVIOUS
<1>2. priority' = [p \in DOMAIN priority' |-> priority'[p]]
  BY DEF TypeOK, IsTable
<1>3. CASE Soon("delete")'
  BY <1>1, <1>3, PriorityAfter DEF Remove
<1>4. CASE ~Soon("delete")'
  BY <1>1, <1>2, <1>4, PriorityAfter
<1> QED  BY <1>3, <1>4

LEMMA AtIdle ==
    ASSUME IInv, idle
    PROVE  providersSoon = rows /\ prioritySoon = priority /\ overrideSoon = pins
<1>1. TypeOK /\ job = <<>>
  BY DEF IInv, idle
<1> QED  BY <1>1, AtRest

\* A handler is one step of Proxy, taken when it begins.
LEMMA CreateBegins ==
    ASSUME IInv, TypeOK', NEW p \in Provider, NEW rank \in Rank,
           NEW key \in ApiKeys[p] \cup {None}, create_provider(p, rank, key)
    PROVE  Atomic!Next
<1> DEFINE token == encrypt_api_key(enc, key)
<1>1. /\ idle /\ p \notin DOMAIN providers /\ proc' = "up"
      /\ UNCHANGED <<providers, priority, override>>
      /\ job' = <<insert(p, rank, token), rank_(p, rank)>>
  BY DEF create_provider, idle, db
<1> HIDE DEF token
<1>2. providersSoon = rows /\ prioritySoon = priority /\ overrideSoon = pins
  BY <1>1, AtIdle
<1>3. /\ DOMAIN job' = {1, 2} /\ job'[1] = insert(p, rank, token) /\ job'[2] = rank_(p, rank)
      /\ job' # <<>> /\ Head(job') = insert(p, rank, token)
  BY <1>1
<1>4. Soon("insert")' /\ \A op : op # "insert" => ~Soon(op)'
  BY <1>1, <1>3 DEF Soon, Is, insert
<1>5. \A q : Ranking(q)' = IF q = p THEN {2} ELSE {}
  BY <1>1, <1>3 DEF Ranking, insert, rank_
<1>6. prioritySoon' = Upsert(prioritySoon, p, rank)
  <2>1. job'[2].rank = rank
    BY <1>3 DEF rank_
  <2> QED  BY <1>1, <1>2, <1>4, <1>5, <2>1, OneRank
<1>7. providersSoon' = Upsert(providersSoon, p, row(rank)) /\ overrideSoon' = overrideSoon
  <2>1. Head(job').id = p /\ Head(job').rank = rank
    BY <1>3 DEF insert
  <2>2. providersSoon' = Upsert(rows', p, row(rank)) /\ overrideSoon' = pins'
    BY <1>4, <2>1 DEF providersSoon, overrideSoon, rows, pins
  <2> QED  BY <1>1, <1>2, <2>2 DEF rows, pins
<1>8. p \notin DOMAIN providersSoon /\ rank \in AnyRank
  BY <1>1, <1>2 DEF rows, AnyRank
<1> QED  BY <1>6, <1>7, <1>8, CreateIsStep

LEMMA UpdateBegins ==
    ASSUME IInv, TypeOK', NEW p \in Provider, NEW rank \in Option(Rank),
           NEW key \in ApiKeys[p] \cup {Empty, None}, update_provider(p, rank, key)
    PROVE  Atomic!Next \/ Same
<1> DEFINE token == encrypt_api_key(enc, key)
<1>0. token \in Token \cup {None}
  BY StoreConstants, TokenType DEF IInv, TypeOK, ApiKey, Range
<1>1. /\ idle /\ p \in DOMAIN providers /\ proc' = "up"
      /\ UNCHANGED <<providers, priority, override>> /\ job' = patch(p, rank, token)
  BY DEF update_provider, idle, db, patch
<1> HIDE DEF token
<1>2. providersSoon = rows /\ prioritySoon = priority /\ overrideSoon = pins
  BY <1>1, AtIdle
<1>3. /\ DOMAIN job' = 1..(1 + Len(rank)) /\ Len(rank) \in {0, 1}
      /\ rank = <<>> <=> Len(rank) = 0
      /\ job' # <<>> /\ Head(job') = update(p, rank, token) /\ job'[1] = update(p, rank, token)
  BY <1>0, <1>1, PatchJob
<1>4. Soon("update")' /\ \A op : op # "update" => ~Soon(op)'
  BY <1>1, <1>3 DEF Soon, Is, update
<1>5. overrideSoon' = overrideSoon
  <2>1. overrideSoon' = pins'
    BY <1>4 DEF overrideSoon, pins
  <2> QED  BY <1>1, <1>2, <2>1 DEF pins
<1>6. Head(job').id = p /\ Head(job').patch = rank
  BY <1>3 DEF update
<1>7. CASE rank = <<>>
  <2>1. \A q : Ranking(q)' = {}
    <3>1. DOMAIN job' = {1} /\ job'[1].op # "rank"
      BY <1>3, <1>7 DEF update
    <3> QED  BY <3>1 DEF Ranking
  <2>2. prioritySoon' = prioritySoon
    BY <1>1, <1>2, <1>4, <2>1, NoRank
  <2>3. providersSoon' = rows'
    BY <1>4, <1>6, <1>7 DEF providersSoon, rows
  <2> QED  BY <1>1, <1>2, <1>5, <2>2, <2>3 DEF Same, rows
<1>8. CASE rank # <<>>
  <2> DEFINE n == rank[1]
  <2>1. n \in Rank /\ Len(rank) = 1 /\ rank = <<n>>
    BY <1>3, <1>8 DEF Option
  <2>2. job'[2] = rank_(p, n) /\ DOMAIN job' = {1, 2}
    BY <1>1, <1>3, <2>1 DEF patch
  <2> HIDE DEF n
  <2>3. \A q : Ranking(q)' = IF q = p THEN {2} ELSE {}
    <3>1. job'[1].op # "rank" /\ job'[2].op = "rank" /\ job'[2].id = p
      BY <1>3, <2>2 DEF update, rank_
    <3> QED  BY <1>1, <2>2, <3>1 DEF Ranking
  <2>4. prioritySoon' = Upsert(prioritySoon, p, n)
    <3>1. job'[2].rank = n
      BY <2>2 DEF rank_
    <3> QED  BY <1>1, <1>2, <1>4, <2>3, <3>1, OneRank
  <2>5. providersSoon' = Upsert(providersSoon, p, row(n))
    <3>1. providersSoon' = Upsert(rows', p, row(n))
      BY <1>4, <1>6, <1>8 DEF providersSoon, rows, n
    <3> QED  BY <1>1, <1>2, <3>1 DEF rows
  <2>6. p \in DOMAIN providersSoon /\ n \in AnyRank
    BY <1>1, <1>2, <2>1 DEF rows, AnyRank
  <2> QED  BY <1>2, <1>5, <2>4, <2>5, <2>6, UpdateIsStep
<1> QED  BY <1>7, <1>8

LEMMA DeleteBegins ==
    ASSUME IInv, TypeOK', NEW p \in Provider, delete_provider(p)
    PROVE  Atomic!Next
<1>1. /\ idle /\ p \in DOMAIN providers /\ proc' = "up"
      /\ UNCHANGED <<providers, priority, override>> /\ job' = <<[op |-> "delete", id |-> p]>>
  BY DEF delete_provider, idle, db
<1>2. providersSoon = rows /\ prioritySoon = priority /\ overrideSoon = pins
  BY <1>1, AtIdle
<1>3. /\ DOMAIN job' = {1} /\ job'[1] = [op |-> "delete", id |-> p]
      /\ job' # <<>> /\ Head(job') = [op |-> "delete", id |-> p]
  BY <1>1
<1>4. Soon("delete")' /\ (\A op : op # "delete" => ~Soon(op)') /\ Head(job').id = p
  BY <1>1, <1>3 DEF Soon, Is
<1>5. \A q : Ranking(q)' = {}
  BY <1>3 DEF Ranking
<1>6. prioritySoon' = Remove(prioritySoon, {p})
  BY <1>1, <1>2, <1>4, <1>5, NoRank
<1>7. /\ providersSoon' = Remove(providersSoon, {p})
      /\ overrideSoon' = Remove(overrideSoon, {k \in DOMAIN overrideSoon : overrideSoon[k] = p})
  <2>1. /\ providersSoon' = Remove(rows', {p})
        /\ overrideSoon' = Remove(pins', {k \in DOMAIN pins' : pins'[k] = p})
    BY <1>4 DEF providersSoon, overrideSoon, rows, pins
  <2>2. rows' = rows /\ pins' = pins
    BY <1>1 DEF rows, pins
  <2> QED  BY <1>2, <2>1, <2>2
<1>8. p \in DOMAIN providersSoon
  BY <1>1, <1>2 DEF rows
<1> QED  BY <1>6, <1>7, <1>8, DeleteIsStep

LEMMA OverrideBegins ==
    ASSUME IInv, TypeOK', NEW s \in Bearer, NEW id \in Provider \cup {None}, post_override(s, id)
    PROVE  Atomic!Next
<1> DEFINE t == [op |-> "override", session |-> s, id |-> id]
<1>1. /\ idle /\ proc' = "up" /\ UNCHANGED <<providers, priority, override>> /\ job' = <<t>>
  BY DEF post_override, idle, db
<1>2. providersSoon = rows /\ prioritySoon = priority /\ overrideSoon = pins
  BY <1>1, AtIdle
<1>3. DOMAIN job' = {1} /\ job'[1] = t /\ job' # <<>> /\ Head(job') = t
  BY <1>1
<1>4. /\ Soon("override")' /\ (\A op : op # "override" => ~Soon(op)')
      /\ Head(job').id = id /\ Head(job').session = s
  BY <1>1, <1>3 DEF Soon, Is
<1>5. \A q : Ranking(q)' = {}
  BY <1>3 DEF Ranking
<1>6. prioritySoon' = prioritySoon
  BY <1>1, <1>2, <1>4, <1>5, NoRank
<1>7. overrideSoon' = IF id = None THEN Remove(overrideSoon, {<<"token", s>>})
                                   ELSE Upsert(overrideSoon, <<"token", s>>, id)
  <2>1. overrideSoon' = IF id = None THEN Remove(pins', {<<"token", s>>})
                                     ELSE Upsert(pins', <<"token", s>>, id)
    BY <1>4 DEF overrideSoon, pins
  <2>2. pins' = pins
    BY <1>1 DEF pins
  <2> QED  BY <1>2, <2>1, <2>2
<1>8. providersSoon' = providersSoon
  <2>1. providersSoon' = rows'
    BY <1>4 DEF providersSoon, rows
  <2> QED  BY <1>1, <1>2, <2>1 DEF rows
<1> QED  BY <1>6, <1>7, <1>8, OverrideIsStep

LEMMA PutBegins ==
    ASSUME IInv, TypeOK', NEW routing \in Option(Strategy), NEW order \in Orders,
           NEW ids \in Option(SUBSET Provider), set_routing_config(routing, order, ids)
    PROVE  Atomic!Next \/ Same
<1>0. order \in Seq(Provider)
  BY OrdersType
<1>1. /\ idle /\ proc' = "up" /\ UNCHANGED <<providers, priority, override>>
      /\ job' = put(routing, order, ids)
  BY DEF set_routing_config, idle, db, put, routings, ranks, failovers
<1>2. providersSoon = rows /\ prioritySoon = priority /\ overrideSoon = pins
  BY <1>1, AtIdle
<1> DEFINE job_ == put(routing, order, ids)
           m == Len(routing)
           n == Len(order)
           l == Len(ids)
<1>9. /\ job_ \in Seq(Transaction) /\ DOMAIN job_ = 1..(m + n + l) /\ Len(job_) = m + n + l
      /\ m \in {0, 1} /\ n \in Nat /\ l \in {0, 1}
      /\ \A i \in 1..m : job_[i].op = "routing"
      /\ \A i \in (m + 1)..(m + n) : job_[i] = rank_(order[i - m], i - m - 1)
      /\ \A i \in (m + n + 1)..(m + n + l) :
            job_[i].op = "failover" /\ job_[i].ids \in Range(ids)
  BY <1>0, PutJob
<1>10. job_ = job' /\ DOMAIN order = 1..n
  BY <1>0, <1>1
<1> HIDE DEF job_, m, n, l
<1>3. /\ job' \in Seq(Transaction) /\ DOMAIN job' = 1..(m + n + l)
      /\ m \in {0, 1} /\ n \in Nat /\ l \in {0, 1}
      /\ \A i \in 1..m : job'[i].op = "routing"
      /\ \A i \in (m + 1)..(m + n) :
            /\ job'[i].op = "rank" /\ job'[i].id = order[i - m] /\ job'[i].rank = i - m - 1
      /\ \A i \in (m + n + 1)..(m + n + l) : job'[i].op = "failover"
  <2>1. \A i \in (m + 1)..(m + n) :
            /\ job_[i].op = "rank" /\ job_[i].id = order[i - m] /\ job_[i].rank = i - m - 1
    <3> SUFFICES ASSUME NEW i \in (m + 1)..(m + n)
                 PROVE  /\ job_[i].op = "rank" /\ job_[i].id = order[i - m]
                        /\ job_[i].rank = i - m - 1
      OBVIOUS
    <3>1. job_[i] = rank_(order[i - m], i - m - 1)
      BY <1>9
    <3> QED  BY <3>1 DEF rank_
  <2> QED  BY <1>9, <1>10, <2>1
<1>4. \A op \in {"insert", "update", "delete", "override"} : ~Soon(op)'
  <2>1. \A i \in DOMAIN job' : job'[i].op \in {"routing", "rank", "failover"}
    BY <1>0, <1>1, PutOps
  <2>2. job' # <<>> => Head(job') = job'[1] /\ 1 \in DOMAIN job'
    BY <1>3
  <2> QED  BY <2>1, <2>2 DEF Soon, Is
<1>5. providersSoon' = providersSoon /\ overrideSoon' = overrideSoon
  <2>1. providersSoon' = rows' /\ overrideSoon' = pins'
    BY <1>4 DEF providersSoon, overrideSoon, rows, pins
  <2> QED  BY <1>1, <1>2, <2>1 DEF rows, pins
<1>6. \A q : Ranking(q)' = {i \in (m + 1)..(m + n) : order[i - m] = q}
  <2>1. ASSUME NEW q, NEW i \in Ranking(q)' PROVE i \in (m + 1)..(m + n) /\ order[i - m] = q
    <3>1. i \in 1..(m + n + l) /\ job'[i].op = "rank" /\ job'[i].id = q
      BY <1>3, <2>1 DEF Ranking
    <3>2. i \in (m + 1)..(m + n)
      BY <1>3, <3>1
    <3> QED  BY <1>3, <3>1, <3>2
  <2>2. ASSUME NEW q, NEW i \in (m + 1)..(m + n), order[i - m] = q PROVE i \in Ranking(q)'
    <3>1. i \in 1..(m + n + l)
      BY <1>3
    <3> QED  BY <1>1, <1>3, <2>2, <3>1 DEF Ranking
  <2> QED  BY <2>1, <2>2
<1>7. CASE order = <<>>
  <2>1. (m + 1)..(m + n) = {}
    <3>1. n = 0
      BY <1>0, <1>7 DEF n
    <3> QED  BY <1>3, <3>1
  <2>2. \A q : Ranking(q)' = {}
    BY <1>6, <2>1
  <2>3. prioritySoon' = prioritySoon
    BY <1>1, <1>2, <1>4, <2>2, NoRank
  <2> QED  BY <1>5, <2>3 DEF Same
<1>8. CASE order # <<>>
  <2>1. DOMAIN order = 1..n /\ Range(order) \subseteq Provider
    <3>1. \A i \in 1..n : order[i] \in Provider
      BY <1>0 DEF n
    <3> QED  BY <1>10, <3>1 DEF Range
  <2> DEFINE last == [p \in Range(order) |-> Last(p)' - m]
  <2>2. ASSUME NEW p \in Range(order)
        PROVE  /\ Ranking(p)' # {} /\ last[p] \in DOMAIN order /\ order[last[p]] = p
               /\ \A i \in DOMAIN order : order[i] = p => i <= last[p]
               /\ job'[Last(p)'].rank = last[p] - 1
    <3>1. PICK k \in 1..n : order[k] = p
      BY <2>1 DEF Range
    <3>2. m + k \in (m + 1)..(m + n) /\ (m + k) - m = k
      BY <1>3
    <3>3. Ranking(p)' # {}
      BY <1>6, <3>1, <3>2
    <3>4. Last(p)' \in Ranking(p)' /\ \A j \in Ranking(p)' : j <= Last(p)'
      BY <3>3, LastRankingAfter DEF Lasts
    <3>5. Last(p)' \in (m + 1)..(m + n) /\ order[Last(p)' - m] = p
      BY <1>6, <3>4
    <3>6. Last(p)' - m \in 1..n
      BY <1>3, <3>5
    <3>7. ASSUME NEW i \in 1..n, order[i] = p PROVE i <= Last(p)' - m
      <4>1. m + i \in (m + 1)..(m + n) /\ (m + i) - m = i
        BY <1>3
      <4>2. m + i <= Last(p)'
        BY <1>6, <3>4, <3>7, <4>1
      <4> QED  BY <1>3, <3>5, <4>2
    <3>8. job'[Last(p)'].rank = Last(p)' - m - 1
      BY <1>3, <3>5
    <3> QED  BY <2>1, <3>3, <3>5, <3>6, <3>7, <3>8
  <2> HIDE DEF last
  <2>3. last \in [Range(order) -> DOMAIN order]
    BY <2>2 DEF last
  <2>4. \A q : q \notin Range(order) => Ranking(q)' = {}
    <3>1. \A i \in (m + 1)..(m + n) : i - m \in 1..n
      BY <1>3
    <3> QED  BY <1>6, <2>1, <3>1 DEF Range
  <2>5. {q \in Provider : Ranking(q)' # {}} = Range(order)
    BY <2>1, <2>2, <2>4
  <2>6. prioritySoon' = [p \in DOMAIN priority' \cup Range(order) |->
             IF Ranking(p)' # {} THEN job'[Last(p)'].rank ELSE priority'[p]]
    BY <1>4, <2>5, PriorityAfter
  <2>7. prioritySoon' = [p \in DOMAIN prioritySoon \cup Range(order) |->
             IF p \in Range(order) THEN last[p] - 1 ELSE prioritySoon[p]]
    BY <1>1, <1>2, <2>2, <2>4, <2>6
  <2> QED  BY <1>5, <1>8, <2>2, <2>3, <2>7, OrderIsStep
<1> QED  BY <1>7, <1>8

LEMMA AdminSimulates == ASSUME IInv, TypeOK', Admin PROVE Atomic!Next \/ Same
BY CreateBegins, UpdateBegins, DeleteBegins, OverrideBegins, PutBegins DEF Admin

\* A seed of the bootstrap is one step of Proxy, taken with its first transaction.
LEMMA BootSimulates ==
    ASSUME IInv, BootInv, TypeOK', proc = "booting", Commit PROVE Atomic!Next \/ Same
<1>16. TypeOK
  BY DEF IInv
<1>0. /\ TypeOK /\ job # <<>> /\ Len(Seed) \in Nat /\ DOMAIN Seed = 1..Len(Seed)
      /\ enc \in EncKey \cup {None}
      /\ \A i \in 1..Len(Seed) : Seed[i].id \in Provider /\ Seed[i].rank \in AnyRank
      /\ \A i, j \in 1..Len(Seed) : Seed[i].id = Seed[j].id => i = j
  <2>1. /\ Len(Seed) \in Nat /\ DOMAIN Seed = 1..Len(Seed)
        /\ \A i \in 1..Len(Seed) : Seed[i].id \in Provider
        /\ \A i, j \in 1..Len(Seed) : Seed[i].id = Seed[j].id => i = j
    <3> DEFINE Record == [id : Provider, api_key : ApiKey \cup {None}, rank : Int]
    <3>1. Seed \in Seq(Record) /\ \A i, j \in DOMAIN Seed : Seed[i].id = Seed[j].id => i = j
      BY StoreConstants
    <3>2. \A x \in Record : x.id \in Provider
      OBVIOUS
    <3> HIDE DEF Record
    <3> QED  BY <3>1, <3>2
  <2>2. \A i \in 1..Len(Seed) : Seed[i].rank \in AnyRank
    BY <2>1 DEF AnyRank
  <2>3. job # <<>> /\ enc \in EncKey \cup {None}
    BY <1>16 DEF TypeOK
  <2> QED  BY <1>16, <2>1, <2>2, <2>3
<1>1. PICK m \in 0..Len(Seed) : \E n \in 0..m, h \in {0, 1} : Halfway(m, n, h)
  BY DEF BootInv, Booting
<1>2. PICK n \in 0..m, h \in {0, 1} : Halfway(m, n, h)
  BY <1>1
<1>3. m \in Nat /\ n \in Nat /\ n <= m /\ m <= Len(Seed)
  BY <1>0
<1> DEFINE d == 2 * n + h
           s == Seeding(enc, m)
           bound == IF m < Len(Seed) THEN 2 * m + 2 ELSE 2 * m + 1
<1>4. Stored(n) /\ Rest(m, d) /\ d = 2 * n + h /\ d \in Nat
  BY <1>2, <1>3 DEF Halfway
<1>5. /\ Len(job) \in Nat \ {0} /\ DOMAIN job = 1..Len(job) /\ Head(job) = job[1]
      /\ Len(Tail(job)) = Len(job) - 1 /\ Tail(job) \in Seq(Transaction)
      /\ \A i \in 1..(Len(job) - 1) : Tail(job)[i] = job[i + 1]
  BY <1>0, JobType
<1>6. /\ \A k \in 1..m :
            /\ s[2 * k] = insert(Seed[k].id, Seed[k].rank, encrypt_api_key(enc, Seed[k].api_key))
            /\ s[2 * k + 1] = rank_(Seed[k].id, Seed[k].rank)
      /\ Len(s) = bound
      /\ m < Len(Seed) => s[2 * m + 2].op = "raise"
  BY <1>0, SeedingAt
<1> HIDE DEF d
<1>7. Upcoming(m, n, h)
  BY <1>16, <1>4, BootHead
<1>8. Len(job) = bound - d /\ \A i \in DOMAIN job : job[i] = s[d + i]
  BY <1>4, <1>6 DEF Rest
<1> HIDE DEF s, bound
\* What is next after a transaction that does not raise.
<1>9. ASSUME Done, job' # <<>>
      PROVE  Head(job') = s[d + 2] /\ Len(job) >= 2 /\ proc' = "booting"
  <2>1. job' = Tail(job) /\ proc' = "booting"
    BY <1>9 DEF Done
  <2>2. Len(job) # 1
    BY <1>5, <1>9, <2>1, EmptySeq
  <2>3. 1 \in 1..(Len(job) - 1) /\ 2 \in DOMAIN job /\ 1 + 1 = 2
    BY <1>5, <2>2
  <2>4. Head(job') = job'[1]
    BY <1>5, <1>9, <2>1
  <2> QED  BY <1>5, <1>8, <2>1, <2>2, <2>3, <2>4
\* After the strategy, and after a rank, comes the next seed or the end.
<1>10. ASSUME Done, h = 0 PROVE job' = <<>> \/ (proc' # "up" /\ ~Is("rank")')
  <2>1. SUFFICES ASSUME job' # <<>> PROVE Head(job').op # "rank" /\ proc' # "up"
    BY DEF Is
  <2>2. Head(job') = s[d + 2] /\ Len(job) >= 2 /\ proc' = "booting" /\ d = 2 * n
    BY <1>3, <1>4, <1>9, <1>10, <2>1
  <2>3. CASE n < m
    <3> DEFINE k == n + 1
    <3>1. k \in 1..m /\ d + 2 = 2 * k
      BY <1>3, <2>2, <2>3
    <3> HIDE DEF k
    <3>2. s[2 * k] = insert(Seed[k].id, Seed[k].rank, encrypt_api_key(enc, Seed[k].api_key))
      BY <1>6, <3>1
    <3> QED  BY <2>2, <3>1, <3>2 DEF insert
  <2>4. CASE n = m
    <3>1. m < Len(Seed) /\ d + 2 = 2 * m + 2
      BY <1>0, <1>3, <1>8, <2>2, <2>4 DEF bound
    <3> QED  BY <1>6, <2>2, <3>1
  <2> QED  BY <1>3, <2>3, <2>4
<1>11. ASSUME UNCHANGED <<providers, priority, override>>, ~Is("rank"),
              job' = <<>> \/ (proc' # "up" /\ ~Is("rank")')
       PROVE  Same
  <2>1. providersSoon = rows /\ prioritySoon = priority /\ overrideSoon = pins
    BY <1>16, <1>11, AtRest
  <2>2. providersSoon' = rows' /\ prioritySoon' = priority' /\ overrideSoon' = pins'
    BY <1>11, AtRestAfter
  <2> QED  BY <1>11, <2>1, <2>2 DEF Same, rows, pins
<1>12. CASE h = 0 /\ n = 0 /\ Is("routing")
  <2>1. Done /\ UNCHANGED <<providers, priority, override>>
    BY <1>12 DEF Commit, Is, provider_insert, provider_update, provider_priority_set,
       provider_delete, agent_override_set, failover_conditions_replace_all, routing_config_set,
       Raise
  <2>2. ~Is("rank")
    BY <1>12 DEF Is
  <2> QED  BY <1>10, <1>11, <1>12, <2>1, <2>2
<1>13. CASE h = 0 /\ n # 0 /\ n \in DOMAIN Seed /\ Head(job) = rank_(Seed[n].id, Seed[n].rank)
  <2>1. Is("rank") /\ Head(job).id = Seed[n].id /\ Head(job).rank = Seed[n].rank
    BY <1>0, <1>13 DEF Is, rank_
  <2>2. /\ Done /\ UNCHANGED <<providers, override>>
        /\ priority' = Upsert(priority, Head(job).id, Head(job).rank)
    BY <2>1 DEF Commit, Is, provider_insert, provider_update, provider_priority_set,
       provider_delete, agent_override_set, failover_conditions_replace_all, routing_config_set,
       Raise
  <2>3. /\ providersSoon = rows /\ overrideSoon = pins
        /\ prioritySoon = Upsert(priority, Head(job).id, Head(job).rank)
    BY <1>0, <2>1, HalfSeed
  <2>4. providersSoon' = rows' /\ prioritySoon' = priority' /\ overrideSoon' = pins'
    BY <1>10, <1>13, <2>2, AtRestAfter
  <2> QED  BY <2>2, <2>3, <2>4 DEF Same, rows, pins
<1>14. CASE /\ h = 1 /\ n < m /\ n + 1 \in DOMAIN Seed
            /\ Head(job) = insert(Seed[n + 1].id, Seed[n + 1].rank,
                                  encrypt_api_key(enc, Seed[n + 1].api_key))
  <2> DEFINE k == n + 1
  <2>1. k \in 1..m /\ k \in 1..Len(Seed) /\ d + 2 = 2 * k + 1 /\ k \notin 1..n
    BY <1>0, <1>3, <1>4, <1>14
  <2>2. Is("insert") /\ Head(job).id = Seed[k].id /\ Head(job).rank = Seed[k].rank
    BY <1>0, <1>14 DEF Is, insert
  <2> HIDE DEF k
  <2> DEFINE p == Seed[k].id
             r == Seed[k].rank
  <2>3. /\ Done /\ UNCHANGED <<priority, override>>
        /\ providers' = Upsert(providers, p, [priority |-> r, api_key_encrypted |-> Head(job).token])
    BY <2>2 DEF Commit, Is, provider_insert, provider_update, provider_priority_set,
       provider_delete, agent_override_set, failover_conditions_replace_all, routing_config_set,
       Raise
  <2>4. p \in Provider /\ r \in AnyRank
    BY <1>0, <2>1
  <2>5. p \notin DOMAIN providers
    <3>1. \A i \in 1..n : i \in 1..Len(Seed) /\ i # k
      BY <1>0, <1>3, <2>1
    <3>2. \A i \in 1..n : Seed[i].id # p
      BY <1>0, <2>1, <3>1
    <3> QED  BY <1>4, <3>2 DEF Stored
  <2> HIDE DEF p, r
  <2>6. providersSoon = rows /\ prioritySoon = priority /\ overrideSoon = pins
    <3>1. ~Is("rank")
      BY <2>2 DEF Is
    <3> QED  BY <1>0, <3>1, AtRest
  <2>7. job' # <<>>
    <3>1. Len(job) >= 2
      BY <1>0, <1>3, <1>4, <1>8, <1>14 DEF bound
    <3>2. Len(job') # 0
      BY <1>5, <2>3, <3>1 DEF Done
    <3> QED  BY <3>2
  <2>8. proc' = "booting" /\ Is("rank")' /\ Head(job').id = p /\ Head(job').rank = r
    <3>1. s[2 * k + 1] = rank_(Seed[k].id, Seed[k].rank)
      BY <1>6, <2>1
    <3>2. Head(job') = rank_(p, r) /\ proc' = "booting"
      BY <1>9, <2>1, <2>3, <2>7, <3>1 DEF p, r
    <3> QED  BY <2>7, <3>2 DEF Is, rank_
  <2>9. /\ providersSoon' = rows' /\ overrideSoon' = pins'
        /\ prioritySoon' = Upsert(priority', Head(job').id, Head(job').rank)
    BY <2>8, HalfSeedAfter
  <2>10. rows' = Upsert(rows, p, row(r)) /\ pins' = pins
    BY <2>3 DEF rows, pins, Upsert, row
  <2>11. p \notin DOMAIN providersSoon
    BY <2>5, <2>6 DEF rows
  <2>12. /\ providersSoon' = Upsert(providersSoon, p, row(r))
         /\ prioritySoon' = Upsert(prioritySoon, p, r) /\ overrideSoon' = overrideSoon
    BY <2>3, <2>6, <2>8, <2>9, <2>10
  <2> QED  BY <2>4, <2>11, <2>12, CreateIsStep
<1>15. CASE h = 1 /\ n = m /\ m < Len(Seed) /\ Is("raise")
  <2>1. job' = <<>> /\ UNCHANGED <<providers, priority, override>>
    BY <1>15 DEF Commit, Is, provider_insert, provider_update, provider_priority_set,
       provider_delete, agent_override_set, failover_conditions_replace_all, routing_config_set,
       Raise, db
  <2>2. ~Is("rank")
    BY <1>15 DEF Is
  <2> QED  BY <1>11, <2>1, <2>2
<1> QED  BY <1>7, <1>12, <1>13, <1>14, <1>15 DEF Upcoming

\* A start, and a death but for one in the middle of a handler or a seed, change nothing.
LEMMA ProcessSimulates ==
    ASSUME IInv, TypeOK', Process PROVE Torn \/ Same
<1>0. TypeOK
  BY DEF IInv
<1>1. UNCHANGED <<providers, priority, override>>
  BY DEF Process, Crash, Boot, db
<1>2. ASSUME job = <<>> \/ (proc # "up" /\ ~Is("rank")),
             job' = <<>> \/ (proc' # "up" /\ ~Is("rank")')
      PROVE  Same
  <2>1. providersSoon = rows /\ prioritySoon = priority /\ overrideSoon = pins
    BY <1>0, <1>2, AtRest
  <2>2. providersSoon' = rows' /\ prioritySoon' = priority' /\ overrideSoon' = pins'
    BY <1>2, AtRestAfter
  <2> QED  BY <1>1, <2>1, <2>2 DEF Same, rows, pins
<1>3. CASE Crash
  <2>1. job' = <<>>
    BY <1>3 DEF Crash
  <2> QED  BY <1>2, <1>3, <2>1 DEF Torn
<1>4. ASSUME NEW key \in EncKey \cup {None}, Boot(key) PROVE Same
  <2>1. proc = "down" /\ job = <<>>
    BY <1>0, <1>4 DEF Boot, TypeOK
  <2>2. CASE job' = job
    BY <1>2, <2>1, <2>2
  <2>3. CASE job' # job
    <3>1. proc' = "booting" /\ \E m \in 0..Len(Seed) : job' = Seeding(key, m)
      BY <1>4, <2>3 DEF Boot
    <3>2. PICK m \in 0..Len(Seed) : job' = Seeding(key, m)
      BY <3>1
    <3>3. job' \in Seq(Transaction) /\ job' # <<>> /\ job'[1].op = "routing"
      BY <2>1, <2>3, <3>2, SeedingShape
    <3>4. Head(job').op = "routing"
      BY <3>3
    <3>5. ~Is("rank")'
      BY <3>4 DEF Is
    <3> QED  BY <1>2, <2>1, <3>1, <3>5
  <2> QED  BY <2>2, <2>3
<1> QED  BY <1>3, <1>4 DEF Process

LEMMA InitSimulates == Init => Atomic!Init
<1> SUFFICES ASSUME Init PROVE Atomic!Init
  OBVIOUS
<1>1. TypeOK /\ job = <<>>
  BY InitType DEF Init
<1>2. providersSoon = rows /\ prioritySoon = priority /\ overrideSoon = pins
  BY <1>1, AtRest
<1>3. DOMAIN providersSoon = {} /\ DOMAIN prioritySoon = {} /\ DOMAIN overrideSoon = {}
        /\ prioritySoon = <<>>
  BY <1>2 DEF rows, pins, Init
<1> DEFINE R == {row(n) : n \in Rank \cup {Seed[i].rank : i \in DOMAIN Seed}}
<1>4. providersSoon \in [{} -> R] /\ overrideSoon \in [{} -> Provider]
  BY <1>2, <1>3 DEF rows, pins
<1>5. providersSoon \in Atomic!Tables(Provider, R)
  BY <1>4 DEF Atomic!Tables
<1>6. overrideSoon \in Atomic!Tables(Atomic!Session, Provider)
  BY <1>4 DEF Atomic!Tables
<1>7. prioritySoon \in {[p \in ps |-> providersSoon[p].priority] : ps \in SUBSET DOMAIN providersSoon}
  <2>1. {} \in SUBSET DOMAIN providersSoon /\ [p \in {} |-> providersSoon[p].priority] = <<>>
    OBVIOUS
  <2> QED  BY <1>3, <2>1
<1> QED  BY <1>5, <1>6, <1>7 DEF Atomic!Init

\* Each handler, and each seed of the bootstrap, is one step of Proxy; a death in the middle
\* of one is the only step of the store that is none.
THEOREM HandlersRefine == Spec => HandlersAreSteps
<1>1. ASSUME IInv, BootInv, Headed, TypeOK', [Next]_vars
      PROVE  [Torn \/ Atomic!Next]_(Atomic!vars)
  <2>1. CASE Commit
    <3>1. CASE proc = "up"
      <4>1. Same
        BY <1>1, <2>1, <3>1, PriorityKept, RowsKept DEF Same
      <4> QED  BY <4>1, SameIsStutter
    <3>2. CASE proc = "booting"
      BY <1>1, <2>1, <3>2, BootSimulates, SameIsStutter
    <3>3. proc \in {"up", "booting"}
      BY <1>1, <2>1 DEF IInv, TypeOK, Commit, Is, provider_insert, provider_update,
         provider_priority_set, provider_delete, agent_override_set,
         failover_conditions_replace_all, routing_config_set, Raise
    <3> QED  BY <3>1, <3>2, <3>3
  <2>2. CASE Admin
    BY <1>1, <2>2, AdminSimulates, SameIsStutter
  <2>3. CASE Process
    BY <1>1, <2>3, ProcessSimulates, SameIsStutter
  <2>4. CASE UNCHANGED vars
    <3>1. Same
      BY <2>4 DEF vars, Same, providersSoon, prioritySoon, overrideSoon, Soon, Ranking, Is
    <3> QED  BY <3>1, SameIsStutter
  <2> QED  BY <1>1, <2>1, <2>2, <2>3, <2>4 DEF Next
<1>2. IInv /\ BootInv /\ Headed /\ TypeOK' /\ [Next]_vars => [Torn \/ Atomic!Next]_(Atomic!vars)
  BY <1>1
<1>3. IInv => TypeOK
  BY DEF IInv
<1> QED  BY <1>2, <1>3, IInvInit, IInvStep, BootInvInit, BootInvStep, HeadedInit, HeadedStep,
            InitSimulates, PTL DEF Spec, HandlersAreSteps
=============================================================================
