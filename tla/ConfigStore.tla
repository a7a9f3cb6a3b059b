---------------------------- MODULE ConfigStore ----------------------------
(***************************************************************************)
(* The database of the router under its own handlers (src/router/db.py,     *)
(* src/router/admin.py, src/router/bootstrap.py), the API keys in it        *)
(* included (src/router/crypto_utils.py).  Every function of db.py is one   *)
(* transaction; a handler is a sequence of them.  Handlers do not overlap,  *)
(* for none awaits between its transactions, but the process may die        *)
(* between any two, and it is then started over the tables it left, with    *)
(* the same encryption key, another or none.                                *)
(*                                                                         *)
(* Proxy takes each handler as one step; this module is the finer view.     *)
(***************************************************************************)
EXTENDS ProviderTables

CONSTANTS
    Provider,   \* the ids an operator or the YAML file may name
    Bearer,     \* bearer tokens of the agents: their session ids
    Rank,       \* bound: the priorities an operator may give
    Strategy,   \* contents of the one row of routing_config
    MaxOrder,   \* bound: the longest provider_order of a PUT
    Seed,       \* the "providers" of the YAML file, in order: [id, api_key, rank]
    SeedStrategy,  \* what its "routing" says
    ApiKeys,    \* bound: the API keys an operator may give each provider
    EncKey,     \* ROUTER_ENCRYPTION_KEYs, each of 16 characters at least
    Empty,      \* the empty string, where an API key is expected
    None        \* Python's None

ApiKey == UNION Range(ApiKeys)

ASSUME StoreConstants ==
    /\ None \notin Provider
    /\ Rank \subseteq Int
    /\ MaxOrder \in Nat
    /\ SeedStrategy \in Strategy
    /\ None \notin EncKey \cup ApiKey /\ Empty \notin ApiKey
    /\ DOMAIN ApiKeys = Provider
    /\ Seed \in Seq([id : Provider, api_key : ApiKey \cup {None}, rank : Int])
    /\ \A i, j \in DOMAIN Seed : Seed[i].id = Seed[j].id => i = j

VARIABLES
    providers,  \* id -> [priority, api_key_encrypted]
    priority,   \* provider_priority: id -> priority_order; nothing enforces REFERENCES
    override,   \* agent_override: session -> id
    failover,   \* the provider_id's of failover_conditions
    strategy,   \* routing_config
    proc,       \* "down", "booting" (in lifespan's bootstrap), "up"
    enc,        \* ROUTER_ENCRYPTION_KEY of the process, None when unset or too short
    job,        \* the transactions the running handler, or the bootstrap, has still to do
    ran,        \* history: the process has been up
    cut,        \* history: ids whose creation a crash cut in two
    ghosts,     \* history: ids named in an override, order or condition, and without a row
    asked,      \* history: the last provider_order PUT, until a later write of priorities
    given       \* history: each provider's last API key taken, and the enc of the moment

db == <<providers, priority, override, failover, strategy>>
history == <<ran, cut, ghosts, asked, given>>
vars == <<providers, priority, override, failover, strategy, proc, enc, job,
          ran, cut, ghosts, asked, given>>

\* A Fernet token: only the key it was made with opens it.
Token == [under : EncKey, plain : ApiKey]

encrypt_api_key(key, plaintext) ==
    IF plaintext \in {None, Empty} \/ key = None THEN None
    ELSE [under |-> key, plain |-> plaintext]

decrypt_api_key(key, token) ==
    IF token = None THEN None ELSE IF token.under = key THEN token.plain ELSE None

Option(values) == {<<>>} \cup {<<v>> : v \in values}

Transaction ==
    [op : {"insert"}, id : Provider, rank : Int, token : Token \cup {None}]
        \cup [op : {"update"}, id : Provider, patch : Option(Rank), token : Token \cup {None}]
        \cup [op : {"rank"}, id : Provider, rank : Int]
        \cup [op : {"delete"}, id : Provider]
        \cup [op : {"override"}, session : Bearer, id : Provider \cup {None}]
        \cup [op : {"failover"}, ids : SUBSET Provider]
        \cup [op : {"routing"}, strategy : Strategy]
        \cup [op : {"raise"}]

TypeOK ==
    /\ IsTable(providers, Provider, [priority : Int, api_key_encrypted : Token \cup {None}])
    /\ IsTable(priority, Provider, Int)
    /\ IsTable(override, Bearer, Provider)
    /\ failover \subseteq Provider
    /\ strategy \in Strategy
    /\ proc \in {"down", "booting", "up"}
    /\ enc \in EncKey \cup {None}
    /\ job \in Seq(Transaction)
    /\ ran \in BOOLEAN
    /\ cut \subseteq Provider /\ ghosts \subseteq Provider
    /\ asked \in Seq(Provider)
    /\ given \in [Provider -> Token \cup {None}]
    /\ proc = "down" => job = <<>>
    /\ proc = "booting" => job # <<>>

\* A database file that does not exist yet.
Init ==
    /\ providers = <<>>
    /\ priority = <<>>
    /\ override = <<>>
    /\ failover = {}
    /\ strategy \in Strategy
    /\ proc = "down"
    /\ enc = None
    /\ job = <<>>
    /\ ran = FALSE
    /\ cut = {}
    /\ ghosts = {}
    /\ asked = <<>>
    /\ given = [p \in Provider |-> None]

idle == proc = "up" /\ job = <<>>

-----------------------------------------------------------------------------
(* Transactions.                                                           *)

insert(p, rank, token) == [op |-> "insert", id |-> p, rank |-> rank, token |-> token]
update(p, rank, token) == [op |-> "update", id |-> p, patch |-> rank, token |-> token]
rank_(p, rank) == [op |-> "rank", id |-> p, rank |-> rank]

\* The transaction is done; the bootstrap ends with its last one.
Done ==
    /\ job' = Tail(job)
    /\ proc' = IF Tail(job) = <<>> THEN "up" ELSE proc
    /\ ran' = (ran \/ proc' = "up")
    /\ UNCHANGED <<enc, given>>

Is(op) == job # <<>> /\ Head(job).op = op

provider_insert ==
    /\ Is("insert") /\ Done
    /\ LET t == Head(job)
       IN  /\ providers' = Upsert(providers, t.id,
                              [priority |-> t.rank, api_key_encrypted |-> t.token])
           /\ ghosts' = ghosts \ {t.id}
    /\ UNCHANGED <<priority, override, failover, strategy, cut, asked>>

\* Mutant: every column is set, given or not.
provider_update_Whole ==
    /\ Is("update") /\ Done
    /\ LET t == Head(job)
       IN  providers' = [providers EXCEPT
               ![t.id].priority = IF t.patch = <<>> THEN @ ELSE t.patch[1],
               ![t.id].api_key_encrypted = t.token]
    /\ UNCHANGED <<priority, override, failover, strategy, cut, ghosts, asked>>

\* Only the columns given: to give None for one, as PATCH does for an empty API key, is
\* not to give it.
provider_update ==
    /\ Is("update") /\ Done
    /\ LET t == Head(job)
       IN  providers' = [providers EXCEPT
               ![t.id].priority = IF t.patch = <<>> THEN @ ELSE t.patch[1],
               ![t.id].api_key_encrypted = IF t.token = None THEN @ ELSE t.token]
    /\ UNCHANGED <<priority, override, failover, strategy, cut, ghosts, asked>>

\* Mutant: ON CONFLICT DO NOTHING.
provider_priority_set_Ignores ==
    /\ Is("rank") /\ Done
    /\ priority' = Upsert(priority, Head(job).id,
                       IF Head(job).id \in DOMAIN priority THEN priority[Head(job).id]
                       ELSE Head(job).rank)
    /\ cut' = cut \ {Head(job).id}
    /\ UNCHANGED <<providers, override, failover, strategy, ghosts, asked>>

provider_priority_set ==
    /\ Is("rank") /\ Done
    /\ priority' = Upsert(priority, Head(job).id, Head(job).rank)
    /\ cut' = cut \ {Head(job).id}
    /\ UNCHANGED <<providers, override, failover, strategy, ghosts, asked>>

\* Mutant: the overrides are left as they are.
provider_delete_KeepsPins ==
    /\ Is("delete") /\ Done
    /\ LET p == Head(job).id
       IN  /\ priority' = Remove(priority, {p})
           /\ failover' = failover \ {p}
           /\ providers' = Remove(providers, {p})
           /\ cut' = cut \ {p}
    /\ UNCHANGED <<override, strategy, ghosts, asked>>

provider_delete ==
    /\ Is("delete") /\ Done
    /\ LET p == Head(job).id
       IN  /\ priority' = Remove(priority, {p})
           /\ failover' = failover \ {p}
           /\ override' = Remove(override, {s \in DOMAIN override : override[s] = p})
           /\ providers' = Remove(providers, {p})
           /\ cut' = cut \ {p}
    /\ UNCHANGED <<strategy, ghosts, asked>>

\* Mutant: clearing the pin stores a NULL provider.
agent_override_set_Null ==
    /\ Is("override") /\ Done
    /\ override' = Upsert(override, Head(job).session, Head(job).id)
    /\ UNCHANGED <<providers, priority, failover, strategy, cut, ghosts, asked>>

agent_override_set ==
    /\ Is("override") /\ Done
    /\ LET t == Head(job)
       IN  override' = IF t.id = None THEN Remove(override, {t.session})
                                      ELSE Upsert(override, t.session, t.id)
    /\ UNCHANGED <<providers, priority, failover, strategy, cut, ghosts, asked>>

failover_conditions_replace_all ==
    /\ Is("failover") /\ Done
    /\ failover' = Head(job).ids
    /\ UNCHANGED <<providers, priority, override, strategy, cut, ghosts, asked>>

routing_config_set ==
    /\ Is("routing") /\ Done
    /\ strategy' = Head(job).strategy
    /\ UNCHANGED <<providers, priority, override, failover, cut, ghosts, asked>>

\* bootstrap_from_config raises: the application does not start.
Raise ==
    /\ Is("raise")
    /\ job' = <<>>
    /\ proc' = "down"
    /\ enc' = None
    /\ UNCHANGED <<db, history>>

Commit ==
    \/ provider_insert \/ provider_update \/ provider_priority_set \/ provider_delete
    \/ agent_override_set \/ failover_conditions_replace_all \/ routing_config_set
    \/ Raise

-----------------------------------------------------------------------------
(* Start and death of the process.                                         *)

SeedOf(p) == Seed[CHOOSE i \in DOMAIN Seed : Seed[i].id = p]

\* The encryption key is missing where a seed needs it.
stops(key, i) == Seed[i].api_key # None /\ key = None

\* Mutant: the rows of all seeds first, then their ranks.
Seeding_TwoLoops(key, n) ==
    <<[op |-> "routing", strategy |-> SeedStrategy]>>
        \o [k \in 1..n |-> insert(Seed[k].id, Seed[k].rank, encrypt_api_key(key, Seed[k].api_key))]
        \o [k \in 1..n |-> rank_(Seed[k].id, Seed[k].rank)]
        \o (IF n < Len(Seed) THEN <<[op |-> "raise"]>> ELSE <<>>)

\* The first n seeds are stored, in order; the next one, if there is one, cannot be.
Seeding(key, n) ==
    <<[op |-> "routing", strategy |-> SeedStrategy]>>
        \o [k \in 1..(2 * n) |->
               LET seed == Seed[(k + 1) \div 2]
               IN  IF k % 2 = 1
                   THEN insert(seed.id, seed.rank, encrypt_api_key(key, seed.api_key))
                   ELSE rank_(seed.id, seed.rank)]
        \o (IF n < Len(Seed) THEN <<[op |-> "raise"]>> ELSE <<>>)

\* The process is started with a ROUTER_ENCRYPTION_KEY or none; the tables are created if
\* they are not there.  An empty providers table is seeded from the YAML file.
Boot(key) ==
    /\ proc = "down"
    /\ enc' = key
    /\ IF DOMAIN providers # {} \/ Seed = <<>>
       THEN proc' = "up" /\ ran' = TRUE /\ UNCHANGED <<job, asked, given>>
       ELSE /\ proc' = "booting"
            /\ \E n \in 0..Len(Seed) :
                /\ \A i \in 1..n : ~stops(key, i)
                /\ n < Len(Seed) => stops(key, n + 1)
                /\ job' = Seeding(key, n)
            /\ asked' = <<>>
            /\ given' = [p \in Provider |->
                            IF \E i \in DOMAIN Seed : Seed[i].id = p
                            THEN encrypt_api_key(key, SeedOf(p).api_key) ELSE given[p]]
            /\ UNCHANGED ran
    /\ UNCHANGED <<db, cut, ghosts>>

\* The process dies, between two transactions or at rest.  A key whose update it cut off
\* was never acknowledged.
Crash ==
    /\ proc # "down"
    /\ proc' = "down"
    /\ enc' = None
    /\ job' = <<>>
    /\ cut' = IF Is("rank") /\ Head(job).id \in DOMAIN providers \ DOMAIN priority
              THEN cut \cup {Head(job).id} ELSE cut
    /\ asked' = IF job = <<>> THEN asked ELSE <<>>
    /\ given' = IF Is("update")
                THEN [given EXCEPT ![Head(job).id] = providers[Head(job).id].api_key_encrypted]
                ELSE given
    /\ UNCHANGED <<db, ran, ghosts>>

-----------------------------------------------------------------------------
(* Handlers: what each of them decides to write.                           *)

Ghosts(ids) == ghosts' = ghosts \cup (ids \ DOMAIN providers)

\* The last order PUT no longer says where p stands.
Forget(p) == asked' = IF p \in Range(asked) THEN <<>> ELSE asked

\* Without an encryption key no API key is accepted: 400, nothing is written.
accepts(key) == key \in {None, Empty} \/ enc # None

\* Mutant: the priority row is left to a later PUT.
create_provider_Unranked(p, rank, key) ==
    /\ idle
    /\ p \notin DOMAIN providers /\ accepts(key)
    /\ job' = <<insert(p, rank, encrypt_api_key(enc, key))>>
    /\ given' = [given EXCEPT ![p] = encrypt_api_key(enc, key)]
    /\ Forget(p)
    /\ UNCHANGED <<db, proc, enc, ran, cut, ghosts>>

\* An id that is in the table violates its primary key: nothing is written.
create_provider(p, rank, key) ==
    /\ idle
    /\ p \notin DOMAIN providers /\ accepts(key)
    /\ job' = <<insert(p, rank, encrypt_api_key(enc, key)), rank_(p, rank)>>
    /\ given' = [given EXCEPT ![p] = encrypt_api_key(enc, key)]
    /\ Forget(p)
    /\ UNCHANGED <<db, proc, enc, ran, cut, ghosts>>

\* A PATCH with a priority, an API key or both; the others touch nothing modelled here.  An
\* empty key is taken and changes nothing: a key can be replaced and never removed.
update_provider(p, rank, key) ==
    /\ idle
    /\ p \in DOMAIN providers /\ accepts(key)
    /\ rank # <<>> \/ key # None
    /\ LET token == encrypt_api_key(enc, key)
       IN  /\ job' = <<update(p, rank, token)>> \o [i \in DOMAIN rank |-> rank_(p, rank[i])]
           /\ given' = IF token = None THEN given ELSE [given EXCEPT ![p] = token]
    /\ IF rank = <<>> THEN UNCHANGED asked ELSE Forget(p)
    /\ UNCHANGED <<db, proc, enc, ran, cut, ghosts>>

delete_provider(p) ==
    /\ idle
    /\ p \in DOMAIN providers
    /\ job' = <<[op |-> "delete", id |-> p]>>
    /\ Forget(p)
    /\ UNCHANGED <<db, proc, enc, ran, cut, ghosts, given>>

post_override(s, id) ==
    /\ idle
    /\ job' = <<[op |-> "override", session |-> s, id |-> id]>>
    /\ Ghosts({id} \ {None})
    /\ UNCHANGED <<db, proc, enc, ran, cut, asked, given>>

\* PUT: the fields given (the first and the last are <<>> when they are not), a list of ids
\* as a row for each.
set_routing_config(routing, order, conditions) ==
    /\ idle
    /\ job' = [i \in DOMAIN routing |-> [op |-> "routing", strategy |-> routing[i]]]
                  \o [i \in DOMAIN order |-> rank_(order[i], i - 1)]
                  \o [i \in DOMAIN conditions |-> [op |-> "failover", ids |-> conditions[i]]]
    /\ Ghosts(Range(order) \cup UNION Range(conditions))
    /\ asked' = IF order = <<>> THEN asked ELSE order
    /\ UNCHANGED <<db, proc, enc, ran, cut, given>>

Orders == UNION {[1..n -> Provider] : n \in 0..MaxOrder}

Admin ==
    \/ \E p \in Provider, rank \in Rank : \E key \in ApiKeys[p] \cup {None} :
            create_provider(p, rank, key)
    \/ \E p \in Provider, rank \in Option(Rank) : \E key \in ApiKeys[p] \cup {Empty, None} :
            update_provider(p, rank, key)
    \/ \E p \in Provider : delete_provider(p)
    \/ \E s \in Bearer, id \in Provider \cup {None} : post_override(s, id)
    \/ \E routing \in Option(Strategy), order \in Orders, ids \in Option(SUBSET Provider) :
            set_routing_config(routing, order, ids)

Process == Crash \/ \E key \in EncKey \cup {None} : Boot(key)

Next == Commit \/ Admin \/ Process

\* A handler and the bootstrap run to their end without an await.
Fairness == WF_vars(Commit)

Spec == Init /\ [][Next]_vars /\ Fairness

-----------------------------------------------------------------------------
(* Properties.                                                             *)

\* With any row in provider_priority, a provider without one is never routed to.  At rest
\* every provider has one, unless the process died between the two transactions that
\* create it.
RankedUnlessCut == job = <<>> => DOMAIN providers \ DOMAIN priority \subseteq cut

\* No row outlives the provider it refers to: with REFERENCES not enforced, a priority, an
\* override or a condition names a provider of the table, or one that was missing when the
\* operator named it and has been ever since.
NoOrphans ==
    DOMAIN priority \cup Range(override) \cup failover \subseteq DOMAIN providers \cup ghosts

\* The order an operator PUT is the one in force, in the sense of the routing engine, until
\* a priority of one of its ids is written again: seeds, creations, deletions and restarts
\* do not mix it up.  Of an id listed twice the last position counts.
OrderKept ==
    idle => \A i, j \in DOMAIN asked :
        i < j /\ asked[i] \notin Range(SubSeq(asked, i + 1, Len(asked)))
            => priority[asked[i]] < priority[asked[j]]

\* What is sent to a provider as its API key is what was last accepted for it, under
\* whatever encryption key, restart, bootstrap or cut-off handler came between; or nothing,
\* when none was given or it was stored under another encryption key.  Nobody is sent a key
\* that was replaced, or that of an earlier row of the same id.
KeyKept ==
    idle => \A p \in DOMAIN providers :
        decrypt_api_key(enc, providers[p].api_key_encrypted) = decrypt_api_key(enc, given[p])

\* The first time the router comes up it has the first seeds of the file, as they stand
\* there, one at least if there are any, however many starts before failed for want of an
\* encryption key or died; all of these are routed to, but the one that a death cut in two.
SeededInOrder ==
    [][~ran /\ ran' =>
          \E n \in 0..Len(Seed) :
              /\ n = 0 => Seed = <<>>
              /\ DOMAIN providers' = {Seed[i].id : i \in 1..n}
              /\ \A i \in 1..n : LET seed == Seed[i] IN
                    /\ providers'[seed.id].priority = seed.rank
                    /\ \/ seed.id \in DOMAIN priority' /\ priority'[seed.id] = seed.rank
                       \/ i = n /\ seed.id \in cut']_vars

(* The tables as Proxy sees them, who takes each handler as one step: as the job under way *)
(* will leave them.  The bootstrap creates one provider after the other, and each begins   *)
(* with its first transaction.                                                           *)

Soon(op) == proc = "up" /\ Is(op)

row(rank) == [priority |-> rank, models |-> {}, supports |-> {}]

providersSoon ==
    LET t == Head(job)
        rows == [p \in DOMAIN providers |-> row(providers[p].priority)]
    IN  CASE Soon("insert") -> Upsert(rows, t.id, row(t.rank))
          [] Soon("update") /\ t.patch # <<>> -> Upsert(rows, t.id, row(t.patch[1]))
          [] Soon("delete") -> Remove(rows, {t.id})
          [] OTHER -> rows

\* The ranks that will be written, by position in the job; the last one counts.
Ranking(p) == {i \in DOMAIN job : /\ proc = "up" \/ i = 1
                                 /\ job[i].op = "rank" /\ job[i].id = p}

prioritySoon ==
    LET kept == IF Soon("delete") THEN DOMAIN priority \ {Head(job).id} ELSE DOMAIN priority
        last(p) == CHOOSE i \in Ranking(p) : \A j \in Ranking(p) : j <= i
    IN  [p \in kept \cup {q \in Provider : Ranking(q) # {}} |->
            IF Ranking(p) # {} THEN job[last(p)].rank ELSE priority[p]]

\* In the terms of Auth a session is here the token of its bearer.
overrideSoon ==
    LET t == Head(job)
        pins == [k \in {<<"token", s>> : s \in DOMAIN override} |-> override[k[2]]]
    IN  CASE Soon("override") /\ t.id # None -> Upsert(pins, <<"token", t.session>>, t.id)
          [] Soon("override") /\ t.id = None -> Remove(pins, {<<"token", t.session>>})
          [] Soon("delete") -> Remove(pins, {k \in DOMAIN pins : pins[k] = t.id})
          [] OTHER -> pins

Atomic == INSTANCE Proxy WITH
    providers <- providersSoon, priority <- prioritySoon, override <- overrideSoon,
    Row <- {row(n) : n \in Rank \cup {Seed[i].rank : i \in DOMAIN Seed}},
    Sender <- {[bearer |-> s, apiKey |-> None, header |-> None] : s \in Bearer},
    CLIENT_KEY <- None, ADMIN_KEY <- None, Absent <- None,
    Name <- {}, Model <- {}, Alias <- <<>>, ModelPart <- <<>>, Status <- {502, 504},
    Request <- {}, Ask <- <<>>, pc <- <<>>, cands <- <<>>, chosen <- <<>>, at <- <<>>,
    lastError <- <<>>, reply <- <<>>, calls <- <<>>,
    healthy <- [p \in Provider |-> TRUE], below <- [p \in Provider |-> FALSE]

\* The process dies in the middle of a handler, or of the creation of a seed.
Torn == Crash /\ job # <<>> /\ (proc = "up" \/ Is("rank"))

\* Each handler, of however many transactions, is one step of Proxy to everybody who reads
\* the tables, and so is each seed of the bootstrap; a start, its failure and a death at
\* rest change nothing.  What is not is a death in the middle of one, and only that.
HandlersAreSteps == Atomic!Init /\ [][Torn \/ Atomic!Next]_(Atomic!vars)

(* What the documentation says and the code does not do.                   *)

\* bootstrap.py:2: "on first run, if DB has no providers and config has providers, seed".
\* A first run comes up with all of them.  A start that failed for want of an encryption
\* key, or died, has stored the first ones; the next start finds the table not empty.
SeededWhole ==
    [][~ran /\ ran' => {Seed[i].id : i \in DOMAIN Seed} \subseteq DOMAIN providers']_vars
=============================================================================
