--------------------------- MODULE ProviderTables ---------------------------
(***************************************************************************)
(* The tables of src/router/db.py and the order of the providers that the   *)
(* routing engine reads from them (_provider_order of                       *)
(* src/router/routing_engine.py).  A table is a function whose domain is    *)
(* the set of its keys; the operators take the tables as arguments, so that *)
(* every module that owns them can use them.                                *)
(***************************************************************************)
EXTENDS Integers, FiniteSets, Sequences, Functions

\* INSERT ... ON CONFLICT(key) DO UPDATE.
Upsert(table, key, value) ==
    [k \in DOMAIN table \cup {key} |-> IF k = key THEN value ELSE table[k]]

\* DELETE ... WHERE key IN keys.
Remove(table, keys) == [k \in DOMAIN table \ keys |-> table[k]]

\* A table from some of these keys to these values; all such tables, to choose one from.
IsTable(table, keys, values) ==
    DOMAIN table \subseteq keys /\ table \in [DOMAIN table -> values]
Tables(keys, values) == UNION {[ks -> values] : ks \in SUBSET keys}

-----------------------------------------------------------------------------
(* The order of the providers.                                             *)

\* The providers _provider_order lists: with any row in provider_priority, those
\* that have one; otherwise all of them.
Routed(providers, priority) ==
    IF DOMAIN priority # {} THEN DOMAIN priority \cap DOMAIN providers
                            ELSE DOMAIN providers

\* What _provider_order sorts them by.
SortKey(providers, priority) ==
    IF DOMAIN priority # {} THEN priority
                            ELSE [p \in DOMAIN providers |-> providers[p].priority]

\* Mutant: a join that may repeat a provider.
Listings_Repeats(ps, key) ==
    {c \in [1..(Cardinality(ps) + 1) -> ps] :
        \A i, j \in 1..(Cardinality(ps) + 1) : i < j => key[c[i]] <= key[c[j]]}

\* The ways to list a set by ascending key.  Neither table is read with a
\* tie-breaking ORDER BY, so equal keys may come in any order.
Listings(ps, key) ==
    {c \in Bijection(1..Cardinality(ps), ps) :
        \A i, j \in 1..Cardinality(ps) : i < j => key[c[i]] <= key[c[j]]}
=============================================================================
