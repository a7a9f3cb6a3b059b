---------------------------- MODULE TableProofs ----------------------------
(* Lemmas about numbers, about the tables of ProviderTables, and about tables kept as  *)
(* sequences of the ids of their rows, in the order of a full scan.                    *)
EXTENDS ProviderTables, SequenceTheorems, WellFoundedInduction, TLAPS

\* Numbers: the least of a set, the greatest of a bounded one.
LEMMA Least ==
    ASSUME NEW T, T \subseteq Nat, T # {}
    PROVE  \E x \in T : \A y \in T : x <= y
<1> DEFINE R == OpToRel(<, Nat)
<1>1. IsWellFoundedOn(R, Nat)
  BY NatLessThanWellFounded
<1>2. \A x, y \in Nat : <<y, x>> \in R <=> y < x
  BY DEF OpToRel
<1> HIDE DEF R
<1>3. PICK x \in T : \A y \in T : <<y, x>> \notin R
  BY <1>1, WFMin
<1>4. ASSUME NEW y \in T PROVE x <= y
  <2>1. x \in Nat /\ y \in Nat /\ ~(y < x)
    BY <1>2, <1>3
  <2> QED  BY <2>1
<1> QED  BY <1>4

LEMMA Greatest ==
    ASSUME NEW n \in Nat, NEW S, S \subseteq 1..n, S # {}
    PROVE  \E i \in S : \A j \in S : j <= i
<1> DEFINE T == {k \in Nat : n - k \in S}
<1>1. T \subseteq Nat /\ T # {}
  <2>1. PICK s \in S : TRUE
    OBVIOUS
  <2>2. s \in Nat /\ n - s \in Nat /\ n - (n - s) = s
    BY <2>1
  <2> QED  BY <2>2
<1> HIDE DEF T
<1>2. PICK x \in T : \A y \in T : x <= y
  BY <1>1, Least
<1>3. x \in Nat /\ n - x \in S
  BY DEF T
<1>4. ASSUME NEW j \in S PROVE j <= n - x
  <2>1. j \in Nat /\ n - j \in Nat /\ n - (n - j) = j
    OBVIOUS
  <2>2. n - j \in T
    BY <2>1 DEF T
  <2> QED  BY <1>2, <1>3, <2>1, <2>2
<1> QED  BY <1>3, <1>4

-----------------------------------------------------------------------------
(* Tables.                                                                 *)

\* A write to a table keeps it a table.
LEMMA UpsertTable ==
    ASSUME NEW keys, NEW values, NEW table, IsTable(table, keys, values),
           NEW key \in keys, NEW value \in values
    PROVE  IsTable(Upsert(table, key, value), keys, values)
BY DEF IsTable, Upsert

LEMMA RemoveTable ==
    ASSUME NEW keys, NEW values, NEW table, IsTable(table, keys, values), NEW gone
    PROVE  IsTable(Remove(table, gone), keys, values)
BY DEF IsTable, Remove

-----------------------------------------------------------------------------
(* Rows in order.                                                          *)

\* Removing one row of a table without duplicates removes its id, and nothing else.
LEMMA RowRemoved ==
    ASSUME NEW S, NEW s \in Seq(S), IsInjective(s), NEW i \in DOMAIN s
    PROVE  LET t == SubSeq(s, 1, i - 1) \o SubSeq(s, i + 1, Len(s))
           IN  t \in Seq(S) /\ IsInjective(t) /\ Range(t) = Range(s) \ {s[i]}
<1> DEFINE t == SubSeq(s, 1, i - 1) \o SubSeq(s, i + 1, Len(s))
<1>1. i \in 1..Len(s) /\ Len(s) \in Nat
  OBVIOUS
<1>2. /\ t \in Seq(S) /\ Len(t) = Len(s) - 1
      /\ \A j \in 1..Len(t) : t[j] = IF j < i THEN s[j] ELSE s[j + 1]
  <2> DEFINE u == SubSeq(s, 1, i - 1)
             v == SubSeq(s, i + 1, Len(s))
  <2>1. u \in Seq(S) /\ Len(u) = i - 1 /\ \A j \in 1..(i - 1) : u[j] = s[j]
    BY <1>1
  <2>2. v \in Seq(S) /\ Len(v) = Len(s) - i /\ \A j \in 1..(Len(s) - i) : v[j] = s[j + i]
    BY <1>1
  <2> HIDE DEF u, v
  <2>3. /\ u \o v \in Seq(S) /\ Len(u \o v) = Len(s) - 1
        /\ \A j \in 1..(Len(s) - 1) : (u \o v)[j] = IF j < i THEN u[j] ELSE v[j - (i - 1)]
    <3>1. /\ u \o v \in Seq(S) /\ Len(u \o v) = Len(u) + Len(v)
          /\ \A j \in 1..(Len(u) + Len(v)) :
                (u \o v)[j] = IF j <= Len(u) THEN u[j] ELSE v[j - Len(u)]
      BY <2>1, <2>2, ConcatProperties
    <3>2. Len(u) + Len(v) = Len(s) - 1 /\ \A j \in 1..(Len(s) - 1) : j <= Len(u) <=> j < i
      BY <1>1, <2>1, <2>2, SMTT(30)
    <3> QED  BY <2>1, <3>1, <3>2
  <2>4. \A j \in 1..(Len(s) - 1) : (u \o v)[j] = IF j < i THEN s[j] ELSE s[j + 1]
    <3> TAKE j \in 1..(Len(s) - 1)
    <3>1. CASE j < i
      <4>1. j \in 1..(i - 1)
        BY <1>1, <3>1
      <4> QED  BY <2>1, <2>3, <3>1, <4>1
    <3>2. CASE ~(j < i)
      <4>1. j - (i - 1) \in 1..(Len(s) - i) /\ j - (i - 1) + i = j + 1
        BY <1>1, <3>2
      <4> QED  BY <2>2, <2>3, <3>2, <4>1
    <3> QED  BY <3>1, <3>2
  <2> QED  BY <2>3, <2>4 DEF u, v
<1> HIDE DEF t
<1>3. IsInjective(t)
  BY <1>1, <1>2, SMTT(30) DEF IsInjective
<1>4. Range(t) \subseteq Range(s) \ {s[i]}
  BY <1>1, <1>2 DEF Range, IsInjective
<1>5. ASSUME NEW k \in DOMAIN s, s[k] # s[i] PROVE s[k] \in Range(t)
  <2>1. CASE k < i
    <3>1. k \in 1..Len(t) /\ t[k] = s[k]
      BY <1>1, <1>2, <2>1
    <3> QED  BY <1>2, <3>1 DEF Range
  <2>2. CASE k > i
    <3>1. k - 1 \in 1..Len(t) /\ t[k - 1] = s[k]
      BY <1>1, <1>2, <2>2
    <3> QED  BY <1>2, <3>1 DEF Range
  <2> QED  BY <1>1, <1>5, <2>1, <2>2
<1> QED  BY <1>2, <1>3, <1>4, <1>5 DEF Range, t

LEMMA RowAdded ==
    ASSUME NEW S, NEW s \in Seq(S), IsInjective(s), NEW e \in S, e \notin Range(s)
    PROVE  /\ Append(s, e) \in Seq(S) /\ IsInjective(Append(s, e))
           /\ Range(Append(s, e)) = Range(s) \cup {e}
<1>1. Len(Append(s, e)) = Len(s) + 1 /\ Append(s, e)[Len(s) + 1] = e
        /\ \A j \in 1..Len(s) : Append(s, e)[j] = s[j]
  OBVIOUS
<1>2. \A j \in 1..Len(s) : s[j] # e
  BY DEF Range
<1>3. DOMAIN s = 1..Len(s) /\ DOMAIN Append(s, e) = 1..(Len(s) + 1) /\ Len(s) \in Nat
  OBVIOUS
<1>4. IsInjective(Append(s, e))
  BY <1>1, <1>2, <1>3 DEF IsInjective
<1>5. Range(Append(s, e)) = Range(s) \cup {e}
  BY <1>1, <1>3 DEF Range
<1> QED  BY <1>4, <1>5

-----------------------------------------------------------------------------
(* A snapshot worked through from its head.                                *)

\* With the first entry gone, the others are there as they were, one place up.
LEMMA TailEntries ==
    ASSUME NEW T, NEW s \in Seq(T), s # <<>>
    PROVE  /\ \A i \in DOMAIN Tail(s) : i + 1 \in DOMAIN s /\ Tail(s)[i] = s[i + 1]
           /\ \A i \in DOMAIN s : i = 1 \/ (i - 1 \in DOMAIN Tail(s) /\ Tail(s)[i - 1] = s[i])
OBVIOUS
=============================================================================
