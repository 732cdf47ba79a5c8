------------------------- MODULE TwoTierCacheProofs -------------------------
(***************************************************************************)
(* Theorems about TwoTierCache, for any clients, keys, folders, sizes and  *)
(* budgets: the types, L1 and its budget, the order of the writes, and     *)
(* that no job is slept over.                                              *)
(***************************************************************************)
EXTENDS TwoTierCache, FiniteSetTheorems, SequenceTheorems, TLAPS

(***************************************************************************)
(* Sequences of entries                                                    *)
(***************************************************************************)

\* No key is there twice.
Distinct(s) == \A i, j \in DOMAIN s : s[i].key = s[j].key => i = j

\* A sequence has as many keys as entries if and only if no key is there twice.
LEMMA DistinctKeys ==
  ASSUME NEW T, NEW s \in Seq(T)
  PROVE  /\ IsFiniteSet(KeysOf(s))
         /\ Len(s) = Cardinality(KeysOf(s)) <=> Distinct(s)
  <1> DEFINE f == [i \in 1..Len(s) |-> s[i].key]
  <1>1. DOMAIN s = 1..Len(s) /\ Len(s) \in Nat
    OBVIOUS
  <1>2. f \in Surjection(1..Len(s), KeysOf(s))
    BY <1>1 DEF Surjection, KeysOf
  <1>3. f \in Injection(1..Len(s), KeysOf(s)) <=> Distinct(s)
    BY <1>1, <1>2 DEF Injection, IsInjective, Surjection, Distinct
  <1>4. IsFiniteSet(1..Len(s)) /\ Cardinality(1..Len(s)) = Len(s)
    BY <1>1, FS_Interval
  <1> HIDE DEF f
  <1> QED BY <1>2, <1>3, <1>4, FS_Surjection

\* The members of a finite set of numbers can be counted from the smallest on.
LEMMA CountUp ==
  ASSUME NEW A, A \subseteq Int, IsFiniteSet(A), NEW n \in 1..Cardinality(A)
  PROVE  \E i \in A : Cardinality({j \in A : j <= i}) = n
  <1> DEFINE rank == [i \in A |-> Cardinality({j \in A : j <= i})]
             c == Cardinality(A)
  <1>1. c \in Nat
    BY FS_CardinalityType
  <1>2. \A i \in A : IsFiniteSet({j \in A : j <= i})
    BY FS_Subset
  <1>3. ASSUME NEW i \in A PROVE rank[i] \in 1..c
    <2>1. Cardinality({j \in A : j <= i}) \in Nat
      BY <1>2, FS_CardinalityType
    <2>2. Cardinality({j \in A : j <= i}) <= c
      BY FS_Subset
    <2>3. i \in {j \in A : j <= i}
      OBVIOUS
    <2>4. Cardinality({j \in A : j <= i}) # 0
      BY <1>2, <2>3, FS_EmptySet
    <2> QED BY <1>1, <2>1, <2>2, <2>4
  <1>4. ASSUME NEW i \in A, NEW k \in A, i < k PROVE rank[i] # rank[k]
    <2> DEFINE lo == {j \in A : j <= i}
               hi == {j \in A : j <= k}
    <2>1. lo \in SUBSET hi /\ k \in hi /\ k \notin lo
      <3>1. \A j \in A : j \in Int
        OBVIOUS
      <3>2. \A j \in A : j <= i => j <= k
        BY <1>4, <3>1
      <3>3. k <= k /\ ~(k <= i)
        BY <1>4, <3>1
      <3> QED BY <3>2, <3>3
    <2>2. Cardinality(hi) # Cardinality(lo)
      <3>1. IsFiniteSet(hi)
        BY <1>2
      <3> HIDE DEF lo, hi
      <3> QED BY <2>1, <3>1, FS_Subset
    <2> QED BY <2>2
  <1>5. rank \in Injection(A, 1..c)
    <2>1. rank \in [A -> 1..c]
      BY <1>3
    <2>2. \A i, k \in A : rank[i] = rank[k] => i = k
      <3> HIDE DEF rank
      <3> TAKE i, k \in A
      <3>1. i < k \/ k < i \/ i = k
        OBVIOUS
      <3> QED BY <1>4, <3>1
    <2> HIDE DEF rank
    <2> QED BY <2>1, <2>2 DEF Injection, IsInjective
  <1>6. IsFiniteSet(1..c) /\ Cardinality(1..c) = c
    BY <1>1, FS_Interval
  <1>7. rank \in Surjection(A, 1..c)
    <2> HIDE DEF rank
    <2> QED BY <1>5, <1>6, FS_Injection
  <1>8. PICK i \in A : rank[i] = n
    <2> HIDE DEF rank
    <2> QED BY <1>7 DEF Surjection
  <1> QED BY <1>8

\* Drop keeps the entries whose keys are not dropped, and nothing else.
LEMMA DropKeeps ==
  ASSUME NEW T, NEW s \in Seq(T), NEW K
  PROVE  /\ Drop(s, K) \in Seq(T)
         /\ \A n \in DOMAIN Drop(s, K) : \E i \in DOMAIN s :
              Drop(s, K)[n] = s[i] /\ s[i].key \notin K
         /\ \A i \in DOMAIN s : s[i].key \notin K =>
              \E n \in DOMAIN Drop(s, K) : Drop(s, K)[n] = s[i]
         /\ Distinct(s) => Distinct(Drop(s, K))
  <1> DEFINE kept == {i \in DOMAIN s : s[i].key \notin K}
             Rank(i) == Cardinality({j \in kept : j <= i})
             Nth(n) == CHOOSE i \in kept : Rank(i) = n
             c == Cardinality(kept)
  <1>1. /\ DOMAIN s = 1..Len(s) /\ Len(s) \in Nat
        /\ kept \subseteq Int
        /\ IsFiniteSet(kept) /\ c \in Nat
    <2>1. DOMAIN s = 1..Len(s) /\ Len(s) \in Nat
      OBVIOUS
    <2>2. IsFiniteSet(1..Len(s))
      BY <2>1, FS_Interval
    <2>3. IsFiniteSet(kept)
      BY <2>1, <2>2, FS_Subset
    <2> QED BY <2>1, <2>3, FS_CardinalityType
  <1>2. Drop(s, K) = [n \in 1..c |-> s[Nth(n)]]
    BY DEF Drop
  <1>3. ASSUME NEW n \in 1..c PROVE Nth(n) \in kept /\ Rank(Nth(n)) = n
    <2>1. \E i \in kept : Rank(i) = n
      <3> HIDE DEF kept
      <3> QED BY <1>1, CountUp
    <2> HIDE DEF kept, Rank
    <2> QED BY <2>1
  <1>4. ASSUME NEW i \in kept PROVE Rank(i) \in 1..c
    <2>1. /\ IsFiniteSet({j \in kept : j <= i})
          /\ Rank(i) <= c
      <3> HIDE DEF kept
      <3> QED BY <1>1, FS_Subset
    <2>2. Rank(i) \in Nat
      BY <2>1, FS_CardinalityType
    <2>3. i \in {j \in kept : j <= i}
      BY <1>1
    <2>4. Rank(i) # 0
      BY <2>1, <2>3, FS_EmptySet
    <2> QED BY <1>1, <2>1, <2>2, <2>4
  <1>5. ASSUME NEW i \in kept, NEW k \in kept, Rank(i) = Rank(k) PROVE i = k
    <2>1. ASSUME NEW x \in kept, NEW y \in kept, x < y PROVE Rank(x) # Rank(y)
      <3> DEFINE lo == {j \in kept : j <= x}
                 hi == {j \in kept : j <= y}
      <3>1. lo \in SUBSET hi /\ y \in hi /\ y \notin lo
        BY <1>1, <2>1
      <3>2. IsFiniteSet(hi)
        <4> HIDE DEF kept
        <4> QED BY <1>1, FS_Subset
      <3>3. Cardinality(hi) # Cardinality(lo)
        <4> HIDE DEF lo, hi
        <4> QED BY <3>1, <3>2, FS_Subset
      <3> QED BY <3>3
    <2>2. i \in Int /\ k \in Int
      BY <1>1
    <2>3. i < k \/ k < i \/ i = k
      BY <2>2
    <2> HIDE DEF kept, Rank
    <2> QED BY <1>5, <2>1, <2>3
  <1>6. ASSUME NEW i \in kept PROVE \E n \in 1..c : Nth(n) = i
    <2>1. Rank(i) \in 1..c
      BY <1>4
    <2>2. Nth(Rank(i)) \in kept /\ Rank(Nth(Rank(i))) = Rank(i)
      <3> HIDE DEF Nth, Rank, kept
      <3> QED BY <1>3, <2>1
    <2>3. Nth(Rank(i)) = i
      <3> HIDE DEF Nth, Rank, kept
      <3> QED BY <1>5, <2>2
    <2> QED BY <2>1, <2>3
  <1>7. \A n, m \in 1..c : Nth(n) = Nth(m) => n = m
    <2> HIDE DEF Nth, Rank, kept
    <2> QED BY <1>3
  <1>8. ASSUME NEW n \in 1..c
        PROVE  Nth(n) \in DOMAIN s /\ s[Nth(n)].key \notin K /\ s[Nth(n)] \in T
    <2>1. PICK i \in kept : i = Nth(n)
      <3> HIDE DEF Nth, kept
      <3> QED BY <1>3
    <2>2. i \in DOMAIN s /\ s[i].key \notin K /\ s[i] \in T
      OBVIOUS
    <2> HIDE DEF Nth
    <2> QED BY <2>1, <2>2
  <1>9. Drop(s, K) \in Seq(T) /\ DOMAIN Drop(s, K) = 1..c
    <2> HIDE DEF Nth, kept
    <2> QED BY <1>1, <1>2, <1>8
  <1>10. \A n \in 1..c : Drop(s, K)[n] = s[Nth(n)]
    <2> HIDE DEF Nth, kept
    <2> QED BY <1>2
  <1>11. \A i \in DOMAIN s : s[i].key \notin K => i \in kept
    OBVIOUS
  <1> HIDE DEF Nth, kept
  <1>12. Distinct(s) => Distinct(Drop(s, K))
    BY <1>7, <1>8, <1>9, <1>10 DEF Distinct
  <1>13. \A i \in DOMAIN s : s[i].key \notin K =>
           \E n \in DOMAIN Drop(s, K) : Drop(s, K)[n] = s[i]
    BY <1>6, <1>9, <1>10, <1>11
  <1> QED BY <1>8, <1>9, <1>10, <1>12, <1>13

\* The keys that Drop leaves.
LEMMA DropKeys ==
  ASSUME NEW T, NEW s \in Seq(T), NEW K
  PROVE  KeysOf(Drop(s, K)) = KeysOf(s) \ K
  <1>1. \A k \in KeysOf(Drop(s, K)) : k \in KeysOf(s) \ K
    BY DropKeeps DEF KeysOf
  <1>2. \A k \in KeysOf(s) \ K : k \in KeysOf(Drop(s, K))
    <2> TAKE k \in KeysOf(s) \ K
    <2>1. PICK i \in DOMAIN s : s[i].key = k
      BY DEF KeysOf
    <2>2. PICK n \in DOMAIN Drop(s, K) : Drop(s, K)[n] = s[i]
      BY <2>1, DropKeeps
    <2> QED BY <2>1, <2>2 DEF KeysOf
  <1> QED BY <1>1, <1>2

\* EntryOf finds the entry of a key.
LEMMA EntryIsThere ==
  ASSUME NEW s, NEW k \in KeysOf(s)
  PROVE  \E i \in DOMAIN s : EntryOf(s, k) = s[i] /\ s[i].key = k
  BY DEF KeysOf, EntryOf

\* It is the only one if no key is there twice.
LEMMA EntryIsTheOne ==
  ASSUME NEW s, Distinct(s), NEW i \in DOMAIN s
  PROVE  EntryOf(s, s[i].key) = s[i]
  BY DEF EntryOf, Distinct

\* An entry in front, and an entry at the end.
LEMMA ConsKeeps ==
  ASSUME NEW T, NEW s \in Seq(T), NEW e \in T
  PROVE  /\ <<e>> \o s \in Seq(T)
         /\ KeysOf(<<e>> \o s) = {e.key} \cup KeysOf(s)
         /\ Distinct(s) /\ e.key \notin KeysOf(s) => Distinct(<<e>> \o s)
  <1> DEFINE t == <<e>> \o s
  <1>1. /\ t \in Seq(T) /\ Len(t) = Len(s) + 1 /\ Len(s) \in Nat
        /\ DOMAIN s = 1..Len(s) /\ DOMAIN t = 1..(Len(s) + 1)
    OBVIOUS
  <1>2. t[1] = e /\ \A i \in 1..Len(s) : t[i + 1] = s[i]
    OBVIOUS
  <1>3. \A i \in DOMAIN t : i = 1 \/ (i - 1 \in DOMAIN s /\ t[i] = s[i - 1])
    BY <1>1, <1>2
  <1>4. KeysOf(t) = {e.key} \cup KeysOf(s)
    <2> HIDE DEF t
    <2>1. \A k \in KeysOf(t) : k \in {e.key} \cup KeysOf(s)
      BY <1>1, <1>2, <1>3 DEF KeysOf
    <2>2. \A k \in KeysOf(s) : k \in KeysOf(t)
      <3> TAKE k \in KeysOf(s)
      <3>1. PICK i \in DOMAIN s : s[i].key = k
        BY DEF KeysOf
      <3>2. i + 1 \in DOMAIN t /\ t[i + 1] = s[i]
        BY <1>1, <1>2
      <3> QED BY <3>1, <3>2 DEF KeysOf
    <2>3. e.key \in KeysOf(t)
      BY <1>1, <1>2 DEF KeysOf
    <2> QED BY <2>1, <2>2, <2>3
  <1>5. Distinct(s) /\ e.key \notin KeysOf(s) => Distinct(t)
    <2> HIDE DEF t
    <2> SUFFICES ASSUME Distinct(s), e.key \notin KeysOf(s),
                        NEW i \in DOMAIN t, NEW j \in DOMAIN t, t[i].key = t[j].key
                 PROVE  i = j
      BY DEF Distinct
    <2>1. i \in Int /\ j \in Int
      BY <1>1
    <2>2. \A n \in DOMAIN s : s[n].key \in KeysOf(s)
      BY DEF KeysOf
    <2>3. CASE i = 1 \/ j = 1
      BY <1>2, <1>3, <2>2, <2>3
    <2>4. CASE i # 1 /\ j # 1
      <3>1. i - 1 \in DOMAIN s /\ j - 1 \in DOMAIN s /\ t[i] = s[i - 1] /\ t[j] = s[j - 1]
        BY <1>3, <2>4
      <3>2. i - 1 = j - 1
        BY <3>1 DEF Distinct
      <3> QED BY <2>1, <3>2
    <2> QED BY <2>3, <2>4
  <1> QED BY <1>1, <1>4, <1>5

\* A new key may be appended.
LEMMA AppendKeeps ==
  ASSUME NEW T, NEW s \in Seq(T), NEW e \in T
  PROVE  /\ Append(s, e) \in Seq(T)
         /\ KeysOf(Append(s, e)) = {e.key} \cup KeysOf(s)
         /\ Distinct(s) /\ e.key \notin KeysOf(s) => Distinct(Append(s, e))
  <1> DEFINE t == Append(s, e)
  <1>1. /\ t \in Seq(T) /\ Len(s) \in Nat
        /\ DOMAIN s = 1..Len(s) /\ DOMAIN t = 1..(Len(s) + 1)
        /\ t[Len(s) + 1] = e /\ \A i \in 1..Len(s) : t[i] = s[i]
    OBVIOUS
  <1>2. \A i \in DOMAIN t : i = Len(s) + 1 \/ (i \in DOMAIN s /\ t[i] = s[i])
    BY <1>1
  <1> HIDE DEF t
  <1>3. DOMAIN t = {Len(s) + 1} \cup DOMAIN s
    BY <1>1
  <1>4. KeysOf(t) = {e.key} \cup KeysOf(s)
    BY <1>1, <1>2, <1>3 DEF KeysOf
  <1>5. \A n \in DOMAIN s : s[n].key \in KeysOf(s)
    BY DEF KeysOf
  <1>6. Distinct(s) /\ e.key \notin KeysOf(s) => Distinct(t)
    BY <1>1, <1>2, <1>5 DEF Distinct
  <1> QED BY <1>1, <1>4, <1>6 DEF t

-----------------------------------------------------------------------------

(***************************************************************************)
(* Sums of sizes.  MapThenSumSet is defined by a function that recurses    *)
(* over the subsets of a set.  That it exists, and what it yields, is      *)
(* shown by looking at a smallest subset for which it would fail.          *)
(***************************************************************************)

SumOf(f, D) == MapThenSumSet(LAMBDA k : f[k], D)

\* One element of a set, the one that the sum takes first.
Pick(s) == CHOOSE x \in s : TRUE

\* it adds up the sizes of the subsets of S.
Adds(it, f, S) ==
  it = [s \in SUBSET S |-> IF s = {} THEN 0 ELSE f[Pick(s)] + it[s \ {Pick(s)}]]

\* The definition, with the recursive function spelt out.
LEMMA SumIsChoice == ASSUME NEW f, NEW S
  PROVE SumOf(f, S) = (CHOOSE it : Adds(it, f, S))[S]
  BY DEF SumOf, MapThenSumSet, MapThenFoldSet, Adds, Pick

\* Of some subsets of a finite set, one has no other among its own subsets.
LEMMA SmallestSubset ==
  ASSUME NEW S, IsFiniteSet(S), NEW B \in SUBSET SUBSET S, B # {}
  PROVE  \E T \in B : \A U \in B : ~(U \subseteq T /\ U # T)
  <1>1. IsWellFoundedOn(StrictSubsetOrdering(S), FiniteSubsetsOf(S))
    BY FS_StrictSubsetOrderingWellFounded
  <1>2. B \subseteq FiniteSubsetsOf(S)
    BY FS_FiniteSubsetsOfFinite
  <1>3. PICK T \in B : \A U \in B : ~(<<U, T>> \in StrictSubsetOrdering(S))
    <2> HIDE DEF StrictSubsetOrdering, IsWellFoundedOn
    <2> QED BY <1>1, <1>2, WFMin
  <1>4. ASSUME NEW U \in B, U \subseteq T, U # T PROVE FALSE
    BY <1>2, <1>3, <1>4 DEF StrictSubsetOrdering
  <1> QED BY <1>3, <1>4

\* Two such functions agree where both are defined.
LEMMA AddsOnce ==
  ASSUME NEW f, NEW g, NEW h, NEW S, NEW T, NEW D, IsFiniteSet(D), D \subseteq S, D \subseteq T,
         Adds(g, f, S), Adds(h, f, T)
  PROVE  g[D] = h[D]
  <1> DEFINE B == {U \in SUBSET D : g[U] # h[U]}
  <1>1. SUFFICES ASSUME B # {} PROVE FALSE
    OBVIOUS
  <1>2. PICK U \in B : \A V \in B : ~(V \subseteq U /\ V # U)
    <2> B \in SUBSET SUBSET D
      OBVIOUS
    <2> HIDE DEF B
    <2> QED BY <1>1, SmallestSubset
  <1>3. U # {} => g[U \ {Pick(U)}] = h[U \ {Pick(U)}]
    BY <1>2 DEF Pick
  <1>4. /\ g[U] = IF U = {} THEN 0 ELSE f[Pick(U)] + g[U \ {Pick(U)}]
        /\ h[U] = IF U = {} THEN 0 ELSE f[Pick(U)] + h[U \ {Pick(U)}]
    BY <1>2 DEF Adds
  <1> QED BY <1>2, <1>3, <1>4

\* There is such a function for every finite set.
LEMMA AddsExists ==
  ASSUME NEW f, NEW S, IsFiniteSet(S)
  PROVE  \E it : Adds(it, f, S)
  <1> DEFINE B == {U \in SUBSET S : ~ \E it : Adds(it, f, U)}
  <1>1. SUFFICES ASSUME B # {} PROVE FALSE
    OBVIOUS
  <1>2. PICK T \in B : \A V \in B : ~(V \subseteq T /\ V # T)
    <2> B \in SUBSET SUBSET S
      OBVIOUS
    <2> HIDE DEF B
    <2> QED BY <1>1, SmallestSubset
  <1>3. ASSUME NEW s, s \subseteq T, s # T
        PROVE  SumOf(f, s) = IF s = {} THEN 0 ELSE f[Pick(s)] + SumOf(f, s \ {Pick(s)})
    <2>1. PICK g : Adds(g, f, s) /\ g[s] = SumOf(f, s)
      BY <1>2, <1>3, SumIsChoice
    <2>2. s \ {Pick(s)} \subseteq T /\ (s # {} => s \ {Pick(s)} # T)
      BY <1>3 DEF Pick
    <2>3. CASE s = {}
      BY <2>1, <2>3 DEF Adds
    <2>4. CASE s # {}
      <3>1. PICK h : Adds(h, f, s \ {Pick(s)}) /\ h[s \ {Pick(s)}] = SumOf(f, s \ {Pick(s)})
        BY <1>2, <2>2, <2>4, SumIsChoice
      <3>2. IsFiniteSet(s \ {Pick(s)})
        BY <1>3, FS_Subset
      <3>3. g[s \ {Pick(s)}] = h[s \ {Pick(s)}]
        BY <2>1, <3>1, <3>2, AddsOnce
      <3>4. g[s] = f[Pick(s)] + g[s \ {Pick(s)}]
        BY <2>1, <2>4 DEF Adds
      <3> QED BY <2>1, <2>4, <3>1, <3>3, <3>4
    <2> QED BY <2>3, <2>4
  <1> DEFINE v(s) == IF s = {} THEN 0 ELSE f[Pick(s)] + SumOf(f, s \ {Pick(s)})
             h == [s \in SUBSET T |-> v(s)]
  <1>4. ASSUME NEW s \in SUBSET T, s # {}
        PROVE  h[s \ {Pick(s)}] = SumOf(f, s \ {Pick(s)})
    BY <1>3, <1>4 DEF Pick
  <1>5. Adds(h, f, T)
    BY <1>4 DEF Adds
  <1> QED BY <1>2, <1>5

\* The sum takes one element first and adds up the others.
LEMMA SumIs ==
  ASSUME NEW f, NEW S, IsFiniteSet(S)
  PROVE  SumOf(f, S) = IF S = {} THEN 0 ELSE f[Pick(S)] + SumOf(f, S \ {Pick(S)})
  <1>1. PICK g : Adds(g, f, S) /\ g[S] = SumOf(f, S)
    BY AddsExists, SumIsChoice
  <1>2. CASE S = {}
    BY <1>1, <1>2 DEF Adds
  <1>3. CASE S # {}
    <2>1. IsFiniteSet(S \ {Pick(S)})
      BY FS_Subset
    <2>2. PICK h : Adds(h, f, S \ {Pick(S)}) /\ h[S \ {Pick(S)}] = SumOf(f, S \ {Pick(S)})
      BY <2>1, AddsExists, SumIsChoice
    <2>3. g[S \ {Pick(S)}] = h[S \ {Pick(S)}]
      <3>1. PICK D : D = S \ {Pick(S)}
        OBVIOUS
      <3>2. IsFiniteSet(D) /\ D \subseteq S /\ Adds(h, f, D)
        BY <2>1, <2>2, <3>1
      <3>3. g[D] = h[D]
        BY <1>1, <3>2, AddsOnce
      <3> QED BY <3>1, <3>3
    <2>4. g[S] = f[Pick(S)] + g[S \ {Pick(S)}]
      BY <1>1, <1>3 DEF Adds
    <2> QED BY <1>1, <1>3, <2>2, <2>3, <2>4
  <1> QED BY <1>2, <1>3

\* The sum of nothing.
LEMMA SumOfNone == ASSUME NEW f PROVE SumOf(f, {}) = 0
  BY SumIs, FS_EmptySet

\* Sums of sizes are sizes.
LEMMA SumIsNat ==
  ASSUME NEW f, NEW S, IsFiniteSet(S), \A k \in S : f[k] \in Nat
  PROVE  SumOf(f, S) \in Nat
  <1> DEFINE B == {U \in SUBSET S : SumOf(f, U) \notin Nat}
  <1>1. SUFFICES ASSUME B # {} PROVE FALSE
    OBVIOUS
  <1>2. PICK U \in B : \A V \in B : ~(V \subseteq U /\ V # U)
    <2> B \in SUBSET SUBSET S
      OBVIOUS
    <2> HIDE DEF B
    <2> QED BY <1>1, SmallestSubset
  <1>3. SumOf(f, U) = IF U = {} THEN 0 ELSE f[Pick(U)] + SumOf(f, U \ {Pick(U)})
    BY SumIs, FS_Subset
  <1>4. U # {} => Pick(U) \in S /\ SumOf(f, U \ {Pick(U)}) \in Nat
    BY <1>2 DEF Pick
  <1> QED BY <1>2, <1>3, <1>4

\* The order in which a sum takes its elements does not matter.
LEMMA SumWithout ==
  ASSUME NEW f, NEW S, IsFiniteSet(S), \A k \in S : f[k] \in Nat, NEW k \in S
  PROVE  SumOf(f, S) = f[k] + SumOf(f, S \ {k})
  <1> DEFINE B == {U \in SUBSET S : \E j \in U : SumOf(f, U) # f[j] + SumOf(f, U \ {j})}
  <1>1. SUFFICES ASSUME B # {} PROVE FALSE
    OBVIOUS
  <1>2. PICK U \in B : \A V \in B : ~(V \subseteq U /\ V # U)
    <2> B \in SUBSET SUBSET S
      OBVIOUS
    <2> HIDE DEF B
    <2> QED BY <1>1, SmallestSubset
  <1>3. PICK j \in U : SumOf(f, U) # f[j] + SumOf(f, U \ {j})
    BY <1>2
  <1>4. PICK i : i = Pick(U)
    OBVIOUS
  <1>5. i \in U
    BY <1>3, <1>4 DEF Pick
  <1>6. SumOf(f, U) = f[i] + SumOf(f, U \ {i})
    BY <1>4, <1>5, SumIs, FS_Subset
  <1>7. i # j
    BY <1>3, <1>6
  <1>8. ASSUME NEW V, V \subseteq U, V # U, NEW m \in V
        PROVE  SumOf(f, V) = f[m] + SumOf(f, V \ {m})
    BY <1>2, <1>8
  <1>9. SumOf(f, U \ {i}) = f[j] + SumOf(f, (U \ {i}) \ {j})
    BY <1>3, <1>5, <1>7, <1>8
  <1>10. SumOf(f, U \ {j}) = f[i] + SumOf(f, (U \ {j}) \ {i})
    BY <1>3, <1>5, <1>7, <1>8
  <1>11. (U \ {i}) \ {j} = (U \ {j}) \ {i}
    OBVIOUS
  <1>12. PICK a, b, c : a = f[i] /\ b = f[j] /\ c = SumOf(f, (U \ {j}) \ {i})
    OBVIOUS
  <1>13. a \in Nat /\ b \in Nat /\ c \in Nat
    <2>1. i \in S /\ j \in S
      BY <1>3, <1>5
    <2>2. IsFiniteSet((U \ {j}) \ {i})
      BY FS_Subset
    <2>3. \A n \in (U \ {j}) \ {i} : f[n] \in Nat
      OBVIOUS
    <2> QED BY <1>12, <2>1, <2>2, <2>3, SumIsNat
  <1>14. a + (b + c) # b + (a + c)
    BY <1>3, <1>6, <1>9, <1>10, <1>11, <1>12
  <1> QED BY <1>13, <1>14

\* The bytes of two disjoint sets of keys add up.
LEMMA SumOfParts ==
  ASSUME NEW f, NEW S, IsFiniteSet(S), \A k \in S : f[k] \in Nat, NEW D \in SUBSET S
  PROVE  SumOf(f, S) = SumOf(f, D) + SumOf(f, S \ D)
  <1> DEFINE B == {U \in SUBSET D : SumOf(f, U \cup (S \ D)) # SumOf(f, U) + SumOf(f, S \ D)}
  <1>1. SUFFICES ASSUME B # {} PROVE FALSE
    <2> D \notin B => D \cup (S \ D) = S
      OBVIOUS
    <2> QED OBVIOUS
  <1>2. PICK U \in B : \A V \in B : ~(V \subseteq U /\ V # U)
    <2>1. B \in SUBSET SUBSET D
      OBVIOUS
    <2>2. IsFiniteSet(D)
      BY FS_Subset
    <2> HIDE DEF B
    <2> QED BY <1>1, <2>1, <2>2, SmallestSubset
  <1>3. SumOf(f, S \ D) \in Nat /\ IsFiniteSet(U) /\ IsFiniteSet(U \cup (S \ D))
    BY FS_Subset, SumIsNat
  <1>4. U # {}
    <2>1. {} \cup (S \ D) = S \ D
      OBVIOUS
    <2>2. SumOf(f, S \ D) = 0 + SumOf(f, S \ D)
      BY <1>3
    <2> QED BY <1>2, <2>1, <2>2, SumOfNone
  <1>5. PICK k \in U : TRUE
    BY <1>4
  <1>6. SumOf(f, (U \ {k}) \cup (S \ D)) = SumOf(f, U \ {k}) + SumOf(f, S \ D)
    <2>1. U \ {k} \in SUBSET D /\ U \ {k} \notin B
      BY <1>2, <1>5
    <2> QED BY <2>1
  <1>7. SumOf(f, U) = f[k] + SumOf(f, U \ {k})
    BY <1>3, <1>5, SumWithout
  <1>8. SumOf(f, U \cup (S \ D)) = f[k] + SumOf(f, (U \ {k}) \cup (S \ D))
    <2>1. (U \cup (S \ D)) \ {k} = (U \ {k}) \cup (S \ D)
      BY <1>5
    <2> QED BY <1>3, <1>5, <2>1, SumWithout
  <1>9. f[k] \in Nat /\ SumOf(f, U \ {k}) \in Nat
    BY <1>3, <1>5, FS_Subset, SumIsNat
  <1> QED BY <1>2, <1>3, <1>6, <1>7, <1>8, <1>9

\* Maps that agree on the sizes of a set agree on its sum.
LEMMA SumDepends ==
  ASSUME NEW f, NEW g, NEW S, IsFiniteSet(S), \A k \in S : f[k] = g[k]
  PROVE  SumOf(f, S) = SumOf(g, S)
  <1> DEFINE B == {U \in SUBSET S : SumOf(f, U) # SumOf(g, U)}
  <1>1. SUFFICES ASSUME B # {} PROVE FALSE
    OBVIOUS
  <1>2. PICK U \in B : \A V \in B : ~(V \subseteq U /\ V # U)
    <2> B \in SUBSET SUBSET S
      OBVIOUS
    <2> HIDE DEF B
    <2> QED BY <1>1, SmallestSubset
  <1>3. /\ SumOf(f, U) = IF U = {} THEN 0 ELSE f[Pick(U)] + SumOf(f, U \ {Pick(U)})
        /\ SumOf(g, U) = IF U = {} THEN 0 ELSE g[Pick(U)] + SumOf(g, U \ {Pick(U)})
    BY SumIs, FS_Subset
  <1>4. U # {} => Pick(U) \in S /\ SumOf(f, U \ {Pick(U)}) = SumOf(g, U \ {Pick(U)})
    BY <1>2 DEF Pick
  <1> QED BY <1>2, <1>3, <1>4

-----------------------------------------------------------------------------
(***************************************************************************)
(* L1                                                                      *)
(***************************************************************************)

\* A set of numbers within a bound has a largest.
LEMMA Largest ==
  ASSUME NEW N \in Nat, NEW A, A \subseteq 0..N, A # {}
  PROVE  Max(A) \in A /\ \A y \in A : Max(A) >= y
  <1> DEFINE Above(i) == {j \in 0..N : j > i}
             B == {Above(i) : i \in A}
  <1>1. PICK W \in B : \A U \in B : ~(U \subseteq W /\ U # W)
    <2>1. B \in SUBSET SUBSET (0..N) /\ B # {}
      OBVIOUS
    <2>2. PICK S : S = 0..N
      OBVIOUS
    <2>3. PICK C : C = B
      OBVIOUS
    <2>4. IsFiniteSet(S) /\ C \in SUBSET SUBSET S /\ C # {}
      <3>1. 0 \in Int /\ N \in Int
        OBVIOUS
      <3>2. IsFiniteSet(0..N)
        BY <3>1, FS_Interval
      <3> HIDE DEF B
      <3> QED BY <2>1, <2>2, <2>3, <3>2
    <2>5. \E W \in C : \A U \in C : ~(U \subseteq W /\ U # W)
      BY <2>4, SmallestSubset
    <2> HIDE DEF B
    <2> QED BY <2>3, <2>5
  <1>2. PICK m \in A : W = Above(m)
    BY <1>1
  <1>3. ASSUME NEW y \in A, ~(m >= y) PROVE FALSE
    <2>1. y \in 0..N /\ m \in 0..N /\ y > m
      BY <1>3
    <2>2. Above(y) \subseteq Above(m) /\ y \in Above(m) /\ y \notin Above(y)
      BY <2>1
    <2> HIDE DEF Above
    <2> QED BY <1>1, <1>2, <2>2
  <1>4. \E x \in A : \A y \in A : x >= y
    BY <1>3
  <1> QED BY <1>4 DEF Max

\* The bytes of each thumbnail.
Sizes == [e \in Job |-> Pixels[e.key][e.num]]

\* They are numbers.
LEMMA SizesAreNat ==
  ASSUME TwoTierAssumption, NEW e \in Job
  PROVE  Sizes[e] = Pixels[e.key][e.num] /\ Sizes[e] \in Nat
  BY DEF Sizes, Job, TwoTierAssumption

\* The bytes of a finite set of entries are a sum of sizes.
LEMMA BytesAreSum ==
  ASSUME TwoTierAssumption, NEW E \in SUBSET Job, IsFiniteSet(E)
  PROVE  BytesOf(E) = SumOf(Sizes, E)
  <1> DEFINE Size(e) == Pixels[e.key][e.num]
             P(it) == it = [s \in SUBSET E |->
                              IF s = {} THEN 0 ELSE Size(Pick(s)) + it[s \ {Pick(s)}]]
  <1>1. BytesOf(E) = (CHOOSE it : P(it))[E]
    BY DEF BytesOf, MapThenSumSet, MapThenFoldSet, Pick
  <1>2. ASSUME NEW s \in SUBSET E, s # {} PROVE Sizes[Pick(s)] = Size(Pick(s))
    <2>1. Pick(s) \in Job
      BY <1>2 DEF Pick
    <2> QED BY <2>1, SizesAreNat
  <1>3. ASSUME NEW it PROVE P(it) <=> Adds(it, Sizes, E)
    <2> DEFINE a == [s \in SUBSET E |->
                       IF s = {} THEN 0 ELSE Size(Pick(s)) + it[s \ {Pick(s)}]]
               b == [s \in SUBSET E |->
                       IF s = {} THEN 0 ELSE Sizes[Pick(s)] + it[s \ {Pick(s)}]]
    <2>1. \A s \in SUBSET E : a[s] = b[s]
      <3> HIDE DEF Size
      <3> QED BY <1>2
    <2>2. a = b
      <3>1. a = [s \in SUBSET E |-> a[s]] /\ b = [s \in SUBSET E |-> b[s]]
        OBVIOUS
      <3> HIDE DEF a, b
      <3> QED BY <2>1, <3>1
    <2>3. Adds(it, Sizes, E) <=> it = b
      BY DEF Adds
    <2> QED BY <2>2, <2>3
  <1>4. PICK g : Adds(g, Sizes, E)
    BY AddsExists
  <1>5. PICK h : h = (CHOOSE it : P(it)) /\ P(h)
    <2>1. P(g)
      BY <1>3, <1>4
    <2> HIDE DEF P
    <2> QED BY <2>1
  <1>6. Adds(h, Sizes, E)
    <2> HIDE DEF P
    <2> QED BY <1>3, <1>5
  <1>7. PICK i : i = (CHOOSE it : Adds(it, Sizes, E)) /\ Adds(i, Sizes, E)
    BY <1>4
  <1>8. h[E] = i[E]
    BY <1>6, <1>7, AddsOnce
  <1>9. SumOf(Sizes, E) = i[E]
    BY <1>7, SumIsChoice
  <1> HIDE DEF P
  <1> QED BY <1>1, <1>5, <1>8, <1>9

\* The bytes of some entries are a number, and those of two parts add up.
LEMMA BytesAdd ==
  ASSUME TwoTierAssumption, NEW E \in SUBSET Job, IsFiniteSet(E), NEW D \in SUBSET E
  PROVE  /\ BytesOf(D) \in Nat /\ BytesOf(E) \in Nat /\ BytesOf(E \ D) \in Nat
         /\ BytesOf(E) = BytesOf(D) + BytesOf(E \ D)
  <1>1. IsFiniteSet(D) /\ IsFiniteSet(E \ D) /\ D \in SUBSET Job /\ E \ D \in SUBSET Job
    BY FS_Subset
  <1>2. /\ BytesOf(E) = SumOf(Sizes, E) /\ BytesOf(D) = SumOf(Sizes, D)
        /\ BytesOf(E \ D) = SumOf(Sizes, E \ D)
    <2>1. PICK R : R = E \ D
      OBVIOUS
    <2> QED BY <1>1, <2>1, BytesAreSum
  <1>3. \A e \in E : Sizes[e] \in Nat
    BY SizesAreNat
  <1>4. SumOf(Sizes, E) \in Nat /\ SumOf(Sizes, D) \in Nat /\ SumOf(Sizes, E \ D) \in Nat
    BY <1>1, <1>3, SumIsNat
  <1>5. SumOf(Sizes, E) = SumOf(Sizes, D) + SumOf(Sizes, E \ D)
    BY <1>3, SumOfParts
  <1> QED BY <1>2, <1>4, <1>5

\* The bytes of one entry.
LEMMA BytesOfOne ==
  ASSUME TwoTierAssumption, NEW e \in Job
  PROVE  BytesOf({e}) = Pixels[e.key][e.num] /\ Pixels[e.key][e.num] \in Nat
  <1>1. BytesOf({e}) = SumOf(Sizes, {e})
    BY FS_Singleton, BytesAreSum
  <1>2. Sizes[e] = Pixels[e.key][e.num] /\ Sizes[e] \in Nat
    BY SizesAreNat
  <1>3. SumOf(Sizes, {e}) = Sizes[e] + SumOf(Sizes, {e} \ {e})
    BY <1>2, FS_Singleton, SumWithout
  <1>4. SumOf(Sizes, {e} \ {e}) = 0
    <2>1. {e} \ {e} = {}
      OBVIOUS
    <2> QED BY <2>1, SumOfNone
  <1> QED BY <1>1, <1>2, <1>3, <1>4

\* No entries, no bytes.
LEMMA BytesOfNone == ASSUME TwoTierAssumption PROVE BytesOf({}) = 0
  <1>1. BytesOf({}) = SumOf(Sizes, {})
    BY FS_EmptySet, BytesAreSum
  <1> QED BY <1>1, SumOfNone

\* The entries of a list are finitely many.
LEMMA EntriesFinite ==
  ASSUME NEW s \in Seq(Job)
  PROVE  ToSet(s) \in SUBSET Job /\ IsFiniteSet(ToSet(s))
  <1>1. DOMAIN s = 1..Len(s) /\ Len(s) \in Nat /\ \A i \in DOMAIN s : s[i] \in Job
    OBVIOUS
  <1>2. s \in Surjection(1..Len(s), ToSet(s))
    BY <1>1 DEF Surjection, ToSet
  <1>3. IsFiniteSet(1..Len(s))
    BY <1>1, FS_Interval
  <1> QED BY <1>1, <1>2, <1>3, FS_Surjection DEF ToSet

\* Drop takes the entries of some keys out of a list.
LEMMA DropEntries ==
  ASSUME NEW s \in Seq(Job), NEW K
  PROVE  /\ OfKeys(s, K) \in SUBSET ToSet(s)
         /\ ToSet(Drop(s, K)) = ToSet(s) \ OfKeys(s, K)
  <1>1. PICK d : d = Drop(s, K)
    OBVIOUS
  <1>2. \A e \in ToSet(d) : e \in ToSet(s) /\ e.key \notin K
    BY <1>1, DropKeeps DEF ToSet
  <1>3. \A e \in ToSet(s) : e.key \notin K => e \in ToSet(d)
    BY <1>1, DropKeeps DEF ToSet
  <1> QED BY <1>1, <1>2, <1>3 DEF OfKeys

\* An entry in front of a list.
LEMMA ConsEntries ==
  ASSUME NEW s \in Seq(Job), NEW e \in Job
  PROVE  ToSet(<<e>> \o s) = {e} \cup ToSet(s)
  <1> DEFINE t == <<e>> \o s
  <1>1. /\ Len(s) \in Nat /\ DOMAIN s = 1..Len(s) /\ DOMAIN t = 1..(Len(s) + 1)
    OBVIOUS
  <1>2. t[1] = e /\ \A i \in 1..Len(s) : t[i + 1] = s[i]
    OBVIOUS
  <1>3. \A i \in DOMAIN t : i = 1 \/ (i - 1 \in DOMAIN s /\ t[i] = s[i - 1])
    BY <1>1, <1>2
  <1>4. 1 \in DOMAIN t /\ \A i \in DOMAIN s : i + 1 \in DOMAIN t /\ t[i + 1] = s[i]
    BY <1>1, <1>2
  <1> HIDE DEF t
  <1>5. \A x \in ToSet(t) : x \in {e} \cup ToSet(s)
    BY <1>2, <1>3 DEF ToSet
  <1>6. \A x \in {e} \cup ToSet(s) : x \in ToSet(t)
    BY <1>2, <1>4 DEF ToSet
  <1> QED BY <1>5, <1>6 DEF t

Tier1OK ==
  /\ l1 \in Seq(Job) /\ Distinct(l1)
  /\ l1Bytes = BytesOf(ToSet(l1)) /\ l1Bytes \in Nat /\ l1Bytes <= L1Max

\* Evict leaves the front of the list, counted and within the budget.
LEMMA EvictedKeeps ==
  ASSUME TwoTierAssumption, NEW s \in Seq(Job), Distinct(s), NEW b, b = BytesOf(ToSet(s)),
         Evicted(s, b)
  PROVE  Tier1OK'
  <1> DEFINE N == Len(s)
             After(n) == BytesOf({s[i] : i \in (n + 1)..N})
             fits == {n \in 0..N : n = 0 \/ b - After(n) <= L1Max}
  <1>1. N \in Nat /\ DOMAIN s = 1..N /\ ToSet(s) \in SUBSET Job /\ IsFiniteSet(ToSet(s))
    BY EntriesFinite
  <1>2. PICK m : m = Max(fits) /\ l1' = SubSeq(s, 1, m) /\ l1Bytes' = b - After(m)
    BY DEF Evicted
  <1>3. m \in fits
    <2>1. fits \subseteq 0..N /\ 0 \in fits
      BY <1>1
    <2> HIDE DEF fits
    <2> QED BY <1>1, <1>2, <2>1, Largest
  <1>4. m \in 0..N /\ (m = 0 \/ b - After(m) <= L1Max)
    BY <1>3
  <1>5. PICK t : t = SubSeq(s, 1, m)
    OBVIOUS
  <1>6. t \in Seq(Job) /\ DOMAIN t = 1..m /\ \A i \in 1..m : t[i] = s[i]
    <2>1. \A i \in 1..m : s[i] \in Job
      BY <1>1, <1>4
    <2> QED BY <1>1, <1>4, <1>5, <2>1, SubSeqProperties
  <1>7. Distinct(t)
    BY <1>1, <1>4, <1>6 DEF Distinct
  <1> DEFINE R == {s[i] : i \in (m + 1)..N}
  <1>8. R \subseteq ToSet(s) /\ ToSet(t) = ToSet(s) \ R
    <2>1. \A i \in 1..N : i \in 1..m \/ i \in (m + 1)..N
      BY <1>1, <1>4
    <2>2. \A i \in 1..m : i \in 1..N /\ i \notin (m + 1)..N
      BY <1>1, <1>4
    <2>3. \A i \in (m + 1)..N : i \in 1..N
      BY <1>1, <1>4
    <2>4. R \subseteq ToSet(s)
      BY <1>1, <2>3 DEF ToSet
    <2>5. \A e \in ToSet(t) : e \in ToSet(s) \ R
      <3> TAKE e \in ToSet(t)
      <3>1. PICK i \in 1..m : e = s[i]
        BY <1>6 DEF ToSet
      <3>2. \A j \in (m + 1)..N : s[j] # e
        BY <1>1, <2>2, <2>3, <3>1 DEF Distinct
      <3> QED BY <1>1, <2>2, <3>1, <3>2 DEF ToSet
    <2>6. \A e \in ToSet(s) \ R : e \in ToSet(t)
      BY <1>1, <1>6, <2>1 DEF ToSet
    <2> QED BY <2>4, <2>5, <2>6
  <1>9. b = BytesOf(R) + BytesOf(ToSet(t)) /\ BytesOf(R) \in Nat /\ BytesOf(ToSet(t)) \in Nat
    <2> HIDE DEF R
    <2> QED BY <1>1, <1>8, BytesAdd
  <1>10. l1Bytes' = BytesOf(ToSet(t)) /\ l1Bytes' \in Nat
    BY <1>2, <1>9
  <1>11. l1Bytes' <= L1Max
    <2>1. CASE m = 0
      <3>1. ToSet(t) = {}
        BY <1>6, <2>1 DEF ToSet
      <3>2. l1Bytes' = 0
        BY <1>10, <3>1, BytesOfNone
      <3> QED BY <3>2 DEF TwoTierAssumption
    <2>2. CASE m # 0
      BY <1>2, <1>4, <2>2
    <2> QED BY <2>1, <2>2
  <1>12. l1' = t
    BY <1>2, <1>5
  <1>13. ToSet(l1)' = ToSet(t)
    BY <1>12 DEF ToSet
  <1> QED BY <1>6, <1>7, <1>10, <1>11, <1>12, <1>13 DEF Tier1OK, Distinct

\* A new entry in front of the list replaces the one of its key.
LEMMA L1PutKeeps ==
  ASSUME TwoTierAssumption, Tier1OK, NEW k \in Keys, NEW n \in 1..MaxInserts, L1Put(k, n)
  PROVE  Tier1OK'
  <1> DEFINE e == [key |-> k, num |-> n]
             d == Drop(l1, {k})
             s == <<e>> \o d
             out == OfKeys(l1, {k})
             b == l1Bytes - BytesOf(out) + Pixels[k][n]
  <1>1. e \in Job /\ e.key = k /\ e.num = n
    BY DEF Job
  <1>2. /\ d \in Seq(Job) /\ Distinct(d) /\ k \notin KeysOf(d)
        /\ out \in SUBSET ToSet(l1) /\ ToSet(d) = ToSet(l1) \ out
        /\ ToSet(l1) \in SUBSET Job /\ IsFiniteSet(ToSet(l1))
    BY DropKeeps, DropKeys, DropEntries, EntriesFinite DEF Tier1OK
  <1>3. s \in Seq(Job) /\ Distinct(s) /\ ToSet(s) = {e} \cup ToSet(d)
    <2> HIDE DEF d, e
    <2> QED BY <1>1, <1>2, ConsKeeps, ConsEntries
  <1>4. b = BytesOf(ToSet(s))
    <2> HIDE DEF d, s, out, e
    <2>1. /\ BytesOf(ToSet(l1)) = BytesOf(out) + BytesOf(ToSet(d))
          /\ BytesOf(out) \in Nat /\ BytesOf(ToSet(d)) \in Nat
      BY <1>2, BytesAdd
    <2>2. BytesOf(ToSet(s)) = BytesOf({e}) + BytesOf(ToSet(d))
      <3>1. e \notin ToSet(d)
        BY <1>1, <1>2 DEF ToSet, KeysOf
      <3>2. PICK S, D : S = ToSet(s) /\ D = ToSet(d)
        OBVIOUS
      <3>3. S \in SUBSET Job /\ IsFiniteSet(S)
        BY <1>3, <3>2, EntriesFinite
      <3>4. {e} \in SUBSET S /\ S \ {e} = D
        BY <1>3, <3>1, <3>2
      <3>5. BytesOf(S) = BytesOf({e}) + BytesOf(S \ {e})
        BY <3>3, <3>4, BytesAdd
      <3> QED BY <3>2, <3>4, <3>5
    <2>3. BytesOf({e}) = Pixels[k][n] /\ Pixels[k][n] \in Nat
      BY <1>1, BytesOfOne
    <2>4. l1Bytes = BytesOf(ToSet(l1))
      BY DEF Tier1OK
    <2>5. PICK x, y, p : x = BytesOf(out) /\ y = BytesOf(ToSet(d)) /\ p = Pixels[k][n]
      OBVIOUS
    <2>6. x \in Nat /\ y \in Nat /\ p \in Nat /\ l1Bytes = x + y
      BY <2>1, <2>3, <2>4, <2>5
    <2>7. BytesOf(ToSet(s)) = p + y /\ b = l1Bytes - x + p
      BY <2>2, <2>3, <2>5
    <2> QED BY <2>6, <2>7
  <1>5. Evicted(s, b)
    BY DEF L1Put
  <1> HIDE DEF s, b
  <1> QED BY <1>3, <1>4, <1>5, EvictedKeeps

\* Entries leave the list with their bytes.
LEMMA L1DropKeeps ==
  ASSUME TwoTierAssumption, Tier1OK, NEW K, L1Drop(K)
  PROVE  Tier1OK'
  <1> DEFINE d == Drop(l1, K)
             out == OfKeys(l1, K)
  <1>1. /\ d \in Seq(Job) /\ Distinct(d)
        /\ out \in SUBSET ToSet(l1) /\ ToSet(d) = ToSet(l1) \ out
        /\ ToSet(l1) \in SUBSET Job /\ IsFiniteSet(ToSet(l1))
    BY DropKeeps, DropEntries, EntriesFinite DEF Tier1OK
  <1>2. l1' = d /\ l1Bytes' = l1Bytes - BytesOf(out)
    BY DEF L1Drop
  <1> HIDE DEF d, out
  <1>3. /\ BytesOf(ToSet(l1)) = BytesOf(out) + BytesOf(ToSet(d))
        /\ BytesOf(out) \in Nat /\ BytesOf(ToSet(d)) \in Nat
    BY <1>1, BytesAdd
  <1>4. l1Bytes = BytesOf(ToSet(l1)) /\ l1Bytes <= L1Max /\ L1Max \in Nat
    BY DEF Tier1OK, TwoTierAssumption
  <1>5. l1Bytes' = BytesOf(ToSet(d)) /\ l1Bytes' \in Nat /\ l1Bytes' <= L1Max
    <2>1. PICK x, y : x = BytesOf(out) /\ y = BytesOf(ToSet(d))
      OBVIOUS
    <2>2. x \in Nat /\ y \in Nat /\ l1Bytes = x + y /\ l1Bytes' = l1Bytes - x
      BY <1>2, <1>3, <1>4, <2>1
    <2>3. x + y - x = y
      BY <2>2
    <2>4. l1Bytes' = y /\ y <= L1Max
      BY <1>4, <2>2, <2>3
    <2> QED BY <2>1, <2>2, <2>4
  <1>6. ToSet(l1)' = ToSet(d)
    BY <1>2 DEF ToSet
  <1> QED BY <1>1, <1>2, <1>5, <1>6 DEF Tier1OK, Distinct

\* A hit moves its entry to the front.
LEMMA MovedKeeps ==
  ASSUME TwoTierAssumption, Tier1OK, NEW k \in KeysOf(l1),
         l1' = <<EntryOf(l1, k)>> \o Drop(l1, {k}), l1Bytes' = l1Bytes
  PROVE  Tier1OK'
  <1> DEFINE d == Drop(l1, {k})
  <1>1. /\ d \in Seq(Job) /\ Distinct(d) /\ k \notin KeysOf(d)
        /\ ToSet(d) = ToSet(l1) \ OfKeys(l1, {k})
    BY DropKeeps, DropKeys, DropEntries DEF Tier1OK
  <1>2. PICK i \in DOMAIN l1 : EntryOf(l1, k) = l1[i] /\ l1[i].key = k
    BY EntryIsThere
  <1>3. PICK e : e = l1[i] /\ e \in Job /\ e.key = k
    <2>1. \A j \in DOMAIN l1 : l1[j] \in Job
      BY DEF Tier1OK
    <2> QED BY <1>2, <2>1
  <1>4. OfKeys(l1, {k}) = {e}
    BY <1>2, <1>3 DEF OfKeys, ToSet, Tier1OK, Distinct
  <1>5. l1' = <<e>> \o d
    BY <1>2, <1>3
  <1> HIDE DEF d
  <1>6. PICK s : s = <<e>> \o d
    OBVIOUS
  <1>7. s \in Seq(Job) /\ Distinct(s) /\ ToSet(s) = ToSet(l1)
    <2>1. s \in Seq(Job) /\ Distinct(s) /\ ToSet(s) = {e} \cup ToSet(d)
      BY <1>1, <1>3, <1>6, ConsKeeps, ConsEntries
    <2>2. e \in ToSet(l1)
      BY <1>2, <1>3 DEF ToSet
    <2>3. PICK L : L = ToSet(l1)
      OBVIOUS
    <2>4. ToSet(d) = L \ {e}
      BY <1>1, <1>4, <2>3
    <2>5. {e} \cup (L \ {e}) = L
      BY <2>2, <2>3
    <2> QED BY <2>1, <2>3, <2>4, <2>5
  <1>8. l1' = s
    BY <1>5, <1>6
  <1>9. ToSet(l1)' = ToSet(l1)
    BY <1>7, <1>8 DEF ToSet
  <1> QED BY <1>7, <1>8, <1>9 DEF Tier1OK, Distinct

-----------------------------------------------------------------------------
(***************************************************************************)
(* The calls                                                               *)
(***************************************************************************)

\* The types, with what the step that a call has come to says of the call.
Known == {"load", "promote", "push", "begin", "end", "index", "subtract", "unlink", "forget",
          "delete"}
Numbered == {"promote", "push", "begin", "end", "index"}
CallType == [at : Ats, key : Keys \cup {NoKey}, num : Int, todo : Seq(Keys)]

CallOK(r) ==
  /\ r \in CallType
  /\ r.at \in Known => r.key \in Keys
  /\ r.at \in Numbered => r.num \in 1..MaxInserts
  /\ r.at \in {"remove", "erase"} => r.todo # <<>>

CallsTyped == act \in [Actors -> CallType] /\ \A a \in Actors : CallOK(act[a])

Blob == [key : Keys, num : 1..MaxInserts, whole : BOOLEAN]
DiskOK == disk \in Seq(Blob) /\ Distinct(disk)
Names == {ByKey(k) : k \in Keys} \cup {ByName(k) : k \in Keys}
CountsOK ==
  /\ inserts \in [Keys -> 0..MaxInserts]
  /\ dead \in [Keys -> 0..MaxInserts]

TierInv ==
  /\ Tier1OK /\ DiskOK /\ CallsTyped /\ CountsOK
  /\ queue \in Seq(Job) /\ asleep \subseteq Actors /\ stop \in BOOLEAN
  /\ index \subseteq Names /\ used \in Int

\* A call that is replaced by another.
LEMMA SetCall ==
  ASSUME CallsTyped, NEW a \in Actors, NEW r, CallOK(r), act' = [act EXCEPT ![a] = r]
  PROVE  CallsTyped'
  <1>1. r \in CallType
    BY DEF CallOK
  <1>2. act \in [Actors -> CallType]
    BY DEF CallsTyped
  <1>3. act' \in [Actors -> CallType]
    BY <1>1, <1>2
  <1>4. ASSUME NEW b \in Actors PROVE CallOK(act'[b])
    <2>1. act'[b] = IF b = a THEN r ELSE act[b]
      BY <1>2
    <2> QED BY <2>1 DEF CallsTyped
  <1> QED BY <1>3, <1>4 DEF CallsTyped, CallOK, CallType

\* A new call, a call that goes on, and one that returns.
LEMMA BeginTyped ==
  ASSUME CallsTyped, NEW a \in Actors, NEW at \in Ats, NEW k \in Keys \cup {NoKey}, NEW n \in Int,
         at \in Known => k \in Keys, at \in Numbered => n \in 1..MaxInserts,
         at \notin {"remove", "erase"}, Begin(a, at, k, n)
  PROVE  CallsTyped'
  <1> DEFINE r == [at |-> at, key |-> k, num |-> n, todo |-> <<>>]
  <1>1. CallOK(r)
    BY DEF CallOK, CallType
  <1>2. act' = [act EXCEPT ![a] = r]
    BY DEF Begin
  <1> HIDE DEF r
  <1> QED BY <1>1, <1>2, SetCall

\* A call that goes on to another step.
LEMMA GoTyped ==
  ASSUME CallsTyped, NEW a \in Actors, NEW at \in Ats,
         at \in Known => act[a].key \in Keys, at \in Numbered => act[a].num \in 1..MaxInserts,
         at \in {"remove", "erase"} => act[a].todo # <<>>, Go(a, at)
  PROVE  CallsTyped'
  <1> DEFINE r == [act[a] EXCEPT !.at = at]
  <1>1. act[a] \in CallType
    BY DEF CallsTyped
  <1>2. CallOK(r)
    BY <1>1 DEF CallOK, CallType
  <1>3. act' = [act EXCEPT ![a] = r]
    BY DEF Go
  <1> HIDE DEF r
  <1> QED BY <1>2, <1>3, SetCall

\* A call that returns.
LEMMA ReturnTyped ==
  ASSUME CallsTyped, NEW a \in Actors, Return(a)
  PROVE  CallsTyped'
  <1> DEFINE w == [at |-> "check", key |-> NoKey, num |-> 0, todo |-> <<>>]
             r == IF a = Worker THEN w ELSE NoCall
  <1>1. CallOK(r)
    BY DEF CallOK, CallType, NoCall, Known, Numbered, Ats
  <1>2. act' = [act EXCEPT ![a] = r]
    <2>1. [NoCall EXCEPT !.at = "check"] = w
      BY DEF NoCall
    <2> HIDE DEF w
    <2> QED BY <2>1 DEF Return
  <1> HIDE DEF r
  <1> QED BY <1>1, <1>2, SetCall

\* Nobody is in a call.
LEMMA NoCallsTyped ==
  /\ NoCalls \in [Actors -> CallType]
  /\ \A a \in Actors : CallOK(NoCalls[a])
  <1>1. \A a \in Actors : NoCalls[a] = [at |-> IF a = Worker THEN "check" ELSE "idle",
                                        key |-> NoKey, num |-> 0, todo |-> <<>>]
    BY DEF NoCalls, NoCall
  <1>2. ASSUME NEW a \in Actors PROVE CallOK(NoCalls[a])
    <2>1. PICK r : r = NoCalls[a]
      OBVIOUS
    <2>2. \E at \in {"check", "idle"} : r = [at |-> at, key |-> NoKey, num |-> 0, todo |-> <<>>]
      BY <1>1, <2>1
    <2>3. CallOK(r)
      BY <2>2 DEF CallOK, CallType, Known, Numbered, Ats
    <2> QED BY <2>1, <2>3
  <1>3. NoCalls \in [Actors -> CallType]
    <2>1. \A a \in Actors : NoCalls[a] \in CallType
      BY <1>2 DEF CallOK
    <2> QED BY <2>1 DEF NoCalls
  <1> QED BY <1>2, <1>3

-----------------------------------------------------------------------------
(***************************************************************************)
(* The directory                                                           *)
(***************************************************************************)

\* The blobs are of keys.
LEMMA DiskKeys ==
  ASSUME DiskOK
  PROVE  KeysOf(disk) \in SUBSET Keys
  <1>1. \A i \in DOMAIN disk : disk[i] \in Blob
    BY DEF DiskOK
  <1> QED BY <1>1 DEF KeysOf, Blob

\* Blobs are deleted, or written, one by one: no key gets two.
LEMMA DroppedDisk ==
  ASSUME DiskOK, NEW K, disk' = Drop(disk, K)
  PROVE  DiskOK'
  <1>1. PICK d : d = Drop(disk, K) /\ d \in Seq(Blob) /\ Distinct(d)
    BY DropKeeps DEF DiskOK
  <1>2. \A i, j \in DOMAIN d : d[i].key = d[j].key => i = j
    BY <1>1 DEF Distinct
  <1>3. disk' = d
    BY <1>1
  <1> QED BY <1>1, <1>2, <1>3 DEF DiskOK, Distinct, Blob

\* The same of a blob that is written.
LEMMA WrittenDisk ==
  ASSUME DiskOK, act[Worker].key \in Keys, act[Worker].num \in 1..MaxInserts,
         NEW whole \in BOOLEAN, Write(whole)
  PROVE  DiskOK'
  <1> DEFINE k == act[Worker].key
             e == [key |-> k, num |-> act[Worker].num, whole |-> whole]
  <1>1. PICK d : d = Drop(disk, {k})
    OBVIOUS
  <1>2. d \in Seq(Blob) /\ Distinct(d) /\ k \notin KeysOf(d)
    BY <1>1, DropKeeps, DropKeys DEF DiskOK
  <1>3. e \in Blob /\ e.key = k
    BY DEF Blob
  <1>4. disk' = Append(d, e)
    BY <1>1 DEF Write
  <1> HIDE DEF e
  <1>5. PICK s : s = Append(d, e) /\ s \in Seq(Blob) /\ Distinct(s)
    BY <1>2, <1>3, AppendKeeps
  <1>6. \A i, j \in DOMAIN s : s[i].key = s[j].key => i = j
    BY <1>5 DEF Distinct
  <1>7. disk' = s
    BY <1>4, <1>5
  <1> QED BY <1>5, <1>6, <1>7 DEF DiskOK, Distinct, Blob

\* What file_size returns, for a blob that exists and for any other.
LEMMA FileSizeIsInt ==
  ASSUME TwoTierAssumption, DiskOK, NEW k \in Keys
  PROVE  FileSize(k) \in Int /\ (k \in KeysOf(disk) => FileSize(k) \in Nat)
  <1>1. ASSUME k \in KeysOf(disk) PROVE Pixels[k][EntryOf(disk, k).num] \in Nat
    <2>1. \A i \in DOMAIN disk : disk[i] \in Blob
      BY DEF DiskOK
    <2>2. EntryOf(disk, k).num \in 1..MaxInserts
      BY <1>1, <2>1, EntryIsThere DEF Blob
    <2> QED BY <2>2 DEF TwoTierAssumption
  <1> QED BY <1>1 DEF FileSize, TwoTierAssumption

\* What file_size returns for several blobs adds up to a number.
LEMMA FileSizesAdd ==
  ASSUME TwoTierAssumption, DiskOK, NEW K \in SUBSET KeysOf(disk)
  PROVE  MapThenSumSet(FileSize, K) \in Nat
  <1> DEFINE f == [k \in K |-> FileSize(k)]
             P(it) == it = [s \in SUBSET K |->
                              IF s = {} THEN 0 ELSE FileSize(Pick(s)) + it[s \ {Pick(s)}]]
  <1>1. MapThenSumSet(FileSize, K) = (CHOOSE it : P(it))[K]
    BY DEF MapThenSumSet, MapThenFoldSet, Pick
  <1>2. ASSUME NEW s \in SUBSET K, s # {} PROVE f[Pick(s)] = FileSize(Pick(s))
    BY <1>2 DEF Pick
  <1>3. ASSUME NEW it PROVE P(it) <=> Adds(it, f, K)
    <2> DEFINE a == [s \in SUBSET K |->
                       IF s = {} THEN 0 ELSE FileSize(Pick(s)) + it[s \ {Pick(s)}]]
               b == [s \in SUBSET K |->
                       IF s = {} THEN 0 ELSE f[Pick(s)] + it[s \ {Pick(s)}]]
    <2>1. \A s \in SUBSET K : a[s] = b[s]
      <3> HIDE DEF f
      <3> QED BY <1>2
    <2>2. a = b
      <3>1. a = [s \in SUBSET K |-> a[s]] /\ b = [s \in SUBSET K |-> b[s]]
        OBVIOUS
      <3> HIDE DEF a, b
      <3> QED BY <2>1, <3>1
    <2>3. Adds(it, f, K) <=> it = b
      BY DEF Adds
    <2> QED BY <2>2, <2>3
  <1>4. IsFiniteSet(K) /\ \A k \in K : f[k] \in Nat
    <2>1. KeysOf(disk) \in SUBSET Keys
      BY DiskKeys
    <2>2. IsFiniteSet(K)
      BY <2>1, FS_Subset DEF TwoTierAssumption
    <2>3. \A k \in K : FileSize(k) \in Nat
      BY <2>1, FileSizeIsInt
    <2> QED BY <2>2, <2>3
  <1> HIDE DEF f
  <1>5. PICK g : Adds(g, f, K)
    BY <1>4, AddsExists
  <1>6. PICK h : h = (CHOOSE it : P(it)) /\ P(h)
    <2>1. P(g)
      BY <1>3, <1>5
    <2> HIDE DEF P
    <2> QED BY <2>1
  <1>7. Adds(h, f, K)
    <2> HIDE DEF P
    <2> QED BY <1>3, <1>6
  <1>8. PICK i : i = (CHOOSE it : Adds(it, f, K)) /\ Adds(i, f, K)
    BY <1>5
  <1>9. h[K] = i[K]
    BY <1>4, <1>7, <1>8, AddsOnce
  <1>10. SumOf(f, K) = i[K]
    BY <1>8, SumIsChoice
  <1>11. SumOf(f, K) \in Nat
    BY <1>4, SumIsNat
  <1> HIDE DEF P
  <1> QED BY <1>1, <1>6, <1>9, <1>10, <1>11

\* No key has had more Inserts than all of them together.
LEMMA InsertsAdd ==
  ASSUME TwoTierAssumption, CountsOK, NEW k \in Keys
  PROVE  /\ MapThenSumSet(LAMBDA j : inserts[j], Keys) \in Nat
         /\ inserts[k] <= MapThenSumSet(LAMBDA j : inserts[j], Keys)
  <1>1. MapThenSumSet(LAMBDA j : inserts[j], Keys) = SumOf(inserts, Keys)
    BY DEF SumOf
  <1>2. IsFiniteSet(Keys) /\ \A j \in Keys : inserts[j] \in Nat
    BY DEF TwoTierAssumption, CountsOK
  <1>3. SumOf(inserts, Keys) = inserts[k] + SumOf(inserts, Keys \ {k})
    BY <1>2, SumWithout
  <1>4. SumOf(inserts, Keys \ {k}) \in Nat
    BY <1>2, FS_Subset, SumIsNat
  <1>5. inserts[k] \in Nat
    BY <1>2
  <1> QED BY <1>1, <1>3, <1>4, <1>5

\* A set of keys as a sequence.
LEMMA KeysAsSeq ==
  ASSUME TwoTierAssumption, NEW K \in SUBSET Keys
  PROVE  SetToSeq(K) \in Seq(Keys)
  <1>1. IsFiniteSet(K)
    BY FS_Subset DEF TwoTierAssumption
  <1>2. Cardinality(K) \in Nat /\ ExistsBijection(1..Cardinality(K), K)
    BY <1>1, FS_CardinalityType
  <1>3. \E f \in [1..Cardinality(K) -> K] : IsInjective(f)
    BY <1>2 DEF ExistsBijection, Bijection, Injection
  <1>4. SetToSeq(K) \in [1..Cardinality(K) -> K]
    BY <1>3 DEF SetToSeq
  <1> QED BY <1>2, <1>4

-----------------------------------------------------------------------------
(***************************************************************************)
(* The steps and the types                                                 *)
(***************************************************************************)

\* A part that a step leaves alone keeps its invariant.
LEMMA SameTier1 ==
  ASSUME Tier1OK, l1' = l1, l1Bytes' = l1Bytes
  PROVE  Tier1OK'
  <1>1. ToSet(l1)' = ToSet(l1)
    BY DEF ToSet
  <1> QED BY <1>1 DEF Tier1OK, Distinct

\* The same of the directory.
LEMMA SameDisk ==
  ASSUME DiskOK, disk' = disk
  PROVE  DiskOK'
  BY DEF DiskOK, Distinct, Blob

\* The conjuncts that most steps leave alone together.
Rest == CountsOK /\ queue \in Seq(Job) /\ asleep \subseteq Actors /\ stop \in BOOLEAN
        /\ index \subseteq Names /\ used \in Int

\* The same of the other variables.
LEMMA SameRest ==
  ASSUME Rest, queue' = queue, asleep' = asleep, stop' = stop, index' = index, used' = used,
         inserts' = inserts, dead' = dead
  PROVE  Rest'
  BY DEF Rest, CountsOK, Names, Job, Actors, ByKey, ByName

\* The invariant and its parts, before and after a step.
LEMMA InvParts == TierInv <=> Tier1OK /\ DiskOK /\ CallsTyped /\ Rest
  BY DEF TierInv, Rest

\* After the step.
LEMMA InvPartsNext == TierInv' <=> Tier1OK' /\ DiskOK' /\ CallsTyped' /\ Rest'
  BY InvParts, PTL

\* The empty sequence.
LEMMA EmptyIsSeq == \A S : <<>> \in Seq(S)
  BY EmptySeq

\* A call whose step and list change, and one whose step and number change.
LEMMA StepAndTodo ==
  ASSUME NEW r, NEW at, NEW t,
         r = [at |-> r.at, key |-> r.key, num |-> r.num, todo |-> r.todo]
  PROVE  [r EXCEPT !.at = at, !.todo = t] = [at |-> at, key |-> r.key, num |-> r.num, todo |-> t]
  <1>1. PICK s : s = [r EXCEPT !.at = at]
    OBVIOUS
  <1>2. s = [at |-> at, key |-> r.key, num |-> r.num, todo |-> r.todo]
    BY <1>1
  <1>3. [s EXCEPT !.todo = t] = [at |-> at, key |-> r.key, num |-> r.num, todo |-> t]
    BY <1>2
  <1> QED BY <1>1, <1>3

\* A call is its four fields.
LEMMA CallFields ==
  ASSUME NEW r \in CallType
  PROVE  r = [at |-> r.at, key |-> r.key, num |-> r.num, todo |-> r.todo]
  BY DEF CallType

\* What the step that a thread has come to says of its call.
LEMMA CallIs ==
  ASSUME CallsTyped, NEW a \in Actors
  PROVE  /\ act[a] \in CallType /\ act[a].at \in Ats /\ act[a].todo \in Seq(Keys)
         /\ act[a].key \in Keys \cup {NoKey} /\ act[a].num \in Int
         /\ act[a].at \in Known => act[a].key \in Keys
         /\ act[a].at \in Numbered => act[a].num \in 1..MaxInserts
         /\ act[a].at \in {"remove", "erase"} => act[a].todo # <<>>
  BY DEF CallsTyped, CallOK, CallType

\* The calls of the clients.
LEMMA CallKeepsTypes ==
  ASSUME TwoTierAssumption, TierInv, NEW c \in Clients, Call(c)
  PROVE  TierInv'
  <1>0. Tier1OK /\ DiskOK /\ CallsTyped /\ Rest /\ c \in Actors
    BY InvParts DEF Actors
  <1>1. ASSUME NEW k \in Keys, LookupHit(c, k) PROVE TierInv'
    <2>1. Tier1OK'
      BY <1>0, <1>1, MovedKeeps DEF LookupHit
    <2>2. DiskOK' /\ Rest'
      BY <1>0, <1>1, SameDisk, SameRest DEF LookupHit, tier2, history
    <2>3. CallsTyped'
      BY <1>0, <1>1 DEF LookupHit, CallsTyped, CallOK, CallType
    <2> QED BY <2>1, <2>2, <2>3, InvPartsNext
  <1>2. ASSUME NEW k \in Keys, LookupMiss(c, k) PROVE TierInv'
    <2>1. Tier1OK' /\ DiskOK' /\ Rest'
      BY <1>0, <1>2, SameTier1, SameDisk, SameRest DEF LookupMiss, tier1, tier2, history
    <2>2. CallsTyped'
      <3>1. Begin(c, "load", k, 0)
        BY <1>2 DEF LookupMiss
      <3> QED BY <1>0, <3>1, BeginTyped DEF Ats, Numbered
    <2> QED BY <2>1, <2>2, InvPartsNext
  <1>3. ASSUME NEW k \in Keys, Insert(c, k) PROVE TierInv'
    <2>1. PICK n : n = inserts[k] + 1 /\ n \in 1..MaxInserts
      <3>1. PICK t : t = MapThenSumSet(LAMBDA j : inserts[j], Keys)
        OBVIOUS
      <3>2. inserts[k] <= t /\ t \in Nat /\ t < MaxInserts
        <4>1. t < MaxInserts
          BY <1>3, <3>1 DEF Insert
        <4> QED BY <1>0, <3>1, <4>1, InsertsAdd DEF Rest
      <3>3. inserts[k] \in 0..MaxInserts /\ MaxInserts \in Nat
        BY <1>0 DEF Rest, CountsOK, TwoTierAssumption
      <3>4. inserts[k] # MaxInserts
        BY <3>2, <3>3
      <3>5. PICK i : i = inserts[k]
        OBVIOUS
      <3>6. i + 1 \in 1..MaxInserts
        BY <3>3, <3>4, <3>5
      <3> QED BY <3>5, <3>6
    <2>2. /\ inserts' = [inserts EXCEPT ![k] = n] /\ L1Put(k, n) /\ Begin(c, "push", k, n)
          /\ UNCHANGED <<queue, asleep, stop, tier2, dead>>
      BY <1>3, <2>1 DEF Insert
    <2>3. Tier1OK'
      BY <1>0, <2>1, <2>2, L1PutKeeps
    <2>4. DiskOK'
      BY <1>0, <2>2, SameDisk DEF tier2
    <2>5. CallsTyped'
      BY <1>0, <2>1, <2>2, BeginTyped DEF Ats
    <2>6. Rest'
      <3>1. inserts' \in [Keys -> 0..MaxInserts]
        <4>1. n \in 0..MaxInserts
          BY <2>1
        <4> QED BY <1>0, <2>2, <4>1 DEF Rest, CountsOK
      <3> QED BY <1>0, <2>2, <3>1 DEF Rest, CountsOK, tier2, Names, Job, Actors, ByKey, ByName
    <2> QED BY <2>3, <2>4, <2>5, <2>6, InvPartsNext
  <1>4. ASSUME NEW k \in Keys, Invalidate(c, k) PROVE TierInv'
    <2>1. Tier1OK' /\ DiskOK'
      BY <1>0, <1>4, L1DropKeeps, SameDisk DEF Invalidate, tier2
    <2>2. CallsTyped'
      <3>1. Begin(c, "subtract", k, 0)
        BY <1>4 DEF Invalidate
      <3> QED BY <1>0, <3>1, BeginTyped DEF Ats, Numbered
    <2>3. Rest'
      <3>1. /\ dead' = [dead EXCEPT ![k] = inserts[k]]
            /\ UNCHANGED <<queue, asleep, stop, tier2, inserts>>
        BY <1>4 DEF Invalidate
      <3> QED BY <1>0, <3>1 DEF Rest, CountsOK, tier2, Names, Job, Actors, ByKey, ByName
    <2> QED BY <2>1, <2>2, <2>3, InvPartsNext
  <1>5. ASSUME NEW K \in Folders, InvalidatePrefix(c, K) PROVE TierInv'
    <2>1. Tier1OK' /\ DiskOK'
      BY <1>0, <1>5, L1DropKeeps, SameDisk DEF InvalidatePrefix, tier2
    <2>2. CallsTyped'
      <3>1. PICK t : t = SetToSeq(K) /\ t \in Seq(Keys)
        BY KeysAsSeq DEF TwoTierAssumption
      <3> DEFINE r == [at |-> "prefix", key |-> NoKey, num |-> 0, todo |-> t]
      <3>2. [NoCall EXCEPT !.at = "prefix", !.todo = t] = r
        <4>1. NoCall = [at |-> NoCall.at, key |-> NoCall.key, num |-> NoCall.num,
                        todo |-> NoCall.todo]
              /\ NoCall.key = NoKey /\ NoCall.num = 0
          BY DEF NoCall
        <4> QED BY <4>1, StepAndTodo
      <3>3. act' = [act EXCEPT ![c] = r]
        <4>1. act' = [act EXCEPT ![c] = [NoCall EXCEPT !.at = "prefix", !.todo = t]]
          BY <1>5, <3>1 DEF InvalidatePrefix
        <4> HIDE DEF r
        <4> QED BY <3>2, <4>1
      <3>4. CallOK(r)
        BY <3>1 DEF CallOK, CallType, Ats, Known, Numbered
      <3> HIDE DEF r
      <3> QED BY <1>0, <3>3, <3>4, SetCall
    <2>3. Rest'
      <3>1. /\ dead' = [k \in Keys |-> IF k \in K THEN inserts[k] ELSE dead[k]]
            /\ UNCHANGED <<queue, asleep, stop, tier2, inserts>>
        BY <1>5 DEF InvalidatePrefix
      <3> QED BY <1>0, <3>1 DEF Rest, CountsOK, tier2, Names, Job, Actors, ByKey, ByName
    <2> QED BY <2>1, <2>2, <2>3, InvPartsNext
  <1>6. ASSUME TrimCall(c) PROVE TierInv'
    <2>1. Tier1OK'
      <3>1. Evicted(l1, l1Bytes)
        BY <1>6 DEF TrimCall
      <3> QED BY <1>0, <3>1, EvictedKeeps DEF Tier1OK
    <2>2. DiskOK' /\ Rest'
      BY <1>0, <1>6, SameDisk, SameRest DEF TrimCall, tier2, history
    <2>3. CallsTyped'
      <3>1. Begin(c, "trim", NoKey, 0)
        BY <1>6 DEF TrimCall
      <3> QED BY <1>0, <3>1, BeginTyped DEF Ats, Known, Numbered
    <2> QED BY <2>1, <2>2, <2>3, InvPartsNext
  <1>7. ASSUME FlushCall(c) PROVE TierInv'
    <2>1. Tier1OK' /\ DiskOK' /\ Rest'
      BY <1>0, <1>7, SameTier1, SameDisk, SameRest DEF FlushCall, tier1, tier2, history
    <2>2. CallsTyped'
      <3>1. Begin(c, "flush", NoKey, 0)
        BY <1>7 DEF FlushCall
      <3> QED BY <1>0, <3>1, BeginTyped DEF Ats, Known, Numbered
    <2> QED BY <2>1, <2>2, InvPartsNext
  <1> QED BY <1>1, <1>2, <1>3, <1>4, <1>5, <1>6, <1>7 DEF Call

\* The steps of TrimTobudget, by a client or by the worker.
LEMMA TrimKeepsTypes ==
  ASSUME TwoTierAssumption, TierInv, NEW a \in Actors, TrimStep(a)
  PROVE  TierInv'
  <1>0. Tier1OK /\ DiskOK /\ CallsTyped /\ Rest
    BY InvParts
  <1>1. ASSUME TrimList(a) PROVE TierInv'
    <2>1. Tier1OK' /\ DiskOK' /\ Rest'
      BY <1>0, <1>1, SameTier1, SameDisk, SameRest DEF TrimList, tier1, tier2, history
    <2>2. CASE Return(a)
      BY <1>0, <2>1, <2>2, ReturnTyped, InvPartsNext
    <2>3. CASE ~Return(a)
      <3>1. PICK t : /\ t = [i \in DOMAIN disk |-> disk[i].key]
                     /\ act' = [act EXCEPT ![a].at = "size", ![a].todo = t]
        BY <1>1, <2>3 DEF TrimList
      <3>2. t \in Seq(Keys)
        <4>0. \A i \in DOMAIN disk : disk[i] \in Blob
          BY <1>0 DEF DiskOK
        <4>1. \A i \in DOMAIN disk : disk[i].key \in Keys
          BY <4>0 DEF Blob
        <4>2. DOMAIN disk = 1..Len(disk) /\ Len(disk) \in Nat
          BY <1>0 DEF DiskOK
        <4> QED BY <3>1, <4>1, <4>2
      <3> DEFINE r == [at |-> "size", key |-> act[a].key, num |-> act[a].num, todo |-> t]
      <3>3. act[a] \in CallType /\ act \in [Actors -> CallType]
        BY <1>0 DEF CallsTyped
      <3>4. act' = [act EXCEPT ![a] = r]
        <4>1. PICK q, f : /\ q = [act[a] EXCEPT !.at = "size"]
                          /\ f = [act EXCEPT ![a] = q]
          OBVIOUS
        <4>2. q = [at |-> "size", key |-> act[a].key, num |-> act[a].num, todo |-> act[a].todo]
          BY <3>3, <4>1, CallFields
        <4>3. [q EXCEPT !.todo = t] = r
          BY <4>2
        <4>4. f = [act EXCEPT ![a].at = "size"]
          BY <4>1
        <4>5. act' = [f EXCEPT ![a].todo = t]
          BY <3>1, <4>4
        <4>6. f[a] = q /\ act' = [f EXCEPT ![a] = [q EXCEPT !.todo = t]]
          BY <3>3, <4>1, <4>5
        <4> HIDE DEF r
        <4> QED BY <3>3, <4>1, <4>3, <4>6
      <3>5. CallOK(r)
        BY <3>2, <3>3 DEF CallOK, CallType, Ats, Known, Numbered
      <3> HIDE DEF r
      <3> QED BY <1>0, <2>1, <3>4, <3>5, SetCall, InvPartsNext
    <2> QED BY <2>2, <2>3
  <1>2. ASSUME TrimSize(a) PROVE TierInv'
    <2>1. Tier1OK' /\ DiskOK' /\ Rest'
      BY <1>0, <1>2, SameTier1, SameDisk, SameRest DEF TrimSize, tier1, tier2, history
    <2>2. CASE Return(a)
      BY <1>0, <2>1, <2>2, ReturnTyped, InvPartsNext
    <2>3. CASE ~Return(a)
      <3>1. PICK n : /\ n = FileSize(Head(act[a].todo)) /\ act[a].todo # <<>>
                     /\ act' = [act EXCEPT ![a].at = "remove", ![a].num = n]
        BY <1>2, <2>3 DEF TrimSize
      <3>2. n \in Int
        <4>1. Head(act[a].todo) \in Keys
          BY <1>0, <3>1, CallIs
        <4> QED BY <1>0, <3>1, <4>1, FileSizeIsInt
      <3> DEFINE r == [at |-> "remove", key |-> act[a].key, num |-> n, todo |-> act[a].todo]
      <3>3. act[a] \in CallType /\ act \in [Actors -> CallType]
        BY <1>0 DEF CallsTyped
      <3>4. act' = [act EXCEPT ![a] = r]
        <4>1. PICK q, f : /\ q = [act[a] EXCEPT !.at = "remove"]
                          /\ f = [act EXCEPT ![a] = q]
          OBVIOUS
        <4>2. q = [at |-> "remove", key |-> act[a].key, num |-> act[a].num, todo |-> act[a].todo]
          BY <3>3, <4>1, CallFields
        <4>3. [q EXCEPT !.num = n] = r
          BY <4>2
        <4>4. f = [act EXCEPT ![a].at = "remove"]
          BY <4>1
        <4>5. act' = [f EXCEPT ![a].num = n]
          BY <3>1, <4>4
        <4>6. f[a] = q /\ act' = [f EXCEPT ![a] = [q EXCEPT !.num = n]]
          BY <3>3, <4>1, <4>5
        <4> HIDE DEF r
        <4> QED BY <3>3, <4>1, <4>3, <4>6
      <3>5. CallOK(r)
        BY <3>1, <3>2, <3>3 DEF CallOK, CallType, Ats, Known, Numbered
      <3> HIDE DEF r
      <3> QED BY <1>0, <2>1, <3>4, <3>5, SetCall, InvPartsNext
    <2> QED BY <2>2, <2>3
  <1>3. ASSUME TrimRemove(a) PROVE TierInv'
    <2>1. Tier1OK'
      BY <1>0, <1>3, SameTier1 DEF TrimRemove, tier1
    <2>2. act[a].at = "remove" /\ act[a].todo # <<>> /\ act[a].num \in Int
      BY <1>0, <1>3, CallIs DEF TrimRemove
    <2>3. CallsTyped'
      <3>1. Go(a, "erase")
        BY <1>3 DEF TrimRemove
      <3> QED BY <1>0, <2>2, <3>1, GoTyped DEF Ats, Known, Numbered
    <2>4. DiskOK'
      <3>1. disk' = disk \/ disk' = Drop(disk, {Head(act[a].todo)})
        BY <1>3 DEF TrimRemove
      <3> QED BY <1>0, <3>1, SameDisk, DroppedDisk
    <2>5. Rest'
      <3>1. used' = used \/ used' = used - act[a].num
        BY <1>3 DEF TrimRemove
      <3>2. used' \in Int
        BY <1>0, <2>2, <3>1 DEF Rest
      <3> QED BY <1>0, <1>3, <3>2
         DEF TrimRemove, Rest, CountsOK, history, Names, Job, Actors, ByKey, ByName
    <2> QED BY <2>1, <2>3, <2>4, <2>5, InvPartsNext
  <1>4. ASSUME TrimErase(a) PROVE TierInv'
    <2>1. Tier1OK' /\ DiskOK'
      BY <1>0, <1>4, SameTier1, SameDisk DEF TrimErase, tier1
    <2>2. act[a].at = "erase" /\ act[a].todo # <<>> /\ act[a].todo \in Seq(Keys)
      BY <1>0, <1>4, CallIs DEF TrimErase
    <2>3. CallsTyped'
      <3>1. PICK t : t = Tail(act[a].todo) /\ t \in Seq(Keys)
        <4>1. PICK s \in Seq(Keys) : s = act[a].todo /\ s # <<>>
          BY <2>2
        <4>2. Tail(s) \in Seq(Keys)
          BY <4>1
        <4> QED BY <4>1, <4>2
      <3> DEFINE r == [at |-> "size", key |-> act[a].key, num |-> act[a].num, todo |-> t]
      <3>2. act[a] \in CallType /\ act \in [Actors -> CallType]
        BY <1>0 DEF CallsTyped
      <3>3. act' = [act EXCEPT ![a] = r]
        <4>1. PICK q, f : /\ q = [act[a] EXCEPT !.at = "size"]
                          /\ f = [act EXCEPT ![a] = q]
          OBVIOUS
        <4>2. q = [at |-> "size", key |-> act[a].key, num |-> act[a].num, todo |-> act[a].todo]
          BY <3>2, <4>1, CallFields
        <4>3. [q EXCEPT !.todo = t] = r
          BY <4>2
        <4>4. f = [act EXCEPT ![a].at = "size"]
          BY <4>1
        <4>5. act' = [f EXCEPT ![a].todo = t]
          BY <1>4, <3>1, <4>4 DEF TrimErase
        <4>6. f[a] = q /\ act' = [f EXCEPT ![a] = [q EXCEPT !.todo = t]]
          BY <3>2, <4>1, <4>5
        <4> HIDE DEF r
        <4> QED BY <3>2, <4>1, <4>3, <4>6
      <3>4. CallOK(r)
        BY <3>1, <3>2 DEF CallOK, CallType, Ats, Known, Numbered
      <3> HIDE DEF r
      <3> QED BY <1>0, <3>3, <3>4, SetCall
    <2>4. Rest'
      BY <1>0, <1>4 DEF TrimErase, Rest, CountsOK, history, Names, Job, Actors, ByKey, ByName
    <2> QED BY <2>1, <2>3, <2>4, InvPartsNext
  <1> QED BY <1>1, <1>2, <1>3, <1>4 DEF TrimStep

\* The other steps of a client's call.
LEMMA StepKeepsTypes ==
  ASSUME TwoTierAssumption, TierInv, NEW c \in Clients, CallStep(c)
  PROVE  TierInv'
  <1>0. Tier1OK /\ DiskOK /\ CallsTyped /\ Rest /\ c \in Actors
    BY InvParts DEF Actors
  <1>1. ASSUME Load(c) PROVE TierInv'
    <2>1. Tier1OK' /\ DiskOK' /\ Rest'
      BY <1>0, <1>1, SameTier1, SameDisk, SameRest DEF Load, tier1, tier2, history
    <2>2. act[c].key \in Keys
      BY <1>0, <1>1, CallIs DEF Load, Known
    <2>3. CASE Return(c)
      BY <1>0, <2>1, <2>3, ReturnTyped, InvPartsNext
    <2>4. CASE ~Return(c)
      <3>1. PICK k, n : /\ k = act[c].key /\ k \in KeysOf(disk) /\ n = EntryOf(disk, k).num
                        /\ Begin(c, "promote", k, n)
        BY <1>1, <2>4 DEF Load
      <3>2. n \in 1..MaxInserts
        <4>0. \A i \in DOMAIN disk : disk[i] \in Blob
          BY <1>0 DEF DiskOK
        <4>1. \A i \in DOMAIN disk : disk[i].num \in 1..MaxInserts
          BY <4>0 DEF Blob
        <4> QED BY <3>1, <4>1, EntryIsThere
      <3>3. CallsTyped'
        BY <1>0, <2>2, <3>1, <3>2, BeginTyped DEF Ats
      <3> QED BY <2>1, <3>3, InvPartsNext
    <2> QED BY <2>3, <2>4
  <1>2. ASSUME Promote(c) PROVE TierInv'
    <2>1. act[c].key \in Keys /\ act[c].num \in 1..MaxInserts
      BY <1>0, <1>2, CallIs DEF Promote, Known, Numbered
    <2>2. Tier1OK'
      BY <1>0, <1>2, <2>1, L1PutKeeps DEF Promote
    <2>3. DiskOK' /\ Rest'
      BY <1>0, <1>2, SameDisk, SameRest DEF Promote, tier2, history
    <2>4. CallsTyped'
      BY <1>0, <1>2, ReturnTyped DEF Promote
    <2> QED BY <2>2, <2>3, <2>4, InvPartsNext
  <1>3. ASSUME Push(c) PROVE TierInv'
    <2>1. act[c].key \in Keys /\ act[c].num \in 1..MaxInserts
      BY <1>0, <1>3, CallIs DEF Push, Known, Numbered
    <2>2. Tier1OK' /\ DiskOK'
      BY <1>0, <1>3, SameTier1, SameDisk DEF Push, tier1, tier2
    <2>3. CallsTyped'
      BY <1>0, <1>3, <2>1, GoTyped DEF Push, Ats, Known, Numbered
    <2>4. Rest'
      <3>1. PICK e : /\ e = [key |-> act[c].key, num |-> act[c].num]
                     /\ queue' = Append(queue, e)
        BY <1>3 DEF Push
      <3>2. e \in Job
        BY <2>1, <3>1 DEF Job
      <3>3. queue' \in Seq(Job)
        BY <1>0, <3>1, <3>2 DEF Rest
      <3> QED BY <1>0, <1>3, <3>3
         DEF Push, Rest, CountsOK, history, tier2, Names, Job, Actors, ByKey, ByName
    <2> QED BY <2>2, <2>3, <2>4, InvPartsNext
  <1>4. ASSUME Notify(c) PROVE TierInv'
    <2>1. Tier1OK' /\ DiskOK' /\ CallsTyped'
      BY <1>0, <1>4, SameTier1, SameDisk, ReturnTyped DEF Notify, tier1, tier2
    <2>2. asleep' \subseteq Actors
      BY <1>0, <1>4 DEF Notify, NotifyOne, Rest
    <2>3. Rest'
      BY <1>0, <1>4, <2>2
         DEF Notify, Rest, CountsOK, history, tier2, Names, Job, Actors, ByKey, ByName
    <2> QED BY <2>1, <2>3, InvPartsNext
  <1>5. ASSUME InvalidateBytes(c) PROVE TierInv'
    <2>1. act[c].key \in Keys
      BY <1>0, <1>5, CallIs DEF InvalidateBytes, Known
    <2>2. Tier1OK' /\ DiskOK'
      BY <1>0, <1>5, SameTier1, SameDisk DEF InvalidateBytes, tier1
    <2>3. CallsTyped'
      BY <1>0, <1>5, <2>1, GoTyped DEF InvalidateBytes, Ats, Known, Numbered
    <2>4. Rest'
      <3>1. PICK t : /\ t = MapThenSumSet(FileSize, {act[c].key} \cap KeysOf(disk))
                     /\ used' = used - t
        BY <1>5 DEF InvalidateBytes
      <3>2. t \in Nat
        BY <1>0, <3>1, FileSizesAdd
      <3>3. used' \in Int
        BY <1>0, <3>1, <3>2 DEF Rest
      <3> QED BY <1>0, <1>5, <3>3
         DEF InvalidateBytes, Rest, CountsOK, history, Names, Job, Actors, ByKey, ByName
    <2> QED BY <2>2, <2>3, <2>4, InvPartsNext
  <1>6. ASSUME InvalidateBlob(c) PROVE TierInv'
    <2>1. act[c].key \in Keys
      BY <1>0, <1>6, CallIs DEF InvalidateBlob, Known
    <2>2. Tier1OK' /\ Rest'
      BY <1>0, <1>6, SameTier1, SameRest DEF InvalidateBlob, tier1, history
    <2>3. CallsTyped'
      BY <1>0, <1>6, <2>1, GoTyped DEF InvalidateBlob, Ats, Known, Numbered
    <2>4. DiskOK'
      <3>1. disk' = disk \/ disk' = Drop(disk, {act[c].key})
        BY <1>6 DEF InvalidateBlob
      <3> QED BY <1>0, <3>1, SameDisk, DroppedDisk
    <2> QED BY <2>2, <2>3, <2>4, InvPartsNext
  <1>7. ASSUME InvalidateIndex(c) PROVE TierInv'
    <2>1. Tier1OK' /\ DiskOK' /\ CallsTyped'
      BY <1>0, <1>7, SameTier1, SameDisk, ReturnTyped DEF InvalidateIndex, tier1
    <2>2. Rest'
      BY <1>0, <1>7
         DEF InvalidateIndex, Rest, CountsOK, history, Names, Job, Actors, ByKey, ByName
    <2> QED BY <2>1, <2>2, InvPartsNext
  <1>8. ASSUME SweepBytes(c) PROVE TierInv'
    <2>1. PICK k \in KnownTo(c) :
            /\ used' = used - MapThenSumSet(FileSize, {k} \cap KeysOf(disk))
            /\ act' = [act EXCEPT ![c].at = "delete", ![c].key = k]
      BY <1>8 DEF SweepBytes
    <2>2. k \in Keys
      <3>1. act[c].todo \in Seq(Keys)
        BY <1>0, CallIs
      <3>2. \A i \in DOMAIN act[c].todo : act[c].todo[i] \in Keys
        BY <3>1
      <3> QED BY <2>1, <3>2 DEF KnownTo, ToSet
    <2>3. Tier1OK' /\ DiskOK'
      BY <1>0, <1>8, SameTier1, SameDisk DEF SweepBytes, tier1
    <2>4. CallsTyped'
      <3> DEFINE r == [at |-> "delete", key |-> k, num |-> act[c].num, todo |-> act[c].todo]
      <3>1. act[c] \in CallType /\ act \in [Actors -> CallType]
        BY <1>0 DEF CallsTyped
      <3>2. act' = [act EXCEPT ![c] = r]
        <4>1. PICK q, f : /\ q = [act[c] EXCEPT !.at = "delete"]
                          /\ f = [act EXCEPT ![c] = q]
          OBVIOUS
        <4>2. q = [at |-> "delete", key |-> act[c].key, num |-> act[c].num, todo |-> act[c].todo]
          BY <3>1, <4>1, CallFields
        <4>3. [q EXCEPT !.key = k] = r
          BY <4>2
        <4>4. f = [act EXCEPT ![c].at = "delete"]
          BY <4>1
        <4>5. act' = [f EXCEPT ![c].key = k]
          BY <2>1, <4>4
        <4>6. f[c] = q /\ act' = [f EXCEPT ![c] = [q EXCEPT !.key = k]]
          BY <1>0, <3>1, <4>1, <4>5
        <4> HIDE DEF r
        <4> QED BY <1>0, <3>1, <4>1, <4>3, <4>6
      <3>3. CallOK(r)
        BY <2>2, <3>1 DEF CallOK, CallType, Ats, Known, Numbered
      <3> HIDE DEF r
      <3> QED BY <1>0, <3>2, <3>3, SetCall
    <2>5. Rest'
      <3>1. PICK t : t = MapThenSumSet(FileSize, {k} \cap KeysOf(disk)) /\ t \in Nat
        BY <1>0, FileSizesAdd
      <3>2. used' \in Int
        BY <1>0, <2>1, <3>1 DEF Rest
      <3> QED BY <1>0, <1>8, <3>2
         DEF SweepBytes, Rest, CountsOK, history, Names, Job, Actors, ByKey, ByName
    <2> QED BY <2>3, <2>4, <2>5, InvPartsNext
  <1>9. ASSUME SweepBlob(c) PROVE TierInv'
    <2>1. Tier1OK'
      BY <1>0, <1>9, SameTier1 DEF SweepBlob, tier1
    <2>2. CallsTyped'
      BY <1>0, <1>9, GoTyped DEF SweepBlob, Ats, Known, Numbered
    <2>3. DiskOK'
      <3>1. disk' = disk \/ disk' = Drop(disk, {act[c].key})
        BY <1>9 DEF SweepBlob
      <3> QED BY <1>0, <3>1, SameDisk, DroppedDisk
    <2>4. Rest'
      BY <1>0, <1>9
         DEF SweepBlob, Rest, CountsOK, history, Names, Job, Actors, ByKey, ByName
    <2> QED BY <2>1, <2>2, <2>3, <2>4, InvPartsNext
  <1>10. ASSUME SweepEnd(c) PROVE TierInv'
    <2>1. Tier1OK' /\ DiskOK' /\ Rest'
      BY <1>0, <1>10, SameTier1, SameDisk, SameRest DEF SweepEnd, tier1, tier2, history
    <2>2. CallsTyped'
      BY <1>0, <1>10, ReturnTyped DEF SweepEnd
    <2> QED BY <2>1, <2>2, InvPartsNext
  <1>11. ASSUME Flush(c) PROVE TierInv'
    <2>1. Tier1OK' /\ DiskOK'
      BY <1>0, <1>11, SameTier1, SameDisk DEF Flush, tier1, tier2
    <2>2. ASSUME act' = act PROVE CallsTyped'
      BY <1>0, <2>2 DEF CallsTyped, CallOK, CallType
    <2>3. CallsTyped'
      BY <1>0, <1>11, <2>2, ReturnTyped DEF Flush
    <2>4. Rest'
      <3>1. asleep' \subseteq Actors
        BY <1>0, <1>11 DEF Flush, Rest
      <3> QED BY <1>0, <1>11, <3>1
         DEF Flush, Rest, CountsOK, history, tier2, Names, Job, Actors, ByKey, ByName
    <2> QED BY <2>1, <2>3, <2>4, InvPartsNext
  <1>12. ASSUME TrimStep(c) PROVE TierInv'
    BY <1>0, <1>12, TrimKeepsTypes
  <1> QED BY <1>1, <1>2, <1>3, <1>4, <1>5, <1>6, <1>7, <1>8, <1>9, <1>10, <1>11, <1>12
     DEF CallStep

\* The steps of the worker.
LEMMA WorkerKeepsTypes ==
  ASSUME TwoTierAssumption, TierInv, WorkerStep
  PROVE  TierInv'
  <1>0. Tier1OK /\ DiskOK /\ CallsTyped /\ Rest /\ Worker \in Actors
    BY InvParts DEF Actors
  <1>1. ASSUME WorkerCheck PROVE TierInv'
    <2>1. Tier1OK' /\ DiskOK'
      BY <1>0, <1>1, SameTier1, SameDisk DEF WorkerCheck, tier1, tier2
    <2>2. CASE queue # <<>>
      <3>1. PICK j : /\ j = Head(queue) /\ Begin(Worker, "begin", j.key, j.num)
                     /\ queue' = Tail(queue)
        BY <1>1, <2>2 DEF WorkerCheck, Take
      <3>2. j \in Job /\ queue' \in Seq(Job)
        BY <1>0, <2>2, <3>1 DEF Rest
      <3>3. j.key \in Keys /\ j.num \in 1..MaxInserts
        BY <3>2 DEF Job
      <3>4. CallsTyped'
        BY <1>0, <3>1, <3>3, BeginTyped DEF Ats
      <3>5. Rest'
        BY <1>0, <1>1, <3>2
           DEF WorkerCheck, Rest, CountsOK, history, tier2, Names, Job, Actors, ByKey, ByName
      <3> QED BY <2>1, <3>4, <3>5, InvPartsNext
    <2>3. CASE queue = <<>>
      <3>1. PICK at \in {"exited", "doze"} : Go(Worker, at)
        BY <1>1, <2>3 DEF WorkerCheck
      <3>2. CallsTyped'
        BY <1>0, <3>1, GoTyped DEF Ats, Known, Numbered
      <3>3. Rest'
        BY <1>0, <1>1, <2>3, SameRest DEF WorkerCheck, tier2, history
      <3> QED BY <2>1, <3>2, <3>3, InvPartsNext
    <2> QED BY <2>2, <2>3
  <1>2. ASSUME WorkerWait PROVE TierInv'
    <2>1. Tier1OK' /\ DiskOK'
      BY <1>0, <1>2, SameTier1, SameDisk DEF WorkerWait, tier1, tier2
    <2>2. CallsTyped'
      BY <1>0, <1>2, GoTyped DEF WorkerWait, Ats, Known, Numbered
    <2>3. Rest'
      BY <1>0, <1>2
         DEF WorkerWait, Rest, CountsOK, history, tier2, Names, Job, Actors, ByKey, ByName
    <2> QED BY <2>1, <2>2, <2>3, InvPartsNext
  <1>3. ASSUME WriteBegin PROVE TierInv'
    <2>1. act[Worker].key \in Keys /\ act[Worker].num \in 1..MaxInserts
      BY <1>0, <1>3, CallIs DEF WriteBegin, Known, Numbered
    <2>2. Tier1OK' /\ Rest'
      BY <1>0, <1>3, SameTier1, SameRest DEF WriteBegin, tier1, history
    <2>3. DiskOK'
      BY <1>0, <1>3, <2>1, WrittenDisk DEF WriteBegin
    <2>4. CallsTyped'
      BY <1>0, <1>3, <2>1, GoTyped DEF WriteBegin, Ats
    <2> QED BY <2>2, <2>3, <2>4, InvPartsNext
  <1>4. ASSUME WriteEnd PROVE TierInv'
    <2>1. act[Worker].key \in Keys /\ act[Worker].num \in 1..MaxInserts
      BY <1>0, <1>4, CallIs DEF WriteEnd, Known, Numbered
    <2>2. Tier1OK' /\ Rest'
      BY <1>0, <1>4, SameTier1, SameRest DEF WriteEnd, tier1, history
    <2>3. DiskOK'
      <3>1. PICK whole \in BOOLEAN : Write(whole)
        BY <1>4 DEF WriteEnd
      <3> QED BY <1>0, <2>1, <3>1, WrittenDisk
    <2>4. CallsTyped'
      BY <1>0, <1>4, <2>1, GoTyped DEF WriteEnd, Ats
    <2> QED BY <2>2, <2>3, <2>4, InvPartsNext
  <1>5. ASSUME WriteFails PROVE TierInv'
    <2>1. Tier1OK' /\ DiskOK' /\ Rest'
      BY <1>0, <1>5, SameTier1, SameDisk, SameRest DEF WriteFails, tier1, tier2, history
    <2>2. CallsTyped'
      BY <1>0, <1>5, ReturnTyped DEF WriteFails
    <2> QED BY <2>1, <2>2, InvPartsNext
  <1>6. ASSUME Index PROVE TierInv'
    <2>1. PICK k \in Keys, n \in 1..MaxInserts : k = act[Worker].key /\ n = act[Worker].num
      BY <1>0, <1>6, CallIs DEF Index, Known, Numbered
    <2>2. Tier1OK' /\ DiskOK'
      BY <1>0, <1>6, SameTier1, SameDisk DEF Index, tier1
    <2>3. CallsTyped'
      BY <1>0, <1>6, GoTyped DEF Index, Ats, Known, Numbered
    <2>4. Rest'
      <3>1. index' = index \cup {ByKey(k)} /\ used' = used + Pixels[k][n]
        BY <1>6, <2>1 DEF Index
      <3>2. Pixels[k][n] \in Nat
        BY DEF TwoTierAssumption
      <3>3. used' \in Int /\ index' \subseteq Names
        BY <1>0, <3>1, <3>2 DEF Rest, Names
      <3> QED BY <1>0, <1>6, <3>3
         DEF Index, Rest, CountsOK, history, Names, Job, Actors, ByKey, ByName
    <2> QED BY <2>2, <2>3, <2>4, InvPartsNext
  <1> QED BY <1>1, <1>2, <1>3, <1>4, <1>5, <1>6 DEF WorkerStep

\* The types, the contents of L1 and its budget, in every reachable state.
LEMMA TierInvariant == Spec => []TierInv
  <1>1. Init => TierInv
    <2> SUFFICES ASSUME Init PROVE TierInv
      OBVIOUS
    <2>1. ToSet(<<>>) = {}
      BY DEF ToSet
    <2>2. Tier1OK
      <3>1. l1 = <<>> /\ l1Bytes = 0 /\ L1Max \in Nat
        BY TwoTierAssumption DEF Init, TwoTierAssumption
      <3>2. ToSet(l1) = {}
        BY <2>1, <3>1
      <3>3. BytesOf(ToSet(l1)) = 0
        BY <3>2, TwoTierAssumption, BytesOfNone, Zenon
      <3> QED BY <3>1, <3>3, EmptyIsSeq DEF Tier1OK, Distinct
    <2>3. DiskOK
      BY EmptyIsSeq DEF Init, DiskOK, Distinct
    <2>4. CallsTyped
      BY NoCallsTyped DEF CallsTyped, Init
    <2>5. Rest
      <3>1. MaxInserts \in Nat
        BY TwoTierAssumption DEF TwoTierAssumption
      <3>2. CountsOK
        BY <3>1 DEF Init, CountsOK
      <3>3. queue \in Seq(Job)
        BY EmptyIsSeq DEF Init
      <3>4. stop = FALSE /\ asleep = {} /\ index = {} /\ used = 0
        BY DEF Init
      <3>5. stop \in BOOLEAN
        BY <3>4
      <3>6. asleep \subseteq Actors /\ index \subseteq Names /\ used \in Int
        BY <3>4
      <3> QED BY <3>2, <3>3, <3>5, <3>6 DEF Rest
    <2> QED BY <2>2, <2>3, <2>4, <2>5, InvParts
  <1>2. TierInv /\ [Next]_vars => TierInv'
    <2> SUFFICES ASSUME TierInv, [Next]_vars PROVE TierInv'
      OBVIOUS
    <2>0. Tier1OK /\ DiskOK /\ CallsTyped /\ Rest /\ Worker \in Actors
      BY InvParts DEF Actors
    <2>1. ASSUME NEW c \in Clients, Call(c) \/ CallStep(c) PROVE TierInv'
      BY <2>1, TwoTierAssumption, CallKeepsTypes, StepKeepsTypes
    <2>2. CASE WorkerStep
      BY <2>2, TwoTierAssumption, WorkerKeepsTypes
    <2>3. CASE TrimStep(Worker)
      BY <2>0, <2>3, TwoTierAssumption, TrimKeepsTypes
    <2>4. CASE Destroy
      <3>1. Tier1OK' /\ DiskOK'
        BY <2>0, <2>4, SameTier1, SameDisk DEF Destroy, tier1, tier2
      <3>2. CallsTyped'
        BY <2>0, <2>4 DEF Destroy, CallsTyped, CallOK, CallType
      <3>3. Rest'
        BY <2>0, <2>4
           DEF Destroy, Rest, CountsOK, history, tier2, Names, Job, Actors, ByKey, ByName
      <3> QED BY <3>1, <3>2, <3>3, InvPartsNext
    <2>5. CASE Restart
      <3>1. PICK found : /\ found \in SUBSET KeysOf(disk)
                         /\ index' = {ByName(k) : k \in found}
                         /\ used' = MapThenSumSet(FileSize, found)
        BY <2>5 DEF Restart
      <3>2. Tier1OK'
        <4>1. l1' = <<>> /\ l1Bytes' = 0
          BY <2>5 DEF Restart
        <4>2. ToSet(l1)' = {}
          BY <4>1 DEF ToSet
        <4>3. L1Max \in Nat
          BY TwoTierAssumption DEF TwoTierAssumption
        <4>4. Distinct(<<>>) /\ <<>> \in Seq(Job)
          BY EmptyIsSeq DEF Distinct
        <4>5. BytesOf(ToSet(l1)') = 0
          BY <4>2, TwoTierAssumption, BytesOfNone, Zenon
        <4> QED BY <4>1, <4>3, <4>4, <4>5 DEF Tier1OK
      <3>3. DiskOK' /\ CallsTyped'
        <4>1. act' = NoCalls /\ disk' = disk
          BY <2>5 DEF Restart
        <4>2. CallsTyped'
          BY <4>1, NoCallsTyped DEF CallsTyped, CallOK, CallType
        <4> QED BY <2>0, <4>1, <4>2, SameDisk
      <3>4. Rest'
        <4>1. used' \in Int
          <5>1. PICK t : t = MapThenSumSet(FileSize, found) /\ t \in Nat
            BY <2>0, <3>1, TwoTierAssumption, FileSizesAdd
          <5> QED BY <3>1, <5>1
        <4>2. index' \subseteq Names
          <5>1. found \subseteq Keys
            BY <2>0, <3>1, DiskKeys
          <5> QED BY <3>1, <5>1 DEF Names
        <4>3. dead' \in [Keys -> 0..MaxInserts]
          BY <2>5, TwoTierAssumption DEF Restart, TwoTierAssumption
        <4>4. queue' = <<>> /\ asleep' = {} /\ stop' = FALSE /\ inserts' = inserts
          BY <2>5 DEF Restart
        <4>5. CountsOK'
          BY <2>0, <4>3, <4>4 DEF Rest, CountsOK
        <4>6. queue' \in Seq(Job) /\ asleep' \subseteq Actors /\ stop' \in BOOLEAN
          BY <4>4, EmptyIsSeq
        <4> QED BY <4>1, <4>2, <4>5, <4>6 DEF Rest, Names, Job, Actors, ByKey, ByName
      <3> QED BY <3>2, <3>3, <3>4, InvPartsNext
    <2>6. CASE UNCHANGED vars
      <3>1. Tier1OK' /\ DiskOK' /\ Rest'
        BY <2>0, <2>6, SameTier1, SameDisk, SameRest DEF vars
      <3>2. CallsTyped'
        BY <2>0, <2>6 DEF vars, CallsTyped, CallOK, CallType
      <3> QED BY <3>1, <3>2, InvPartsNext
    <2> QED BY <2>1, <2>2, <2>3, <2>4, <2>5, <2>6 DEF Next
  <1> QED BY <1>1, <1>2, PTL DEF Spec

\* The types, the list of L1 and the directory (TwoTierCacheManager.cpp and
\* DiskCacheStore.cpp): no key is twice in the list that the map points into,
\* nor in the directory, whatever the threads do and whenever the process ends.
THEOREM TypesCorrect == Spec => []TypeOK
  <1>1. TierInv => TypeOK
    <2> SUFFICES ASSUME TierInv PROVE TypeOK
      OBVIOUS
    <2>1. Len(l1) = Cardinality(KeysOf(l1)) /\ Len(disk) = Cardinality(KeysOf(disk))
      BY DistinctKeys DEF TierInv, Tier1OK, DiskOK
    <2> QED BY <2>1
       DEF TierInv, Tier1OK, DiskOK, CallsTyped, CountsOK, Blob, CallType, Names, TypeOK
  <1> QED BY <1>1, TierInvariant, PTL

\* After every step of every thread the counter of L1 is the bytes of the entries
\* in its list, and the list is within the budget (TwoTierCacheManager.cpp: Insert,
\* Promote, Invalidate, InvalidatePrefix and TrimTobudget).
THEOREM L1Correct == Spec => []L1WithinBudget
  <1>1. TierInv => L1WithinBudget
    BY DEF TierInv, Tier1OK, L1WithinBudget
  <1> QED BY <1>1, TierInvariant, PTL

-----------------------------------------------------------------------------
(***************************************************************************)
(* The order of the writes                                                 *)
(***************************************************************************)

\* The Inserts of a key, by the place that each has come to on its way to the
\* directory.
OnDisk(k) == {disk[i].num : i \in {i \in DOMAIN disk : disk[i].key = k}}
InHand(k) ==
  {act[a].num : a \in {a \in {Worker} : act[a].at \in {"begin", "end"} /\ act[a].key = k}}
Queued(k) == {queue[i].num : i \in {i \in DOMAIN queue : queue[i].key = k}}
Pushed(k) == {act[c].num : c \in {c \in Clients : act[c].at = "push" /\ act[c].key = k}}

UpTo(A, B) == \A m \in A, n \in B : m <= n

QueueSorted ==
  \A i, j \in DOMAIN queue : i < j /\ queue[i].key = queue[j].key => queue[i].num <= queue[j].num

\* An Insert further on its way is no younger.
InOrder ==
  /\ QueueSorted
  /\ \A k \in Keys :
       /\ UpTo(OnDisk(k), InHand(k) \cup Queued(k) \cup Pushed(k) \cup {inserts[k]})
       /\ UpTo(InHand(k), Queued(k) \cup Pushed(k) \cup {inserts[k]})
       /\ UpTo(Queued(k), Pushed(k) \cup {inserts[k]})
       /\ UpTo(Pushed(k), {inserts[k]})

PushedByWriter == \A c \in Clients : act[c].at = "push" => c \in Writers

\* A step of one thread leaves the calls of the others alone.
LEMMA BeginElsewhere ==
  ASSUME CallsTyped, NEW a \in Actors, NEW at, NEW k, NEW n, Begin(a, at, k, n)
  PROVE  /\ \A b \in Actors \ {a} : act'[b] = act[b]
         /\ act'[a].at = at /\ act'[a].key = k /\ act'[a].num = n
  BY DEF CallsTyped, Begin

\* The same of a call that goes on.
LEMMA GoElsewhere ==
  ASSUME CallsTyped, NEW a \in Actors, NEW at, Go(a, at)
  PROVE  /\ \A b \in Actors \ {a} : act'[b] = act[b]
         /\ act'[a].at = at /\ act'[a].key = act[a].key /\ act'[a].num = act[a].num
  BY DEF CallsTyped, CallType, Go

\* The same of a call that returns.
LEMMA ReturnElsewhere ==
  ASSUME CallsTyped, NEW a \in Actors, Return(a)
  PROVE  /\ \A b \in Actors \ {a} : act'[b] = act[b]
         /\ act'[a].at \in {"idle", "check"}
  BY DEF CallsTyped, Return, NoCall

\* The same of two changes to a call.
LEMMA EditElsewhere ==
  ASSUME CallsTyped, NEW a \in Actors, NEW t, NEW n,
         \/ act' = [act EXCEPT ![a].at = "size", ![a].todo = t]
         \/ act' = [act EXCEPT ![a].at = "remove", ![a].num = n]
  PROVE  /\ \A b \in Actors \ {a} : act'[b] = act[b]
         /\ act'[a].at \in {"size", "remove"}
  BY DEF CallsTyped, CallType

\* A blob less, or none.
LEMMA DropShrinks ==
  ASSUME DiskOK, NEW K, disk' = disk \/ disk' = Drop(disk, K), NEW k
  PROVE  OnDisk(k)' \subseteq OnDisk(k)
  <1>1. CASE disk' = disk
    BY <1>1 DEF OnDisk
  <1>2. CASE disk' = Drop(disk, K)
    <2>1. \A n \in DOMAIN disk' : \E i \in DOMAIN disk : disk'[n] = disk[i]
      BY <1>2, DropKeeps DEF DiskOK
    <2> QED BY <2>1 DEF OnDisk
  <1> QED BY <1>1, <1>2

\* A blob that is written is that of the job.
LEMMA WriteAdds ==
  ASSUME DiskOK, act[Worker].at \in {"begin", "end"}, act[Worker].key \in Keys,
         act[Worker].num \in 1..MaxInserts, NEW whole \in BOOLEAN, Write(whole), NEW k
  PROVE  OnDisk(k)' \subseteq OnDisk(k) \cup InHand(k)
  <1>1. PICK d, e : /\ d = Drop(disk, {act[Worker].key})
                    /\ e = [key |-> act[Worker].key, num |-> act[Worker].num, whole |-> whole]
                    /\ disk' = Append(d, e)
    BY DEF Write
  <1>2. d \in Seq(Blob) /\ \A n \in DOMAIN d : \E i \in DOMAIN disk : d[n] = disk[i]
    <2>1. PICK K : K = {act[Worker].key}
      OBVIOUS
    <2>2. d = Drop(disk, K) /\ disk \in Seq(Blob)
      BY <1>1, <2>1 DEF DiskOK
    <2> QED BY <2>2, DropKeeps
  <1>3. PICK s : s = Append(d, e)
    OBVIOUS
  <1>4. \A i \in DOMAIN s : s[i] = e \/ (i \in DOMAIN d /\ s[i] = d[i])
    BY <1>2, <1>3
  <1>5. disk' = s
    BY <1>1, <1>3
  <1>6. e.key = act[Worker].key /\ e.num = act[Worker].num
    BY <1>1
  <1> SUFFICES ASSUME NEW i \in DOMAIN s, s[i].key = k PROVE s[i].num \in OnDisk(k) \cup InHand(k)
    BY <1>5 DEF OnDisk
  <1>7. CASE s[i] = e
    BY <1>6, <1>7 DEF InHand
  <1>8. CASE i \in DOMAIN d /\ s[i] = d[i]
    <2>1. PICK j \in DOMAIN disk : d[i] = disk[j]
      BY <1>2, <1>8
    <2> QED BY <1>8, <2>1 DEF OnDisk
  <1> QED BY <1>4, <1>7, <1>8

\* The steps of clients other than Insert and Push, and what they have in common.
Quiet(c) ==
  \/ \E k \in Keys : LookupHit(c, k) \/ LookupMiss(c, k) \/ Invalidate(c, k)
  \/ \E K \in Folders : InvalidatePrefix(c, K)
  \/ TrimCall(c) \/ FlushCall(c)
  \/ Load(c) \/ Promote(c) \/ Notify(c) \/ TrimStep(c)
  \/ InvalidateBytes(c) \/ InvalidateBlob(c) \/ InvalidateIndex(c)
  \/ SweepBytes(c) \/ SweepBlob(c) \/ SweepEnd(c) \/ Flush(c)

\* The steps of a client that neither write nor push a job.
LEMMA QuietClient ==
  ASSUME TwoTierAssumption, TierInv, NEW c \in Clients, Quiet(c)
  PROVE  /\ \A b \in Actors \ {c} : act'[b] = act[b]
         /\ act'[c].at # "push"
         /\ \A k : OnDisk(k)' \subseteq OnDisk(k)
         /\ queue' = queue /\ inserts' = inserts
  <1> DEFINE Alone == /\ \A b \in Actors \ {c} : act'[b] = act[b]
                      /\ act'[c].at # "push"
             Calm == /\ queue' = queue /\ inserts' = inserts
                     /\ \E K : disk' = disk \/ disk' = Drop(disk, K)
  <1>0. DiskOK /\ CallsTyped /\ c \in Actors
    BY DEF TierInv, Actors
  <1>1. ASSUME NEW k \in Keys, LookupHit(c, k) PROVE Alone /\ Calm
    BY <1>1 DEF LookupHit, Free, NoCall, tier2, history
  <1>2. ASSUME NEW k \in Keys, LookupMiss(c, k) PROVE Alone /\ Calm
    BY <1>0, <1>2, BeginElsewhere DEF LookupMiss, tier2, history
  <1>3. ASSUME NEW k \in Keys, Invalidate(c, k) PROVE Alone /\ Calm
    BY <1>0, <1>3, BeginElsewhere DEF Invalidate, tier2
  <1>4. ASSUME NEW K \in Folders, InvalidatePrefix(c, K) PROVE Alone /\ Calm
    <2>1. PICK t : act' = [act EXCEPT ![c] = [NoCall EXCEPT !.at = "prefix", !.todo = t]]
      BY <1>4 DEF InvalidatePrefix
    <2>2. Alone
      BY <1>0, <2>1 DEF NoCall, CallsTyped
    <2> QED BY <1>4, <2>2 DEF InvalidatePrefix, tier2
  <1>5. ASSUME TrimCall(c) \/ FlushCall(c) PROVE Alone /\ Calm
    BY <1>0, <1>5, BeginElsewhere DEF TrimCall, FlushCall, tier2, history
  <1>6. ASSUME Load(c) PROVE Alone /\ Calm
    <2>1. Return(c) \/ \E k, n : Begin(c, "promote", k, n)
      BY <1>6 DEF Load
    <2>2. Alone
      BY <1>0, <2>1, BeginElsewhere, ReturnElsewhere
    <2> QED BY <1>6, <2>2 DEF Load, tier2, history
  <1>7. ASSUME Promote(c) PROVE Alone /\ Calm
    BY <1>0, <1>7, ReturnElsewhere DEF Promote, tier2, history
  <1>8. ASSUME Notify(c) PROVE Alone /\ Calm
    BY <1>0, <1>8, ReturnElsewhere DEF Notify, tier2, history
  <1>9. ASSUME TrimStep(c) PROVE Alone /\ Calm
    <2>1. ASSUME TrimList(c) PROVE Alone /\ Calm
      <3>1. Return(c) \/ \E t : act' = [act EXCEPT ![c].at = "size", ![c].todo = t]
        BY <2>1 DEF TrimList
      <3>2. Alone
        BY <1>0, <3>1, ReturnElsewhere, EditElsewhere
      <3> QED BY <2>1, <3>2 DEF TrimList, tier2, history
    <2>2. ASSUME TrimSize(c) PROVE Alone /\ Calm
      <3>1. Return(c) \/ \E n : act' = [act EXCEPT ![c].at = "remove", ![c].num = n]
        BY <2>2 DEF TrimSize
      <3>2. Alone
        BY <1>0, <3>1, ReturnElsewhere, EditElsewhere
      <3> QED BY <2>2, <3>2 DEF TrimSize, tier2, history
    <2>3. ASSUME TrimRemove(c) PROVE Alone /\ Calm
      <3>1. Alone
        BY <1>0, <2>3, GoElsewhere DEF TrimRemove
      <3>2. \E K : disk' = disk \/ disk' = Drop(disk, K)
        BY <2>3 DEF TrimRemove
      <3> QED BY <2>3, <3>1, <3>2 DEF TrimRemove, history
    <2>4. ASSUME TrimErase(c) PROVE Alone /\ Calm
      <3>1. \E t : act' = [act EXCEPT ![c].at = "size", ![c].todo = t]
        BY <2>4 DEF TrimErase
      <3>2. Alone
        BY <1>0, <3>1, EditElsewhere
      <3> QED BY <2>4, <3>2 DEF TrimErase, history
    <2> QED BY <1>9, <2>1, <2>2, <2>3, <2>4 DEF TrimStep
  <1>10. ASSUME InvalidateBytes(c) PROVE Alone /\ Calm
    BY <1>0, <1>10, GoElsewhere DEF InvalidateBytes, history
  <1>11. ASSUME InvalidateBlob(c) PROVE Alone /\ Calm
    BY <1>0, <1>11, GoElsewhere DEF InvalidateBlob, history
  <1>12. ASSUME InvalidateIndex(c) PROVE Alone /\ Calm
    BY <1>0, <1>12, ReturnElsewhere DEF InvalidateIndex, history
  <1>13. ASSUME SweepBytes(c) \/ SweepBlob(c) \/ SweepEnd(c) PROVE Alone /\ Calm
    <2>1. \/ \E k : act' = [act EXCEPT ![c].at = "delete", ![c].key = k]
          \/ Go(c, "sweep") \/ Return(c)
      BY <1>13 DEF SweepBytes, SweepBlob, SweepEnd
    <2>2. Alone
      <3>1. ASSUME NEW k, act' = [act EXCEPT ![c].at = "delete", ![c].key = k] PROVE Alone
        <4>1. act \in [Actors -> CallType]
          BY <1>0 DEF CallsTyped
        <4> QED BY <1>0, <3>1, <4>1 DEF CallType
      <3>2. CASE Go(c, "sweep")
        BY <1>0, <3>2, GoElsewhere
      <3>3. CASE Return(c)
        BY <1>0, <3>3, ReturnElsewhere
      <3> HIDE DEF Alone
      <3> QED BY <2>1, <3>1, <3>2, <3>3
    <2>3. \E K : disk' = disk \/ disk' = Drop(disk, K)
      BY <1>13 DEF SweepBytes, SweepBlob, SweepEnd, tier2
    <2> QED BY <1>13, <2>2, <2>3 DEF SweepBytes, SweepBlob, SweepEnd, history
  <1>14. ASSUME Flush(c) PROVE Alone /\ Calm
    <2>1. (act' = act /\ act[c].at = "flush") \/ Return(c)
      BY <1>14 DEF Flush
    <2>2. Alone
      BY <1>0, <2>1, ReturnElsewhere
    <2> QED BY <1>14, <2>2 DEF Flush, tier2, history
  <1>15. Alone /\ Calm
    BY <1>1, <1>2, <1>3, <1>4, <1>5, <1>6, <1>7, <1>8, <1>9, <1>10, <1>11, <1>12, <1>13, <1>14
       DEF Quiet
  <1> QED BY <1>0, <1>15, DropShrinks

\* Steps that only take something out of the places, or move the job into the
\* directory, keep the order.
LEMMA ShrinkKeepsOrder ==
  ASSUME InOrder, QueueSorted',
         \A k \in Keys : /\ OnDisk(k)' \subseteq OnDisk(k) \cup InHand(k)
                         /\ InHand(k)' \subseteq InHand(k)
                         /\ Queued(k)' \subseteq Queued(k)
                         /\ Pushed(k)' \subseteq Pushed(k),
         inserts' = inserts, \A a \in {Worker} : act[a].num \in Int
  PROVE  InOrder'
  <1>1. \A k : UpTo(InHand(k), InHand(k))
    BY DEF UpTo, InHand
  <1> SUFFICES ASSUME NEW k \in Keys
               PROVE  /\ UpTo(OnDisk(k)',
                               InHand(k)' \cup Queued(k)' \cup Pushed(k)' \cup {inserts'[k]})
                      /\ UpTo(InHand(k)', Queued(k)' \cup Pushed(k)' \cup {inserts'[k]})
                      /\ UpTo(Queued(k)', Pushed(k)' \cup {inserts'[k]})
                      /\ UpTo(Pushed(k)', {inserts'[k]})
    BY DEF InOrder, UpTo
  <1>2. /\ UpTo(OnDisk(k), InHand(k) \cup Queued(k) \cup Pushed(k) \cup {inserts[k]})
        /\ UpTo(InHand(k), Queued(k) \cup Pushed(k) \cup {inserts[k]})
        /\ UpTo(Queued(k), Pushed(k) \cup {inserts[k]})
        /\ UpTo(Pushed(k), {inserts[k]})
    BY DEF InOrder
  <1>3. PICK D, H, Q, P, D1, H1, Q1, P1 :
          /\ D = OnDisk(k) /\ H = InHand(k) /\ Q = Queued(k) /\ P = Pushed(k)
          /\ D1 = OnDisk(k)' /\ H1 = InHand(k)' /\ Q1 = Queued(k)' /\ P1 = Pushed(k)'
    OBVIOUS
  <1>4. D1 \subseteq D \cup H /\ H1 \subseteq H /\ Q1 \subseteq Q /\ P1 \subseteq P
    BY <1>3
  <1> QED BY <1>1, <1>2, <1>3, <1>4 DEF UpTo
\* A job leaves the front of the queue.
LEMMA TakeKeepsOrder ==
  ASSUME TierInv, InOrder, queue # <<>>, Take(Head(queue), Tail(queue)),
         disk' = disk, inserts' = inserts, NEW k \in Keys, Worker \notin Clients
  PROVE  /\ UpTo(OnDisk(k)',
                               InHand(k)' \cup Queued(k)' \cup Pushed(k)' \cup {inserts'[k]})
         /\ UpTo(InHand(k)', Queued(k)' \cup Pushed(k)' \cup {inserts'[k]})
         /\ UpTo(Queued(k)', Pushed(k)' \cup {inserts'[k]})
         /\ UpTo(Pushed(k)', {inserts'[k]})
         /\ QueueSorted'
  <1>0. CallsTyped /\ queue \in Seq(Job) /\ Worker \in Actors
    BY DEF TierInv, Actors
  <1>1. PICK j, q : j = Head(queue) /\ q = Tail(queue)
    OBVIOUS
  <1>2. /\ j = queue[1] /\ 1 \in DOMAIN queue
        /\ \A i \in DOMAIN q : i + 1 \in DOMAIN queue /\ q[i] = queue[i + 1] /\ i \in Nat \ {0}
    BY <1>0, <1>1
  <1>3. queue' = q /\ Begin(Worker, "begin", j.key, j.num)
    BY <1>1 DEF Take
  <1>4. /\ act'[Worker].at = "begin" /\ act'[Worker].key = j.key /\ act'[Worker].num = j.num
        /\ \A c \in Clients : act'[c] = act[c]
    BY <1>0, <1>3, BeginElsewhere DEF Actors
  <1>5. QueueSorted
    BY DEF InOrder
  <1>6. \A i \in DOMAIN q : q[i].key = j.key => j.num <= q[i].num
    <2> TAKE i \in DOMAIN q
    <2>1. 1 < i + 1 /\ i + 1 \in DOMAIN queue /\ q[i] = queue[i + 1]
      BY <1>2
    <2> QED BY <1>2, <1>5, <2>1 DEF QueueSorted
  <1>7. QueueSorted'
    <2> SUFFICES ASSUME NEW i \in DOMAIN q, NEW n \in DOMAIN q, i < n, q[i].key = q[n].key
                 PROVE  q[i].num <= q[n].num
      BY <1>3 DEF QueueSorted
    <2>1. i + 1 < n + 1
      BY <1>2
    <2> QED BY <1>2, <1>5, <2>1 DEF QueueSorted
  <1>8. Queued(k)' \subseteq Queued(k)
    BY <1>2, <1>3 DEF Queued
  <1>9. InHand(k)' \subseteq Queued(k)
    BY <1>2, <1>4 DEF InHand, Queued
  <1>10. UpTo(InHand(k)', Queued(k)')
    BY <1>3, <1>4, <1>6 DEF InHand, Queued, UpTo
  <1>11. Pushed(k)' = Pushed(k)
    BY <1>4 DEF Pushed
  <1>12. OnDisk(k)' = OnDisk(k)
    BY DEF OnDisk
  <1>13. /\ UpTo(OnDisk(k), InHand(k) \cup Queued(k) \cup Pushed(k) \cup {inserts[k]})
         /\ UpTo(Queued(k), Pushed(k) \cup {inserts[k]})
         /\ UpTo(Pushed(k), {inserts[k]})
    BY DEF InOrder
  <1>14. PICK D, H, Q, P, H1, Q1 :
           /\ D = OnDisk(k) /\ H = InHand(k) /\ Q = Queued(k) /\ P = Pushed(k)
           /\ H1 = InHand(k)' /\ Q1 = Queued(k)'
    OBVIOUS
  <1>15. Q1 \subseteq Q /\ H1 \subseteq Q /\ UpTo(H1, Q1)
    BY <1>8, <1>9, <1>10, <1>14
  <1>16. /\ UpTo(D, H1 \cup Q1 \cup P \cup {inserts[k]})
         /\ UpTo(H1, Q1 \cup P \cup {inserts[k]})
         /\ UpTo(Q1, P \cup {inserts[k]}) /\ UpTo(P, {inserts[k]})
    BY <1>13, <1>14, <1>15 DEF UpTo
  <1> QED BY <1>7, <1>11, <1>12, <1>14, <1>16

\* The one writer's Insert joins the queue behind its earlier ones.
LEMMA PushKeepsOrder ==
  ASSUME TwoTierAssumption, TierInv, InOrder, PushedByWriter,
         \A v, w \in Writers : v = w, NEW c \in Clients, Push(c), NEW k \in Keys
  PROVE  /\ UpTo(OnDisk(k)',
                               InHand(k)' \cup Queued(k)' \cup Pushed(k)' \cup {inserts'[k]})
         /\ UpTo(InHand(k)', Queued(k)' \cup Pushed(k)' \cup {inserts'[k]})
         /\ UpTo(Queued(k)', Pushed(k)' \cup {inserts'[k]})
         /\ UpTo(Pushed(k)', {inserts'[k]})
         /\ QueueSorted'
  <1>0. CallsTyped /\ queue \in Seq(Job) /\ c \in Actors /\ c # Worker /\ Worker \in Actors
    BY DEF TierInv, Actors, TwoTierAssumption
  <1>1. PICK e : e = [key |-> act[c].key, num |-> act[c].num] /\ queue' = Append(queue, e)
    BY DEF Push
  <1>2. /\ act[c].at = "push" /\ act'[c].at = "notify"
        /\ \A b \in Actors \ {c} : act'[b] = act[b]
        /\ disk' = disk /\ inserts' = inserts
    BY <1>0, GoElsewhere DEF Push, tier2, history
  <1>3. PICK q : q = Append(queue, e)
    OBVIOUS
  <1>4. /\ DOMAIN queue = 1..Len(queue) /\ Len(queue) \in Nat /\ DOMAIN q = 1..(Len(queue) + 1)
        /\ q[Len(queue) + 1] = e /\ \A i \in DOMAIN queue : q[i] = queue[i]
    BY <1>0, <1>3
  <1>5. \A i \in DOMAIN q :
           \/ i = Len(queue) + 1 /\ q[i] = e
           \/ i \in DOMAIN queue /\ q[i] = queue[i]
    BY <1>4
  <1>6. e.key = act[c].key /\ e.num = act[c].num
    BY <1>1
  <1>7. e.num \in Pushed(e.key) /\ e.key \in Keys
    <2>1. act[c].key \in Keys
      BY <1>0, <1>2, CallIs DEF Known
    <2> QED BY <1>2, <1>6, <2>1 DEF Pushed
  <1>8. QueueSorted /\ UpTo(Queued(e.key), Pushed(e.key))
    BY <1>7 DEF InOrder, UpTo
  <1>9. \A i \in DOMAIN queue : queue[i].key = e.key => queue[i].num <= e.num
    BY <1>7, <1>8 DEF Queued, UpTo
  <1>10. QueueSorted'
    <2> SUFFICES ASSUME NEW i \in DOMAIN q, NEW n \in DOMAIN q, i < n, q[i].key = q[n].key
                 PROVE  q[i].num <= q[n].num
      BY <1>1, <1>3 DEF QueueSorted
    <2>1. i \in DOMAIN queue /\ q[i] = queue[i]
      <3>1. PICK L : L = Len(queue)
        OBVIOUS
      <3>2. L \in Nat /\ i \in 1..(L + 1) /\ n \in 1..(L + 1) /\ DOMAIN queue = 1..L
        BY <1>4, <3>1
      <3>3. i \in 1..L
        BY <3>2
      <3> QED BY <1>4, <3>2, <3>3
    <2>2. CASE n \in DOMAIN queue /\ q[n] = queue[n]
      BY <1>8, <2>1, <2>2 DEF QueueSorted
    <2>3. CASE q[n] = e
      BY <1>9, <2>1, <2>3
    <2> QED BY <1>5, <2>2, <2>3
  <1>11. Queued(k)' \subseteq Queued(k) \cup Pushed(k)
    <2>1. ASSUME NEW i \in DOMAIN q, q[i].key = k PROVE q[i].num \in Queued(k) \cup Pushed(k)
      BY <1>5, <1>7, <2>1 DEF Queued
    <2>2. queue' = q
      BY <1>1, <1>3
    <2>3. Queued(k)' = {q[i].num : i \in {i \in DOMAIN q : q[i].key = k}}
      BY <2>2 DEF Queued
    <2> QED BY <2>1, <2>3
  <1>12. Pushed(k)' = {}
    <2>1. \A b \in Clients \ {c} : act[b].at # "push"
      BY <1>2 DEF PushedByWriter
    <2>2. \A b \in Clients : act'[b].at # "push"
      BY <1>2, <2>1 DEF Actors
    <2> QED BY <2>2 DEF Pushed
  <1>13. InHand(k)' = InHand(k) /\ OnDisk(k)' = OnDisk(k)
    BY <1>0, <1>2 DEF InHand, OnDisk
  <1>14. /\ UpTo(OnDisk(k), InHand(k) \cup Queued(k) \cup Pushed(k) \cup {inserts[k]})
         /\ UpTo(InHand(k), Queued(k) \cup Pushed(k) \cup {inserts[k]})
         /\ UpTo(Queued(k), Pushed(k) \cup {inserts[k]})
         /\ UpTo(Pushed(k), {inserts[k]})
    BY DEF InOrder
  <1>15. PICK D, H, Q, P, Q1 :
           /\ D = OnDisk(k) /\ H = InHand(k) /\ Q = Queued(k) /\ P = Pushed(k)
           /\ Q1 = Queued(k)'
    OBVIOUS
  <1>16. Q1 \subseteq Q \cup P
    BY <1>11, <1>15
  <1>17. /\ UpTo(D, H \cup Q1 \cup {} \cup {inserts[k]})
         /\ UpTo(H, Q1 \cup {} \cup {inserts[k]})
         /\ UpTo(Q1, {} \cup {inserts[k]}) /\ UpTo({}, {inserts[k]})
    BY <1>14, <1>15, <1>16 DEF UpTo
  <1> QED BY <1>2, <1>10, <1>12, <1>13, <1>15, <1>17

\* A new Insert is younger than all before it.
LEMMA InsertKeepsOrder ==
  ASSUME TwoTierAssumption, TierInv, InOrder, NEW c \in Clients, NEW j \in Keys, Insert(c, j),
         NEW k \in Keys
  PROVE  /\ UpTo(OnDisk(k)',
                               InHand(k)' \cup Queued(k)' \cup Pushed(k)' \cup {inserts'[k]})
         /\ UpTo(InHand(k)', Queued(k)' \cup Pushed(k)' \cup {inserts'[k]})
         /\ UpTo(Queued(k)', Pushed(k)' \cup {inserts'[k]})
         /\ UpTo(Pushed(k)', {inserts'[k]})
         /\ QueueSorted'
  <1>0. /\ CallsTyped /\ DiskOK /\ CountsOK /\ queue \in Seq(Job)
        /\ c \in Actors /\ c # Worker /\ Worker \in Actors
    BY DEF TierInv, Actors, TwoTierAssumption
  <1>1. PICK n : n = inserts[j] + 1
    OBVIOUS
  <1>2. /\ inserts' = [inserts EXCEPT ![j] = n] /\ Begin(c, "push", j, n)
        /\ queue' = queue /\ disk' = disk
    BY <1>1 DEF Insert, tier2
  <1>3. /\ act'[c].at = "push" /\ act'[c].key = j /\ act'[c].num = n
        /\ \A b \in Actors \ {c} : act'[b] = act[b]
    BY <1>0, <1>2, BeginElsewhere
  <1>4. /\ inserts[k] \in Nat /\ n \in Nat
        /\ inserts'[k] = IF k = j THEN n ELSE inserts[k]
        /\ k = j => n = inserts[k] + 1
    BY <1>0, <1>1, <1>2 DEF CountsOK
  <1>5. Pushed(k)' \subseteq Pushed(k) \cup {inserts'[k]}
    BY <1>3, <1>4 DEF Pushed, Actors
  <1>6. InHand(k)' = InHand(k) /\ OnDisk(k)' = OnDisk(k) /\ Queued(k)' = Queued(k)
    BY <1>0, <1>2, <1>3 DEF InHand, OnDisk, Queued
  <1>7. /\ UpTo(OnDisk(k), InHand(k) \cup Queued(k) \cup Pushed(k) \cup {inserts[k]})
        /\ UpTo(InHand(k), Queued(k) \cup Pushed(k) \cup {inserts[k]})
        /\ UpTo(Queued(k), Pushed(k) \cup {inserts[k]})
        /\ UpTo(Pushed(k), {inserts[k]})
        /\ QueueSorted
    BY DEF InOrder
  <1>8. OnDisk(k) \cup InHand(k) \cup Queued(k) \cup Pushed(k) \subseteq Int
    <2>1. OnDisk(k) \subseteq Int
      <3>1. \A i \in DOMAIN disk : disk[i] \in Blob
        BY <1>0 DEF DiskOK
      <3> QED BY <3>1 DEF OnDisk, Blob
    <2>2. Queued(k) \subseteq Int
      <3>1. \A i \in DOMAIN queue : queue[i] \in Job
        BY <1>0
      <3> QED BY <3>1 DEF Queued, Job
    <2>3. \A a \in Actors : act[a].num \in Int
      BY <1>0, CallIs
    <2>4. InHand(k) \subseteq Int /\ Pushed(k) \subseteq Int
      BY <1>0, <2>3 DEF InHand, Pushed, Actors
    <2> QED BY <2>1, <2>2, <2>4
  <1>9. PICK D, H, Q, P, P1, m, m1 :
          /\ D = OnDisk(k) /\ H = InHand(k) /\ Q = Queued(k) /\ P = Pushed(k)
          /\ P1 = Pushed(k)' /\ m = inserts[k] /\ m1 = inserts'[k]
    OBVIOUS
  <1>10. m \in Int /\ m1 \in Int /\ m <= m1
    BY <1>4, <1>9
  <1>11. \A x \in D \cup H \cup Q \cup P : x \in Int /\ x <= m
    BY <1>7, <1>8, <1>9 DEF UpTo
  <1>12. \A x \in D \cup H \cup Q \cup P : x <= m1
    BY <1>10, <1>11
  <1>13. P1 \subseteq P \cup {m1}
    BY <1>5, <1>9
  <1>14. /\ UpTo(D, H \cup Q \cup P1 \cup {m1}) /\ UpTo(H, Q \cup P1 \cup {m1})
         /\ UpTo(Q, P1 \cup {m1}) /\ UpTo(P1, {m1})
    BY <1>7, <1>9, <1>10, <1>12, <1>13 DEF UpTo
  <1>15. QueueSorted'
    BY <1>2, <1>7 DEF QueueSorted
  <1> QED BY <1>6, <1>9, <1>14, <1>15

\* The steps of the worker, and the end of the process.
LEMMA OthersKeepOrder ==
  ASSUME TwoTierAssumption, TierInv, InOrder, PushedByWriter,
         WorkerStep \/ TrimStep(Worker) \/ Destroy \/ Restart \/ UNCHANGED vars
  PROVE  /\ InOrder' /\ PushedByWriter'
         /\ \A k \in Keys : OnDisk(k)' \subseteq OnDisk(k) \cup InHand(k)
  <1>0. /\ CallsTyped /\ DiskOK /\ queue \in Seq(Job)
        /\ Worker \in Actors /\ Worker \notin Clients /\ Clients \subseteq Actors
        /\ act[Worker].num \in Int
    BY CallIs DEF TierInv, Actors, TwoTierAssumption
  <1> DEFINE Others == \A c \in Clients : act'[c] = act[c]
             Hand == act'[Worker].at \in {"begin", "end"} =>
                       /\ act[Worker].at \in {"begin", "end"}
                       /\ act'[Worker].key = act[Worker].key /\ act'[Worker].num = act[Worker].num
             Disk == \A k \in Keys : OnDisk(k)' \subseteq OnDisk(k) \cup InHand(k)
             Still == Others /\ Hand /\ Disk /\ queue' = queue /\ inserts' = inserts
  <1>1. ASSUME Still PROVE InOrder' /\ PushedByWriter' /\ Disk
    <2>1. Hand /\ Others
      BY <1>1
    <2>2. \A k \in Keys : InHand(k)' \subseteq InHand(k)
      BY <2>1 DEF InHand
    <2>3. \A k \in Keys : Pushed(k)' \subseteq Pushed(k)
      BY <2>1 DEF Pushed
    <2>4. \A k \in Keys : Queued(k)' \subseteq Queued(k)
      BY <1>1 DEF Queued
    <2>5. QueueSorted'
      BY <1>1 DEF InOrder, QueueSorted
    <2>6. PushedByWriter'
      BY <2>1 DEF PushedByWriter
    <2>7. Disk /\ inserts' = inserts
      BY <1>1
    <2> HIDE DEF Others, Hand
    <2> QED BY <1>0, <2>2, <2>3, <2>4, <2>5, <2>6, <2>7, ShrinkKeepsOrder
  <1>2. ASSUME WorkerCheck PROVE InOrder' /\ PushedByWriter' /\ Disk
    <2>1. disk' = disk /\ inserts' = inserts
      BY <1>2 DEF WorkerCheck, tier2, history
    <2>2. CASE queue # <<>>
      <3>1. Take(Head(queue), Tail(queue))
        BY <1>2, <2>2 DEF WorkerCheck
      <3>2. InOrder'
        <4>1. QueueSorted'
          <5>1. CASE Keys = {}
            <6>1. queue[1] \in Job
              BY <1>0, <2>2
            <6> QED BY <5>1, <6>1 DEF Job
          <5>2. CASE Keys # {}
            BY <1>0, <2>1, <2>2, <3>1, <5>2, TakeKeepsOrder
          <5> QED BY <5>1, <5>2
        <4> QED BY <1>0, <2>1, <2>2, <3>1, <4>1, TakeKeepsOrder DEF InOrder
      <3>3. PushedByWriter'
        <4>1. \A c \in Clients : act'[c] = act[c]
          BY <1>0, <3>1, BeginElsewhere DEF Take
        <4> QED BY <4>1 DEF PushedByWriter
      <3>4. Disk
        BY <2>1 DEF OnDisk
      <3> QED BY <3>2, <3>3, <3>4
    <2>3. CASE queue = <<>>
      <3>1. \E at \in {"exited", "doze"} : Go(Worker, at) /\ queue' = queue
        BY <1>2, <2>3 DEF WorkerCheck
      <3>2. Others /\ Hand /\ queue' = queue
        BY <1>0, <3>1, GoElsewhere
      <3>3. Disk
        BY <2>1 DEF OnDisk
      <3> QED BY <1>1, <2>1, <3>2, <3>3
    <2> QED BY <2>2, <2>3
  <1>3. ASSUME WorkerWait PROVE Still
    <2>1. Others /\ Hand
      BY <1>0, <1>3, GoElsewhere DEF WorkerWait
    <2> QED BY <1>3, <2>1 DEF WorkerWait, tier2, history, OnDisk
  <1>4. ASSUME WriteBegin \/ WriteEnd PROVE Still
    <2>1. PICK whole \in BOOLEAN : Write(whole)
      BY <1>4 DEF WriteBegin, WriteEnd
    <2>2. act[Worker].at \in {"begin", "end"} /\ queue' = queue /\ inserts' = inserts
      BY <1>4 DEF WriteBegin, WriteEnd, history
    <2>3. act[Worker].key \in Keys /\ act[Worker].num \in 1..MaxInserts
      BY <1>0, <2>2, CallIs DEF Known, Numbered
    <2>4. Disk
      BY <1>0, <2>1, <2>2, <2>3, WriteAdds
    <2>5. Others /\ Hand
      BY <1>0, <1>4, <2>2, GoElsewhere DEF WriteBegin, WriteEnd
    <2> QED BY <2>2, <2>4, <2>5
  <1>5. ASSUME WriteFails PROVE Still
    <2>1. Others /\ Hand
      BY <1>0, <1>5, ReturnElsewhere DEF WriteFails
    <2> QED BY <1>5, <2>1 DEF WriteFails, tier2, history, OnDisk
  <1>6. ASSUME Index PROVE Still
    <2>1. Others /\ Hand
      BY <1>0, <1>6, GoElsewhere DEF Index
    <2> QED BY <1>6, <2>1 DEF Index, history, OnDisk
  <1>7. ASSUME TrimStep(Worker) PROVE Still
    <2>1. ASSUME TrimList(Worker) PROVE Still
      <3>1. Return(Worker) \/ \E t : act' = [act EXCEPT ![Worker].at = "size", ![Worker].todo = t]
        BY <2>1 DEF TrimList
      <3>2. Others /\ Hand
        BY <1>0, <3>1, ReturnElsewhere, EditElsewhere
      <3> QED BY <2>1, <3>2 DEF TrimList, tier2, history, OnDisk
    <2>2. ASSUME TrimSize(Worker) PROVE Still
      <3>1. Return(Worker) \/ \E n : act' = [act EXCEPT ![Worker].at = "remove", ![Worker].num = n]
        BY <2>2 DEF TrimSize
      <3>2. Others /\ Hand
        BY <1>0, <3>1, ReturnElsewhere, EditElsewhere
      <3> QED BY <2>2, <3>2 DEF TrimSize, tier2, history, OnDisk
    <2>3. ASSUME TrimRemove(Worker) PROVE Still
      <3>1. Others /\ Hand
        BY <1>0, <2>3, GoElsewhere DEF TrimRemove
      <3>2. PICK K : disk' = disk \/ disk' = Drop(disk, K)
        BY <2>3 DEF TrimRemove
      <3>3. Disk
        BY <1>0, <3>2, DropShrinks
      <3> QED BY <2>3, <3>1, <3>3 DEF TrimRemove, history
    <2>4. ASSUME TrimErase(Worker) PROVE Still
      <3>1. \E t : act' = [act EXCEPT ![Worker].at = "size", ![Worker].todo = t]
        BY <2>4 DEF TrimErase
      <3>2. Others /\ Hand
        BY <1>0, <3>1, EditElsewhere
      <3> QED BY <2>4, <3>2 DEF TrimErase, history, OnDisk
    <2> QED BY <1>7, <2>1, <2>2, <2>3, <2>4 DEF TrimStep
  <1>8. ASSUME Destroy \/ UNCHANGED vars PROVE Still
    BY <1>8 DEF Destroy, vars, tier2, history, OnDisk
  <1>9. ASSUME Restart PROVE InOrder' /\ PushedByWriter' /\ Disk
    <2>1. \A a \in Actors : act'[a].at \in {"idle", "check"}
      BY <1>9 DEF Restart, NoCalls, NoCall
    <2>2. queue' = <<>> /\ disk' = disk /\ inserts' = inserts
      BY <1>9 DEF Restart
    <2>3. Disk
      BY <2>2 DEF OnDisk
    <2>4. \A k \in Keys : InHand(k)' \subseteq InHand(k) /\ Pushed(k)' \subseteq Pushed(k)
      BY <1>0, <2>1 DEF InHand, Pushed
    <2>5. QueueSorted' /\ \A k \in Keys : Queued(k)' \subseteq Queued(k)
      BY <2>2 DEF QueueSorted, Queued
    <2>6. PushedByWriter'
      BY <1>0, <2>1 DEF PushedByWriter
    <2> QED BY <1>0, <2>2, <2>3, <2>4, <2>5, <2>6, ShrinkKeepsOrder
  <1> HIDE DEF Still
  <1> QED BY <1>1, <1>2, <1>3, <1>4, <1>5, <1>6, <1>7, <1>8, <1>9 DEF WorkerStep

\* The steps of the clients.
LEMMA ClientsKeepOrder ==
  ASSUME TwoTierAssumption, TierInv, InOrder, PushedByWriter, \A v, w \in Writers : v = w,
         NEW c \in Clients, Call(c) \/ CallStep(c)
  PROVE  /\ InOrder' /\ PushedByWriter'
         /\ \A k \in Keys : OnDisk(k)' \subseteq OnDisk(k) \cup InHand(k)
  <1>0. /\ CallsTyped /\ DiskOK /\ queue \in Seq(Job)
        /\ Worker \in Actors /\ Worker \notin Clients /\ Clients \subseteq Actors
        /\ act[Worker].num \in Int
    BY CallIs DEF TierInv, Actors, TwoTierAssumption
  <1>1. ASSUME Push(c)
        PROVE  /\ InOrder' /\ PushedByWriter'
               /\ \A k \in Keys : OnDisk(k)' \subseteq OnDisk(k) \cup InHand(k)
    <2>1. act[c].at = "push" /\ act[c].key \in Keys
      BY <1>0, <1>1, CallIs DEF Push, Known
    <2>2. InOrder'
      BY <1>1, <2>1, PushKeepsOrder DEF InOrder
    <2>3. PushedByWriter'
      <3>1. act'[c].at = "notify" /\ \A b \in Actors \ {c} : act'[b] = act[b]
        BY <1>0, <1>1, GoElsewhere DEF Push
      <3> QED BY <1>0, <3>1 DEF PushedByWriter
    <2> QED BY <1>1, <2>2, <2>3 DEF Push, tier2, OnDisk
  <1>2. ASSUME c \in Writers, NEW j \in Keys, Insert(c, j)
        PROVE  /\ InOrder' /\ PushedByWriter'
               /\ \A k \in Keys : OnDisk(k)' \subseteq OnDisk(k) \cup InHand(k)
    <2>1. InOrder'
      BY <1>2, InsertKeepsOrder DEF InOrder
    <2>2. PushedByWriter'
      <3>1. /\ act'[c].at = "push" /\ \A b \in Actors \ {c} : act'[b] = act[b]
        BY <1>0, <1>2, BeginElsewhere DEF Insert
      <3> QED BY <1>0, <1>2, <3>1 DEF PushedByWriter
    <2> QED BY <1>2, <2>1, <2>2 DEF Insert, tier2, OnDisk
  <1>3. ASSUME Quiet(c)
        PROVE  /\ InOrder' /\ PushedByWriter'
               /\ \A k \in Keys : OnDisk(k)' \subseteq OnDisk(k) \cup InHand(k)
    <2>1. /\ \A b \in Actors \ {c} : act'[b] = act[b]
          /\ act'[c].at # "push"
          /\ \A k : OnDisk(k)' \subseteq OnDisk(k)
          /\ queue' = queue /\ inserts' = inserts
      BY <1>3, QuietClient
    <2>2. \A k \in Keys : OnDisk(k)' \subseteq OnDisk(k) \cup InHand(k)
      BY <2>1
    <2>3. \A k \in Keys : InHand(k)' \subseteq InHand(k)
      BY <1>0, <2>1 DEF InHand
    <2>4. \A k \in Keys : Pushed(k)' \subseteq Pushed(k)
      BY <1>0, <2>1 DEF Pushed
    <2>5. QueueSorted' /\ \A k \in Keys : Queued(k)' \subseteq Queued(k)
      BY <2>1 DEF QueueSorted, Queued, InOrder
    <2>6. PushedByWriter'
      BY <1>0, <2>1 DEF PushedByWriter
    <2> QED BY <1>0, <2>1, <2>2, <2>3, <2>4, <2>5, <2>6, ShrinkKeepsOrder
  <1> QED
    <2>1. (c \in Writers /\ \E j \in Keys : Insert(c, j)) \/ Push(c) \/ Quiet(c)
      BY DEF Call, CallStep, Quiet
    <2> QED BY <1>1, <1>2, <1>3, <2>1

\* The order of the Inserts, if one thread makes them.
LEMMA OrderInvariant ==
  ASSUME \A v, w \in Writers : v = w
  PROVE  Spec => [](TierInv /\ InOrder /\ PushedByWriter)
  <1>1. Init => InOrder /\ PushedByWriter
    <2> SUFFICES ASSUME Init PROVE InOrder /\ PushedByWriter
      OBVIOUS
    <2>1. \A a \in Actors : act[a].at \in {"idle", "check"}
      BY DEF Init, NoCalls, NoCall
    <2>2. queue = <<>> /\ disk = <<>> /\ Worker \in Actors /\ Clients \subseteq Actors
      BY DEF Init, Actors
    <2>3. \A k : OnDisk(k) = {} /\ InHand(k) = {} /\ Queued(k) = {} /\ Pushed(k) = {}
      BY <2>1, <2>2 DEF OnDisk, InHand, Queued, Pushed
    <2>4. QueueSorted
      BY <2>2 DEF QueueSorted
    <2> QED BY <2>1, <2>2, <2>3, <2>4 DEF InOrder, UpTo, PushedByWriter
  <1>2. TierInv /\ InOrder /\ PushedByWriter /\ [Next]_vars => InOrder' /\ PushedByWriter'
    BY TwoTierAssumption, ClientsKeepOrder, OthersKeepOrder DEF Next
  <1> QED BY <1>1, <1>2, TierInvariant, PTL DEF Spec

\* The worker writes the Inserts of a key in their order (DiskCacheStore.cpp:198),
\* if one thread makes them: no blob goes back to an earlier thumbnail while it
\* exists.  Two writers may queue their Inserts the other way round.
THEOREM BlobsNeverGoBack ==
  ASSUME \A v, w \in Writers : v = w
  PROVE  Spec => DiskNeverGoesBack
  <1> DEFINE Forward == \A k \in KeysOf(disk) \cap KeysOf(disk') :
                          EntryOf(disk', k).num >= EntryOf(disk, k).num
  <1>1. TierInv /\ InOrder /\ PushedByWriter /\ TierInv' /\ [Next]_vars => [Forward]_vars
    <2> SUFFICES ASSUME TierInv, InOrder, PushedByWriter, [Next]_vars,
                        NEW k \in KeysOf(disk) \cap KeysOf(disk')
                 PROVE  EntryOf(disk', k).num >= EntryOf(disk, k).num
      OBVIOUS
    <2>1. \A j \in Keys : OnDisk(j)' \subseteq OnDisk(j) \cup InHand(j)
      BY TwoTierAssumption, ClientsKeepOrder, OthersKeepOrder DEF Next
    <2>2. DiskOK /\ CallsTyped /\ k \in Keys
      BY DiskKeys DEF TierInv
    <2>3. PICK i \in DOMAIN disk : EntryOf(disk, k) = disk[i] /\ disk[i].key = k
      BY EntryIsThere
    <2>4. PICK n \in DOMAIN disk' : EntryOf(disk', k) = disk'[n] /\ disk'[n].key = k
      BY EntryIsThere
    <2>5. OnDisk(k) = {disk[i].num}
      BY <2>2, <2>3 DEF OnDisk, DiskOK, Distinct
    <2>6. disk'[n].num \in OnDisk(k)'
      BY <2>4 DEF OnDisk
    <2>7. UpTo(OnDisk(k), InHand(k))
      BY <2>2 DEF InOrder, UpTo
    <2>8. disk[i].num \in Int
      <3>1. disk[i] \in Blob
        BY <2>2 DEF DiskOK
      <3> QED BY <3>1 DEF Blob
    <2>9. InHand(k) \subseteq Int
      BY <2>2, CallIs DEF InHand, Actors
    <2>10. PICK x, y : x = disk[i].num /\ y = disk'[n].num
      OBVIOUS
    <2>11. y = x \/ (y \in Int /\ x <= y)
      BY <2>1, <2>2, <2>5, <2>6, <2>7, <2>9, <2>10 DEF UpTo
    <2> QED BY <2>3, <2>4, <2>8, <2>10, <2>11
  <1> QED BY <1>1, OrderInvariant, PTL DEF DiskNeverGoesBack, Spec

-----------------------------------------------------------------------------
(***************************************************************************)
(* The worker and its queue                                                *)
(***************************************************************************)

\* The destructor runs when no client is in a call, and none can start one
\* after it; the worker leaves, and goes to sleep, with an empty queue; besides
\* the worker only a Flush sleeps.
AwaitInv ==
  /\ stop => \A c \in Clients : act[c] = NoCall
  /\ act[Worker].at = "exited" => stop /\ queue = <<>>
  /\ act[Worker].at = "doze" => queue = <<>>
  /\ Worker \in asleep => act[Worker].at = "check"
  /\ \A a \in asleep \ {Worker} : a \in Clients /\ act[a].at = "flush"
  /\ NoJobSleptOver

\* What the steps of a client do to the queue and the sleepers: only Push,
\* Notify and Flush do anything.
LEMMA ClientSteps ==
  ASSUME TwoTierAssumption, TierInv, NEW c \in Clients, Call(c) \/ CallStep(c)
  PROVE  /\ \A b \in Actors \ {c} : act'[b] = act[b]
         /\ stop' = stop
         /\ act[c].at = "idle" => ~stop
         /\ \/ Push(c) \/ Notify(c) \/ Flush(c)
            \/ queue' = queue /\ asleep' = asleep /\ act[c].at \notin {"notify", "flush"}
  <1> DEFINE Calm == /\ stop' = stop /\ asleep' = asleep
                     /\ act[c].at \notin {"notify", "flush"}
                     /\ act[c].at = "idle" => ~stop
  <1>0. CallsTyped /\ c \in Actors
    BY DEF TierInv, Actors
  <1>1. Free(c) => ~stop /\ act[c].at = "idle"
    BY DEF Free, NoCall
  <1>2. ASSUME Call(c) PROVE Calm
    <2>1. ASSUME NEW k \in Keys, LookupHit(c, k) \/ LookupMiss(c, k) PROVE Calm
      BY <1>1, <2>1 DEF LookupHit, LookupMiss
    <2>2. ASSUME NEW k \in Keys, Insert(c, k) \/ Invalidate(c, k) PROVE Calm
      BY <1>1, <2>2 DEF Insert, Invalidate
    <2>3. ASSUME NEW K \in Folders, InvalidatePrefix(c, K) PROVE Calm
      BY <1>1, <2>3 DEF InvalidatePrefix
    <2>4. ASSUME TrimCall(c) \/ FlushCall(c) PROVE Calm
      BY <1>1, <2>4 DEF TrimCall, FlushCall
    <2> HIDE DEF Calm
    <2> QED BY <1>2, <2>1, <2>2, <2>3, <2>4 DEF Call
  <1>3. ASSUME CallStep(c), ~Push(c), ~Notify(c), ~Flush(c) PROVE Calm
    <2>1. ASSUME Load(c) \/ Promote(c) PROVE Calm
      BY <2>1 DEF Load, Promote
    <2>2. ASSUME TrimStep(c) PROVE Calm
      BY <2>2 DEF TrimStep, TrimList, TrimSize, TrimRemove, TrimErase
    <2>3. ASSUME InvalidateBytes(c) \/ InvalidateBlob(c) \/ InvalidateIndex(c) PROVE Calm
      BY <2>3 DEF InvalidateBytes, InvalidateBlob, InvalidateIndex
    <2>4. ASSUME SweepBytes(c) \/ SweepBlob(c) \/ SweepEnd(c) PROVE Calm
      BY <2>4 DEF SweepBytes, SweepBlob, SweepEnd, Sweeping
    <2> HIDE DEF Calm
    <2> QED BY <1>3, <2>1, <2>2, <2>3, <2>4 DEF CallStep
  <1>4. /\ \A b \in Actors \ {c} : act'[b] = act[b]
        /\ queue' = queue \/ Push(c)
    <2>1. CASE \E k \in Keys : Insert(c, k)
      BY <1>0, <2>1, BeginElsewhere DEF Insert
    <2>2. CASE Push(c)
      BY <1>0, <2>2, GoElsewhere DEF Push
    <2>3. CASE Quiet(c)
      BY <2>3, QuietClient
    <2> QED BY <2>1, <2>2, <2>3 DEF Call, CallStep, Quiet
  <1>5. ASSUME Push(c) \/ Notify(c) \/ Flush(c)
        PROVE  stop' = stop /\ act[c].at # "idle"
    BY <1>5 DEF Push, Notify, Flush
  <1> QED BY <1>2, <1>3, <1>4, <1>5

\* The same of the worker.
LEMMA WorkerSteps ==
  ASSUME TwoTierAssumption, TierInv, WorkerStep \/ TrimStep(Worker)
  PROVE  /\ \A c \in Clients : act'[c] = act[c]
         /\ stop' = stop
         /\ \/ WorkerCheck \/ WorkerWait
            \/ /\ queue' = queue /\ asleep' = asleep
               /\ act[Worker].at \notin {"check", "doze", "exited"}
               /\ act'[Worker].at \notin {"doze", "exited"}
  <1> DEFINE Calm == /\ \A c \in Clients : act'[c] = act[c]
                     /\ stop' = stop /\ queue' = queue /\ asleep' = asleep
                     /\ act[Worker].at \notin {"check", "doze", "exited"}
                     /\ act'[Worker].at \notin {"doze", "exited"}
  <1>0. CallsTyped /\ Worker \in Actors /\ Clients \subseteq Actors \ {Worker}
    BY DEF TierInv, Actors, TwoTierAssumption
  <1>1. ASSUME WorkerCheck
        PROVE  (\A c \in Clients : act'[c] = act[c]) /\ stop' = stop
    <2>1. (\E j : Begin(Worker, "begin", j.key, j.num)) \/ (\E at : Go(Worker, at))
      BY <1>1 DEF WorkerCheck, Take
    <2>2. \A c \in Clients : act'[c] = act[c]
      BY <1>0, <2>1, BeginElsewhere, GoElsewhere
    <2> QED BY <1>1, <2>2 DEF WorkerCheck
  <1>2. ASSUME WorkerWait
        PROVE  (\A c \in Clients : act'[c] = act[c]) /\ stop' = stop
    BY <1>0, <1>2, GoElsewhere DEF WorkerWait
  <1>3. ASSUME WriteBegin \/ WriteEnd \/ Index PROVE Calm
    <2>1. \E at \in {"end", "index", "trim"} : Go(Worker, at)
      BY <1>3 DEF WriteBegin, WriteEnd, Index
    <2>2. (\A c \in Clients : act'[c] = act[c]) /\ act'[Worker].at \notin {"doze", "exited"}
      BY <1>0, <2>1, GoElsewhere
    <2> QED BY <1>3, <2>2 DEF WriteBegin, WriteEnd, Index
  <1>4. ASSUME WriteFails PROVE Calm
    BY <1>0, <1>4, ReturnElsewhere DEF WriteFails
  <1>5. ASSUME TrimStep(Worker) PROVE Calm
    <2> DEFINE Alone == /\ \A c \in Clients : act'[c] = act[c]
                        /\ act'[Worker].at \notin {"doze", "exited"}
    <2>1. ASSUME TrimList(Worker) PROVE Alone
      <3>1. Return(Worker) \/ \E t : act' = [act EXCEPT ![Worker].at = "size", ![Worker].todo = t]
        BY <2>1 DEF TrimList
      <3> QED BY <1>0, <3>1, ReturnElsewhere, EditElsewhere
    <2>2. ASSUME TrimSize(Worker) PROVE Alone
      <3>1. Return(Worker) \/ \E n : act' = [act EXCEPT ![Worker].at = "remove", ![Worker].num = n]
        BY <2>2 DEF TrimSize
      <3> QED BY <1>0, <3>1, ReturnElsewhere, EditElsewhere
    <2>3. ASSUME TrimRemove(Worker) PROVE Alone
      BY <1>0, <2>3, GoElsewhere DEF TrimRemove
    <2>4. ASSUME TrimErase(Worker) PROVE Alone
      <3>1. \E t : act' = [act EXCEPT ![Worker].at = "size", ![Worker].todo = t]
        BY <2>4 DEF TrimErase
      <3> QED BY <1>0, <3>1, EditElsewhere
    <2>5. Alone
      <3> HIDE DEF Alone
      <3> QED BY <1>5, <2>1, <2>2, <2>3, <2>4 DEF TrimStep
    <2>6. /\ stop' = stop /\ queue' = queue /\ asleep' = asleep
          /\ act[Worker].at \notin {"check", "doze", "exited"}
      BY <1>5 DEF TrimStep, TrimList, TrimSize, TrimRemove, TrimErase
    <2> QED BY <2>5, <2>6
  <1> QED BY <1>1, <1>2, <1>3, <1>4, <1>5 DEF WorkerStep

\* A step of a client.
LEMMA ClientsKeepAwait ==
  ASSUME TwoTierAssumption, TierInv, AwaitInv, NEW c \in Clients, Call(c) \/ CallStep(c)
  PROVE  AwaitInv'
  <1>1. /\ \A b \in Actors \ {c} : act'[b] = act[b]
        /\ stop' = stop
        /\ act[c].at = "idle" => ~stop
        /\ \/ Push(c) \/ Notify(c) \/ Flush(c)
           \/ queue' = queue /\ asleep' = asleep /\ act[c].at \notin {"notify", "flush"}
    BY ClientSteps
  <1>2. ~stop /\ ~stop' /\ act[Worker].at # "exited"
    <2>1. act[c] = NoCall => act[c].at = "idle"
      BY DEF NoCall
    <2> QED BY <1>1, <2>1 DEF AwaitInv
  <1>3. c # Worker /\ Clients \subseteq Actors /\ Worker \in Actors /\ Worker \notin Clients
    BY DEF TwoTierAssumption, Actors
  <1>4. act'[Worker] = act[Worker] /\ \A b \in Clients \ {c} : act'[b] = act[b]
    BY <1>1, <1>3
  <1>5. CASE Push(c)
    <2>1. act'[c].at = "notify"
      <3>1. CallsTyped /\ Go(c, "notify")
        BY <1>5 DEF TierInv, Push
      <3> QED BY <1>3, <3>1, GoElsewhere
    <2>2. act[c].at = "push" /\ asleep' = asleep /\ act[Worker].at # "doze"
      BY <1>5 DEF Push, QueueLocked
    <2>3. \A a \in asleep' \ {Worker} : a \in Clients /\ act'[a].at = "flush"
      BY <1>4, <2>2 DEF AwaitInv
    <2>4. Worker \in asleep' => act'[Worker].at = "check"
      BY <1>4, <2>2 DEF AwaitInv
    <2>5. NoJobSleptOver'
      BY <1>2, <1>4, <2>1 DEF NoJobSleptOver
    <2> QED BY <1>2, <1>4, <2>2, <2>3, <2>4, <2>5 DEF AwaitInv
  <1>6. CASE Notify(c)
    <2>1. act[c].at = "notify" /\ queue' = queue /\ NotifyOne
      BY <1>6 DEF Notify
    <2>2. \A a \in asleep \ {Worker} : a \in Clients \ {c} /\ act'[a].at = "flush"
      BY <1>4, <2>1 DEF AwaitInv
    <2>3. asleep' \subseteq asleep
      BY <2>1 DEF NotifyOne
    <2>4. Worker \in asleep' => \E a \in Clients : act'[a].at = "flush"
      BY <2>1, <2>2 DEF NotifyOne
    <2>5. Worker \in asleep' => act'[Worker].at = "check"
      BY <1>4, <2>3 DEF AwaitInv
    <2>6. NoJobSleptOver'
      BY <1>2, <1>4, <2>4 DEF NoJobSleptOver
    <2>7. act'[Worker].at = "doze" => queue' = <<>>
      BY <1>4, <2>1 DEF AwaitInv
    <2> QED BY <1>2, <1>4, <2>2, <2>3, <2>5, <2>6, <2>7 DEF AwaitInv
  <1>7. CASE Flush(c)
    <2>1. /\ act[c].at = "flush" /\ c \notin asleep /\ queue' = queue
          /\ \/ queue = <<>> /\ asleep' = asleep
             \/ act' = act /\ asleep' = asleep \cup {c}
      BY <1>7 DEF Flush
    <2>2. \A a \in asleep' \ {Worker} : a \in Clients /\ act'[a].at = "flush"
      BY <1>4, <2>1 DEF AwaitInv
    <2>3. Worker \in asleep' => act'[Worker].at = "check"
      BY <1>3, <1>4, <2>1 DEF AwaitInv
    <2>4. NoJobSleptOver'
      BY <1>2, <1>4, <2>1 DEF NoJobSleptOver
    <2>5. act'[Worker].at = "doze" => queue' = <<>>
      BY <1>4, <2>1 DEF AwaitInv
    <2> QED BY <1>2, <1>4, <2>2, <2>3, <2>4, <2>5 DEF AwaitInv
  <1>8. CASE queue' = queue /\ asleep' = asleep /\ act[c].at \notin {"notify", "flush"}
    <2>1. \A a \in asleep' \ {Worker} : a \in Clients /\ act'[a].at = "flush"
      BY <1>4, <1>8 DEF AwaitInv
    <2>2. (\E a \in Clients : act[a].at \in {"notify", "flush"}) =>
             \E a \in Clients : act'[a].at \in {"notify", "flush"}
      BY <1>4, <1>8
    <2>3. NoJobSleptOver'
      BY <1>2, <1>4, <1>8, <2>2 DEF NoJobSleptOver, AwaitInv
    <2>4. /\ Worker \in asleep' => act'[Worker].at = "check"
          /\ act'[Worker].at = "doze" => queue' = <<>>
      BY <1>4, <1>8 DEF AwaitInv
    <2> QED BY <1>2, <1>4, <2>1, <2>3, <2>4 DEF AwaitInv
  <1> QED BY <1>1, <1>5, <1>6, <1>7, <1>8

\* A step of the worker.
LEMMA WorkerKeepsAwait ==
  ASSUME TwoTierAssumption, TierInv, AwaitInv, WorkerStep \/ TrimStep(Worker)
  PROVE  AwaitInv'
  <1>1. /\ \A c \in Clients : act'[c] = act[c]
        /\ stop' = stop
        /\ \/ WorkerCheck \/ WorkerWait
           \/ /\ queue' = queue /\ asleep' = asleep
              /\ act[Worker].at \notin {"check", "doze", "exited"}
              /\ act'[Worker].at \notin {"doze", "exited"}
    BY WorkerSteps
  <1>2. CallsTyped /\ Worker \in Actors
    BY DEF TierInv, Actors
  <1>3. CASE WorkerCheck
    <2>1. Worker \notin asleep /\ asleep' = asleep
      BY <1>3 DEF WorkerCheck
    <2>2. CASE queue # <<>>
      <3>1. \E j : Begin(Worker, "begin", j.key, j.num)
        BY <1>3, <2>2 DEF WorkerCheck, Take
      <3>2. act'[Worker].at = "begin"
        BY <1>2, <3>1, BeginElsewhere
      <3> QED BY <1>1, <2>1, <3>2 DEF AwaitInv, NoJobSleptOver
    <2>3. CASE queue = <<>>
      <3>1. queue' = <<>> /\ Go(Worker, IF stop THEN "exited" ELSE "doze")
        BY <1>3, <2>3 DEF WorkerCheck
      <3>2. act'[Worker].at = IF stop THEN "exited" ELSE "doze"
        BY <1>2, <3>1, GoElsewhere
      <3> QED BY <1>1, <2>1, <3>1, <3>2 DEF AwaitInv, NoJobSleptOver
    <2> QED BY <2>2, <2>3
  <1>4. CASE WorkerWait
    <2>1. /\ act[Worker].at = "doze" /\ asleep' = asleep \cup {Worker} /\ queue' = queue
          /\ Go(Worker, "check")
      BY <1>4 DEF WorkerWait
    <2>2. act'[Worker].at = "check"
      BY <1>2, <2>1, GoElsewhere
    <2> QED BY <1>1, <2>1, <2>2 DEF AwaitInv, NoJobSleptOver
  <1>5. CASE /\ queue' = queue /\ asleep' = asleep
             /\ act[Worker].at \notin {"check", "doze", "exited"}
             /\ act'[Worker].at \notin {"doze", "exited"}
    BY <1>1, <1>5 DEF AwaitInv, NoJobSleptOver
  <1> QED BY <1>1, <1>3, <1>4, <1>5

\* No job is left by the worker, and none is slept over (DiskCacheStore.cpp:198-211
\* and 287-295): while a job is queued the worker has not left, and if it sleeps a
\* thread is about to notify it or a Flush waits for the queue to become empty.
THEOREM JobsAreAwaited == Spec => []NoJobSleptOver
  <1>1. Init => AwaitInv
    BY DEF Init, AwaitInv, NoJobSleptOver, NoCalls, NoCall, Actors
  <1>2. TierInv /\ AwaitInv /\ [Next]_vars => AwaitInv'
    <2> SUFFICES ASSUME TierInv, AwaitInv, [Next]_vars PROVE AwaitInv'
      OBVIOUS
    <2>1. CASE \E c \in Clients : Call(c) \/ CallStep(c)
      BY <2>1, TwoTierAssumption, ClientsKeepAwait
    <2>2. CASE WorkerStep \/ TrimStep(Worker)
      BY <2>2, TwoTierAssumption, WorkerKeepsAwait
    <2>3. CASE Destroy
      BY <2>3 DEF Destroy, Free, AwaitInv, NoJobSleptOver
    <2>4. CASE Restart
      <3>1. queue' = <<>> /\ asleep' = {} /\ stop' = FALSE /\ act' = NoCalls
        BY <2>4 DEF Restart
      <3>2. NoCalls[Worker].at = "check"
        BY DEF NoCalls, NoCall, Actors
      <3> QED BY <3>1, <3>2 DEF AwaitInv, NoJobSleptOver
    <2>5. CASE UNCHANGED vars
      BY <2>5 DEF vars, AwaitInv, NoJobSleptOver
    <2> QED BY <2>1, <2>2, <2>3, <2>4, <2>5 DEF Next
  <1>3. AwaitInv => NoJobSleptOver
    BY DEF AwaitInv
  <1> QED BY <1>1, <1>2, <1>3, TierInvariant, PTL DEF Spec
=============================================================================
