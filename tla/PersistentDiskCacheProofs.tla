--------------------- MODULE PersistentDiskCacheProofs ---------------------
(***************************************************************************)
(* Theorems about PersistentDiskCache, for any keys, limits, strategies    *)
(* and clocks.                                                             *)
(***************************************************************************)
EXTENDS PersistentDiskCache, FiniteSetTheorems, TLAPS

-----------------------------------------------------------------------------
(* Lemmas on entries, rows and tables *)

EntryType(n, t) == [num : 1..n, valid : BOOLEAN, written : 0..t, used : 0..t]
RowType(n, t) == [num : 1..n, hit : 0..t]

\* A table: its keys are Keys, and its values have a type.
IsTable(f, T) == DOMAIN f \subseteq Keys /\ \A k \in DOMAIN f : f[k] \in T

\* Taking keys out of a table, or one in, leaves a table.
LEMMA WithoutTable ==
  ASSUME NEW f, NEW T, NEW S, IsTable(f, T)
  PROVE  IsTable(Without(f, S), T)
  BY DEF IsTable, Without

LEMMA WithTable ==
  ASSUME NEW f, NEW T, NEW k \in Keys, NEW v \in T, IsTable(f, T)
  PROVE  IsTable(With(f, k, v), T)
  BY DEF IsTable, With

\* A type that grows keeps its tables.
LEMMA LargerTable ==
  ASSUME NEW f, NEW T, NEW U, T \subseteq U, IsTable(f, T)
  PROVE  IsTable(f, U)
  BY DEF IsTable

LEMMA TypesGrow ==
  ASSUME NEW n \in Nat, NEW t \in Nat
  PROVE  /\ EntryType(n, t) \subseteq EntryType(n + 1, t)
         /\ EntryType(n, t) \subseteq EntryType(n, t + 1)
         /\ RowType(n, t) \subseteq RowType(n + 1, t)
         /\ RowType(n, t) \subseteq RowType(n, t + 1)
  BY DEF EntryType, RowType

LEMMA NewEntry ==
  ASSUME NEW n \in Nat, NEW m \in 1..n, clock \in Nat
  PROVE  Entry(m) \in EntryType(n, clock) /\ Row(m) \in RowType(n, clock)
  BY DEF Entry, Row, EntryType, RowType

-----------------------------------------------------------------------------
(* Types *)

\* TypeOK, with the tables named.
LEMMA TypeTables ==
  TypeOK <=> /\ isOpen \in BOOLEAN /\ loaded \in BOOLEAN /\ (loaded => isOpen)
             /\ strategy \in Strategies
             /\ clock \in 0..MaxClock /\ puts \in 0..MaxPuts /\ latest \in [Keys -> 0..puts]
             /\ IsTable(index, EntryType(puts, clock)) /\ IsTable(rows, RowType(puts, clock))
  BY DEF TypeOK, IsTable, EntryType, RowType

\* What each operation does to the tables keeps them tables.
LEMMA InsertTypes ==
  ASSUME TypeOK, puts < MaxPuts, NEW k \in Keys, NEW S, NEW R, Insert(k, S, R)
  PROVE  /\ puts' \in 0..MaxPuts /\ latest' \in [Keys -> 0..puts']
         /\ IsTable(index', EntryType(puts', clock)) /\ IsTable(rows', RowType(puts', clock))
<1>1. /\ puts \in Nat /\ clock \in Nat /\ MaxPuts \in Nat /\ puts' = puts + 1
      /\ IsTable(index, EntryType(puts, clock)) /\ IsTable(rows, RowType(puts, clock))
  BY TypeTables, PersistentAssumption DEF Insert
<1>2. IsTable(index, EntryType(puts + 1, clock)) /\ IsTable(rows, RowType(puts + 1, clock))
  BY <1>1, TypesGrow, LargerTable
<1>3. Entry(puts + 1) \in EntryType(puts + 1, clock) /\ Row(puts + 1) \in RowType(puts + 1, clock)
  BY <1>1, NewEntry
<1>4. IsTable(index', EntryType(puts', clock))
  BY <1>1, <1>2, <1>3, WithoutTable, WithTable DEF Insert
<1>5. IsTable(rows', RowType(puts', clock))
  <2>1. IsTable(Without(rows, R), RowType(puts + 1, clock))
    BY <1>2, WithoutTable
  <2>2. IsTable(With(Without(rows, R), k, Row(puts + 1)), RowType(puts + 1, clock))
    BY <2>1, <1>3, WithTable
  <2>3. \/ rows' = rows \/ rows' = Without(rows, R)
        \/ rows' = With(Without(rows, R), k, Row(puts + 1))
    BY DEF Insert
  <2>. QED  BY <1>1, <1>2, <2>1, <2>2, <2>3
<1>6. puts' \in 0..MaxPuts /\ latest' \in [Keys -> 0..puts']
  <2>1. latest \in [Keys -> 0..puts] /\ latest' = [latest EXCEPT ![k] = puts + 1]
    BY TypeTables DEF Insert
  <2>. QED  BY <1>1, <2>1
<1>. QED  BY <1>4, <1>5, <1>6

LEMMA TypeStep == TypeOK /\ [Next]_vars => TypeOK'
<1>. SUFFICES ASSUME TypeOK, [Next]_vars
              PROVE  /\ isOpen' \in BOOLEAN /\ loaded' \in BOOLEAN /\ (loaded' => isOpen')
                     /\ strategy' \in Strategies
                     /\ clock' \in 0..MaxClock /\ puts' \in 0..MaxPuts
                     /\ latest' \in [Keys -> 0..puts']
                     /\ IsTable(index', EntryType(puts', clock'))
                     /\ IsTable(rows', RowType(puts', clock'))
  BY TypeTables DEF TypeOK, IsTable, EntryType, RowType
<1>1. /\ clock \in Nat /\ puts \in Nat
      /\ isOpen \in BOOLEAN /\ loaded \in BOOLEAN /\ (loaded => isOpen)
      /\ strategy \in Strategies
      /\ clock \in 0..MaxClock /\ puts \in 0..MaxPuts /\ latest \in [Keys -> 0..puts]
      /\ IsTable(index, EntryType(puts, clock)) /\ IsTable(rows, RowType(puts, clock))
  BY TypeTables, PersistentAssumption
<1>2. CASE UNCHANGED vars
  BY <1>1, <1>2 DEF vars
<1>3. CASE Open
  BY <1>1, <1>3 DEF Open
<1>4. CASE Close
  BY <1>1, <1>4 DEF Close
<1>5. CASE RunEviction
  <2>1. IsTable(index', EntryType(puts, clock)) /\ IsTable(rows', RowType(puts, clock))
    BY <1>1, <1>5, WithoutTable DEF RunEviction
  <2>. QED  BY <1>1, <1>5, <2>1 DEF RunEviction
<1>6. CASE InvalidateStale
  <2>1. IsTable(index', EntryType(puts, clock))
    <3>1. ASSUME NEW k \in DOMAIN index, NEW v \in BOOLEAN
          PROVE  [index[k] EXCEPT !.valid = v] \in EntryType(puts, clock)
      BY <1>1 DEF IsTable, EntryType
    <3>2. DOMAIN index' = DOMAIN index
      BY <1>6 DEF InvalidateStale
    <3>3. \A k \in DOMAIN index :
            index'[k] = [index[k] EXCEPT !.valid = @ /\ clock - index[k].written <= TTL]
      BY <1>6 DEF InvalidateStale
    <3>4. \A k \in DOMAIN index : index'[k] \in EntryType(puts, clock)
      BY <3>1, <3>3
    <3>. QED  BY <1>1, <3>2, <3>4 DEF IsTable
  <2>. QED  BY <1>1, <1>6, <2>1 DEF InvalidateStale
<1>7. CASE Compact
  BY <1>1, <1>7, WithoutTable DEF Compact
<1>8. CASE Kill
  <2>1. IsTable(index', EntryType(puts, clock))
    BY <1>8 DEF Kill, IsTable
  <2>. QED  BY <1>1, <1>8, <2>1 DEF Kill
<1>9. CASE Tick
  <2>1. clock' = clock + 1 /\ clock' \in 0..MaxClock
    BY <1>1, <1>9, PersistentAssumption DEF Tick
  <2>2. IsTable(index, EntryType(puts, clock + 1)) /\ IsTable(rows, RowType(puts, clock + 1))
    BY <1>1, <2>1, TypesGrow, LargerTable
  <2>. QED  BY <1>1, <1>9, <2>1, <2>2 DEF Tick
<1>10. ASSUME NEW k \in Keys, Put(k)
       PROVE  /\ puts' \in 0..MaxPuts /\ latest' \in [Keys -> 0..puts']
              /\ IsTable(index', EntryType(puts', clock'))
              /\ IsTable(rows', RowType(puts', clock'))
              /\ UNCHANGED <<isOpen, loaded, strategy, clock>>
  <2>1. puts < MaxPuts /\ UNCHANGED <<isOpen, loaded, strategy, clock>>
    BY <1>10 DEF Put
  <2>2. PICK S, R : Insert(k, S, R)
    BY <1>10 DEF Put
  <2>. QED  BY <2>1, <2>2, InsertTypes
<1>11. ASSUME NEW p \in Paths, GetIndex(p)
       PROVE  /\ IsTable(index', EntryType(puts, clock))
              /\ UNCHANGED <<isOpen, loaded, strategy, rows, clock, puts, latest>>
  <2>1. ASSUME NEW k \in DOMAIN index
        PROVE  [index[k] EXCEPT !.used = clock] \in EntryType(puts, clock)
    BY <1>1 DEF IsTable, EntryType
  <2>2. index' = [index EXCEPT ![FirstHit(p)] = [index[FirstHit(p)] EXCEPT !.used = clock]]
    BY <1>11 DEF GetIndex
  <2>3. DOMAIN index' = DOMAIN index /\ \A k \in DOMAIN index : index'[k] \in EntryType(puts, clock)
    BY <1>1, <2>1, <2>2 DEF IsTable
  <2>4. UNCHANGED <<isOpen, loaded, strategy, rows, clock, puts, latest>>
    BY <1>11 DEF GetIndex
  <2>. QED  BY <1>1, <2>3, <2>4 DEF IsTable
<1>12. ASSUME NEW p \in Paths, GetTable(p)
       PROVE  /\ IsTable(index', EntryType(puts, clock)) /\ IsTable(rows', RowType(puts, clock))
              /\ UNCHANGED <<isOpen, loaded, strategy, clock, puts, latest>>
  <2>1. PICK k \in KeysOf(p) \cap DOMAIN rows : index' = With(index, k, Entry(rows[k].num))
    BY <1>12 DEF GetTable
  <2>2. Entry(rows[k].num) \in EntryType(puts, clock)
    BY <1>1, NewEntry DEF IsTable, RowType
  <2>3. IsTable(index', EntryType(puts, clock))
    BY <1>1, <2>1, <2>2, WithTable DEF KeysOf
  <2>4. ASSUME NEW x \in DOMAIN rows
        PROVE  [num |-> rows[x].num, hit |-> clock] \in RowType(puts, clock)
    BY <1>1 DEF IsTable, RowType
  <2>5. IsTable([x \in DOMAIN rows |->
                   IF x.path = p THEN [num |-> rows[x].num, hit |-> clock] ELSE rows[x]],
                RowType(puts, clock))
    BY <1>1, <2>4 DEF IsTable
  <2>6. IsTable(rows', RowType(puts, clock))
    BY <1>1, <1>12, <2>5 DEF GetTable, Execute
  <2>7. UNCHANGED <<isOpen, loaded, strategy, clock, puts, latest>>
    BY <1>12 DEF GetTable
  <2>. QED  BY <2>3, <2>6, <2>7
<1>13. ASSUME NEW p \in Paths, Remove(p)
       PROVE  /\ latest' \in [Keys -> 0..puts]
              /\ IsTable(index', EntryType(puts, clock)) /\ IsTable(rows', RowType(puts, clock))
              /\ UNCHANGED <<isOpen, loaded, strategy, clock, puts>>
  <2>1. IsTable(index', EntryType(puts, clock))
    BY <1>1, <1>13, WithoutTable DEF Remove
  <2>2. rows' = rows \/ rows' = Without(rows, KeysOf(p))
    BY <1>13 DEF Remove, Execute
  <2>3. IsTable(rows', RowType(puts, clock))
    BY <1>1, <2>2, WithoutTable
  <2>4. \/ latest' = latest
        \/ latest' = [k \in Keys |-> IF k.path = p THEN 0 ELSE latest[k]]
    BY <1>13 DEF Remove
  <2>5. latest' \in [Keys -> 0..puts]
    BY <1>1, <2>4
  <2>6. UNCHANGED <<isOpen, loaded, strategy, clock, puts>>
    BY <1>13 DEF Remove
  <2>. QED  BY <2>1, <2>3, <2>5, <2>6
<1>14. CASE \E p \in Paths : GetIndex(p)
  BY <1>1, <1>11, <1>14
<1>15. CASE \E p \in Paths : GetTable(p)
  BY <1>1, <1>12, <1>15
<1>16. CASE \E p \in Paths : Remove(p)
  BY <1>1, <1>13, <1>16
<1>17. CASE \E k \in Keys : Put(k)
  BY <1>1, <1>10, <1>17
<1>. QED
  BY <1>2, <1>3, <1>4, <1>5, <1>6, <1>7, <1>8, <1>9, <1>14, <1>15, <1>16, <1>17 DEF Next

LEMMA InitTypes == Init => TypeOK
<1>1. MaxClock \in Nat /\ MaxPuts \in Nat
  BY PersistentAssumption
<1>2. Init => IsTable(index, EntryType(puts, clock)) /\ IsTable(rows, RowType(puts, clock))
  BY DEF Init, IsTable
<1>3. ASSUME Init
      PROVE  /\ isOpen \in BOOLEAN /\ loaded \in BOOLEAN /\ (loaded => isOpen)
             /\ strategy \in Strategies
             /\ clock \in 0..MaxClock /\ puts \in 0..MaxPuts /\ latest \in [Keys -> 0..puts]
  <2>1. isOpen \in BOOLEAN /\ loaded \in BOOLEAN /\ (loaded => isOpen)
    BY <1>3 DEF Init
  <2>2. clock = 0 /\ puts = 0 /\ latest = [k \in Keys |-> 0] /\ strategy \in Strategies
    BY <1>3 DEF Init
  <2>. QED  BY <1>1, <2>1, <2>2
<1>. QED  BY <1>2, <1>3, TypeTables

\* The type invariant.  Every entry and row stands for a Put that has happened, and the
\* table is never used while the cache is closed (Close resets m_sqliteLoaded).
THEOREM TypesCorrect == Spec => []TypeOK
<1>. QED  BY InitTypes, TypeStep, PTL DEF Spec

-----------------------------------------------------------------------------
(* Answers *)

\* Nothing that writes the table fails; what fails may cost a thumbnail its place only.
NoWriteFails == Faults \cap {"open", "put", "delete"} = {}

\* The values of a table at some keys are those of the last Puts.
Current(f, S, m) == \A k \in DOMAIN f \cap S : f[k].num = m[k]

\* The keys of the index that Get can answer with.
Seen == UNION {Visible(p) : p \in Paths}

\* Inductive: an open cache can use its table, so that a Put reaches both tiers, and a
\* Remove of an open cache empties both.
IInv == TypeOK /\ AnswersLatest /\ (isOpen => loaded)

LEMMA AnswersCurrent ==
  ASSUME DOMAIN rows \subseteq Keys
  PROVE  AnswersLatest <=> Current(rows, Keys, latest) /\ Current(index, Seen, latest)
  BY DEF AnswersLatest, Current, Seen

LEMMA WithoutCurrent ==
  ASSUME NEW f, NEW S, NEW m, NEW R, Current(f, S, m)
  PROVE  Current(Without(f, R), S, m)
  BY DEF Current, Without

LEMMA WithCurrent ==
  ASSUME NEW f, NEW S, NEW m, NEW k \in Keys, NEW v, Current(f, S, m), v.num = m[k]
  PROVE  Current(With(f, k, v), S, m)
  BY DEF Current, With

\* A Put writes the number of its thumbnail to both tiers and to the history.
LEMMA InsertCurrent ==
  ASSUME TypeOK, AnswersLatest, loaded, NoWriteFails,
         NEW k \in Keys, NEW S, NEW R, Insert(k, S, R)
  PROVE  Current(rows', Keys, latest') /\ Current(index', Seen, latest')
<1>1. /\ Current(rows, Keys, latest) /\ Current(index, Seen, latest)
      /\ latest \in [Keys -> 0..puts]
  BY AnswersCurrent DEF TypeOK
<1>2. /\ latest' = [latest EXCEPT ![k] = puts + 1]
      /\ index' = With(Without(index, S), k, Entry(puts + 1))
      /\ rows' = With(Without(rows, R), k, Row(puts + 1))
  BY DEF Insert, NoWriteFails
<1>3. Entry(puts + 1).num = puts + 1 /\ Row(puts + 1).num = puts + 1
  BY DEF Entry, Row
<1>. QED  BY <1>1, <1>2, <1>3 DEF Current, With, Without, Seen, Visible, KeysOf

LEMMA AnswerStep ==
  ASSUME NoWriteFails, IInv, [Next]_vars
  PROVE  AnswersLatest' /\ (isOpen' => loaded')
<1>1. /\ Current(rows, Keys, latest) /\ Current(index, Seen, latest)
      /\ DOMAIN rows \subseteq Keys /\ DOMAIN index \subseteq Keys
      /\ latest \in [Keys -> 0..puts] /\ (isOpen => loaded)
  BY AnswersCurrent DEF IInv, TypeOK
<1>2. TypeOK'
  BY TypeStep DEF IInv
<1>3. SUFFICES /\ Current(rows', Keys, latest') /\ Current(index', Seen, latest')
               /\ (isOpen' => loaded')
  <2>1. DOMAIN rows' \subseteq Keys
    BY <1>2 DEF TypeOK
  <2>. QED  BY <1>3, <2>1 DEF AnswersLatest, Current, Seen
<1>4. CASE UNCHANGED vars
  BY <1>1, <1>4 DEF vars
<1>5. CASE Open
  BY <1>1, <1>5 DEF Open, NoWriteFails
<1>6. CASE Close
  BY <1>1, <1>6 DEF Close
<1>7. CASE RunEviction
  <2>1. PICK S, R : index' = Without(index, S) /\ rows' = Without(rows, R)
    BY <1>7 DEF RunEviction
  <2>2. UNCHANGED <<isOpen, loaded, latest>>
    BY <1>7 DEF RunEviction
  <2>. QED  BY <1>1, <2>1, <2>2, WithoutCurrent
<1>8. CASE InvalidateStale
  <2>1. UNCHANGED <<isOpen, loaded, rows, latest>>
    BY <1>8 DEF InvalidateStale
  <2>2. ASSUME NEW k \in DOMAIN index, NEW v
        PROVE  [index[k] EXCEPT !.valid = v].num = index[k].num
    BY DEF IInv, TypeOK
  <2>3. DOMAIN index' = DOMAIN index /\ \A k \in DOMAIN index : index'[k].num = index[k].num
    BY <1>8, <2>2 DEF InvalidateStale
  <2>. QED  BY <1>1, <2>1, <2>3 DEF Current
<1>9. CASE Compact
  BY <1>1, <1>9, WithoutCurrent DEF Compact
<1>10. CASE Kill
  <2>1. Current(index', Seen, latest')
    BY <1>10 DEF Kill, Current
  <2>. QED  BY <1>1, <1>10, <2>1 DEF Kill
<1>11. CASE Tick
  BY <1>1, <1>11 DEF Tick
<1>12. ASSUME NEW k \in Keys, Put(k)
       PROVE  /\ Current(rows', Keys, latest') /\ Current(index', Seen, latest')
              /\ (isOpen' => loaded')
  <2>1. isOpen /\ UNCHANGED <<isOpen, loaded>>
    BY <1>12 DEF Put
  <2>2. PICK S, R : Insert(k, S, R)
    BY <1>12 DEF Put
  <2>. QED  BY <1>1, <2>1, <2>2, InsertCurrent DEF IInv
<1>13. ASSUME NEW p \in Paths, GetIndex(p)
       PROVE  Current(index', Seen, latest) /\ UNCHANGED <<isOpen, loaded, rows, latest>>
  <2>1. UNCHANGED <<isOpen, loaded, rows, latest>>
    BY <1>13 DEF GetIndex
  <2>2. index' = [index EXCEPT ![FirstHit(p)] = [index[FirstHit(p)] EXCEPT !.used = clock]]
    BY <1>13 DEF GetIndex
  <2>3. ASSUME NEW k \in DOMAIN index
        PROVE  [index[k] EXCEPT !.used = clock].num = index[k].num
    BY DEF IInv, TypeOK
  <2>4. DOMAIN index' = DOMAIN index /\ \A k \in DOMAIN index : index'[k].num = index[k].num
    BY <2>2, <2>3
  <2>. QED  BY <1>1, <2>1, <2>4 DEF Current
<1>14. ASSUME NEW p \in Paths, GetTable(p)
       PROVE  /\ Current(index', Seen, latest) /\ Current(rows', Keys, latest)
              /\ UNCHANGED <<isOpen, loaded, latest>>
  <2>1. PICK k \in KeysOf(p) \cap DOMAIN rows : index' = With(index, k, Entry(rows[k].num))
    BY <1>14 DEF GetTable
  <2>2. Entry(rows[k].num).num = latest[k] /\ k \in Keys
    BY <1>1, <2>1 DEF Entry, Current, KeysOf
  <2>3. Current(index', Seen, latest)
    BY <1>1, <2>1, <2>2, WithCurrent
  <2>4. Current([x \in DOMAIN rows |->
                   IF x.path = p THEN [num |-> rows[x].num, hit |-> clock] ELSE rows[x]],
                Keys, latest)
    BY <1>1 DEF Current
  <2>5. Current(rows', Keys, latest)
    BY <1>1, <1>14, <2>4 DEF GetTable, Execute
  <2>6. UNCHANGED <<isOpen, loaded, latest>>
    BY <1>14 DEF GetTable
  <2>. QED  BY <2>3, <2>5, <2>6
<1>15. ASSUME NEW p \in Paths, Remove(p)
       PROVE  /\ Current(index', Seen, latest') /\ Current(rows', Keys, latest')
              /\ UNCHANGED <<isOpen, loaded>>
  <2>1. index' = Without(index, Visible(p)) /\ UNCHANGED <<isOpen, loaded>>
    BY <1>15 DEF Remove
  <2>2. CASE ~loaded
    BY <1>1, <1>15, <2>1, <2>2, WithoutCurrent DEF Remove
  <2>3. CASE loaded
    <3>1. /\ rows' = Without(rows, KeysOf(p))
          /\ latest' = [k \in Keys |-> IF k.path = p THEN 0 ELSE latest[k]]
      BY <1>15, <2>3 DEF Remove, Execute, NoWriteFails
    <3>2. Current(rows', Keys, latest')
      BY <1>1, <3>1 DEF Current, Without, KeysOf
    <3>3. \A k \in Seen \ Visible(p) : k \in Keys /\ k.path # p
      BY DEF Seen, Visible, KeysOf
    <3>4. Current(index', Seen, latest')
      BY <1>1, <2>1, <3>1, <3>3 DEF Current, Without
    <3>. QED  BY <2>1, <3>2, <3>4
  <2>. QED  BY <2>2, <2>3
<1>16. CASE \E k \in Keys : Put(k)
  BY <1>12, <1>16
<1>17. CASE \E p \in Paths : GetIndex(p)
  BY <1>1, <1>13, <1>17
<1>18. CASE \E p \in Paths : GetTable(p)
  BY <1>1, <1>14, <1>18
<1>19. CASE \E p \in Paths : Remove(p)
  BY <1>1, <1>15, <1>19
<1>. QED
  BY <1>4, <1>5, <1>6, <1>7, <1>8, <1>9, <1>10, <1>11, <1>16, <1>17, <1>18, <1>19
     DEF IInv, Next

\* If no write to the table fails, a key is answered with its last Put or not at all: what
\* SqliteGet promotes, what the index describes, what expiry uncovers and what is left after a
\* restart is never older, and a Remove of an open cache is final.  (A Remove of a closed cache
\* leaves the row; see RemoveLeavesNoRow.)
THEOREM AnswersCorrect == ASSUME NoWriteFails PROVE Spec => []AnswersLatest
<1>1. Init => IInv
  <2>1. Init => AnswersLatest /\ (isOpen => loaded)
    BY DEF Init, AnswersLatest
  <2>. QED  BY <2>1, InitTypes DEF IInv
<1>2. IInv /\ [Next]_vars => IInv'
  BY TypeStep, AnswerStep DEF IInv
<1>. QED  BY <1>1, <1>2, PTL DEF Spec, IInv

-----------------------------------------------------------------------------
(* The limit of the index *)

\* The index is always finite: it starts empty and grows by one entry at a time.
Finite == IsFiniteSet(DOMAIN index)

LEMMA WithoutSize ==
  ASSUME NEW f, NEW S, IsFiniteSet(DOMAIN f)
  PROVE  IsFiniteSet(DOMAIN Without(f, S)) /\ Size(Without(f, S)) <= Size(f)
  BY FS_Subset, FS_CardinalityType DEF Without, Size

LEMMA WithSize ==
  ASSUME NEW f, NEW k, NEW v, IsFiniteSet(DOMAIN f)
  PROVE  IsFiniteSet(DOMAIN With(f, k, v)) /\ Size(With(f, k, v)) <= Size(f) + 1
<1>1. DOMAIN With(f, k, v) = DOMAIN f \cup {k}
  BY DEF With
<1>2. Cardinality(DOMAIN f) \in Nat
  BY FS_CardinalityType
<1>. QED  BY <1>1, <1>2, FS_AddElement DEF Size

\* An eviction from an index that is not empty takes at least one entry of it.
LEMMA VictimsExist ==
  ASSUME TypeOK, Finite, Size(index) >= 1, NEW S \in Victims
  PROVE  S \subseteq DOMAIN index /\ S # {}
<1>1. Size(index) \in Nat
  BY FS_CardinalityType DEF Finite, Size
<1>2. Size(index) \div Share \in Nat
  <2>1. Share \in Nat /\ Share > 0
    BY PersistentAssumption
  <2>. QED  BY <1>1, <2>1
<1>3. Target \in Nat /\ Target >= 1
  BY <1>2 DEF Target
<1>4. Least(Target, Size(index)) >= 1 /\ Least(Target, Size(index)) \in Nat
  BY <1>1, <1>3 DEF Least
<1>5. strategy \in {"LRU", "CostAware", "Hybrid"}
  BY PersistentAssumption DEF TypeOK
<1>6. S \in kSubset(Least(Target, Size(index)), DOMAIN index)
  BY <1>5 DEF Victims, EvictLRU, EvictCostAware, Oldest, Size
<1>7. S \in SUBSET (DOMAIN index) /\ Cardinality(S) = Least(Target, Size(index))
  BY <1>6 DEF kSubset
<1>. QED  BY <1>4, <1>7, FS_EmptySet

LEMMA EvictionShrinks ==
  ASSUME TypeOK, Finite, Size(index) >= 1, NEW S \in Victims
  PROVE  Size(Without(index, S)) + 1 <= Size(index)
<1>1. PICK x \in DOMAIN index : x \in S
  BY VictimsExist
<1>2. DOMAIN Without(index, S) \subseteq DOMAIN index \ {x}
  BY <1>1 DEF Without
<1>3. /\ IsFiniteSet(DOMAIN index \ {x})
      /\ Cardinality(DOMAIN index \ {x}) = Cardinality(DOMAIN index) - 1
  BY <1>1, FS_RemoveElement DEF Finite
<1>4. Cardinality(DOMAIN Without(index, S)) <= Cardinality(DOMAIN index \ {x})
  BY <1>2, <1>3, FS_Subset
<1>. QED
  BY <1>2, <1>3, <1>4, FS_Subset, FS_CardinalityType DEF Size, Finite

LEMMA PutSize ==
  ASSUME TypeOK, Finite, NEW k \in Keys, Put(k)
  PROVE  Finite' /\ (Size(index') <= MaxEntries \/ Size(index') <= Size(index))
<1>1. Size(index) \in Nat /\ MaxEntries \in Nat /\ MaxEntries >= 1
  BY FS_CardinalityType, PersistentAssumption DEF Finite, Size
<1>2. CASE Size(index) >= MaxEntries
  <2>1. PICK S \in Victims : index' = With(Without(index, S), k, Entry(puts + 1))
    BY <1>2 DEF Put, Insert
  <2>2. Size(Without(index, S)) + 1 <= Size(index)
    BY <1>1, <1>2, EvictionShrinks
  <2>3. IsFiniteSet(DOMAIN Without(index, S)) /\ Size(Without(index, S)) \in Nat
    BY WithoutSize, FS_CardinalityType DEF Finite, Size
  <2>4. IsFiniteSet(DOMAIN index') /\ Size(index') <= Size(Without(index, S)) + 1
    BY <2>1, <2>3, WithSize
  <2>. QED  BY <1>1, <2>2, <2>3, <2>4, FS_CardinalityType DEF Finite, Size
<1>3. CASE ~(Size(index) >= MaxEntries)
  <2>1. index' = With(Without(index, {}), k, Entry(puts + 1))
    BY <1>3 DEF Put, Insert
  <2>2. IsFiniteSet(DOMAIN Without(index, {})) /\ Size(Without(index, {})) <= Size(index)
    BY WithoutSize DEF Finite
  <2>3. IsFiniteSet(DOMAIN index') /\ Size(index') <= Size(Without(index, {})) + 1
    BY <2>1, <2>2, WithSize
  <2>4. Size(Without(index, {})) \in Nat /\ Size(index') \in Nat
    BY <2>2, <2>3, FS_CardinalityType DEF Size
  <2>. QED  BY <1>1, <1>3, <2>2, <2>3, <2>4 DEF Finite
<1>. QED  BY <1>2, <1>3

LEMMA FiniteStep ==
  ASSUME TypeOK, Finite, [Next]_vars
  PROVE  Finite'
<1>1. CASE DOMAIN index' \subseteq DOMAIN index
  BY <1>1, FS_Subset DEF Finite
<1>2. ASSUME NEW k \in Keys, Put(k) PROVE Finite'
  BY <1>2, PutSize
<1>3. ASSUME NEW p \in Paths, GetTable(p) PROVE Finite'
  <2>1. PICK k : index' = With(index, k, Entry(rows[k].num))
    BY <1>3 DEF GetTable
  <2>. QED  BY <2>1, WithSize DEF Finite
<1>4. ASSUME ~ \E k \in Keys : Put(k), ~ \E p \in Paths : GetTable(p)
      PROVE  DOMAIN index' \subseteq DOMAIN index
  <2>1. CASE UNCHANGED vars
    BY <2>1 DEF vars
  <2>2. CASE Open \/ Close \/ Tick
    BY <2>2 DEF Open, Close, Tick
  <2>3. CASE RunEviction \/ Compact
    BY <2>3 DEF RunEviction, Compact, Without
  <2>4. CASE InvalidateStale
    BY <2>4 DEF InvalidateStale
  <2>5. CASE Kill
    BY <2>5 DEF Kill
  <2>6. CASE \E p \in Paths : GetIndex(p)
    BY <2>6 DEF GetIndex
  <2>7. CASE \E p \in Paths : Remove(p)
    BY <2>7 DEF Remove, Without
  <2>. QED  BY <1>4, <2>1, <2>2, <2>3, <2>4, <2>5, <2>6, <2>7 DEF Next
<1>. QED  BY <1>1, <1>2, <1>3, <1>4

\* Only a Put counts as one: no other step changes puts.
LEMMA OnlyPuts ==
  ASSUME TypeOK, [Next]_vars, puts' # puts
  PROVE  \E k \in Keys : Put(k)
  BY DEF Next, vars, Open, Close, Tick, RunEviction, Compact, InvalidateStale, Kill, GetIndex,
         GetTable, Remove

\* Whatever the strategy, a Put of a full index evicts at least as much as it adds.  Only a
\* promotion by Get can take the index over maxEntries.
THEOREM LimitKept == Spec => PutKeepsLimit
<1>1. Init => Finite
  BY FS_EmptySet DEF Init, Finite
<1>2. TypeOK /\ Finite /\ [Next]_vars => Finite'
  BY FiniteStep
<1>3. TypeOK /\ Finite /\ [Next]_vars =>
        [puts' # puts => Size(index') <= MaxEntries \/ Size(index') <= Size(index)]_vars
  BY OnlyPuts, PutSize
<1>. QED  BY <1>1, <1>2, <1>3, TypesCorrect, PTL DEF Spec, PutKeepsLimit
=============================================================================
