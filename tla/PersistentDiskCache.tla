------------------------ MODULE PersistentDiskCache ------------------------
(***************************************************************************)
(* The persistent cache (Engine/Cache/PersistentDiskCache.cpp): an index   *)
(* in memory (L1) and a table of SQLite (L2), which outlives the process.  *)
(*                                                                         *)
(* Open, Close, Put, Get, Remove, InvalidateStale and Compact hold         *)
(* m_cacheMutex from the first line to the last, so that each is one       *)
(* action. RunEviction takes no lock ("caller must hold m_cacheMutex"),    *)
(* which only Put can do: the public RunEviction is modelled as called     *)
(* while no other operation runs; beside another one it is a data race,    *)
(* and not modelled. What goes wrong here goes wrong between operations:   *)
(* the two tiers evict by different clocks, an entry expires in one of     *)
(* them only, a hit in the table is promoted to the index, the process     *)
(* dies or closes the table while the other tier stays.                    *)
(*                                                                         *)
(* A thumbnail is the number of the Put that brought it.  A row holds its  *)
(* pixels.  An entry of the index holds the width, the height and the rest *)
(* of its description, never the pixels: a Get that finds an entry returns *)
(* true and leaves the data of its caller as it was.  A key is a path and  *)
(* a size; collisions of its 64-bit hash are left out, and so are the      *)
(* statistics, the checksum (stored and never compared) and the warming,   *)
(* which has no effect yet.                                                *)
(***************************************************************************)
EXTENDS Integers, Sequences, FiniteSets, FiniteSetsExt

CONSTANTS
  Keys,       \* the pairs of path and size that thumbnails are stored under
  Looked,     \* the sizes Get looks for in the index, in this order
  MaxEntries, \* maxEntries
  Share,      \* an eviction takes one entry in Share; 10 in the code
  TTL,        \* entryTTLHours, in ticks
  Strategies, \* values of evictionStrategy
  Faults,     \* statements of SQLite that may fail: "open", "put", "hit", "delete", "evict"
  MaxClock, MaxPuts \* bounds

ASSUME PersistentAssumption ==
  /\ Keys \subseteq [path : {k.path : k \in Keys}, size : {k.size : k \in Keys}]
  /\ Looked \in Seq({k.size : k \in Keys})
  /\ MaxEntries \in Nat \ {0} /\ Share \in Nat \ {0}
  /\ TTL \in Nat /\ MaxClock \in Nat /\ MaxPuts \in Nat
  /\ Strategies \subseteq {"LRU", "CostAware", "Hybrid"}

VARIABLES
  isOpen,   \* m_isOpen
  loaded,   \* m_sqliteLoaded: the table can be used
  strategy, \* m_config.evictionStrategy
  index,    \* m_index
  rows,     \* thumbnail_cache
  clock,    \* system_clock, and 'now' of SQLite
  puts,     \* Puts so far
  latest    \* latest[k]: the last Put of k; 0 after a Remove of its path with the table in use

vars == <<isOpen, loaded, strategy, index, rows, clock, puts, latest>>

Paths == {k.path : k \in Keys}
KeysOf(p) == {k \in Keys : k.path = p}
\* The keys at which Get, Contains and Remove look in the index.
Visible(p) == {k \in KeysOf(p) : \E i \in DOMAIN Looked : Looked[i] = k.size}

Without(f, S) == [k \in DOMAIN f \ S |-> f[k]]
With(f, k, v) == [x \in DOMAIN f \cup {k} |-> IF x = k THEN v ELSE f[x]]

\* What the index knows of the n-th thumbnail: its description, not its pixels.
Entry(n) == [num |-> n, valid |-> TRUE, written |-> clock, used |-> clock]
Row(n) == [num |-> n, hit |-> clock]

\* A statement that changes the table, and may fail without the caller noticing.
Execute(statement, result) ==
  rows' \in {result} \cup (IF statement \in Faults THEN {rows} ELSE {})

Init ==
  /\ isOpen = FALSE /\ loaded = FALSE
  /\ strategy \in Strategies
  /\ index = <<>> /\ rows = <<>>
  /\ clock = 0 /\ puts = 0 /\ latest = [k \in Keys |-> 0]

-----------------------------------------------------------------------------
(* Eviction *)

Least(a, b) == IF a <= b THEN a ELSE b
Size(f) == Cardinality(DOMAIN f)

\* Sets of n keys (or all there are) of which none was used later than one outside.
Oldest(time, n) ==
  {S \in kSubset(Least(n, Size(time)), DOMAIN time) :
     \A k \in S, x \in DOMAIN time \ S : time[k] <= time[x]}

EvictLRU(n) == Oldest([k \in DOMAIN index |-> index[k].used], n)

\* The score depends on the costs and sizes of the thumbnails: any order.
EvictCostAware(n) == kSubset(Least(n, Size(index)), DOMAIN index)

Target == IF Size(index) \div Share = 0 THEN 1 ELSE Size(index) \div Share

Victims ==
  CASE strategy = "LRU" -> EvictLRU(Target)
    [] strategy = "CostAware" -> EvictCostAware(Target)
    [] strategy = "Hybrid" ->
         {S \in EvictCostAware(Target) : \E T \in EvictLRU(Target \div 2 + 1) : T \subseteq S}

\* The rows that go with them: the oldest by last_hit, whatever the victims were.
RowVictims ==
  IF ~loaded THEN {{}}
  ELSE Oldest([k \in DOMAIN rows |-> rows[k].hit], Target)
         \cup (IF "evict" \in Faults THEN {{}} ELSE {})

\* RunEviction, called by itself, while no other operation runs.
RunEviction ==
  /\ \E S \in Victims, R \in RowVictims :
       /\ index' = Without(index, S)
       /\ rows' = Without(rows, R)
  /\ UNCHANGED <<isOpen, loaded, strategy, clock, puts, latest>>

-----------------------------------------------------------------------------
(* Operations *)

\* m_index is not touched: it is what it was at the last Close.
Open ==
  /\ ~isOpen
  /\ isOpen' = TRUE
  /\ loaded' \in {TRUE} \cup (IF "open" \in Faults THEN {FALSE} ELSE {})
  /\ UNCHANGED <<strategy, index, rows, clock, puts, latest>>

\* Variant with a defect: the table stays in use after it was closed.
CloseForgotten ==
  /\ isOpen
  /\ isOpen' = FALSE
  /\ UNCHANGED <<loaded, strategy, index, rows, clock, puts, latest>>

Close ==
  /\ isOpen
  /\ isOpen' = FALSE /\ loaded' = FALSE
  /\ UNCHANGED <<strategy, index, rows, clock, puts, latest>>

Insert(k, S, R) ==
  /\ puts' = puts + 1
  /\ latest' = [latest EXCEPT ![k] = puts + 1]
  /\ index' = With(Without(index, S), k, Entry(puts + 1))
  /\ IF loaded
     THEN rows' \in {With(Without(rows, R), k, Row(puts + 1))}
                      \cup (IF "put" \in Faults THEN {Without(rows, R)} ELSE {})
     ELSE UNCHANGED rows

\* Variant with a defect: room is made when the limit has been passed already.
PutLate(k) ==
  /\ isOpen /\ puts < MaxPuts
  /\ IF Size(index) > MaxEntries
     THEN \E S \in Victims, R \in RowVictims : Insert(k, S, R)
     ELSE Insert(k, {}, {})
  /\ UNCHANGED <<isOpen, loaded, strategy, clock>>

Put(k) ==
  /\ isOpen /\ puts < MaxPuts
  /\ IF Size(index) >= MaxEntries
     THEN \E S \in Victims, R \in RowVictims : Insert(k, S, R)
     ELSE Insert(k, {}, {})
  /\ UNCHANGED <<isOpen, loaded, strategy, clock>>

\* The valid entries of p that Get can find, and the one it finds.
Hits(p) == {k \in Visible(p) \cap DOMAIN index : index[k].valid}
FirstHit(p) ==
  LET at(k) == CHOOSE i \in DOMAIN Looked : Looked[i] = k.size
  IN  CHOOSE k \in Hits(p) : \A x \in Hits(p) : at(k) <= at(x)

\* Width and height are answered, and no pixels.
GetIndex(p) ==
  /\ isOpen /\ Hits(p) # {}
  /\ index' = [index EXCEPT ![FirstHit(p)].used = clock]
  /\ UNCHANGED <<isOpen, loaded, strategy, rows, clock, puts, latest>>

\* SqliteGet: the row of the path that was hit last answers, whatever its size, and
\* becomes an entry.  All rows of the path count as hit.
GetTable(p) ==
  /\ isOpen /\ loaded /\ Hits(p) = {}
  /\ \E k \in KeysOf(p) \cap DOMAIN rows :
       /\ \A x \in KeysOf(p) \cap DOMAIN rows : rows[x].hit <= rows[k].hit
       /\ index' = With(index, k, Entry(rows[k].num))
  /\ Execute("hit", [k \in DOMAIN rows |->
                       IF k.path = p THEN [num |-> rows[k].num, hit |-> clock] ELSE rows[k]])
  /\ UNCHANGED <<isOpen, loaded, strategy, clock, puts, latest>>

\* Variant with a defect: the search for entries ends with the first one.
RemoveFirst(p) ==
  /\ index' = Without(index, IF Hits(p) = {} THEN {} ELSE {FirstHit(p)})
  /\ IF loaded
     THEN /\ Execute("delete", Without(rows, KeysOf(p)))
          /\ latest' = [k \in Keys |-> IF k.path = p THEN 0 ELSE latest[k]]
     ELSE UNCHANGED <<rows, latest>>
  /\ UNCHANGED <<isOpen, loaded, strategy, clock, puts>>

\* Entries of other sizes stay in the index.  There is no test of isOpen: a closed cache
\* loses its entries and keeps its rows.
Remove(p) ==
  /\ index' = Without(index, Visible(p))
  /\ IF loaded
     THEN /\ Execute("delete", Without(rows, KeysOf(p)))
          /\ latest' = [k \in Keys |-> IF k.path = p THEN 0 ELSE latest[k]]
     ELSE UNCHANGED <<rows, latest>>
  /\ UNCHANGED <<isOpen, loaded, strategy, clock, puts>>

InvalidateStale ==
  /\ index' = [k \in DOMAIN index |->
                 [index[k] EXCEPT !.valid = @ /\ clock - index[k].written <= TTL]]
  /\ UNCHANGED <<isOpen, loaded, strategy, rows, clock, puts, latest>>

Compact ==
  /\ isOpen
  /\ index' = Without(index, {k \in DOMAIN index : ~index[k].valid})
  /\ UNCHANGED <<isOpen, loaded, strategy, rows, clock, puts, latest>>

\* The process ends at any point, and another one starts with an empty index.
Kill ==
  /\ isOpen' = FALSE /\ loaded' = FALSE /\ index' = <<>>
  /\ strategy' \in Strategies
  /\ UNCHANGED <<rows, clock, puts, latest>>

Tick ==
  /\ clock < MaxClock
  /\ clock' = clock + 1
  /\ UNCHANGED <<isOpen, loaded, strategy, index, rows, puts, latest>>

Next ==
  \/ Open \/ Close \/ RunEviction \/ InvalidateStale \/ Compact \/ Kill \/ Tick
  \/ \E k \in Keys : Put(k)
  \/ \E p \in Paths : GetIndex(p) \/ GetTable(p) \/ Remove(p)

Spec == Init /\ [][Next]_vars

-----------------------------------------------------------------------------
(* Properties *)

\* Types: entries and rows are of Puts that have happened and of times that have been,
\* and the table is used only while the cache is open.
TypeOK ==
  /\ isOpen \in BOOLEAN /\ loaded \in BOOLEAN /\ (loaded => isOpen)
  /\ strategy \in Strategies
  /\ clock \in 0..MaxClock /\ puts \in 0..MaxPuts /\ latest \in [Keys -> 0..puts]
  /\ DOMAIN index \subseteq Keys /\ DOMAIN rows \subseteq Keys
  /\ \A k \in DOMAIN index :
       index[k] \in [num : 1..puts, valid : BOOLEAN, written : 0..clock, used : 0..clock]
  /\ \A k \in DOMAIN rows : rows[k] \in [num : 1..puts, hit : 0..clock]

\* Whatever tier answers for a key, it describes (the index) or brings (the table) the
\* thumbnail of its last Put, and none after a Remove of its path while the table was in use:
\* through promotions, evictions of one tier, expiry, Close, Open and the death of the process,
\* as long as no write to the table fails.  A Remove of a closed cache is not counted: it
\* leaves the row.
AnswersLatest ==
  /\ \A k \in DOMAIN rows : rows[k].num = latest[k]
  /\ \A p \in Paths : \A k \in Visible(p) \cap DOMAIN index : index[k].num = latest[k]

\* What one would expect of Remove and is not so (no run checks it): the path has no row
\* afterwards, for a Get after the next Open to answer.  A closed cache deletes none: TLC finds
\* Open, Put, Close, Remove.
RemoveLeavesNoRow ==
  [][\A p \in Paths : Remove(p) => KeysOf(p) \cap DOMAIN rows' = {}]_vars

\* A Put makes room before it adds an entry: it never takes the index over its limit, and
\* never further over it if promotions have done so.
PutKeepsLimit ==
  [][puts' # puts => Size(index') <= MaxEntries \/ Size(index') <= Size(index)]_vars
=============================================================================
