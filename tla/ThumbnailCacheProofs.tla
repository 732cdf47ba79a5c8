------------------------ MODULE ThumbnailCacheProofs ------------------------
(***************************************************************************)
(* Theorems about ThumbnailCache, for every set of caches, keys, sizes and *)
(* for every limit: the types and the sums of sizes come first, then the   *)
(* index, the counters, the eviction, and the limit.                       *)
(***************************************************************************)
EXTENDS ThumbnailCache, FiniteSetTheorems, TLAPS

\* A Put under way belongs to an initialized cache, and its file is there.
SavedFileExists ==
  \A c \in Caches : saving[c] # NoKey => open[c] /\ saving[c] \in DOMAIN disk

\* Every file loads.
FilesLoad == \A k \in DOMAIN disk : disk[k].good

\* The inductive invariant behind IndexMirrorsDirectory.
IndexInv == ShapeOK /\ IndexMirrorsDirectory /\ SavedFileExists /\ FilesLoad

\* Maps stay maps when entries are dropped.
LEMMA WithoutIsMap ==
  ASSUME NEW f, NEW S, NEW V, NEW D, IsMap(f, S, V)
  PROVE  IsMap(Without(f, D), S, V)
  BY DEF IsMap, Without

\* Maps stay maps when an entry is added or replaced.
LEMMA Put1IsMap ==
  ASSUME NEW f, NEW S, NEW V, NEW k \in S, NEW v \in V, IsMap(f, S, V)
  PROVE  IsMap(Put1(f, k, v), S, V)
  BY DEF IsMap, Put1

\* The empty map is a map.
LEMMA EmptyIsMap ==
  ASSUME NEW S, NEW V
  PROVE  IsMap(EmptyMap, S, V)
  BY DEF IsMap, EmptyMap

\* A Settle leaves the shape of the index and of the directory right.
LEMMA SettleShape ==
  ASSUME NEW c \in Caches, NEW e, NEW b, NEW d, NEW stuck,
         IsMap(e, Keys, EntryInfo), IsMap(d, Keys, File),
         DOMAIN entries = Caches,
         \A x \in Caches : IsMap(entries[x], Keys, EntryInfo),
         Settle(c, e, b, d, stuck)
  PROVE  /\ DOMAIN entries' = Caches
         /\ \A x \in Caches : IsMap(entries'[x], Keys, EntryInfo)
         /\ IsMap(disk', Keys, File)
  <1> DEFINE out == IF b > MaxBytes THEN Victims(e, b, stuck) ELSE {}
  <1>1. /\ entries' = [entries EXCEPT ![c] = Without(e, out)]
        /\ disk' = Without(d, out)
    BY DEF Settle
  <1>2. IsMap(Without(e, out), Keys, EntryInfo) /\ IsMap(Without(d, out), Keys, File)
    BY WithoutIsMap
  <1> HIDE DEF out
  <1> QED BY <1>1, <1>2

\* What OptimizeCache saves again: entries whose file is there, with new sizes; it
\* counts none of the files that are lost.
Renewed(c, new, saved, gone, counted) ==
  /\ Resaved(c, new, saved, gone, counted)
  /\ DOMAIN new \subseteq {k \in DOMAIN entries[c] : Readable(k)}
  /\ \A k \in DOMAIN new : new[k] \in Nat
  /\ counted \subseteq DOMAIN new /\ counted \cap gone = {}
  /\ Faults = {} =>
       /\ DOMAIN new = {k \in DOMAIN entries[c] : Readable(k)}
       /\ saved = DOMAIN new /\ gone = {} /\ counted = DOMAIN new

\* OptimizeCache is such a step.
LEMMA OptimizeIs ==
  ASSUME NEW c \in Caches, OptimizeCache(c)
  PROVE  \E new, saved, gone, counted : Renewed(c, new, saved, gone, counted)
  <1> DEFINE mine == {k \in DOMAIN entries[c] : Readable(k)}
  <1>1. PICK stuck, lost, torn, unread, new :
          /\ stuck \in Undeletable(entries[c])
          /\ lost \in IF "save" \in Faults THEN SUBSET (mine \ stuck) ELSE {{}}
          /\ torn \in SUBSET lost
          /\ unread \in IF "stat" \in Faults THEN SUBSET (mine \ (stuck \cup lost)) ELSE {{}}
          /\ new \in [(mine \ (stuck \cup lost)) \cup torn -> Sizes]
          /\ Resaved(c, new, mine \ (stuck \cup lost), lost \ torn,
                     mine \ (stuck \cup lost \cup unread))
    BY Zenon DEF OptimizeCache
  <1>2. lost \subseteq mine /\ torn \subseteq lost
    BY <1>1
  <1>3. \A k \in DOMAIN new : new[k] \in Nat
    BY <1>1, CacheAssumption
  <1>4. Faults = {} => stuck = {} /\ lost = {} /\ unread = {}
    BY <1>1 DEF Undeletable
  <1> HIDE DEF mine
  <1>5. DOMAIN new = (mine \ (stuck \cup lost)) \cup torn /\ DOMAIN new \subseteq mine
    BY <1>1, <1>2
  <1>6. Faults = {} =>
          /\ DOMAIN new = mine /\ lost \ torn = {}
          /\ mine \ (stuck \cup lost) = mine /\ mine \ (stuck \cup lost \cup unread) = mine
    BY <1>4, <1>5
  <1>7. /\ mine \ (stuck \cup lost \cup unread) \subseteq DOMAIN new
        /\ (mine \ (stuck \cup lost \cup unread)) \cap (lost \ torn) = {}
    BY <1>5
  <1>8. Renewed(c, new, mine \ (stuck \cup lost), lost \ torn,
                mine \ (stuck \cup lost \cup unread))
    BY <1>1, <1>3, <1>5, <1>6, <1>7 DEF mine, Renewed
  <1> QED BY <1>8

\* Maps that agree on the sizes of D.
SameSizes(f, g, D) == \A k \in D : f[k].size = g[k].size

\* Index and directory after it: the entries that it counts have the sizes of their
\* files, the others have kept theirs.
LEMMA ResavedSizes ==
  ASSUME ShapeOK, NEW c \in Caches, NEW new, NEW saved, NEW gone, NEW counted,
         Renewed(c, new, saved, gone, counted)
  PROVE  /\ DOMAIN disk' = DOMAIN disk \ gone /\ counted \subseteq DOMAIN disk'
         /\ DOMAIN entries'[c] = DOMAIN entries[c]
         /\ IsMap(disk', Keys, File) /\ IsMap(entries'[c], Keys, EntryInfo)
         /\ SameSizes(entries'[c], disk', counted)
         /\ SameSizes(entries'[c], entries[c], DOMAIN entries[c] \ counted)
         /\ DOMAIN disk \subseteq DOMAIN new \cap saved => FilesLoad'
  <1>0. /\ Resaved(c, new, saved, gone, counted)
        /\ DOMAIN new \subseteq {k \in DOMAIN entries[c] : Readable(k)}
        /\ \A k \in DOMAIN new : new[k] \in Nat
        /\ counted \subseteq DOMAIN new /\ counted \cap gone = {}
    BY DEF Renewed
  <1>1. DOMAIN disk' = DOMAIN disk \ gone
    BY <1>0 DEF Resaved
  <1>2. counted \subseteq DOMAIN disk'
    BY <1>0, <1>1 DEF Readable
  <1>3. ASSUME NEW k \in DOMAIN disk'
        PROVE  /\ disk'[k] \in File
               /\ k \in DOMAIN new => disk'[k].size = new[k] /\ (k \in saved => disk'[k].good)
    <2>1. disk[k] \in File /\ clock \in Nat
      BY <1>1, CacheAssumption DEF ShapeOK, IsMap
    <2>2. CASE k \in DOMAIN new
      <3>1. disk'[k] = [disk[k] EXCEPT !.size = new[k], !.mtime = clock, !.good = k \in saved]
        BY <1>0, <1>1, <2>2, Zenon DEF Resaved
      <3>2. (k \in saved) \in BOOLEAN
        OBVIOUS
      <3>3. new[k] \in Nat
        BY <1>0, <2>2
      <3>4. ASSUME NEW g \in BOOLEAN
            PROVE  [disk[k] EXCEPT !.size = new[k], !.mtime = clock, !.good = g] \in File
        BY <2>1, <3>3 DEF File
      <3>5. ASSUME NEW g \in BOOLEAN
            PROVE  [disk[k] EXCEPT !.size = new[k], !.mtime = clock, !.good = g].size = new[k]
        BY <2>1 DEF File
      <3>6. ASSUME NEW g \in BOOLEAN, g
            PROVE  [disk[k] EXCEPT !.size = new[k], !.mtime = clock, !.good = g].good
        BY <2>1, <3>6 DEF File
      <3>7. disk'[k] \in File
        BY <3>1, <3>2, <3>4, Zenon
      <3>8. disk'[k].size = new[k]
        BY <3>1, <3>2, <3>5, Zenon
      <3>9. k \in saved => disk'[k].good
        BY <3>1, <3>2, <3>6, Zenon
      <3> QED BY <2>2, <3>7, <3>8, <3>9
    <2>3. CASE k \notin DOMAIN new
      BY <1>0, <1>1, <2>1, <2>3 DEF Resaved
    <2> QED BY <2>2, <2>3
  <1>4. entries'[c] = [k \in DOMAIN entries[c] |->
                         IF k \in counted THEN [entries[c][k] EXCEPT !.size = new[k]]
                         ELSE entries[c][k]]
    BY <1>0 DEF Resaved, ShapeOK
  <1>5. ASSUME NEW k \in DOMAIN entries[c]
        PROVE  /\ entries'[c][k] \in EntryInfo
               /\ k \in counted => entries'[c][k].size = new[k]
               /\ k \notin counted => entries'[c][k].size = entries[c][k].size
    <2>1. entries[c][k] \in EntryInfo
      BY DEF ShapeOK, IsMap
    <2> QED BY <1>0, <1>4, <2>1 DEF EntryInfo
  <1>6. /\ counted \subseteq DOMAIN entries[c] /\ DOMAIN entries'[c] = DOMAIN entries[c]
        /\ entries'[c] = [k \in DOMAIN entries[c] |-> entries'[c][k]]
        /\ disk' = [k \in DOMAIN disk' |-> disk'[k]]
    BY <1>0, <1>4 DEF Resaved
  <1>7. IsMap(disk', Keys, File)
    BY <1>1, <1>3, <1>6 DEF IsMap, ShapeOK
  <1>8. IsMap(entries'[c], Keys, EntryInfo)
    BY <1>5, <1>6 DEF IsMap, ShapeOK
  <1>9. SameSizes(entries'[c], disk', counted)
    <2>1. counted \subseteq DOMAIN new
      BY <1>0
    <2>2. ASSUME NEW k \in counted PROVE entries'[c][k].size = disk'[k].size
      <3>1. disk'[k].size = new[k]
        BY <1>2, <1>3, <2>1
      <3>2. entries'[c][k].size = new[k]
        BY <1>5, <1>6
      <3> QED BY <3>1, <3>2
    <2> QED BY <2>2 DEF SameSizes
  <1>10. SameSizes(entries'[c], entries[c], DOMAIN entries[c] \ counted)
    BY <1>5 DEF SameSizes
  <1>11. DOMAIN disk \subseteq DOMAIN new \cap saved => FilesLoad'
    BY <1>1, <1>3 DEF FilesLoad
  <1> QED BY <1>1, <1>2, <1>6, <1>7, <1>8, <1>9, <1>10, <1>11

\* Without faults no file has the empty key, and the scan reads the whole directory.
LEMMA ScannedAll ==
  ASSUME ShapeOK, Faults = {}
  PROVE  Scanned = DOMAIN disk
  BY CacheAssumption DEF ShapeOK, IsMap, Scanned

\* Every operation of every cache, every fault and every stray change of the
\* directory keeps the types of the state.
THEOREM ShapeCorrect == Spec => []ShapeOK
<1>1. Init => ShapeOK
  BY EmptyIsMap, CacheAssumption DEF Init, ShapeOK
<1>2. ShapeOK /\ [Next]_vars => ShapeOK'
  <2> SUFFICES ASSUME ShapeOK, [Next]_vars PROVE ShapeOK'
    OBVIOUS
  <2> USE DEF ShapeOK
  <2>1. ASSUME NEW c \in Caches, Initialize(c) PROVE ShapeOK'
    <3>1. PICK seen \in SUBSET Scanned :
          \E extra \in {0} \cup {disk[k].size : k \in Scanned \ seen} :
          LET e == [k \in seen |->
                      [size |-> disk[k].size, atime |-> disk[k].mtime + EpochGap]]
          IN  \E stuck \in Undeletable(e) :
                Settle(c, e, SizeOf(disk, seen) + extra, disk, stuck)
      BY <2>1 DEF Initialize
    <3> DEFINE e == [k \in seen |->
                       [size |-> disk[k].size, atime |-> disk[k].mtime + EpochGap]]
    <3>2. IsMap(e, Keys, EntryInfo)
      BY CacheAssumption DEF IsMap, EntryInfo, File, Scanned
    <3>3. PICK extra, stuck : Settle(c, e, SizeOf(disk, seen) + extra, disk, stuck)
      BY <3>1
    <3>4. /\ DOMAIN entries' = Caches
          /\ \A x \in Caches : IsMap(entries'[x], Keys, EntryInfo)
          /\ IsMap(disk', Keys, File)
      <4> HIDE DEF e
      <4> QED BY <3>2, <3>3, SettleShape
    <3> QED BY <2>1, <3>4 DEF Initialize
  <2>2. ASSUME NEW c \in Caches, Shutdown(c) \/ Restart(c) PROVE ShapeOK'
    <3>1. IsMap(EmptyMap, Keys, EntryInfo)
      BY EmptyIsMap
    <3>2. CASE Shutdown(c)
      BY <3>1, <3>2 DEF Shutdown
    <3>3. CASE Restart(c)
      BY <3>1, <3>3 DEF Restart
    <3> QED BY <2>2, <3>2, <3>3
  <2>3. ASSUME NEW c \in Caches, NEW k \in Keys, GetHit(c, k) PROVE ShapeOK'
    <3>1. IsMap([entries[c] EXCEPT ![k].atime = clock], Keys, EntryInfo)
      BY <2>3, CacheAssumption DEF GetHit, IsMap, EntryInfo
    <3>2. entries' = [entries EXCEPT ![c] = [entries[c] EXCEPT ![k].atime = clock]]
      BY <2>3 DEF GetHit
    <3> QED BY <2>3, <3>1, <3>2 DEF GetHit
  <2>4. ASSUME NEW c \in Caches, NEW k \in Keys, GetBroken(c, k) PROVE ShapeOK'
    BY <2>4, WithoutIsMap DEF GetBroken
  <2>5. ASSUME NEW c \in Caches, NEW k \in Keys, NEW img \in Images,
               PutSave(c, k, img) \/ PutTorn(c, k, img)
        PROVE ShapeOK'
    <3>1. PICK s \in Sizes, good \in BOOLEAN :
            disk' = Put1(disk, k, [size |-> s, good |-> good, mtime |-> clock, img |-> img])
      BY <2>5 DEF PutSave, PutTorn
    <3>2. [size |-> s, good |-> good, mtime |-> clock, img |-> img] \in File
      BY CacheAssumption DEF File
    <3>3. IsMap(disk', Keys, File)
      BY <3>1, <3>2, Put1IsMap
    <3> QED BY <2>5, <3>3 DEF PutSave, PutTorn
  <2>6. ASSUME NEW c \in Caches, PutRecord(c) PROVE ShapeOK'
    <3> DEFINE k == saving[c]
               size == IF k \in DOMAIN disk THEN disk[k].size ELSE 0
               e == Put1(entries[c], k, [size |-> size, atime |-> clock])
    <3>1. k \in Keys /\ [size |-> size, atime |-> clock] \in EntryInfo
      BY <2>6, CacheAssumption DEF PutRecord, IsMap, File, EntryInfo
    <3>2. IsMap(e, Keys, EntryInfo)
      BY <3>1, Put1IsMap
    <3>3. PICK stuck : Settle(c, e, bytes[c] - Recorded(c, k) + size, disk, stuck)
      BY <2>6 DEF PutRecord
    <3>4. /\ DOMAIN entries' = Caches
          /\ \A x \in Caches : IsMap(entries'[x], Keys, EntryInfo)
          /\ IsMap(disk', Keys, File)
      <4> HIDE DEF e, size, k
      <4> QED BY <3>2, <3>3, SettleShape
    <3> QED BY <2>6, <3>4 DEF PutRecord
  <2>7. ASSUME NEW c \in Caches, PutUnrecorded(c) PROVE ShapeOK'
    BY <2>7 DEF PutUnrecorded
  <2>8. ASSUME NEW c \in Caches, NEW f \in Paths, Remove(c, f) PROVE ShapeOK'
    BY <2>8, WithoutIsMap DEF Remove
  <2>9. ASSUME NEW c \in Caches, Clear(c) \/ ClearStopped(c) PROVE ShapeOK'
    BY <2>9, WithoutIsMap, EmptyIsMap DEF Clear, ClearStopped
  <2>10. ASSUME NEW c \in Caches, OptimizeCache(c) PROVE ShapeOK'
    <3>1. PICK new, saved, gone, counted : Renewed(c, new, saved, gone, counted)
      BY <2>10, OptimizeIs
    <3>2. IsMap(disk', Keys, File) /\ IsMap(entries'[c], Keys, EntryInfo)
      <4> HIDE DEF ShapeOK
      <4> QED BY <3>1, ResavedSizes
    <3> QED BY <2>10, <3>1, <3>2 DEF OptimizeCache, Renewed, Resaved
  <2>11. ASSUME NEW c \in Caches, DefragmentCache(c) PROVE ShapeOK'
    <3>1. PICK kept \in SUBSET (DOMAIN entries[c] \cap DOMAIN disk) :
            entries' = [entries EXCEPT ![c] = [k \in kept |-> [@[k] EXCEPT !.size = disk[k].size]]]
      BY <2>11 DEF DefragmentCache
    <3>2. IsMap(entries'[c], Keys, EntryInfo)
      BY <3>1 DEF IsMap, File, EntryInfo
    <3> QED BY <2>11, <3>1, <3>2 DEF DefragmentCache
  <2>12. ASSUME NEW k \in Keys, StrayDelete(k) \/ StrayDamage(k) PROVE ShapeOK'
    <3>1. CASE StrayDelete(k)
      BY <3>1, WithoutIsMap DEF StrayDelete
    <3>2. CASE StrayDamage(k)
      <4>1. IsMap(disk', Keys, File)
        <5>1. PICK s \in Sizes : disk' = [disk EXCEPT ![k].good = FALSE, ![k].size = s]
          BY <3>2 DEF StrayDamage
        <5>2. s \in Nat /\ k \in DOMAIN disk /\ disk[k] \in File
          BY <3>2, CacheAssumption DEF StrayDamage, IsMap
        <5>3. [disk[k] EXCEPT !.good = FALSE, !.size = s] \in File
          BY <5>2 DEF File
        <5>4. disk' = [disk EXCEPT ![k] = [disk[k] EXCEPT !.good = FALSE, !.size = s]]
          BY <5>1, <5>2 DEF File, IsMap
        <5> QED BY <5>2, <5>3, <5>4 DEF IsMap
      <4> QED BY <3>2, <4>1 DEF StrayDamage
    <3> QED BY <2>12, <3>1, <3>2
  <2>13. ASSUME Tick PROVE ShapeOK'
    BY <2>13, CacheAssumption DEF Tick
  <2>14. ASSUME UNCHANGED vars PROVE ShapeOK'
    BY <2>14 DEF vars
  <2> QED
    BY <2>1, <2>2, <2>3, <2>4, <2>5, <2>6, <2>7, <2>8, <2>9, <2>10, <2>11,
       <2>12, <2>13, <2>14
    DEF Next, LifeCycle, Access, Maintenance, Environment
<1> QED BY <1>1, <1>2, PTL DEF Spec

-----------------------------------------------------------------------------
\* A Settle keeps the index and the directory in step, if the index it starts
\* from lists the directory and nothing is undeletable: the same keys go from
\* both.
LEMMA SettleMirrors ==
  ASSUME NEW c \in Caches, Caches = {c}, NEW e, NEW b, NEW stuck,
         DOMAIN entries = Caches,
         DOMAIN e = DOMAIN disk,
         \A k \in DOMAIN e : e[k].size = disk[k].size,
         FilesLoad,
         Settle(c, e, b, disk, stuck)
  PROVE  /\ DOMAIN entries'[c] = DOMAIN disk'
         /\ \A k \in DOMAIN entries'[c] : entries'[c][k].size = disk'[k].size
         /\ FilesLoad'
  <1> DEFINE out == IF b > MaxBytes THEN Victims(e, b, stuck) ELSE {}
  <1>1. entries'[c] = Without(e, out) /\ disk' = Without(disk, out)
    BY DEF Settle
  <1> HIDE DEF out
  <1> QED BY <1>1 DEF Without, FilesLoad

\* One process and a sound file system: the index and the directory agree in
\* every reachable state, whatever the keys, the sizes and the limit.  A Put
\* under way is why the invariant has to speak of saving and of its file, and
\* a file that fails to load would leave the index without the directory
\* (GetBroken), which is why it has to say that none does.
LEMMA IndexInvariant ==
  ASSUME NEW c \in Caches, Caches = {c}, Faults = {}
  PROVE  Spec => []IndexInv
<1>1. Init => IndexInv
  <2> SUFFICES ASSUME Init PROVE IndexInv
    OBVIOUS
  <2>1. ShapeOK
    BY EmptyIsMap, CacheAssumption DEF Init, ShapeOK
  <2> QED BY <2>1 DEF Init, IndexInv, IndexMirrorsDirectory, SavedFileExists, FilesLoad, EmptyMap
<1>2. ShapeOK' /\ IndexInv /\ [Next]_vars => IndexInv'
  <2> SUFFICES ASSUME ShapeOK', IndexInv, [Next]_vars PROVE IndexInv'
    OBVIOUS
  <2>0. \A e : Undeletable(e) = {{}}
    BY DEF Undeletable
  <2> USE DEF IndexInv, IndexMirrorsDirectory, SavedFileExists
  <2>1. ASSUME Initialize(c) PROVE IndexInv'
    <3> DEFINE e == [k \in DOMAIN disk |->
                       [size |-> disk[k].size, atime |-> disk[k].mtime + EpochGap]]
    <3>0. Scanned = DOMAIN disk
      BY ScannedAll
    <3>1. PICK b : Settle(c, e, b, disk, {})
      BY <2>0, <2>1, <3>0 DEF Initialize
    <3>2. /\ DOMAIN e = DOMAIN disk
          /\ \A k \in DOMAIN e : e[k].size = disk[k].size
      OBVIOUS
    <3>3. DOMAIN entries = Caches
      BY DEF ShapeOK
    <3>4. /\ DOMAIN entries'[c] = DOMAIN disk'
          /\ \A k \in DOMAIN entries'[c] : entries'[c][k].size = disk'[k].size
          /\ FilesLoad'
      <4> HIDE DEF e
      <4> QED BY <3>1, <3>2, <3>3, SettleMirrors
    <3>5. saving'[c] = NoKey
      BY <2>1 DEF Initialize
    <3> QED BY <3>4, <3>5
  <2>2. ASSUME Shutdown(c) \/ Restart(c) PROVE IndexInv'
    BY <2>2 DEF Shutdown, Restart, ShapeOK, FilesLoad
  <2>3. ASSUME NEW k \in Keys, GetHit(c, k) PROVE IndexInv'
    <3>1. /\ DOMAIN entries'[c] = DOMAIN entries[c]
          /\ \A j \in DOMAIN entries[c] : entries'[c][j].size = entries[c][j].size
      BY <2>3 DEF GetHit, ShapeOK, IsMap, EntryInfo
    <3> QED BY <2>3, <3>1 DEF GetHit, FilesLoad
  <2>4. ASSUME NEW k \in Keys, GetBroken(c, k) PROVE IndexInv'
    BY <2>4 DEF GetBroken, Ready, Readable, FilesLoad
  <2>5. ASSUME NEW k \in Keys, NEW img \in Images, PutSave(c, k, img) PROVE IndexInv'
    <3>1. PICK s : disk' = Put1(disk, k, [size |-> s, good |-> TRUE, mtime |-> clock, img |-> img])
      BY <2>5 DEF PutSave
    <3>2. saving'[c] = k /\ saving[c] = NoKey /\ open'[c] /\ open[c] /\ entries' = entries
      BY <2>5 DEF PutSave, Ready, ShapeOK
    <3>3. NoKey \notin DOMAIN disk
      BY CacheAssumption DEF ShapeOK, IsMap
    <3>4. /\ DOMAIN disk' = DOMAIN disk \cup {k}
          /\ \A j \in DOMAIN disk \ {k} : disk'[j] = disk[j]
          /\ disk'[k].good
      BY <3>1 DEF Put1
    <3>5. FilesLoad'
      BY <3>4 DEF FilesLoad
    <3>6. IndexMirrorsDirectory'
      BY <3>2, <3>3, <3>4
    <3> QED BY <3>2, <3>4, <3>5, <3>6
  <2>6. ASSUME NEW k \in Keys, NEW img \in Images, PutTorn(c, k, img) PROVE IndexInv'
    BY <2>6 DEF PutTorn
  <2>7. ASSUME PutRecord(c) PROVE IndexInv'
    <3> DEFINE k == saving[c]
               size == IF k \in DOMAIN disk THEN disk[k].size ELSE 0
               e == Put1(entries[c], k, [size |-> size, atime |-> clock])
    <3>1. PICK b : Settle(c, e, b, disk, {})
      BY <2>0, <2>7 DEF PutRecord
    <3>2. k # NoKey /\ open[c] /\ k \in DOMAIN disk
      BY <2>7 DEF PutRecord
    <3>3. /\ DOMAIN e = DOMAIN disk
          /\ \A j \in DOMAIN e : e[j].size = disk[j].size
      BY <3>2 DEF Put1
    <3>4. DOMAIN entries = Caches
      BY DEF ShapeOK
    <3>5. /\ DOMAIN entries'[c] = DOMAIN disk'
          /\ \A j \in DOMAIN entries'[c] : entries'[c][j].size = disk'[j].size
          /\ FilesLoad'
      <4> HIDE DEF e, k
      <4> QED BY <3>1, <3>3, <3>4, SettleMirrors
    <3>6. saving'[c] = NoKey
      BY <2>7 DEF PutRecord, ShapeOK
    <3> QED BY <3>5, <3>6
  <2>8. ASSUME PutUnrecorded(c) PROVE IndexInv'
    BY <2>8 DEF PutUnrecorded
  <2>9. ASSUME NEW f \in Paths, Remove(c, f) PROVE IndexInv'
    <3>1. PICK out : /\ entries' = [entries EXCEPT ![c] = Without(@, out)]
                     /\ disk' = Without(disk, out)
      BY <2>9 DEF Remove
    <3>2. open' = open /\ saving' = saving /\ saving[c] = NoKey
      BY <2>9 DEF Remove, Ready
    <3> QED BY <3>1, <3>2 DEF Without, ShapeOK, FilesLoad
  <2>10. ASSUME Clear(c) PROVE IndexInv'
    <3>1. /\ entries'[c] = EmptyMap /\ disk' = Without(disk, DOMAIN entries[c])
          /\ open' = open /\ saving' = saving /\ saving[c] = NoKey /\ open[c]
      BY <2>10 DEF Clear, Ready, ShapeOK
    <3>2. DOMAIN disk = DOMAIN entries[c]
      BY <3>1, CacheAssumption DEF ShapeOK, IsMap
    <3> QED BY <3>1, <3>2 DEF Without, EmptyMap, FilesLoad
  <2>11. ASSUME ClearStopped(c) PROVE IndexInv'
    BY <2>0, <2>11 DEF ClearStopped
  <2>12. ASSUME OptimizeCache(c) PROVE IndexInv'
    <3>1. PICK new, saved, gone, counted : Renewed(c, new, saved, gone, counted)
      BY <2>12, OptimizeIs
    <3>2. open' = open /\ saving' = saving /\ saving[c] = NoKey /\ open[c]
      BY <2>12 DEF OptimizeCache, Ready
    <3>3. DOMAIN new = DOMAIN entries[c] /\ DOMAIN new = DOMAIN disk
      <4>1. NoKey \notin DOMAIN disk
        BY CacheAssumption DEF ShapeOK, IsMap
      <4>2. DOMAIN entries[c] = DOMAIN disk
        BY <3>2, <4>1
      <4> QED BY <3>1, <4>2 DEF Renewed, Readable, FilesLoad
    <3>4. /\ DOMAIN disk' = DOMAIN disk /\ DOMAIN entries'[c] = DOMAIN entries[c]
          /\ \A k \in DOMAIN disk : disk'[k].good
          /\ \A k \in DOMAIN disk : entries'[c][k].size = disk'[k].size
      <4>1. saved = DOMAIN new /\ gone = {} /\ counted = DOMAIN new
        BY <3>1 DEF Renewed
      <4>2. /\ DOMAIN disk' = DOMAIN disk \ gone /\ DOMAIN entries'[c] = DOMAIN entries[c]
            /\ SameSizes(entries'[c], disk', counted)
            /\ DOMAIN disk \subseteq DOMAIN new \cap saved => FilesLoad'
        <5> HIDE DEF IndexMirrorsDirectory, SavedFileExists
        <5> QED BY <3>1, ResavedSizes
      <4> QED BY <3>3, <4>1, <4>2 DEF SameSizes, FilesLoad
    <3> QED BY <3>2, <3>3, <3>4 DEF FilesLoad
  <2>13. ASSUME DefragmentCache(c) PROVE IndexInv'
    <3>1. entries'[c] = [k \in DOMAIN entries[c] \cap DOMAIN disk |->
                           [entries[c][k] EXCEPT !.size = disk[k].size]]
      BY <2>13 DEF DefragmentCache, ShapeOK
    <3>2. open' = open /\ saving' = saving /\ disk' = disk /\ saving[c] = NoKey /\ open[c]
      BY <2>13 DEF DefragmentCache, Ready
    <3>3. DOMAIN entries[c] = DOMAIN disk
      BY <3>2, CacheAssumption DEF ShapeOK, IsMap
    <3>4. \A k \in DOMAIN disk : entries'[c][k].size = disk[k].size
      BY <3>1, <3>3 DEF ShapeOK, IsMap, EntryInfo
    <3> QED BY <3>1, <3>2, <3>3, <3>4 DEF FilesLoad
  <2>14. ASSUME Environment PROVE IndexInv'
    BY <2>14 DEF Environment, Tick, StrayDelete, StrayDamage, FilesLoad
  <2>15. ASSUME UNCHANGED vars PROVE IndexInv'
    BY <2>15 DEF vars, FilesLoad
  <2> QED
    BY <2>1, <2>2, <2>3, <2>4, <2>5, <2>6, <2>7, <2>8, <2>9, <2>10, <2>11,
       <2>12, <2>13, <2>14, <2>15
    DEF Next, LifeCycle, Access, Maintenance
<1> QED BY <1>1, <1>2, ShapeCorrect, PTL DEF Spec

\* The part of it that a run checks.
THEOREM IndexCorrect ==
  ASSUME NEW c \in Caches, Caches = {c}, Faults = {}
  PROVE  Spec => []IndexMirrorsDirectory
<1>1. IndexInv => IndexMirrorsDirectory
  BY DEF IndexInv
<1>2. Spec => []IndexInv
  BY IndexInvariant
<1> QED BY <1>1, <1>2, PTL

-----------------------------------------------------------------------------
(***************************************************************************)
(* Sums of sizes.  MapThenSumSet is defined by a function that recurses    *)
(* over the subsets of a set.  That it exists, and what it yields, is      *)
(* shown by looking at a smallest subset for which it would fail.          *)
(***************************************************************************)

\* One element of a set, the one that the sum takes first.
Pick(s) == CHOOSE x \in s : TRUE

\* it adds up the sizes of the subsets of S.
Adds(it, f, S) ==
  it = [s \in SUBSET S |-> IF s = {} THEN 0 ELSE f[Pick(s)].size + it[s \ {Pick(s)}]]

\* The definition, with the recursive function spelt out.
LEMMA SizeIsChoice == ASSUME NEW f, NEW S
  PROVE SizeOf(f, S) = (CHOOSE it : Adds(it, f, S))[S]
  BY DEF SizeOf, MapThenSumSet, MapThenFoldSet, Adds, Pick

\* Of some subsets of a finite set, one has no other among its own subsets.
LEMMA SmallestSubset ==
  ASSUME NEW S, IsFiniteSet(S), NEW B \in SUBSET SUBSET S, B # {}
  PROVE  \E T \in B : \A U \in B : ~(U \subseteq T /\ U # T)
  <1>1. IsWellFoundedOn(StrictSubsetOrdering(S), FiniteSubsetsOf(S))
    BY FS_StrictSubsetOrderingWellFounded
  <1>2. B \subseteq FiniteSubsetsOf(S)
    BY FS_FiniteSubsetsOfFinite
  <1>3. PICK T \in B : \A U \in B : ~(<<U, T>> \in StrictSubsetOrdering(S))
    <2> HIDE DEF StrictSubsetOrdering, IsWellFoundedOn
    <2> QED BY <1>1, <1>2, WFMin
  <1>4. ASSUME NEW U \in B, U \subseteq T, U # T PROVE FALSE
    BY <1>2, <1>3, <1>4 DEF StrictSubsetOrdering
  <1> QED BY <1>3, <1>4

\* Two such functions agree where both are defined.
LEMMA AddsOnce ==
  ASSUME NEW f, NEW g, NEW h, NEW S, NEW T, NEW D, IsFiniteSet(D), D \subseteq S, D \subseteq T,
         Adds(g, f, S), Adds(h, f, T)
  PROVE  g[D] = h[D]
  <1> DEFINE B == {U \in SUBSET D : g[U] # h[U]}
  <1>1. SUFFICES ASSUME B # {} PROVE FALSE
    OBVIOUS
  <1>2. PICK U \in B : \A V \in B : ~(V \subseteq U /\ V # U)
    <2> B \in SUBSET SUBSET D
      OBVIOUS
    <2> HIDE DEF B
    <2> QED BY <1>1, SmallestSubset
  <1>3. U # {} => g[U \ {Pick(U)}] = h[U \ {Pick(U)}]
    BY <1>2 DEF Pick
  <1>4. /\ g[U] = IF U = {} THEN 0 ELSE f[Pick(U)].size + g[U \ {Pick(U)}]
        /\ h[U] = IF U = {} THEN 0 ELSE f[Pick(U)].size + h[U \ {Pick(U)}]
    BY <1>2 DEF Adds
  <1> QED BY <1>2, <1>3, <1>4

\* There is such a function for every finite set.
LEMMA AddsExists ==
  ASSUME NEW f, NEW S, IsFiniteSet(S)
  PROVE  \E it : Adds(it, f, S)
  <1> DEFINE B == {U \in SUBSET S : ~ \E it : Adds(it, f, U)}
  <1>1. SUFFICES ASSUME B # {} PROVE FALSE
    OBVIOUS
  <1>2. PICK T \in B : \A V \in B : ~(V \subseteq T /\ V # T)
    <2> B \in SUBSET SUBSET S
      OBVIOUS
    <2> HIDE DEF B
    <2> QED BY <1>1, SmallestSubset
  <1>3. ASSUME NEW s, s \subseteq T, s # T
        PROVE  SizeOf(f, s) = IF s = {} THEN 0 ELSE f[Pick(s)].size + SizeOf(f, s \ {Pick(s)})
    <2>1. PICK g : Adds(g, f, s) /\ g[s] = SizeOf(f, s)
      BY <1>2, <1>3, SizeIsChoice
    <2>2. s \ {Pick(s)} \subseteq T /\ (s # {} => s \ {Pick(s)} # T)
      BY <1>3 DEF Pick
    <2>3. CASE s = {}
      BY <2>1, <2>3 DEF Adds
    <2>4. CASE s # {}
      <3>1. PICK h : Adds(h, f, s \ {Pick(s)}) /\ h[s \ {Pick(s)}] = SizeOf(f, s \ {Pick(s)})
        BY <1>2, <2>2, <2>4, SizeIsChoice
      <3>2. IsFiniteSet(s \ {Pick(s)})
        BY <1>3, FS_Subset
      <3>3. g[s \ {Pick(s)}] = h[s \ {Pick(s)}]
        BY <2>1, <3>1, <3>2, AddsOnce
      <3>4. g[s] = f[Pick(s)].size + g[s \ {Pick(s)}]
        BY <2>1, <2>4 DEF Adds
      <3> QED BY <2>1, <2>4, <3>1, <3>3, <3>4
    <2> QED BY <2>3, <2>4
  <1> DEFINE v(s) == IF s = {} THEN 0 ELSE f[Pick(s)].size + SizeOf(f, s \ {Pick(s)})
             h == [s \in SUBSET T |-> v(s)]
  <1>4. ASSUME NEW s \in SUBSET T, s # {}
        PROVE  h[s \ {Pick(s)}] = SizeOf(f, s \ {Pick(s)})
    BY <1>3, <1>4 DEF Pick
  <1>5. Adds(h, f, T)
    BY <1>4 DEF Adds
  <1> QED BY <1>2, <1>5

\* The sum takes one element first and adds up the others.
LEMMA SizeIs ==
  ASSUME NEW f, NEW S, IsFiniteSet(S)
  PROVE  SizeOf(f, S) = IF S = {} THEN 0 ELSE f[Pick(S)].size + SizeOf(f, S \ {Pick(S)})
  <1>1. PICK g : Adds(g, f, S) /\ g[S] = SizeOf(f, S)
    BY AddsExists, SizeIsChoice
  <1>2. CASE S = {}
    BY <1>1, <1>2 DEF Adds
  <1>3. CASE S # {}
    <2>1. IsFiniteSet(S \ {Pick(S)})
      BY FS_Subset
    <2>2. PICK h : Adds(h, f, S \ {Pick(S)}) /\ h[S \ {Pick(S)}] = SizeOf(f, S \ {Pick(S)})
      BY <2>1, AddsExists, SizeIsChoice
    <2>3. g[S \ {Pick(S)}] = h[S \ {Pick(S)}]
      BY <1>1, <2>1, <2>2, AddsOnce
    <2>4. g[S] = f[Pick(S)].size + g[S \ {Pick(S)}]
      BY <1>1, <1>3 DEF Adds
    <2> QED BY <1>1, <1>3, <2>2, <2>3, <2>4
  <1> QED BY <1>2, <1>3

\* The sum of nothing.
LEMMA SizeOfNone == ASSUME NEW f PROVE SizeOf(f, {}) = 0
  BY SizeIs, FS_EmptySet

\* Sums of sizes are sizes.
LEMMA SizeIsNat ==
  ASSUME NEW f, NEW S, IsFiniteSet(S), \A k \in S : f[k].size \in Nat
  PROVE  SizeOf(f, S) \in Nat
  <1> DEFINE B == {U \in SUBSET S : SizeOf(f, U) \notin Nat}
  <1>1. SUFFICES ASSUME B # {} PROVE FALSE
    OBVIOUS
  <1>2. PICK U \in B : \A V \in B : ~(V \subseteq U /\ V # U)
    <2> B \in SUBSET SUBSET S
      OBVIOUS
    <2> HIDE DEF B
    <2> QED BY <1>1, SmallestSubset
  <1>3. SizeOf(f, U) = IF U = {} THEN 0 ELSE f[Pick(U)].size + SizeOf(f, U \ {Pick(U)})
    BY SizeIs, FS_Subset
  <1>4. U # {} => Pick(U) \in S /\ SizeOf(f, U \ {Pick(U)}) \in Nat
    BY <1>2 DEF Pick
  <1> QED BY <1>2, <1>3, <1>4

\* The order in which a sum takes its elements does not matter.
LEMMA SizeWithout ==
  ASSUME NEW f, NEW S, IsFiniteSet(S), \A k \in S : f[k].size \in Nat, NEW k \in S
  PROVE  SizeOf(f, S) = f[k].size + SizeOf(f, S \ {k})
  <1> DEFINE B == {U \in SUBSET S : \E j \in U : SizeOf(f, U) # f[j].size + SizeOf(f, U \ {j})}
  <1>1. SUFFICES ASSUME B # {} PROVE FALSE
    OBVIOUS
  <1>2. PICK U \in B : \A V \in B : ~(V \subseteq U /\ V # U)
    <2> B \in SUBSET SUBSET S
      OBVIOUS
    <2> HIDE DEF B
    <2> QED BY <1>1, SmallestSubset
  <1>3. PICK j \in U : SizeOf(f, U) # f[j].size + SizeOf(f, U \ {j})
    BY <1>2
  <1>4. PICK i : i = Pick(U)
    OBVIOUS
  <1>5. i \in U
    BY <1>3, <1>4 DEF Pick
  <1>6. SizeOf(f, U) = f[i].size + SizeOf(f, U \ {i})
    BY <1>4, <1>5, SizeIs, FS_Subset
  <1>7. i # j
    BY <1>3, <1>6
  <1>8. ASSUME NEW V, V \subseteq U, V # U, NEW m \in V
        PROVE  SizeOf(f, V) = f[m].size + SizeOf(f, V \ {m})
    BY <1>2, <1>8
  <1>9. SizeOf(f, U \ {i}) = f[j].size + SizeOf(f, (U \ {i}) \ {j})
    BY <1>3, <1>5, <1>7, <1>8
  <1>10. SizeOf(f, U \ {j}) = f[i].size + SizeOf(f, (U \ {j}) \ {i})
    BY <1>3, <1>5, <1>7, <1>8
  <1>11. (U \ {i}) \ {j} = (U \ {j}) \ {i}
    OBVIOUS
  <1>12. PICK a, b, c : a = f[i].size /\ b = f[j].size /\ c = SizeOf(f, (U \ {j}) \ {i})
    OBVIOUS
  <1>13. a \in Nat /\ b \in Nat /\ c \in Nat
    <2>1. i \in S /\ j \in S
      BY <1>3, <1>5
    <2>2. IsFiniteSet((U \ {j}) \ {i})
      BY FS_Subset
    <2>3. \A n \in (U \ {j}) \ {i} : f[n].size \in Nat
      OBVIOUS
    <2> QED BY <1>12, <2>1, <2>2, <2>3, SizeIsNat
  <1>14. a + (b + c) # b + (a + c)
    BY <1>3, <1>6, <1>9, <1>10, <1>11, <1>12
  <1> QED BY <1>13, <1>14

\* The bytes of two disjoint sets of keys add up.
LEMMA SizeOfParts ==
  ASSUME NEW f, NEW S, IsFiniteSet(S), \A k \in S : f[k].size \in Nat, NEW D \in SUBSET S
  PROVE  SizeOf(f, S) = SizeOf(f, D) + SizeOf(f, S \ D)
  <1> DEFINE B == {U \in SUBSET D : SizeOf(f, U \cup (S \ D)) # SizeOf(f, U) + SizeOf(f, S \ D)}
  <1>1. SUFFICES ASSUME B # {} PROVE FALSE
    <2> D \notin B => D \cup (S \ D) = S
      OBVIOUS
    <2> QED OBVIOUS
  <1>2. PICK U \in B : \A V \in B : ~(V \subseteq U /\ V # U)
    <2>1. B \in SUBSET SUBSET D
      OBVIOUS
    <2>2. IsFiniteSet(D)
      BY FS_Subset
    <2> HIDE DEF B
    <2> QED BY <1>1, <2>1, <2>2, SmallestSubset
  <1>3. SizeOf(f, S \ D) \in Nat /\ IsFiniteSet(U) /\ IsFiniteSet(U \cup (S \ D))
    BY FS_Subset, SizeIsNat
  <1>4. U # {}
    <2>1. {} \cup (S \ D) = S \ D
      OBVIOUS
    <2>2. SizeOf(f, S \ D) = 0 + SizeOf(f, S \ D)
      BY <1>3
    <2> QED BY <1>2, <2>1, <2>2, SizeOfNone
  <1>5. PICK k \in U : TRUE
    BY <1>4
  <1>6. SizeOf(f, (U \ {k}) \cup (S \ D)) = SizeOf(f, U \ {k}) + SizeOf(f, S \ D)
    <2>1. U \ {k} \in SUBSET D /\ U \ {k} \notin B
      BY <1>2, <1>5
    <2> QED BY <2>1
  <1>7. SizeOf(f, U) = f[k].size + SizeOf(f, U \ {k})
    BY <1>3, <1>5, SizeWithout
  <1>8. SizeOf(f, U \cup (S \ D)) = f[k].size + SizeOf(f, (U \ {k}) \cup (S \ D))
    <2>1. (U \cup (S \ D)) \ {k} = (U \ {k}) \cup (S \ D)
      BY <1>5
    <2> QED BY <1>3, <1>5, <2>1, SizeWithout
  <1>9. f[k].size \in Nat /\ SizeOf(f, U \ {k}) \in Nat
    BY <1>3, <1>5, FS_Subset, SizeIsNat
  <1> QED BY <1>2, <1>3, <1>6, <1>7, <1>8, <1>9

\* Maps that agree on the sizes of a set agree on its sum.
LEMMA SizeDepends ==
  ASSUME NEW f, NEW g, NEW S, IsFiniteSet(S), \A k \in S : f[k].size = g[k].size
  PROVE  SizeOf(f, S) = SizeOf(g, S)
  <1> DEFINE B == {U \in SUBSET S : SizeOf(f, U) # SizeOf(g, U)}
  <1>1. SUFFICES ASSUME B # {} PROVE FALSE
    OBVIOUS
  <1>2. PICK U \in B : \A V \in B : ~(V \subseteq U /\ V # U)
    <2> B \in SUBSET SUBSET S
      OBVIOUS
    <2> HIDE DEF B
    <2> QED BY <1>1, SmallestSubset
  <1>3. /\ SizeOf(f, U) = IF U = {} THEN 0 ELSE f[Pick(U)].size + SizeOf(f, U \ {Pick(U)})
        /\ SizeOf(g, U) = IF U = {} THEN 0 ELSE g[Pick(U)].size + SizeOf(g, U \ {Pick(U)})
    BY SizeIs, FS_Subset
  <1>4. U # {} => Pick(U) \in S /\ SizeOf(f, U \ {Pick(U)}) = SizeOf(g, U \ {Pick(U)})
    BY <1>2 DEF Pick
  <1> QED BY <1>2, <1>3, <1>4

\* The bytes of a whole map, and maps of which they can be taken.
Total(f) == SizeOf(f, DOMAIN f)
Summable(f) == IsFiniteSet(DOMAIN f) /\ \A k \in DOMAIN f : f[k].size \in Nat

\* The bytes of a map are a size.
LEMMA TotalIsNat ==
  ASSUME NEW f, Summable(f)
  PROVE  Total(f) \in Nat
  BY SizeIsNat DEF Total, Summable

\* What is dropped from a map and what is left of it make up the whole.
LEMMA TotalWithout ==
  ASSUME NEW f, NEW D \in SUBSET DOMAIN f, Summable(f)
  PROVE  /\ Summable(Without(f, D))
         /\ SizeOf(f, D) \in Nat /\ Total(Without(f, D)) \in Nat
         /\ Total(f) = SizeOf(f, D) + Total(Without(f, D))
  <1> DEFINE g == Without(f, D)
  <1>1. /\ DOMAIN g = DOMAIN f \ D
        /\ \A k \in DOMAIN g : g[k] = f[k]
    BY DEF Without
  <1>2. IsFiniteSet(DOMAIN f \ D) /\ IsFiniteSet(D)
    BY FS_Subset DEF Summable
  <1>3. Summable(g)
    BY <1>1, <1>2 DEF Summable
  <1>4. SizeOf(f, DOMAIN f \ D) = Total(g)
    <2> HIDE DEF g
    <2> QED BY <1>1, <1>2, SizeDepends DEF Total
  <1>5. Total(f) = SizeOf(f, D) + SizeOf(f, DOMAIN f \ D)
    BY SizeOfParts DEF Total, Summable
  <1>6. SizeOf(f, D) \in Nat
    BY <1>2, SizeIsNat DEF Summable
  <1> QED BY <1>3, <1>4, <1>5, <1>6, TotalIsNat

\* An entry that is added or replaced.
LEMMA TotalPut1 ==
  ASSUME NEW f, NEW k, NEW v, v.size \in Nat, Summable(f)
  PROVE  /\ Summable(Put1(f, k, v))
         /\ Total(Put1(f, k, v)) = v.size + Total(Without(f, {k} \cap DOMAIN f))
  <1> DEFINE g == Put1(f, k, v)
             h == Without(f, {k} \cap DOMAIN f)
  <1>1. /\ DOMAIN g = DOMAIN f \cup {k} /\ g[k] = v
        /\ \A j \in DOMAIN f \ {k} : g[j] = f[j]
        /\ DOMAIN h = DOMAIN f \ {k}
        /\ \A j \in DOMAIN h : h[j] = f[j]
    BY DEF Put1, Without
  <1>2. IsFiniteSet(DOMAIN f \cup {k}) /\ IsFiniteSet(DOMAIN f \ {k})
    BY FS_AddElement, FS_Subset DEF Summable
  <1>3. Summable(g)
    BY <1>1, <1>2 DEF Summable
  <1> HIDE DEF g, h
  <1>4. Total(g) = v.size + SizeOf(g, DOMAIN g \ {k})
    BY <1>1, <1>3, SizeWithout DEF Total, Summable
  <1>5. DOMAIN g \ {k} = DOMAIN h
    BY <1>1
  <1>6. SizeOf(g, DOMAIN h) = Total(h)
    BY <1>1, <1>2, SizeDepends DEF Total
  <1> QED BY <1>3, <1>4, <1>5, <1>6 DEF g, h

\* The empty map.
LEMMA TotalOfEmpty == Summable(EmptyMap) /\ Total(EmptyMap) = 0
  BY SizeOfNone, FS_EmptySet DEF Summable, Total, EmptyMap

\* One key.
LEMMA SizeOfOne ==
  ASSUME NEW f, NEW k, f[k].size \in Nat
  PROVE  SizeOf(f, {k}) = f[k].size
  <1>1. IsFiniteSet({k}) /\ {k} \ {k} = {}
    BY FS_Singleton
  <1>2. SizeOf(f, {k}) = f[k].size + SizeOf(f, {k} \ {k})
    BY <1>1, SizeWithout
  <1> QED BY <1>1, <1>2, SizeOfNone

\* Maps with the same keys and sizes.
LEMMA TotalDepends ==
  ASSUME NEW f, NEW g, Summable(f), DOMAIN g = DOMAIN f, \A k \in DOMAIN f : g[k].size = f[k].size
  PROVE  Summable(g) /\ Total(g) = Total(f)
  BY SizeDepends DEF Summable, Total

-----------------------------------------------------------------------------
(* The byte counters *)

\* The inductive invariant behind BytesCoverEntries: a closed cache has no
\* entries, so that its counter covers them, too.
CoverInv ==
  /\ bytes \in [Caches -> Nat]
  /\ \A c \in Caches : Summable(entries[c]) /\ bytes[c] >= Total(entries[c])
  /\ Summable(disk)

\* A cache whose index and counter are replaced by e and b.
LEMMA ReplacedCovers ==
  ASSUME CoverInv, DOMAIN entries = Caches, NEW c \in Caches, NEW e, NEW b \in Nat,
         Summable(e), b >= Total(e), Summable(disk'),
         entries' = [entries EXCEPT ![c] = e], bytes' = [bytes EXCEPT ![c] = b]
  PROVE  CoverInv'
  <1>1. /\ entries'[c] = e /\ bytes'[c] = b
        /\ \A x \in Caches \ {c} : entries'[x] = entries[x] /\ bytes'[x] = bytes[x]
        /\ bytes' \in [Caches -> Nat]
    BY DEF CoverInv
  <1>2. ASSUME NEW x \in Caches
        PROVE  Summable(entries'[x]) /\ bytes'[x] >= Total(entries'[x])
    <2>1. CASE x = c
      BY <1>1, <2>1
    <2>2. CASE x # c
      BY <1>1, <2>2 DEF CoverInv
    <2> QED BY <2>1, <2>2
  <1>3. (\A x \in Caches : Summable(entries[x]) /\ bytes[x] >= Total(entries[x]))'
    BY <1>2 DEF Summable, Total
  <1>4. Summable(disk)'
    BY DEF Summable
  <1> QED BY <1>1, <1>3, <1>4 DEF CoverInv

\* What happens to the directory alone does not concern the counters.
LEMMA SameIndexCovers ==
  ASSUME CoverInv, entries' = entries, bytes' = bytes, Summable(disk')
  PROVE  CoverInv'
  BY DEF CoverInv, Summable, Total

\* Entries that are subtracted when they are dropped.
LEMMA DroppedCovers ==
  ASSUME NEW e, Summable(e), NEW b \in Nat, b >= Total(e), NEW D \in SUBSET DOMAIN e
  PROVE  /\ b - SizeOf(e, D) \in Nat
         /\ Summable(Without(e, D))
         /\ b - SizeOf(e, D) >= Total(Without(e, D))
  BY TotalWithout

\* A Settle that starts with a sufficient counter ends with one.
LEMMA SettleCovers ==
  ASSUME CoverInv, DOMAIN entries = Caches, NEW c \in Caches, NEW e, NEW b \in Nat, NEW stuck,
         Summable(e), b >= Total(e), Settle(c, e, b, disk, stuck)
  PROVE  CoverInv'
  <1> DEFINE out == IF b > MaxBytes THEN Victims(e, b, stuck) ELSE {}
  <1>1. /\ entries' = [entries EXCEPT ![c] = Without(e, out)]
        /\ bytes' = [bytes EXCEPT ![c] = b - SizeOf(e, out)]
        /\ disk' = Without(disk, out)
    BY DEF Settle
  <1>2. out \in SUBSET DOMAIN e
    BY DEF Victims
  <1> HIDE DEF out
  <1>3. /\ b - SizeOf(e, out) \in Nat
        /\ Summable(Without(e, out))
        /\ b - SizeOf(e, out) >= Total(Without(e, out))
    BY <1>2, DroppedCovers
  <1>4. Summable(disk')
    BY <1>1, FS_Difference DEF Summable, CoverInv, Without
  <1> QED BY <1>1, <1>3, <1>4, ReplacedCovers

\* At the start nothing is counted.
LEMMA CoverInit == Init => CoverInv
  <1> SUFFICES ASSUME Init PROVE CoverInv
    OBVIOUS
  <1>1. Summable(disk) /\ \A c \in Caches : Summable(entries[c]) /\ Total(entries[c]) = 0
    BY TotalOfEmpty DEF Init
  <1> QED BY <1>1 DEF CoverInv, Init

\* What the types say about keys and sizes.
LEMMA SizesAreNat ==
  ASSUME ShapeOK
  PROVE  /\ \A c \in Caches : \A k \in DOMAIN entries[c] : k \in Keys /\ entries[c][k].size \in Nat
         /\ \A k \in DOMAIN disk : k \in Keys /\ disk[k].size \in Nat
  BY DEF ShapeOK, IsMap, EntryInfo, File

\* The size, the index and the counter that the bookkeeping of a Put settles on.
RecordSize(c) == IF saving[c] \in DOMAIN disk THEN disk[saving[c]].size ELSE 0
RecordIndex(c) == Put1(entries[c], saving[c], [size |-> RecordSize(c), atime |-> clock])
RecordBytes(c) == bytes[c] - Recorded(c, saving[c]) + RecordSize(c)

\* PutRecord in these terms.
LEMMA RecordIs ==
  ASSUME NEW c, PutRecord(c)
  PROVE  /\ saving[c] # NoKey
         /\ \E stuck \in Undeletable(RecordIndex(c)) :
              Settle(c, RecordIndex(c), RecordBytes(c), disk, stuck)
  BY DEF PutRecord, RecordSize, RecordIndex, RecordBytes

\* Neither subtraction of the bookkeeping wraps, and its counter suffices.
LEMMA RecordCovers ==
  ASSUME ShapeOK, CoverInv, NEW c \in Caches, saving[c] # NoKey
  PROVE  /\ IsMap(RecordIndex(c), Keys, EntryInfo) /\ Summable(RecordIndex(c))
         /\ bytes[c] - Recorded(c, saving[c]) \in Nat
         /\ RecordBytes(c) \in Nat /\ RecordBytes(c) >= Total(RecordIndex(c))
         /\ bytes[c] = Total(entries[c]) => RecordBytes(c) = Total(RecordIndex(c))
  <1> DEFINE k == saving[c]
             old == {k} \cap DOMAIN entries[c]
  <1>1. /\ RecordSize(c) \in Nat /\ k \in Keys /\ clock \in Nat
        /\ bytes[c] \in Nat /\ Summable(entries[c]) /\ bytes[c] >= Total(entries[c])
    BY SizesAreNat, CacheAssumption DEF RecordSize, ShapeOK, CoverInv
  <1>2. IsMap(RecordIndex(c), Keys, EntryInfo)
    <2>1. [size |-> RecordSize(c), atime |-> clock] \in EntryInfo
      BY <1>1 DEF EntryInfo
    <2> QED BY <1>1, <2>1, Put1IsMap DEF RecordIndex, ShapeOK
  <1>3. /\ Summable(RecordIndex(c))
        /\ Total(RecordIndex(c)) = RecordSize(c) + Total(Without(entries[c], old))
    BY <1>1, TotalPut1 DEF RecordIndex
  <1>4. Recorded(c, k) = SizeOf(entries[c], old)
    <2>1. CASE k \in DOMAIN entries[c]
      <3>1. old = {k}
        BY <2>1
      <3> QED BY <2>1, <3>1, SizesAreNat, SizeOfOne DEF Recorded
    <2>2. CASE k \notin DOMAIN entries[c]
      <3>1. old = {}
        BY <2>2
      <3> QED BY <2>2, <3>1, SizeOfNone DEF Recorded
    <2> QED BY <2>1, <2>2
  <1>5. /\ SizeOf(entries[c], old) \in Nat /\ Total(Without(entries[c], old)) \in Nat
        /\ Total(entries[c]) = SizeOf(entries[c], old) + Total(Without(entries[c], old))
    BY <1>1, TotalWithout
  <1> HIDE DEF old
  <1> QED BY <1>1, <1>2, <1>3, <1>4, <1>5 DEF RecordBytes

\* Every operation subtracts what it drops and adds what it records.
LEMMA CoverNext == ShapeOK /\ ShapeOK' /\ CoverInv /\ [Next]_vars => CoverInv'
  <1> SUFFICES ASSUME ShapeOK, ShapeOK', CoverInv, [Next]_vars PROVE CoverInv'
    OBVIOUS
  <1>0. /\ DOMAIN entries = Caches
        /\ \A c \in Caches : bytes[c] \in Nat /\ Summable(entries[c]) /\ bytes[c] >= Total(entries[c])
        /\ Summable(disk)
    BY CacheAssumption DEF ShapeOK, CoverInv
  <1>1. ASSUME NEW c \in Caches, Initialize(c) PROVE CoverInv'
    <2>1. PICK seen \in SUBSET Scanned :
          \E extra \in {0} \cup {disk[k].size : k \in Scanned \ seen} :
          LET e == [k \in seen |->
                      [size |-> disk[k].size, atime |-> disk[k].mtime + EpochGap]]
          IN  \E stuck \in Undeletable(e) :
                Settle(c, e, SizeOf(disk, seen) + extra, disk, stuck)
      BY <1>1 DEF Initialize
    <2> DEFINE e == [k \in seen |->
                       [size |-> disk[k].size, atime |-> disk[k].mtime + EpochGap]]
    <2>2. PICK extra \in {0} \cup {disk[k].size : k \in Scanned \ seen} :
            \E stuck : Settle(c, e, SizeOf(disk, seen) + extra, disk, stuck)
      BY <2>1
    <2>3. extra \in Nat
      BY SizesAreNat DEF Scanned
    <2>4. /\ DOMAIN e = seen /\ IsFiniteSet(seen)
          /\ \A k \in seen : e[k].size = disk[k].size /\ e[k].size \in Nat
      BY <1>0, SizesAreNat, FS_Subset DEF Summable, Scanned
    <2> HIDE DEF e
    <2>5. Summable(e) /\ Total(e) = SizeOf(disk, seen)
      BY <2>4, SizeDepends DEF Summable, Total
    <2>6. SizeOf(disk, seen) \in Nat
      BY <2>5, TotalIsNat
    <2> QED BY <1>0, <2>2, <2>3, <2>5, <2>6, SettleCovers
  <1>2. ASSUME NEW c \in Caches, Shutdown(c) \/ Restart(c) PROVE CoverInv'
    <2>1. PICK b \in {0, bytes[c]} : bytes' = [bytes EXCEPT ![c] = b]
      BY <1>2 DEF Shutdown, Restart, CoverInv
    <2>2. b \in Nat /\ b >= Total(EmptyMap)
      BY <1>0, TotalOfEmpty
    <2>3. entries' = [entries EXCEPT ![c] = EmptyMap] /\ Summable(disk')
      BY <1>0, <1>2 DEF Shutdown, Restart
    <2> QED BY <1>0, <2>1, <2>2, <2>3, TotalOfEmpty, ReplacedCovers
  <1>3. ASSUME NEW c \in Caches, NEW k \in Keys, GetHit(c, k) PROVE CoverInv'
    <2> DEFINE e == [entries[c] EXCEPT ![k].atime = clock]
    <2>1. entries' = [entries EXCEPT ![c] = e] /\ bytes' = [bytes EXCEPT ![c] = bytes[c]]
      BY <1>3 DEF GetHit, CoverInv
    <2>2. DOMAIN e = DOMAIN entries[c] /\ \A j \in DOMAIN entries[c] : e[j].size = entries[c][j].size
      BY <1>3 DEF GetHit, ShapeOK, IsMap, EntryInfo
    <2>3. Summable(e) /\ Total(e) = Total(entries[c])
      <3> HIDE DEF e
      <3> QED BY <1>0, <2>2, TotalDepends
    <2>4. Summable(disk')
      BY <1>0, <1>3 DEF GetHit
    <2> HIDE DEF e
    <2> QED BY <1>0, <2>1, <2>3, <2>4, ReplacedCovers
  <1>4. ASSUME NEW c \in Caches, NEW k \in Keys, GetBroken(c, k) PROVE CoverInv'
    <2>1. k \in DOMAIN entries[c] /\ disk' = disk
      BY <1>4 DEF GetBroken
    <2>2. SizeOf(entries[c], {k}) = entries[c][k].size
      BY <2>1, SizesAreNat, SizeOfOne
    <2>3. /\ entries' = [entries EXCEPT ![c] = Without(entries[c], {k})]
          /\ bytes' = [bytes EXCEPT ![c] = bytes[c] - SizeOf(entries[c], {k})]
      BY <1>4, <2>2 DEF GetBroken
    <2>4. /\ bytes[c] - SizeOf(entries[c], {k}) \in Nat
          /\ Summable(Without(entries[c], {k}))
          /\ bytes[c] - SizeOf(entries[c], {k}) >= Total(Without(entries[c], {k}))
      BY <1>0, <2>1, DroppedCovers
    <2> QED BY <1>0, <2>1, <2>3, <2>4, ReplacedCovers
  <1>5. ASSUME NEW c \in Caches, NEW k \in Keys, NEW img \in Images,
               PutSave(c, k, img) \/ PutTorn(c, k, img)
        PROVE  CoverInv'
    <2>1. PICK s \in Sizes, good \in BOOLEAN :
            disk' = Put1(disk, k, [size |-> s, good |-> good, mtime |-> clock, img |-> img])
      BY <1>5 DEF PutSave, PutTorn
    <2>2. s \in Nat
      BY CacheAssumption
    <2>3. Summable(disk')
      BY <1>0, <2>1, <2>2, TotalPut1
    <2> QED BY <1>5, <2>3, SameIndexCovers DEF PutSave, PutTorn
  <1>6. ASSUME NEW c \in Caches, PutRecord(c) PROVE CoverInv'
    <2>1. PICK stuck : Settle(c, RecordIndex(c), RecordBytes(c), disk, stuck)
      BY <1>6, RecordIs
    <2>2. saving[c] # NoKey
      BY <1>6, RecordIs
    <2> QED BY <1>0, <2>1, <2>2, RecordCovers, SettleCovers
  <1>7. ASSUME NEW c \in Caches, PutUnrecorded(c) \/ ClearStopped(c) PROVE CoverInv'
    <2>1. entries' = entries /\ bytes' = bytes
      BY <1>7 DEF PutUnrecorded, ClearStopped
    <2>2. PICK D : disk' = disk \/ disk' = Without(disk, D)
      BY <1>7 DEF PutUnrecorded, ClearStopped
    <2>3. Summable(disk')
      BY <1>0, <2>2, FS_Difference DEF Summable, Without
    <2> QED BY <2>1, <2>3, SameIndexCovers
  <1>8. ASSUME NEW c \in Caches, NEW f \in Paths, Remove(c, f) PROVE CoverInv'
    <2>1. PICK out \in SUBSET DOMAIN entries[c] :
            /\ entries' = [entries EXCEPT ![c] = Without(entries[c], out)]
            /\ bytes' = [bytes EXCEPT ![c] = bytes[c] - SizeOf(entries[c], out)]
            /\ disk' = Without(disk, out)
      BY <1>8 DEF Remove, RemovedBy
    <2>2. Summable(disk')
      BY <1>0, <2>1, FS_Difference DEF Summable, Without
    <2>3. /\ bytes[c] - SizeOf(entries[c], out) \in Nat
          /\ Summable(Without(entries[c], out))
          /\ bytes[c] - SizeOf(entries[c], out) >= Total(Without(entries[c], out))
      BY <1>0, DroppedCovers
    <2> QED BY <1>0, <2>1, <2>2, <2>3, ReplacedCovers
  <1>9. ASSUME NEW c \in Caches, Clear(c) PROVE CoverInv'
    <2>1. Summable(disk')
      BY <1>0, <1>9, FS_Difference DEF Clear, Summable, Without
    <2>2. 0 \in Nat /\ 0 >= Total(EmptyMap)
      BY TotalOfEmpty
    <2>3. entries' = [entries EXCEPT ![c] = EmptyMap] /\ bytes' = [bytes EXCEPT ![c] = 0]
      BY <1>9 DEF Clear
    <2> QED BY <1>0, <2>1, <2>2, <2>3, TotalOfEmpty, ReplacedCovers
  <1>10. ASSUME NEW c \in Caches, OptimizeCache(c) PROVE CoverInv'
    <2>1. PICK new, saved, gone, X : Renewed(c, new, saved, gone, X)
      BY <1>10, OptimizeIs
    <2>a. PICK old, e : old = entries[c] /\ e = entries'[c]
      OBVIOUS
    <2> DEFINE b == bytes[c] - SizeOf(old, X) + SizeOf(disk', X)
    <2>2. /\ DOMAIN disk' = DOMAIN disk \ gone
          /\ entries' = [entries EXCEPT ![c] = e]
          /\ bytes' = [bytes EXCEPT ![c] = b]
      BY <1>0, <2>1, <2>a DEF Renewed, Resaved
    <2> HIDE DEF b
    <2>3. Summable(disk')
      <3>1. \A k \in DOMAIN disk' : disk'[k].size \in Nat
        BY DEF ShapeOK, IsMap, File
      <3>2. IsFiniteSet(DOMAIN disk')
        BY <1>0, <2>2, FS_Difference DEF Summable
      <3> QED BY <3>1, <3>2 DEF Summable
    <2>4. X \subseteq DOMAIN old /\ X \subseteq DOMAIN new /\ X \subseteq DOMAIN disk'
      BY <2>1, <2>2, <2>a DEF Renewed, Readable
    <2>5. /\ DOMAIN e = DOMAIN old
          /\ \A k \in X : e[k].size = disk'[k].size
          /\ \A k \in DOMAIN old \ X : e[k].size = old[k].size
      <3>1. /\ DOMAIN entries'[c] = DOMAIN entries[c]
            /\ SameSizes(entries'[c], disk', X)
            /\ SameSizes(entries'[c], entries[c], DOMAIN entries[c] \ X)
        BY <2>1, ResavedSizes
      <3> QED BY <2>a, <3>1 DEF SameSizes
    <2>6. Summable(old) /\ IsFiniteSet(X) /\ IsFiniteSet(DOMAIN old \ X)
      BY <1>0, <2>4, <2>a, FS_Subset DEF Summable
    <2>7. Summable(e)
      BY <2>3, <2>4, <2>5, <2>6 DEF Summable
    <2>8. /\ Total(e) = SizeOf(e, X) + SizeOf(e, DOMAIN old \ X)
          /\ Total(old) = SizeOf(old, X) + SizeOf(old, DOMAIN old \ X)
      BY <2>4, <2>5, <2>6, <2>7, SizeOfParts DEF Summable, Total
    <2>9. SizeOf(e, X) = SizeOf(disk', X) /\ SizeOf(e, DOMAIN old \ X) = SizeOf(old, DOMAIN old \ X)
      BY <2>5, <2>6, SizeDepends
    <2>10. /\ SizeOf(disk', X) \in Nat /\ SizeOf(old, X) \in Nat
           /\ SizeOf(old, DOMAIN old \ X) \in Nat
      BY <2>3, <2>4, <2>6, SizeIsNat DEF Summable
    <2>11. b \in Nat /\ b >= Total(e)
      <3>1. bytes[c] \in Nat /\ bytes[c] >= Total(old)
        BY <1>0, <2>a
      <3> QED BY <2>8, <2>9, <2>10, <3>1 DEF b
    <2> QED BY <1>0, <2>2, <2>3, <2>7, <2>11, ReplacedCovers
  <1>11. ASSUME NEW c \in Caches, DefragmentCache(c) PROVE CoverInv'
    <2>1. PICK kept \in SUBSET (DOMAIN entries[c] \cap DOMAIN disk) :
            /\ entries' = [entries EXCEPT ![c] =
                             [k \in kept |-> [entries[c][k] EXCEPT !.size = disk[k].size]]]
            /\ bytes' = [bytes EXCEPT ![c] = SizeOf(disk, kept)]
      BY <1>11 DEF DefragmentCache
    <2> DEFINE e == [k \in kept |-> [entries[c][k] EXCEPT !.size = disk[k].size]]
    <2>2. DOMAIN e = kept /\ \A k \in kept : e[k].size = disk[k].size
      BY DEF ShapeOK, IsMap, EntryInfo
    <2>3. IsFiniteSet(kept) /\ \A k \in kept : disk[k].size \in Nat
      BY <1>0, FS_Subset, SizesAreNat DEF Summable
    <2>4. Summable(disk')
      BY <1>0, <1>11 DEF DefragmentCache
    <2>5. entries' = [entries EXCEPT ![c] = e]
      BY <2>1
    <2> HIDE DEF e
    <2>6. Summable(e) /\ Total(e) = SizeOf(disk, kept)
      BY <2>2, <2>3, SizeDepends DEF Summable, Total
    <2>7. SizeOf(disk, kept) \in Nat /\ SizeOf(disk, kept) >= Total(e)
      <3>1. Total(e) \in Nat
        BY <2>6, TotalIsNat
      <3> QED BY <2>6, <3>1
    <2> QED BY <1>0, <2>1, <2>4, <2>5, <2>6, <2>7, ReplacedCovers
  <1>12. ASSUME NEW k \in Keys, StrayDelete(k) \/ StrayDamage(k) PROVE CoverInv'
    <2>1. DOMAIN disk' \subseteq DOMAIN disk
      BY <1>12 DEF StrayDelete, StrayDamage, Without
    <2>2. \A j \in DOMAIN disk' : disk'[j].size \in Nat
      BY DEF ShapeOK, IsMap, File
    <2>3. Summable(disk')
      BY <1>0, <2>1, <2>2, FS_Subset DEF Summable
    <2> QED BY <1>12, <2>3, SameIndexCovers DEF StrayDelete, StrayDamage
  <1>13. ASSUME Tick \/ UNCHANGED vars PROVE CoverInv'
    BY <1>0, <1>13, SameIndexCovers DEF Tick, vars
  <1> QED
    BY <1>1, <1>2, <1>3, <1>4, <1>5, <1>6, <1>7, <1>8, <1>9, <1>10, <1>11, <1>12, <1>13
    DEF Next, LifeCycle, Access, Maintenance, Environment

\* Whatever the caches do to one another and the file system to them, the
\* state keeps its types: no counter is ever below zero, that is, no
\* subtraction wraps around.
THEOREM TypesCorrect == Spec => []TypeOK
<1>1. CoverInv /\ ShapeOK => TypeOK
  BY DEF CoverInv, TypeOK
<1> QED BY <1>1, CoverInit, CoverNext, ShapeCorrect, PTL DEF Spec

\* ... and every later removal can subtract what its entries have recorded.
THEOREM CountersCorrect == Spec => []BytesCoverEntries
<1>1. CoverInv => BytesCoverEntries
  BY DEF CoverInv, BytesCoverEntries, Total
<1> QED BY <1>1, CoverInit, CoverNext, ShapeCorrect, PTL DEF Spec

-----------------------------------------------------------------------------
(* Which entries an eviction takes *)

\* Older is a strict total order of the entries: the ranks of keys differ.
LEMMA OlderOrders ==
  ASSUME NEW e, IsMap(e, Keys, EntryInfo), NEW i \in DOMAIN e, NEW j \in DOMAIN e
  PROVE  /\ ~Older(e, i, i)
         /\ i # j => Older(e, i, j) \/ Older(e, j, i)
         /\ ~(Older(e, i, j) /\ Older(e, j, i))
         /\ \A k \in DOMAIN e : Older(e, i, j) /\ Older(e, j, k) => Older(e, i, k)
  <1>1. \A k \in DOMAIN e : k \in Keys /\ e[k].atime \in Nat /\ Rank[k] \in Nat
    BY CacheAssumption DEF IsMap, EntryInfo
  <1>2. Rank[i] = Rank[j] => i = j
    BY <1>1, CacheAssumption
  <1> QED BY <1>1, <1>2 DEF Older

\* Among finitely many entries there is an oldest and a youngest.
LEMMA OldestExists ==
  ASSUME NEW e, IsMap(e, Keys, EntryInfo), NEW S \in SUBSET DOMAIN e, IsFiniteSet(S), S # {}
  PROVE  \E k \in S : \A j \in S \ {k} : Older(e, k, j)
  <1> DEFINE B == {U \in SUBSET S : U # {} /\ ~ \E k \in U : \A j \in U \ {k} : Older(e, k, j)}
  <1>1. SUFFICES ASSUME B # {} PROVE FALSE
    OBVIOUS
  <1>2. PICK U \in B : \A V \in B : ~(V \subseteq U /\ V # U)
    <2> B \in SUBSET SUBSET S
      OBVIOUS
    <2> HIDE DEF B
    <2> QED BY <1>1, SmallestSubset
  <1>3. PICK x \in U : TRUE
    OBVIOUS
  <1>4. U \ {x} # {}
    BY <1>3
  <1>5. PICK k \in U \ {x} : \A j \in (U \ {x}) \ {k} : Older(e, k, j)
    <2>1. U \ {x} \in SUBSET S /\ U \ {x} \notin B
      BY <1>2, <1>3
    <2> QED BY <1>4, <2>1
  <1>6. CASE Older(e, x, k)
    <2>1. \A j \in U \ {x} : Older(e, x, j)
      BY <1>3, <1>5, <1>6, OlderOrders
    <2> QED BY <1>3, <2>1
  <1>7. CASE Older(e, k, x)
    <2>1. \A j \in U \ {k} : Older(e, k, j)
      BY <1>5, <1>7
    <2> QED BY <1>5, <2>1
  <1> QED BY <1>3, <1>5, <1>6, <1>7, OlderOrders

\* The same at the other end.
LEMMA YoungestExists ==
  ASSUME NEW e, IsMap(e, Keys, EntryInfo), NEW S \in SUBSET DOMAIN e, IsFiniteSet(S), S # {}
  PROVE  \E k \in S : \A j \in S \ {k} : Older(e, j, k)
  <1> DEFINE B == {U \in SUBSET S : U # {} /\ ~ \E k \in U : \A j \in U \ {k} : Older(e, j, k)}
  <1>1. SUFFICES ASSUME B # {} PROVE FALSE
    OBVIOUS
  <1>2. PICK U \in B : \A V \in B : ~(V \subseteq U /\ V # U)
    <2> B \in SUBSET SUBSET S
      OBVIOUS
    <2> HIDE DEF B
    <2> QED BY <1>1, SmallestSubset
  <1>3. PICK x \in U : TRUE
    OBVIOUS
  <1>4. U \ {x} # {}
    BY <1>3
  <1>5. PICK k \in U \ {x} : \A j \in (U \ {x}) \ {k} : Older(e, j, k)
    <2>1. U \ {x} \in SUBSET S /\ U \ {x} \notin B
      BY <1>2, <1>3
    <2> QED BY <1>4, <2>1
  <1>6. CASE Older(e, k, x)
    <2>1. \A j \in U \ {x} : Older(e, j, x)
      BY <1>3, <1>5, <1>6, OlderOrders
    <2> QED BY <1>3, <2>1
  <1>7. CASE Older(e, x, k)
    <2>1. \A j \in U \ {k} : Older(e, j, k)
      BY <1>5, <1>7
    <2> QED BY <1>5, <2>1
  <1> QED BY <1>3, <1>5, <1>6, <1>7, OlderOrders

\* The entries of a set are no more than those of a larger one.
LEMMA SizeGrows ==
  ASSUME NEW f, NEW S, IsFiniteSet(S), \A k \in S : f[k].size \in Nat, NEW D \in SUBSET S
  PROVE  SizeOf(f, D) \in Nat /\ SizeOf(f, S) \in Nat /\ SizeOf(f, D) <= SizeOf(f, S)
  <1>1. IsFiniteSet(D) /\ IsFiniteSet(S \ D)
    BY FS_Subset
  <1>2. SizeOf(f, D) \in Nat /\ SizeOf(f, S \ D) \in Nat /\ SizeOf(f, S) \in Nat
    BY <1>1, SizeIsNat
  <1> QED BY <1>2, SizeOfParts

\* What the eviction takes, it takes from the old end.
LEMMA VictimsAreOldest ==
  ASSUME NEW e, IsMap(e, Keys, EntryInfo), Summable(e), NEW b \in Nat, NEW stuck,
         NEW k \in Victims(e, b, stuck), NEW j \in DOMAIN e \ stuck, Older(e, j, k)
  PROVE  j \in Victims(e, b, stuck)
  <1> DEFINE before(i) == {x \in DOMAIN e \ stuck : Older(e, x, i)}
  <1>1. k \in DOMAIN e /\ b - SizeOf(e, before(k)) > MaxBytes
    BY DEF Victims
  <1>2. before(j) \subseteq before(k)
    BY <1>1, OlderOrders
  <1>3. IsFiniteSet(before(k)) /\ \A x \in before(k) : e[x].size \in Nat
    BY FS_Subset DEF Summable
  <1>4. /\ SizeOf(e, before(j)) \in Nat /\ SizeOf(e, before(k)) \in Nat
        /\ SizeOf(e, before(j)) <= SizeOf(e, before(k))
    <2> HIDE DEF before
    <2> QED BY <1>2, <1>3, SizeGrows
  <1>5. MaxBytes \in Nat
    BY CacheAssumption
  <1>6. b - SizeOf(e, before(j)) > MaxBytes
    <2> HIDE DEF before
    <2> QED BY <1>1, <1>4, <1>5
  <1> QED BY <1>6 DEF Victims

\* It takes enough ...
LEMMA VictimsSuffice ==
  ASSUME NEW e, IsMap(e, Keys, EntryInfo), Summable(e)
  PROVE  Total(e) - SizeOf(e, Victims(e, Total(e), {})) <= MaxBytes
  <1> DEFINE b == Total(e)
             V == Victims(e, b, {})
             before(i) == {x \in DOMAIN e \ {} : Older(e, x, i)}
  <1>0. MaxBytes \in Nat /\ b \in Nat
    BY CacheAssumption, TotalIsNat
  <1>1. V \subseteq DOMAIN e
    BY DEF Victims
  <1>2. CASE V = DOMAIN e
    BY <1>0, <1>2 DEF Total
  <1>3. CASE V # DOMAIN e
    <2>1. PICK k \in DOMAIN e \ V : \A j \in (DOMAIN e \ V) \ {k} : Older(e, k, j)
      <3>1. DOMAIN e \ V # {} /\ IsFiniteSet(DOMAIN e \ V)
        BY <1>1, <1>3, FS_Subset DEF Summable
      <3> HIDE DEF V
      <3> QED BY <3>1, OldestExists
    <2>2. before(k) \subseteq V
      BY <2>1, OlderOrders
    <2>3. V \subseteq before(k)
      <3>1. ASSUME NEW j \in V PROVE j \in before(k)
        <4>1. j \in DOMAIN e /\ j # k /\ k \in DOMAIN e \ {}
          BY <1>1, <2>1
        <4>2. ~Older(e, k, j)
          BY <1>0, <2>1, <3>1, <4>1, VictimsAreOldest
        <4> QED BY <4>1, <4>2, OlderOrders
      <3> QED BY <3>1
    <2>4. ~(b - SizeOf(e, before(k)) > MaxBytes)
      BY <2>1 DEF Victims
    <2>5. V = before(k)
      BY <2>2, <2>3
    <2>6. SizeOf(e, V) \in Nat
      BY <1>1, TotalWithout
    <2> HIDE DEF V, before, b
    <2>7. b - SizeOf(e, V) <= MaxBytes
      BY <1>0, <2>4, <2>5, <2>6
    <2> QED BY <2>7 DEF V, b
  <1> QED BY <1>2, <1>3

\* ... and no more than it must: with the youngest of them left it is over the limit.
LEMMA VictimsNeeded ==
  ASSUME NEW e, IsMap(e, Keys, EntryInfo), Summable(e), NEW b \in Nat, NEW stuck,
         Victims(e, b, stuck) # {}
  PROVE  \E j \in Victims(e, b, stuck) :
            /\ \A i \in Victims(e, b, stuck) \ {j} : Older(e, i, j)
            /\ b - SizeOf(e, Victims(e, b, stuck)) + e[j].size > MaxBytes
  <1> DEFINE V == Victims(e, b, stuck)
             before(i) == {x \in DOMAIN e \ stuck : Older(e, x, i)}
  <1>1. V \subseteq DOMAIN e \ stuck /\ V # {} /\ IsFiniteSet(V)
    BY FS_Subset DEF Victims, Summable
  <1>2. PICK j \in V : \A i \in V \ {j} : Older(e, i, j)
    <2> HIDE DEF V
    <2> QED BY <1>1, YoungestExists
  <1>3. V \ {j} = before(j)
    <2>1. V \ {j} \subseteq before(j)
      BY <1>1, <1>2
    <2>2. ASSUME NEW i \in before(j) PROVE i \in V \ {j}
      <3>1. i \in V
        BY <1>2, VictimsAreOldest
      <3>2. i # j
        BY <1>1, <1>2, OlderOrders
      <3> QED BY <3>1, <3>2
    <2> QED BY <2>1, <2>2
  <1>4. b - SizeOf(e, before(j)) > MaxBytes
    BY <1>2 DEF Victims
  <1>5. SizeOf(e, V) = e[j].size + SizeOf(e, V \ {j})
    <2> HIDE DEF V
    <2> QED BY <1>1, <1>2, SizeWithout DEF Summable
  <1>6. e[j].size \in Nat /\ SizeOf(e, V \ {j}) \in Nat
    <2>1. IsFiniteSet(V \ {j}) /\ V \ {j} \subseteq DOMAIN e /\ j \in DOMAIN e
      BY <1>1, <1>2, FS_Subset
    <2> HIDE DEF V
    <2> QED BY <2>1, SizeIsNat DEF Summable
  <1>7. b - SizeOf(e, V) + e[j].size > MaxBytes
    <2>1. MaxBytes \in Nat
      BY CacheAssumption
    <2>2. PICK r, z : r = SizeOf(e, before(j)) /\ z = e[j].size
      OBVIOUS
    <2> HIDE DEF V, before
    <2>3. /\ r \in Nat /\ z \in Nat
          /\ SizeOf(e, V) = z + r /\ b - r > MaxBytes
      BY <1>3, <1>4, <1>5, <1>6, <2>2
    <2>4. b - (z + r) + z > MaxBytes
      BY <2>1, <2>3
    <2> QED BY <2>2, <2>3, <2>4
  <1> QED BY <1>2, <1>7

-----------------------------------------------------------------------------
(* Theorems about eviction *)

\* A closed cache has no entries and no Put under way.
ClosedIsEmpty == \A c \in Caches : ~open[c] => entries[c] = EmptyMap /\ saving[c] = NoKey

\* Only Initialize opens a cache, and what closes it empties it.
LEMMA ClosedStep == ASSUME ShapeOK, ClosedIsEmpty, [Next]_vars PROVE ClosedIsEmpty'
<1> USE DEF ShapeOK, ClosedIsEmpty, Ready
<1>1. ASSUME NEW c \in Caches, LifeCycle(c) PROVE ClosedIsEmpty'
  <2>1. CASE Initialize(c)
    <3>1. PICK e : entries' = [entries EXCEPT ![c] = e]
      BY <2>1 DEF Initialize, Settle
    <3> QED BY <2>1, <3>1 DEF Initialize
  <2>2. CASE Shutdown(c)
    BY <2>2 DEF Shutdown
  <2>3. CASE Restart(c)
    BY <2>3 DEF Restart
  <2> QED BY <1>1, <2>1, <2>2, <2>3 DEF LifeCycle
<1>2. ASSUME NEW c \in Caches, Access(c) \/ Maintenance(c) PROVE ClosedIsEmpty'
  <2>1. open[c] /\ open' = open
    BY <1>2 DEF Access, Maintenance, GetHit, GetBroken, PutSave, PutTorn, PutRecord, PutUnrecorded,
                Remove, Clear, ClearStopped, OptimizeCache, DefragmentCache
  <2>2. \A x \in Caches \ {c} : entries'[x] = entries[x] /\ saving'[x] = saving[x]
    <3>1. CASE OptimizeCache(c)
      <4>1. PICK e : entries' = [entries EXCEPT ![c] = e]
        BY <3>1, OptimizeIs DEF Renewed, Resaved
      <4> QED BY <3>1, <4>1 DEF OptimizeCache
    <3>2. CASE ~OptimizeCache(c)
      BY <1>2, <3>2 DEF Access, Maintenance, GetHit, GetBroken, PutSave, PutTorn, PutRecord,
                        PutUnrecorded, Remove, Clear, ClearStopped, DefragmentCache, Settle
    <3> QED BY <3>1, <3>2
  <2> QED BY <2>1, <2>2
<1>3. ASSUME Environment \/ UNCHANGED vars PROVE ClosedIsEmpty'
  BY <1>3 DEF Environment, Tick, StrayDelete, StrayDamage, vars
<1> QED BY <1>1, <1>2, <1>3 DEF Next

\* Only Initialize and the bookkeeping of a Put evict.
LEMMA EvictingStep ==
  ASSUME ShapeOK, [Next]_vars, NEW c \in Caches, EvictedBy(c) # {}
  PROVE  Initialize(c) \/ PutRecord(c)
<1>1. /\ saving'[c] # saving[c] \/ open'[c] # open[c]
      /\ ~(DOMAIN disk \subseteq DOMAIN disk')
  BY DEF EvictedBy
<1> USE DEF ShapeOK
<1>2. ASSUME NEW x \in Caches, LifeCycle(x) PROVE Initialize(c)
  <2>1. ~Shutdown(x) /\ ~Restart(x)
    BY <1>1 DEF Shutdown, Restart
  <2>2. Initialize(x)
    BY <1>2, <2>1 DEF LifeCycle
  <2>3. \A y \in Caches \ {x} : saving'[y] = saving[y] /\ open'[y] = open[y]
    BY <2>2 DEF Initialize
  <2> QED BY <1>1, <2>2, <2>3
<1>3. ASSUME NEW x \in Caches, Access(x) PROVE PutRecord(c)
  <2>1. PutRecord(x)
    <3>1. ASSUME NEW k \in Keys, NEW img \in Images, PutSave(x, k, img) PROVE FALSE
      BY <1>1, <3>1 DEF PutSave, Put1
    <3> QED BY <1>1, <1>3, <3>1 DEF Access, GetHit, GetBroken, PutTorn, PutUnrecorded,
                                    Remove, Clear, ClearStopped
  <2> QED BY <1>1, <2>1 DEF PutRecord
<1>4. ~ \E x \in Caches : Maintenance(x)
  BY <1>1 DEF Maintenance, OptimizeCache, DefragmentCache
<1>5. ~ Environment
  BY <1>1 DEF Environment, Tick, StrayDelete, StrayDamage
<1> QED BY <1>1, <1>2, <1>3, <1>4, <1>5 DEF Next, vars

\* The stamps of the index that an Initialize makes are those that the eviction
\* judges by ...
LEMMA ScanStamps ==
  ASSUME ShapeOK, ClosedIsEmpty, NEW c \in Caches, Initialize(c), NEW k \in DOMAIN disk
  PROVE  Stamp(c, k) = disk[k].mtime + EpochGap
  <1>1. entries[c] = EmptyMap /\ saving[c] = NoKey
    BY DEF Initialize, ClosedIsEmpty
  <1>2. k # NoKey
    BY CacheAssumption DEF ShapeOK, IsMap
  <1> QED BY <1>1, <1>2 DEF Stamp, EmptyMap

\* ... and so are those of the index that the bookkeeping of a Put makes.
LEMMA RecordStamps ==
  ASSUME NEW c \in Caches, NEW k \in DOMAIN RecordIndex(c)
  PROVE  RecordIndex(c)[k].atime = Stamp(c, k)
  BY DEF RecordIndex, Put1, Stamp

\* c settles on the index e, which has these stamps, and the counter b.
Evicting(c, e, b) ==
  /\ IsMap(e, Keys, EntryInfo) /\ Summable(e)
  /\ Settle(c, e, b, disk, {})
  /\ \A k \in DOMAIN e : e[k].atime = Stamp(c, k)

\* An eviction settles on such an index.
LEMMA EvictingIndex ==
  ASSUME ShapeOK, CoverInv, ClosedIsEmpty, [Next]_vars, "remove" \notin Faults,
         NEW c \in Caches, EvictedBy(c) # {}
  PROVE  \E e : \E b \in Nat : Evicting(c, e, b)
<1>0. \A e : Undeletable(e) = {{}}
  BY DEF Undeletable
<1>1. CASE Initialize(c)
  <2>1. PICK seen \in SUBSET Scanned :
        \E extra \in {0} \cup {disk[k].size : k \in Scanned \ seen} :
        LET e == [k \in seen |->
                    [size |-> disk[k].size, atime |-> disk[k].mtime + EpochGap]]
        IN  \E stuck \in Undeletable(e) :
              Settle(c, e, SizeOf(disk, seen) + extra, disk, stuck)
    BY <1>1 DEF Initialize
  <2> DEFINE e == [k \in seen |->
                     [size |-> disk[k].size, atime |-> disk[k].mtime + EpochGap]]
  <2>2. PICK extra \in {0} \cup {disk[k].size : k \in Scanned \ seen} :
          Settle(c, e, SizeOf(disk, seen) + extra, disk, {})
    BY <1>0, <2>1
  <2>3. IsFiniteSet(seen) /\ \A k \in seen : k \in DOMAIN disk /\ disk[k].size \in Nat
    BY SizesAreNat, FS_Subset DEF Summable, CoverInv, Scanned
  <2>4. SizeOf(disk, seen) + extra \in Nat
    <3>1. extra \in Nat
      BY SizesAreNat DEF Scanned
    <3>2. SizeOf(disk, seen) \in Nat
      BY <2>3, SizeIsNat
    <3> QED BY <3>1, <3>2
  <2>5. IsMap(e, Keys, EntryInfo) /\ Summable(e)
    BY <2>3, CacheAssumption DEF ShapeOK, IsMap, EntryInfo, File, Summable
  <2>6. \A k \in DOMAIN e : e[k].atime = Stamp(c, k)
    BY <1>1, <2>3, ScanStamps
  <2> HIDE DEF e
  <2> QED BY <2>2, <2>4, <2>5, <2>6 DEF Evicting
<1>2. CASE PutRecord(c)
  <2>1. Settle(c, RecordIndex(c), RecordBytes(c), disk, {}) /\ saving[c] # NoKey
    BY <1>0, <1>2, RecordIs
  <2> QED BY <2>1, RecordCovers, RecordStamps DEF Evicting
<1> QED BY <1>1, <1>2, EvictingStep

\* What goes bears no later stamp than what is left.
LEMMA SparesLaterStamps ==
  ASSUME ShapeOK, CoverInv, ClosedIsEmpty, [Next]_vars, "remove" \notin Faults,
         NEW c \in Caches, NEW k \in EvictedBy(c), NEW j \in DOMAIN entries'[c]
  PROVE  /\ Stamp(c, k) \in Nat /\ entries'[c][j].atime \in Nat
         /\ Stamp(c, k) <= entries'[c][j].atime
<1>1. PICK e : \E b \in Nat : Evicting(c, e, b)
  <2>1. EvictedBy(c) # {}
    OBVIOUS
  <2> QED BY <2>1, EvictingIndex
<1>2. PICK b \in Nat : Evicting(c, e, b)
  BY <1>1
<1>3. /\ IsMap(e, Keys, EntryInfo) /\ Summable(e)
      /\ Settle(c, e, b, disk, {})
      /\ \A i \in DOMAIN e : e[i].atime = Stamp(c, i)
  BY <1>2 DEF Evicting
<1> DEFINE out == IF b > MaxBytes THEN Victims(e, b, {}) ELSE {}
<1>4. /\ entries'[c] = Without(e, out)
      /\ disk' = Without(disk, out)
  BY <1>3 DEF Settle, ShapeOK
<1>5. k \in DOMAIN disk \ DOMAIN disk'
  BY DEF EvictedBy
<1>6. k \in out /\ j \in DOMAIN e \ out /\ entries'[c][j] = e[j]
  <2> HIDE DEF out
  <2> QED BY <1>4, <1>5 DEF Without
<1>7. k \in Victims(e, b, {}) /\ j \in (DOMAIN e \ {}) \ Victims(e, b, {})
  BY <1>6
<1>8. k \in DOMAIN e
  BY <1>7 DEF Victims
<1> HIDE DEF out
<1>9. Older(e, k, j)
  BY <1>3, <1>7, <1>8, VictimsAreOldest, OlderOrders
<1>10. e[j].atime \in Nat /\ e[k].atime \in Nat
  BY <1>3, <1>7, <1>8 DEF IsMap, EntryInfo
<1> QED BY <1>3, <1>6, <1>8, <1>9, <1>10 DEF Older

\* Hence it was used no later, where both stamps are of one epoch or the one that
\* goes is of the scan's.
LEMMA SparesRecent ==
  ASSUME ShapeOK, CoverInv, ClosedIsEmpty, [Next]_vars, "remove" \notin Faults,
         NEW c \in Caches, NEW k \in EvictedBy(c), NEW j \in DOMAIN entries'[c],
         FromScan(entries'[c][j].atime) => FromScan(Stamp(c, k))
  PROVE  TimeOf(Stamp(c, k)) <= TimeOf(entries'[c][j].atime)
<1>1. /\ Stamp(c, k) \in Nat /\ entries'[c][j].atime \in Nat /\ EpochGap \in Nat
      /\ Stamp(c, k) <= entries'[c][j].atime
  BY SparesLaterStamps, CacheAssumption
<1> HIDE DEF Stamp
<1> QED BY <1>1 DEF TimeOf, FromScan

\* As long as files can be deleted, an eviction takes what was used the longest
\* ago, the epochs of the stamps considered: for any number of caches on one
\* directory, with all the other faults, after a Put and after a start.
THEOREM EvictionIsLRU ==
  ASSUME "remove" \notin Faults
  PROVE  Spec => EvictsLeastRecentlyUsed
<1>1. Init => ClosedIsEmpty
  BY DEF Init, ClosedIsEmpty
<1>2. ShapeOK /\ ClosedIsEmpty /\ [Next]_vars => ClosedIsEmpty'
  BY ClosedStep
<1>3. ShapeOK /\ CoverInv /\ ClosedIsEmpty /\ [Next]_vars =>
        [\A c \in Caches : \A k \in EvictedBy(c) : \A j \in DOMAIN entries'[c] :
           LET left == entries'[c][j].atime
           IN  (FromScan(left) => FromScan(Stamp(c, k)))
                 => TimeOf(Stamp(c, k)) <= TimeOf(left)]_vars
  BY SparesRecent
<1> QED BY <1>1, <1>2, <1>3, CoverInit, CoverNext, ShapeCorrect, PTL
        DEF Spec, EvictsLeastRecentlyUsed

-----------------------------------------------------------------------------
\* What the formula of EvictsOnlyAsNeeded says of the files that c has evicted.
NoneInVain(c) ==
  \E j \in EvictedBy(c) :
    /\ \A k \in EvictedBy(c) \ {j} :
         \/ Stamp(c, k) < Stamp(c, j)
         \/ Stamp(c, k) = Stamp(c, j) /\ Rank[k] < Rank[j]
    /\ bytes'[c] + disk[j].size > MaxBytes

\* A Settle on an index of files that exist, with their sizes, removes files
\* only if the cache would not have fitted with the youngest of them left.
LEMMA SettleSpares ==
  ASSUME CoverInv, NEW c \in Caches, NEW e, NEW b \in Nat,
         IsMap(e, Keys, EntryInfo), Summable(e), DOMAIN e \subseteq DOMAIN disk,
         \A k \in DOMAIN e : e[k].size = disk[k].size /\ e[k].atime = Stamp(c, k),
         Settle(c, e, b, disk, {}),
         EvictedBy(c) = DOMAIN disk \ DOMAIN disk', EvictedBy(c) # {}
  PROVE  NoneInVain(c)
  <1> DEFINE V == Victims(e, b, {})
             out == IF b > MaxBytes THEN V ELSE {}
  <1>1. /\ disk' = Without(disk, out)
        /\ bytes' = [bytes EXCEPT ![c] = b - SizeOf(e, out)]
    BY DEF Settle
  <1>2. DOMAIN disk' = DOMAIN disk \ out
    <2> HIDE DEF out
    <2> QED BY <1>1 DEF Without
  <1>3. out # {} /\ out = V
    BY <1>2
  <1>4. PICK j \in V : /\ \A i \in V \ {j} : Older(e, i, j)
                      /\ b - SizeOf(e, V) + e[j].size > MaxBytes
    <2>1. Victims(e, b, {}) # {}
      BY <1>3
    <2> QED BY <2>1, VictimsNeeded
  <1>5. V \subseteq DOMAIN e
    BY DEF Victims
  <1> HIDE DEF V, out
  <1>6. EvictedBy(c) = V
    BY <1>2, <1>3, <1>5
  <1>7. bytes'[c] = b - SizeOf(e, V)
    BY <1>1, <1>3 DEF CoverInv
  <1>8. \A k \in EvictedBy(c) \ {j} :
          \/ Stamp(c, k) < Stamp(c, j)
          \/ Stamp(c, k) = Stamp(c, j) /\ Rank[k] < Rank[j]
    BY <1>4, <1>5, <1>6 DEF Older
  <1> QED BY <1>4, <1>5, <1>6, <1>7, <1>8 DEF NoneInVain

\* The index that Initialize makes of the whole directory.
ScannedIndex ==
  [k \in DOMAIN disk |-> [size |-> disk[k].size, atime |-> disk[k].mtime + EpochGap]]

\* Without faults, Initialize settles on that index with an exact counter.
LEMMA ScanIs ==
  ASSUME ShapeOK, CoverInv, Faults = {}, NEW c \in Caches, Initialize(c)
  PROVE  /\ Settle(c, ScannedIndex, Total(ScannedIndex), disk, {})
         /\ IsMap(ScannedIndex, Keys, EntryInfo) /\ Summable(ScannedIndex)
         /\ DOMAIN ScannedIndex = DOMAIN disk
         /\ \A k \in DOMAIN disk : ScannedIndex[k].size = disk[k].size
  <1>1. /\ DOMAIN ScannedIndex = DOMAIN disk
        /\ \A k \in DOMAIN disk : ScannedIndex[k].size = disk[k].size
    BY DEF ScannedIndex
  <1>2. IsMap(ScannedIndex, Keys, EntryInfo)
    BY CacheAssumption DEF ScannedIndex, ShapeOK, IsMap, EntryInfo, File
  <1>3. Summable(ScannedIndex) /\ Total(ScannedIndex) = Total(disk)
    BY <1>1, TotalDepends DEF CoverInv
  <1>4. PICK extra \in {0} : Settle(c, ScannedIndex, Total(disk) + extra, disk, {})
    <2>1. Undeletable(ScannedIndex) = {{}}
      BY DEF Undeletable
    <2>2. \E extra \in {0} \cup {disk[k].size : k \in Scanned \ DOMAIN disk} :
          \E stuck \in Undeletable(ScannedIndex) :
             Settle(c, ScannedIndex, SizeOf(disk, DOMAIN disk) + extra, disk, stuck)
      BY ScannedAll DEF Initialize, ScannedIndex
    <2> QED BY <2>1, <2>2, ScannedAll DEF Total
  <1>5. Total(disk) + 0 = Total(ScannedIndex)
    BY <1>3, TotalIsNat
  <1> QED BY <1>1, <1>2, <1>3, <1>4, <1>5

\* The entry that the bookkeeping of a Put adds is that of a file.
LEMMA RecordMirrors ==
  ASSUME IndexInv, NEW c \in Caches, PutRecord(c)
  PROVE  /\ DOMAIN RecordIndex(c) \subseteq DOMAIN disk
         /\ \A k \in DOMAIN RecordIndex(c) : RecordIndex(c)[k].size = disk[k].size
  <1>1. saving[c] \in DOMAIN disk /\ open[c]
    BY RecordIs DEF IndexInv, SavedFileExists
  <1> QED BY <1>1 DEF RecordIndex, RecordSize, Put1, IndexInv, IndexMirrorsDirectory

\* An Initialize or a Put evicts no more than it must.
LEMMA SparesFitting ==
  ASSUME Faults = {}, ShapeOK, CoverInv, IndexInv, ClosedIsEmpty, [Next]_vars,
         NEW c \in Caches, EvictedBy(c) # {}
  PROVE  NoneInVain(c)
  <1>1. EvictedBy(c) = DOMAIN disk \ DOMAIN disk'
    BY DEF EvictedBy
  <1>2. CASE Initialize(c)
    <2>1. Total(ScannedIndex) \in Nat
      BY <1>2, ScanIs, TotalIsNat
    <2>2. \A k \in DOMAIN disk : ScannedIndex[k].atime = Stamp(c, k)
      BY <1>2, ScanStamps DEF ScannedIndex
    <2> QED BY <1>1, <1>2, <2>1, <2>2, ScanIs, SettleSpares
  <1>3. CASE PutRecord(c)
    <2>1. Settle(c, RecordIndex(c), RecordBytes(c), disk, {}) /\ saving[c] # NoKey
      BY <1>3, RecordIs DEF Undeletable
    <2>2. IsMap(RecordIndex(c), Keys, EntryInfo) /\ Summable(RecordIndex(c)) /\ RecordBytes(c) \in Nat
      BY <2>1, RecordCovers
    <2> QED BY <1>1, <1>3, <2>1, <2>2, RecordMirrors, RecordStamps, SettleSpares
  <1> QED BY <1>2, <1>3, EvictingStep

\* One process and a sound file system: the eviction of a Put or a start stops as
\* soon as the cache fits.
THEOREM EvictionIsMinimal ==
  ASSUME NEW one \in Caches, Caches = {one}, Faults = {}
  PROVE  Spec => EvictsOnlyAsNeeded
<1>1. ShapeOK /\ CoverInv /\ IndexInv /\ ClosedIsEmpty /\ [Next]_vars =>
        [\A c \in Caches : EvictedBy(c) # {} => NoneInVain(c)]_vars
  BY SparesFitting
<1>2. Spec => []IndexInv
  BY IndexInvariant
<1>3. Init => ClosedIsEmpty
  BY DEF Init, ClosedIsEmpty
<1>4. ShapeOK /\ ClosedIsEmpty /\ [Next]_vars => ClosedIsEmpty'
  BY ClosedStep
<1>5. Spec => [](ShapeOK /\ CoverInv /\ ClosedIsEmpty)
  BY <1>3, <1>4, CoverInit, CoverNext, ShapeCorrect, PTL DEF Spec
<1>6. Spec => [][Next]_vars
  BY PTL DEF Spec
<1>7. Spec => [][\A c \in Caches : EvictedBy(c) # {} => NoneInVain(c)]_vars
  BY <1>1, <1>2, <1>5, <1>6, PTL
<1> QED BY <1>7, PTL DEF EvictsOnlyAsNeeded, NoneInVain

-----------------------------------------------------------------------------
\* The counter of an initialized cache is exact.  It may be over the limit:
\* OptimizeCache does not evict.
CountedExactly == \A c \in Caches : open[c] => bytes[c] = Total(entries[c])

\* An eviction that starts with an exact counter ends with one, within the limit.
LEMMA SettleWithinLimit ==
  ASSUME CoverInv, DOMAIN entries = Caches, NEW c \in Caches, NEW e,
         IsMap(e, Keys, EntryInfo), Summable(e), Settle(c, e, Total(e), disk, {})
  PROVE  bytes'[c] = Total(entries'[c]) /\ bytes'[c] <= MaxBytes
  <1> DEFINE V == Victims(e, Total(e), {})
             out == IF Total(e) > MaxBytes THEN V ELSE {}
  <1>1. /\ entries'[c] = Without(e, out)
        /\ bytes'[c] = Total(e) - SizeOf(e, out)
    BY DEF Settle, CoverInv
  <1>2. out \in SUBSET DOMAIN e
    BY DEF Victims
  <1>3. /\ SizeOf(e, out) \in Nat /\ Total(Without(e, out)) \in Nat
        /\ Total(e) = SizeOf(e, out) + Total(Without(e, out))
    <2> HIDE DEF out
    <2> QED BY <1>2, TotalWithout
  <1>4. Total(e) - SizeOf(e, out) <= MaxBytes
    <2>1. CASE Total(e) > MaxBytes
      BY <2>1, VictimsSuffice
    <2>2. CASE ~(Total(e) > MaxBytes)
      <3>1. MaxBytes \in Nat /\ Total(e) \in Nat /\ out = {}
        BY <2>2, CacheAssumption, TotalIsNat
      <3> QED BY <2>2, <3>1, SizeOfNone
    <2> QED BY <2>1, <2>2
  <1> HIDE DEF out
  <1> QED BY <1>1, <1>3, <1>4

\* Every step keeps the counter exact.
LEMMA ExactStep ==
  ASSUME NEW c \in Caches, Caches = {c}, Faults = {},
         ShapeOK, CoverInv, IndexInv, CountedExactly, [Next]_vars
  PROVE  CountedExactly'
  <1>0. /\ DOMAIN entries = Caches /\ MaxBytes \in Nat
        /\ \A e : Undeletable(e) = {{}}
        /\ bytes[c] \in Nat /\ Summable(entries[c]) /\ DOMAIN open = Caches /\ DOMAIN bytes = Caches
    BY CacheAssumption DEF ShapeOK, CoverInv, Undeletable
  <1>1. SUFFICES ASSUME open'[c]
                 PROVE  bytes'[c] = Total(entries'[c])
    BY DEF CountedExactly, Total
  <1>2. CASE Initialize(c)
    BY <1>0, <1>2, ScanIs, SettleWithinLimit
  <1>3. CASE PutRecord(c)
    <2>1. open[c] /\ saving[c] # NoKey /\ bytes[c] = Total(entries[c])
      BY <1>3, RecordIs DEF IndexInv, SavedFileExists, CountedExactly
    <2>2. Settle(c, RecordIndex(c), RecordBytes(c), disk, {})
      BY <1>0, <1>3, RecordIs
    <2>3. /\ IsMap(RecordIndex(c), Keys, EntryInfo) /\ Summable(RecordIndex(c))
          /\ RecordBytes(c) = Total(RecordIndex(c))
      BY <2>1, RecordCovers
    <2> QED BY <1>0, <2>2, <2>3, SettleWithinLimit
  <1>4. CASE open' = open /\ bytes' = bytes /\ entries' = entries
    BY <1>1, <1>4 DEF CountedExactly
  <1>5. CASE Shutdown(c) \/ Restart(c)
    BY <1>0, <1>1, <1>5 DEF Shutdown, Restart
  <1>6. ASSUME open[c], entries'[c] = EmptyMap, bytes'[c] = 0
        PROVE  bytes'[c] = Total(entries'[c])
    BY <1>0, <1>6, TotalOfEmpty
  <1>7. ASSUME open[c], DOMAIN entries'[c] = DOMAIN entries[c],
               \A k \in DOMAIN entries[c] : entries'[c][k].size = entries[c][k].size,
               bytes'[c] = bytes[c]
        PROVE  bytes'[c] = Total(entries'[c])
    <2>1. Total(entries'[c]) = Total(entries[c])
      BY <1>0, <1>7, TotalDepends
    <2> QED BY <1>7, <2>1 DEF CountedExactly
  <1>8. ASSUME NEW k \in Keys, GetHit(c, k)
        PROVE  bytes'[c] = Total(entries'[c])
    <2>1. /\ DOMAIN entries'[c] = DOMAIN entries[c]
          /\ \A j \in DOMAIN entries[c] : entries'[c][j].size = entries[c][j].size
      BY <1>8 DEF GetHit, ShapeOK, IsMap, EntryInfo
    <2> QED BY <1>7, <1>8, <2>1 DEF GetHit, Ready
  <1>9. ASSUME NEW k \in Keys, GetBroken(c, k) PROVE FALSE
    BY <1>9 DEF GetBroken, Ready, Readable, IndexInv, IndexMirrorsDirectory, FilesLoad
  <1>10. ASSUME NEW f \in Paths, Remove(c, f)
         PROVE  bytes'[c] = Total(entries'[c])
    <2>1. /\ entries'[c] = Without(entries[c], DOMAIN entries[c] \ {})
          /\ bytes'[c] = bytes[c] - SizeOf(entries[c], DOMAIN entries[c] \ {})
          /\ open[c]
      BY <1>0, <1>10 DEF Remove, RemovedBy, Ready
    <2>2. DOMAIN entries[c] \ {} = DOMAIN entries[c]
      OBVIOUS
    <2>3. entries'[c] = EmptyMap
      BY <2>1, <2>2 DEF Without, EmptyMap
    <2>4. bytes'[c] = 0
      BY <1>0, <2>1, <2>2 DEF CountedExactly, Total
    <2> QED BY <1>6, <2>1, <2>3, <2>4
  <1>11. CASE Clear(c)
    BY <1>0, <1>6, <1>11 DEF Clear, Ready
  <1>12. ASSUME Maintenance(c), saving[c] = NoKey, open[c]
         PROVE  bytes'[c] = Total(entries'[c])
    <2>1. /\ NoKey \notin DOMAIN disk
          /\ DOMAIN entries[c] = DOMAIN disk
          /\ \A k \in DOMAIN disk : entries[c][k].size = disk[k].size /\ disk[k].good
      <3>1. NoKey \notin DOMAIN disk
        BY CacheAssumption DEF ShapeOK, IsMap
      <3> QED BY <1>12, <3>1 DEF IndexInv, IndexMirrorsDirectory, FilesLoad
    <2>2. SizeOf(disk, DOMAIN disk) = Total(entries[c]) /\ Total(entries[c]) \in Nat
      BY <1>0, <2>1, SizeDepends, TotalIsNat DEF Total, Summable
    <2>3. \A k \in DOMAIN disk : [entries[c][k] EXCEPT !.size = disk[k].size].size = entries[c][k].size
      BY <2>1 DEF ShapeOK, IsMap, EntryInfo
    <2>4. CASE OptimizeCache(c)
      <3>1. PICK new, saved, gone, counted : Renewed(c, new, saved, gone, counted)
        BY <2>4, OptimizeIs
      <3>2. DOMAIN new = DOMAIN disk
        BY <1>0, <2>1, <3>1 DEF Renewed, Readable
      <3>3. /\ DOMAIN disk' = DOMAIN disk /\ DOMAIN entries'[c] = DOMAIN disk
            /\ SameSizes(entries'[c], disk', DOMAIN disk)
            /\ IsMap(disk', Keys, File)
        <4>1. gone = {} /\ counted = DOMAIN new
          BY <1>0, <3>1 DEF Renewed
        <4>2. /\ DOMAIN disk' = DOMAIN disk \ gone /\ DOMAIN entries'[c] = DOMAIN entries[c]
              /\ SameSizes(entries'[c], disk', counted)
              /\ IsMap(disk', Keys, File)
          BY <3>1, ResavedSizes
        <4> QED BY <2>1, <3>2, <4>1, <4>2
      <3>4. bytes'[c] = bytes[c] - SizeOf(entries[c], DOMAIN disk) + SizeOf(disk', DOMAIN disk)
        BY <1>0, <3>1, <3>2 DEF Renewed, Resaved
      <3>5. IsFiniteSet(DOMAIN disk)
        BY DEF CoverInv, Summable
      <3>6. SizeOf(disk', DOMAIN disk) = Total(entries'[c]) /\ SizeOf(disk', DOMAIN disk) \in Nat
        <4>1. \A k \in DOMAIN disk : disk'[k].size \in Nat /\ entries'[c][k].size = disk'[k].size
          BY <3>3 DEF IsMap, File, SameSizes
        <4> QED BY <3>3, <3>5, <4>1, SizeDepends, SizeIsNat DEF Total
      <3>7. bytes[c] = SizeOf(entries[c], DOMAIN disk) /\ bytes[c] \in Nat
        BY <1>0, <1>12, <2>1 DEF CountedExactly, Total
      <3> QED BY <3>4, <3>6, <3>7
    <2>5. CASE DefragmentCache(c)
      <3>1. /\ entries'[c] = [k \in (DOMAIN entries[c] \cap DOMAIN disk) \ {} |->
                                [entries[c][k] EXCEPT !.size = disk[k].size]]
            /\ bytes'[c] = SizeOf(disk, (DOMAIN entries[c] \cap DOMAIN disk) \ {})
        BY <1>0, <2>5 DEF DefragmentCache
      <3>2. (DOMAIN entries[c] \cap DOMAIN disk) \ {} = DOMAIN disk
        BY <2>1
      <3>3. bytes'[c] = bytes[c]
        BY <1>12, <2>2, <3>1, <3>2 DEF CountedExactly
      <3>4. /\ DOMAIN entries'[c] = DOMAIN entries[c]
            /\ \A k \in DOMAIN entries[c] : entries'[c][k].size = entries[c][k].size
        BY <2>1, <2>3, <3>1, <3>2
      <3> QED BY <1>7, <1>12, <3>3, <3>4
    <2> QED BY <1>12, <2>4, <2>5 DEF Maintenance
  <1>13. CASE Maintenance(c)
    <2>1. saving[c] = NoKey /\ open[c]
      BY <1>13 DEF Maintenance, OptimizeCache, DefragmentCache, Ready
    <2> QED BY <1>12, <1>13, <2>1
  <1>14. CASE Environment \/ UNCHANGED vars
    BY <1>4, <1>14 DEF Environment, Tick, StrayDelete, StrayDamage, vars
  <1>15. CASE PutUnrecorded(c) \/ ClearStopped(c)
              \/ \E k \in Keys, img \in Images : PutSave(c, k, img) \/ PutTorn(c, k, img)
    BY <1>4, <1>15 DEF PutUnrecorded, ClearStopped, PutSave, PutTorn
  <1> QED BY <1>2, <1>3, <1>5, <1>8, <1>9, <1>10, <1>11, <1>13, <1>14, <1>15
          DEF Next, LifeCycle, Access

\* A Put or a start ends with the whole directory within the limit.
LEMMA CleanupStep ==
  ASSUME NEW c \in Caches, Caches = {c}, Faults = {},
         ShapeOK, CoverInv, CoverInv', IndexInv, IndexInv', CountedExactly, [Next]_vars,
         EvictionDone(c)
  PROVE  SizeOf(disk', DOMAIN disk') <= MaxBytes
<1>0. /\ DOMAIN entries = Caches /\ \A e : Undeletable(e) = {{}}
      /\ open \in [Caches -> BOOLEAN] /\ saving \in [Caches -> Keys \cup {NoKey}]
      /\ NoKey \notin Keys
  BY CacheAssumption DEF ShapeOK, Undeletable
<1>1. Initialize(c) \/ PutRecord(c)
  <2>1. ASSUME NEW k \in Keys, NEW img \in Images, PutSave(c, k, img) PROVE FALSE
    BY <1>0, <2>1 DEF EvictionDone, PutSave, Ready
  <2>2. LifeCycle(c) => Initialize(c)
    BY <1>0 DEF EvictionDone, LifeCycle, Shutdown, Restart
  <2>3. Access(c) => PutRecord(c)
    BY <1>0, <2>1 DEF EvictionDone, Access, GetHit, GetBroken, PutTorn, PutUnrecorded, Remove,
                      Clear, ClearStopped, Ready
  <2>4. ~Maintenance(c) /\ ~Environment /\ ~UNCHANGED vars
    BY <1>0 DEF EvictionDone, Maintenance, OptimizeCache, DefragmentCache, Environment, Tick,
                StrayDelete, StrayDamage, vars
  <2> QED BY <2>2, <2>3, <2>4 DEF Next
<1>2. bytes'[c] = Total(entries'[c]) /\ bytes'[c] <= MaxBytes
  <2>1. CASE Initialize(c)
    BY <1>0, <2>1, ScanIs, SettleWithinLimit
  <2>2. CASE PutRecord(c)
    <3>1. open[c] /\ saving[c] # NoKey /\ bytes[c] = Total(entries[c])
      BY <2>2, RecordIs DEF IndexInv, SavedFileExists, CountedExactly
    <3>2. Settle(c, RecordIndex(c), RecordBytes(c), disk, {})
      BY <1>0, <2>2, RecordIs
    <3>3. /\ IsMap(RecordIndex(c), Keys, EntryInfo) /\ Summable(RecordIndex(c))
          /\ RecordBytes(c) = Total(RecordIndex(c))
      BY <3>1, RecordCovers
    <3> QED BY <1>0, <3>2, <3>3, SettleWithinLimit
  <2> QED BY <1>1, <2>1, <2>2
<1>3. open'[c] /\ saving'[c] = NoKey
  <2>1. CASE Initialize(c)
    BY <2>1 DEF EvictionDone, Initialize, IndexInv, SavedFileExists
  <2>2. CASE PutRecord(c)
    BY <1>0, <2>2 DEF EvictionDone, PutRecord
  <2> QED BY <1>1, <2>1, <2>2
<1>4. /\ DOMAIN entries'[c] = DOMAIN disk'
      /\ \A k \in DOMAIN disk' : entries'[c][k].size = disk'[k].size
  <2>1. IsMap(disk', Keys, File)
    BY DEF IndexInv, ShapeOK
  <2>2. NoKey \notin DOMAIN disk'
    BY <1>0, <2>1 DEF IsMap
  <2> QED BY <1>3, <2>2 DEF IndexInv, IndexMirrorsDirectory
<1>5. SizeOf(disk', DOMAIN disk') = Total(entries'[c])
  <2>1. IsFiniteSet(DOMAIN disk')
    BY DEF CoverInv, Summable
  <2> QED BY <1>4, <2>1, SizeDepends DEF Total
<1> QED BY <1>2, <1>5

\* One process and a sound file system: every Put and every start brings the
\* directory back within the limit.
THEOREM LimitKept ==
  ASSUME NEW one \in Caches, Caches = {one}, Faults = {}
  PROVE  Spec => CleanupKeepsLimit
<1>1. Init => CountedExactly
  BY DEF Init, CountedExactly
<1>2. ShapeOK /\ CoverInv /\ IndexInv /\ CountedExactly /\ [Next]_vars => CountedExactly'
  BY ExactStep
<1>3. ShapeOK /\ CoverInv /\ CoverInv' /\ IndexInv /\ IndexInv'
        /\ CountedExactly /\ [Next]_vars =>
        [\A c \in Caches : EvictionDone(c) => SizeOf(disk', DOMAIN disk') <= MaxBytes]_vars
  BY CleanupStep
<1>4. Spec => []IndexInv
  BY IndexInvariant
<1>5. Spec => [](ShapeOK /\ CoverInv)
  BY CoverInit, CoverNext, ShapeCorrect, PTL DEF Spec
<1>6. Spec => []CountedExactly
  BY <1>1, <1>2, <1>4, <1>5, PTL DEF Spec
<1>7. Spec => [][Next]_vars
  BY PTL DEF Spec
<1> QED BY <1>3, <1>4, <1>5, <1>6, <1>7, PTL DEF CleanupKeepsLimit
=============================================================================
