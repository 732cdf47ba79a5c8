--------------------------- MODULE ThumbnailCache ---------------------------
(***************************************************************************)
(* The persistent thumbnail cache of the shell extension                   *)
(* (Engine/Cache/ThumbnailCache.cpp): PNG files in one directory, and in   *)
(* every ThumbnailCache object an index of them that is kept in memory     *)
(* under a mutex and rebuilt from the directory by Initialize.             *)
(*                                                                         *)
(* The mutex belongs to the object, the directory to the user: every COM   *)
(* object of the extension has a pipeline and a cache of its own           *)
(* (LENSShellClass.cpp:22, ThumbnailPipeline.cpp:190), and all of them,    *)
(* in explorer or in a surrogate host, work on the same files.  An         *)
(* operation is one action, except Put, whose Save and whose bookkeeping   *)
(* are two steps between which another cache may touch the directory.      *)
(*                                                                         *)
(* The hit, miss and eviction counters are left out: nothing reads them    *)
(* but GetDetailedStats.                                                   *)
(***************************************************************************)
EXTENDS Integers, FiniteSets, FiniteSetsExt

CONSTANTS
  Caches,    \* ThumbnailCache objects, in any process
  Keys,      \* cache keys: what MD5Hash returns
  EmptyKey,  \* the empty string, which it returns when it fails
  Paths,     \* source files
  Rank,      \* the order of the keys as strings
  Images,    \* rendered thumbnails
  Sizes,     \* sizes of PNG files
  MaxBytes,  \* maxSizeMB, in the unit of Sizes
  MaxClock,  \* bound on the clock, in seconds
  EpochGap,  \* seconds between the epochs of file_clock and system_clock
  Faults,    \* file system faults considered
  NoKey      \* not a key

FaultKinds ==
  { "hash",    \* MD5Hash fails: every file has the key EmptyKey
    "meta",    \* GetFileAttributesExW fails for a file that exists
    "load",    \* GDI+ cannot load a good file
    "save",    \* GDI+ cannot save: the old file stays, or a torn one is left
    "stat",    \* file_size throws
    "remove",  \* fs::remove throws: the file is open elsewhere
    "scan",    \* the directory scan of Initialize throws
    "stray" }  \* somebody else deletes or damages a file of the directory

ASSUME CacheAssumption ==
  /\ NoKey \notin Keys
  /\ EmptyKey \in Keys => "hash" \in Faults
  /\ Rank \in [Keys -> Nat]
  /\ \A j, k \in Keys : Rank[j] = Rank[k] => j = k
  /\ Sizes \subseteq Nat
  /\ MaxBytes \in Nat /\ MaxClock \in Nat
  /\ EpochGap \in Nat /\ EpochGap > MaxClock
  /\ Faults \subseteq FaultKinds

VARIABLES
  open,     \* open[c]: m_initialized
  entries,  \* entries[c]: m_entries, a map from keys to size and access time
  bytes,    \* bytes[c]: m_currentSizeBytes
  saving,   \* saving[c]: key of the Put between Save and bookkeeping, or NoKey
  disk,     \* the directory: a map from keys to files
  clock     \* seconds

vars == <<open, entries, bytes, saving, disk, clock>>

EntryInfo == [size : Nat, atime : Nat]
File == [size : Nat, good : BOOLEAN, mtime : Nat, img : Images]

\* Maps with a changing domain.
IsMap(f, S, V) == DOMAIN f \subseteq S /\ f \in [DOMAIN f -> V]
EmptyMap == [k \in {} |-> 0]
Without(f, D) == [k \in DOMAIN f \ D |-> f[k]]
Put1(f, k, v) == [j \in DOMAIN f \cup {k} |-> IF j = k THEN v ELSE f[j]]

\* The bytes that the keys D of the map f (entries or files) add up to.
SizeOf(f, D) == MapThenSumSet(LAMBDA k : f[k].size, D)

Init ==
  /\ open = [c \in Caches |-> FALSE]
  /\ entries = [c \in Caches |-> EmptyMap]
  /\ bytes = [c \in Caches |-> 0]
  /\ saving = [c \in Caches |-> NoKey]
  /\ disk = EmptyMap
  /\ clock = 0

-----------------------------------------------------------------------------
(* Eviction *)

\* Variant with a defect: newest first.
NewestFirst(e, j, k) ==
  \/ e[j].atime > e[k].atime
  \/ e[j].atime = e[k].atime /\ Rank[j] < Rank[k]

\* The order of EvictLRU: (lastAccessTime, key), oldest first.
Older(e, j, k) ==
  \/ e[j].atime < e[k].atime
  \/ e[j].atime = e[k].atime /\ Rank[j] < Rank[k]

\* Variants with a defect: the loop stops one removal early, or one late.
VictimsButLast(e, b, stuck) ==
  {k \in DOMAIN e \ stuck :
     b - SizeOf(e, {j \in DOMAIN e \ stuck : j = k \/ Older(e, j, k)}) > MaxBytes}
VictimsAndOne(e, b, stuck) ==
  {k \in DOMAIN e \ stuck :
     b - SizeOf(e, {j \in DOMAIN e \ stuck : Older(e, j, k)}) >= MaxBytes}

\* What EvictLRU removes from an index e that counts b bytes, when the files
\* of "stuck" cannot be deleted: oldest first, an entry goes if the bytes left
\* by the removals before it still exceed the limit.
Victims(e, b, stuck) ==
  {k \in DOMAIN e \ stuck :
     b - SizeOf(e, {j \in DOMAIN e \ stuck : Older(e, j, k)}) > MaxBytes}

\* The files of c's index that may turn out to be undeletable.
Undeletable(e) ==
  IF "remove" \in Faults THEN SUBSET (DOMAIN e \cap DOMAIN disk) ELSE {{}}

\* Variant with a defect: the counter is lowered before the file is deleted, and
\* stays lowered when that fails.
SettleEarly(c, e, b, d, stuck) ==
  LET out == IF b > MaxBytes THEN Victims(e, b, stuck) ELSE {}
  IN  /\ entries' = [entries EXCEPT ![c] = Without(e, out)]
      /\ bytes' = [bytes EXCEPT ![c] =
                     b - SizeOf(e, out) - (IF b > MaxBytes THEN SizeOf(e, stuck) ELSE 0)]
      /\ disk' = Without(d, out)

\* Replace c's index by e and its counter by b, after an eviction if the
\* counter is over the limit; d is the directory before the eviction.
Settle(c, e, b, d, stuck) ==
  LET out == IF b > MaxBytes THEN Victims(e, b, stuck) ELSE {}
  IN  /\ entries' = [entries EXCEPT ![c] = Without(e, out)]
      /\ bytes' = [bytes EXCEPT ![c] = b - SizeOf(e, out)]
      /\ disk' = Without(d, out)

-----------------------------------------------------------------------------
(* Life cycle *)

\* The files that the scan takes for its own: ".png", the file of the empty
\* key, is a name without an extension.
Scanned == DOMAIN disk \ {EmptyKey}

\* Initialize: every PNG becomes an entry, its write time the access time.
\* A scan that throws keeps what it has read so far, and the bytes of the
\* file it was reading (extra) stay counted without an entry.
Initialize(c) ==
  /\ ~open[c]
  /\ \E seen \in IF "scan" \in Faults THEN SUBSET Scanned ELSE {Scanned} :
     \E extra \in {0} \cup {disk[k].size : k \in Scanned \ seen} :
       LET e == [k \in seen |->
                   [size |-> disk[k].size, atime |-> disk[k].mtime + EpochGap]]
       IN  \E stuck \in Undeletable(e) :
             Settle(c, e, SizeOf(disk, seen) + extra, disk, stuck)
  /\ open' = [open EXCEPT ![c] = TRUE]
  /\ UNCHANGED <<saving, clock>>

\* Shutdown: the index is dropped, the files and the counter stay.
Shutdown(c) ==
  /\ saving[c] = NoKey
  /\ open' = [open EXCEPT ![c] = FALSE]
  /\ entries' = [entries EXCEPT ![c] = EmptyMap]
  /\ UNCHANGED <<bytes, saving, disk, clock>>

\* The process dies, possibly in the middle of a Put, and starts anew.
Restart(c) ==
  /\ open' = [open EXCEPT ![c] = FALSE]
  /\ entries' = [entries EXCEPT ![c] = EmptyMap]
  /\ bytes' = [bytes EXCEPT ![c] = 0]
  /\ saving' = [saving EXCEPT ![c] = NoKey]
  /\ UNCHANGED <<disk, clock>>

-----------------------------------------------------------------------------
(* ICacheProvider *)

\* c's mutex is free and its cache is initialized.
Ready(c) == open[c] /\ saving[c] = NoKey

Readable(k) == k \in DOMAIN disk /\ disk[k].good

\* Get, hit: the access time is renewed.
GetHit(c, k) ==
  /\ Ready(c)
  /\ k \in DOMAIN entries[c]
  /\ Readable(k)
  /\ entries' = [entries EXCEPT ![c][k].atime = clock]
  /\ UNCHANGED <<open, bytes, saving, disk, clock>>

\* Get of an entry whose file does not load: the entry goes, the file stays.
GetBroken(c, k) ==
  /\ Ready(c)
  /\ k \in DOMAIN entries[c]
  /\ "load" \in Faults \/ ~Readable(k)
  /\ entries' = [entries EXCEPT ![c] = Without(@, {k})]
  /\ bytes' = [bytes EXCEPT ![c] = @ - entries[c][k].size]
  /\ UNCHANGED <<open, saving, disk, clock>>

\* Put, up to SaveBitmapToFile, which replaces the file of k.
PutSave(c, k, img) ==
  /\ Ready(c)
  /\ \E s \in Sizes :
       disk' = Put1(disk, k, [size |-> s, good |-> TRUE, mtime |-> clock, img |-> img])
  /\ saving' = [saving EXCEPT ![c] = k]
  /\ UNCHANGED <<open, entries, bytes, clock>>

\* Put whose SaveBitmapToFile fails half way: E_FAIL, the index is untouched.
PutTorn(c, k, img) ==
  /\ Ready(c)
  /\ "save" \in Faults
  /\ \E s \in Sizes :
       disk' = Put1(disk, k, [size |-> s, good |-> FALSE, mtime |-> clock, img |-> img])
  /\ UNCHANGED <<open, entries, bytes, saving, clock>>

\* The size that c has recorded for k, 0 without an entry; in the variant with
\* a defect twice the size.
RecordedTwice(c, k) == IF k \in DOMAIN entries[c] THEN 2 * entries[c][k].size ELSE 0
Recorded(c, k) == IF k \in DOMAIN entries[c] THEN entries[c][k].size ELSE 0

\* The bookkeeping of Put: the entry of k is added or updated with the size
\* the file has by now (0 if it is gone), then the cache evicts if over limit.
PutRecord(c) ==
  LET k == saving[c]
      size == IF k \in DOMAIN disk THEN disk[k].size ELSE 0
      e == Put1(entries[c], k, [size |-> size, atime |-> clock])
  IN  /\ k # NoKey
      /\ \E stuck \in Undeletable(e) :
           Settle(c, e, bytes[c] - Recorded(c, k) + size, disk, stuck)
      /\ saving' = [saving EXCEPT ![c] = NoKey]
      /\ UNCHANGED <<open, clock>>

\* Put whose file_size throws: E_FAIL, the file stays and no entry is made.
PutUnrecorded(c) ==
  /\ saving[c] # NoKey
  /\ "stat" \in Faults
  /\ saving' = [saving EXCEPT ![c] = NoKey]
  /\ UNCHANGED <<open, entries, bytes, disk, clock>>

\* The keys that Remove(f) removes: all of them, f is not looked at.
RemovedBy(c, f) == DOMAIN entries[c]

\* Remove: an entry whose file cannot be deleted stays.
Remove(c, f) ==
  /\ Ready(c)
  /\ \E stuck \in Undeletable(entries[c]) :
       LET out == RemovedBy(c, f) \ stuck
       IN  /\ entries' = [entries EXCEPT ![c] = Without(@, out)]
           /\ bytes' = [bytes EXCEPT ![c] = @ - SizeOf(entries[c], out)]
           /\ disk' = Without(disk, out)
  /\ UNCHANGED <<open, saving, clock>>

\* Variant with a defect: the files stay.
ClearIndexOnly(c) ==
  /\ Ready(c)
  /\ entries' = [entries EXCEPT ![c] = EmptyMap]
  /\ bytes' = [bytes EXCEPT ![c] = 0]
  /\ UNCHANGED <<open, saving, disk, clock>>

\* Clear: the files of the index, the index and the counter go.
Clear(c) ==
  /\ Ready(c)
  /\ entries' = [entries EXCEPT ![c] = EmptyMap]
  /\ bytes' = [bytes EXCEPT ![c] = 0]
  /\ disk' = Without(disk, DOMAIN entries[c])
  /\ UNCHANGED <<open, saving, clock>>

\* Clear stopped by a file that cannot be deleted: the files deleted so far
\* are gone, the index and the counter are as before.
ClearStopped(c) ==
  /\ Ready(c)
  /\ \E stuck \in Undeletable(entries[c]) \ {{}} :
     \E gone \in SUBSET (DOMAIN entries[c] \ stuck) :
       disk' = Without(disk, gone)
  /\ UNCHANGED <<open, entries, bytes, saving, clock>>

-----------------------------------------------------------------------------
(* Maintenance *)

\* Of the files of "new", which have got the sizes it gives, those of "saved"
\* are whole and the others torn; those of "gone" are lost.  The entries of
\* "counted" get the size of the new file, which may be larger than the old.
Resaved(c, new, saved, gone, counted) ==
  /\ disk' = [k \in DOMAIN disk \ gone |->
                IF k \in DOMAIN new
                  THEN [disk[k] EXCEPT !.size = new[k], !.mtime = clock, !.good = k \in saved]
                  ELSE disk[k]]
  /\ entries' = [entries EXCEPT ![c] =
       [k \in DOMAIN @ |-> IF k \in counted THEN [@[k] EXCEPT !.size = new[k]] ELSE @[k]]]
  /\ bytes' = [bytes EXCEPT ![c] = @ - SizeOf(entries[c], counted) + SizeOf(disk', counted)]

\* OptimizeCache: every readable file is deleted and saved again from the
\* bitmap that was loaded.  A save may fail (lost) and leave a torn file; a size
\* that cannot be read again leaves the entry as it was.  No eviction follows.
OptimizeCache(c) ==
  LET mine == {k \in DOMAIN entries[c] : Readable(k)}
  IN  /\ Ready(c)
      /\ \E stuck \in Undeletable(entries[c]) :
         \E lost \in IF "save" \in Faults THEN SUBSET (mine \ stuck) ELSE {{}} :
         \E torn \in SUBSET lost :
         \E unread \in IF "stat" \in Faults THEN SUBSET (mine \ (stuck \cup lost)) ELSE {{}} :
         \E new \in [(mine \ (stuck \cup lost)) \cup torn -> Sizes] :
           Resaved(c, new, mine \ (stuck \cup lost), lost \ torn,
                   mine \ (stuck \cup lost \cup unread))
      /\ UNCHANGED <<open, saving, clock>>

\* DefragmentCache: keep the entries whose file exists, with its size, and
\* count again; an entry whose file cannot be examined is dropped.
DefragmentCache(c) ==
  /\ Ready(c)
  /\ \E skipped \in IF "stat" \in Faults THEN SUBSET DOMAIN entries[c] ELSE {{}} :
       LET kept == (DOMAIN entries[c] \cap DOMAIN disk) \ skipped
       IN  /\ entries' = [entries EXCEPT ![c] =
                [k \in kept |-> [@[k] EXCEPT !.size = disk[k].size]]]
           /\ bytes' = [bytes EXCEPT ![c] = SizeOf(disk, kept)]
  /\ UNCHANGED <<open, saving, disk, clock>>

-----------------------------------------------------------------------------
(* Environment *)

\* Somebody else deletes or damages a file of the cache directory.
StrayDelete(k) ==
  /\ "stray" \in Faults
  /\ k \in DOMAIN disk
  /\ disk' = Without(disk, {k})
  /\ UNCHANGED <<open, entries, bytes, saving, clock>>

StrayDamage(k) ==
  /\ "stray" \in Faults
  /\ k \in DOMAIN disk
  /\ \E s \in Sizes :
       disk' = [disk EXCEPT ![k].good = FALSE, ![k].size = s]
  /\ UNCHANGED <<open, entries, bytes, saving, clock>>

Tick ==
  /\ clock < MaxClock
  /\ clock' = clock + 1
  /\ UNCHANGED <<open, entries, bytes, saving, disk>>

LifeCycle(c) == Initialize(c) \/ Shutdown(c) \/ Restart(c)

Access(c) ==
  \/ \E k \in Keys : GetHit(c, k) \/ GetBroken(c, k)
  \/ \E k \in Keys, img \in Images : PutSave(c, k, img) \/ PutTorn(c, k, img)
  \/ PutRecord(c)
  \/ PutUnrecorded(c)
  \/ \E f \in Paths : Remove(c, f)
  \/ Clear(c)
  \/ ClearStopped(c)

Maintenance(c) == OptimizeCache(c) \/ DefragmentCache(c)

Environment == Tick \/ \E k \in Keys : StrayDelete(k) \/ StrayDamage(k)

Next ==
  \/ \E c \in Caches : LifeCycle(c) \/ Access(c) \/ Maintenance(c)
  \/ Environment

Spec == Init /\ [][Next]_vars
-----------------------------------------------------------------------------
(* Properties *)

\* The types of everything but the byte counters.
ShapeOK ==
  /\ open \in [Caches -> BOOLEAN]
  /\ DOMAIN entries = Caches
  /\ \A c \in Caches : IsMap(entries[c], Keys, EntryInfo)
  /\ saving \in [Caches -> Keys \cup {NoKey}]
  /\ IsMap(disk, Keys, File)
  /\ clock \in 0..MaxClock

\* The counters are unsigned: a negative one stands for a wrapped subtraction.
TypeOK == ShapeOK /\ bytes \in [Caches -> Nat]

\* The counter of an initialized cache never falls below the bytes of its
\* entries, whatever the file system and the other processes do: none of the
\* subtractions of Get, Put, Remove, EvictLRU and OptimizeCache, which are
\* unsigned in the code, wraps around, now or at any later removal.
BytesCoverEntries ==
  \A c \in Caches : open[c] => bytes[c] >= SizeOf(entries[c], DOMAIN entries[c])

\* One process and a sound file system: the index lists exactly the files of
\* the directory, with their sizes, through evictions, restarts and a kill in
\* the middle of a Put.  Only the file of a Put under way may be ahead.
IndexMirrorsDirectory ==
  \A c \in Caches : open[c] =>
    /\ DOMAIN entries[c] \subseteq DOMAIN disk
    /\ DOMAIN disk \subseteq DOMAIN entries[c] \cup {saving[c]}
    /\ \A k \in DOMAIN entries[c] \ {saving[c]} : entries[c][k].size = disk[k].size

\* A Put of c ends, or an Initialize.
EvictionDone(c) ==
  /\ open'[c]
  /\ ~open[c] \/ (saving[c] # NoKey /\ saving'[c] = NoKey)

\* "Automatic cleanup to maintain size limits" (ThumbnailCache.h:12): with one
\* cache and a sound file system, the whole directory is within the limit after
\* every Put and every start, also when OptimizeCache has blown up its files
\* before or a process has died between the Save of a Put and its eviction.
CleanupKeepsLimit ==
  [][\A c \in Caches :
       EvictionDone(c) => SizeOf(disk', DOMAIN disk') <= MaxBytes]_vars

\* The same at every moment without a Put under way.
DirectoryWithinLimit ==
  (\A c \in Caches : open[c] /\ saving[c] = NoKey)
    => SizeOf(disk, DOMAIN disk) <= MaxBytes

\* What a Put or an Initialize of c has evicted in this step.
EvictedBy(c) ==
  IF saving'[c] = saving[c] /\ open'[c] = open[c] THEN {}
  ELSE DOMAIN disk \ DOMAIN disk'

\* The time stamp by which that eviction has judged k: now for the thumbnail
\* just stored, the last use for an entry, the write time, in the other epoch,
\* for a file found by the scan.
Stamp(c, k) ==
  IF k = saving[c] THEN clock
  ELSE IF k \in DOMAIN entries[c] THEN entries[c][k].atime
  ELSE disk[k].mtime + EpochGap

\* The eviction stops as soon as the cache fits: had the last file it took been
\* left, the youngest of them by time stamp and key, the counter would still be
\* over the limit.
EvictsOnlyAsNeeded ==
  [][\A c \in Caches : EvictedBy(c) # {} =>
       \E j \in EvictedBy(c) :
         /\ \A k \in EvictedBy(c) \ {j} :
              \/ Stamp(c, k) < Stamp(c, j)
              \/ Stamp(c, k) = Stamp(c, j) /\ Rank[k] < Rank[j]
         /\ bytes'[c] + disk[j].size > MaxBytes]_vars

\* A stamp of the scan, and the time a stamp stands for.
FromScan(stamp) == stamp >= EpochGap
TimeOf(stamp) == IF FromScan(stamp) THEN stamp - EpochGap ELSE stamp

\* What an eviction takes was last used no later than what it leaves, where use
\* is a Get or Put since the cache was opened, or else the writing of the file;
\* with one exception that the two epochs make: an entry that the scan found,
\* unused since, outlives all that have been used since.
EvictsLeastRecentlyUsed ==
  [][\A c \in Caches : \A k \in EvictedBy(c) : \A j \in DOMAIN entries'[c] :
       LET left == entries'[c][j].atime
       IN  (FromScan(left) => FromScan(Stamp(c, k)))
             => TimeOf(Stamp(c, k)) <= TimeOf(left)]_vars

\* "oldest entries are evicted first" (ThumbnailCache.h:18): a thumbnail that
\* is stored now is not evicted while an entry survives that was written before
\* this second and has not been used in it.
JustStoredOutlivesOlder ==
  [][\A c \in Caches : \A j \in DOMAIN entries'[c] :
       saving[c] \in EvictedBy(c)
         => entries'[c][j].atime = clock \/ disk[j].mtime = clock]_vars

=============================================================================
