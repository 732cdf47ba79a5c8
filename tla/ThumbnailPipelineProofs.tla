----------------------- MODULE ThumbnailPipelineProofs -----------------------
(***************************************************************************)
(* The pipeline, for any number of pipelines, threads, files and versions, *)
(* every limit and all the faults: the provenance of the cached            *)
(* thumbnails, the use that is made of the cache and what follows from it, *)
(* and the freshness of what a lookup by the full key finds.               *)
(***************************************************************************)
EXTENDS ThumbnailPipeline, TLAPS

\* The directory holds thumbnails under cache keys.
DiskOK == Cache!IsMap(disk, AllKeys, Cache!File)

\* What the argument needs of the types.
ShapeOK ==
  /\ DiskOK
  /\ clock \in Nat
  /\ ver \in [Files -> 0..MaxVer]
  /\ req \in [Threads -> {Idle} \cup Decoding \cup Storing]

\* What has been rendered has been read before: its version is not younger than
\* the file.
RenderedEarlier ==
  \A t \in Threads : req[t] \in Storing => req[t].ver <= ver[req[t].path]

\* The inductive invariant behind Provenance.
ProvenanceInv == ShapeOK /\ RenderedEarlier /\ Provenance

\* The directory loses files at most, and what remains shows the same image.
DiskShrinks ==
  /\ DiskOK'
  /\ \A k \in DOMAIN disk' : k \in DOMAIN disk /\ disk'[k].img = disk[k].img

-----------------------------------------------------------------------------
LEMMA SizesAreNat == Sizes \subseteq Nat
  BY KeysAssumption DEF Cache!CacheAssumption

\* A key that is not the empty one names a file, a version and dimensions.
LEMMA KeysHaveParts ==
  ASSUME NEW k \in AllKeys, k # EmptyKey
  PROVE  k \in CacheKeys
  BY DEF AllKeys

\* What the parts of the keys of a file are.
LEMMA PartsOfKeys ==
  ASSUME NEW f \in Files, NEW d \in Dims, ver[f] \in 0..MaxVer, NEW k \in KeysOf(f, d)
  PROVE  /\ k \in AllKeys
         /\ \/ k = EmptyKey
            \/ /\ k # EmptyKey /\ k.path = f /\ k.dims = d
               /\ k.ver = ver[f] \/ k.ver = NoMeta
  <1>1. FullKey(f, d) \in CacheKeys /\ PathKey(f, d) \in CacheKeys
    BY DEF FullKey, PathKey, CacheKeys
  <1>2. EmptyKey \notin CacheKeys
    BY KeysAssumption
  <1>3. CASE k = FullKey(f, d)
    BY <1>1, <1>2, <1>3 DEF AllKeys, FullKey
  <1>4. CASE k = PathKey(f, d)
    BY <1>1, <1>2, <1>4 DEF AllKeys, PathKey
  <1>5. CASE k = EmptyKey /\ "hash" \in Faults
    BY <1>5 DEF AllKeys
  <1> QED BY <1>3, <1>4, <1>5 DEF KeysOf

\* An eviction deletes files.
LEMMA SettleShrinks ==
  ASSUME DiskOK, NEW c, NEW e, NEW b, NEW stuck, Cache!Settle(c, e, b, disk, stuck)
  PROVE  DiskShrinks
  <1>1. PICK out : disk' = Cache!Without(disk, out)
    BY DEF Cache!Settle
  <1> QED BY <1>1 DEF DiskShrinks, DiskOK, Cache!IsMap, Cache!Without

\* A directory that does not change shrinks at most.
LEMMA SameDiskShrinks ==
  ASSUME DiskOK, disk' = disk
  PROVE  DiskShrinks
  BY DEF DiskShrinks, DiskOK, Cache!IsMap

\* No operation of a cache but Save brings an image into the directory, and
\* none moves one from a key to another.
LEMMA CacheShrinks ==
  ASSUME DiskOK, NEW c,
         \/ Cache!Initialize(c) \/ Cache!Shutdown(c) \/ Cache!Restart(c)
         \/ Cache!PutRecord(c) \/ Cache!PutUnrecorded(c)
         \/ \E k : Cache!GetHit(c, k) \/ Cache!GetBroken(c, k)
  PROVE  DiskShrinks
  <1>1. CASE Cache!Initialize(c)
    <2>1. PICK e, b, stuck : Cache!Settle(c, e, b, disk, stuck)
      BY <1>1 DEF Cache!Initialize
    <2> QED BY <2>1, SettleShrinks
  <1>2. CASE Cache!PutRecord(c)
    <2>1. PICK e, b, stuck : Cache!Settle(c, e, b, disk, stuck)
      BY <1>2 DEF Cache!PutRecord
    <2> QED BY <2>1, SettleShrinks
  <1>3. CASE \/ Cache!Shutdown(c) \/ Cache!Restart(c) \/ Cache!PutUnrecorded(c)
             \/ \E k : Cache!GetHit(c, k) \/ Cache!GetBroken(c, k)
    BY <1>3, SameDiskShrinks
    DEF Cache!Shutdown, Cache!Restart, Cache!PutUnrecorded, Cache!GetHit, Cache!GetBroken
  <1> QED BY <1>1, <1>2, <1>3

\* Meddling with the directory deletes or damages files.
LEMMA EnvironmentShrinks ==
  ASSUME DiskOK, Cache!Environment
  PROVE  DiskShrinks
  <1>1. CASE Cache!Tick
    BY <1>1, SameDiskShrinks DEF Cache!Tick
  <1>2. ASSUME NEW k, Cache!StrayDelete(k) PROVE DiskShrinks
    BY <1>2 DEF Cache!StrayDelete, Cache!Without, Cache!IsMap, DiskShrinks, DiskOK
  <1>3. ASSUME NEW k, Cache!StrayDamage(k) PROVE DiskShrinks
    <2>1. PICK s \in Sizes : disk' = [disk EXCEPT ![k].good = FALSE, ![k].size = s]
      BY <1>3 DEF Cache!StrayDamage
    <2>2. k \in DOMAIN disk /\ disk[k] \in Cache!File /\ s \in Nat
      BY <1>3, SizesAreNat DEF Cache!StrayDamage, DiskOK, Cache!IsMap
    <2> DEFINE r == [disk[k] EXCEPT !.good = FALSE, !.size = s]
    <2>3. r \in Cache!File /\ r.img = disk[k].img
      BY <2>2 DEF Cache!File
    <2>4. disk' = [disk EXCEPT ![k] = r]
      BY <2>1, <2>2 DEF Cache!File, DiskOK, Cache!IsMap
    <2> HIDE DEF r
    <2> QED BY <2>2, <2>3, <2>4 DEF DiskShrinks, DiskOK, Cache!IsMap
  <1> QED BY <1>1, <1>2, <1>3 DEF Cache!Environment

\* Provenance survives a directory that shrinks and files that grow older.
LEMMA ShrinkingKeepsProvenance ==
  ASSUME ProvenanceInv, DiskShrinks,
         ver' \in [Files -> 0..MaxVer],
         \A f \in Files : ver[f] <= ver'[f]
  PROVE  Provenance'
  <1> SUFFICES ASSUME NEW k \in DOMAIN disk' \ {EmptyKey}
               PROVE  LET img == disk'[k].img
                      IN  /\ img.path = k.path
                          /\ Reported[k.path][img.dims] = k.dims
                          /\ img.ver <= IF k.ver = NoMeta THEN ver'[k.path] ELSE k.ver
    BY DEF Provenance
  <1>1. k \in DOMAIN disk /\ disk'[k].img = disk[k].img
    BY DEF DiskShrinks
  <1>2. k \in CacheKeys /\ disk[k].img \in Thumbnails
    BY <1>1, KeysHaveParts DEF ProvenanceInv, ShapeOK, DiskOK, Cache!IsMap, Cache!File
  <1>3. k.path \in Files /\ disk[k].img.ver \in Nat
    BY <1>2 DEF CacheKeys, Thumbnails
  <1>4. ver[k.path] <= ver'[k.path] /\ ver[k.path] \in Nat /\ ver'[k.path] \in Nat
    BY <1>3, PipelineAssumption DEF ProvenanceInv, ShapeOK
  <1>5. /\ disk[k].img.path = k.path
        /\ Reported[k.path][disk[k].img.dims] = k.dims
        /\ disk[k].img.ver <= IF k.ver = NoMeta THEN ver[k.path] ELSE k.ver
    BY <1>1 DEF ProvenanceInv, Provenance
  <1> QED BY <1>1, <1>3, <1>4, <1>5

\* The keys of a Put, and the thumbnail that it stores.
LEMMA StoresAreTyped ==
  ASSUME ShapeOK, NEW t \in Threads, req[t] \in Storing
  PROVE  /\ Rendered(t) \in Thumbnails
         /\ \A k \in StoreKeys(t) :
              /\ k \in AllKeys
              /\ k # EmptyKey =>
                   /\ k.path = req[t].path
                   /\ k.dims = Reported[req[t].path][req[t].dims]
                   /\ k.ver = ver[req[t].path] \/ k.ver = NoMeta
  <1>1. req[t].path \in Files /\ req[t].dims \in Dims /\ req[t].ver \in 0..MaxVer
    BY DEF Storing
  <1>2. Reported[req[t].path][req[t].dims] \in Dims /\ ver[req[t].path] \in 0..MaxVer
    BY <1>1, PipelineAssumption DEF ShapeOK
  <1> QED BY <1>1, <1>2, PartsOfKeys DEF Rendered, Thumbnails, StoreKeys

\* What Save writes is typed, and shows what its key names.
LEMMA StoreKeepsProvenance ==
  ASSUME ProvenanceInv, NEW t \in Threads, req[t] \in Storing,
         NEW k \in StoreKeys(t), NEW s \in Sizes, NEW good \in BOOLEAN,
         disk' = Cache!Put1(disk, k,
                   [size |-> s, good |-> good, mtime |-> clock, img |-> Rendered(t)]),
         ver' = ver
  PROVE  DiskOK' /\ Provenance'
  <1> DEFINE new == [size |-> s, good |-> good, mtime |-> clock, img |-> Rendered(t)]
  <1>1. /\ req[t].path \in Files /\ req[t].dims \in Dims /\ req[t].ver \in 0..MaxVer
        /\ req[t].ver <= ver[req[t].path]
        /\ ver[req[t].path] \in 0..MaxVer
    BY DEF ProvenanceInv, ShapeOK, RenderedEarlier, Storing
  <1>2. /\ Rendered(t) \in Thumbnails
        /\ k \in AllKeys
        /\ k # EmptyKey =>
             /\ k.path = req[t].path
             /\ k.dims = Reported[req[t].path][req[t].dims]
             /\ k.ver = ver[req[t].path] \/ k.ver = NoMeta
    BY StoresAreTyped DEF ProvenanceInv
  <1>3. /\ Rendered(t).path = req[t].path
        /\ Rendered(t).dims = req[t].dims
        /\ Rendered(t).ver = req[t].ver
    BY DEF Rendered
  <1>4. new \in Cache!File /\ new.img = Rendered(t)
    BY <1>2, SizesAreNat DEF Cache!File, ProvenanceInv, ShapeOK
  <1>5. disk' = [j \in DOMAIN disk \cup {k} |-> IF j = k THEN new ELSE disk[j]]
    BY DEF Cache!Put1
  <1> HIDE DEF new
  <1>6. DiskOK'
    BY <1>2, <1>4, <1>5 DEF DiskOK, Cache!IsMap, ProvenanceInv, ShapeOK
  <1>7. ASSUME NEW j \in DOMAIN disk' \ {EmptyKey}
        PROVE  LET img == disk'[j].img
               IN  /\ img.path = j.path
                   /\ Reported[j.path][img.dims] = j.dims
                   /\ img.ver <= IF j.ver = NoMeta THEN ver'[j.path] ELSE j.ver
    <2>1. CASE j = k /\ disk'[j] = new
      BY <2>1, <1>1, <1>2, <1>3, <1>4, PipelineAssumption
    <2>2. CASE j \in DOMAIN disk /\ disk'[j] = disk[j]
      BY <2>2 DEF ProvenanceInv, Provenance
    <2> QED BY <1>5, <2>1, <2>2
  <1> QED BY <1>6, <1>7 DEF Provenance

\* The argument needs no more than that a request is rendered before its key is
\* made, and that the cache only ever drops files.
LEMMA ProvenanceInvariant == Spec => []ProvenanceInv
<1>1. Init => ProvenanceInv
  BY PipelineAssumption
  DEF Init, Cache!Init, Cache!EmptyMap, Cache!IsMap, ProvenanceInv, ShapeOK, DiskOK,
      RenderedEarlier, Provenance, Idle, Storing
<1>2. ProvenanceInv /\ [Next]_vars => ProvenanceInv'
  <2> SUFFICES ASSUME ProvenanceInv, [Next]_vars PROVE ProvenanceInv'
    OBVIOUS
  <2>0. ASSUME DiskShrinks, clock' \in Nat, UNCHANGED ver,
               req' \in [Threads -> {Idle} \cup Decoding \cup Storing],
               \A t \in Threads : req'[t] \in Storing =>
                 /\ req'[t].path \in Files
                 /\ req'[t].ver <= ver[req'[t].path]
        PROVE  ProvenanceInv'
    <3>1. Provenance'
      BY <2>0, ShrinkingKeepsProvenance DEF ProvenanceInv, ShapeOK
    <3> QED BY <2>0, <3>1 DEF ProvenanceInv, ShapeOK, RenderedEarlier, DiskShrinks
  <2> USE DEF ProvenanceInv, ShapeOK, RenderedEarlier
  <2>1. ASSUME NEW c \in Caches, LifeCycle(c) PROVE ProvenanceInv'
    <3>1. DiskShrinks
      BY <2>1, CacheShrinks, SameDiskShrinks
      DEF LifeCycle, Initialize, InitializeUncached, Shutdown, Restart, cacheVars
    <3>2. UNCHANGED <<ver, clock>>
      BY <2>1
      DEF LifeCycle, Initialize, InitializeUncached, Shutdown, Restart, cacheVars, files,
          Cache!Initialize, Cache!Shutdown, Cache!Restart
    <3>3. \/ req' = req
          \/ req' = [t \in Threads |-> IF CacheOf[t] = c THEN Idle ELSE req[t]]
      BY <2>1 DEF LifeCycle, Initialize, InitializeUncached, Shutdown, Restart
    <3>4. /\ req' \in [Threads -> {Idle} \cup Decoding \cup Storing]
          /\ \A t \in Threads : req'[t] = Idle \/ req'[t] = req[t]
      BY <3>3
    <3>5. Idle \notin Storing
      BY DEF Idle, Storing
    <3>6. \A t \in Threads : req[t] \in Storing => req[t].path \in Files
      BY DEF Storing
    <3> QED BY <2>0, <3>1, <3>2, <3>4, <3>5, <3>6
  <2>2. ASSUME NEW t \in Threads, NEW k, Hit(t, k) PROVE ProvenanceInv'
    <3>1. DiskShrinks
      BY <2>2, CacheShrinks DEF Hit
    <3>2. UNCHANGED <<ver, clock, req>>
      BY <2>2 DEF Hit, files, Cache!GetHit
    <3>3. \A x \in Threads : req[x] \in Storing => req[x].path \in Files
      BY DEF Storing
    <3> QED BY <2>0, <3>1, <3>2, <3>3
  <2>3. ASSUME NEW t \in Threads, NEW f \in Files, NEW d \in Dims, NEW k, Miss(t, f, d, k)
        PROVE  ProvenanceInv'
    <3>1. DiskShrinks
      BY <2>3, CacheShrinks, SameDiskShrinks DEF Miss, cacheVars
    <3>2. UNCHANGED <<ver, clock>>
      BY <2>3 DEF Miss, files, cacheVars, Cache!GetBroken
    <3>3. req' = [req EXCEPT ![t] = [at |-> "decode", path |-> f, dims |-> d]]
      BY <2>3 DEF Miss
    <3>4. /\ [at |-> "decode", path |-> f, dims |-> d] \in Decoding
          /\ [at |-> "decode", path |-> f, dims |-> d] \notin Storing
      BY DEF Decoding, Storing
    <3>5. \A x \in Threads : req[x] \in Storing => req[x].path \in Files
      BY DEF Storing
    <3> QED BY <2>0, <3>1, <3>2, <3>3, <3>4, <3>5
  <2>4. ASSUME NEW t \in Threads, Decode(t) PROVE ProvenanceInv'
    <3> DEFINE r == [at |-> "store", path |-> req[t].path, dims |-> req[t].dims,
                     ver |-> ver[req[t].path]]
    <3>1. req[t].path \in Files /\ req[t].dims \in Dims
      BY <2>4 DEF Decode, Decoding
    <3>2. r \in Storing /\ r.path = req[t].path /\ r.ver = ver[req[t].path]
      BY <3>1 DEF Storing
    <3>3. req' = [req EXCEPT ![t] = r] /\ UNCHANGED <<ver, clock, disk>>
      BY <2>4 DEF Decode, files, cacheVars
    <3>4. \A x \in Threads : req[x] \in Storing => req[x].path \in Files
      BY DEF Storing
    <3>5. ver[req[t].path] \in Nat
      BY <3>1, PipelineAssumption
    <3> HIDE DEF r
    <3> QED BY <2>0, <3>1, <3>2, <3>3, <3>4, <3>5, SameDiskShrinks
  <2>5. ASSUME NEW t \in Threads, DecodeFails(t) \/ StoreSkipped(t) \/ Record(t)
        PROVE  ProvenanceInv'
    <3>1. DiskShrinks
      BY <2>5, CacheShrinks, SameDiskShrinks DEF DecodeFails, StoreSkipped, Record, cacheVars
    <3>2. UNCHANGED <<ver, clock>> /\ req' = [req EXCEPT ![t] = Idle]
      BY <2>5
      DEF DecodeFails, StoreSkipped, Record, files, cacheVars, Cache!PutRecord, Cache!PutUnrecorded
    <3>3. Idle \notin Storing
      BY DEF Idle, Storing
    <3>4. \A x \in Threads : req[x] \in Storing => req[x].path \in Files
      BY DEF Storing
    <3> QED BY <2>0, <3>1, <3>2, <3>3, <3>4
  <2>6. ASSUME NEW t \in Threads, Store(t) PROVE ProvenanceInv'
    <3>1. PICK k \in StoreKeys(t), s \in Sizes, good \in BOOLEAN :
            disk' = Cache!Put1(disk, k,
                      [size |-> s, good |-> good, mtime |-> clock, img |-> Rendered(t)])
      BY <2>6 DEF Store, Cache!PutSave, Cache!PutTorn
    <3>2. UNCHANGED <<ver, clock>>
      BY <2>6 DEF Store, files, Cache!PutSave, Cache!PutTorn
    <3>3. req[t] \in Storing
      BY <2>6 DEF Store
    <3>4. DiskOK' /\ Provenance'
      BY <3>1, <3>2, <3>3, StoreKeepsProvenance
    <3>5. \/ req' = [req EXCEPT ![t].at = "record"]
          \/ req' = [req EXCEPT ![t] = Idle]
      BY <2>6 DEF Store
    <3>6. /\ [req[t] EXCEPT !.at = "record"] \in Storing
          /\ [req[t] EXCEPT !.at = "record"].path = req[t].path
          /\ [req[t] EXCEPT !.at = "record"].ver = req[t].ver
      BY <3>3 DEF Storing
    <3>7. Idle \notin Storing
      BY DEF Idle, Storing
    <3>8. \/ req' = [req EXCEPT ![t] = [req[t] EXCEPT !.at = "record"]]
          \/ req' = [req EXCEPT ![t] = Idle]
      BY <3>5
    <3> QED BY <3>2, <3>3, <3>4, <3>6, <3>7, <3>8
  <2>7. ASSUME NEW f \in Files, Modify(f) \/ Delete(f) PROVE ProvenanceInv'
    <3>1. DiskShrinks /\ UNCHANGED <<clock, req>>
      BY <2>7, SameDiskShrinks DEF Modify, Delete, cacheVars
    <3>2. ver' = ver \/ (ver[f] < MaxVer /\ ver' = [ver EXCEPT ![f] = ver[f] + 1])
      BY <2>7 DEF Modify, Delete
    <3>3. ver' \in [Files -> 0..MaxVer] /\ \A x \in Files : ver[x] <= ver'[x]
      BY <3>2, PipelineAssumption
    <3>4. Provenance'
      BY <3>1, <3>3, ShrinkingKeepsProvenance
    <3>5. ASSUME NEW x \in Threads, req[x] \in Storing
          PROVE  req[x].ver <= ver'[req[x].path]
      <4>1. req[x].path \in Files /\ req[x].ver \in Nat
        BY <3>5 DEF Storing
      <4>2. /\ req[x].ver <= ver[req[x].path] /\ ver[req[x].path] <= ver'[req[x].path]
            /\ ver[req[x].path] \in Nat /\ ver'[req[x].path] \in Nat
        BY <3>3, <3>5, <4>1, PipelineAssumption
      <4> QED BY <4>1, <4>2
    <3> QED BY <3>1, <3>3, <3>4, <3>5 DEF DiskShrinks
  <2>8. ASSUME CacheEnvironment PROVE ProvenanceInv'
    <3>1. DiskShrinks /\ UNCHANGED <<ver, req>>
      BY <2>8, EnvironmentShrinks DEF CacheEnvironment, files
    <3>2. clock' \in Nat
      <4>1. clock' = clock \/ clock' = clock + 1
        BY <2>8, Zenon DEF CacheEnvironment, Cache!Environment, Cache!Tick,
                           Cache!StrayDelete, Cache!StrayDamage
      <4> QED BY <4>1
    <3>3. \A x \in Threads : req[x] \in Storing => req[x].path \in Files
      BY DEF Storing
    <3> QED BY <2>0, <3>1, <3>2, <3>3
  <2>9. ASSUME UNCHANGED vars PROVE ProvenanceInv'
    <3>1. DiskShrinks /\ UNCHANGED <<ver, req, clock>>
      BY <2>9, SameDiskShrinks DEF vars
    <3>2. \A x \in Threads : req[x] \in Storing => req[x].path \in Files
      BY DEF Storing
    <3> QED BY <2>0, <3>1, <3>2
  <2> QED
    BY <2>1, <2>2, <2>3, <2>4, <2>5, <2>6, <2>7, <2>8, <2>9 DEF Next, Work
<1> QED BY <1>1, <1>2, PTL DEF Spec

\* No thumbnail is ever filed under a key of another file, of other dimensions,
\* or of an older version, the empty key of a failed hash excepted.
THEOREM ProvenanceCorrect == Spec => []Provenance
<1>1. ProvenanceInv => Provenance
  BY DEF ProvenanceInv
<1> QED BY <1>1, ProvenanceInvariant, PTL

-----------------------------------------------------------------------------
(***************************************************************************)
(* The pipeline and its cache.  Every step of the pipeline is a step of    *)
(* ThumbnailCache or leaves it alone, so what is proved of the cache holds *)
(* below the pipeline.                                                     *)
(***************************************************************************)
CacheProofs == INSTANCE ThumbnailCacheProofs WITH
  Keys <- AllKeys, Paths <- Files, Images <- Thumbnails

\* The definitions that this instance takes over are those of Cache.
LEMMA SameSizeOf == \A f, D : Cache!SizeOf(f, D) = CacheProofs!SizeOf(f, D)
  BY DEF Cache!SizeOf, CacheProofs!SizeOf, Cache!MapThenSumSet, CacheProofs!MapThenSumSet,
         Cache!MapThenFoldSet, CacheProofs!MapThenFoldSet

LEMMA SameSettle ==
  /\ \A c, e, b, d, stuck :
       Cache!Settle(c, e, b, d, stuck) <=> CacheProofs!Settle(c, e, b, d, stuck)
  /\ \A e : Cache!Undeletable(e) = CacheProofs!Undeletable(e)
  <1>1. \A e, b, stuck : Cache!Victims(e, b, stuck) = CacheProofs!Victims(e, b, stuck)
    BY SameSizeOf DEF Cache!Victims, CacheProofs!Victims, Cache!Older, CacheProofs!Older
  <1>2. \A c, e, b, d, stuck :
          Cache!Settle(c, e, b, d, stuck) <=> CacheProofs!Settle(c, e, b, d, stuck)
    BY <1>1, SameSizeOf
    DEF Cache!Settle, CacheProofs!Settle, Cache!Without, CacheProofs!Without
  <1>3. \A e : Cache!Undeletable(e) = CacheProofs!Undeletable(e)
    BY DEF Cache!Undeletable, CacheProofs!Undeletable
  <1> QED BY <1>2, <1>3

LEMMA SameLifeCycle ==
  ASSUME NEW c
  PROVE  Cache!LifeCycle(c) => CacheProofs!LifeCycle(c)
  <1>1. Cache!Initialize(c) => CacheProofs!Initialize(c)
    BY SameSizeOf, SameSettle
    DEF Cache!Initialize, CacheProofs!Initialize, Cache!Scanned, CacheProofs!Scanned
  <1>2. Cache!Shutdown(c) => CacheProofs!Shutdown(c)
    BY DEF Cache!Shutdown, CacheProofs!Shutdown, Cache!EmptyMap, CacheProofs!EmptyMap
  <1>3. Cache!Restart(c) => CacheProofs!Restart(c)
    BY DEF Cache!Restart, CacheProofs!Restart, Cache!EmptyMap, CacheProofs!EmptyMap
  <1> QED BY <1>1, <1>2, <1>3 DEF Cache!LifeCycle, CacheProofs!LifeCycle

LEMMA SameAccess ==
  ASSUME NEW c
  PROVE  Cache!Access(c) => CacheProofs!Access(c)
  <1> USE DEF Cache!Ready, CacheProofs!Ready, Cache!Readable, CacheProofs!Readable,
              Cache!Without, CacheProofs!Without, Cache!Put1, CacheProofs!Put1,
              Cache!EmptyMap, CacheProofs!EmptyMap
  <1>1. ASSUME NEW k
        PROVE  (Cache!GetHit(c, k) \/ Cache!GetBroken(c, k))
                 => (CacheProofs!GetHit(c, k) \/ CacheProofs!GetBroken(c, k))
    BY DEF Cache!GetHit, CacheProofs!GetHit, Cache!GetBroken, CacheProofs!GetBroken
  <1>2. ASSUME NEW k, NEW img
        PROVE  (Cache!PutSave(c, k, img) \/ Cache!PutTorn(c, k, img))
                 => (CacheProofs!PutSave(c, k, img) \/ CacheProofs!PutTorn(c, k, img))
    BY DEF Cache!PutSave, CacheProofs!PutSave, Cache!PutTorn, CacheProofs!PutTorn
  <1>3. Cache!PutRecord(c) => CacheProofs!PutRecord(c)
    BY SameSettle DEF Cache!PutRecord, CacheProofs!PutRecord, Cache!Recorded, CacheProofs!Recorded
  <1>4. Cache!PutUnrecorded(c) => CacheProofs!PutUnrecorded(c)
    BY DEF Cache!PutUnrecorded, CacheProofs!PutUnrecorded
  <1>5. ASSUME NEW f PROVE Cache!Remove(c, f) => CacheProofs!Remove(c, f)
    BY SameSizeOf, SameSettle
    DEF Cache!Remove, CacheProofs!Remove, Cache!RemovedBy, CacheProofs!RemovedBy
  <1>6. Cache!Clear(c) => CacheProofs!Clear(c)
    BY DEF Cache!Clear, CacheProofs!Clear
  <1>7. Cache!ClearStopped(c) => CacheProofs!ClearStopped(c)
    BY SameSettle DEF Cache!ClearStopped, CacheProofs!ClearStopped
  <1> QED BY <1>1, <1>2, <1>3, <1>4, <1>5, <1>6, <1>7 DEF Cache!Access, CacheProofs!Access

LEMMA SameMaintenance ==
  ASSUME NEW c
  PROVE  Cache!Maintenance(c) => CacheProofs!Maintenance(c)
  <1> USE DEF Cache!Ready, CacheProofs!Ready, Cache!Readable, CacheProofs!Readable
  <1>1. ASSUME NEW new, NEW saved, NEW gone, NEW counted
        PROVE  Cache!Resaved(c, new, saved, gone, counted)
                 <=> CacheProofs!Resaved(c, new, saved, gone, counted)
    BY SameSizeOf DEF Cache!Resaved, CacheProofs!Resaved
  <1>2. ASSUME Cache!OptimizeCache(c) PROVE CacheProofs!OptimizeCache(c)
    <2> DEFINE mine == {k \in DOMAIN entries[c] : Cache!Readable(k)}
               Unsaved(stuck) == IF "save" \in Faults THEN SUBSET (mine \ stuck) ELSE {{}}
               Unsized(out) == IF "stat" \in Faults THEN SUBSET (mine \ out) ELSE {{}}
               Renewed(stuck, lost, torn, unread, new) ==
                 Cache!Resaved(c, new, mine \ (stuck \cup lost), lost \ torn,
                               mine \ (stuck \cup lost \cup unread))
    <2>1. \E stuck \in Cache!Undeletable(entries[c]) :
            \E lost \in Unsaved(stuck) : \E torn \in SUBSET lost :
            \E unread \in Unsized(stuck \cup lost) :
            \E new \in [(mine \ (stuck \cup lost)) \cup torn -> Sizes] :
              Renewed(stuck, lost, torn, unread, new)
      BY <1>2, Zenon DEF Cache!OptimizeCache
    <2>2. \A stuck, lost, torn, unread, new :
            Renewed(stuck, lost, torn, unread, new) =>
              CacheProofs!Resaved(c, new, mine \ (stuck \cup lost), lost \ torn,
                                  mine \ (stuck \cup lost \cup unread))
      BY <1>1, Zenon
    <2> HIDE DEF Renewed
    <2> HIDE DEF mine, Unsaved, Unsized
    <2>3. PICK stuck \in Cache!Undeletable(entries[c]) :
            \E lost \in Unsaved(stuck) : \E torn \in SUBSET lost :
            \E unread \in Unsized(stuck \cup lost) :
            \E new \in [(mine \ (stuck \cup lost)) \cup torn -> Sizes] :
              Renewed(stuck, lost, torn, unread, new)
      BY <2>1, Zenon
    <2>4. PICK lost \in Unsaved(stuck) :
            \E torn \in SUBSET lost : \E unread \in Unsized(stuck \cup lost) :
            \E new \in [(mine \ (stuck \cup lost)) \cup torn -> Sizes] :
              Renewed(stuck, lost, torn, unread, new)
      BY <2>3, Zenon
    <2>5. PICK torn \in SUBSET lost :
            \E unread \in Unsized(stuck \cup lost) :
            \E new \in [(mine \ (stuck \cup lost)) \cup torn -> Sizes] :
              Renewed(stuck, lost, torn, unread, new)
      BY <2>4, Zenon
    <2>6. PICK unread \in Unsized(stuck \cup lost) :
            \E new \in [(mine \ (stuck \cup lost)) \cup torn -> Sizes] :
              Renewed(stuck, lost, torn, unread, new)
      BY <2>5, Zenon
    <2>7. PICK new \in [(mine \ (stuck \cup lost)) \cup torn -> Sizes] :
              Renewed(stuck, lost, torn, unread, new)
      BY <2>6, Zenon
    <2>8. CacheProofs!Resaved(c, new, mine \ (stuck \cup lost), lost \ torn,
                              mine \ (stuck \cup lost \cup unread))
      BY <2>2, <2>7, Zenon
    <2>9. stuck \in CacheProofs!Undeletable(entries[c])
      BY <2>3, SameSettle
    <2>10. CacheProofs!Ready(c) /\ UNCHANGED <<open, saving, clock>>
      BY <1>2 DEF Cache!OptimizeCache
    <2> QED
      BY <2>4, <2>5, <2>6, <2>7, <2>8, <2>9, <2>10, Zenon
      DEF CacheProofs!OptimizeCache, mine, Unsaved, Unsized
  <1>3. Cache!DefragmentCache(c) => CacheProofs!DefragmentCache(c)
    BY SameSizeOf DEF Cache!DefragmentCache, CacheProofs!DefragmentCache
  <1> QED BY <1>2, <1>3 DEF Cache!Maintenance, CacheProofs!Maintenance

LEMMA SameEnvironment == Cache!Environment => CacheProofs!Environment
  BY DEF Cache!Environment, CacheProofs!Environment, Cache!Tick, CacheProofs!Tick,
         Cache!StrayDelete, CacheProofs!StrayDelete, Cache!StrayDamage, CacheProofs!StrayDamage,
         Cache!Without, CacheProofs!Without

LEMMA SameSpec == Cache!Spec => CacheProofs!Spec
<1>1. Cache!Init => CacheProofs!Init
  BY DEF Cache!Init, CacheProofs!Init, Cache!EmptyMap, CacheProofs!EmptyMap
<1>2. [Cache!Next]_(Cache!vars) => [CacheProofs!Next]_(CacheProofs!vars)
  BY SameLifeCycle, SameAccess, SameMaintenance, SameEnvironment
  DEF Cache!Next, CacheProofs!Next, Cache!vars, CacheProofs!vars
<1> QED BY <1>1, <1>2, PTL DEF Cache!Spec, CacheProofs!Spec

\* The pipeline keeps to the protocol of its cache: it calls Put and Get with keys
\* and images, opens a cache that is closed, and ends a Put that it has begun.
THEOREM UsesCache == Spec => Cache!Spec
<1>1. Init => Cache!Init
  BY DEF Init
<1>2. ShapeOK /\ [Next]_vars => [Cache!Next]_(Cache!vars)
  <2> SUFFICES ASSUME ShapeOK, [Next]_vars PROVE Cache!Next \/ UNCHANGED cacheVars
    BY DEF cacheVars, Cache!vars
  <2>0. \A t \in Threads : CacheOf[t] \in Caches
    BY PipelineAssumption
  <2>1. ASSUME NEW c \in Caches, LifeCycle(c) PROVE Cache!Next \/ UNCHANGED cacheVars
    <3>1. Cache!LifeCycle(c) \/ UNCHANGED cacheVars
      BY <2>1 DEF LifeCycle, Initialize, InitializeUncached, Shutdown, Restart, Cache!LifeCycle
    <3> QED BY <3>1 DEF Cache!Next
  <2>2. ASSUME NEW t \in Threads, NEW f \in Files, NEW d \in Dims, NEW k \in KeysOf(f, d),
               Hit(t, k) \/ Miss(t, f, d, k)
        PROVE  Cache!Next \/ UNCHANGED cacheVars
    <3>1. \/ Cache!GetHit(CacheOf[t], k) \/ Cache!GetBroken(CacheOf[t], k)
          \/ UNCHANGED cacheVars
      BY <2>2 DEF Hit, Miss
    <3>2. k \in AllKeys
      BY PartsOfKeys DEF ShapeOK
    <3> QED BY <2>0, <3>1, <3>2 DEF Cache!Next, Cache!Access
  <2>3. ASSUME NEW t \in Threads, Store(t) PROVE Cache!Next
    <3>1. PICK k \in StoreKeys(t) : \/ Cache!PutSave(CacheOf[t], k, Rendered(t))
                                   \/ Cache!PutTorn(CacheOf[t], k, Rendered(t))
      BY <2>3 DEF Store
    <3>2. k \in AllKeys /\ Rendered(t) \in Thumbnails
      BY <2>3, StoresAreTyped DEF Store
    <3> QED BY <2>0, <3>1, <3>2 DEF Cache!Next, Cache!Access
  <2>4. ASSUME NEW t \in Threads, Record(t) PROVE Cache!Next
    BY <2>0, <2>4 DEF Record, Cache!Next, Cache!Access
  <2>5. CASE \E t \in Threads : Decode(t) \/ DecodeFails(t) \/ StoreSkipped(t)
    BY <2>5 DEF Decode, DecodeFails, StoreSkipped
  <2>6. CASE (\E f \in Files : Modify(f) \/ Delete(f)) \/ UNCHANGED vars
    BY <2>6 DEF Modify, Delete, vars, cacheVars
  <2>7. CASE CacheEnvironment
    BY <2>7 DEF CacheEnvironment, Cache!Next
  <2> QED BY <2>1, <2>2, <2>3, <2>4, <2>5, <2>6, <2>7 DEF Next, Work
<1>3. ProvenanceInv => ShapeOK
  BY DEF ProvenanceInv
<1> QED BY <1>1, <1>2, <1>3, ProvenanceInvariant, PTL DEF Spec, Cache!Spec

\* What is proved of the cache, for the cache of the pipeline.
LEMMA CacheHolds == Spec => [](Cache!TypeOK /\ Cache!BytesCoverEntries)
<1>1. CacheProofs!CacheAssumption
  BY KeysAssumption
  DEF Cache!CacheAssumption, CacheProofs!CacheAssumption,
      Cache!FaultKinds, CacheProofs!FaultKinds
<1>2. CacheProofs!Spec => []CacheProofs!TypeOK
  BY <1>1, CacheProofs!TypesCorrect
<1>3. CacheProofs!Spec => []CacheProofs!BytesCoverEntries
  BY <1>1, CacheProofs!CountersCorrect
<1>4. CacheProofs!TypeOK => Cache!TypeOK
  BY DEF Cache!TypeOK, CacheProofs!TypeOK, Cache!ShapeOK, CacheProofs!ShapeOK,
         Cache!IsMap, CacheProofs!IsMap, Cache!File, CacheProofs!File,
         Cache!EntryInfo, CacheProofs!EntryInfo
<1>5. CacheProofs!BytesCoverEntries => Cache!BytesCoverEntries
  BY SameSizeOf DEF Cache!BytesCoverEntries, CacheProofs!BytesCoverEntries
<1> QED BY <1>2, <1>3, <1>4, <1>5, UsesCache, SameSpec, PTL

\* The byte counters of the caches never fall below their entries, so none of the
\* unsigned subtractions wraps, below pipelines that are killed, shut down and
\* started anew at any point and under all the faults.
THEOREM CountersCorrect == Spec => []BytesCoverEntries
  BY CacheHolds, PTL DEF BytesCoverEntries

\* The state of the pipelines themselves.
Flags ==
  /\ present \in [Files -> BOOLEAN]
  /\ up \in [Caches -> BOOLEAN]
  /\ provider \in [Caches -> BOOLEAN]
  /\ raced \subseteq Files

\* Every step keeps the types, of the pipelines, the requests and the caches.
THEOREM TypesCorrect == Spec => []TypeOK
<1>1. Init => Flags
  BY DEF Init, Flags
<1>2. Flags /\ [Next]_vars => Flags'
  <2> SUFFICES ASSUME Flags, [Next]_vars PROVE Flags'
    OBVIOUS
  <2>1. ASSUME NEW c \in Caches, LifeCycle(c) PROVE Flags'
    BY <2>1
    DEF Flags, LifeCycle, Initialize, InitializeUncached, Shutdown, Restart, files
  <2>2. CASE \/ \E t \in Threads, f \in Files, d \in Dims : \E k \in KeysOf(f, d) :
                  Hit(t, k) \/ Miss(t, f, d, k)
             \/ \E t \in Threads : Work(t)
             \/ CacheEnvironment \/ UNCHANGED vars
    BY <2>2
    DEF Flags, Hit, Miss, Work, Decode, DecodeFails, Store, StoreSkipped, Record,
        CacheEnvironment, files, vars
  <2>3. ASSUME NEW f \in Files, Modify(f) \/ Delete(f) PROVE Flags'
    BY <2>3 DEF Flags, Modify, Delete
  <2> QED BY <2>1, <2>2, <2>3 DEF Next
<1>3. ProvenanceInv /\ Cache!TypeOK /\ Flags => TypeOK
  BY DEF ProvenanceInv, ShapeOK, Cache!TypeOK, Flags, TypeOK
<1> QED BY <1>1, <1>2, <1>3, ProvenanceInvariant, CacheHolds, PTL DEF Spec

-----------------------------------------------------------------------------
(***************************************************************************)
(* What a lookup by the full key finds.                                    *)
(***************************************************************************)
\* t has a thumbnail that is not yet filed.
ToStore(t) == req[t] \in Storing /\ req[t].at = "store"

\* Of a file that never raced with a request, what is about to be filed shows it
\* as it is, and what is filed under a key with a version shows that version.
FreshInv ==
  /\ \A t \in Threads : ToStore(t) /\ req[t].path \notin raced =>
       req[t].ver = ver[req[t].path]
  /\ \A k \in DOMAIN disk \ {EmptyKey} : k.ver # NoMeta /\ k.path \notin raced =>
       disk[k].img.ver = k.ver

\* A step that renders nothing and stores nothing.
LEMMA NothingRendered ==
  ASSUME FreshInv, DiskShrinks, UNCHANGED <<ver, raced>>,
         \A t \in Threads : ToStore(t)' => ToStore(t) /\ req'[t] = req[t]
  PROVE  FreshInv'
  BY DEF FreshInv, DiskShrinks

LEMMA FreshStep ==
  ASSUME ShapeOK, TypeOK, FreshInv, [Next]_vars
  PROVE  FreshInv'
  <1>0. /\ DiskOK /\ DOMAIN req = Threads /\ DOMAIN ver = Files
        /\ Idle \notin Storing
    BY DEF ShapeOK, TypeOK, Idle, Storing
  <1>1. ASSUME NEW c \in Caches, LifeCycle(c) PROVE FreshInv'
    <2>1. DiskShrinks
      BY <1>0, <1>1, CacheShrinks, SameDiskShrinks
      DEF LifeCycle, Initialize, InitializeUncached, Shutdown, Restart, cacheVars
    <2>2. UNCHANGED files /\ \A t \in Threads : req'[t] = req[t] \/ req'[t] = Idle
      BY <1>1 DEF LifeCycle, Initialize, InitializeUncached, Shutdown, Restart
    <2> QED BY <1>0, <2>1, <2>2, NothingRendered DEF files, ToStore
  <1>2. ASSUME NEW t \in Threads, NEW f \in Files, NEW d \in Dims, NEW k,
               Hit(t, k) \/ Miss(t, f, d, k)
        PROVE  FreshInv'
    <2>1. DiskShrinks
      BY <1>0, <1>2, CacheShrinks, SameDiskShrinks DEF Hit, Miss, cacheVars
    <2>2. [at |-> "decode", path |-> f, dims |-> d] \notin Storing
      BY DEF Storing
    <2>3. /\ UNCHANGED files
          /\ \/ req' = req
             \/ req' = [req EXCEPT ![t] = [at |-> "decode", path |-> f, dims |-> d]]
      BY <1>2 DEF Hit, Miss
    <2> QED BY <1>0, <2>1, <2>2, <2>3, NothingRendered DEF files, ToStore
  <1>3. ASSUME NEW t \in Threads, Decode(t) PROVE FreshInv'
    <2> DEFINE r == [at |-> "store", path |-> req[t].path, dims |-> req[t].dims,
                     ver |-> ver[req[t].path]]
    <2>1. req' = [req EXCEPT ![t] = r] /\ UNCHANGED <<ver, raced, disk>>
      BY <1>3 DEF Decode, files, cacheVars
    <2>2. r.path = req[t].path /\ r.ver = ver[req[t].path]
      OBVIOUS
    <2> HIDE DEF r
    <2> QED BY <1>0, <2>1, <2>2 DEF FreshInv, ToStore
  <1>4. ASSUME NEW t \in Threads, DecodeFails(t) \/ StoreSkipped(t) \/ Record(t) PROVE FreshInv'
    <2>1. DiskShrinks
      BY <1>0, <1>4, CacheShrinks, SameDiskShrinks DEF DecodeFails, StoreSkipped, Record, cacheVars
    <2>2. UNCHANGED files /\ req' = [req EXCEPT ![t] = Idle]
      BY <1>4 DEF DecodeFails, StoreSkipped, Record
    <2> QED BY <1>0, <2>1, <2>2, NothingRendered DEF files, ToStore
  <1>5. ASSUME NEW t \in Threads, Store(t) PROVE FreshInv'
    <2>1. PICK k \in StoreKeys(t), s \in Sizes, good \in BOOLEAN :
            disk' = Cache!Put1(disk, k,
                      [size |-> s, good |-> good, mtime |-> clock, img |-> Rendered(t)])
      BY <1>5 DEF Store, Cache!PutSave, Cache!PutTorn
    <2>2. ToStore(t) /\ req[t] \in Storing /\ UNCHANGED <<ver, raced>>
      BY <1>5 DEF Store, files, ToStore
    <2>3. k # EmptyKey => /\ k.path = req[t].path
                          /\ k.ver = ver[req[t].path] \/ k.ver = NoMeta
      BY <2>2, StoresAreTyped
    <2>4. \A j \in DOMAIN disk' \ {EmptyKey} : j.ver # NoMeta /\ j.path \notin raced =>
            disk'[j].img.ver = j.ver
      <3> DEFINE new == [size |-> s, good |-> good, mtime |-> clock, img |-> Rendered(t)]
      <3>1. new.img.ver = req[t].ver
        BY DEF Rendered
      <3>2. \A j \in DOMAIN disk' : \/ j = k /\ disk'[j] = new
                                    \/ j \in DOMAIN disk /\ disk'[j] = disk[j]
        BY <2>1 DEF Cache!Put1
      <3> HIDE DEF new
      <3> QED BY <2>2, <2>3, <3>1, <3>2 DEF FreshInv
    <2>5. \/ req' = [req EXCEPT ![t] = [req[t] EXCEPT !.at = "record"]]
          \/ req' = [req EXCEPT ![t] = Idle]
      BY <1>5 DEF Store
    <2>6. [req[t] EXCEPT !.at = "record"].at = "record"
      BY <2>2 DEF Storing
    <2>7. \A x \in Threads : ToStore(x)' => ToStore(x) /\ req'[x] = req[x]
      BY <1>0, <2>5, <2>6 DEF ToStore
    <2> QED BY <2>2, <2>4, <2>7 DEF FreshInv
  <1>6. ASSUME NEW f \in Files, Modify(f) \/ Delete(f) PROVE FreshInv'
    <2>1. UNCHANGED <<req, disk>> /\ raced \subseteq raced'
      BY <1>6 DEF Modify, Delete, cacheVars
    <2>2. \A g \in Files : g # f => ver'[g] = ver[g]
      BY <1>0, <1>6 DEF Modify, Delete
    <2>3. ver' = ver \/ \A t \in Threads : ToStore(t) /\ req[t].path = f => f \in raced'
      BY <1>0, <1>6 DEF Modify, Delete, InTheMaking, ToStore
    <2>4. \A t \in Threads : ToStore(t) => req[t].path \in Files
      BY DEF ToStore, Storing
    <2> QED BY <2>1, <2>2, <2>3, <2>4 DEF FreshInv, ToStore
  <1>7. CASE CacheEnvironment \/ UNCHANGED vars
    <2>1. DiskShrinks /\ UNCHANGED <<ver, raced, req>>
      BY <1>0, <1>7, EnvironmentShrinks, SameDiskShrinks DEF CacheEnvironment, files, vars
    <2> QED BY <2>1, NothingRendered DEF ToStore
  <1> QED BY <1>1, <1>2, <1>3, <1>4, <1>5, <1>6, <1>7 DEF Next, Work

\* A lookup by the full key shows the file as it is now, for every file that was
\* never modified while a thumbnail of it was being made, whatever else was
\* modified, deleted, killed or damaged before.
THEOREM HitsAreFresh == Spec => []FreshHit
<1>1. Init => FreshInv
  BY DEF Init, Cache!Init, Cache!EmptyMap, FreshInv, ToStore, Idle, Storing
<1>2. ShapeOK /\ TypeOK /\ FreshInv /\ [Next]_vars => FreshInv'
  BY FreshStep
<1>3. ProvenanceInv => ShapeOK
  BY DEF ProvenanceInv
<1>4. ShapeOK /\ FreshInv => FreshHit
  <2> SUFFICES ASSUME ShapeOK, FreshInv, NEW c \in Caches, NEW f \in Files \ raced, NEW d \in Dims,
                      WouldHit(c, FullKey(f, d))
               PROVE  disk[FullKey(f, d)].img.ver = ver[f]
    BY DEF FreshHit
  <2>1. ver[f] \in 0..MaxVer /\ ver[f] # NoMeta
    BY PipelineAssumption DEF ShapeOK
  <2>2. FullKey(f, d) # EmptyKey
    BY <2>1, KeysAssumption DEF FullKey, CacheKeys
  <2>3. FullKey(f, d) \in DOMAIN disk
    BY DEF WouldHit, Cache!Readable
  <2>4. FullKey(f, d).ver = ver[f] /\ FullKey(f, d).path = f
    BY DEF FullKey
  <2> QED BY <2>1, <2>2, <2>3, <2>4 DEF FreshInv
<1> QED BY <1>1, <1>2, <1>3, <1>4, ProvenanceInvariant, TypesCorrect, PTL DEF Spec
=============================================================================
