-------------------------- MODULE ThumbnailPipeline --------------------------
(***************************************************************************)
(* The thumbnail pipeline (Engine/Pipeline/ThumbnailPipeline.cpp) on top   *)
(* of its cache: a request looks its file up in the cache, decodes it on a *)
(* miss, and stores the result.  Each of the three steps finds the file as *)
(* it is at that moment, and between them the file may be modified or      *)
(* deleted, the process may die, and other pipelines, which share the      *)
(* cache directory, may do anything.                                       *)
(*                                                                         *)
(* A pipeline and its ThumbnailCache are named by the same element of      *)
(* Caches.  The version of a file stands for its size and write time,      *)
(* which every modification is taken to change.  The choice of a decoder,  *)
(* the upload to the GPU and the cache warming service leave no trace in   *)
(* this state and are left out.                                            *)
(***************************************************************************)
EXTENDS Integers, FiniteSets

CONSTANTS
  Threads,   \* threads that ask for thumbnails
  Caches,    \* pipelines, each with a cache object of its own
  CacheOf,   \* the pipeline that a thread calls
  Files,     \* source files
  Dims,      \* thumbnail dimensions
  Reported,  \* the dimensions that the decoder of a file reports for a request
  MaxVer,    \* bound on the modifications of a file
  NoMeta,    \* in a key: GetFileMetadata has failed
  Rank, Sizes, MaxBytes, MaxClock, EpochGap, Faults, NoKey, EmptyKey  \* of ThumbnailCache

ASSUME PipelineAssumption ==
  /\ CacheOf \in [Threads -> Caches]
  /\ Reported \in [Files -> [Dims -> Dims]]
  /\ MaxVer \in Nat /\ NoMeta \notin 0..MaxVer

VARIABLES
  ver,       \* ver[f]: version of file f
  present,   \* present[f]: the file exists
  up,        \* up[c]: Impl::initialized
  provider,  \* provider[c]: cacheProvider is not null
  req,       \* req[t]: the request that t is serving
  raced,     \* history: files modified while a thumbnail of them was being made
  open, entries, bytes, saving, disk, clock  \* of ThumbnailCache

files == <<ver, present, raced>>
cacheVars == <<open, entries, bytes, saving, disk, clock>>
vars == <<ver, present, raced, up, provider, req, open, entries, bytes, saving, disk, clock>>

\* What a cache key is the hash of, the keys with the empty one, and a rendered
\* thumbnail: the file, the version and the requested dimensions that it shows.
CacheKeys == [path : Files, ver : (0..MaxVer) \cup {NoMeta}, dims : Dims]
AllKeys == CacheKeys \cup (IF "hash" \in Faults THEN {EmptyKey} ELSE {})
Thumbnails == [path : Files, ver : 0..MaxVer, dims : Dims]

Cache == INSTANCE ThumbnailCache WITH
  Keys <- AllKeys, Paths <- Files, Images <- Thumbnails

ASSUME KeysAssumption == Cache!CacheAssumption /\ EmptyKey \notin CacheKeys

\* A thread without a request, and the stages of one.
Idle == [at |-> "idle"]
Decoding == [at : {"decode"}, path : Files, dims : Dims]
Storing == [at : {"store", "record"}, path : Files, dims : Dims, ver : 0..MaxVer]

Init ==
  /\ Cache!Init
  /\ ver = [f \in Files |-> 0]
  /\ present = [f \in Files |-> TRUE]
  /\ up = [c \in Caches |-> FALSE]
  /\ provider = [c \in Caches |-> FALSE]
  /\ req = [t \in Threads |-> Idle]
  /\ raced = {}

-----------------------------------------------------------------------------
(* Life cycle of a pipeline *)

\* The requests that pipeline c is serving.
Serving(c) == {t \in Threads : CacheOf[t] = c /\ req[t] # Idle}

\* Initialize: a cache is made and opened unless one is left from before.
Initialize(c) ==
  /\ ~up[c]
  /\ up' = [up EXCEPT ![c] = TRUE]
  /\ provider' = [provider EXCEPT ![c] = TRUE]
  /\ IF provider[c] THEN UNCHANGED cacheVars ELSE Cache!Initialize(c)
  /\ UNCHANGED <<files, req>>

\* Initialize without a cache: its directory cannot be created.
InitializeUncached(c) ==
  /\ ~up[c] /\ ~provider[c]
  /\ up' = [up EXCEPT ![c] = TRUE]
  /\ UNCHANGED <<files, provider, req, cacheVars>>

\* Shutdown: the cache object stays, shut down.  It is not to be called while
\* requests are being served (ThumbnailPipeline.h:10).
Shutdown(c) ==
  /\ up[c] /\ Serving(c) = {}
  /\ up' = [up EXCEPT ![c] = FALSE]
  /\ IF provider[c] THEN Cache!Shutdown(c) ELSE UNCHANGED cacheVars
  /\ UNCHANGED <<files, provider, req>>

\* The process dies, with the requests it was serving, and starts anew.
Restart(c) ==
  /\ Cache!Restart(c)
  /\ up' = [up EXCEPT ![c] = FALSE]
  /\ provider' = [provider EXCEPT ![c] = FALSE]
  /\ req' = [t \in Threads |-> IF CacheOf[t] = c THEN Idle ELSE req[t]]
  /\ UNCHANGED files

-----------------------------------------------------------------------------
(* GenerateThumbnail *)

\* Variant with a defect: the write time is not part of the key.
FullKeyWithoutTime(f, d) == [path |-> f, ver |-> 0, dims |-> d]

\* The key of f in its present version, and the one made of path and dimensions
\* only.
FullKey(f, d) == [path |-> f, ver |-> ver[f], dims |-> d]
PathKey(f, d) == [path |-> f, ver |-> NoMeta, dims |-> d]

\* Variant with a defect: the metadata are used although they could not be read.
KeysFromGarbage(f, d) ==
  {IF present[f] THEN FullKey(f, d) ELSE [FullKey(f, d) EXCEPT !.ver = MaxVer + 1]}

\* What GenerateKey may return for f at the time of the call: the full key, the
\* path's if the metadata cannot be read, the empty one if MD5Hash fails.
KeysOf(f, d) ==
  (IF present[f] THEN {FullKey(f, d)} ELSE {})
  \cup (IF ~present[f] \/ "meta" \in Faults THEN {PathKey(f, d)} ELSE {})
  \cup (IF "hash" \in Faults THEN {EmptyKey} ELSE {})

\* Pipeline c has a thumbnail for the key k.
WouldHit(c, k) ==
  up[c] /\ provider[c] /\ Cache!Ready(c) /\ k \in DOMAIN entries[c] /\ Cache!Readable(k)

\* The lookup succeeds: the request is answered at once.
Hit(t, k) ==
  LET c == CacheOf[t]
  IN  /\ req[t] = Idle
      /\ WouldHit(c, k)
      /\ Cache!GetHit(c, k)
      /\ UNCHANGED <<files, up, provider, req>>

\* The lookup fails: no cache, a cache that is shut down, no entry, or an entry
\* whose file does not load.
Miss(t, f, d, k) ==
  LET c == CacheOf[t]
  IN  /\ req[t] = Idle /\ up[c]
      /\ \/ ~provider[c] /\ UNCHANGED cacheVars
         \/ ~open[c] /\ UNCHANGED cacheVars
         \/ Cache!Ready(c) /\ k \notin DOMAIN entries[c] /\ UNCHANGED cacheVars
         \/ provider[c] /\ Cache!GetBroken(c, k)
      /\ req' = [req EXCEPT ![t] = [at |-> "decode", path |-> f, dims |-> d]]
      /\ UNCHANGED <<files, up, provider>>

\* The decoder renders the file as it is now.
Decode(t) ==
  LET f == req[t].path
  IN  /\ req[t] \in Decoding
      /\ present[f]
      /\ req' = [req EXCEPT ![t] =
           [at |-> "store", path |-> f, dims |-> req[t].dims, ver |-> ver[f]]]
      /\ UNCHANGED <<files, up, provider, cacheVars>>

\* No decoder takes the file, or it is damaged or gone: the request fails.
DecodeFails(t) ==
  /\ req[t] \in Decoding
  /\ req' = [req EXCEPT ![t] = Idle]
  /\ UNCHANGED <<files, up, provider, cacheVars>>

\* The keys and the image of the Put of t, whose thumbnail is rendered.
StoreKeys(t) == KeysOf(req[t].path, Reported[req[t].path][req[t].dims])
Rendered(t) == [path |-> req[t].path, ver |-> req[t].ver, dims |-> req[t].dims]

\* Put, with the mutex held from now on if the file is saved.
Store(t) ==
  LET c == CacheOf[t]
  IN  /\ req[t] \in Storing /\ req[t].at = "store"
      /\ provider[c]
      /\ \E k \in StoreKeys(t) :
           \/ /\ Cache!PutSave(c, k, Rendered(t))
              /\ req' = [req EXCEPT ![t].at = "record"]
           \/ /\ Cache!PutTorn(c, k, Rendered(t))
              /\ req' = [req EXCEPT ![t] = Idle]
      /\ UNCHANGED <<files, up, provider>>

\* No cache, one that is shut down, or a save that leaves no file: the request
\* is answered all the same.
StoreSkipped(t) ==
  LET c == CacheOf[t]
  IN  /\ req[t] \in Storing /\ req[t].at = "store"
      /\ ~provider[c] \/ ~open[c] \/ (Cache!Ready(c) /\ "save" \in Faults)
      /\ req' = [req EXCEPT ![t] = Idle]
      /\ UNCHANGED <<files, up, provider, cacheVars>>

\* The rest of Put, and the answer.
Record(t) ==
  LET c == CacheOf[t]
  IN  /\ req[t] \in Storing /\ req[t].at = "record"
      /\ Cache!PutRecord(c) \/ Cache!PutUnrecorded(c)
      /\ req' = [req EXCEPT ![t] = Idle]
      /\ UNCHANGED <<files, up, provider>>

-----------------------------------------------------------------------------
(* The user's files *)

\* A thumbnail of f has been looked up in vain and is not yet stored.
InTheMaking(f) ==
  \E t \in Threads : req[t] # Idle /\ req[t].path = f /\ req[t].at # "record"

\* Write the file f, anew if it has been deleted.
Modify(f) ==
  /\ ver[f] < MaxVer
  /\ ver' = [ver EXCEPT ![f] = @ + 1]
  /\ present' = [present EXCEPT ![f] = TRUE]
  /\ raced' = IF InTheMaking(f) THEN raced \cup {f} ELSE raced
  /\ UNCHANGED <<up, provider, req, cacheVars>>

Delete(f) ==
  /\ present[f]
  /\ present' = [present EXCEPT ![f] = FALSE]
  /\ UNCHANGED <<ver, raced, up, provider, req, cacheVars>>

\* Time passes, or somebody meddles with the cache directory.
CacheEnvironment ==
  /\ Cache!Environment
  /\ UNCHANGED <<files, up, provider, req>>

LifeCycle(c) == Initialize(c) \/ InitializeUncached(c) \/ Shutdown(c) \/ Restart(c)

Work(t) == Decode(t) \/ DecodeFails(t) \/ Store(t) \/ StoreSkipped(t) \/ Record(t)

Next ==
  \/ \E c \in Caches : LifeCycle(c)
  \/ \E t \in Threads, f \in Files, d \in Dims : \E k \in KeysOf(f, d) :
       Hit(t, k) \/ Miss(t, f, d, k)
  \/ \E t \in Threads : Work(t)
  \/ \E f \in Files : Modify(f) \/ Delete(f)
  \/ CacheEnvironment

Spec == Init /\ [][Next]_vars
-----------------------------------------------------------------------------
(* Properties *)

TypeOK ==
  /\ Cache!ShapeOK
  /\ ver \in [Files -> 0..MaxVer]
  /\ present \in [Files -> BOOLEAN]
  /\ up \in [Caches -> BOOLEAN]
  /\ provider \in [Caches -> BOOLEAN]
  /\ req \in [Threads -> {Idle} \cup Decoding \cup Storing]
  /\ raced \subseteq Files

\* Whatever is modified, deleted, killed or damaged in between, and whenever the
\* metadata cannot be read, a file of the cache shows the file of its key, at the
\* dimensions that the decoder reports for the request it was made for, in a
\* version that is not younger than the one the key names: no key answers with
\* the thumbnail of another file or with one that was rendered after the key's
\* time.  No such thing can be said of the empty key.
Provenance ==
  \A k \in DOMAIN disk \ {EmptyKey} :
    LET img == disk[k].img
    IN  /\ img.path = k.path
        /\ Reported[k.path][img.dims] = k.dims
        /\ img.ver <= IF k.ver = NoMeta THEN ver[k.path] ELSE k.ver

\* The byte counters stay clear of wrapping below the pipeline, too, with scans
\* of the directory that are cut short and files that fail to load.
BytesCoverEntries == Cache!BytesCoverEntries

\* A lookup by the full key finds the file as it is now, unless it was ever
\* modified while a thumbnail of it was being made: through any other change of
\* the file, deaths of processes, other pipelines that store and evict in the same
\* directory, and keys made while the metadata could not be read.
FreshHit ==
  \A c \in Caches, f \in Files \ raced, d \in Dims :
    present[f] /\ WouldHit(c, FullKey(f, d)) => disk[FullKey(f, d)].img.ver = ver[f]

\* The same of every lookup, and that it finds a thumbnail of that file.
EveryHitIsFresh ==
  \A c \in Caches, f \in Files \ raced, d \in Dims : \A k \in KeysOf(f, d) :
    present[f] /\ WouldHit(c, k) => disk[k].img.path = f /\ disk[k].img.ver = ver[f]

\* "Step 1: Check cache for existing thumbnail" (ThumbnailPipeline.cpp:449): no
\* file is decoded whose thumbnail of the requested dimensions, rendered from
\* its present version, is in the cache and loads.
DecodesOnlyWhatIsNotCached ==
  [][\A t \in Threads, f \in Files, d \in Dims : \A k \in KeysOf(f, d) :
       Miss(t, f, d, k) =>
         ~\E j \in DOMAIN entries[CacheOf[t]] :
            /\ WouldHit(CacheOf[t], j) /\ "load" \notin Faults
            /\ disk[j].img = [path |-> f, ver |-> ver[f], dims |-> d]]_vars
=============================================================================
