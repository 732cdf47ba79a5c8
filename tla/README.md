# A formal model of ExplorerLens

ExplorerLens is a thumbnail extension of the Windows Explorer, written in C++.  This
directory holds TLA+ models of the parts of it in which state, concurrency and failure
meet: three caches, the pipeline that looks a file up, decodes it and stores the result, the
lock-free queue of the decode workers, the sharing of concurrent requests, the watcher that
invalidates entries, and the isolated path with its circuit breaker, worker process and
watchdog.  TLC checks the models on small instances; TLAPS proves thirty-four theorems about
them for all instances.

Paths are relative to the root of the repository.  `PROJECT.json` maps every definition to
the lines it stands for and lists the hazards each property is aimed at.

## 1. The system

### Shipped path

Explorer (or a surrogate host) creates one COM object per file it wants a thumbnail of.
Each object owns an adapter (`LENSShell/LENSShellClass.cpp:22`), the adapter a pipeline
(`LENSShell/EngineAdapter.cpp`), the pipeline a cache
(`Engine/Pipeline/ThumbnailPipeline.cpp:190`).  All caches of a user write into one
directory.  Calls are synchronous; threads are Explorer's.

| Component | State | Operations | Hard behaviour | What makes it correct |
|---|---|---|---|---|
| **ThumbnailCache** `Engine/Cache/ThumbnailCache.cpp` | index of key -> size, access time; byte counter; PNG files in a shared directory | Initialize (scan), Get, Put, Remove, Clear, EvictLRU, Optimize, Defragment, Shutdown | other caches on the same files between the two halves of Put; kill between them; files that cannot be read, saved, deleted, or that vanish | index = directory; counter never wraps; a cleanup brings the directory within the limit, takes what was used the longest ago and stops when the rest fits |
| **ThumbnailPipeline** `Engine/Pipeline/ThumbnailPipeline.cpp` | initialized, cache pointer, decoders; a request per thread | Initialize, GenerateThumbnail, Shutdown | the file changes between lookup, decode and store, each of which makes its key anew; metadata and hashes that fail | a key answers with its own file, and with its present version |

### Engine services beside it

| Component | State | Operations | Hard behaviour | What makes it correct |
|---|---|---|---|---|
| **Two-tier cache** `Engine/Cache/TwoTierCacheManager.cpp`, `DiskCacheStore.cpp` | L1 list, map and byte counter; queue; worker thread; blobs, index and byte counter of L2 | Lookup, Insert, Invalidate, InvalidatePrefix, TrimTobudget, FlushL2, destructor | asynchronous writes against invalidation; a condition variable with two kinds of waiters; blobs deleted while they are written; kill and restart | L1 within budget; writes in order; no job slept over or left at exit; Flush returns |
| **PersistentDiskCache** `Engine/Cache/PersistentDiskCache.cpp` | index in memory; table of SQLite; whether it is open | Open, Close, Get, Put, Remove, RunEviction, InvalidateStale, Compact | two tiers that evict by different clocks and expire in one of them only; promotion of old rows; restart; statements that fail | a key answers with its last Put or not at all; Put keeps the limit |
| **CacheInvalidationWatcher** `Engine/Cache/CacheInvalidationWatcher.cpp` | vector of watches, stop event, thread | AddWatch, RemoveWatch, SetCallback, Start, Stop, RunLoop | overlapped reads, their answers and their refusals; the vector changes under a thread that waits on a copy of its events | no change is lost; each reaches the callback; Stop returns |
| **LockFreeDecodePipeline** `Engine/Pipeline/LockFreeDecodePipeline.h` | ring of slots with sequence counters, head, tail, workers | TryEnqueue, TryDequeue, StartWorkers, StopWorkers | compare-and-swap against slots that are still being filled or emptied; drain at a stop | it is a bounded FIFO; a slot has one thread; what was accepted is delivered |
| **RequestDeduplicator** `Engine/Pipeline/RequestDeduplicator.h` | map of path -> shared entry, counter | Submit | search, creation, decode, publication and removal are separate critical sections; decoders that throw | one decode per file; results stay with their file; no lost wake-up |

### Process isolation

| Component | State | Operations | Hard behaviour | What makes it correct |
|---|---|---|---|---|
| **Shell host client** `src/ShellHost/shellhost_client.cpp` | circuit breaker (closed, open, half open), failure and success counts, worker | Initialize, GetThumbnail, Shutdown | state and counts are separate atomics, tested and changed one at a time | it trips, and it recovers |
| **Worker process and watchdog** `src/Worker/worker_process.cpp` | running flag, state, process handle, restart count, watchdog thread | Start, Stop, SubmitRequest, launch, recovery | crash at any point; launches that fail half-way; a stop during a recovery | a crash is noticed; a stop leaves nothing; the host survives |

How they interact: the pipeline calls its cache under the cache's own mutex, and threads share
a pipeline or only the directory.  The two-tier cache calls its disk store synchronously for
reads and through the queue for writes.  The client of the worker is called by Explorer's
threads and shares the worker object with the watchdog thread.  The other services are built
into the engine and have no caller in it yet, or tests only: they are modelled with the
environment their interface admits.  The watcher reaches a cache only through a callback
its owner supplies, and nobody supplies one at this commit, so that there is no composition of the
two to model.

## 2. Modules

| Module | What it models |
|---|---|
| `ThumbnailCache` | any number of caches on one directory |
| `ThumbnailPipeline` | pipelines, threads and source files on top of `ThumbnailCache` (INSTANCE) |
| `TwoTierCache` | L1, the queue, the worker and L2 |
| `TaskQueue` | what a decode queue promises: a bounded FIFO whose tasks are taken and delivered once |
| `LockFreeQueue` | the ring, its producers and workers, shown to implement `TaskQueue` |
| `ShellHost` | breaker, worker object, process and watchdog thread together |
| `RequestDeduplicator` | callers, shared entries and the map |
| `CacheInvalidationWatcher` | the owner, the watcher's thread and the directory reads |
| `PersistentDiskCache` | index, table and restarts |
| `MC...` | the constants of the runs |
| `...Proofs` (8) | theorems about the module they are named after |

A definition commented "Variant with a defect" is not part of a model: it is the changed
form of the definition that follows it, under which a property fails (section 3).

### ThumbnailCache

A `ThumbnailCache` object is an element of `Caches`; `open`, `entries` and `bytes` are
`m_initialized`, `m_entries` and `m_currentSizeBytes`.  `disk` is the directory, common to
all of them: a file has a size, a modification time, the image it shows, and may be broken.
An operation holds the object's mutex from its first to its last line, so that it is one
action -- except Put, which other caches can interleave: `PutSave` writes the file
and sets `saving`, `PutRecord` does the bookkeeping and the eviction.  While `saving` is
set the mutex is held (`Ready`).  `Restart` is a new object in place of one whose process
died, at any point.

`Faults` selects what the file system may do: a load, a save, a stat, a deletion or a scan
fails, or a file is deleted or damaged by somebody else.  An early return or an exception
of the code is the alternative of the action that the fault enables (`PutTorn`,
`PutUnrecorded`, `GetBroken`, `ClearStopped`).  The faults "hash" and "meta" concern the keys: if
`MD5Hash` fails it returns the empty string, `EmptyKey`, for every file; its file `.png` is one the
scan does not take for its own (`Scanned`).

`OptimizeCache` deletes and saves every file it can load.  The new file has any of `Sizes`, larger
ones too; the counter follows, and no eviction does, so that a cache may be over its limit until
the next Put or start.

`EvictLRU` sorts by access time and then key and removes until the counter fits.
`Victims` says the same without the loop: an entry goes if what is left after all older
ones have gone is still over the limit.  The access time of an entry found by Initialize is
the file's time in the epoch of `file_clock`; `EpochGap` is the distance to the epoch of the
other timestamps.  The byte counter is unsigned in the code; here it is an integer and
negative where the code would wrap.

### ThumbnailPipeline

`GenerateThumbnail` is a request `req[t]` that passes through the stages decode, store and
record; `Hit` and `Miss` are its lookup.  A key is the record of what `GenerateKey` hashes: path,
dimensions, and the version for size and write time.  `KeysOf` is what one call of `GenerateKey`
may return: the full key (`FullKey`), the key of path and dimensions (`PathKey`) if the metadata
cannot be read, because the file is gone or for any other reason (fault "meta"), and the
empty key if the hash fails (fault "hash"), which all files share.  Lookup and store each make a key
(`StoreKeys`), and may get different ones.  `Reported` is the pair of dimensions a
decoder returns, which the store uses in place of those requested, as the code does.  Files are
modified and deleted between any two steps; the history variable `raced` collects those that were
modified between the lookup of a request and its store.  A pipeline keeps its cache
object over Shutdown, as the code does.  `Shutdown` is not called with requests under way
(`ThumbnailPipeline.h:10`).

The choice of a decoder is its outcome: `Decode` or `DecodeFails`.

### TwoTierCache

L1 changes are one step each (a mutex covers the list, the map and the counter).  In
L2 the queue and the index have mutexes, the blobs and the counter none: a call is a
thread `act[a]` that moves from step to step, and a step is what lies between two points
at which another thread can matter (`Push`/`Notify`, `InvalidateBytes`/`InvalidateBlob`/
`InvalidateIndex`, `TrimList`/`TrimSize`/`TrimRemove`/`TrimErase`, `WriteBegin`/`WriteEnd`/`Index`).
`InvalidatePrefix` sweeps a folder blob by blob (`SweepBytes`/`SweepBlob`, `SweepEnd`) and holds
the mutex of the index throughout, which nothing but the index respects.
`Writers` and `Readers` say which clients call which operations.
The condition variable is the set `asleep` of its waiters: `notify_one` removes any one of
them, worker or flushing client.  The worker's wait is in two halves, the look at the
predicate (`WorkerCheck`, which holds `queueMu` while the worker is at "doze") and the sleep
(`WorkerWait`): the destructor, which notifies without the mutex, fits in between.
Spurious wake-ups are not modelled: they would hide a lost notification and are no
promise.

A thumbnail is the number of the Insert that brought it, and `Pixels` gives its size, which
may differ from that of the thumbnail it replaces.  `dead` is a history variable:
which Inserts of a key the present process has invalidated.  A torn blob counts as empty
and cannot be read, a blob being written cannot be deleted (the stream is open without
delete sharing), reading a blob is one step.  A write that fails when the stream is closed
passes for a success, since the stream is tested before: `WriteEnd` may leave a torn blob.
`used` below zero stands for a wrapped `size_t` and is over every budget.

### TaskQueue and LockFreeQueue

A step of `LockFreeQueue` is one access to shared memory: load of `m_head`, look at the slot's
counter, compare-and-swap, move of the task, release of the counter, and the same on the side
of the workers.  `pc`, `pos` and `held` are the local variables of each thread.  The accesses
are taken in one order for all threads; what the code reads relaxed is validated by the
compare-and-swap that follows.  `StartWorkers` starts any set of workers, `StopWorkers` sets the
flag, `Joined` is the end of the joins; starts and stops may follow each other any number of
times.  `submitted`, `placed`, `accepted`, `delivered`, `owed` and `quiet` are history variables.

The refinement mapping: the queue is the tasks between tail and head (`Waiting`; a position
that was claimed and not yet filled counts with the task its producer holds), a worker has in hand
what it holds or is about to take out of its slot (`InHand`), and a task is put when it gets its
position (`placed`).  Under it every step is a `Put`, `Take` or `Deliver` of `TaskQueue`, or
none.

### ShellHost

The state and the counts of the breaker are atomics, so that GetThumbnail moves in
steps of one access (`Ask`, `Elapsed`, `AttemptsFew`/`Attempts`, `Succeed`, `Fail` ...); a transition
takes `m_circuitMutex` and its stores are steps too, because readers do not take it.  The worker's
flags are atomics as well, `object` is whether `Initialize` has made the worker object, `process` is what its
handle stands for, and `orphans` records that a live process lost its handle to a later one.  `Watch` is the watchdog's loop: sleep, look, recover (count,
give up or launch).  `Crash` ends the process at any point.  `Shutdown` and `Stopped` are the two
ends of Stop, with the join of the watchdog between them.  Replacing a joinable
`std::thread` is `std::terminate`: `host` becomes "dead", and `HostRestart` is Explorer coming back.
`JobFaults` lets the job object fail after the process was created, and `jobFailed` records that it has.
A request is answered if the process lives, and fails otherwise; the pipe is not modelled.

`Initialize` is called before the first request, as `ShellHostFactory::GetInstance` does under
`call_once`.  A client used without it makes its worker object in `EnsureWorkerRunning`, with no lock
(`shellhost_client.cpp:190`); that race, and the one of two threads in `Start` for the same
`unique_ptr` and handle, are undefined behaviour of which only the lost handle and the end of the
host are modelled.

`failures` counts no further than the threshold: the code compares it with >= only.

### RequestDeduplicator

A step is a critical section of the map's or of an entry's mutex, a decode, or a notification:
`Join` or `Lead`, `Decode` or `Throw`, `Publish`, `Notify`, `Clean`; a caller that joined moves through
`Wait`.  Entries are shared objects that live as long as the map or a caller holds them.  A
decoder succeeds, fails with an error text, returns the default result ("none"), or throws, after
which no step of the code takes the entry out of the map.

### CacheInvalidationWatcher

The owner is one thread (`Watch`, `Unwatch`, `SetCallback`, `Start`, `Stop`, `Join`).  The watcher's
thread issues the first reads, then copies the events, waits and processes the entry that has the
index the wait returned; the copy and the index are local to a turn.  `ReadDirectoryChangesW` is
modelled from its use: from the first read on the system keeps the changes of a directory
(`kernel`), gives them to the oldest read outstanding (`buffer`), which signals the event, or gives
up on them (`overflowed`).  It may refuse a read (`Granted`): IssueRead ignores that, and the entry is
`refused` -- no event brings the thread back to it.  It may end a read with an error (`ReadFails`):
the thread gives the answer up and issues the next read.  A read that was issued
before the vector moved its entry writes where nobody looks ("left").  A change that is
processed without a callback is "unheard".  Changes of `Again` may recur when they have been reported.
`disturbed` records that a watch came or went after a start, or that there was a second start.

### PersistentDiskCache

Open, Close, Put, Get, Remove, InvalidateStale and Compact hold `m_cacheMutex` from the first line to the
last, so that each is one action; the hard part is sequences of operations.  RunEviction takes no
lock.  Put calls it with the mutex held; the public method (`PersistentDiskCache.h:147`) is modelled as
called while nothing else runs.

`index` is the table in memory, `rows` the table of SQLite, `loaded` is `m_sqliteLoaded`.  An entry of the
index describes a thumbnail and has no pixels: a Get that finds one answers width and height only.  `Close` leaves the index as it is and `Open` finds it there; after `Kill` it is
empty.  Death between two statements of an operation gives a state that `Kill` after a
shorter operation gives as well (a Put that dies after its eviction is `RunEviction`).  `Share` is
the 10 of "a tenth of the entries".  Ties of the clock are broken freely, and so is the
cost score, which depends on sizes and decode times: `EvictCostAware` may take any entries.
`latest` is a history variable: the last Put of each key, or none after a Remove with the
table in use.  A Remove of a closed cache empties the index and leaves the rows.  `Faults` selects the statements that may fail unnoticed.

## 3. What is checked

| Run | Shows | Instance |
|---|---|---|
| `cache_single` | index and directory agree; a cleanup keeps the limit, takes what was used the longest ago and stops when the rest fits; through restarts and kills inside Put | 1 cache, 3 keys (two of one file), sizes 1-2 that change when a file is saved again, limit 3, clock 0-2, no faults |
| `cache_shared` | no subtraction of the byte counter can wrap | 2 caches, 2 keys of which one is empty, sizes 1-2, limit 1, faults hash, save, stat, remove and stray, symmetry of the caches |
| `pipeline_one` | provenance of every file; a hit by the full key is fresh | 2 threads on 1 pipeline, 1 file in 2 versions, 2 dimensions of which the decoder reports one, faults hash, meta, stat |
| `pipeline_shared` | the same hits across pipelines; byte counter | 2 pipelines with a thread each, 1 file in 2 versions, limit of one thumbnail, faults load, scan, save, stray |
| `tier_two` | L1's list, map, counter and budget; order of writes; no job slept over or left | 2 clients (one inserts, trims, flushes and sweeps, one looks up, promotes and invalidates) and the worker, 2 keys whose two thumbnails have sizes 1 and 2, L1 and L2 of 2, 2 Inserts |
| `queue_two` | the ring is a bounded FIFO; a slot has one thread; accepted tasks are delivered | 2 producers, 2 workers, 2 slots, 3 tasks, starts and stops |
| `host_two` | breaker trips and recovers; crashes are noticed; what a stop leaves | 2 threads, thresholds of 2, one restart, crashes, failing job objects |
| `dedup_three` | one decode per file; results stay with their file; wake-ups arrive; joined callers return | 3 callers, 2 files, 4 entries |
| `watcher_two` | no change lost, which are reported, Stop returns | 2 directories, 2 changes that may recur, 1 start, refused and failing reads |
| `persistent_one` | neither tier holds anything but the last Put; Put keeps the limit | 2 paths with 3 and 1 sizes (Get looks for two), 3 Puts, index of 2, clock 0-2, all three strategies, failing "hit" and "evict" |
| `tier_flush` | *violated*: Flush sleeps on an empty queue | 1 client, 1 key, 1 Insert, fair threads |
| `host_crash` | *violated*: the worker that dies once too often takes the host with it | 1 thread, thresholds of 2, one restart |

The *violated* runs are disagreements between the code and a comment of it; `PROJECT.json`
"findings" quotes both.

Why the bounds are enough.  Eviction has something to choose with two entries over the limit
and a third below: three keys and sizes 1-2 with limit 3 give all shapes (one
large, two small, exactly full).  A clock of three values orders any two uses and
an eviction.  Two caches are enough for interference, since a cache sees only the files that
others changed, whoever they are.  Two versions of a file tell old from new; two dimensions tell
the requested from the reported.  In the two-tier cache two keys with thumbnails of two sizes make
L1 evict one or both and let a replacement grow or shrink, two Inserts fill the queue while a write is under way.  Two slots and three
tasks wrap the ring, with a slot being emptied while the next lap wants it and another thread on
each side.  Two clients put one between any test and transition of the other; thresholds
of two distinguish a count from a flag.  Three callers are a decoder, one that joins and one that comes
after the removal from the map; two files tell whose entry is whose.  Two directories give the watcher an index
that can be stale and one that starves, two changes one answer that overwrites another; a second start counts
as a disturbance, about which `NothingIsLost` and `ChangeIsReported` say nothing; the types are proved for any
number of starts.  In the persistent cache an index of two
with four keys evicts, promotes and evicts again, and the third size is the one Get does not look for.

`MaxClock`, `MaxVer`, `MaxInserts`, `MaxPuts`, `Tasks`, `MaxStarts` and the finite set `Changes`
bound what would grow for ever.  All systems but one can always go on, and deadlock is checked.
`dedup_three` switches that check off: after a decoder has thrown, its waiters sleep for ever and all callers may
be among them; that is what the code does.

Fairness, always weak and always of steps the operating system or a called function must complete:

- `queue_two`: each producer's and worker's steps and the return of the joins.  Nobody has to
  submit a task, start workers or stop them.
- `host_two`: the steps of a call, the watchdog, and the passing of `openDurationMs` (`Elapse`).
  Neither new requests nor crashes, shutdowns or restarts are assumed.
- `dedup_three`: a decoder that returns, and the steps after it.  A throw is never required, and
  never excluded.
- `watcher_two`: the thread's steps and the end of the join.
- `tier_flush`: the worker and the steps of a client's call; the violation is two threads that
  both sleep, which no fairness ends.

Nothing is assumed of callers, owners, restarts or files that change.

Each property of a passing run has a mutant in `PROJECT.json`: a definition changed the way a
bug would change it (an eviction loop that stops early, a key without the write time,
a worker that takes the last job, a compare-and-swap that does not compare), under which TLC
finds the property violated.

## 4. What is proved

| Theorem | Statement | Inductive invariant and argument |
|---|---|---|
| `ThumbnailCache`: `ShapeCorrect` | `Spec => []ShapeOK` for any caches, keys and faults | `ShapeOK` itself |
| `IndexCorrect` | one cache, no faults: `Spec => []IndexMirrorsDirectory` | `IndexInv`: with `SavedFileExists` (the file of a Put under way is there) and `FilesLoad` (every file is good: Get never drops an entry) |
| `TypesCorrect`, `CountersCorrect` | `Spec => []TypeOK` and `Spec => []BytesCoverEntries`, any caches and faults | `CoverInv`: counters are natural numbers, each at least the sum of its entries, for closed caches too |
| `EvictionIsLRU` | files can be deleted: `Spec => EvictsLeastRecentlyUsed`, any caches, all other faults | `CoverInv` and `ClosedIsEmpty`; `Victims` takes an entry only with all of smaller stamps, and a stamp of the scan is larger than every other |
| `EvictionIsMinimal` | one cache, no faults: `Spec => EvictsOnlyAsNeeded` | `IndexInv`, `CoverInv`, `ClosedIsEmpty`; the youngest victim is the witness |
| `LimitKept` | one cache, no faults: `Spec => CleanupKeepsLimit` | `CountedExactly` (the counter is the sum of the entries, also over the limit) with `IndexInv` and `CoverInv` |
| `ThumbnailPipeline`: `ProvenanceCorrect` | `Spec => []Provenance` for any threads, pipelines, files, decoders and faults; the empty key is excepted | with `RenderedEarlier` (what a thread holds was read from a version no younger than the file) and the types |
| `UsesCache` | `Spec => Cache!Spec`: the variables of the caches behave as `ThumbnailCache` says | the types; each step of a pipeline is one step of its cache, of the environment, or none |
| `CountersCorrect` | `Spec => []BytesCoverEntries` | that of `ThumbnailCache`, by `UsesCache` |
| `TypesCorrect` | `Spec => []TypeOK` | types of the pipelines and requests, with those of the caches |
| `HitsAreFresh` | `Spec => []FreshHit` for any threads, pipelines, files, decoders and faults | `FreshInv`: of a file that never raced, what a thread has rendered is still the file, and a thumbnail under a full key shows the version of the key |
| `TwoTierCache`: `TypesCorrect`, `L1Correct` | `Spec => []TypeOK` and `Spec => []L1WithinBudget`, any clients, finitely many keys | `TierInv`: no key twice in the list or the directory, the counter is the sum of the list, a call at a step that uses its key, number or list has one |
| `BlobsNeverGoBack` | one writer: `Spec => DiskNeverGoesBack` | `InOrder`: directory, worker, queue and caller hold the Inserts of a key in this order; `PushedByWriter` |
| `JobsAreAwaited` | `Spec => []NoJobSleptOver` for any clients, keys and budgets | `AwaitInv`: nobody is in a call once the destructor has run; the worker leaves, and goes to sleep, with an empty queue; besides it only a Flush sleeps |
| `LockFreeQueue`: `OneThreadPerSlot` | `Capacity > 1 /\ Spec => []SlotHasOneThread` | `Ring`: what the counter of each position of the window tail .. tail + Capacity - 1 says about it, and that a thread which has seen its slot ready is right as long as its position is not claimed |
| `RingIsQueue` | `Capacity > 1 /\ Spec => Implements`, the refinement of `TaskQueue` | `Placed`: `Ring`, and each task is in one place only |
| `TypesCorrect` | `Capacity > 1 /\ Spec => []TypeOK` | `Placed` |
| `DrainsWhenQuiet` | `Capacity > 1 /\ Spec => []DrainedWhenQuiet` | `Controlled`, `Accounted` (what has a position waits, is in hand, or has run), `Owing` (what a quiet stop owes waits before every position that is being filled, and is gone when a worker has left) |
| `ShellHost`: `TypesCorrect` | `Spec => []TypeOK` for any threads and thresholds | `TypeOK` itself |
| `BreakerMoves`, `BreakerTrips` | `Spec => []NotStuck` and `Spec => []Trips` | the two and the values of the state: each names the place at which a thread is about to act on a count |
| `StopLeavesNothing` | `Spec => []StoppedHasNoProcess` | with `Stops`: during a stop no request is under way, and a stopped worker object is not in the middle of a launch; and `Held`: a live process has a watchdog or a thread about to make one, and a handle is lost only by a thread about to end the host, unless a job object failed |
| `RequestDeduplicator`: `OneDecode`, `SharesFile` | `Spec => []OneDecodePerPath` and `Spec => []SharesItsFile`, any callers and files | `Bound`: the entry of a leading caller is that of its path in the map and of no other leader, and an entry has one path |
| `WakeupsArrive` | `Spec => []NoLostWakeup` | with `Bound` |
| `StatsAreRight`, `TypesCorrect` | `Spec => []CountsInflight` and `Spec => []TypeOK` | with `Bound` and the finiteness of `Paths` |
| `CacheInvalidationWatcher`: `TypesCorrect` | `Spec => []TypeOK`, finitely many directories | `Types` and `Apart` (a directory is in the vector, and in the copy of the events, once) |
| `LeftAloneLosesNothing` | `Spec => []NothingIsLost` | `~disturbed => Calm`: an entry has at most one read outstanding, none while its answer waits, and the copied events are those of the vector |
| `PersistentDiskCache`: `TypesCorrect` | `Spec => []TypeOK` for any keys, limits, strategies and faults | `TypeOK` itself |
| `AnswersCorrect` | if no write to the table can fail: `Spec => []AnswersLatest` | with `TypeOK` and that an open cache can use its table |
| `LimitKept` | `Spec => PutKeepsLimit` for every strategy and limit | `TypeOK`, and that the index is finite |

Sums.  The byte counters are compared with sums over finite sets, which the community modules define by a
function that recurses over subsets, and the induction theorems of the prover's library take an operator, which no
installed prover instantiates.  The lemmas argue by a least counterexample instead: of the
subsets for which the sum would be undefined or wrong one has the least cardinality, and
taking one element from it gives a smaller one.  From this follow the few facts the invariants need (a sum
is a natural number, adding or removing an element adds or subtracts its size, a subset sums to
no more).  They stand in `ThumbnailCacheProofs` for functions into records and in
`TwoTierCacheProofs` for the sizes of the entries of a list.

Eviction.  A scan that throws leaves bytes counted without an entry, so that a counter may be larger than its
entries; it is never smaller, since every removal and every replacement subtracts the size that the entry
recorded, whatever size the file has by now.  With one cache and no faults the counter is exact
(`CountedExactly`), also after an OptimizeCache that has taken it over the limit; the next eviction
stops at the limit (`LimitKept`) and, if its last victim had stayed, would not have reached it
(`EvictionIsMinimal`).  That is all one can say: a victim taken before the last may have been
smaller, and might have been kept with a different choice.  `EvictionIsLRU` needs no exact counter,
only that a file that is chosen can be deleted: the
code skips an entry whose file is locked and evicts a younger one.  It compares times of use, not the
stamps: those of the scan count from another epoch, and are larger.  Where both stamps are of one
kind the older goes first; an entry known from the scan outlives what was used since, which the
property excepts and section 5 reports.

Pipelines.  `UsesCache` carries what is proved of any caches over to caches below pipelines that are
killed and shut down at any point.  `Provenance` is the safety half of freshness: no key answers with another file,
with other dimensions than its decoder reports, or with a picture younger than the key.  It cannot be
strengthened to equality of versions: TLC finds the old picture under the new version's key when the file
changes between decode and store.  Of the empty key it says nothing; every file has it when its hash fails.
The argument is that every operation of the cache other than a save only removes files (`DiskShrinks`) or saves the
same picture again, so that only `Store` has something new to show, and it writes what `Decode` read.  For a
file that was never modified between a lookup and its store that is the version of the key, and stays
it: the full key of a file that changes is another one (`HitsAreFresh`).  Metadata that cannot be
read do not matter to a lookup by the full key; what a lookup by the key of the path finds may be of
any version.

Writes of the two-tier cache.  An Insert is numbered when it changes L1, pushed later, taken by the worker, and
written in two steps.  `InOrder` says that each station holds nothing younger than the ones before it, and the
queue is sorted.  One writer is needed: of two, the second may push first, and TLC finds the older
thumbnail written over the younger (section 5).  `Drop`, the removal of keys from a list, is defined
by counting the entries that stay, since `SelectSeq` is defined by recursion and nothing can be proved of it.

The ring.  `RingIsQueue` is the longest proof.  Two positions of the window are never the same slot
(`SlotsDiffer`), which takes the arithmetic of % and div (`Division`, `Window`); so a step at one
position leaves what the others mean alone, and the claim of a position appends one task to `Waiting`
or takes its head.  `Capacity > 1` is needed: with one slot "full for position n" and
"free for position n + 1" are the same counter.  `DrainsWhenQuiet` rests on the same mapping: a worker leaves when the
slot at the tail is not full.  If nobody was filling a position at the stop, such a slot was claimed after it or not at
all, and everything the stop owes stood before it.

The watcher.  `NothingIsLost` speaks of a vector that was complete before the only start.  Then the
first reads are issued once, each answer is looked at before the next read of its entry, and the index the
wait returned means the entry it was for.  A read that is refused or fails gives nothing away: the
system keeps the changes, or hands them to the next read.  A watch that comes or goes later breaks each of these.

The assumptions are those stated with the constants (`CacheAssumption`, `PipelineAssumption`, `KeysAssumption`,
`TwoTierAssumption`, `QueueAssumption`, `ShellHostAssumption`, `DedupAssumption`, `WatcherAssumption`,
`PersistentAssumption`): types, a total order of keys, special values that are no elements, finiteness of the paths, of the
keys of the two-tier cache and of the watched directories, and for the breaker
`SuccessThreshold <= HalfOpenMaxAttempts`, which its defaults satisfy.  `KeysAssumption` is `CacheAssumption` for the
keys that the pipeline makes.  TLC evaluates them in every run.  The hypotheses of single theorems are in the
table; each is satisfied by an instance of a run.

Model-checked only: liveness (`AcceptedIsDelivered`, `NeverRefusesForEver`,
`CrashIsNoticed`, `JoinedReturn`, `ChangeIsReported`, `StopReturns`), which is out of the prover's reach.  What the
runs check of safety is proved.

## 5. What does not hold

Besides the two violated runs the models state promises of comments that the code does not
keep.  Each is a definition of its module; TLC refutes it within seconds on the instance given.

| Property | Instance | What happens |
|---|---|---|
| `DirectoryWithinLimit` | `cache_single`; 2 caches, 2 keys, limit 2 | OptimizeCache saves larger files and evicts nothing; each cache enforces the limit against its own index |
| `JustStoredOutlivesOlder` | 1 cache, 2 keys, limit 2, clock 0-1 | entries found at a start carry times of another epoch and outlive what was stored since |
| `DecodesOnlyWhatIsNotCached` | `pipeline_one` without faults | lookup uses the requested dimensions, store the reported ones |
| `FreshHit` of files in `raced` too | `pipeline_one` without faults | the key is made again after the decode: the old picture under the new version |
| `EveryHitIsFresh` | `pipeline_one` with "meta", or with "hash" | the key of the path answers with any version, the empty key with any file |
| `DiskNeverGoesBack` with 2 writers | 2 clients, 2 keys | the Inserts of two threads are pushed the other way round than they changed L1 |
| `InvalidatedStaysOut` | 1 client, 1 Insert | a queued write or a late promotion brings an invalidated thumbnail back |
| `DrainedOnStop` | 2 producers | a position claimed and not yet published when the stop came hides the tasks behind it |
| `SlotHasOneThread` with `Capacity = 1` | 2 producers | a ring of one slot overwrites a waiting task |
| `StaysOpen` | 2 clients | a thread that has decided to close or half-open the breaker does so after another has opened it again |
| `CallersReturn` | 2 callers | after a throw or a default result the waiters sleep for ever |
| `WatchBegins` | 1 start | a directory added after the start is never read |
| `AnswersLatest` with "put", "delete" or "open" in `Faults` | `persistent_one` | the table keeps an old row that answers after a restart or an expiry |
| `RemoveLeavesNoRow` | `persistent_one` | a Remove of a closed cache leaves the row, which answers after the next Open |
| `ChangeIsReported` without one of its exceptions | `watcher_two` | a buffer that overflows drops changes; IssueRead does not notice a refused read; answers of the directory that was added first starve the others |

Seen from the lines and left as they are in the models: the recovered worker is never set to
READY and gets no request (`worker_process.cpp:254`); the destructor of the disk store can lose its
notification (`DiskCacheStore.cpp:173`); promotions take the index of the persistent cache
over its limit, an expired entry becomes valid again by promotion from its row, and rows evicted by
`last_hit` are not those of the evicted entries; a Get that finds an index entry returns true and
leaves the caller's pixels as they were (`PersistentDiskCache.cpp:313`); its public RunEviction changes the
index without the mutex (`PersistentDiskCache.cpp:447`); a client of the shell host that is used before
Initialize makes its worker object without a lock (`shellhost_client.cpp:190`).

## 6. Not modelled, and known limits

| Part | Why |
|---|---|
| Plugin host (client and server process) | `PluginHostClient.cpp:464` closes the handle of the suspended thread that line 486 resumes: the process never runs, the pipe is never found, and the error path (line 51) locks the mutex its caller holds.  Nothing beyond the start is reachable |
| `AsyncThumbnailProvider` | `WorkerCallback` has no caller: what is queued stays queued |
| Named-pipe transport | a request is answered or not in `ShellHost`; the pairing of late replies (`ipc_transport.cpp:321` compares no identifiers) is not modelled, and nothing uses the connection pool |
| Plugin manager, isolation selector | loading of DLLs, signatures, scores: calls of the system |
| Batch, prescan, idle generation | a loop over GenerateThumbnail; its threads are those of `ThumbnailPipeline` |
| Decoders and format detection | pure functions from a file to a bitmap; their outcomes are in `ThumbnailPipeline` |
| GPU, memory, media, codecs | arithmetic and pools, no protocol with the parts above |
| Core, utilities, enterprise, platform headers | catalogues, settings and report structures that no shipped path calls |
| LENSManager, service, command-line tools, SDK, packaging, vendored code | user interface, front ends, interfaces, third-party code |

The share of the repository's lines that the models cover is small for that reason: by far
the most of it is parsing, arithmetic, tables and user interface without state that
outlives a call.

The Windows API is its outcomes.  A thumbnail's pixels are an identity.  Times are ticks, and
the two clocks of `ThumbnailCache` differ by a constant.  `LENSShell/thumbnail_cache.cpp` and
`enhanced_cache.h` use the same directory; they appear only as the fault "stray".

Left out of modelled components: statistics and status reports of all of them; in the pipeline the
cache of decoders by extension, registration, GPU upload and warming, and `timeoutMs`, which is
never read; in the two-tier cache write-through, a configuration without L2, a directory that cannot be created, and
collisions of its 64-bit names; in the shell host the metrics, `SetCircuitBreakerConfig`,
`RestartWorker`, Ping and the heartbeat, the races of an unguarded `m_worker` and `m_ipcClient`, and the pool
and watchdog classes that nothing constructs; in
the watcher what a record contains, more than 64 handles (where the wait fails at once), callbacks that call
the watcher and moves of the object; in the persistent cache several processes on one table, a RunEviction
beside another operation, the checksum and the loss of the last transactions at a power failure.

What would come next: the pairing of requests and replies over the pipe, once a reply carries the identifier it is
compared by; the watcher composed with the two-tier cache, once a callback connects them.
