---------------------------- MODULE TwoTierCache ----------------------------
(***************************************************************************)
(* The two-tier cache (Engine/Cache/TwoTierCacheManager.cpp and            *)
(* DiskCacheStore.cpp): an LRU list in memory (L1) over a directory of     *)
(* blobs (L2), which a worker thread fills from a queue.                   *)
(*                                                                         *)
(* Threads call the cache at the same time.  L1 has a mutex, and so have   *)
(* the queue and the index of L2; the blobs and the byte counter of L2     *)
(* have none, so that a call is a series of steps between which others     *)
(* run.  A thumbnail is the number of the Insert that brought it, and the  *)
(* blob of a key is named by the key: collisions of the 64-bit hash are    *)
(* left out, and so are write-through and the hit counters.                *)
(***************************************************************************)
EXTENDS Integers, Sequences, FiniteSets, FiniteSetsExt, SequencesExt

CONSTANTS
  Clients,      \* threads that call the cache
  Writers,      \* those of them that insert, trim, flush and sweep a folder
  Readers,      \* those of them that look up and invalidate
  Worker,       \* the worker thread
  Keys,
  Folders,      \* sets of keys that share a path prefix
  Pixels,       \* Pixels[k][n]: bytes of the thumbnail of the n-th Insert of k
  Header,       \* bytes a blob has besides
  L1Max, L2Max, \* budgets
  MaxInserts,   \* bound on the Inserts, of all keys together
  Flushes,      \* TRUE if FlushL2 is called
  NoKey         \* not a key

ASSUME TwoTierAssumption ==
  /\ Writers \subseteq Clients /\ Readers \subseteq Clients /\ Worker \notin Clients
  /\ IsFiniteSet(Keys) /\ NoKey \notin Keys
  /\ Folders \subseteq SUBSET Keys
  /\ Pixels \in [Keys -> [1..MaxInserts -> Nat \ {0}]] /\ Header \in Nat
  /\ L1Max \in Nat /\ L2Max \in Nat /\ MaxInserts \in Nat
  /\ Flushes \in BOOLEAN

VARIABLES
  l1,       \* m_list and m_map: keys and thumbnails, used most recently first
  l1Bytes,  \* m_currentBytes
  queue,    \* writeQueue
  asleep,   \* threads that wait on queueCv
  stop,     \* stopWorker
  disk,     \* the blobs, written last at the end; whole: the write is complete
  index,    \* keyToFile: keys, and names of blobs found at the start
  used,     \* currentBytes, as an integer: negative if the counter has wrapped
  act,      \* act[a]: the call that thread a is executing
  inserts,  \* inserts[k]: Inserts of k so far
  dead      \* dead[k]: the last Insert of k before its last Invalidate in this process

vars == <<l1, l1Bytes, queue, asleep, stop, disk, index, used, act, inserts, dead>>

Actors == Clients \cup {Worker}
NoCall == [at |-> "idle", key |-> NoKey, num |-> 0, todo |-> <<>>]
NoCalls == [a \in Actors |-> IF a = Worker THEN [NoCall EXCEPT !.at = "check"] ELSE NoCall]

\* The entries of a sequence of records with a key.
KeysOf(s) == {s[i].key : i \in DOMAIN s}
EntryOf(s, k) == s[CHOOSE i \in DOMAIN s : s[i].key = k]
Drop(s, K) ==
  LET kept == {i \in DOMAIN s : s[i].key \notin K}
      Nth(n) == CHOOSE i \in kept : Cardinality({j \in kept : j <= i}) = n
  IN  [n \in 1..Cardinality(kept) |-> s[Nth(n)]]

\* An index entry for a key of this session, and for a blob of an earlier one.
ByKey(k) == <<"key", k>>
ByName(k) == <<"name", k>>

Init ==
  /\ l1 = <<>> /\ l1Bytes = 0
  /\ queue = <<>> /\ asleep = {} /\ stop = FALSE
  /\ disk = <<>> /\ index = {} /\ used = 0
  /\ act = NoCalls
  /\ inserts = [k \in Keys |-> 0] /\ dead = [k \in Keys |-> 0]

-----------------------------------------------------------------------------
(* L1 *)

BytesOf(E) == MapThenSumSet(LAMBDA e : Pixels[e.key][e.num], E)
OfKeys(s, K) == {e \in ToSet(s) : e.key \in K}

\* Evict: entries go from the end while the counter is over the budget.
Evicted(s, b) ==
  LET After(n) == BytesOf({s[i] : i \in (n + 1)..Len(s)})
      kept == Max({n \in 0..Len(s) : n = 0 \/ b - After(n) <= L1Max})
  IN  /\ l1' = SubSeq(s, 1, kept)
      /\ l1Bytes' = b - After(kept)

\* Variants with a defect: an entry that is replaced is taken to be as large as
\* the new one; the entry that is replaced stays in the list.
L1PutSameSize(k, n) ==
  Evicted(<<[key |-> k, num |-> n]>> \o Drop(l1, {k}),
          IF k \in KeysOf(l1) THEN l1Bytes ELSE l1Bytes + Pixels[k][n])
L1PutTwice(k, n) ==
  Evicted(<<[key |-> k, num |-> n]>> \o l1, l1Bytes + Pixels[k][n])

L1Put(k, n) ==
  Evicted(<<[key |-> k, num |-> n]>> \o Drop(l1, {k}),
          l1Bytes - BytesOf(OfKeys(l1, {k})) + Pixels[k][n])

L1Drop(K) ==
  /\ l1' = Drop(l1, K)
  /\ l1Bytes' = l1Bytes - BytesOf(OfKeys(l1, K))

-----------------------------------------------------------------------------
(* Steps of a call *)

tier1 == <<l1, l1Bytes>>
tier2 == <<disk, index, used>>
history == <<inserts, dead>>

\* The cache is not being destroyed, and c is not in a call.
Free(c) == ~stop /\ act[c] = NoCall

Begin(c, at, k, n) ==
  act' = [act EXCEPT ![c] = [at |-> at, key |-> k, num |-> n, todo |-> <<>>]]
Go(a, at) == act' = [act EXCEPT ![a].at = at]
Return(a) ==
  act' = [act EXCEPT ![a] = IF a = Worker THEN [NoCall EXCEPT !.at = "check"] ELSE NoCall]

\* queueMu is taken: the worker has found the queue empty and is about to wait.
QueueLocked == act[Worker].at = "doze"

\* One of the sleepers, if there are any, wakes up and looks again.
NotifyOne == IF asleep = {} THEN UNCHANGED asleep ELSE \E a \in asleep : asleep' = asleep \ {a}

-----------------------------------------------------------------------------
(* Lookup and Insert *)

LookupHit(c, k) ==
  /\ Free(c) /\ k \in KeysOf(l1)
  /\ l1' = <<EntryOf(l1, k)>> \o Drop(l1, {k})
  /\ UNCHANGED <<l1Bytes, queue, asleep, stop, tier2, act, history>>

LookupMiss(c, k) ==
  /\ Free(c) /\ k \notin KeysOf(l1)
  /\ Begin(c, "load", k, 0)
  /\ UNCHANGED <<tier1, queue, asleep, stop, tier2, history>>

\* DiskCacheStore::Load: the index is not consulted, a torn blob is a miss.
Load(c) ==
  LET k == act[c].key
  IN  /\ act[c].at = "load"
      /\ IF k \in KeysOf(disk) /\ EntryOf(disk, k).whole
           THEN Begin(c, "promote", k, EntryOf(disk, k).num)
           ELSE Return(c)
      /\ UNCHANGED <<tier1, queue, asleep, stop, tier2, history>>

Promote(c) ==
  /\ act[c].at = "promote"
  /\ L1Put(act[c].key, act[c].num)
  /\ Return(c)
  /\ UNCHANGED <<queue, asleep, stop, tier2, history>>

Insert(c, k) ==
  LET n == inserts[k] + 1
  IN  /\ Free(c)
      /\ MapThenSumSet(LAMBDA j : inserts[j], Keys) < MaxInserts
      /\ inserts' = [inserts EXCEPT ![k] = n]
      /\ L1Put(k, n)
      /\ Begin(c, "push", k, n)
      /\ UNCHANGED <<queue, asleep, stop, tier2, dead>>

\* Variant with a defect: the queue is changed without its mutex.
PushUnlocked(c) ==
  /\ act[c].at = "push"
  /\ queue' = Append(queue, [key |-> act[c].key, num |-> act[c].num])
  /\ Go(c, "notify")
  /\ UNCHANGED <<tier1, asleep, stop, tier2, history>>

\* StoreAsync: the job is queued, and then a sleeper is notified.
Push(c) ==
  /\ act[c].at = "push" /\ ~QueueLocked
  /\ queue' = Append(queue, [key |-> act[c].key, num |-> act[c].num])
  /\ Go(c, "notify")
  /\ UNCHANGED <<tier1, asleep, stop, tier2, history>>

Notify(c) ==
  /\ act[c].at = "notify"
  /\ NotifyOne /\ Return(c)
  /\ UNCHANGED <<tier1, queue, stop, tier2, history>>

-----------------------------------------------------------------------------
(* The worker thread *)

\* A job is taken from the queue.
Take(job, rest) == Begin(Worker, "begin", job.key, job.num) /\ queue' = rest

\* Variant with a defect: the worker takes the job queued last.
WorkerCheckLast ==
  /\ act[Worker].at = "check" /\ Worker \notin asleep
  /\ IF queue # <<>>
       THEN Take(Last(queue), Front(queue))
       ELSE Go(Worker, IF stop THEN "exited" ELSE "doze") /\ UNCHANGED queue
  /\ UNCHANGED <<tier1, asleep, stop, tier2, history>>

\* The loop, with queueMu held: take a job, or leave, or wait.
WorkerCheck ==
  /\ act[Worker].at = "check" /\ Worker \notin asleep
  /\ IF queue # <<>>
       THEN Take(Head(queue), Tail(queue))
       ELSE Go(Worker, IF stop THEN "exited" ELSE "doze") /\ UNCHANGED queue
  /\ UNCHANGED <<tier1, asleep, stop, tier2, history>>

\* queueMu is released and the worker sleeps, whatever was notified meanwhile.
WorkerWait ==
  /\ act[Worker].at = "doze"
  /\ asleep' = asleep \cup {Worker} /\ Go(Worker, "check")
  /\ UNCHANGED <<tier1, queue, stop, tier2, history>>

\* WriteBlob truncates the blob of the job, and then fills it.
Write(whole) ==
  disk' = Append(Drop(disk, {act[Worker].key}),
                 [key |-> act[Worker].key, num |-> act[Worker].num, whole |-> whole])

WriteBegin ==
  /\ act[Worker].at = "begin"
  /\ Write(FALSE) /\ Go(Worker, "end")
  /\ UNCHANGED <<tier1, queue, asleep, stop, index, used, history>>

\* The stream is tested before it is flushed and closed: the blob may be torn
\* and pass for whole.
WriteEnd ==
  /\ act[Worker].at = "end"
  /\ \E whole \in BOOLEAN : Write(whole)
  /\ Go(Worker, "index")
  /\ UNCHANGED <<tier1, queue, asleep, stop, index, used, history>>

\* The disk is full or the file cannot be opened: the job is dropped, and what
\* has been written of the blob stays.
WriteFails ==
  /\ act[Worker].at \in {"begin", "end"}
  /\ Return(Worker)
  /\ UNCHANGED <<tier1, queue, asleep, stop, tier2, history>>

\* indexMu is free: InvalidatePrefix, which holds it throughout, is not at work.
IndexFree == \A c \in Clients : act[c].at \notin {"sweep", "delete"}

\* The rest of DoStore: what the blob replaces is not subtracted, and the
\* header is not counted.
Index ==
  LET k == act[Worker].key
  IN  /\ act[Worker].at = "index" /\ IndexFree
      /\ index' = index \cup {ByKey(k)} /\ used' = used + Pixels[k][act[Worker].num]
      /\ Go(Worker, "trim")
      /\ UNCHANGED <<tier1, queue, asleep, stop, disk, history>>

-----------------------------------------------------------------------------
(* Blobs are deleted by TrimTobudget, Invalidate and InvalidatePrefix *)

\* A counter that has wrapped is over every budget.
OverBudget == used < 0 \/ used > L2Max

\* file_size, -1 if there is no such blob; a torn blob counts as empty.
FileSize(k) ==
  IF k \notin KeysOf(disk) THEN -1
  ELSE IF EntryOf(disk, k).whole THEN Pixels[k][EntryOf(disk, k).num] + Header ELSE 0

\* A blob that is being written cannot be deleted.
Opened(k) == act[Worker].at = "end" /\ act[Worker].key = k

\* TrimTobudget: first L1, then L2, where the worker calls it too: list the
\* blobs, oldest first, and delete them one by one.
TrimCall(c) ==
  /\ Free(c)
  /\ Evicted(l1, l1Bytes)
  /\ Begin(c, "trim", NoKey, 0)
  /\ UNCHANGED <<queue, asleep, stop, tier2, history>>

TrimList(a) ==
  /\ act[a].at = "trim"
  /\ IF OverBudget
       THEN act' = [act EXCEPT ![a].at = "size", ![a].todo = [i \in DOMAIN disk |-> disk[i].key]]
       ELSE Return(a)
  /\ UNCHANGED <<tier1, queue, asleep, stop, tier2, history>>

TrimSize(a) ==
  /\ act[a].at = "size"
  /\ IF act[a].todo # <<>> /\ OverBudget
       THEN act' = [act EXCEPT ![a].at = "remove", ![a].num = FileSize(Head(act[a].todo))]
       ELSE Return(a)
  /\ UNCHANGED <<tier1, queue, asleep, stop, tier2, history>>

\* A blob that is gone by now counts as deleted.
TrimRemove(a) ==
  LET k == Head(act[a].todo)
  IN  /\ act[a].at = "remove"
      /\ IF Opened(k) THEN UNCHANGED <<disk, used>>
         ELSE disk' = Drop(disk, {k}) /\ used' = used - act[a].num
      /\ Go(a, "erase")
      /\ UNCHANGED <<tier1, queue, asleep, stop, index, history>>

TrimErase(a) ==
  /\ act[a].at = "erase" /\ IndexFree
  /\ index' = index \ {ByKey(Head(act[a].todo)), ByName(Head(act[a].todo))}
  /\ act' = [act EXCEPT ![a].at = "size", ![a].todo = Tail(act[a].todo)]
  /\ UNCHANGED <<tier1, queue, asleep, stop, disk, used, history>>

\* Invalidate: from L1, then the bytes, the blob and the index entry of L2.
Invalidate(c, k) ==
  /\ Free(c)
  /\ L1Drop({k})
  /\ dead' = [dead EXCEPT ![k] = inserts[k]]
  /\ Begin(c, "subtract", k, 0)
  /\ UNCHANGED <<queue, asleep, stop, tier2, inserts>>

InvalidateBytes(c) ==
  /\ act[c].at = "subtract"
  /\ used' = used - MapThenSumSet(FileSize, {act[c].key} \cap KeysOf(disk))
  /\ Go(c, "unlink")
  /\ UNCHANGED <<tier1, queue, asleep, stop, disk, index, history>>

InvalidateBlob(c) ==
  /\ act[c].at = "unlink"
  /\ disk' = IF Opened(act[c].key) THEN disk ELSE Drop(disk, {act[c].key})
  /\ Go(c, "forget")
  /\ UNCHANGED <<tier1, queue, asleep, stop, index, used, history>>

InvalidateIndex(c) ==
  /\ act[c].at = "forget" /\ IndexFree
  /\ index' = index \ {ByKey(act[c].key)}
  /\ Return(c)
  /\ UNCHANGED <<tier1, queue, asleep, stop, disk, used, history>>

\* InvalidatePrefix: from L1, then one by one every blob whose key the index
\* knows: its bytes, and then the blob and its index entry.
InvalidatePrefix(c, K) ==
  /\ Free(c)
  /\ L1Drop(K)
  /\ dead' = [k \in Keys |-> IF k \in K THEN inserts[k] ELSE dead[k]]
  /\ act' = [act EXCEPT ![c] = [NoCall EXCEPT !.at = "prefix", !.todo = SetToSeq(K)]]
  /\ UNCHANGED <<queue, asleep, stop, tier2, inserts>>

\* indexMu is taken, or held since the last blob.
Sweeping(c) == act[c].at = "sweep" \/ (act[c].at = "prefix" /\ IndexFree)

\* The known keys of the folder that c sweeps.
KnownTo(c) == {k \in ToSet(act[c].todo) : ByKey(k) \in index}

SweepBytes(c) ==
  /\ Sweeping(c)
  /\ \E k \in KnownTo(c) :
       /\ used' = used - MapThenSumSet(FileSize, {k} \cap KeysOf(disk))
       /\ act' = [act EXCEPT ![c].at = "delete", ![c].key = k]
  /\ UNCHANGED <<tier1, queue, asleep, stop, disk, index, history>>

SweepBlob(c) ==
  /\ act[c].at = "delete"
  /\ disk' = IF Opened(act[c].key) THEN disk ELSE Drop(disk, {act[c].key})
  /\ index' = index \ {ByKey(act[c].key)}
  /\ Go(c, "sweep")
  /\ UNCHANGED <<tier1, queue, asleep, stop, used, history>>

SweepEnd(c) ==
  /\ Sweeping(c) /\ KnownTo(c) = {}
  /\ Return(c)
  /\ UNCHANGED <<tier1, queue, asleep, stop, tier2, history>>

-----------------------------------------------------------------------------
(* FlushL2, destruction, restart *)

FlushCall(c) ==
  /\ Flushes /\ Free(c)
  /\ Begin(c, "flush", NoKey, 0)
  /\ UNCHANGED <<tier1, queue, asleep, stop, tier2, history>>

\* Flush waits until the queue is empty.
Flush(c) ==
  /\ act[c].at = "flush" /\ c \notin asleep /\ ~QueueLocked
  /\ IF queue = <<>> THEN Return(c) /\ UNCHANGED asleep
     ELSE asleep' = asleep \cup {c} /\ UNCHANGED act
  /\ UNCHANGED <<tier1, queue, stop, tier2, history>>

\* The destructor sets stopWorker and notifies, without the mutex.
Destroy ==
  /\ \A c \in Clients : Free(c)
  /\ stop' = TRUE /\ asleep' = {}
  /\ UNCHANGED <<tier1, queue, tier2, act, history>>

\* The process ends, at any point or after the destructor, and a new one opens
\* the directory: LoadIndex knows the whole blobs by name only.
Restart ==
  LET found == {k \in KeysOf(disk) : EntryOf(disk, k).whole}
  IN  /\ l1' = <<>> /\ l1Bytes' = 0
      /\ queue' = <<>> /\ asleep' = {} /\ stop' = FALSE
      /\ index' = {ByName(k) : k \in found}
      /\ used' = MapThenSumSet(FileSize, found)
      /\ act' = NoCalls
      /\ dead' = [k \in Keys |-> 0]
      /\ UNCHANGED <<disk, inserts>>

WorkerStep ==
  WorkerCheck \/ WorkerWait \/ WriteBegin \/ WriteEnd \/ WriteFails \/ Index

TrimStep(a) == TrimList(a) \/ TrimSize(a) \/ TrimRemove(a) \/ TrimErase(a)

\* Which calls a thread makes is its program's choice; two sets keep the instances small.
Call(c) ==
  \/ /\ c \in Readers
     /\ \E k \in Keys : LookupHit(c, k) \/ LookupMiss(c, k) \/ Invalidate(c, k)
  \/ /\ c \in Writers
     /\ \/ \E k \in Keys : Insert(c, k)
        \/ \E K \in Folders : InvalidatePrefix(c, K)
        \/ TrimCall(c)
        \/ FlushCall(c)

CallStep(c) ==
  \/ Load(c) \/ Promote(c)
  \/ Push(c) \/ Notify(c)
  \/ TrimStep(c)
  \/ InvalidateBytes(c) \/ InvalidateBlob(c) \/ InvalidateIndex(c)
  \/ SweepBytes(c) \/ SweepBlob(c) \/ SweepEnd(c)
  \/ Flush(c)

Next ==
  \/ \E c \in Clients : Call(c) \/ CallStep(c)
  \/ WorkerStep \/ TrimStep(Worker)
  \/ Destroy \/ Restart

Spec == Init /\ [][Next]_vars

\* Every thread that can take a step of its call takes one in the end.
Fairness ==
  /\ WF_vars(WorkerStep \/ TrimStep(Worker))
  /\ \A c \in Clients : WF_vars(CallStep(c))

FairSpec == Spec /\ Fairness
-----------------------------------------------------------------------------
(* Properties *)

Ats == {"idle", "load", "promote", "push", "notify", "check", "doze", "begin", "end", "index",
        "trim", "size", "remove", "erase", "subtract", "unlink", "forget", "prefix", "sweep",
        "delete", "flush", "exited"}
Job == [key : Keys, num : 1..MaxInserts]

\* The types; the list of L1, which a map points into, and the directory have
\* no key twice.
TypeOK ==
  /\ l1 \in Seq(Job) /\ Len(l1) = Cardinality(KeysOf(l1))
  /\ l1Bytes \in Nat
  /\ queue \in Seq(Job)
  /\ asleep \subseteq Actors
  /\ stop \in BOOLEAN
  /\ disk \in Seq([key : Keys, num : 1..MaxInserts, whole : BOOLEAN])
  /\ Len(disk) = Cardinality(KeysOf(disk))
  /\ index \subseteq {ByKey(k) : k \in Keys} \cup {ByName(k) : k \in Keys}
  /\ used \in Int
  /\ act \in [Actors -> [at : Ats, key : Keys \cup {NoKey}, num : Int, todo : Seq(Keys)]]
  /\ inserts \in [Keys -> 0..MaxInserts]
  /\ dead \in [Keys -> 0..MaxInserts]

\* Whatever threads do at the same time, the counter of L1 is the bytes of its
\* entries, also when a thumbnail replaces one of another size, and between the
\* calls L1 is within its budget.
L1WithinBudget ==
  /\ l1Bytes = BytesOf(ToSet(l1))
  /\ l1Bytes <= L1Max

\* If one thread inserts, the blob of a key never goes back to an earlier
\* thumbnail while it exists: the queue hands over the Inserts in their order,
\* through invalidations, trims, the destructor and restarts.
DiskNeverGoesBack ==
  [][\A k \in KeysOf(disk) \cap KeysOf(disk') :
       EntryOf(disk', k).num >= EntryOf(disk, k).num]_vars

\* No job is slept over or left: as long as one is queued the worker has not
\* ended, and if it sleeps, a thread is about to notify it, or a Flush that was
\* or may be woken in its place is still waiting for the queue to become empty.
NoJobSleptOver ==
  queue # <<>> =>
    /\ act[Worker].at # "exited"
    /\ Worker \in asleep => \E c \in Clients : act[c].at \in {"notify", "flush"}

\* No call is being executed and no job is left.
AtRest ==
  /\ \A c \in Clients : act[c] = NoCall
  /\ queue = <<>> /\ Worker \in asleep

\* "Invalidate a key from all tiers" (TwoTierCacheManager.h:79): once the calls
\* have returned, neither tier has a thumbnail that was inserted before an
\* Invalidate of its key in this process.
InvalidatedStaysOut ==
  AtRest => \A k \in Keys :
    /\ k \in KeysOf(l1) => EntryOf(l1, k).num > dead[k]
    /\ k \in KeysOf(disk) /\ EntryOf(disk, k).whole => EntryOf(disk, k).num > dead[k]

\* "Flush all pending async writes. Blocks until queue is drained."
\* (DiskCacheStore.h:58): a Flush returns.
FlushReturns == \A c \in Clients : act[c].at = "flush" ~> act[c].at # "flush"
=============================================================================
