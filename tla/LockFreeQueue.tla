---------------------------- MODULE LockFreeQueue ----------------------------
(***************************************************************************)
(* LockFreeDecodePipeline (Engine/Pipeline/LockFreeDecodePipeline.h): a    *)
(* ring of slots with a sequence counter each, producers that claim a      *)
(* position by compare-and-swap on m_head, worker threads that claim one   *)
(* on m_tail, and an owner that starts and joins the workers.              *)
(*                                                                         *)
(* A step is one access to shared memory.  The accesses are taken in an    *)
(* order all threads agree on: what the code reads relaxed (head, tail) it *)
(* validates by the compare-and-swap, and the slot is published by the     *)
(* release store and the acquire load of its counter.  The counters do not *)
(* wrap (64 bits).                                                         *)
(***************************************************************************)
EXTENDS Integers

CONSTANTS
  Producers,  \* threads that call TryEnqueue
  Workers,    \* threads StartWorkers may spawn
  Tasks,      \* how many tasks are submitted: the bound of a run
  Capacity    \* m_capacity: a power of two

ASSUME QueueAssumption ==
  /\ Capacity \in Nat \ {0}
  /\ Tasks \in Nat
  /\ Producers \cap Workers = {}

Threads == Producers \cup Workers
Task == 1 .. Tasks  \* numbered in the order of their calls of TryEnqueue
NoTask == 0
SlotIndex == 0 .. Capacity - 1
SlotOf(p) == p % Capacity

VARIABLES
  head, tail,   \* m_head, m_tail
  sequence,     \* the counter of each slot
  slots,        \* the task in each slot; NoTask once moved from
  stopFlag,     \* m_stopFlag
  owner,        \* "idle", "running" or "joining": where the owner of m_workers is
  pc,           \* where each thread is in TryEnqueue, WorkerLoop or TryDequeue
  pos,          \* the local variable pos
  held,         \* the argument of TryEnqueue, the local task of WorkerLoop
  draining,     \* whether a worker has left its first loop
  submitted,    \* history: how many tasks were given to TryEnqueue
  placed,       \* history: tasks that have got a position
  accepted,     \* history: tasks for which TryEnqueue has returned true
  delivered,    \* history: tasks that were run
  owed,         \* history: accepted when StopWorkers was called last
  quiet         \* history: no position was claimed and unpublished then

ring == <<head, tail, sequence, slots>>
history == <<submitted, placed, accepted, delivered, owed, quiet>>
vars == <<ring, stopFlag, owner, pc, pos, held, draining, history>>

Init ==
  /\ head = 0 /\ tail = 0
  /\ sequence = [i \in SlotIndex |-> i]
  /\ slots = [i \in SlotIndex |-> NoTask]
  /\ stopFlag = FALSE /\ owner = "idle"
  /\ pc = [t \in Threads |-> IF t \in Producers THEN "idle" ELSE "off"]
  /\ pos = [t \in Threads |-> 0]
  /\ held = [t \in Threads |-> NoTask]
  /\ draining = [w \in Workers |-> FALSE]
  /\ submitted = 0 /\ placed = {} /\ accepted = {} /\ delivered = {} /\ owed = {}
  /\ quiet = TRUE

Goto(t, l) == pc' = [pc EXCEPT ![t] = l]
\* The thread goes on at l, its local variables forgotten.
Leave(t, l) == /\ Goto(t, l)
               /\ held' = [held EXCEPT ![t] = NoTask]
               /\ pos' = [pos EXCEPT ![t] = 0]

(***************************************************************************)
(* TryEnqueue.                                                             *)
(***************************************************************************)
Submit(p) ==
  /\ pc[p] = "idle" /\ submitted < Tasks
  /\ submitted' = submitted + 1
  /\ held' = [held EXCEPT ![p] = submitted + 1]
  /\ Goto(p, "load")
  /\ UNCHANGED <<ring, stopFlag, owner, pos, draining, placed, accepted, delivered, owed, quiet>>

EnqueueLoad(p) ==
  /\ pc[p] = "load"
  /\ pos' = [pos EXCEPT ![p] = head]
  /\ Goto(p, "look")
  /\ UNCHANGED <<ring, stopFlag, owner, held, draining, history>>

\* Variant with a defect: a slot that is still full counts as free.
EnqueueLookFull(p) ==
  /\ pc[p] = "look"
  /\ IF sequence[SlotOf(pos[p])] <= pos[p] THEN Goto(p, "claim") ELSE Goto(p, "load")
  /\ UNCHANGED <<ring, stopFlag, owner, pos, held, draining, history>>

\* The slot is free for this position, is still full, or was claimed by another producer.
EnqueueLook(p) ==
  /\ pc[p] = "look"
  /\ LET seq == sequence[SlotOf(pos[p])] IN
       \/ seq = pos[p] /\ Goto(p, "claim") /\ UNCHANGED <<held, pos>>
       \/ seq < pos[p] /\ Leave(p, "idle")
       \/ seq > pos[p] /\ Goto(p, "load") /\ UNCHANGED <<held, pos>>
  /\ UNCHANGED <<ring, stopFlag, owner, draining, history>>

\* The compare-and-swap; when it fails it has loaded head into pos.
EnqueueClaim(p) ==
  /\ pc[p] = "claim"
  /\ \/ /\ head = pos[p]
        /\ head' = head + 1
        /\ placed' = placed \cup {held[p]}
        /\ Goto(p, "fill")
        /\ UNCHANGED pos
     \/ /\ head # pos[p]
        /\ pos' = [pos EXCEPT ![p] = head]
        /\ Goto(p, "look")
        /\ UNCHANGED <<head, placed>>
  /\ UNCHANGED <<tail, sequence, slots, stopFlag, owner, held, draining, submitted, accepted,
                 delivered, owed, quiet>>

EnqueueFill(p) ==
  /\ pc[p] = "fill"
  /\ slots' = [slots EXCEPT ![SlotOf(pos[p])] = held[p]]
  /\ Goto(p, "publish")
  /\ UNCHANGED <<head, tail, sequence, stopFlag, owner, pos, held, draining, history>>

EnqueuePublish(p) ==
  /\ pc[p] = "publish"
  /\ sequence' = [sequence EXCEPT ![SlotOf(pos[p])] = pos[p] + 1]
  /\ accepted' = accepted \cup {held[p]}
  /\ Leave(p, "idle")
  /\ UNCHANGED <<head, tail, slots, stopFlag, owner, draining, submitted, placed, delivered,
                 owed, quiet>>

(***************************************************************************)
(* WorkerLoop and TryDequeue.                                              *)
(***************************************************************************)
\* Variant with a defect: a worker leaves when it is told to.
CheckStopLeaves(w) ==
  /\ pc[w] = "check"
  /\ IF stopFlag THEN Leave(w, "exited") ELSE Goto(w, "load") /\ UNCHANGED <<held, pos>>
  /\ UNCHANGED <<ring, stopFlag, owner, draining, history>>

CheckStop(w) ==
  /\ pc[w] = "check"
  /\ draining' = [draining EXCEPT ![w] = stopFlag]
  /\ Goto(w, "load")
  /\ UNCHANGED <<ring, stopFlag, owner, pos, held, history>>

DequeueLoad(w) ==
  /\ pc[w] = "load"
  /\ pos' = [pos EXCEPT ![w] = tail]
  /\ Goto(w, "look")
  /\ UNCHANGED <<ring, stopFlag, owner, held, draining, history>>

\* Variants with a defect: a slot that is only free counts as ready; a worker leaves when
\* it finds nothing to do.
DequeueLookEarly(w) ==
  /\ pc[w] = "look"
  /\ LET seq == sequence[SlotOf(pos[w])] IN
       \/ seq \in {pos[w], pos[w] + 1} /\ Goto(w, "claim") /\ UNCHANGED <<held, pos>>
       \/ seq < pos[w] /\ Leave(w, IF draining[w] THEN "exited" ELSE "check")
       \/ seq > pos[w] + 1 /\ Goto(w, "load") /\ UNCHANGED <<held, pos>>
  /\ UNCHANGED <<ring, stopFlag, owner, draining, history>>
DequeueLookOnce(w) ==
  /\ pc[w] = "look"
  /\ LET seq == sequence[SlotOf(pos[w])] IN
       \/ seq = pos[w] + 1 /\ Goto(w, "claim") /\ UNCHANGED <<held, pos>>
       \/ seq < pos[w] + 1 /\ Leave(w, "exited")
       \/ seq > pos[w] + 1 /\ Goto(w, "load") /\ UNCHANGED <<held, pos>>
  /\ UNCHANGED <<ring, stopFlag, owner, draining, history>>

\* The slot is ready, or empty (the worker yields, or leaves if it drains), or taken.
DequeueLook(w) ==
  /\ pc[w] = "look"
  /\ LET seq == sequence[SlotOf(pos[w])] IN
       \/ seq = pos[w] + 1 /\ Goto(w, "claim") /\ UNCHANGED <<held, pos>>
       \/ seq < pos[w] + 1 /\ Leave(w, IF draining[w] THEN "exited" ELSE "check")
       \/ seq > pos[w] + 1 /\ Goto(w, "load") /\ UNCHANGED <<held, pos>>
  /\ UNCHANGED <<ring, stopFlag, owner, draining, history>>

\* Variant with a defect: the result of the compare-and-swap is ignored.
DequeueClaimBlind(w) ==
  /\ pc[w] = "claim"
  /\ tail' = IF tail = pos[w] THEN tail + 1 ELSE tail
  /\ Goto(w, "take")
  /\ UNCHANGED <<head, sequence, slots, stopFlag, owner, pos, held, draining, history>>

DequeueClaim(w) ==
  /\ pc[w] = "claim"
  /\ \/ tail = pos[w] /\ tail' = tail + 1 /\ Goto(w, "take") /\ UNCHANGED pos
     \/ /\ tail # pos[w] /\ pos' = [pos EXCEPT ![w] = tail]
        /\ Goto(w, "look") /\ UNCHANGED tail
  /\ UNCHANGED <<head, sequence, slots, stopFlag, owner, held, draining, history>>

DequeueTake(w) ==
  /\ pc[w] = "take"
  /\ held' = [held EXCEPT ![w] = slots[SlotOf(pos[w])]]
  /\ slots' = [slots EXCEPT ![SlotOf(pos[w])] = NoTask]
  /\ Goto(w, "free")
  /\ UNCHANGED <<head, tail, sequence, stopFlag, owner, pos, draining, history>>

DequeueFree(w) ==
  /\ pc[w] = "free"
  /\ sequence' = [sequence EXCEPT ![SlotOf(pos[w])] = pos[w] + Capacity]
  /\ Goto(w, "run")
  /\ UNCHANGED <<head, tail, slots, stopFlag, owner, pos, held, draining, history>>

\* The decode function or the task's callback.
Run(w) ==
  /\ pc[w] = "run"
  /\ delivered' = delivered \cup {held[w]}
  /\ Leave(w, IF draining[w] THEN "load" ELSE "check")
  /\ UNCHANGED <<ring, stopFlag, owner, draining, submitted, placed, accepted, owed, quiet>>

(***************************************************************************)
(* StartWorkers and StopWorkers, called by one owner.                      *)
(***************************************************************************)
StartWorkers(S) ==
  /\ owner # "joining"
  /\ S # {} /\ \A w \in S : pc[w] = "off"
  /\ stopFlag' = FALSE /\ owner' = "running"
  /\ pc' = [t \in Threads |-> IF t \in S THEN "check" ELSE pc[t]]
  /\ owed' = {} /\ quiet' = TRUE
  /\ UNCHANGED <<ring, pos, held, draining, submitted, placed, accepted, delivered>>

Unpublished == {p \in Producers : pc[p] \in {"fill", "publish"}}

StopWorkers ==
  /\ owner = "running"
  /\ stopFlag' = TRUE /\ owner' = "joining"
  /\ owed' = accepted /\ quiet' = (Unpublished = {})
  /\ UNCHANGED <<ring, pc, pos, held, draining, submitted, placed, accepted, delivered>>

Joined ==
  /\ owner = "joining"
  /\ \A w \in Workers : pc[w] \in {"off", "exited"}
  /\ owner' = "idle"
  /\ pc' = [t \in Threads |-> IF t \in Workers THEN "off" ELSE pc[t]]
  /\ draining' = [w \in Workers |-> FALSE]
  /\ UNCHANGED <<ring, stopFlag, pos, held, history>>

Produce(p) == \/ EnqueueLoad(p) \/ EnqueueLook(p) \/ EnqueueClaim(p)
              \/ EnqueueFill(p) \/ EnqueuePublish(p)
Work(w) == \/ CheckStop(w) \/ DequeueLoad(w) \/ DequeueLook(w) \/ DequeueClaim(w)
           \/ DequeueTake(w) \/ DequeueFree(w) \/ Run(w)

Next == \/ \E p \in Producers : Submit(p) \/ Produce(p)
        \/ \E w \in Workers : Work(w)
        \/ \E S \in SUBSET Workers : StartWorkers(S)
        \/ StopWorkers
        \/ Joined

Spec == Init /\ [][Next]_vars

\* Runnable threads are scheduled; a decode function returns.
FairSpec == /\ Spec
            /\ \A p \in Producers : WF_vars(Produce(p))
            /\ \A w \in Workers : WF_vars(Work(w))
            /\ WF_vars(Joined)

(***************************************************************************)
(* Properties.                                                             *)
(***************************************************************************)
ProducerAt == {"idle", "load", "look", "claim", "fill", "publish"}
WorkerAt == {"off", "check", "load", "look", "claim", "take", "free", "run", "exited"}
TypeOK ==
  /\ head \in Nat /\ tail \in Nat
  /\ sequence \in [SlotIndex -> Nat]
  /\ slots \in [SlotIndex -> Task \cup {NoTask}]
  /\ stopFlag \in BOOLEAN /\ quiet \in BOOLEAN
  /\ owner \in {"idle", "running", "joining"}
  /\ pc \in [Threads -> ProducerAt \cup WorkerAt]
  /\ pos \in [Threads -> Nat]
  /\ held \in [Threads -> Task \cup {NoTask}]
  /\ draining \in [Workers -> BOOLEAN]
  /\ submitted \in 0 .. Tasks /\ placed \subseteq 1 .. submitted
  /\ accepted \subseteq placed /\ delivered \subseteq placed /\ owed \subseteq accepted

\* Two threads never use the task of one slot at the same time: a producer between its
\* compare-and-swap and its release store, a worker between its own.
Inside(t) == pc[t] \in {"fill", "publish", "take", "free"}
SlotHasOneThread ==
  \A s, t \in Threads : s # t /\ Inside(s) /\ Inside(t) => SlotOf(pos[s]) # SlotOf(pos[t])

\* What the threads hold and the slots contain is a bounded FIFO: the positions
\* from tail to head are the queue, the slot of a position or the producer that is about to
\* fill it has the task, and a worker that has claimed a position owns its task.
TaskAt(n) ==
  IF \E p \in Producers : pc[p] = "fill" /\ pos[p] = n
  THEN held[CHOOSE p \in Producers : pc[p] = "fill" /\ pos[p] = n]
  ELSE slots[SlotOf(n)]
Waiting == [i \in 1 .. (head - tail) |-> TaskAt(tail + i - 1)]
InHand == [w \in Workers |-> IF pc[w] = "take" THEN slots[SlotOf(pos[w])] ELSE held[w]]
Abstract == INSTANCE TaskQueue WITH queue <- Waiting, inHand <- InHand, put <- placed
\* Every step of the ring is a step of the abstract queue or changes nothing in it.
Implements == Abstract!Spec

\* The workers drain the queue before they exit "so that callbacks are not lost"
\* (WorkerLoop): what was accepted before StopWorkers is delivered when it returns.
DrainedOnStop == owner # "joining" => owed \subseteq delivered
\* The same, if no producer had claimed a position without having published it.
DrainedWhenQuiet == quiet => DrainedOnStop

\* The workers catch up: unless they are stopped they come to a point where every task
\* TryEnqueue accepted was run (the bound Tasks ends the submissions).
AcceptedIsDelivered == []<>(owner # "running" \/ accepted \subseteq delivered)
==============================================================================
