------------------------- MODULE LockFreeQueueProofs -------------------------
(***************************************************************************)
(* What holds of the ring of LockFreeDecodePipeline for every number of    *)
(* producers, workers and tasks, and every capacity of at least two.       *)
(***************************************************************************)
EXTENDS LockFreeQueue, Sequences, SequenceTheorems, TLAPS

(***************************************************************************)
(* Positions and slots.                                                    *)
(***************************************************************************)
\* A position has a slot.
LEMMA SlotInRange == \A n \in Nat : SlotOf(n) \in SlotIndex
  BY QueueAssumption DEF SlotOf, SlotIndex

\* Division with remainder is unique.
LEMMA Division ==
  /\ \A n \in Nat : n \div Capacity \in Nat /\ n = Capacity * (n \div Capacity) + (n % Capacity)
  /\ \A n, q \in Int : \A r \in 0 .. Capacity - 1 : n = Capacity * q + r => r = n % Capacity
  BY QueueAssumption

\* The slot of a position is used again one lap later.
LEMMA SlotAgain == \A n \in Nat : SlotOf(n + Capacity) = SlotOf(n)
<1> SUFFICES ASSUME NEW n \in Nat PROVE SlotOf(n + Capacity) = SlotOf(n)
  OBVIOUS
<1> DEFINE q == n \div Capacity
           r == n % Capacity
<1>1. q \in Nat /\ n = Capacity * q + r /\ r \in 0 .. Capacity - 1
  BY Division, SlotInRange DEF SlotOf, SlotIndex
<1>2. Capacity * (q + 1) = Capacity * q + Capacity
  BY <1>1, QueueAssumption
<1> HIDE DEF q, r
<1>3. n + Capacity = Capacity * (q + 1) + r
  BY <1>1, <1>2, QueueAssumption
<1>4. r = (n + Capacity) % Capacity
  BY <1>1, <1>3, Division, QueueAssumption
<1> QED
  BY <1>4 DEF SlotOf, r

\* Positions less than one lap apart have different slots.
LEMMA SlotsDiffer ==
  ASSUME NEW m \in Nat, NEW n \in Nat, m < n, n < m + Capacity
  PROVE  SlotOf(m) # SlotOf(n)
<1> SUFFICES ASSUME m % Capacity = n % Capacity PROVE FALSE
  BY DEF SlotOf
<1> DEFINE a == m \div Capacity
           b == n \div Capacity
<1>1. /\ a \in Nat /\ m = Capacity * a + (m % Capacity)
      /\ b \in Nat /\ n = Capacity * b + (n % Capacity)
      /\ m % Capacity \in 0 .. Capacity - 1
  BY Division, SlotInRange DEF SlotOf, SlotIndex
<1>2. Capacity * (b - a) = Capacity * b - Capacity * a
  BY <1>1, QueueAssumption
<1> HIDE DEF a, b
<1>3. b - a \in Int /\ 0 < Capacity * (b - a) /\ Capacity * (b - a) < Capacity
  BY <1>1, <1>2, QueueAssumption
<1>4. CASE b - a <= 0
  BY <1>3, <1>4, QueueAssumption
<1>5. CASE b - a >= 1
  BY <1>3, <1>5, QueueAssumption
<1> QED
  BY <1>3, <1>4, <1>5

\* Within one lap a slot has one position.
LEMMA Window ==
  ASSUME NEW t \in Nat, NEW m \in t .. t + Capacity - 1, NEW n \in t .. t + Capacity - 1,
         SlotOf(m) = SlotOf(n)
  PROVE  m = n
<1>1. CASE m < n
  BY <1>1, SlotsDiffer, QueueAssumption
<1>2. CASE n < m
  BY <1>2, SlotsDiffer, QueueAssumption
<1> QED
  BY <1>1, <1>2, QueueAssumption

(***************************************************************************)
(* The invariant of the ring.                                              *)
(***************************************************************************)
Filling(p) == pc[p] \in {"fill", "publish"}
Emptying(w) == pc[w] \in {"take", "free"}

Shape ==
  /\ head \in Nat /\ tail \in Nat
  /\ sequence \in [SlotIndex -> Nat]
  /\ pos \in [Threads -> Nat]
  /\ pc \in [Threads -> ProducerAt \cup WorkerAt]
  /\ \A p \in Producers : pc[p] \in ProducerAt
  /\ \A w \in Workers : pc[w] \in WorkerAt

\* At most one lap of positions is in use.
OneLap == tail <= head /\ head <= tail + Capacity

\* A claimed position lies between the counters and has one thread.
Claimed ==
  /\ \A p \in Producers : Filling(p) => tail <= pos[p] /\ pos[p] < head
  /\ \A w \in Workers : Emptying(w) => pos[w] < tail /\ head <= pos[w] + Capacity
  /\ \A p, q \in Producers : Filling(p) /\ Filling(q) /\ pos[p] = pos[q] => p = q
  /\ \A v, w \in Workers : Emptying(v) /\ Emptying(w) /\ pos[v] = pos[w] => v = w

\* The counter of each slot in the lap: claimed by a producer or readable; claimed by a worker
\* of the lap before or writable.
Counters ==
  \A n \in tail .. tail + Capacity - 1 :
    /\ n < head /\ (\E p \in Producers : Filling(p) /\ pos[p] = n) => sequence[SlotOf(n)] = n
    /\ n < head /\ ~(\E p \in Producers : Filling(p) /\ pos[p] = n) => sequence[SlotOf(n)] = n + 1
    /\ n >= head /\ (\E w \in Workers : Emptying(w) /\ pos[w] + Capacity = n)
         => sequence[SlotOf(n)] = n + 1 - Capacity
    /\ n >= head /\ ~(\E w \in Workers : Emptying(w) /\ pos[w] + Capacity = n)
         => sequence[SlotOf(n)] = n

\* What a thread found before its compare-and-swap still holds if that will succeed.
Found ==
  /\ \A p \in Producers : pc[p] \in {"look", "claim"} => pos[p] <= head
  /\ \A w \in Workers : pc[w] \in {"look", "claim"} => pos[w] <= tail
  /\ \A p \in Producers : pc[p] = "claim" /\ pos[p] = head => sequence[SlotOf(head)] = head
  /\ \A w \in Workers : pc[w] = "claim" /\ pos[w] = tail => sequence[SlotOf(tail)] = tail + 1

Ring == Shape /\ OneLap /\ Claimed /\ Counters /\ Found

\* A producer that is about to succeed finds room.
LEMMA RoomAtHead ==
  ASSUME Ring, Capacity > 1, sequence[SlotOf(head)] = head
  PROVE  head < tail + Capacity
<1> SUFFICES ASSUME head = tail + Capacity PROVE FALSE
  BY QueueAssumption DEF Ring, Shape, OneLap
<1>1. SlotOf(head) = SlotOf(tail)
  BY SlotAgain DEF Ring, Shape
<1>2. tail \in tail .. tail + Capacity - 1 /\ tail < head
  BY QueueAssumption DEF Ring, Shape
<1>3. sequence[SlotOf(tail)] \in {tail, tail + 1}
  BY <1>2 DEF Ring, Counters
<1> QED
  BY <1>1, <1>3, QueueAssumption DEF Ring, Shape

\* A worker that is about to succeed finds a task.
LEMMA TaskAtTail ==
  ASSUME Ring, sequence[SlotOf(tail)] = tail + 1
  PROVE  tail < head
<1> SUFFICES ASSUME head = tail PROVE FALSE
  BY QueueAssumption DEF Ring, Shape, OneLap
<1>1. tail \in tail .. tail + Capacity - 1 /\ tail >= head
  BY QueueAssumption DEF Ring, Shape
<1>2. sequence[SlotOf(tail)] \in {tail, tail + 1 - Capacity}
  BY <1>1 DEF Ring, Counters
<1> QED
  BY <1>2, QueueAssumption DEF Ring, Shape

LEMMA RingInit == Init => Ring
<1> SUFFICES ASSUME Init PROVE Ring
  OBVIOUS
<1>1. \A p \in Producers : p \in Threads /\ pc[p] = "idle"
  BY DEF Init, Threads
<1>2. \A w \in Workers : w \in Threads /\ pc[w] = "off"
  BY QueueAssumption DEF Init, Threads
<1>3. Shape /\ OneLap
  BY <1>1, <1>2, QueueAssumption DEF Init, Shape, OneLap, SlotIndex, Threads, ProducerAt, WorkerAt
<1>4. Claimed /\ Found
  BY <1>1, <1>2 DEF Claimed, Found, Filling, Emptying
<1>5. Counters
  <2>1. ASSUME NEW n \in 0 .. Capacity - 1 PROVE sequence[SlotOf(n)] = n
    <3>1. n = Capacity * 0 + n
      BY QueueAssumption
    <3>2. SlotOf(n) = n
      BY <3>1, Division, QueueAssumption DEF SlotOf
    <3> QED
      BY <3>2 DEF Init, SlotIndex
  <2>2. head = 0 /\ tail = 0 /\ 0 .. 0 + Capacity - 1 = 0 .. Capacity - 1
    BY QueueAssumption DEF Init
  <2>3. \A n \in 0 .. Capacity - 1 : n >= head /\ ~(n < head)
    BY <2>2, QueueAssumption
  <2>4. \A w \in Workers : ~Emptying(w)
    BY <1>2 DEF Emptying
  <2> QED
    BY <2>1, <2>2, <2>3, <2>4 DEF Counters
<1> QED
  BY <1>3, <1>4, <1>5 DEF Ring

\* A step that changes neither the counters nor who is inside keeps the ring.
LEMMA RingKept ==
  ASSUME Ring, Shape', Found', UNCHANGED <<head, tail, sequence>>,
         \A p \in Producers : /\ Filling(p)' <=> Filling(p)
                              /\ Filling(p) => pos'[p] = pos[p],
         \A w \in Workers : /\ Emptying(w)' <=> Emptying(w)
                            /\ Emptying(w) => pos'[w] = pos[w]
  PROVE  Ring'
<1> USE DEF Ring
<1>1. OneLap'
  BY DEF OneLap
<1>2. Claimed'
  BY DEF Claimed
<1>3. Counters'
  BY DEF Counters
<1> QED
  BY <1>1, <1>2, <1>3

(***************************************************************************)
(* The invariant of the ring is preserved: one lemma per action that       *)
(* changes the counters or who is inside.                                  *)
(***************************************************************************)
LEMMA ClaimKeepsRing ==
  ASSUME Ring, Capacity > 1, NEW p \in Producers, EnqueueClaim(p)
  PROVE  Ring'
<1> USE DEF Ring
<1> p \in Threads
  BY DEF Threads
<1>1. ASSUME head # pos[p], pos' = [pos EXCEPT ![p] = head], pc' = [pc EXCEPT ![p] = "look"],
             UNCHANGED head
      PROVE  Ring'
  <2>1. UNCHANGED <<head, tail, sequence>> /\ pc[p] = "claim"
    BY <1>1 DEF EnqueueClaim
  <2>2. Shape'
    BY <1>1, <2>1, QueueAssumption DEF Shape, ProducerAt, Threads
  <2>3. Found'
    BY <1>1, <2>1, QueueAssumption DEF Shape, Found, Threads
  <2> QED
    BY <1>1, <2>1, <2>2, <2>3, RingKept, QueueAssumption DEF Shape, Filling, Emptying, Threads
<1>2. ASSUME head = pos[p], head' = head + 1, pc' = [pc EXCEPT ![p] = "fill"], UNCHANGED pos
      PROVE  Ring'
  <2>1. UNCHANGED <<tail, sequence>> /\ pc[p] = "claim"
    BY <1>2 DEF EnqueueClaim
  <2>2. sequence[SlotOf(head)] = head
    BY <1>2, <2>1 DEF Found
  <2>3. head < tail + Capacity
    BY <2>2, RoomAtHead
  <2>4. Shape' /\ OneLap'
    BY <1>2, <2>1, <2>3, QueueAssumption DEF Shape, OneLap, ProducerAt, Threads
  <2>5. \A q \in Producers : Filling(q)' <=> Filling(q) \/ q = p
    BY <1>2, <2>1 DEF Shape, Filling, Threads
  <2>6. \A w \in Workers : Emptying(w)' <=> Emptying(w)
    BY <1>2, <2>1, QueueAssumption DEF Shape, Emptying, Threads
  <2>7. \A w \in Workers : Emptying(w) => pos[w] + Capacity # head
    <3> SUFFICES ASSUME NEW w \in Workers, Emptying(w), pos[w] + Capacity = head PROVE FALSE
      OBVIOUS
    <3>1. head \in tail .. tail + Capacity - 1
      BY <2>3, QueueAssumption DEF Shape, OneLap
    <3>2. sequence[SlotOf(head)] = head + 1 - Capacity
      BY <3>1 DEF Counters, Shape
    <3> QED
      BY <2>2, <3>2, QueueAssumption DEF Shape
  <2>8. Claimed'
    <3>1. \A q \in Producers : Filling(q)' => (tail <= pos[q] /\ pos[q] < head)'
      BY <1>2, <2>1, <2>5, QueueAssumption DEF Claimed, Shape, OneLap, Threads
    <3>2. \A w \in Workers : Emptying(w)' => (pos[w] < tail /\ head <= pos[w] + Capacity)'
      BY <1>2, <2>1, <2>6, <2>7, QueueAssumption DEF Claimed, Shape, Threads
    <3>3. \A q, r \in Producers : Filling(q)' /\ Filling(r)' /\ (pos[q] = pos[r])' => q = r
      BY <1>2, <2>1, <2>5, QueueAssumption DEF Claimed, Shape, Threads
    <3>4. \A v, w \in Workers : Emptying(v)' /\ Emptying(w)' /\ (pos[v] = pos[w])' => v = w
      BY <1>2, <2>6 DEF Claimed
    <3> QED
      BY <3>1, <3>2, <3>3, <3>4 DEF Claimed
  <2>9. Counters'
    <3> SUFFICES ASSUME NEW n \in tail .. tail + Capacity - 1
                 PROVE  Counters!(n)'
      BY <2>1 DEF Counters
    <3> QED
      BY <1>2, <2>1, <2>2, <2>5, <2>6, <2>7, QueueAssumption DEF Counters, Shape
  <2>10. Found'
    <3>1. \A q \in Producers : pc'[q] = "claim" => pc[q] = "claim" /\ pos[q] # head'
      BY <1>2, <2>1, QueueAssumption DEF Found, Shape, Threads
    <3> QED
      BY <1>2, <2>1, <3>1, QueueAssumption DEF Found, Shape, Threads
  <2> QED
    BY <2>4, <2>8, <2>9, <2>10
<1> QED
  BY <1>1, <1>2 DEF EnqueueClaim, Goto

LEMMA PublishKeepsRing ==
  ASSUME Ring, NEW p \in Producers, EnqueuePublish(p)
  PROVE  Ring'
<1> USE DEF Ring
<1> p \in Threads
  BY DEF Threads
<1> DEFINE k == pos[p]
<1>1. /\ UNCHANGED <<head, tail>> /\ Filling(p)
      /\ pc' = [pc EXCEPT ![p] = "idle"] /\ pos' = [pos EXCEPT ![p] = 0]
      /\ sequence' = [sequence EXCEPT ![SlotOf(k)] = k + 1]
  BY DEF EnqueuePublish, Leave, Goto, Filling
<1>2. k \in Nat /\ tail <= k /\ k < head /\ SlotOf(k) \in SlotIndex
  BY <1>1, SlotInRange DEF Claimed, Shape
<1>3. k \in tail .. tail + Capacity - 1
  BY <1>2, QueueAssumption DEF Shape, OneLap
<1>4. sequence'[SlotOf(k)] = k + 1
  BY <1>1, <1>2 DEF Shape
<1>5. ASSUME NEW n \in tail .. tail + Capacity - 1, n # k
      PROVE  sequence'[SlotOf(n)] = sequence[SlotOf(n)]
  <2>1. SlotOf(n) # SlotOf(k)
    BY <1>3, <1>5, Window DEF Shape
  <2> QED
    BY <2>1, <1>1 DEF Shape
<1>6. \A q \in Producers : Filling(q)' <=> Filling(q) /\ q # p
  BY <1>1 DEF Shape, Filling, Threads
<1>7. \A q \in Producers : q # p => pos'[q] = pos[q] /\ pc'[q] = pc[q]
  BY <1>1 DEF Shape, Threads
<1>8. \A w \in Workers : pos'[w] = pos[w] /\ pc'[w] = pc[w]
  BY <1>1, QueueAssumption DEF Shape, Threads
<1>9. \A w \in Workers : Emptying(w)' <=> Emptying(w)
  BY <1>8 DEF Emptying
<1>10. Shape' /\ OneLap'
  BY <1>1, <1>2, QueueAssumption DEF Shape, OneLap, ProducerAt, Threads
<1>11. Claimed'
  BY <1>1, <1>6, <1>7, <1>8, <1>9 DEF Claimed
<1>12. Counters'
  <2> SUFFICES ASSUME NEW n \in tail .. tail + Capacity - 1
               PROVE  Counters!(n)'
    BY <1>1 DEF Counters
  <2>1. CASE n = k
    <3>1. ~(\E q \in Producers : Filling(q)' /\ pos'[q] = k)
      BY <1>1, <1>6, <1>7 DEF Claimed
    <3> QED
      BY <1>1, <1>2, <1>4, <2>1, <3>1 DEF Shape
  <2>2. CASE n # k
    <3>1. (\E q \in Producers : Filling(q)' /\ pos'[q] = n)
            <=> (\E q \in Producers : Filling(q) /\ pos[q] = n)
      BY <1>1, <1>6, <1>7, <2>2
    <3>2. Counters!(n)
      BY DEF Counters
    <3> QED
      BY <1>1, <1>5, <1>8, <1>9, <2>2, <3>1, <3>2
  <2> QED
    BY <2>1, <2>2
<1>13. Found'
  <2>1. ASSUME NEW q \in Producers, pc'[q] = "claim", pos'[q] = head
        PROVE  sequence'[SlotOf(head)] = head
    <3>1. q # p /\ sequence[SlotOf(head)] = head
      BY <1>1, <1>7, <2>1 DEF Found, Shape
    <3>2. SlotOf(head) # SlotOf(k)
      <4> SUFFICES ASSUME SlotOf(head) = SlotOf(k) PROVE FALSE
        OBVIOUS
      <4>1. sequence[SlotOf(k)] = k
        BY <1>1, <1>2, <1>3 DEF Counters
      <4> QED
        BY <1>2, <3>1, <4>1 DEF Shape
    <3> QED
      BY <1>1, <3>1, <3>2 DEF Shape
  <2>2. ASSUME NEW w \in Workers, pc'[w] = "claim", pos'[w] = tail
        PROVE  sequence'[SlotOf(tail)] = tail + 1
    <3>1. sequence[SlotOf(tail)] = tail + 1
      BY <1>8, <2>2 DEF Found
    <3>2. CASE tail = k
      BY <1>4, <3>2
    <3>3. CASE tail # k
      BY <1>5, <3>1, <3>3, QueueAssumption DEF Shape
    <3> QED
      BY <3>2, <3>3
  <2>3. \A q \in Producers : pc'[q] \in {"look", "claim"} => pos'[q] <= head
    BY <1>1, <1>7 DEF Found, Shape
  <2>4. \A w \in Workers : pc'[w] \in {"look", "claim"} => pos'[w] <= tail
    BY <1>8 DEF Found
  <2> QED
    BY <1>1, <2>1, <2>2, <2>3, <2>4 DEF Found
<1> QED
  BY <1>10, <1>11, <1>12, <1>13

LEMMA TakePositionKeepsRing ==
  ASSUME Ring, NEW w \in Workers, DequeueClaim(w)
  PROVE  Ring'
<1> USE DEF Ring
<1> w \in Threads
  BY DEF Threads
<1>1. ASSUME tail # pos[w], pos' = [pos EXCEPT ![w] = tail], pc' = [pc EXCEPT ![w] = "look"],
             UNCHANGED tail
      PROVE  Ring'
  <2>1. UNCHANGED <<head, tail, sequence>> /\ pc[w] = "claim"
    BY <1>1 DEF DequeueClaim
  <2>2. Shape'
    BY <1>1, <2>1, QueueAssumption DEF Shape, WorkerAt, Threads
  <2>3. Found'
    BY <1>1, <2>1, QueueAssumption DEF Shape, Found, Threads
  <2> QED
    BY <1>1, <2>1, <2>2, <2>3, RingKept, QueueAssumption DEF Shape, Filling, Emptying, Threads
<1>2. ASSUME tail = pos[w], tail' = tail + 1, pc' = [pc EXCEPT ![w] = "take"], UNCHANGED pos
      PROVE  Ring'
  <2>1. UNCHANGED <<head, sequence>> /\ pc[w] = "claim"
    BY <1>2 DEF DequeueClaim
  <2>2. sequence[SlotOf(tail)] = tail + 1
    BY <1>2, <2>1 DEF Found
  <2>3. tail < head
    BY <2>2, TaskAtTail
  <2>4. Shape' /\ OneLap'
    BY <1>2, <2>1, <2>3, QueueAssumption DEF Shape, OneLap, WorkerAt, Threads
  <2>5. \A v \in Workers : Emptying(v)' <=> Emptying(v) \/ v = w
    BY <1>2, <2>1 DEF Shape, Emptying, Threads
  <2>6. \A p \in Producers : (Filling(p)' <=> Filling(p)) /\ pc'[p] = pc[p]
    BY <1>2, <2>1, QueueAssumption DEF Shape, Filling, Threads
  <2>7. \A p \in Producers : Filling(p) => pos[p] # tail
    <3> SUFFICES ASSUME NEW p \in Producers, Filling(p), pos[p] = tail PROVE FALSE
      OBVIOUS
    <3>1. tail \in tail .. tail + Capacity - 1
      BY QueueAssumption DEF Shape
    <3>2. sequence[SlotOf(tail)] = tail
      BY <2>3, <3>1 DEF Counters
    <3> QED
      BY <2>2, <3>2 DEF Shape
  <2>8. Claimed'
    <3>1. \A p \in Producers : Filling(p)' => (tail <= pos[p] /\ pos[p] < head)'
      BY <1>2, <2>1, <2>6, <2>7, QueueAssumption DEF Claimed, Shape, Threads
    <3>2. \A v \in Workers : Emptying(v)' => (pos[v] < tail /\ head <= pos[v] + Capacity)'
      BY <1>2, <2>1, <2>5, QueueAssumption DEF Claimed, Shape, OneLap, Threads
    <3>3. \A q, r \in Producers : Filling(q)' /\ Filling(r)' /\ (pos[q] = pos[r])' => q = r
      BY <1>2, <2>6 DEF Claimed
    <3>4. \A u, v \in Workers : Emptying(u)' /\ Emptying(v)' /\ (pos[u] = pos[v])' => u = v
      BY <1>2, <2>1, <2>5, QueueAssumption DEF Claimed, Shape, Threads
    <3> QED
      BY <3>1, <3>2, <3>3, <3>4 DEF Claimed
  <2>9. Counters'
    <3> SUFFICES ASSUME NEW n \in tail + 1 .. tail + 1 + Capacity - 1
                 PROVE  Counters!(n)'
      BY <1>2 DEF Counters
    <3>1. CASE n = tail + Capacity
      <4>1. SlotOf(n) = SlotOf(tail) /\ n >= head
        BY <3>1, SlotAgain DEF Shape, OneLap
      <4>2. Emptying(w)' /\ pos'[w] + Capacity = n
        BY <1>2, <2>5, <3>1
      <4>3. sequence'[SlotOf(n)] = n + 1 - Capacity
        BY <2>1, <2>2, <3>1, <4>1, QueueAssumption DEF Shape
      <4> QED
        BY <2>1, <3>1, <4>1, <4>2, <4>3, QueueAssumption DEF Shape
    <3>2. CASE n # tail + Capacity
      <4>1. n \in tail .. tail + Capacity - 1
        BY <3>2, QueueAssumption DEF Shape
      <4>2. Counters!(n)
        BY <4>1 DEF Counters
      <4>3. (\E v \in Workers : Emptying(v)' /\ pos'[v] + Capacity = n)
              <=> (\E v \in Workers : Emptying(v) /\ pos[v] + Capacity = n)
        BY <1>2, <2>5, <3>2
      <4> QED
        BY <1>2, <2>1, <2>6, <4>2, <4>3
    <3> QED
      BY <3>1, <3>2
  <2>10. Found'
    <3>1. \A v \in Workers : pc'[v] = "claim" => pc[v] = "claim" /\ pos[v] # tail'
      BY <1>2, <2>1, QueueAssumption DEF Found, Shape, Threads
    <3> QED
      BY <1>2, <2>1, <2>6, <3>1, QueueAssumption DEF Found, Shape, Threads
  <2> QED
    BY <2>4, <2>8, <2>9, <2>10
<1> QED
  BY <1>1, <1>2 DEF DequeueClaim, Goto

LEMMA FreeKeepsRing ==
  ASSUME Ring, Capacity > 1, NEW w \in Workers, DequeueFree(w)
  PROVE  Ring'
<1> USE DEF Ring
<1> w \in Threads
  BY DEF Threads
<1> DEFINE k == pos[w] + Capacity
<1>1. /\ UNCHANGED <<head, tail, pos>> /\ Emptying(w)
      /\ pc' = [pc EXCEPT ![w] = "run"]
      /\ sequence' = [sequence EXCEPT ![SlotOf(pos[w])] = k]
  BY DEF DequeueFree, Goto, Emptying
<1>2. pos[w] \in Nat /\ SlotOf(pos[w]) = SlotOf(k) /\ SlotOf(k) \in SlotIndex
  BY SlotInRange, SlotAgain, QueueAssumption DEF Shape
<1>3. k \in Nat /\ head <= k /\ k \in tail .. tail + Capacity - 1
  BY <1>1, <1>2, QueueAssumption DEF Claimed, Shape, OneLap
<1>4. sequence'[SlotOf(k)] = k
  BY <1>1, <1>2 DEF Shape
<1>5. ASSUME NEW n \in tail .. tail + Capacity - 1, n # k
      PROVE  sequence'[SlotOf(n)] = sequence[SlotOf(n)]
  <2>1. SlotOf(n) # SlotOf(k)
    BY <1>3, <1>5, Window DEF Shape
  <2> QED
    BY <2>1, <1>1, <1>2 DEF Shape
<1>6. \A v \in Workers : Emptying(v)' <=> Emptying(v) /\ v # w
  BY <1>1 DEF Shape, Emptying, Threads
<1>7. \A p \in Producers : (Filling(p)' <=> Filling(p)) /\ pc'[p] = pc[p]
  BY <1>1, QueueAssumption DEF Shape, Filling, Threads
<1>8. \A v \in Workers : v # w => pc'[v] = pc[v]
  BY <1>1 DEF Shape, Threads
<1>9. Shape' /\ OneLap'
  BY <1>1, <1>2, <1>3, QueueAssumption DEF Shape, OneLap, WorkerAt, Threads
<1>10. Claimed'
  BY <1>1, <1>6, <1>7 DEF Claimed
<1>11. Counters'
  <2> SUFFICES ASSUME NEW n \in tail .. tail + Capacity - 1
               PROVE  Counters!(n)'
    BY <1>1 DEF Counters
  <2>1. CASE n = k
    <3>1. ~(\E v \in Workers : Emptying(v)' /\ pos'[v] + Capacity = k)
      <4> SUFFICES ASSUME NEW v \in Workers, Emptying(v)', pos'[v] + Capacity = k PROVE FALSE
        OBVIOUS
      <4>1. Emptying(v) /\ v # w /\ pos[v] = pos[w]
        BY <1>1, <1>6, QueueAssumption DEF Shape, Threads
      <4> QED
        BY <1>1, <4>1 DEF Claimed
    <3> QED
      BY <1>1, <1>3, <1>4, <2>1, <3>1 DEF Shape
  <2>2. CASE n # k
    <3>1. (\E v \in Workers : Emptying(v)' /\ pos'[v] + Capacity = n)
            <=> (\E v \in Workers : Emptying(v) /\ pos[v] + Capacity = n)
      BY <1>1, <1>6, <2>2
    <3>2. Counters!(n)
      BY DEF Counters
    <3> QED
      BY <1>1, <1>5, <1>7, <2>2, <3>1, <3>2
  <2> QED
    BY <2>1, <2>2
<1>12. Found'
  <2>1. sequence[SlotOf(k)] = k + 1 - Capacity
    BY <1>1, <1>3 DEF Counters, Shape
  <2>2. ASSUME NEW p \in Producers, pc'[p] = "claim", pos'[p] = head
        PROVE  sequence'[SlotOf(head)] = head
    <3>1. sequence[SlotOf(head)] = head
      BY <1>1, <1>7, <2>2 DEF Found
    <3>2. head < tail + Capacity
      BY <3>1, RoomAtHead
    <3>3. head # k
      BY <2>1, <3>1, QueueAssumption DEF Shape
    <3>4. head \in tail .. tail + Capacity - 1
      BY <3>2, QueueAssumption DEF Shape, OneLap
    <3> QED
      BY <1>5, <3>1, <3>3, <3>4
  <2>3. ASSUME NEW v \in Workers, pc'[v] = "claim", pos'[v] = tail
        PROVE  sequence'[SlotOf(tail)] = tail + 1
    <3>1. sequence[SlotOf(tail)] = tail + 1
      BY <1>1, <1>8, <2>3 DEF Found, Shape
    <3>2. tail < head /\ tail \in tail .. tail + Capacity - 1
      BY <3>1, TaskAtTail, QueueAssumption DEF Shape
    <3> QED
      BY <1>3, <1>5, <3>1, <3>2 DEF Shape
  <2>4. \A p \in Producers : pc'[p] \in {"look", "claim"} => pos'[p] <= head
    BY <1>1, <1>7 DEF Found
  <2>5. \A v \in Workers : pc'[v] \in {"look", "claim"} => pos'[v] <= tail
    BY <1>1, <1>8 DEF Found, Shape
  <2> QED
    BY <1>1, <2>2, <2>3, <2>4, <2>5 DEF Found
<1> QED
  BY <1>9, <1>10, <1>11, <1>12

LEMMA LookKeepsRing ==
  ASSUME Ring, NEW p \in Producers, EnqueueLook(p)
  PROVE  Ring'
<1> USE DEF Ring
<1> p \in Threads
  BY DEF Threads
<1>1. /\ UNCHANGED <<head, tail, sequence>> /\ pc[p] = "look"
      /\ \/ sequence[SlotOf(pos[p])] = pos[p] /\ pc' = [pc EXCEPT ![p] = "claim"] /\ UNCHANGED pos
         \/ pc' = [pc EXCEPT ![p] = "load"] /\ UNCHANGED pos
         \/ pc' = [pc EXCEPT ![p] = "idle"] /\ pos' = [pos EXCEPT ![p] = 0]
  BY DEF EnqueueLook, Leave, Goto, ring
<1>2. Shape'
  BY <1>1, QueueAssumption DEF Shape, ProducerAt, Threads
<1>3. Found'
  BY <1>1, QueueAssumption DEF Shape, Found, Threads
<1>4. \A q \in Producers : (Filling(q)' <=> Filling(q)) /\ (Filling(q) => pos'[q] = pos[q])
  BY <1>1 DEF Shape, Filling, Threads
<1>5. \A w \in Workers : (Emptying(w)' <=> Emptying(w)) /\ pos'[w] = pos[w]
  BY <1>1, QueueAssumption DEF Shape, Emptying, Threads
<1> QED
  BY <1>1, <1>2, <1>3, <1>4, <1>5, RingKept

LEMMA DequeueLookKeepsRing ==
  ASSUME Ring, NEW w \in Workers, DequeueLook(w)
  PROVE  Ring'
<1> USE DEF Ring
<1> w \in Threads
  BY DEF Threads
<1>1. /\ UNCHANGED <<head, tail, sequence>> /\ pc[w] = "look"
      /\ \/ /\ sequence[SlotOf(pos[w])] = pos[w] + 1
            /\ pc' = [pc EXCEPT ![w] = "claim"] /\ UNCHANGED pos
         \/ pc' = [pc EXCEPT ![w] = "load"] /\ UNCHANGED pos
         \/ \E l \in {"exited", "check"} :
              pc' = [pc EXCEPT ![w] = l] /\ pos' = [pos EXCEPT ![w] = 0]
  BY DEF DequeueLook, Leave, Goto, ring
<1>2. Shape'
  BY <1>1, QueueAssumption DEF Shape, WorkerAt, Threads
<1>3. Found'
  BY <1>1, QueueAssumption DEF Shape, Found, Threads
<1>4. \A p \in Producers : (Filling(p)' <=> Filling(p)) /\ pos'[p] = pos[p]
  BY <1>1, QueueAssumption DEF Shape, Filling, Threads
<1>5. \A v \in Workers : (Emptying(v)' <=> Emptying(v)) /\ (Emptying(v) => pos'[v] = pos[v])
  BY <1>1 DEF Shape, Emptying, Threads
<1> QED
  BY <1>1, <1>2, <1>3, <1>4, <1>5, RingKept

\* The other steps of a producer, of a worker and of the owner.
LEMMA OthersKeepRing ==
  ASSUME Ring,
         \/ \E p \in Producers : Submit(p) \/ EnqueueLoad(p) \/ EnqueueFill(p)
         \/ \E w \in Workers : CheckStop(w) \/ DequeueLoad(w) \/ DequeueTake(w) \/ Run(w)
         \/ (\E S \in SUBSET Workers : StartWorkers(S)) \/ StopWorkers \/ Joined
         \/ UNCHANGED vars
  PROVE  Ring'
<1> USE DEF Ring
<1>1. ASSUME NEW p \in Producers, Submit(p) \/ EnqueueLoad(p) \/ EnqueueFill(p) PROVE Ring'
  <2>1. /\ p \in Threads /\ UNCHANGED <<head, tail, sequence>>
        /\ \/ pc[p] = "idle" /\ pc' = [pc EXCEPT ![p] = "load"] /\ UNCHANGED pos
           \/ pc[p] = "load" /\ pc' = [pc EXCEPT ![p] = "look"] /\ pos' = [pos EXCEPT ![p] = head]
           \/ pc[p] = "fill" /\ pc' = [pc EXCEPT ![p] = "publish"] /\ UNCHANGED pos
    BY <1>1 DEF Submit, EnqueueLoad, EnqueueFill, Goto, ring, Threads
  <2>2. Shape' /\ Found'
    BY <2>1, QueueAssumption DEF Shape, Found, ProducerAt, Threads
  <2>3. \A q \in Producers : (Filling(q)' <=> Filling(q)) /\ (Filling(q) => pos'[q] = pos[q])
    BY <2>1 DEF Shape, Filling, Threads
  <2>4. \A w \in Workers : (Emptying(w)' <=> Emptying(w)) /\ pos'[w] = pos[w]
    BY <2>1, QueueAssumption DEF Shape, Emptying, Threads
  <2> QED
    BY <2>1, <2>2, <2>3, <2>4, RingKept
<1>2. ASSUME NEW w \in Workers, CheckStop(w) \/ DequeueLoad(w) \/ DequeueTake(w) \/ Run(w)
      PROVE  Ring'
  <2>1. /\ w \in Threads /\ UNCHANGED <<head, tail, sequence>>
        /\ \/ pc[w] = "check" /\ pc' = [pc EXCEPT ![w] = "load"] /\ UNCHANGED pos
           \/ pc[w] = "load" /\ pc' = [pc EXCEPT ![w] = "look"] /\ pos' = [pos EXCEPT ![w] = tail]
           \/ pc[w] = "take" /\ pc' = [pc EXCEPT ![w] = "free"] /\ UNCHANGED pos
           \/ /\ pc[w] = "run" /\ pos' = [pos EXCEPT ![w] = 0]
              /\ \E l \in {"load", "check"} : pc' = [pc EXCEPT ![w] = l]
    BY <1>2 DEF CheckStop, DequeueLoad, DequeueTake, Run, Leave, Goto, ring, Threads
  <2>2. Shape' /\ Found'
    BY <2>1, QueueAssumption DEF Shape, Found, WorkerAt, Threads
  <2>3. \A p \in Producers : (Filling(p)' <=> Filling(p)) /\ pos'[p] = pos[p]
    BY <2>1, QueueAssumption DEF Shape, Filling, Threads
  <2>4. \A v \in Workers : (Emptying(v)' <=> Emptying(v)) /\ (Emptying(v) => pos'[v] = pos[v])
    BY <2>1 DEF Shape, Emptying, Threads
  <2> QED
    BY <2>1, <2>2, <2>3, <2>4, RingKept
<1>3. ASSUME (\E S \in SUBSET Workers : StartWorkers(S)) \/ StopWorkers \/ Joined \/ UNCHANGED vars
      PROVE  Ring'
  <2>1. /\ UNCHANGED <<head, tail, sequence, pos>> /\ pc' \in [Threads -> ProducerAt \cup WorkerAt]
        /\ \A p \in Producers : pc'[p] = pc[p]
        /\ \A w \in Workers :
             pc'[w] = pc[w] \/ (pc[w] \in {"off", "exited"} /\ pc'[w] \in {"off", "check"})
    <3>1. ASSUME NEW S \in SUBSET Workers, StartWorkers(S) PROVE <2>1
      BY <3>1, QueueAssumption DEF Shape, StartWorkers, ring, Threads, ProducerAt, WorkerAt
    <3>2. CASE StopWorkers
      BY <3>2 DEF Shape, StopWorkers, ring
    <3>3. CASE Joined
      BY <3>3, QueueAssumption DEF Shape, Joined, ring, Threads, ProducerAt, WorkerAt
    <3>4. CASE UNCHANGED vars
      BY <3>4 DEF Shape, vars, ring
    <3> QED
      BY <1>3, <3>1, <3>2, <3>3, <3>4
  <2>2. Shape' /\ Found'
    BY <2>1, QueueAssumption DEF Shape, Found, WorkerAt, Threads
  <2>3. \A p \in Producers : Filling(p)' <=> Filling(p)
    BY <2>1 DEF Filling
  <2>4. \A w \in Workers : Emptying(w)' <=> Emptying(w)
    BY <2>1 DEF Emptying
  <2> QED
    BY <2>1, <2>2, <2>3, <2>4, RingKept
<1> QED
  BY <1>1, <1>2, <1>3

LEMMA RingNext ==
  ASSUME Ring, Capacity > 1, [Next]_vars
  PROVE  Ring'
<1>1. ASSUME NEW p \in Producers, Submit(p) \/ Produce(p) PROVE Ring'
  BY <1>1, ClaimKeepsRing, PublishKeepsRing, LookKeepsRing, OthersKeepRing DEF Produce
<1>2. ASSUME NEW w \in Workers, Work(w) PROVE Ring'
  BY <1>2, TakePositionKeepsRing, FreeKeepsRing, DequeueLookKeepsRing, OthersKeepRing DEF Work
<1> QED
  BY <1>1, <1>2, OthersKeepRing DEF Next

\* The ring never has two threads in one slot.
LEMMA RingApart == Ring => SlotHasOneThread
<1> SUFFICES ASSUME Ring, NEW s \in Threads, NEW t \in Threads, s # t, Inside(s), Inside(t),
                    SlotOf(pos[s]) = SlotOf(pos[t])
             PROVE  FALSE
  BY DEF SlotHasOneThread
<1> USE DEF Ring
<1> DEFINE at(u) == IF u \in Producers THEN pos[u] ELSE pos[u] + Capacity
<1>1. ASSUME NEW u \in Threads, Inside(u)
      PROVE  /\ at(u) \in tail .. tail + Capacity - 1
             /\ SlotOf(at(u)) = SlotOf(pos[u])
             /\ u \in Producers => Filling(u) /\ at(u) < head
             /\ u \notin Producers => u \in Workers /\ Emptying(u) /\ at(u) >= head
  <2>1. CASE u \in Producers
    <3>1. Filling(u)
      BY <1>1, <2>1 DEF Inside, Filling, Shape, ProducerAt
    <3> QED
      BY <2>1, <3>1, QueueAssumption DEF Claimed, Shape, OneLap
  <2>2. CASE u \notin Producers
    <3>1. u \in Workers /\ Emptying(u)
      BY <1>1, <2>2 DEF Inside, Emptying, Shape, WorkerAt, Threads
    <3> QED
      BY <2>2, <3>1, SlotAgain, QueueAssumption DEF Claimed, Shape, OneLap
  <2> QED
    BY <2>1, <2>2
<1>2. at(s) = at(t)
  BY <1>1, Window DEF Shape
<1>3. CASE s \in Producers /\ t \in Producers
  BY <1>1, <1>2, <1>3 DEF Claimed
<1>4. CASE s \notin Producers /\ t \notin Producers
  BY <1>1, <1>2, <1>4, QueueAssumption DEF Claimed, Shape
<1>5. CASE (s \in Producers) # (t \in Producers)
  BY <1>1, <1>2, <1>5 DEF Shape
<1> QED
  BY <1>3, <1>4, <1>5

\* With at least two slots no task is ever moved into or out of a slot by two threads at once.
THEOREM OneThreadPerSlot == Capacity > 1 /\ Spec => []SlotHasOneThread
<1> SUFFICES ASSUME Capacity > 1 PROVE Spec => []SlotHasOneThread
  OBVIOUS
<1>1. Ring /\ [Next]_vars => Ring'
  BY RingNext
<1> QED
  BY RingInit, <1>1, RingApart, PTL DEF Spec

(***************************************************************************)
(* Where the tasks are.                                                    *)
(***************************************************************************)
Content ==
  /\ slots \in [SlotIndex -> Task \cup {NoTask}]
  /\ held \in [Threads -> Task \cup {NoTask}]
  /\ submitted \in 0 .. Tasks /\ placed \subseteq 1 .. submitted /\ delivered \subseteq placed
  /\ accepted \subseteq placed /\ owed \subseteq accepted
  /\ stopFlag \in BOOLEAN /\ quiet \in BOOLEAN /\ owner \in {"idle", "running", "joining"}
  /\ draining \in [Workers -> BOOLEAN]

Trying(p) == pc[p] \in {"load", "look", "claim"}
HasTask(w) == pc[w] \in {"take", "free", "run"}

\* A task that has no position yet is with one producer; a worker without a task holds none.
Fresh ==
  /\ \A p \in Producers : Trying(p) => held[p] \in 1 .. submitted /\ held[p] \notin placed
  /\ \A p, q \in Producers : Trying(p) /\ Trying(q) /\ held[p] = held[q] => p = q
  /\ \A p \in Producers : Filling(p) => held[p] \in placed
  /\ \A w \in Workers : pc[w] \notin {"free", "run"} => held[w] = NoTask

\* A task that has a position and was not run is at one position or in one worker's hands.
OnePlace ==
  /\ \A n \in tail .. head - 1 : TaskAt(n) \in placed /\ TaskAt(n) \notin delivered
  /\ \A m, n \in tail .. head - 1 : TaskAt(m) = TaskAt(n) => m = n
  /\ \A w \in Workers : HasTask(w) => InHand[w] \in placed /\ InHand[w] \notin delivered
  /\ \A v, w \in Workers : HasTask(v) /\ HasTask(w) /\ InHand[v] = InHand[w] => v = w
  /\ \A w \in Workers : \A n \in tail .. head - 1 : HasTask(w) => InHand[w] # TaskAt(n)

Placed == Ring /\ Content /\ Fresh /\ OnePlace

\* The task of a position that is being filled is with its producer.
LEMMA TaskOfFill ==
  Ring => \A p \in Producers : pc[p] = "fill" => TaskAt(pos[p]) = held[p]
<1> SUFFICES ASSUME Ring, NEW p \in Producers, pc[p] = "fill" PROVE TaskAt(pos[p]) = held[p]
  OBVIOUS
<1> DEFINE q == CHOOSE q \in Producers : pc[q] = "fill" /\ pos[q] = pos[p]
<1>1. q \in Producers /\ pc[q] = "fill" /\ pos[q] = pos[p]
  OBVIOUS
<1> HIDE DEF q
<1>2. q = p
  BY <1>1 DEF Ring, Claimed, Filling
<1> QED
  BY <1>2 DEF TaskAt, q

\* A step that leaves all tasks where they are.
LEMMA StutterKeeps ==
  ASSUME Ring, OnePlace, UNCHANGED <<head, tail, placed, delivered>>,
         \A n \in tail .. head - 1 : TaskAt(n)' = TaskAt(n),
         \A w \in Workers : InHand'[w] = InHand[w] /\ (HasTask(w)' <=> HasTask(w))
  PROVE  OnePlace' /\ UNCHANGED <<Waiting, InHand, placed, delivered>>
<1>1. OnePlace'
  BY DEF OnePlace
<1>2. Waiting' = Waiting
  <2>1. \A i \in 1 .. head - tail : tail + i - 1 \in tail .. head - 1
    BY DEF Ring, Shape
  <2> QED
    BY <2>1 DEF Waiting
<1>3. InHand' = InHand
  BY DEF InHand
<1> QED
  BY <1>1, <1>2, <1>3

\* What a queue of the abstract specification does when the ring does nothing to it.
Stutters == UNCHANGED <<Waiting, InHand, placed, delivered>>

LEMMA PlacedInit == Init => Placed /\ Abstract!Init
<1> SUFFICES ASSUME Init PROVE Placed /\ Abstract!Init
  OBVIOUS
<1>1. Ring
  BY RingInit
<1>2. \A t \in Threads : held[t] = NoTask
  BY DEF Init
<1>3. \A p \in Producers : p \in Threads /\ pc[p] = "idle"
  BY DEF Init, Threads
<1>4. \A w \in Workers : w \in Threads /\ pc[w] = "off"
  BY QueueAssumption DEF Init, Threads
<1>5. Content
  <2>1. slots \in [SlotIndex -> Task \cup {NoTask}] /\ held \in [Threads -> Task \cup {NoTask}]
    BY DEF Init
  <2>2. submitted \in 0 .. Tasks /\ placed \subseteq 1 .. submitted
    BY QueueAssumption DEF Init
  <2> QED
    BY <2>1, <2>2 DEF Init, Content
<1>6. Fresh
  BY <1>2, <1>3, <1>4 DEF Fresh, Trying, Filling
<1>7. \A w \in Workers : ~HasTask(w) /\ InHand[w] = NoTask
  BY <1>2, <1>4 DEF HasTask, InHand
<1>8. tail .. head - 1 = {} /\ 1 .. head - tail = {}
  BY DEF Init
<1>9. OnePlace
  BY <1>7, <1>8 DEF OnePlace
<1>10. Waiting = <<>>
  BY <1>8 DEF Waiting
<1>11. InHand = [w \in Workers |-> NoTask]
  BY <1>7 DEF InHand
<1> QED
  BY <1>1, <1>5, <1>6, <1>9, <1>10, <1>11 DEF Placed, Abstract!Init, Init

\* A new task.
LEMMA SubmitStutters ==
  ASSUME Placed, Shape', NEW p \in Producers, Submit(p)
  PROVE  Content' /\ Fresh' /\ OnePlace' /\ Stutters
<1> USE DEF Placed, Ring
<1> p \in Threads
  BY DEF Threads
<1>1. /\ pc[p] = "idle" /\ submitted < Tasks /\ submitted' = submitted + 1
      /\ held' = [held EXCEPT ![p] = submitted + 1] /\ pc' = [pc EXCEPT ![p] = "load"]
      /\ UNCHANGED <<head, tail, sequence, slots, stopFlag, owner, pos, draining, placed,
                     accepted, delivered, owed, quiet>>
  BY DEF Submit, Goto, ring
<1>2. Content'
  BY <1>1, QueueAssumption DEF Content, Task
<1>3. \A t \in Threads : t # p => pc'[t] = pc[t] /\ held'[t] = held[t]
  BY <1>1 DEF Shape, Content
<1>4. \A w \in Workers : w # p /\ w \in Threads
  BY QueueAssumption DEF Threads
<1>5. Fresh'
  <2>1. held'[p] = submitted + 1 /\ submitted + 1 \notin placed /\ pc'[p] = "load"
    BY <1>1 DEF Content, Shape
  <2>2. \A q \in Producers : Trying(q)' => q = p \/ (Trying(q) /\ held'[q] = held[q])
    BY <1>3 DEF Trying, Threads
  <2>3. \A q \in Producers : Filling(q)' => Filling(q) /\ held'[q] = held[q]
    BY <1>3, <2>1 DEF Filling, Threads
  <2>4. submitted \in Nat /\ submitted' = submitted + 1 /\ placed' = placed
    BY <1>1 DEF Content
  <2>5. \A w \in Workers : pc'[w] = pc[w] /\ held'[w] = held[w]
    BY <1>3, <1>4
  <2>6. \A q, r \in Producers : Trying(q)' /\ Trying(r)' /\ held'[q] = held'[r] => q = r
    BY <2>1, <2>2, <2>4 DEF Fresh
  <2>7. \A q \in Producers : Trying(q)' => held'[q] \in 1 .. submitted' /\ held'[q] \notin placed'
    BY <2>1, <2>2, <2>4 DEF Fresh
  <2> QED
    BY <2>3, <2>4, <2>5, <2>6, <2>7 DEF Fresh
<1>6. \A n \in tail .. head - 1 : TaskAt(n)' = TaskAt(n)
  <2>1. \A q \in Producers : (pc'[q] = "fill" <=> pc[q] = "fill")
                               /\ (pc[q] = "fill" => held'[q] = held[q])
    BY <1>1, <1>3 DEF Threads, Shape
  <2>2. \A n \in Nat : TaskAt(n)' = TaskAt(n)
    BY <1>1, <2>1 DEF TaskAt
  <2> QED
    BY <2>2 DEF Shape
<1>7. \A w \in Workers : InHand'[w] = InHand[w] /\ (HasTask(w)' <=> HasTask(w))
  BY <1>1, <1>3, <1>4 DEF InHand, HasTask
<1> QED
  BY <1>1, <1>2, <1>5, <1>6, <1>7, StutterKeeps DEF Stutters

\* A producer moves on without filling a slot: it keeps its task, or leaves TryEnqueue.
LEMMA ProducerMoves ==
  ASSUME Placed, Shape', Content', NEW p \in Producers, NEW l \in ProducerAt,
         pc[p] # "fill", l # "fill", pc' = [pc EXCEPT ![p] = l],
         l # "idle" => Trying(p) /\ Trying(p)' /\ UNCHANGED held,
         UNCHANGED held \/ held' = [held EXCEPT ![p] = NoTask],
         \A t \in Threads : t # p => pos'[t] = pos[t],
         UNCHANGED <<head, tail, slots, submitted, placed, delivered>>
  PROVE  Fresh' /\ OnePlace' /\ Stutters
<1> USE DEF Placed, Ring
<1> p \in Threads
  BY DEF Threads
<1>1. \A t \in Threads : t # p => pc'[t] = pc[t] /\ held'[t] = held[t] /\ pos'[t] = pos[t]
  BY DEF Shape, Content
<1>2. pc'[p] = l
  BY DEF Shape
<1>3. \A w \in Workers : w \in Threads /\ w # p
  BY QueueAssumption DEF Threads
<1>4. \A q \in Producers : q \in Threads
  BY DEF Threads
<1>5. Fresh'
  <2>1. \A q \in Producers : Trying(q)' => Trying(q) /\ held'[q] = held[q]
    BY <1>1, <1>2, <1>4 DEF Trying
  <2>2. \A q \in Producers : Filling(q)' => Filling(q) /\ held'[q] = held[q]
    BY <1>1, <1>2, <1>4 DEF Filling, Trying
  <2>3. \A w \in Workers : pc'[w] = pc[w] /\ held'[w] = held[w]
    BY <1>1, <1>3
  <2> QED
    BY <2>1, <2>2, <2>3 DEF Fresh
<1>6. \A n \in tail .. head - 1 : TaskAt(n)' = TaskAt(n)
  <2>1. \A q \in Producers : /\ pc'[q] = "fill" <=> pc[q] = "fill"
                             /\ pc[q] = "fill" => held'[q] = held[q] /\ pos'[q] = pos[q]
    BY <1>1, <1>2, <1>4
  <2>2. \A n \in Nat : TaskAt(n)' = TaskAt(n)
    <3> SUFFICES ASSUME NEW n \in Nat PROVE TaskAt(n)' = TaskAt(n)
      OBVIOUS
    <3>1. \A q \in Producers : (pc'[q] = "fill" /\ pos'[q] = n) <=> (pc[q] = "fill" /\ pos[q] = n)
      BY <2>1
    <3>2. (CHOOSE q \in Producers : pc'[q] = "fill" /\ pos'[q] = n)
            = (CHOOSE q \in Producers : pc[q] = "fill" /\ pos[q] = n)
      BY <3>1
    <3>3. CASE \E q \in Producers : pc[q] = "fill" /\ pos[q] = n
      BY <2>1, <3>1, <3>2, <3>3 DEF TaskAt
    <3>4. CASE ~ \E q \in Producers : pc[q] = "fill" /\ pos[q] = n
      BY <3>1, <3>4 DEF TaskAt
    <3> QED
      BY <3>3, <3>4
  <2> QED
    BY <2>2 DEF Shape
<1>7. \A w \in Workers : InHand'[w] = InHand[w] /\ (HasTask(w)' <=> HasTask(w))
  BY <1>1, <1>3 DEF InHand, HasTask
<1> QED
  BY <1>5, <1>6, <1>7, StutterKeeps DEF Stutters

\* Workers move on without a change of what they have in their hands.
LEMMA WorkersMove ==
  ASSUME Placed, Content', UNCHANGED <<head, tail, slots, submitted, placed, delivered>>,
         \A p \in Producers : pc'[p] = pc[p] /\ held'[p] = held[p] /\ pos'[p] = pos[p],
         \A w \in Workers : /\ held'[w] = held[w]
                            /\ pc'[w] = "take" <=> pc[w] = "take"
                            /\ pc'[w] \in {"free", "run"} <=> pc[w] \in {"free", "run"}
                            /\ pc[w] = "take" => pos'[w] = pos[w]
  PROVE  Fresh' /\ OnePlace' /\ Stutters
<1> USE DEF Placed, Ring
<1>1. Fresh'
  BY DEF Fresh, Trying, Filling
<1>2. \A n \in tail .. head - 1 : TaskAt(n)' = TaskAt(n)
  <2> SUFFICES ASSUME NEW n \in Nat PROVE TaskAt(n)' = TaskAt(n)
    BY DEF Shape
  <2>1. \A q \in Producers : (pc'[q] = "fill" /\ pos'[q] = n) <=> (pc[q] = "fill" /\ pos[q] = n)
    OBVIOUS
  <2>2. (CHOOSE q \in Producers : pc'[q] = "fill" /\ pos'[q] = n)
          = (CHOOSE q \in Producers : pc[q] = "fill" /\ pos[q] = n)
    BY <2>1
  <2>3. CASE \E q \in Producers : pc[q] = "fill" /\ pos[q] = n
    BY <2>1, <2>2, <2>3 DEF TaskAt
  <2>4. CASE ~ \E q \in Producers : pc[q] = "fill" /\ pos[q] = n
    BY <2>1, <2>4 DEF TaskAt
  <2> QED
    BY <2>3, <2>4
<1>3. \A w \in Workers : InHand'[w] = InHand[w] /\ (HasTask(w)' <=> HasTask(w))
  BY DEF InHand, HasTask
<1> QED
  BY <1>1, <1>2, <1>3, StutterKeeps DEF Stutters

\* The task moves from the producer into the slot and stays at its position.
LEMMA FillStutters ==
  ASSUME Placed, Ring', NEW p \in Producers, EnqueueFill(p)
  PROVE  Content' /\ Fresh' /\ OnePlace' /\ Stutters
<1> USE DEF Placed, Ring
<1> p \in Threads
  BY DEF Threads
<1> DEFINE k == pos[p]
<1>1. /\ pc[p] = "fill" /\ pc' = [pc EXCEPT ![p] = "publish"]
      /\ slots' = [slots EXCEPT ![SlotOf(k)] = held[p]]
      /\ UNCHANGED <<head, tail, sequence, stopFlag, owner, pos, held, draining, submitted,
                     placed, accepted, delivered, owed, quiet>>
  BY DEF EnqueueFill, Goto, history
<1>2. k \in tail .. head - 1 /\ k \in tail .. tail + Capacity - 1 /\ SlotOf(k) \in SlotIndex
  BY <1>1, SlotInRange, QueueAssumption DEF Claimed, Filling, Shape, OneLap
<1>3. Content'
  BY <1>1 DEF Content
<1>4. \A t \in Threads : t # p => pc'[t] = pc[t]
  BY <1>1 DEF Shape
<1>5. pc'[p] = "publish"
  BY <1>1 DEF Shape
<1>6. \A w \in Workers : w \in Threads /\ w # p
  BY QueueAssumption DEF Threads
<1>7. Fresh'
  BY <1>1, <1>4, <1>5, <1>6 DEF Fresh, Trying, Filling, Threads
<1>8. ASSUME NEW n \in tail .. head - 1 PROVE TaskAt(n)' = TaskAt(n)
  <2>1. CASE n = k
    <3>1. TaskAt(n) = held[p]
      BY <1>1, <2>1, TaskOfFill
    <3>2. ~ \E q \in Producers : pc'[q] = "fill" /\ pos'[q] = n
      BY <1>1, <1>4, <1>5, <2>1 DEF Claimed, Filling, Threads
    <3>3. TaskAt(n)' = slots'[SlotOf(k)]
      BY <2>1, <3>2 DEF TaskAt
    <3> QED
      BY <1>1, <1>2, <3>1, <3>3 DEF Content
  <2>2. CASE n # k
    <3>1. \A q \in Producers : (pc'[q] = "fill" /\ pos'[q] = n) <=> (pc[q] = "fill" /\ pos[q] = n)
      BY <1>1, <1>4, <1>5, <2>2 DEF Threads
    <3>2. (CHOOSE q \in Producers : pc'[q] = "fill" /\ pos'[q] = n)
            = (CHOOSE q \in Producers : pc[q] = "fill" /\ pos[q] = n)
      BY <3>1
    <3>3. n \in tail .. tail + Capacity - 1 /\ n \in Nat
      BY QueueAssumption DEF Shape, OneLap
    <3>4. SlotOf(n) # SlotOf(k)
      BY <1>2, <2>2, <3>3, Window DEF Shape
    <3>5. slots'[SlotOf(n)] = slots[SlotOf(n)]
      BY <1>1, <3>4 DEF Content
    <3> QED
      BY <1>1, <3>1, <3>2, <3>5 DEF TaskAt
  <2> QED
    BY <2>1, <2>2
<1>9. ASSUME NEW w \in Workers
      PROVE  InHand'[w] = InHand[w] /\ (HasTask(w)' <=> HasTask(w))
  <2>1. pc'[w] = pc[w] /\ w # p
    BY <1>4, <1>6
  <2>2. ASSUME pc[w] = "take" PROVE slots'[SlotOf(pos[w])] = slots[SlotOf(pos[w])]
    <3>1. SlotOf(pos[w]) # SlotOf(k)
      BY <1>1, <1>6, <2>1, <2>2, RingApart DEF SlotHasOneThread, Inside
    <3> QED
      BY <1>1, <3>1 DEF Content
  <2> QED
    BY <1>1, <2>1, <2>2 DEF InHand, HasTask
<1> QED
  BY <1>1, <1>3, <1>7, <1>8, <1>9, StutterKeeps DEF Stutters

\* The successful compare-and-swap of a producer is Put.
LEMMA ClaimPuts ==
  ASSUME Placed, Ring', Capacity > 1, NEW p \in Producers, pc[p] = "claim", head = pos[p],
         NEW h \in Nat, head = h,
         head' = head + 1, placed' = placed \cup {held[p]}, pc' = [pc EXCEPT ![p] = "fill"],
         UNCHANGED <<tail, sequence, slots, stopFlag, owner, pos, held, draining, submitted,
                     accepted, delivered, owed, quiet>>
  PROVE  Content' /\ Fresh' /\ OnePlace' /\ Abstract!Put(held[p])
<1> USE DEF Placed, Ring
<1> p \in Threads
  BY DEF Threads
<1> DEFINE t == held[p]
<1>1. t \in 1 .. submitted /\ t \notin placed /\ t \in Task
  <2>1. t \in 1 .. submitted /\ t \notin placed
    BY DEF Fresh, Trying
  <2> HIDE DEF t
  <2> QED
    BY <2>1, QueueAssumption DEF Content, Task
<1>2. head < tail + Capacity
  <2>1. sequence[SlotOf(head)] = head
    BY DEF Found
  <2> QED
    BY <2>1, RoomAtHead
<1>3. Content'
  BY <1>1 DEF Content
<1>4. \A u \in Threads : u # p => pc'[u] = pc[u]
  BY DEF Shape
<1>5. pc'[p] = "fill"
  BY DEF Shape
<1>6. \A w \in Workers : w \in Threads /\ w # p
  BY QueueAssumption DEF Threads
<1>7. Fresh'
  <2>1. \A q \in Producers : Trying(q)' => Trying(q) /\ held[q] # t
    BY <1>4, <1>5 DEF Trying, Threads, Fresh
  <2>2. \A q \in Producers : Filling(q)' => Filling(q) \/ q = p
    BY <1>4 DEF Filling, Threads
  <2>3. \A w \in Workers : pc'[w] = pc[w]
    BY <1>4, <1>6
  <2> QED
    BY <2>1, <2>2, <2>3 DEF Fresh
<1>8. TaskAt(h)' = t
  <2> DEFINE q == CHOOSE q \in Producers : pc'[q] = "fill" /\ pos'[q] = h
  <2>1. pc'[p] = "fill" /\ pos'[p] = h
    BY <1>5
  <2>2. q \in Producers /\ pc'[q] = "fill" /\ pos'[q] = h
    BY <2>1
  <2>3. TaskAt(h)' = held'[q]
    BY <2>1 DEF TaskAt
  <2> HIDE DEF q
  <2>4. q = p
    BY <2>1, <2>2 DEF Claimed, Filling
  <2> QED
    BY <2>3, <2>4
<1>9. ASSUME NEW n \in tail .. h - 1 PROVE TaskAt(n)' = TaskAt(n)
  <2> n # h
    BY <1>9 DEF Shape
  <2>1. \A q \in Producers : (pc'[q] = "fill" /\ pos'[q] = n) <=> (pc[q] = "fill" /\ pos[q] = n)
    BY <1>4, <1>5 DEF Threads
  <2>2. (CHOOSE q \in Producers : pc'[q] = "fill" /\ pos'[q] = n)
          = (CHOOSE q \in Producers : pc[q] = "fill" /\ pos[q] = n)
    BY <2>1
  <2> QED
    BY <2>1, <2>2 DEF TaskAt
<1>10. \A w \in Workers : InHand'[w] = InHand[w] /\ (HasTask(w)' <=> HasTask(w))
  BY <1>4, <1>6 DEF InHand, HasTask
<1>11. \A n \in tail' .. head' - 1 : n = h \/ n \in tail .. h - 1
  BY DEF Shape
<1>12. OnePlace'
  <2>1. \A n \in tail .. h - 1 : TaskAt(n) # t
    BY <1>1 DEF OnePlace
  <2>2. \A w \in Workers : HasTask(w) => InHand[w] # t
    BY <1>1 DEF OnePlace
  <2>3. t \notin delivered
    BY <1>1 DEF Content
  <2>4. \A n \in tail' .. head' - 1 : TaskAt(n)' \in placed' /\ TaskAt(n)' \notin delivered'
    BY <1>8, <1>9, <1>11, <2>3 DEF OnePlace
  <2>5. \A m, n \in tail' .. head' - 1 : TaskAt(m)' = TaskAt(n)' => m = n
    BY <1>8, <1>9, <1>11, <2>1 DEF OnePlace
  <2>6. \A w \in Workers : \A n \in tail' .. head' - 1 : HasTask(w)' => InHand'[w] # TaskAt(n)'
    BY <1>8, <1>9, <1>10, <1>11, <2>2 DEF OnePlace
  <2> QED
    BY <1>10, <2>4, <2>5, <2>6 DEF OnePlace
<1>13. Waiting' = Append(Waiting, t)
  <2>1. Waiting \in [1 .. head - tail -> Task] /\ head - tail \in Nat
    <3>1. \A i \in 1 .. head - tail : tail + i - 1 \in tail .. h - 1
      BY DEF Shape
    <3>2. \A n \in tail .. h - 1 : TaskAt(n) \in Task
      <4>1. placed \subseteq Task
        BY QueueAssumption DEF Content, Task
      <4> QED
        BY <4>1 DEF OnePlace
    <3> QED
      BY <3>1, <3>2 DEF Waiting, Shape, OneLap
  <2>2. Waiting \in Seq(Task) /\ Len(Waiting) = head - tail
    BY <2>1
  <2>3. Waiting' = [i \in 1 .. head - tail + 1 |-> IF i <= head - tail THEN Waiting[i] ELSE t]
    <3>1. Waiting' = [i \in 1 .. head - tail + 1 |-> TaskAt(tail + i - 1)']
      BY DEF Waiting, Shape
    <3>2. ASSUME NEW i \in 1 .. head - tail + 1
          PROVE  TaskAt(tail + i - 1)' = IF i <= head - tail THEN Waiting[i] ELSE t
      <4>1. CASE i <= head - tail
        <5>1. tail + i - 1 \in tail .. h - 1 /\ i \in 1 .. head - tail
          BY <4>1 DEF Shape
        <5> QED
          BY <1>9, <4>1, <5>1 DEF Waiting
      <4>2. CASE ~(i <= head - tail)
        <5>1. tail' + i - 1 = h
          BY <4>2 DEF Shape
        <5> QED
          BY <1>8, <4>2, <5>1
      <4> QED
        BY <4>1, <4>2
    <3> QED
      BY <3>1, <3>2
  <2> QED
    BY <1>1, <2>1, <2>2, <2>3
<1>14. Len(Waiting) < Capacity
  <2>1. Len(Waiting) = head - tail
    BY DEF Waiting, Shape, OneLap
  <2> QED
    BY <1>2, <2>1, QueueAssumption DEF Shape
<1>15. InHand' = InHand
  BY <1>10 DEF InHand
<1> QED
  BY <1>1, <1>3, <1>7, <1>12, <1>13, <1>14, <1>15 DEF Abstract!Put

\* The tail of a sequence as a function.
LEMMA TailIs ==
  ASSUME NEW S, NEW s \in Seq(S), s # <<>>
  PROVE  Tail(s) = [i \in 1 .. Len(s) - 1 |-> s[i + 1]]
<1> DEFINE r == [i \in 1 .. Len(s) - 1 |-> s[i + 1]]
<1>1. Len(s) \in Nat \ {0} /\ \A i \in 1 .. Len(s) : s[i] \in S
  OBVIOUS
<1>2. r \in Seq(S) /\ Len(r) = Len(s) - 1
  BY <1>1
<1>3. /\ Tail(s) \in Seq(S) /\ Len(Tail(s)) = Len(s) - 1
      /\ \A i \in 1 .. Len(s) - 1 : Tail(s)[i] = s[i + 1]
  OBVIOUS
<1>4. \A i \in 1 .. Len(s) - 1 : r[i] = Tail(s)[i]
  BY <1>3
<1> HIDE DEF r
<1>5. r = Tail(s)
  BY <1>2, <1>3, <1>4, SeqEqual
<1> QED
  BY <1>5 DEF r

\* The successful compare-and-swap of a worker is Take.
LEMMA ClaimTakes ==
  ASSUME Placed, Ring', NEW w \in Workers, pc[w] = "claim", tail = pos[w],
         NEW h \in Nat, tail = h,
         tail' = h + 1, pc' = [pc EXCEPT ![w] = "take"],
         UNCHANGED <<head, sequence, slots, stopFlag, owner, pos, held, draining, history>>
  PROVE  Content' /\ Fresh' /\ OnePlace' /\ Abstract!Take(w)
<1> USE DEF Placed, Ring, history
<1> w \in Threads
  BY DEF Threads
<1> DEFINE t == TaskAt(h)
<1>1. h < head /\ h \in tail .. head - 1 /\ h \in tail .. tail + Capacity - 1
  <2>1. sequence[SlotOf(tail)] = tail + 1
    BY DEF Found
  <2>2. tail < head
    BY <2>1, TaskAtTail
  <2> QED
    BY <2>2, QueueAssumption DEF Shape
<1>2. Content'
  BY DEF Content
<1>3. \A u \in Threads : u # w => pc'[u] = pc[u]
  BY DEF Shape
<1>4. pc'[w] = "take"
  BY DEF Shape
<1>5. \A p \in Producers : p \in Threads /\ p # w
  BY QueueAssumption DEF Threads
<1>6. Fresh'
  <2>1. \A p \in Producers : pc'[p] = pc[p]
    BY <1>3, <1>5
  <2>2. \A v \in Workers : pc'[v] \notin {"free", "run"} => pc[v] \notin {"free", "run"}
    BY <1>3, <1>4 DEF Threads
  <2> QED
    BY <2>1, <2>2 DEF Fresh, Trying, Filling
<1>7. t = slots[SlotOf(h)]
  <2>1. ~ \E p \in Producers : pc[p] = "fill" /\ pos[p] = h
    <3> SUFFICES ASSUME NEW p \in Producers, pc[p] = "fill", pos[p] = h PROVE FALSE
      OBVIOUS
    <3>1. sequence[SlotOf(h)] = h
      BY <1>1 DEF Counters, Filling
    <3>2. sequence[SlotOf(h)] = h + 1
      BY DEF Found
    <3> QED
      BY <3>1, <3>2
  <2> QED
    BY <2>1 DEF TaskAt
<1> HIDE DEF t
<1>8. InHand'[w] = t /\ InHand[w] = NoTask /\ ~HasTask(w) /\ HasTask(w)'
  BY <1>4, <1>7 DEF InHand, HasTask, Fresh
<1>9. \A v \in Workers : v # w => InHand'[v] = InHand[v] /\ (HasTask(v)' <=> HasTask(v))
  BY <1>3 DEF InHand, HasTask, Threads
<1>10. ASSUME NEW n \in Nat PROVE TaskAt(n)' = TaskAt(n)
  <2>1. \A q \in Producers : (pc'[q] = "fill" /\ pos'[q] = n) <=> (pc[q] = "fill" /\ pos[q] = n)
    BY <1>3, <1>5
  <2>2. (CHOOSE q \in Producers : pc'[q] = "fill" /\ pos'[q] = n)
          = (CHOOSE q \in Producers : pc[q] = "fill" /\ pos[q] = n)
    BY <2>1
  <2> QED
    BY <2>1, <2>2 DEF TaskAt
<1>11. \A n \in tail' .. head' - 1 : n \in Nat /\ n \in tail .. head - 1 /\ n # h
  BY DEF Shape
<1>12. OnePlace'
  <2>1. t \in placed /\ t \notin delivered
    BY <1>1 DEF OnePlace, t
  <2>2. \A n \in tail .. head - 1 : n # h => TaskAt(n) # t
    BY <1>1 DEF OnePlace, t
  <2>3. \A v \in Workers : HasTask(v) => InHand[v] # t
    BY <1>1 DEF OnePlace, t
  <2>4. \A n \in tail' .. head' - 1 : TaskAt(n)' \in placed' /\ TaskAt(n)' \notin delivered'
    BY <1>10, <1>11 DEF OnePlace
  <2>5. \A m, n \in tail' .. head' - 1 : TaskAt(m)' = TaskAt(n)' => m = n
    BY <1>10, <1>11 DEF OnePlace
  <2>6. \A v \in Workers : HasTask(v)' => InHand'[v] \in placed' /\ InHand'[v] \notin delivered'
    BY <1>8, <1>9, <2>1 DEF OnePlace
  <2>7. \A u, v \in Workers : HasTask(u)' /\ HasTask(v)' /\ InHand'[u] = InHand'[v] => u = v
    BY <1>8, <1>9, <2>3 DEF OnePlace
  <2>8. \A v \in Workers : \A n \in tail' .. head' - 1 : HasTask(v)' => InHand'[v] # TaskAt(n)'
    BY <1>8, <1>9, <1>10, <1>11, <2>2 DEF OnePlace
  <2> QED
    BY <2>4, <2>5, <2>6, <2>7, <2>8 DEF OnePlace
<1>13. /\ Waiting \in Seq(Task) /\ Len(Waiting) = head - tail /\ Waiting # <<>>
       /\ Head(Waiting) = t
  <2>1. Waiting \in [1 .. head - tail -> Task] /\ head - tail \in Nat \ {0}
    <3>1. \A i \in 1 .. head - tail : tail + i - 1 \in tail .. head - 1
      BY DEF Shape
    <3>2. \A n \in tail .. head - 1 : TaskAt(n) \in Task
      <4>1. placed \subseteq Task
        BY QueueAssumption DEF Content, Task
      <4> QED
        BY <4>1 DEF OnePlace
    <3> QED
      BY <1>1, <3>1, <3>2 DEF Waiting, Shape, OneLap
  <2>2. Waiting \in Seq(Task) /\ Len(Waiting) = head - tail
    BY <2>1
  <2>3. Waiting[1] = TaskAt(tail + 1 - 1) /\ tail + 1 - 1 = h
    BY <2>1 DEF Waiting, Shape
  <2> QED
    BY <2>1, <2>2, <2>3 DEF t
<1>14. Waiting' = Tail(Waiting)
  <2>0. head' - tail' = head - h - 1 /\ head - tail = head - h /\ head - h \in Nat \ {0}
    BY <1>1 DEF Shape
  <2>1. Waiting' = [i \in 1 .. head - h - 1 |-> TaskAt(tail + i - 1)']
    BY <2>0 DEF Waiting
  <2>2. Tail(Waiting) = [i \in 1 .. head - h - 1 |-> Waiting[i + 1]]
    <3>1. Tail(Waiting) = [i \in 1 .. Len(Waiting) - 1 |-> Waiting[i + 1]]
      BY <1>13, TailIs
    <3> QED
      BY <1>13, <2>0, <3>1
  <2>3. ASSUME NEW i \in 1 .. head - h - 1
        PROVE  TaskAt(tail + i - 1)' = Waiting[i + 1]
    <3>1. i + 1 \in 1 .. head - tail /\ tail' + i - 1 = h + i /\ h + i \in Nat
      BY <2>0
    <3>2. Waiting[i + 1] = TaskAt(h + i)
      BY <3>1 DEF Waiting, Shape
    <3>3. TaskAt(h + i)' = TaskAt(h + i)
      BY <1>10, <3>1
    <3> QED
      BY <3>1, <3>2, <3>3
  <2> QED
    BY <2>1, <2>2, <2>3
<1>15. InHand' = [InHand EXCEPT ![w] = Head(Waiting)]
  BY <1>8, <1>9, <1>13 DEF InHand
<1> QED
  BY <1>2, <1>6, <1>8, <1>12, <1>13, <1>14, <1>15 DEF Abstract!Take

\* The task moves from the slot to the worker that owns it.
LEMMA TakeStutters ==
  ASSUME Placed, Ring', NEW w \in Workers, DequeueTake(w)
  PROVE  Content' /\ Fresh' /\ OnePlace' /\ Stutters
<1> USE DEF Placed, Ring
<1> w \in Threads
  BY DEF Threads
<1> DEFINE k == pos[w]
<1>1. /\ pc[w] = "take" /\ pc' = [pc EXCEPT ![w] = "free"]
      /\ held' = [held EXCEPT ![w] = slots[SlotOf(k)]]
      /\ slots' = [slots EXCEPT ![SlotOf(k)] = NoTask]
      /\ UNCHANGED <<head, tail, sequence, stopFlag, owner, pos, draining, submitted,
                     placed, accepted, delivered, owed, quiet>>
  BY DEF DequeueTake, Goto, history
<1>2. /\ k + Capacity \in tail .. tail + Capacity - 1 /\ head <= k + Capacity
      /\ SlotOf(k + Capacity) = SlotOf(k) /\ SlotOf(k) \in SlotIndex
  BY <1>1, SlotInRange, SlotAgain, QueueAssumption DEF Claimed, Emptying, Shape, OneLap
<1>3. Content'
  BY <1>1, <1>2 DEF Content
<1>4. \A t \in Threads : t # w => pc'[t] = pc[t] /\ held'[t] = held[t]
  BY <1>1 DEF Shape, Content
<1>5. pc'[w] = "free" /\ held'[w] = slots[SlotOf(k)]
  BY <1>1 DEF Shape, Content
<1>6. \A p \in Producers : pc'[p] = pc[p] /\ held'[p] = held[p]
  BY <1>4, QueueAssumption DEF Threads
<1>7. Fresh'
  BY <1>1, <1>4, <1>5, <1>6 DEF Fresh, Trying, Filling, Threads
<1>8. ASSUME NEW n \in tail .. head - 1 PROVE TaskAt(n)' = TaskAt(n)
  <2>1. \A q \in Producers : (pc'[q] = "fill" /\ pos'[q] = n) <=> (pc[q] = "fill" /\ pos[q] = n)
    BY <1>1, <1>6
  <2>2. (CHOOSE q \in Producers : pc'[q] = "fill" /\ pos'[q] = n)
          = (CHOOSE q \in Producers : pc[q] = "fill" /\ pos[q] = n)
    BY <2>1
  <2>3. n \in tail .. tail + Capacity - 1 /\ n # k + Capacity
    BY <1>2, QueueAssumption DEF Shape, OneLap
  <2>4. SlotOf(n) # SlotOf(k)
    BY <1>2, <2>3, Window DEF Shape
  <2>5. slots'[SlotOf(n)] = slots[SlotOf(n)]
    BY <1>1, <2>4 DEF Content
  <2>6. CASE \E q \in Producers : pc[q] = "fill" /\ pos[q] = n
    <3> DEFINE f == CHOOSE q \in Producers : pc[q] = "fill" /\ pos[q] = n
    <3>1. f \in Producers
      BY <2>6
    <3>2. TaskAt(n) = held[f]
      BY <2>6 DEF TaskAt
    <3>3. TaskAt(n)' = held'[f]
      BY <2>1, <2>2, <2>6 DEF TaskAt
    <3> QED
      BY <1>6, <3>1, <3>2, <3>3
  <2>7. CASE ~ \E q \in Producers : pc[q] = "fill" /\ pos[q] = n
    BY <2>1, <2>5, <2>7 DEF TaskAt
  <2> QED
    BY <2>6, <2>7
<1>9. ASSUME NEW v \in Workers
      PROVE  InHand'[v] = InHand[v] /\ (HasTask(v)' <=> HasTask(v))
  <2>1. CASE v = w
    BY <1>1, <1>5, <2>1 DEF InHand, HasTask
  <2>2. CASE v # w
    <3>1. pc'[v] = pc[v] /\ held'[v] = held[v]
      BY <1>4, <2>2 DEF Threads
    <3>2. ASSUME pc[v] = "take" PROVE slots'[SlotOf(pos[v])] = slots[SlotOf(pos[v])]
      <4>1. SlotOf(pos[v]) # SlotOf(k)
        BY <1>1, <2>2, <3>2, RingApart DEF SlotHasOneThread, Inside, Threads
      <4> QED
        BY <1>1, <4>1 DEF Content
    <3> QED
      BY <1>1, <3>1, <3>2 DEF InHand, HasTask
  <2> QED
    BY <2>1, <2>2
<1> QED
  BY <1>1, <1>3, <1>7, <1>8, <1>9, StutterKeeps DEF Stutters

\* Running the task is Deliver.
LEMMA RunDelivers ==
  ASSUME Placed, Ring', NEW w \in Workers, Run(w)
  PROVE  Content' /\ Fresh' /\ OnePlace' /\ Abstract!Deliver(w)
<1> USE DEF Placed, Ring
<1> w \in Threads
  BY DEF Threads
<1> DEFINE t == held[w]
<1>1. /\ pc[w] = "run" /\ delivered' = delivered \cup {t}
      /\ held' = [held EXCEPT ![w] = NoTask] /\ pos' = [pos EXCEPT ![w] = 0]
      /\ \E l \in {"load", "check"} : pc' = [pc EXCEPT ![w] = l]
      /\ UNCHANGED <<head, tail, sequence, slots, stopFlag, owner, draining, submitted,
                     placed, accepted, owed, quiet>>
  BY DEF Run, Leave, Goto, ring
<1>2. InHand[w] = t /\ HasTask(w) /\ t \in placed /\ t \notin delivered
  BY <1>1 DEF InHand, HasTask, OnePlace
<1>3. t # NoTask
  BY <1>2 DEF Content, NoTask
<1>4. Content'
  BY <1>1, <1>2 DEF Content
<1>5. \A u \in Threads : u # w => pc'[u] = pc[u] /\ held'[u] = held[u] /\ pos'[u] = pos[u]
  BY <1>1 DEF Shape, Content
<1>6. pc'[w] \in {"load", "check"} /\ held'[w] = NoTask
  BY <1>1 DEF Shape, Content
<1>7. \A p \in Producers : pc'[p] = pc[p] /\ held'[p] = held[p] /\ pos'[p] = pos[p]
  BY <1>5, QueueAssumption DEF Threads
<1>8. Fresh'
  BY <1>1, <1>5, <1>6, <1>7 DEF Fresh, Trying, Filling, Threads
<1>9. InHand'[w] = NoTask /\ ~HasTask(w)'
  BY <1>6 DEF InHand, HasTask
<1>10. \A v \in Workers : v # w => InHand'[v] = InHand[v] /\ (HasTask(v)' <=> HasTask(v))
  BY <1>1, <1>5 DEF InHand, HasTask, Threads
<1>11. ASSUME NEW n \in tail .. head - 1 PROVE TaskAt(n)' = TaskAt(n)
  <2>1. \A q \in Producers : (pc'[q] = "fill" /\ pos'[q] = n) <=> (pc[q] = "fill" /\ pos[q] = n)
    BY <1>7
  <2>2. (CHOOSE q \in Producers : pc'[q] = "fill" /\ pos'[q] = n)
          = (CHOOSE q \in Producers : pc[q] = "fill" /\ pos[q] = n)
    BY <2>1
  <2>3. CASE \E q \in Producers : pc[q] = "fill" /\ pos[q] = n
    <3> DEFINE f == CHOOSE q \in Producers : pc[q] = "fill" /\ pos[q] = n
    <3>1. f \in Producers
      BY <2>3
    <3>2. TaskAt(n) = held[f]
      BY <2>3 DEF TaskAt
    <3>3. TaskAt(n)' = held'[f]
      BY <2>1, <2>2, <2>3 DEF TaskAt
    <3> QED
      BY <1>7, <3>1, <3>2, <3>3
  <2>4. CASE ~ \E q \in Producers : pc[q] = "fill" /\ pos[q] = n
    BY <1>1, <2>1, <2>4 DEF TaskAt
  <2> QED
    BY <2>3, <2>4
<1>12. OnePlace'
  <2>1. \A n \in tail .. head - 1 : TaskAt(n) # t
    BY <1>2 DEF OnePlace
  <2>2. \A v \in Workers : v # w /\ HasTask(v) => InHand[v] # t
    BY <1>2 DEF OnePlace
  <2> QED
    BY <1>1, <1>9, <1>10, <1>11, <2>1, <2>2 DEF OnePlace
<1>13. Waiting' = Waiting
  <2>1. \A i \in 1 .. head - tail : tail + i - 1 \in tail .. head - 1
    BY DEF Shape
  <2> QED
    BY <1>1, <1>11, <2>1 DEF Waiting
<1>14. InHand' = [InHand EXCEPT ![w] = NoTask]
  BY <1>9, <1>10 DEF InHand
<1> QED
  BY <1>1, <1>2, <1>3, <1>4, <1>8, <1>12, <1>13, <1>14 DEF Abstract!Deliver

(***************************************************************************)
(* Every step of the ring is a step of the queue, or none.                 *)
(***************************************************************************)
LEMMA ProducerImplements ==
  ASSUME Placed, Ring', Capacity > 1, NEW p \in Producers, Submit(p) \/ Produce(p)
  PROVE  Placed' /\ (Stutters \/ Abstract!Next)
<1> USE DEF Placed
<1> p \in Threads
  BY DEF Threads
<1> Shape'
  BY DEF Ring
<1>1. CASE Submit(p)
  BY <1>1, SubmitStutters
<1>2. ASSUME EnqueueLoad(p) \/ EnqueueLook(p) PROVE Placed' /\ Stutters
  <2>1. /\ UNCHANGED <<ring, stopFlag, owner, draining, history>> /\ pc[p] \in {"load", "look"}
        /\ \/ UNCHANGED held /\ \E l \in {"look", "claim", "load"} : pc' = [pc EXCEPT ![p] = l]
           \/ pc' = [pc EXCEPT ![p] = "idle"] /\ held' = [held EXCEPT ![p] = NoTask]
        /\ UNCHANGED pos \/ \E n \in Nat : pos' = [pos EXCEPT ![p] = n]
    BY <1>2 DEF EnqueueLoad, EnqueueLook, Leave, Goto, Ring, Shape
  <2>2. Content'
    BY <2>1 DEF Content, ring, history
  <2>3. \A t \in Threads : t # p => pos'[t] = pos[t]
    BY <2>1 DEF Ring, Shape
  <2>4. UNCHANGED <<head, tail, slots, submitted, placed, delivered>> /\ pc[p] # "fill"
    BY <2>1 DEF ring, history
  <2>5. UNCHANGED held \/ held' = [held EXCEPT ![p] = NoTask]
    BY <2>1
  <2>6. PICK l \in {"look", "claim", "load", "idle"} :
          pc' = [pc EXCEPT ![p] = l] /\ (l # "idle" => UNCHANGED held)
    BY <2>1
  <2>7. l # "idle" => Trying(p) /\ Trying(p)' /\ UNCHANGED held
    BY <2>1, <2>6 DEF Trying, Ring, Shape
  <2>8. l \in ProducerAt /\ l # "fill"
    BY <2>6 DEF ProducerAt
  <2> QED
    BY <2>2, <2>3, <2>4, <2>5, <2>6, <2>7, <2>8, ProducerMoves
<1>3. ASSUME EnqueueClaim(p) PROVE Placed' /\ (Stutters \/ Abstract!Next)
  <2>1. CASE head = pos[p]
    <3>1. /\ pc[p] = "claim" /\ head' = head + 1 /\ placed' = placed \cup {held[p]}
          /\ pc' = [pc EXCEPT ![p] = "fill"]
          /\ UNCHANGED <<tail, sequence, slots, stopFlag, owner, pos, held, draining, submitted,
                         accepted, delivered, owed, quiet>>
      BY <1>3, <2>1 DEF EnqueueClaim, Goto
    <3>2. PICK h \in Nat : head = h
      BY DEF Ring, Shape
    <3>3. Content' /\ Fresh' /\ OnePlace' /\ Abstract!Put(held[p])
      BY <2>1, <3>1, <3>2, ClaimPuts
    <3>4. held[p] \in Task
      BY <3>1, QueueAssumption DEF Fresh, Trying, Content, Task
    <3> QED
      BY <3>3, <3>4 DEF Abstract!Next
  <2>2. CASE head # pos[p]
    <3>1. /\ pc[p] = "claim" /\ pc' = [pc EXCEPT ![p] = "look"] /\ pos' = [pos EXCEPT ![p] = head]
          /\ UNCHANGED <<head, tail, sequence, slots, stopFlag, owner, held, draining, submitted,
                         placed, accepted, delivered, owed, quiet>>
      BY <1>3, <2>2 DEF EnqueueClaim, Goto
    <3>2. Content'
      BY <3>1 DEF Content
    <3>3. Trying(p) /\ Trying(p)' /\ "look" \in ProducerAt
      BY <3>1 DEF Trying, ProducerAt, Ring, Shape
    <3>4. \A t \in Threads : t # p => pos'[t] = pos[t]
      BY <3>1 DEF Ring, Shape
    <3> QED
      BY <3>1, <3>2, <3>3, <3>4, ProducerMoves
  <2> QED
    BY <2>1, <2>2
<1>4. CASE EnqueueFill(p)
  BY <1>4, FillStutters
<1>5. ASSUME EnqueuePublish(p) PROVE Placed' /\ Stutters
  <2>1. /\ pc[p] = "publish" /\ pc' = [pc EXCEPT ![p] = "idle"] /\ pos' = [pos EXCEPT ![p] = 0]
        /\ held' = [held EXCEPT ![p] = NoTask] /\ accepted' = accepted \cup {held[p]}
        /\ UNCHANGED <<head, tail, slots, stopFlag, owner, draining, submitted, placed,
                       delivered, owed, quiet>>
    BY <1>5 DEF EnqueuePublish, Leave, Goto
  <2>2. Content'
    BY <2>1 DEF Content, Fresh, Filling
  <2>3. \A t \in Threads : t # p => pos'[t] = pos[t]
    BY <2>1 DEF Ring, Shape
  <2>4. "idle" \in ProducerAt
    BY DEF ProducerAt
  <2> QED
    BY <2>1, <2>2, <2>3, <2>4, ProducerMoves
<1> QED
  BY <1>1, <1>2, <1>3, <1>4, <1>5 DEF Produce

LEMMA WorkerImplements ==
  ASSUME Placed, Ring', NEW w \in Workers, Work(w)
  PROVE  Placed' /\ (Stutters \/ Abstract!Next)
<1> USE DEF Placed
<1> w \in Threads
  BY DEF Threads
<1>1. ASSUME CheckStop(w) \/ DequeueLoad(w) \/ DequeueLook(w) \/ DequeueFree(w)
                 \/ (DequeueClaim(w) /\ tail # pos[w])
      PROVE  Placed' /\ Stutters
  <2>1. /\ UNCHANGED <<head, tail, slots, stopFlag, owner, history>>
        /\ UNCHANGED held \/ (pc[w] = "look" /\ held' = [held EXCEPT ![w] = NoTask])
        /\ UNCHANGED draining \/ draining' = [draining EXCEPT ![w] = stopFlag]
        /\ \/ pc[w] \in {"check", "load", "look", "claim"}
              /\ \E l \in {"load", "look", "claim", "exited", "check"} : pc' = [pc EXCEPT ![w] = l]
           \/ pc[w] = "free" /\ pc' = [pc EXCEPT ![w] = "run"]
        /\ UNCHANGED pos \/ \E n \in Nat : pos' = [pos EXCEPT ![w] = n]
    BY <1>1 DEF CheckStop, DequeueLoad, DequeueLook, DequeueFree, DequeueClaim, Leave, Goto, ring,
                Ring, Shape
  <2>2. UNCHANGED held
    BY <2>1 DEF Fresh, Content
  <2>3. Content'
    BY <2>1, <2>2 DEF Content, history
  <2>4. \A p \in Producers : pc'[p] = pc[p] /\ held'[p] = held[p] /\ pos'[p] = pos[p]
    BY <2>1, <2>2, QueueAssumption DEF Ring, Shape, Threads
  <2>5. \A v \in Workers : /\ held'[v] = held[v]
                           /\ pc'[v] = "take" <=> pc[v] = "take"
                           /\ pc'[v] \in {"free", "run"} <=> pc[v] \in {"free", "run"}
                           /\ pc[v] = "take" => pos'[v] = pos[v]
    BY <2>1, <2>2 DEF Ring, Shape, Threads
  <2>6. UNCHANGED <<head, tail, slots, submitted, placed, delivered>>
    BY <2>1 DEF history
  <2> QED
    BY <2>3, <2>4, <2>5, <2>6, WorkersMove
<1>2. ASSUME DequeueClaim(w), tail = pos[w] PROVE Placed' /\ Abstract!Next
  <2>1. PICK h \in Nat : tail = h
    BY DEF Ring, Shape
  <2>2. /\ pc[w] = "claim" /\ tail' = h + 1 /\ pc' = [pc EXCEPT ![w] = "take"]
        /\ UNCHANGED <<head, sequence, slots, stopFlag, owner, pos, held, draining, history>>
    BY <1>2, <2>1 DEF DequeueClaim, Goto
  <2> QED
    BY <1>2, <2>1, <2>2, ClaimTakes DEF Abstract!Next
<1>3. CASE DequeueTake(w)
  BY <1>3, TakeStutters
<1>4. CASE Run(w)
  BY <1>4, RunDelivers DEF Abstract!Next
<1> QED
  BY <1>1, <1>2, <1>3, <1>4 DEF Work

LEMMA OwnerImplements ==
  ASSUME Placed, Ring',
         (\E S \in SUBSET Workers : StartWorkers(S)) \/ StopWorkers \/ Joined \/ UNCHANGED vars
  PROVE  Placed' /\ Stutters
<1> USE DEF Placed
<1>1. /\ UNCHANGED <<head, tail, slots, submitted, placed, delivered, held, pos>> /\ Content'
      /\ \A p \in Producers : pc'[p] = pc[p]
      /\ \A w \in Workers :
           pc'[w] = pc[w] \/ (pc[w] \in {"off", "exited"} /\ pc'[w] \in {"off", "check"})
  <2>1. ASSUME NEW S \in SUBSET Workers, StartWorkers(S) PROVE <1>1
    BY <2>1, QueueAssumption DEF StartWorkers, ring, Content, Ring, Shape, Threads
  <2>2. CASE StopWorkers
    BY <2>2 DEF StopWorkers, ring, Content
  <2>3. CASE Joined
    BY <2>3, QueueAssumption DEF Joined, ring, history, Content, Ring, Shape, Threads
  <2>4. CASE UNCHANGED vars
    BY <2>4 DEF vars, ring, history, Content
  <2> QED
    BY <2>1, <2>2, <2>3, <2>4
<1> QED
  BY <1>1, WorkersMove

LEMMA PlacedNext ==
  ASSUME Placed, Capacity > 1, [Next]_vars
  PROVE  Placed' /\ (Stutters \/ Abstract!Next)
<1>1. Ring'
  BY RingNext DEF Placed
<1> QED
  BY <1>1, ProducerImplements, WorkerImplements, OwnerImplements DEF Next

\* For any number of threads, tasks and slots (at least two) the ring is a bounded FIFO: each
\* accepted task is taken once, in the order of the positions, by one worker.
THEOREM RingIsQueue == Capacity > 1 /\ Spec => Implements
<1> SUFFICES ASSUME Capacity > 1 PROVE Spec => Implements
  OBVIOUS
<1>1. Placed /\ [Next]_vars => Placed' /\ [Abstract!Next]_(Abstract!vars)
  BY PlacedNext DEF Stutters, Abstract!vars
<1> QED
  BY PlacedInit, <1>1, PTL DEF Spec, Implements, Abstract!Spec

\* Its state keeps its types.
THEOREM TypesCorrect == Capacity > 1 /\ Spec => []TypeOK
<1> SUFFICES ASSUME Capacity > 1 PROVE Spec => []TypeOK
  OBVIOUS
<1>1. Placed /\ [Next]_vars => Placed'
  BY PlacedNext
<1>2. Placed => TypeOK
  BY DEF Placed, Ring, Shape, Content, TypeOK
<1> QED
  BY PlacedInit, <1>1, <1>2, PTL DEF Spec

(***************************************************************************)
(* The drain at a stop.                                                    *)
(***************************************************************************)
\* What the owner knows of its workers.
Controlled ==
  /\ stopFlag => owner # "running"
  /\ owner = "idle" => \A w \in Workers : pc[w] = "off"
  /\ owner # "idle" => \E w \in Workers : pc[w] # "off"
  /\ \A w \in Workers : draining[w] \/ pc[w] = "exited" => owner = "joining"

\* A task with a position that was not run waits or is in a worker's hands.
Accounted ==
  \A t \in placed : \/ t \in delivered
                    \/ \E i \in 1 .. head - tail : Waiting[i] = t
                    \/ \E w \in Workers : InHand[w] = t

\* While a stop that found no half-published position is under way, the tasks it owes wait
\* before every position that is being filled, and none waits once a worker has left.
Owing ==
  quiet /\ owner = "joining" =>
    /\ \A i \in 1 .. head - tail : Waiting[i] \in owed =>
         \A p \in Producers : Filling(p) => tail + i <= pos[p]
    /\ (\E w \in Workers : pc[w] = "exited") => \A i \in 1 .. head - tail : Waiting[i] \notin owed

WaitingOK ==
  /\ head \in Nat /\ tail \in Nat /\ head - tail \in Nat
  /\ Waiting \in Seq(Task) /\ Len(Waiting) = head - tail
  /\ \A i \in 1 .. head - tail : Waiting[i] \in placed

LEMMA WaitingIs == Placed => WaitingOK
<1> SUFFICES ASSUME Placed PROVE WaitingOK
  OBVIOUS
<1> USE DEF Placed, Ring, WaitingOK
<1>1. \A i \in 1 .. head - tail : tail + i - 1 \in tail .. head - 1
  BY DEF Shape
<1>2. \A i \in 1 .. head - tail : TaskAt(tail + i - 1) \in placed
  BY <1>1 DEF OnePlace
<1>3. placed \subseteq Task
  BY QueueAssumption DEF Content, Task
<1>4. head \in Nat /\ tail \in Nat /\ head - tail \in Nat
  BY DEF Shape, OneLap
<1>5. Waiting = [i \in 1 .. head - tail |-> TaskAt(tail + i - 1)]
  BY DEF Waiting
<1> HIDE DEF Placed, Ring
<1>6. \A i \in 1 .. head - tail : Waiting[i] \in placed /\ Waiting[i] \in Task
  BY <1>2, <1>3, <1>5
<1>7. Waiting \in [1 .. head - tail -> Task]
  BY <1>5, <1>6
<1>8. Waiting \in Seq(Task) /\ Len(Waiting) = head - tail
  BY <1>4, <1>7
<1> QED
  BY <1>4, <1>6, <1>8

LEMMA WaitingNext == Placed' => WaitingOK'
  BY WaitingIs, PTL

\* Every slot has a position in the window; one that lies behind the tail comes again at
\* least a lap later.
LEMMA ComesAgain ==
  ASSUME NEW t \in Nat, NEW n \in Nat, n < t
  PROVE  \E m \in t .. t + Capacity - 1 : SlotOf(m) = SlotOf(n) /\ n + Capacity <= m
<1> DEFINE i == n % Capacity
           r == t % Capacity
           q == t \div Capacity
<1>1. i \in 0 .. Capacity - 1 /\ r \in 0 .. Capacity - 1
  BY SlotInRange DEF SlotOf, SlotIndex
<1>2. q \in Nat /\ t = Capacity * q + r
  BY Division
<1>3. Capacity * (q + 1) = Capacity * q + Capacity /\ Capacity * q \in Nat
  BY <1>2, QueueAssumption
<1> HIDE DEF q, r, i
<1>4. \E m \in t .. t + Capacity - 1 : m % Capacity = i
  <2>1. CASE r <= i
    <3>1. t + (i - r) = Capacity * q + i
      BY <1>1, <1>2, <1>3, QueueAssumption
    <3>2. i = (t + (i - r)) % Capacity
      BY <1>1, <1>2, <3>1, Division
    <3> QED
      BY <1>1, <2>1, <3>2, QueueAssumption
  <2>2. CASE i < r
    <3>1. t + (Capacity + i - r) = Capacity * (q + 1) + i
      BY <1>1, <1>2, <1>3, QueueAssumption
    <3>2. i = (t + (Capacity + i - r)) % Capacity
      BY <1>1, <1>2, <3>1, Division, QueueAssumption
    <3> QED
      BY <1>1, <2>2, <3>2, QueueAssumption
  <2> QED
    BY <1>1, <2>1, <2>2, QueueAssumption
<1>5. PICK m \in t .. t + Capacity - 1 : m % Capacity = i
  BY <1>4
<1>6. SlotOf(m) = SlotOf(n) /\ m \in Nat
  BY <1>5, QueueAssumption DEF SlotOf, i
<1>7. ~(m < n + Capacity)
  BY <1>6, SlotsDiffer, QueueAssumption
<1> QED
  BY <1>5, <1>6, <1>7, QueueAssumption

\* A worker that finds nothing to take at its position finds the ring empty, or the oldest
\* position being filled.
LEMMA NothingToTake ==
  ASSUME Ring, Capacity > 1, NEW w \in Workers, pc[w] = "look",
         sequence[SlotOf(pos[w])] < pos[w] + 1
  PROVE  head = tail \/ \E p \in Producers : Filling(p) /\ pos[p] = tail
<1> USE DEF Ring
<1>1. pos[w] \in Nat /\ tail \in Nat /\ head \in Nat /\ pos[w] <= tail
  BY DEF Shape, Found, Threads
<1>2. CASE pos[w] < tail
  <2>1. PICK m \in tail .. tail + Capacity - 1 :
          SlotOf(m) = SlotOf(pos[w]) /\ pos[w] + Capacity <= m
    BY <1>1, <1>2, ComesAgain
  <2>2. sequence[SlotOf(m)] \in {m, m + 1, m + 1 - Capacity}
    BY <1>1, <2>1, QueueAssumption DEF Counters
  <2> QED
    BY <1>1, <2>1, <2>2, QueueAssumption
<1>3. CASE pos[w] = tail
  <2>1. tail \in tail .. tail + Capacity - 1
    BY <1>1, QueueAssumption
  <2>2. tail < head /\ ~(\E p \in Producers : Filling(p) /\ pos[p] = tail)
          => sequence[SlotOf(tail)] = tail + 1
    BY <2>1 DEF Counters
  <2> QED
    BY <1>1, <1>3, <2>2 DEF OneLap
<1> QED
  BY <1>1, <1>2, <1>3

\* What a step does to the counters, to the claimed positions and to the workers that left.
Counted ==
  /\ \/ UNCHANGED <<head, tail>>
     \/ head' = head + 1 /\ UNCHANGED tail
     \/ tail' = tail + 1 /\ UNCHANGED head
  /\ \A p \in Producers : Filling(p)' =>
       (Filling(p) /\ pos'[p] = pos[p]) \/ (head' = head + 1 /\ pos'[p] = head)

LEMMA ThreadsCount ==
  ASSUME Ring, (\E p \in Producers : Submit(p) \/ Produce(p)) \/ (\E w \in Workers : Work(w))
  PROVE  Counted /\ UNCHANGED <<stopFlag, owner, owed, quiet>>
<1> USE DEF Ring
<1>1. ASSUME NEW p \in Producers, Submit(p) \/ Produce(p) PROVE Counted /\ UNCHANGED <<stopFlag, owner, owed, quiet>>
  <2>1. p \in Threads /\ \A q \in Producers : q \in Threads
    BY DEF Threads
  <2>2. UNCHANGED <<tail, stopFlag, owner, owed, quiet>>
    BY <1>1 DEF Submit, Produce, EnqueueLoad, EnqueueLook, EnqueueClaim, EnqueueFill,
                EnqueuePublish, ring, history
  <2>3. \/ /\ UNCHANGED head /\ \E l \in {"load", "look", "claim", "idle"} : pc' = [pc EXCEPT ![p] = l]
           /\ \A q \in Producers : q # p => pos'[q] = pos[q]
        \/ UNCHANGED <<head, pos>> /\ pc[p] = "fill" /\ pc' = [pc EXCEPT ![p] = "publish"]
        \/ head' = head + 1 /\ UNCHANGED pos /\ pos[p] = head /\ pc' = [pc EXCEPT ![p] = "fill"]
    BY <1>1, <2>1 DEF Submit, Produce, EnqueueLoad, EnqueueLook, EnqueueClaim, EnqueueFill,
                EnqueuePublish, Leave, Goto, ring, history, Shape
  <2> QED
    BY <2>1, <2>2, <2>3 DEF Counted, Filling, Shape
<1>2. ASSUME NEW w \in Workers, Work(w) PROVE Counted /\ UNCHANGED <<stopFlag, owner, owed, quiet>>
  <2>1. \A p \in Producers : p \in Threads /\ p # w
    BY QueueAssumption DEF Threads
  <2>2. UNCHANGED <<head, stopFlag, owner, owed, quiet>> /\ (tail' = tail \/ tail' = tail + 1)
    BY <1>2 DEF Work, CheckStop, DequeueLoad, DequeueLook, DequeueClaim, DequeueTake,
                DequeueFree, Run, ring, history
  <2>3. \A p \in Producers : pc'[p] = pc[p] /\ pos'[p] = pos[p]
    BY <1>2, <2>1 DEF Work, CheckStop, DequeueLoad, DequeueLook, DequeueClaim, DequeueTake,
                DequeueFree, Run, Leave, Goto, Shape
  <2> QED
    BY <2>2, <2>3 DEF Counted, Filling
<1> QED
  BY <1>1, <1>2

\* Whatever a step of the queue does, a task stays accounted for, and a task that is owed
\* keeps its place relative to the tail.
Moves ==
  /\ Accounted'
  /\ \A i \in 1 .. head' - tail' :
       \/ Waiting'[i] \notin placed
       \/ /\ i + (tail' - tail) \in 1 .. head - tail
          /\ Waiting'[i] = Waiting[i + (tail' - tail)]

LEMMA HeadAndTail ==
  ASSUME NEW S, NEW s \in Seq(S), s # <<>>
  PROVE  /\ Len(Tail(s)) = Len(s) - 1 /\ Len(s) > 0 /\ Head(s) = s[1]
         /\ \A i \in 1 .. Len(s) - 1 : Tail(s)[i] = s[i + 1]
<1>1. Len(s) \in Nat \ {0}
  OBVIOUS
<1> QED
  BY <1>1, TailIs

LEMMA QueueMoves ==
  ASSUME Placed, Placed', Accounted, Stutters \/ Abstract!Next, Counted
  PROVE  Moves
<1> USE DEF Moves
<1>1. WaitingOK /\ WaitingOK'
  BY WaitingIs, WaitingNext
<1> USE DEF WaitingOK
<1>2. ASSUME Waiting' = Waiting, UNCHANGED placed,
             \A t \in placed, w \in Workers : InHand[w] = t =>
               t \in delivered' \/ \E v \in Workers : InHand'[v] = t,
             delivered \subseteq delivered'
      PROVE  Moves
  <2>1. UNCHANGED <<head, tail>>
    BY <1>1, <1>2 DEF Counted
  <2> QED
    BY <1>1, <1>2, <2>1 DEF Accounted
<1>3. CASE Stutters
  BY <1>2, <1>3 DEF Stutters
<1>4. ASSUME NEW t \in Task, Abstract!Put(t) PROVE Moves
  <2>1. /\ t \notin placed /\ placed' = placed \cup {t} /\ Waiting' = Append(Waiting, t)
        /\ UNCHANGED <<InHand, delivered>>
    BY <1>4 DEF Abstract!Put
  <2>2. /\ Len(Waiting') = Len(Waiting) + 1 /\ Waiting'[Len(Waiting) + 1] = t
        /\ \A i \in 1 .. Len(Waiting) : Waiting'[i] = Waiting[i]
    BY <1>1, <2>1
  <2>3. head' = head + 1 /\ tail' = tail
    BY <1>1, <2>2 DEF Counted
  <2> HIDE DEF Waiting, InHand
  <2>4. Accounted'
    <3> SUFFICES ASSUME NEW u \in placed'
                 PROVE  \/ u \in delivered'
                        \/ \E i \in 1 .. head' - tail' : Waiting'[i] = u
                        \/ \E w \in Workers : InHand'[w] = u
      BY DEF Accounted
    <3>1. CASE u = t
      BY <1>1, <2>2, <2>3, <3>1
    <3>2. CASE u \in placed
      BY <1>1, <2>1, <2>2, <2>3, <3>2 DEF Accounted
    <3> QED
      BY <2>1, <3>1, <3>2
  <2> QED
    BY <1>1, <2>1, <2>2, <2>3, <2>4
<1>5. ASSUME NEW w \in Workers, Abstract!Take(w) PROVE Moves
  <2>1. /\ Waiting # <<>> /\ InHand[w] = NoTask /\ InHand' = [InHand EXCEPT ![w] = Head(Waiting)]
        /\ Waiting' = Tail(Waiting) /\ UNCHANGED <<placed, delivered>>
    BY <1>5 DEF Abstract!Take
  <2>2. /\ Len(Waiting') = Len(Waiting) - 1 /\ Len(Waiting) > 0
        /\ \A i \in 1 .. Len(Waiting) - 1 : Waiting'[i] = Waiting[i + 1]
        /\ Head(Waiting) = Waiting[1]
    BY <1>1, <2>1, HeadAndTail
  <2>3. head' = head /\ tail' = tail + 1
    BY <1>1, <2>2 DEF Counted
  <2>4. /\ InHand'[w] = Waiting[1]
        /\ \A v \in Workers : v # w => InHand'[v] = InHand[v]
    <3>1. DOMAIN InHand = Workers
      BY DEF InHand
    <3> QED
      BY <2>1, <2>2, <3>1
  <2>5. \A u \in placed : u # NoTask
    BY QueueAssumption DEF Placed, Content, NoTask
  <2>6. Accounted'
    <3> SUFFICES ASSUME NEW u \in placed
                 PROVE  \/ u \in delivered
                        \/ \E i \in 1 .. head' - tail' : Waiting'[i] = u
                        \/ \E v \in Workers : InHand'[v] = u
      BY <2>1 DEF Accounted
    <3> DEFINE Kept == \/ \E i \in 1 .. head' - tail' : Waiting'[i] = u
                       \/ \E v \in Workers : InHand'[v] = u
    <3>1. ASSUME NEW i \in 1 .. head - tail, Waiting[i] = u PROVE Kept
      <4>1. CASE i = 1
        BY <2>4, <3>1, <4>1
      <4>2. CASE i # 1
        <5>1. i - 1 \in 1 .. head' - tail' /\ i - 1 \in 1 .. Len(Waiting) - 1 /\ (i - 1) + 1 = i
          BY <1>1, <2>3, <3>1, <4>2
        <5>2. Waiting'[i - 1] = u
          BY <2>2, <3>1, <5>1
        <5> QED
          BY <5>1, <5>2
      <4> QED
        BY <4>1, <4>2
    <3>2. ASSUME NEW v \in Workers, InHand[v] = u PROVE Kept
      BY <2>1, <2>4, <2>5, <3>2
    <3> QED
      BY <3>1, <3>2 DEF Accounted
  <2> QED
    BY <1>1, <2>2, <2>3, <2>6
<1>6. ASSUME NEW w \in Workers, Abstract!Deliver(w) PROVE Moves
  <2>1. /\ delivered' = delivered \cup {InHand[w]} /\ InHand' = [InHand EXCEPT ![w] = NoTask]
        /\ UNCHANGED <<Waiting, placed>>
    BY <1>6 DEF Abstract!Deliver
  <2>2. \A v \in Workers : v # w => InHand'[v] = InHand[v]
    BY <2>1 DEF InHand
  <2> QED
    BY <1>2, <2>1, <2>2
<1> QED
  BY <1>3, <1>4, <1>5, <1>6 DEF Abstract!Next

\* The owner and the workers keep to their protocol.
LEMMA ControlledStep == ASSUME Placed, Controlled, [Next]_vars PROVE Controlled'
<1> USE DEF Placed, Ring
<1>1. ASSUME NEW p \in Producers, Submit(p) \/ Produce(p) PROVE Controlled'
  <2>1. \A w \in Workers : w \in Threads /\ w # p
    BY QueueAssumption DEF Threads
  <2>2. UNCHANGED <<stopFlag, owner, draining>> /\ \A w \in Workers : pc'[w] = pc[w]
    BY <1>1, <2>1 DEF Submit, Produce, EnqueueLoad, EnqueueLook, EnqueueClaim, EnqueueFill,
                EnqueuePublish, Leave, Goto, Shape
  <2> QED
    BY <2>2 DEF Controlled
<1>2. ASSUME NEW w \in Workers, Work(w) PROVE Controlled'
  <2>1. UNCHANGED <<stopFlag, owner>> /\ w \in Threads
    BY <1>2 DEF Work, CheckStop, DequeueLoad, DequeueLook, DequeueClaim, DequeueTake,
                DequeueFree, Run, Threads
  <2>2. /\ pc[w] # "off"
        /\ \E l \in {"load", "look", "claim", "take", "free", "run", "check", "exited"} :
             pc' = [pc EXCEPT ![w] = l] /\ (l = "exited" => draining[w])
    BY <1>2 DEF Work, CheckStop, DequeueLoad, DequeueLook, DequeueClaim, DequeueTake,
                DequeueFree, Run, Leave, Goto
  <2>3. /\ pc'[w] # "off" /\ (pc'[w] = "exited" => draining[w])
        /\ \A v \in Workers : v # w => pc'[v] = pc[v]
    BY <2>1, <2>2 DEF Shape, Threads
  <2>4. \/ UNCHANGED draining
        \/ pc[w] = "check" /\ draining' = [draining EXCEPT ![w] = stopFlag]
    BY <1>2 DEF Work, CheckStop, DequeueLoad, DequeueLook, DequeueClaim, DequeueTake,
                DequeueFree, Run
  <2>5. \A v \in Workers : draining'[v] => draining[v] \/ (v = w /\ stopFlag)
    BY <2>4, Zenon DEF Content
  <2>6. owner # "idle" /\ (stopFlag => owner = "joining")
    BY <2>2 DEF Controlled, Content
  <2> QED
    BY <2>1, <2>2, <2>3, <2>5, <2>6 DEF Controlled
<1>3. ASSUME NEW S \in SUBSET Workers, StartWorkers(S) PROVE Controlled'
  <2>1. /\ owner # "joining" /\ S # {} /\ stopFlag' = FALSE /\ owner' = "running"
        /\ UNCHANGED draining
        /\ pc' = [t \in Threads |-> IF t \in S THEN "check" ELSE pc[t]]
    BY <1>3 DEF StartWorkers
  <2>2. \A w \in Workers : w \in Threads
    BY DEF Threads
  <2>3. \A w \in Workers : pc'[w] = "check" \/ pc'[w] = pc[w]
    BY <2>1, <2>2
  <2>4. \E w \in Workers : pc'[w] # "off"
    BY <2>1, <2>2
  <2>5. \A w \in Workers : ~draining[w] /\ pc[w] # "exited"
    BY <2>1 DEF Controlled
  <2> QED
    BY <2>1, <2>3, <2>4, <2>5 DEF Controlled
<1>4. CASE StopWorkers
  BY <1>4 DEF StopWorkers, Controlled
<1>5. CASE Joined
  BY <1>5 DEF Joined, Controlled, Threads
<1>6. CASE UNCHANGED vars
  BY <1>6 DEF vars, Controlled
<1> QED
  BY <1>1, <1>2, <1>3, <1>4, <1>5, <1>6 DEF Next

\* A worker that leaves finds nothing that is owed.
LEMMA LeavesNothing ==
  ASSUME Placed, Capacity > 1, Owing, quiet, owner = "joining",
         NEW w \in Workers, Work(w), pc[w] # "exited", pc'[w] = "exited"
  PROVE  UNCHANGED <<head, tail>> /\ \A i \in 1 .. head - tail : Waiting[i] \notin owed
<1> w \in Threads
  BY DEF Threads
<1>1. /\ pc[w] = "look" /\ sequence[SlotOf(pos[w])] < pos[w] + 1 /\ UNCHANGED <<head, tail>>
  BY DEF Work, CheckStop, DequeueLoad, DequeueLook, DequeueClaim, DequeueTake, DequeueFree,
         Run, Leave, Goto, ring, Placed, Ring, Shape
<1>2. head = tail \/ \E p \in Producers : Filling(p) /\ pos[p] = tail
  BY <1>1, NothingToTake DEF Placed
<1>3. WaitingOK
  BY WaitingIs
<1>4. ASSUME NEW i \in 1 .. head - tail, Waiting[i] \in owed PROVE FALSE
  <2>1. PICK p \in Producers : Filling(p) /\ pos[p] = tail
    BY <1>2, <1>3, <1>4 DEF WaitingOK
  <2>2. tail + i <= pos[p]
    BY <1>4, <2>1 DEF Owing
  <2> QED
    BY <1>3, <2>1, <2>2 DEF WaitingOK
<1> QED
  BY <1>1, <1>4

LEMMA Shifted ==
  \A h, t, u, i \in Int : \A j \in 1 .. h - t :
    j = i + (u - t) => t + j = u + i /\ u + i <= h
  OBVIOUS

LEMMA OwingStep ==
  ASSUME Placed, Placed', Capacity > 1, Accounted, Controlled, Owing,
         Stutters \/ Abstract!Next, [Next]_vars
  PROVE  Owing' /\ Accounted'
<1>0. WaitingOK /\ WaitingOK'
  BY WaitingIs, WaitingNext
<1>1. ASSUME (\E p \in Producers : Submit(p) \/ Produce(p)) \/ (\E w \in Workers : Work(w))
      PROVE  Owing' /\ Accounted'
  <2>1. Counted /\ UNCHANGED <<stopFlag, owner, owed, quiet>>
    BY <1>1, ThreadsCount DEF Placed
  <2>2. Moves
    BY <2>1, QueueMoves
  <2>3. SUFFICES ASSUME quiet, owner = "joining"
                 PROVE  /\ \A i \in 1 .. head' - tail' : Waiting'[i] \in owed =>
                             \A p \in Producers : Filling(p)' => tail' + i <= pos'[p]
                        /\ (\E w \in Workers : pc'[w] = "exited") =>
                             \A i \in 1 .. head' - tail' : Waiting'[i] \notin owed
    BY <2>1, <2>2 DEF Moves, Owing
  <2>4. \A i \in 1 .. head' - tail' : Waiting'[i] \in owed =>
          /\ i + (tail' - tail) \in 1 .. head - tail
          /\ Waiting'[i] = Waiting[i + (tail' - tail)]
    BY <2>2 DEF Moves, Placed, Content
  <2>5. ASSUME NEW i \in 1 .. head' - tail', Waiting'[i] \in owed,
               NEW p \in Producers, Filling(p)'
        PROVE  tail' + i <= pos'[p]
    <3>0. head \in Int /\ tail \in Int /\ tail' \in Int /\ i \in Int
      BY <1>0 DEF WaitingOK
    <3>1. PICK u \in Int : u = tail'
      BY <3>0
    <3>2. PICK j \in 1 .. head - tail : j = i + (u - tail) /\ Waiting'[i] = Waiting[j]
      BY <2>4, <2>5, <3>1
    <3>3. Waiting[j] \in owed
      BY <2>5, <3>2
    <3>4. tail + j = tail' + i /\ tail' + i <= head
      <4>1. tail + j = u + i /\ u + i <= head
        BY <3>0, <3>2, Shifted
      <4> QED
        BY <3>1, <4>1
    <3>5. CASE Filling(p) /\ pos'[p] = pos[p]
      <4>1. tail + j <= pos[p]
        BY <2>3, <3>2, <3>3, <3>5 DEF Owing
      <4> QED
        BY <3>4, <3>5, <4>1
    <3>6. CASE head' = head + 1 /\ pos'[p] = head
      BY <3>4, <3>6
    <3> QED
      BY <2>1, <2>5, <3>5, <3>6 DEF Counted
  <2>6. ASSUME NEW w \in Workers, pc'[w] = "exited", NEW i \in 1 .. head' - tail'
        PROVE  Waiting'[i] \notin owed
    <3>1. ASSUME \A j \in 1 .. head - tail : Waiting[j] \notin owed PROVE Waiting'[i] \notin owed
      BY <2>4, <3>1
    <3>2. CASE pc[w] = "exited"
      BY <2>3, <3>1, <3>2 DEF Owing
    <3>3. CASE pc[w] # "exited"
      <4>1. Work(w)
        BY <1>1, <2>6, <3>3, QueueAssumption
        DEF Submit, Produce, EnqueueLoad, EnqueueLook, EnqueueClaim, EnqueueFill, EnqueuePublish,
            Work, CheckStop, DequeueLoad, DequeueLook, DequeueClaim, DequeueTake, DequeueFree,
            Run, Leave, Goto, Placed, Ring, Shape, Threads
      <4> QED
        BY <2>3, <2>6, <3>1, <3>3, <4>1, LeavesNothing
    <3> QED
      BY <3>2, <3>3
  <2> QED
    BY <2>5, <2>6
<1>2. ASSUME (\E S \in SUBSET Workers : StartWorkers(S)) \/ StopWorkers \/ Joined \/ UNCHANGED vars
      PROVE  Owing' /\ Accounted'
  <2>1. /\ UNCHANGED <<head, tail, slots, pos>> /\ \A p \in Producers : pc'[p] = pc[p]
    BY <1>2, QueueAssumption
    DEF StartWorkers, StopWorkers, Joined, vars, ring, Placed, Ring, Shape, Threads
  <2>2. Counted
    BY <2>1 DEF Counted, Filling
  <2>3. Moves
    BY <2>2, QueueMoves
  <2>4. \A i \in 1 .. head - tail : Waiting'[i] \notin placed \/ Waiting'[i] = Waiting[i]
    BY <1>0, <2>1, <2>3 DEF Moves, WaitingOK
  <2>5. CASE StopWorkers
    <3>1. /\ owner = "running" /\ UNCHANGED pc /\ quiet' = (Unpublished = {})
      BY <2>5 DEF StopWorkers
    <3>2. \A w \in Workers : pc'[w] # "exited"
      BY <3>1 DEF Controlled
    <3>3. quiet' => \A p \in Producers : ~Filling(p)'
      BY <3>1 DEF Unpublished, Filling
    <3> QED
      BY <2>3, <3>2, <3>3 DEF Owing, Moves
  <2>6. CASE Joined \/ \E S \in SUBSET Workers : StartWorkers(S)
    <3>1. owner' # "joining"
      BY <2>6 DEF Joined, StartWorkers
    <3> QED
      BY <2>3, <3>1 DEF Owing, Moves
  <2>7. CASE UNCHANGED vars
    <3>1. UNCHANGED <<head, tail, slots, pos, pc, held, quiet, owner, owed>>
      BY <2>7 DEF vars, ring, history
    <3>2. Waiting' = Waiting
      BY <3>1 DEF Waiting, TaskAt
    <3> QED
      BY <2>3, <3>1, <3>2 DEF Owing, Moves, Filling
  <2> QED
    BY <1>2, <2>5, <2>6, <2>7
<1> QED
  BY <1>1, <1>2 DEF Next

LEMMA DrainInit == Init => Controlled /\ Accounted /\ Owing /\ DrainedWhenQuiet
<1> SUFFICES ASSUME Init PROVE Controlled /\ Accounted /\ Owing /\ DrainedWhenQuiet
  OBVIOUS
<1>1. \A w \in Workers : w \in Threads /\ w \notin Producers
  BY QueueAssumption DEF Threads
<1>2. \A w \in Workers : pc[w] = "off" /\ ~draining[w]
  BY <1>1 DEF Init
<1>3. stopFlag = FALSE /\ owner = "idle" /\ placed = {} /\ owed = {}
  BY DEF Init
<1> QED
  BY <1>2, <1>3 DEF Controlled, Accounted, Owing, DrainedWhenQuiet, DrainedOnStop

\* When the workers are joined nothing that is owed waits or is in a worker's hands.
LEMMA JoinedDrained ==
  ASSUME Placed, Controlled, Accounted, Owing, quiet, Joined
  PROVE  owed \subseteq delivered
<1>1. /\ owner = "joining" /\ \A w \in Workers : pc[w] \in {"off", "exited"}
  BY DEF Joined
<1>2. PICK w \in Workers : pc[w] = "exited"
  BY <1>1 DEF Controlled
<1>3. \A i \in 1 .. head - tail : Waiting[i] \notin owed
  BY <1>1, <1>2 DEF Owing
<1>4. \A v \in Workers : InHand[v] = NoTask
  BY <1>1 DEF Placed, Fresh, InHand
<1>5. NoTask \notin placed
  BY QueueAssumption DEF Placed, Content, NoTask
<1>6. owed \subseteq placed
  BY DEF Placed, Content
<1> HIDE DEF Waiting, InHand
<1> QED
  BY <1>3, <1>4, <1>5, <1>6 DEF Accounted

LEMMA DrainedStep ==
  ASSUME Placed, Controlled, Accounted, Owing, DrainedWhenQuiet, [Next]_vars
  PROVE  DrainedWhenQuiet'
<1>1. ASSUME (\E p \in Producers : Submit(p) \/ Produce(p)) \/ (\E w \in Workers : Work(w))
      PROVE  DrainedWhenQuiet'
  <2>1. UNCHANGED <<owner, owed, quiet>>
    BY <1>1, ThreadsCount DEF Placed
  <2>2. delivered \subseteq delivered'
    BY <1>1 DEF Submit, Produce, EnqueueLoad, EnqueueLook, EnqueueClaim, EnqueueFill,
                EnqueuePublish, Work, CheckStop, DequeueLoad, DequeueLook, DequeueClaim,
                DequeueTake, DequeueFree, Run, history
  <2> QED
    BY <2>1, <2>2 DEF DrainedWhenQuiet, DrainedOnStop
<1>2. ASSUME NEW S \in SUBSET Workers, StartWorkers(S) PROVE DrainedWhenQuiet'
  BY <1>2 DEF StartWorkers, DrainedWhenQuiet, DrainedOnStop
<1>3. CASE StopWorkers
  BY <1>3 DEF StopWorkers, DrainedWhenQuiet, DrainedOnStop
<1>4. CASE Joined
  <2>1. UNCHANGED <<owed, delivered, quiet>>
    BY <1>4 DEF Joined, history
  <2> QED
    BY <1>4, <2>1, JoinedDrained DEF DrainedWhenQuiet, DrainedOnStop
<1>5. CASE UNCHANGED vars
  BY <1>5 DEF vars, history, DrainedWhenQuiet, DrainedOnStop
<1> QED
  BY <1>1, <1>2, <1>3, <1>4, <1>5 DEF Next

\* What TryEnqueue accepted before StopWorkers is run when StopWorkers returns, if no producer
\* was between its claim and its release store then: the last worker to leave has seen the
\* ring empty, or nothing before a position that was claimed after the stop.
THEOREM DrainsWhenQuiet == Capacity > 1 /\ Spec => []DrainedWhenQuiet
<1> SUFFICES ASSUME Capacity > 1 PROVE Spec => []DrainedWhenQuiet
  OBVIOUS
<1> DEFINE DrainInv == Placed /\ Controlled /\ Accounted /\ Owing /\ DrainedWhenQuiet
<1>1. Init => DrainInv
  BY PlacedInit, DrainInit
<1>2. Placed /\ [Next]_vars => Placed' /\ (Stutters \/ Abstract!Next)
  BY PlacedNext
<1>3. DrainInv /\ [Next]_vars => DrainInv'
  BY <1>2, ControlledStep, OwingStep, DrainedStep
<1>4. DrainInv => DrainedWhenQuiet
  OBVIOUS
<1> HIDE DEF DrainInv
<1> QED
  BY <1>1, <1>3, <1>4, PTL DEF Spec
==============================================================================
