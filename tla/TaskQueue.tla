------------------------------ MODULE TaskQueue ------------------------------
(***************************************************************************)
(* What a decode queue promises to those who use it: a bounded FIFO from   *)
(* which every task that was put is taken by one worker and delivered      *)
(* once.  LockFreeQueue implements it.                                     *)
(***************************************************************************)
EXTENDS Naturals, Sequences

CONSTANTS
  Task,       \* the tasks that may be submitted
  Workers,    \* the worker threads
  Capacity,   \* how many tasks may wait
  NoTask      \* a worker has no task in hand

VARIABLES
  queue,      \* the waiting tasks, oldest first
  inHand,     \* the task each worker is about to run
  put,        \* all tasks ever put
  delivered   \* the tasks whose callback has been called

vars == <<queue, inHand, put, delivered>>

Init == /\ queue = <<>>
        /\ inHand = [w \in Workers |-> NoTask]
        /\ put = {}
        /\ delivered = {}

Put(t) == /\ t \notin put
          /\ Len(queue) < Capacity
          /\ queue' = Append(queue, t)
          /\ put' = put \cup {t}
          /\ UNCHANGED <<inHand, delivered>>

Take(w) == /\ queue # <<>>
           /\ inHand[w] = NoTask
           /\ inHand' = [inHand EXCEPT ![w] = Head(queue)]
           /\ queue' = Tail(queue)
           /\ UNCHANGED <<put, delivered>>

Deliver(w) == /\ inHand[w] # NoTask
              /\ inHand[w] \notin delivered
              /\ delivered' = delivered \cup {inHand[w]}
              /\ inHand' = [inHand EXCEPT ![w] = NoTask]
              /\ UNCHANGED <<queue, put>>

Next == \/ \E t \in Task : Put(t)
        \/ \E w \in Workers : Take(w) \/ Deliver(w)

Spec == Init /\ [][Next]_vars
==============================================================================
