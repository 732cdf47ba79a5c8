--------------------------- MODULE MCLockFreeQueue ---------------------------
(***************************************************************************)
(* Instances of LockFreeQueue.                                             *)
(***************************************************************************)
EXTENDS LockFreeQueue
CONSTANTS p1, p2, w1, w2
TwoProducers == {p1, p2}
OneProducer == {p1}
TwoWorkers == {w1, w2}
OneWorker == {w1}
==============================================================================
