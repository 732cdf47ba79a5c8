--------------------- MODULE MCCacheInvalidationWatcher ---------------------
(***************************************************************************)
(* Instances of CacheInvalidationWatcher.                                  *)
(***************************************************************************)
EXTENDS CacheInvalidationWatcher
CONSTANTS d1, d2, k1, k2, k3
TwoDirs == {d1, d2}
TwoChanges == {k1, k2}
ThreeChanges == {k1, k2, k3}
==============================================================================
