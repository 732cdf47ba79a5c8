----------------------- MODULE MCPersistentDiskCache -----------------------
(***************************************************************************)
(* Constants for model-checking PersistentDiskCache.                       *)
(***************************************************************************)
EXTENDS PersistentDiskCache

CONSTANTS p1, p2

\* p1 has two sizes Get looks for in the index, and one it does not.
SomeKeys == {[path |-> p1, size |-> s] : s \in {1, 2, 3}} \cup {[path |-> p2, size |-> 1]}
LargeFirst == <<2, 1>>
AllStrategies == {"LRU", "CostAware", "Hybrid"}
SomeFaults == {"hit", "evict"}
=============================================================================
