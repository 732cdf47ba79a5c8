-------------------------- MODULE MCThumbnailCache --------------------------
(***************************************************************************)
(* Constants for model-checking ThumbnailCache.                            *)
(***************************************************************************)
EXTENDS ThumbnailCache, TLC

CONSTANTS c1, c2, i1, NoHash

OneCache == {c1}
TwoCaches == {c1, c2}
TwoKeys == 1..2
ThreeKeys == 1..3
TwoPaths == {"a", "b"}
OneImage == {i1}

RankTwo == [k \in TwoKeys |-> k]
RankThree == [k \in ThreeKeys |-> k]

OneOrTwo == {1, 2}
NoFaults == {}

\* Files that fail to load and scans that are cut short concern one cache only:
\* MCThumbnailPipeline has them.  MD5Hash may fail: key 1 is the empty string.
SharedFaults == FaultKinds \ {"load", "scan", "meta"}

CacheSymmetry == Permutations(TwoCaches)
=============================================================================
