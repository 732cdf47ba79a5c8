------------------------ MODULE MCRequestDeduplicator ------------------------
(***************************************************************************)
(* Instances of RequestDeduplicator.                                       *)
(***************************************************************************)
EXTENDS RequestDeduplicator
CONSTANTS c1, c2, c3, e1, e2, e3, e4, f, g
ThreeCallers == {c1, c2, c3}
TwoCallers == {c1, c2}
FourEntries == {e1, e2, e3, e4}
TwoPaths == {f, g}
==============================================================================
