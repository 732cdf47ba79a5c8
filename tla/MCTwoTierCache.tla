--------------------------- MODULE MCTwoTierCache ---------------------------
(***************************************************************************)
(* Constants for model-checking TwoTierCache.                              *)
(***************************************************************************)
EXTENDS TwoTierCache

CONSTANTS c1, c2, k1, k2

OneClient == {c1}
OtherClient == {c2}
TwoClients == {c1, c2}
OneKey == {k1}
TwoKeys == {k1, k2}
TwoPixels == [k \in TwoKeys |-> IF k = k1 THEN <<1, 2>> ELSE <<2, 1>>]
OnePixelOne == [k \in OneKey |-> <<1>>]
AllKeys == {TwoKeys}
AllOne == {OneKey}
=============================================================================
