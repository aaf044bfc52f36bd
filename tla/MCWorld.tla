-------------------------------- MODULE MCWorld --------------------------------
(* Instances of World for TLC: two Zones of one Location each. *)
EXTENDS World

CONSTANTS a1, a2, l1, l2, z1, z2, bag, coin

OneEach   == (l1 :> z1) @@ (l2 :> z2)
TogetherAtFirst == [a \in Actor |-> l1]
AllInFirst == [o \in Item |-> IF o = coin THEN bag ELSE l1]
NoGifts   == {}
BagOfOne  == [o \in Item |-> IF o = bag THEN 1 ELSE 0]
=============================================================================
