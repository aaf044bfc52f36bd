-------------------------------- MODULE MCBrain --------------------------------
(* Instances of Brain for TLC. *)
EXTENDS Brain, TLC

CONSTANTS wolf, elf, yard, lane, inn, sword, north, south, east, west, town, wood

TownAndWood == [p \in Place |-> IF p = inn THEN town ELSE wood]
InnYardLane ==
    (inn :> (east :> yard)) @@ (yard :> (west :> inn) @@ (north :> lane)) @@ (lane :> (south :> yard))
EitherHome == {[a \in Actor |-> yard], (wolf :> yard) @@ (elf :> Nowhere)}
EitherLies == {[t \in Thing |-> yard], [t \in Thing |-> wolf]}
Blunt == [t \in Thing |-> 2]

-----------------------------------------------------------------------------
(* For the path finders: every graph of three nodes with costs from a      *)
(* small set, searched from node 1; what it costs to come back to node 1   *)
(* makes no difference.                                                    *)
SmallGraph ==
    LET Around(n) == {to \in UNION {[others -> {1, 3}] : others \in SUBSET (1..3 \ {n})} :
                        1 \in DOMAIN to => to[1] = 1}
    IN  {g \in [1..3 -> UNION {Around(n) : n \in 1..3}] : \A n \in 1..3 : g[n] \in Around(n)}

FromNode1 == [graph : SmallGraph, start : {1}]
=============================================================================
