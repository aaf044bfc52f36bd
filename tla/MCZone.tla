-------------------------------- MODULE MCZone --------------------------------
(* Instances of Zone for TLC. *)
EXTENDS Zone, TLC

CONSTANTS a1, a2, s1, s2, bag

(* One session for each Actor. *)
OneDriverEach == {<<s1, a1>>, <<s2, a2>>}
(* Two sessions attached to the same Actor: a telnet session and a brain.  *)
TwoDrivers == {<<s1, a1>>, <<s2, a1>>}
DriveA1    == {<<s1, a1>>}
NoDrivers  == {}

(* The bag has room for one thing; the other Items are no containers.      *)
BagCapacity == [o \in Item |-> IF o = bag THEN 1 ELSE 0]

Symmetric ==
    Permutations(Location) \cup Permutations(Exit) \cup Permutations(Direction)
        \cup Permutations(Corpse) \cup Permutations(Item \ {bag})
(* When no session drives an Actor, Actors are interchangeable too. *)
SymmetricActors == Symmetric \cup Permutations(Actor)
=============================================================================
