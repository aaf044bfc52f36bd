------------------------------- MODULE MCRestart -------------------------------
(* Instances of Restart for TLC: a coin in a bag in a room. *)
EXTENDS Restart

CONSTANTS room, bag, coin

InTheBag == (room :> {}) @@ (bag :> {room}) @@ (coin :> {bag})
InTheRoom == (room :> {}) @@ (coin :> {room})
OnlyARoom == room :> {}

Symmetry == Permutations(Zone) \cup Permutations(Transaction)
=============================================================================
