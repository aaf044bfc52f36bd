------------------------------- MODULE Handover -------------------------------
(***************************************************************************)
(* What core.World promises about an Actor that goes from one Zone to      *)
(* another: in memory and in the event log it is found in the Zone it goes *)
(* to before it is gone from the Zone it leaves, so that no crash finds it *)
(* nowhere.  The module knows Zones and Actors by their names only; World  *)
(* implements it.                                                          *)
(***************************************************************************)
CONSTANTS ZoneId, Actor, Nil

VARIABLES
    present,    \* [Actor -> SUBSET ZoneId], where it is in memory
    saved,      \* [Actor -> SUBSET ZoneId], where the event logs have it
    moving,     \* the handover under way: one at a time
    dead        \* the Actors that have died

vars == <<present, saved, moving, dead>>

(* stage: "in" until the new Zone has answered, then "copied" until the    *)
(* old Zone takes the second command, "out" until it has answered too.     *)
Passage ==
    [actor : Actor, src : ZoneId, dst : ZoneId, stage : {"in", "copied", "out"}]

TypeOK ==
    /\ present \in [Actor -> SUBSET ZoneId]
    /\ saved \in [Actor -> SUBSET ZoneId]
    /\ moving \in Passage \cup {Nil}
    /\ moving # Nil => moving.src # moving.dst
    /\ dead \subseteq Actor

Init ==
    /\ \E home \in [Actor -> ZoneId] : present = [a \in Actor |-> {home[a]}]
    /\ saved = present
    /\ moving = Nil
    /\ dead = {}

CopyIn(a, s, d) ==
    /\ moving = Nil
    /\ s # d
    /\ moving' = [actor |-> a, src |-> s, dst |-> d, stage |-> "in"]
    /\ present' = [present EXCEPT ![a] = @ \cup {d}]
    /\ UNCHANGED <<saved, dead>>

(* The log catches up with the memory about one Actor in one Zone. *)
Record(a, z) ==
    saved' = [saved EXCEPT ![a] = IF z \in present[a] THEN @ \cup {z} ELSE @ \ {z}]

(* A Zone answers when all its events are saved. *)
Answer ==
    \/ /\ moving.stage = "in"
       /\ moving.dst \in saved'[moving.actor] \/ moving.actor \in dead
       /\ moving' = [moving EXCEPT !.stage = "copied"]
    \/ /\ moving.stage = "out"
       /\ moving' = Nil

Save ==
    /\ saved' = saved \/ \E a \in Actor, z \in ZoneId : Record(a, z)
    /\ moving' = moving \/ (moving # Nil /\ Answer)
    /\ UNCHANGED <<present, dead>>

Leave ==
    /\ moving # Nil /\ moving.stage = "copied"
    /\ moving' = [moving EXCEPT !.stage = "out"]
    /\ present' = [present EXCEPT ![moving.actor] = @ \ {moving.src}]
    /\ UNCHANGED <<saved, dead>>

(* The old Zone does not have the Actor any more. *)
Refuse ==
    /\ moving # Nil /\ moving.stage = "copied"
    /\ moving' = Nil
    /\ UNCHANGED <<present, saved, dead>>

Die(a, z) ==
    /\ z \in present[a]
    /\ present' = [present EXCEPT ![a] = @ \ {z}]
    /\ dead' = dead \cup {a}
    /\ UNCHANGED <<saved, moving>>

Crash ==
    /\ present' = saved
    /\ moving' = Nil
    /\ UNCHANGED <<saved, dead>>

Next ==
    \/ \E a \in Actor, s, d \in ZoneId : CopyIn(a, s, d)
    \/ Save
    \/ Leave
    \/ Refuse
    \/ \E a \in Actor, z \in ZoneId : Die(a, z)
    \/ Crash

Spec == Init /\ [][Next]_vars

(* An Actor that has not died is always found somewhere: in memory, and by *)
(* a restart whenever it comes.                                            *)
NobodyLost ==
    \A a \in Actor \ dead : present[a] # {} /\ saved[a] # {}

(* NobodyLost made inductive: some Zone has the Actor in memory and in its *)
(* log, the new Zone has it in memory, and once the old Zone may let go    *)
(* the new one has it in both.                                             *)
Anchor ==
    \A a \in Actor \ dead :
        /\ present[a] \cap saved[a] # {}
        /\ moving # Nil /\ moving.actor = a =>
               /\ moving.dst \in present[a]
               /\ moving.stage # "in" => moving.dst \in saved[a]
=============================================================================
