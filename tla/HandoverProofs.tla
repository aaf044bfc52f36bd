---------------------------- MODULE HandoverProofs ----------------------------
(***************************************************************************)
(* No Actor is lost in a handover, for every number of Zones and Actors.   *)
(***************************************************************************)
EXTENDS Handover, TLAPS

(* A Zone's log that catches up keeps whatever is both in memory and saved. *)
LEMMA RecordKeeps ==
    ASSUME TypeOK, NEW a \in Actor, NEW z \in ZoneId, Record(a, z)
    PROVE  /\ saved' \in [Actor -> SUBSET ZoneId]
           /\ \A b \in Actor : present[b] \cap saved[b] \subseteq saved'[b]
BY DEF TypeOK, Record

(* Zones, Actors and the handover under way keep their shape. *)
LEMMA TypePreserved == TypeOK /\ [Next]_vars => TypeOK'
<1> SUFFICES ASSUME TypeOK, [Next]_vars PROVE TypeOK'
    OBVIOUS
<1> USE DEF TypeOK
<1>1. ASSUME NEW a \in Actor, NEW s \in ZoneId, NEW d \in ZoneId, CopyIn(a, s, d)
      PROVE  TypeOK'
    BY <1>1 DEF CopyIn, Passage
<1>2. CASE Save
    <2>1. saved' \in [Actor -> SUBSET ZoneId]
        BY <1>2, RecordKeeps DEF Save
    <2>2. moving' \in Passage \cup {Nil} /\ (moving' # Nil => moving'.src # moving'.dst)
        <3>1. CASE moving' = moving
            BY <3>1
        <3>2. CASE moving # Nil /\ Answer
            BY <3>2 DEF Answer, Passage
        <3>3. QED BY <1>2, <3>1, <3>2 DEF Save
    <2>3. QED BY <1>2, <2>1, <2>2 DEF Save
<1>3. CASE Leave
    BY <1>3 DEF Leave, Passage
<1>4. CASE Refuse
    BY <1>4 DEF Refuse
<1>5. ASSUME NEW a \in Actor, NEW z \in ZoneId, Die(a, z) PROVE TypeOK'
    BY <1>5 DEF Die
<1>6. CASE Crash
    BY <1>6 DEF Crash
<1>7. CASE UNCHANGED vars
    BY <1>7 DEF vars
<1>8. QED
    BY <1>1, <1>2, <1>3, <1>4, <1>5, <1>6, <1>7 DEF Next

(* The step of the induction: at each action the Actor it concerns keeps a *)
(* Zone that has it in memory and in its log.                              *)
LEMMA AnchorPreserved == TypeOK /\ Anchor /\ [Next]_vars => Anchor'
<1> SUFFICES ASSUME TypeOK, Anchor, [Next]_vars PROVE Anchor'
    OBVIOUS
<1> USE DEF TypeOK, Anchor
<1>1. ASSUME NEW a \in Actor, NEW s \in ZoneId, NEW d \in ZoneId, CopyIn(a, s, d)
      PROVE  Anchor'
    BY <1>1 DEF CopyIn
<1>2. CASE Save
    <2>1. \A b \in Actor : present[b] \cap saved[b] \subseteq saved'[b]
        BY <1>2, RecordKeeps DEF Save
    <2>2. UNCHANGED <<present, dead>>
        BY <1>2 DEF Save
    <2>3. CASE moving' = moving
        BY <2>1, <2>2, <2>3
    <2>4. CASE moving # Nil /\ Answer
        <3>1. CASE moving.stage = "in"
            <4>1. moving.dst \in saved'[moving.actor] \/ moving.actor \in dead
                BY <2>4, <3>1 DEF Answer
            <4>2. moving' = [moving EXCEPT !.stage = "copied"]
                BY <2>4, <3>1 DEF Answer
            <4>3. moving'.actor = moving.actor /\ moving'.dst = moving.dst
                BY <2>4, <4>2 DEF Passage
            <4>4. QED BY <2>1, <2>2, <2>4, <4>1, <4>3
        <3>2. CASE moving' = Nil
            BY <2>1, <2>2, <3>2
        <3>3. QED BY <2>4, <3>1, <3>2 DEF Answer
    <2>5. QED BY <1>2, <2>3, <2>4 DEF Save
<1>3. CASE Leave
    <2>1. /\ moving' # Nil => moving'.actor = moving.actor /\ moving'.dst = moving.dst
          /\ moving.dst # moving.src /\ moving.actor \in Actor
        BY <1>3 DEF Leave, Passage
    <2>2. present' = [present EXCEPT ![moving.actor] = @ \ {moving.src}]
        BY <1>3 DEF Leave
    <2>3. moving # Nil /\ moving.stage # "in" /\ UNCHANGED <<saved, dead>>
        BY <1>3 DEF Leave
    <2>4. QED BY <2>1, <2>2, <2>3
<1>4. CASE Refuse
    BY <1>4 DEF Refuse
<1>5. ASSUME NEW a \in Actor, NEW z \in ZoneId, Die(a, z) PROVE Anchor'
    BY <1>5 DEF Die
<1>6. CASE Crash
    BY <1>6 DEF Crash
<1>7. CASE UNCHANGED vars
    BY <1>7 DEF vars
<1>8. QED
    BY <1>1, <1>2, <1>3, <1>4, <1>5, <1>6, <1>7 DEF Next

(* handleMigrateActorCommand waits for the answer of the new Zone before it *)
(* asks the old one, so that an Actor nobody has killed is always found, in *)
(* memory and after a crash at any moment.                                  *)
THEOREM NoneLost == Spec => []NobodyLost
<1>1. Init => TypeOK /\ Anchor
    BY DEF Init, TypeOK, Anchor
<1>2. TypeOK /\ Anchor /\ [Next]_vars => TypeOK' /\ Anchor'
    BY TypePreserved, AnchorPreserved
<1>3. TypeOK /\ Anchor => NobodyLost
    BY DEF TypeOK, Anchor, NobodyLost
<1>4. QED
    BY <1>1, <1>2, <1>3, PTL DEF Spec
=============================================================================
