------------------------------ MODULE ZoneProofs ------------------------------
(***************************************************************************)
(* What holds of a Zone for any number of Locations, Exits, Actors,        *)
(* Objects and sessions.  In this order: its types, its passages, where    *)
(* everybody is; then its Objects, each in one place, with nobody carrying *)
(* more than it can and what the dead carried in their corpses; then what  *)
(* a restart gets right, whenever the process dies: as long as the replay  *)
(* runs to its end, it brings back the population and the passages, and    *)
(* puts nobody and nothing into a wrong place.                             *)
(***************************************************************************)
EXTENDS Zone, ZoneStateProofs, FiniteSetTheorems

-----------------------------------------------------------------------------
(* Type correctness *)

LEMMA PersistType ==
  ASSUME TypeOK, NEW d, NEW ok, ok => d \in ZoneType, Persist(d, ok)
  PROVE  disk' \in ZoneType /\ loads' \in BOOLEAN
BY EmptyZoneType DEF Persist, TypeOK

LEMMA AnswerType ==
  ASSUME TypeOK, NEW s \in Session, Answer(s)
  PROVE  pending' \in [Session -> Request \cup {Nil}]
BY DEF Answer, TypeOK

LEMMA PrepareType ==
  ASSUME TypeOK, NEW s \in Session, NEW r \in Request, Prepare(s, r)
  PROVE  TypeOK'
BY DEF Prepare, TypeOK

(* What the steps on the Exits, the Actors and the Objects of a Location   *)
(* being removed leave behind is a Zone.                                   *)
LEMMA VacatedType ==
  ASSUME TypeOK, NEW l \in Location, NEW X \in SUBSET Exit,
         NEW A \in SUBSET Actor, NEW O \in SUBSET Object
  PROVE  Vacated(l, X, A, O) \in ZoneType
<1>1. live \in ZoneType  BY DEF TypeOK
<1>2. live.def \in Location \cup {Nil} /\ live.def \in Container \cup {Nil}
  BY <1>1 DEF ZoneType, Container
<1>3. AfterExitsRemove(live, X) \in ZoneType
  BY <1>1, ExitsRemoveType
<1>4. AfterActorsRelocate(AfterExitsRemove(live, X), A, live.def) \in ZoneType
  BY <1>2, <1>3, ActorsRelocateType
<1> QED  BY <1>2, <1>4, ObjectsRelocateType DEF Vacated

LEMMA EditorTypeStep ==
  ASSUME TypeOK, NEW s \in Session, EditorStep(s)
  PROVE  TypeOK'
<1>0. live \in ZoneType /\ disk \in ZoneType  BY DEF TypeOK
<1>1. ASSUME NEW l \in Location, AddLocation(s, l)  PROVE TypeOK'
  BY <1>0, <1>1, LocationAddType, PersistType DEF AddLocation, TypeOK, Use, Id
<1>2. ASSUME NEW l \in Location, SetDefaultLocation(s, l)  PROVE TypeOK'
  BY <1>0, <1>2, SetDefaultType, PersistType DEF SetDefaultLocation, TypeOK
<1>3. ASSUME NEW x \in Exit, NEW l \in Location, NEW d \in Direction,
             NEW t \in Location \cup {Elsewhere}, AddExit(s, x, l, d, t)
      PROVE  TypeOK'
  BY <1>0, <1>3, ExitAddType, PersistType DEF AddExit, TypeOK, Use, Id
<1>4. ASSUME NEW x \in Exit, RemoveExit(s, x)  PROVE TypeOK'
  <2>1. {x} \in SUBSET Exit  OBVIOUS
  <2> QED  BY <1>0, <1>4, <2>1, ExitsRemoveType, PersistType DEF RemoveExit, TypeOK
<1>5. ASSUME NEW x \in Exit, NEW d \in Direction,
             NEW t \in Location \cup {Elsewhere}, PrepareUpdateExit(s, x, d, t)
      PROVE  TypeOK'
  BY <1>5, PrepareType DEF PrepareUpdateExit, Request
<1>6. ASSUME NEW l \in Location, PrepareRemoveLocation(s, l)  PROVE TypeOK'
  BY <1>6, PrepareType DEF PrepareRemoveLocation, Request
<1> QED  BY <1>1, <1>2, <1>3, <1>4, <1>5, <1>6 DEF EditorStep

LEMMA DeathTypeStep ==
  ASSUME TypeOK, NEW z \in ZoneType, NEW d \in ZoneType, NEW a \in Actor,
         NEW k \in Corpse, Death(z, d, a, k)
  PROVE  TypeOK'
<1> DEFINE loot == Contents(live, a)
           l    == live.at[a]
<1>1. l \in Location  BY DEF Death, TypeOK, ZoneType
<1>2. loot \in SUBSET Object
  BY ContentsType DEF TypeOK, Container
<1> HIDE DEF loot, l
<1>3. AfterDeath(z, a, k, l, loot) \in ZoneType /\ AfterDeath(d, a, k, l, loot) \in ZoneType
  BY <1>1, <1>2, DeathType
<1>4. /\ live' = AfterDeath(z, a, k, l, loot)
      /\ Persist(AfterDeath(d, a, k, l, loot),
                 a \in disk.actors /\ loot \subseteq disk.objs)
      /\ Use({k}) /\ UNCHANGED pending
  BY DEF Death, loot, l
<1> QED  BY <1>3, <1>4, PersistType DEF TypeOK, Use, Id, Object

LEMMA ActorTypeStep ==
  ASSUME TypeOK, ActorStep
  PROVE  TypeOK'
<1>0. live \in ZoneType /\ disk \in ZoneType /\ 1..MaxHp \subseteq Nat
  BY ConstantsAssumption DEF TypeOK
<1>1. ASSUME NEW a \in Actor, NEW l \in Location, AddActor(a, l)  PROVE TypeOK'
  <2>1. AfterActorAdd(live, a, l) \in ZoneType
    BY <1>0, <1>1, ActorAddType DEF AddActor, CanActorAdd
  <2>2. CanActorAdd(disk, l) => AfterActorAdd(disk, a, l) \in ZoneType
    BY <1>0, ActorAddType
  <2> QED  BY <1>1, <2>1, <2>2, PersistType DEF AddActor, TypeOK, Use, Id
<1>2. ASSUME NEW a \in Actor, NEW k \in Corpse, Die(a, k)  PROVE TypeOK'
  BY <1>0, <1>2, DeathTypeStep DEF Die
<1>3. ASSUME NEW a \in Actor, NEW b \in Actor, NEW d \in 1..MaxHp, Hit(a, b, d)
      PROVE  TypeOK'
  BY <1>0, <1>3, DamageType, PersistType DEF Hit, TypeOK
<1>4. ASSUME NEW a \in Actor, NEW b \in Actor, NEW d \in 1..MaxHp, NEW k \in Corpse,
             HitToDeath(a, b, d, k)
      PROVE  TypeOK'
  <2>1. AfterDamage(live, b, d) \in ZoneType /\ AfterDamage(disk, b, d) \in ZoneType
    BY <1>0, DamageType
  <2>2. Death(AfterDamage(live, b, d), AfterDamage(disk, b, d), b, k)
    BY <1>4 DEF HitToDeath
  <2> QED  BY <2>1, <2>2, DeathTypeStep
<1> QED  BY <1>1, <1>2, <1>3, <1>4 DEF ActorStep

LEMMA ObjectTypeStep ==
  ASSUME TypeOK, ObjectStep
  PROVE  TypeOK'
<1>0. live \in ZoneType /\ disk \in ZoneType  BY DEF TypeOK
<1>1. \A c \in Container : live.holds[c] \subseteq Object  BY <1>0 DEF ZoneType
<1>2. ASSUME NEW o \in Item, NEW l \in Location, AddObject(o, l)  PROVE TypeOK'
  <2>1. o \in Object  BY DEF Object
  <2> QED  BY <1>0, <1>2, <2>1, ObjectAddType, PersistType DEF AddObject, TypeOK, Use, Id
<1>3. ASSUME NEW who \in Actor, NEW from \in Container, NEW to \in Container,
             NEW o \in Object, MoveObject(who, o, from, to)
      PROVE  TypeOK'
  BY <1>0, <1>3, ObjectMoveType, PersistType DEF MoveObject, TypeOK
<1>4. ASSUME NEW who \in Actor, NEW from \in Container, NEW to \in Container,
             NEW o \in Object, MoveObjectFails(who, o, from, to)
      PROVE  TypeOK'
  BY <1>0, <1>4, ObjectMoveFailsType DEF MoveObjectFails, PersistNothing, TypeOK
<1>5. ASSUME NEW a \in Actor, NEW o \in Object, Wear(a, o)  PROVE TypeOK'
  BY <1>0, <1>5, MoveSubcontainerType, PersistType DEF Wear, TypeOK
<1>6. ASSUME NEW a \in Actor, NEW o \in Object, Unwear(a, o)  PROVE TypeOK'
  BY <1>0, <1>6, MoveSubcontainerType, PersistType DEF Unwear, TypeOK
<1>7. Actor \subseteq Container  BY DEF Container
<1> QED  BY <1>1, <1>2, <1>3, <1>4, <1>5, <1>6, <1>7 DEF ObjectStep

LEMMA RequestTypeStep ==
  ASSUME TypeOK, NEW s \in Session, RequestStep(s)
  PROVE  TypeOK'
<1>0. /\ live \in ZoneType /\ disk \in ZoneType
      /\ pending[s] \in Request \cup {Nil}
  BY DEF TypeOK
<1>1. CASE UpdateExit(s)
  <2>1. /\ pending[s].exit \in Exit /\ pending[s].dir \in Direction
        /\ pending[s].to \in Location \cup {Elsewhere}
    BY <1>0, <1>1 DEF UpdateExit, Has, Request
  <2> QED
    BY <1>0, <1>1, <2>1, ExitUpdateType, PersistType, AnswerType DEF UpdateExit, TypeOK
<1>2. CASE RemoveLocation(s)
  <2> DEFINE l == pending[s].loc
             gone == Vacated(l, ExitsAt(l), live.here[l], live.holds[l])
  <2>1. l \in Location
    BY <1>0, <1>2 DEF RemoveLocation, Has, Request
  <2>2. gone \in ZoneType
    BY <1>0, <2>1, VacatedType DEF ZoneType, ExitsAt, ExitsToLocation, Container
  <2>3. live' = AfterLocationRemove(gone, l) /\ Persist(AfterLocationRemove(disk, l), TRUE)
    BY <1>2 DEF RemoveLocation
  <2> HIDE DEF l, gone
  <2>4. AfterLocationRemove(gone, l) \in ZoneType /\ AfterLocationRemove(disk, l) \in ZoneType
    BY <1>0, <2>1, <2>2, LocationRemoveType
  <2> QED
    BY <1>2, <2>3, <2>4, PersistType, AnswerType DEF RemoveLocation, TypeOK
<1>3. CASE RemoveLocationFails(s)
  <2> DEFINE l == pending[s].loc
  <2>1. l \in Location
    BY <1>0, <1>3 DEF RemoveLocationFails, Has, Request
  <2> HIDE DEF l
  <2>2. live.out[l] \in SUBSET Exit /\ ExitsAt(l) \in SUBSET Exit
        /\ live.here[l] \in SUBSET Actor
    BY <1>0, <2>1 DEF ZoneType, ExitsAt, ExitsToLocation
  <2>3. ASSUME NEW X \in SUBSET (ExitsAt(l) \ live.out[l]),
               live' = AfterExitsRemove(live, live.out[l] \cup X)
        PROVE  live' \in ZoneType
    <3>1. live.out[l] \cup X \in SUBSET Exit  BY <2>2
    <3> QED  BY <1>0, <2>3, <3>1, ExitsRemoveType
  <2>4. ASSUME NEW A \in SUBSET (live.here[l] \cap live.actors),
               live' = Vacated(l, ExitsAt(l), A, {})
        PROVE  live' \in ZoneType
    <3>1. A \in SUBSET Actor  BY <2>2
    <3> QED  BY <2>1, <2>2, <2>4, <3>1, VacatedType
  <2>5. AfterExitsRemove(live, ExitsAt(l)) \in ZoneType
    BY <1>0, <2>2, ExitsRemoveType
  <2>6. live' \in ZoneType  BY <1>3, <2>3, <2>4, <2>5 DEF RemoveLocationFails, l
  <2> QED  BY <1>3, <2>6, AnswerType DEF RemoveLocationFails, PersistNothing, TypeOK
<1>4. CASE Move(s)
  <2>1. /\ pending[s].actor \in Actor
        /\ pending[s].from \in Location /\ pending[s].to \in Location
    BY <1>0, <1>4 DEF Move, Has, Request
  <2> QED
    BY <1>0, <1>4, <2>1, ActorMoveType, PersistType, AnswerType DEF Move, TypeOK
<1>5. CASE Reap(s)
  <2>1. pending[s].obj \in Object  BY <1>0, <1>5 DEF Reap, Has, Request
  <2> QED
    BY <1>0, <1>5, <2>1, ObjectRemoveType, PersistType, AnswerType DEF Reap, TypeOK
<1>6. CASE Reject(s)
  BY <1>6, AnswerType DEF Reject, TypeOK
<1> QED  BY <1>1, <1>2, <1>3, <1>4, <1>5, <1>6 DEF RequestStep

LEMMA TypeStep == TypeOK /\ [Next]_vars => TypeOK'
<1> SUFFICES ASSUME TypeOK, [Next]_vars PROVE TypeOK'  OBVIOUS
<1>1. CASE \E s \in Editor : EditorStep(s)
  BY <1>1, EditorTypeStep, SessionAssumption
<1>2. CASE ActorStep  BY <1>2, ActorTypeStep
<1>3. CASE ObjectStep  BY <1>3, ObjectTypeStep
<1>4. ASSUME NEW s \in Session, NEW a \in Actor, NEW x \in Exit, PrepareMove(s, a, x)
      PROVE  TypeOK'
  BY <1>4, PrepareType, ConstantsAssumption DEF PrepareMove, Request, TypeOK, ZoneType
<1>5. ASSUME NEW s \in Reaper, NEW o \in Object, NEW l \in Location, PrepareReap(s, o, l)
      PROVE  TypeOK'
  BY <1>5, PrepareType, SessionAssumption DEF PrepareReap, Request
<1>6. CASE \E s \in Session : RequestStep(s)  BY <1>6, RequestTypeStep
<1>7. CASE UNCHANGED vars  BY <1>7 DEF vars, TypeOK
<1> QED  BY <1>1, <1>2, <1>3, <1>4, <1>5, <1>6, <1>7 DEF Next

(* Whatever sessions, editors and the reaper do, the Zone in memory and    *)
(* the Zone a replay builds keep their shape: an Exit never leads from     *)
(* something that is no Location, hit points stay between 0 and MaxHp, and *)
(* a command in the queue names what its handler expects.                  *)
THEOREM TypeCorrect == Spec => []TypeOK
<1>1. Init => TypeOK
  BY EmptyZoneType DEF Init, TypeOK
<1> QED  BY <1>1, TypeStep, PTL DEF Spec

-----------------------------------------------------------------------------
(* Passages.  The lists of removed Locations are kept in order too: a      *)
(* Location that is gone has no Exit left.                                 *)

Anchored(z) ==
    /\ \A x \in z.exits :
           /\ z.src[x] \in z.locs
           /\ x \in z.out[z.src[x]]
           /\ z.dst[x] \in z.locs \cup {Elsewhere, Nil}
    /\ \A l \in Location : \A x \in z.out[l] : x \in z.exits /\ z.src[x] = l

PassagesInv == TypeOK /\ Anchored(live) /\ live.exits \subseteq used

LEMMA AnchoredFrame ==
  ASSUME NEW z, NEW y, Anchored(z), SamePassages(y, z)
  PROVE  Anchored(y) /\ y.exits = z.exits
BY DEF Anchored, SamePassages

LEMMA LocationAddAnchored ==
  ASSUME NEW z \in ZoneType, NEW l \in Location, Anchored(z)
  PROVE  Anchored(AfterLocationAdd(z, l)) /\ AfterLocationAdd(z, l).exits = z.exits
BY DEF Anchored, AfterLocationAdd, ZoneType

LEMMA LocationRemoveAnchored ==
  ASSUME NEW z \in ZoneType, NEW l \in Location, Anchored(z),
         \A x \in z.exits : z.src[x] # l /\ z.dst[x] # l
  PROVE  /\ Anchored(AfterLocationRemove(z, l))
         /\ AfterLocationRemove(z, l).exits = z.exits
BY DEF Anchored, AfterLocationRemove, ZoneType

LEMMA ExitAddAnchored ==
  ASSUME NEW z \in ZoneType, NEW x \in Exit, NEW l \in Location,
         NEW d \in Direction, NEW t \in Location \cup {Elsewhere},
         Anchored(z), x \notin z.exits, CanExitAdd(z, l, d, t)
  PROVE  /\ Anchored(AfterExitAdd(z, x, l, d, t))
         /\ AfterExitAdd(z, x, l, d, t).exits = z.exits \cup {x}
BY DEF Anchored, AfterExitAdd, CanExitAdd, ZoneType

LEMMA ExitUpdateAnchored ==
  ASSUME NEW z \in ZoneType, NEW x \in Exit, NEW d, NEW t, Anchored(z)
  PROVE  /\ Anchored(AfterExitUpdate(z, x, d, t))
         /\ AfterExitUpdate(z, x, d, t).exits = z.exits
BY DEF Anchored, AfterExitUpdate, ZoneType

LEMMA ExitsRemoveAnchored ==
  ASSUME NEW z \in ZoneType, NEW X \in SUBSET Exit, Anchored(z)
  PROVE  /\ Anchored(AfterExitsRemove(z, X))
         /\ AfterExitsRemove(z, X).exits = z.exits \ X
         /\ AfterExitsRemove(z, X).src = z.src
         /\ AfterExitsRemove(z, X).dst = z.dst
BY DEF Anchored, AfterExitsRemove, ZoneType

(* Sending the occupants away does nothing to the Exits.                   *)
LEMMA VacatedPassages ==
  ASSUME TypeOK, NEW l \in Location, NEW X \in SUBSET Exit,
         NEW A \in SUBSET Actor, NEW O \in SUBSET Object
  PROVE  SamePassages(Vacated(l, X, A, O), AfterExitsRemove(live, X))
<1> DEFINE y == AfterExitsRemove(live, X)
           w == AfterActorsRelocate(y, A, live.def)
<1>1. y \in ZoneType  BY ExitsRemoveType DEF TypeOK
<1>2. live.def \in Location \cup {Nil}  BY DEF TypeOK, ZoneType
<1> HIDE DEF y
<1>3. w \in ZoneType  BY <1>1, <1>2, ActorsRelocateType
<1>4. SamePassages(w, y)
  BY <1>1 DEF AfterActorsRelocate, ZoneType, SamePassages
<1> HIDE DEF w
<1>5. SamePassages(AfterObjectsRelocate(w, O, live.def), w)
  BY <1>3 DEF AfterObjectsRelocate, ZoneType, SamePassages
<1> QED  BY <1>4, <1>5 DEF Vacated, SamePassages, y, w

LEMMA DeathPassages ==
  ASSUME TypeOK, NEW z \in ZoneType, NEW d, NEW a \in Actor, NEW k \in Corpse,
         Death(z, d, a, k)
  PROVE  SamePassages(live', z) /\ used \subseteq used'
<1> DEFINE loot == Contents(live, a)
           l    == live.at[a]
<1>1. l \in Location  BY DEF Death, TypeOK, ZoneType
<1>2. loot \in SUBSET Object  BY ContentsType DEF TypeOK, Container
<1> HIDE DEF loot, l
<1>3. live' = AfterDeath(z, a, k, l, loot) /\ Use({k})  BY DEF Death, loot, l
<1> QED  BY <1>1, <1>2, <1>3, DeathFrame DEF Use

(* The steps of Actors and Objects do not touch the Exits. *)
LEMMA ActorPassages ==
  ASSUME TypeOK, ActorStep
  PROVE  SamePassages(live', live) /\ used \subseteq used'
<1>0. live \in ZoneType  BY DEF TypeOK
<1>1. ASSUME NEW a \in Actor, NEW l \in Location, AddActor(a, l)
      PROVE  SamePassages(live', live) /\ used \subseteq used'
  BY <1>0, <1>1, ActorEventsFrame DEF AddActor, Use
<1>2. ASSUME NEW a \in Actor, NEW k \in Corpse, Die(a, k)
      PROVE  SamePassages(live', live) /\ used \subseteq used'
  BY <1>0, <1>2, DeathPassages DEF Die
<1>3. ASSUME NEW a \in Actor, NEW b \in Actor, NEW d \in 1..MaxHp, Hit(a, b, d)
      PROVE  SamePassages(live', live) /\ used \subseteq used'
  BY <1>0, <1>3, DamageFrame DEF Hit
<1>4. ASSUME NEW a \in Actor, NEW b \in Actor, NEW d \in 1..MaxHp, NEW k \in Corpse,
             HitToDeath(a, b, d, k)
      PROVE  SamePassages(live', live) /\ used \subseteq used'
  <2> DEFINE hurt == AfterDamage(live, b, d)
  <2>1. d \in Nat  BY ConstantsAssumption
  <2>2. hurt \in ZoneType /\ SamePassages(hurt, live)
    BY <1>0, <2>1, DamageType, DamageFrame
  <2>3. Death(hurt, AfterDamage(disk, b, d), b, k)  BY <1>4 DEF HitToDeath
  <2> HIDE DEF hurt
  <2>4. SamePassages(live', hurt) /\ used \subseteq used'  BY <2>2, <2>3, DeathPassages
  <2> QED  BY <2>2, <2>4 DEF SamePassages
<1> QED  BY <1>1, <1>2, <1>3, <1>4 DEF ActorStep

LEMMA ObjectPassages ==
  ASSUME TypeOK, ObjectStep
  PROVE  /\ SamePassages(live', live) /\ SamePlaces(live', live)
         /\ used \subseteq used' /\ pending' = pending
<1> DEFINE Quiet == /\ SamePassages(live', live) /\ SamePlaces(live', live)
                    /\ used \subseteq used' /\ pending' = pending
<1>0. live \in ZoneType  BY DEF TypeOK
<1>1. \A c \in Container : live.holds[c] \subseteq Object  BY <1>0 DEF ZoneType
<1>2. ASSUME NEW o \in Item, NEW l \in Location, AddObject(o, l)  PROVE Quiet
  BY <1>0, <1>2, ObjectEventsFrame DEF AddObject, Use, Object
<1>3. ASSUME NEW who, NEW from, NEW to, NEW o \in Object, MoveObject(who, o, from, to)
      PROVE  Quiet
  BY <1>0, <1>3 DEF MoveObject, AfterObjectMove, ZoneType, SamePassages, SamePlaces
<1>4. ASSUME NEW who, NEW from, NEW to, NEW o \in Object, MoveObjectFails(who, o, from, to)
      PROVE  Quiet
  BY <1>0, <1>4 DEF MoveObjectFails, AfterObjectMoveFails, ZoneType, SamePassages, SamePlaces
<1>5. ASSUME NEW a \in Actor, NEW o \in Object, Wear(a, o)  PROVE Quiet
  BY <1>0, <1>5 DEF Wear, AfterMoveSubcontainer, ZoneType, SamePassages, SamePlaces
<1>6. ASSUME NEW a \in Actor, NEW o \in Object, Unwear(a, o)  PROVE Quiet
  BY <1>0, <1>6 DEF Unwear, AfterMoveSubcontainer, ZoneType, SamePassages, SamePlaces
<1>7. Actor \subseteq Container  BY DEF Container
<1> QED  BY <1>1, <1>2, <1>3, <1>4, <1>5, <1>6, <1>7 DEF ObjectStep

LEMMA PassagesStep == PassagesInv /\ [Next]_vars => PassagesInv'
<1> SUFFICES ASSUME PassagesInv, [Next]_vars
             PROVE  Anchored(live') /\ live'.exits \subseteq used'
  BY TypeStep DEF PassagesInv, Anchored
<1>0. live \in ZoneType /\ TypeOK /\ Anchored(live) /\ live.exits \subseteq used
  BY DEF PassagesInv, TypeOK
<1> DEFINE Kept == Anchored(live') /\ live'.exits \subseteq used'
<1>1. ASSUME SamePassages(live', live), used \subseteq used'  PROVE Kept
  BY <1>0, <1>1, AnchoredFrame
<1>2. ASSUME NEW s \in Session, EditorStep(s)  PROVE Kept
  <2>1. ASSUME NEW l \in Location, AddLocation(s, l)  PROVE Kept
    BY <1>0, <2>1, LocationAddAnchored DEF AddLocation, Use
  <2>2. ASSUME NEW l \in Location, SetDefaultLocation(s, l)  PROVE Kept
    BY <1>0, <1>1, <2>2 DEF SetDefaultLocation, AfterSetDefault, ZoneType, SamePassages
  <2>3. ASSUME NEW x \in Exit, NEW l \in Location, NEW d \in Direction,
               NEW t \in Location \cup {Elsewhere}, AddExit(s, x, l, d, t)
        PROVE  Kept
    BY <1>0, <2>3, ExitAddAnchored DEF AddExit, Use, Fresh
  <2>4. ASSUME NEW x \in Exit, RemoveExit(s, x)  PROVE Kept
    BY <1>0, <2>4, ExitsRemoveAnchored DEF RemoveExit
  <2>5. ASSUME NEW x, NEW d, NEW t, PrepareUpdateExit(s, x, d, t)  PROVE Kept
    BY <1>1, <2>5 DEF PrepareUpdateExit, Prepare, SamePassages
  <2>6. ASSUME NEW l, PrepareRemoveLocation(s, l)  PROVE Kept
    BY <1>1, <2>6 DEF PrepareRemoveLocation, Prepare, SamePassages
  <2> QED  BY <1>2, <2>1, <2>2, <2>3, <2>4, <2>5, <2>6 DEF EditorStep
<1>3. CASE ActorStep \/ ObjectStep
  BY <1>0, <1>1, <1>3, ActorPassages, ObjectPassages
<1>4. ASSUME NEW s \in Session, RequestStep(s)  PROVE Kept
  <2>0. pending[s] \in Request \cup {Nil}  BY <1>0 DEF TypeOK
  <2>1. CASE UpdateExit(s)
    <3>1. pending[s].exit \in Exit  BY <2>0, <2>1 DEF UpdateExit, Has, Request
    <3> QED  BY <1>0, <2>1, <3>1, ExitUpdateAnchored DEF UpdateExit
  <2>2. CASE RemoveLocation(s)
    <3> DEFINE l == pending[s].loc
               bare == AfterExitsRemove(live, ExitsAt(l))
               gone == Vacated(l, ExitsAt(l), live.here[l], live.holds[l])
    <3>1. l \in Location  BY <2>0, <2>2 DEF RemoveLocation, Has, Request
    <3>2. live' = AfterLocationRemove(gone, l) /\ used' = used  BY <2>2 DEF RemoveLocation
    <3> HIDE DEF l
    <3>3. /\ ExitsAt(l) \in SUBSET Exit
          /\ live.here[l] \in SUBSET Actor /\ live.holds[l] \in SUBSET Object
      BY <1>0, <3>1 DEF ZoneType, ExitsAt, ExitsToLocation, Container
    <3>4. SamePassages(gone, bare) /\ gone \in ZoneType
      BY <1>0, <3>1, <3>3, VacatedPassages, VacatedType
    <3>5. Anchored(bare) /\ bare.exits = live.exits \ ExitsAt(l)
          /\ bare.src = live.src /\ bare.dst = live.dst
      BY <1>0, <3>3, ExitsRemoveAnchored
    <3>6. \A x \in bare.exits : bare.src[x] # l /\ bare.dst[x] # l
      BY <1>0, <3>1, <3>5 DEF ExitsAt, ExitsToLocation, Anchored
    <3> HIDE DEF bare, gone
    <3>7. Anchored(gone) /\ gone.exits = bare.exits
          /\ \A x \in gone.exits : gone.src[x] # l /\ gone.dst[x] # l
      BY <3>4, <3>5, <3>6, AnchoredFrame DEF SamePassages
    <3> QED  BY <1>0, <3>1, <3>2, <3>4, <3>5, <3>7, LocationRemoveAnchored
  <2>3. CASE RemoveLocationFails(s)
    <3> DEFINE l == pending[s].loc
    <3>1. l \in Location  BY <2>0, <2>3 DEF RemoveLocationFails, Has, Request
    <3> HIDE DEF l
    <3>2. /\ live.out[l] \in SUBSET Exit /\ ExitsAt(l) \in SUBSET Exit
          /\ live.here[l] \in SUBSET Actor
      BY <1>0, <3>1 DEF ZoneType, ExitsAt, ExitsToLocation
    <3>3. ASSUME NEW X \in SUBSET Exit, live' = AfterExitsRemove(live, X), used' = used
          PROVE  Kept
      BY <1>0, <3>3, ExitsRemoveAnchored
    <3>4. ASSUME NEW A \in SUBSET Actor, live' = Vacated(l, ExitsAt(l), A, {}), used' = used
          PROVE  Kept
      BY <1>0, <3>1, <3>2, <3>4, VacatedPassages, ExitsRemoveAnchored, AnchoredFrame
    <3>5. /\ used' = used
          /\ \/ \E X \in SUBSET Exit : live' = AfterExitsRemove(live, X)
             \/ \E A \in SUBSET Actor : live' = Vacated(l, ExitsAt(l), A, {})
      <4>1. \A X \in SUBSET (ExitsAt(l) \ live.out[l]) : live.out[l] \cup X \in SUBSET Exit
        BY <3>2
      <4>2. \A A \in SUBSET (live.here[l] \cap live.actors) : A \in SUBSET Actor
        BY <3>2
      <4> QED  BY <2>3, <3>2, <4>1, <4>2 DEF RemoveLocationFails, l
    <3> QED  BY <3>3, <3>4, <3>5
  <2>4. CASE Move(s)
    <3>1. pending[s].actor \in Actor
      BY <2>0, <2>4 DEF Move, Has, Request
    <3> QED  BY <1>0, <1>1, <2>4, <3>1 DEF Move, AfterActorMove, ZoneType, SamePassages
  <2>5. CASE Reap(s)
    <3>1. pending[s].obj \in Object  BY <2>0, <2>5 DEF Reap, Has, Request
    <3> QED  BY <1>0, <1>1, <2>5, <3>1 DEF Reap, AfterObjectRemove, ZoneType, SamePassages
  <2>6. CASE Reject(s)
    BY <1>1, <2>6 DEF Reject, SamePassages
  <2> QED  BY <1>4, <2>1, <2>2, <2>3, <2>4, <2>5, <2>6 DEF RequestStep
<1>5. CASE (\E s \in Session, a \in Actor, x \in Exit : PrepareMove(s, a, x))
        \/ (\E s \in Reaper, o \in Object, l \in Location : PrepareReap(s, o, l))
        \/ UNCHANGED vars
  BY <1>1, <1>5 DEF PrepareMove, PrepareReap, Prepare, vars, SamePassages
<1> QED  BY <1>2, <1>3, <1>4, <1>5, SessionAssumption DEF Next

(* Removing Locations and Exits, failing half-way included, leaves no      *)
(* Exit that leads from or to a Location that is gone.                     *)
THEOREM PassagesAnchored == Spec => []ExitsAnchored
<1>1. Init => PassagesInv
  BY EmptyZoneType DEF Init, PassagesInv, TypeOK, Anchored, EmptyZone
<1>2. PassagesInv => ExitsAnchored
  BY DEF PassagesInv, TypeOK, ZoneType, Anchored, ExitsAnchored
<1> QED  BY <1>1, <1>2, PassagesStep, PTL DEF Spec

-----------------------------------------------------------------------------
(* Directions.  The handler of an update trusts what the editor has seen:  *)
(* that the direction is the Exit's own, or that no Exit there has it.     *)
(* With one editor that stays true while the command is on its way, as     *)
(* Exits can only be taken away meanwhile.                                 *)

UniqueOut(z) ==
    \A l \in Location : \A x, y \in z.out[l] : z.dir[x] = z.dir[y] => x = y

UpdatesSeen ==
    \A s \in Session : Has(s, "updateExit") =>
        /\ s \in Editor
        /\ pending[s].exit \in live.exits =>
               \A y \in live.out[live.src[pending[s].exit]] :
                   live.dir[y] = pending[s].dir => y = pending[s].exit

DirectionsInv == PassagesInv /\ UniqueOut(live) /\ UpdatesSeen

(* Some Exits may be gone; the rest is as it was. *)
Fewer(y, z) ==
    /\ y.exits \subseteq z.exits /\ y.src = z.src /\ y.dir = z.dir
    /\ \A l \in Location : y.out[l] \subseteq z.out[l]

(* A command in the queue to update an Exit has been there before. *)
NoNewUpdate ==
    \A s \in Session : Has(s, "updateExit")' => pending'[s] = pending[s]

LEMMA FewerExits ==
  ASSUME NEW z \in ZoneType, NEW X \in SUBSET Exit
  PROVE  Fewer(AfterExitsRemove(z, X), z)
BY DEF Fewer, AfterExitsRemove, ZoneType

LEMMA FewerDirections ==
  ASSUME DirectionsInv, Fewer(live', live), NoNewUpdate
  PROVE  UniqueOut(live') /\ UpdatesSeen'
<1>0. UniqueOut(live) /\ UpdatesSeen /\ live \in ZoneType  BY DEF DirectionsInv, PassagesInv, TypeOK
<1>1. UniqueOut(live')  BY <1>0 DEF UniqueOut, Fewer
<1>2. UpdatesSeen'
  <2> SUFFICES ASSUME NEW s \in Session, Has(s, "updateExit")'
               PROVE  /\ s \in Editor
                      /\ pending'[s].exit \in live'.exits =>
                             \A y \in live'.out[live'.src[pending'[s].exit]] :
                                 live'.dir[y] = pending'[s].dir => y = pending'[s].exit
    BY DEF UpdatesSeen
  <2>1. pending'[s] = pending[s] /\ Has(s, "updateExit")  BY DEF NoNewUpdate, Has
  <2>2. pending[s].exit \in live.exits => live.src[pending[s].exit] \in Location
    BY <1>0 DEF DirectionsInv, PassagesInv, Anchored, ZoneType
  <2> QED  BY <1>0, <2>1, <2>2 DEF UpdatesSeen, Fewer
<1> QED  BY <1>1, <1>2

LEMMA SameIsFewer ==
  ASSUME NEW z, NEW y, SamePassages(y, z)
  PROVE  Fewer(y, z)
BY DEF SamePassages, Fewer

LEMMA DirectionsStep == SoleEditor /\ DirectionsInv /\ [Next]_vars => DirectionsInv'
<1> SUFFICES ASSUME SoleEditor, DirectionsInv, [Next]_vars
             PROVE  UniqueOut(live') /\ UpdatesSeen'
  BY PassagesStep DEF DirectionsInv, UniqueOut
<1> DEFINE Kept == UniqueOut(live') /\ UpdatesSeen'
<1>0. /\ TypeOK /\ live \in ZoneType /\ Anchored(live) /\ UniqueOut(live) /\ UpdatesSeen
      /\ live.exits \subseteq used /\ pending \in [Session -> Request \cup {Nil}]
  BY DEF DirectionsInv, PassagesInv, TypeOK
<1>1. ASSUME SamePassages(live', live), NoNewUpdate  PROVE Kept
  BY <1>1, SameIsFewer, FewerDirections
<1>2. ASSUME NEW X \in SUBSET Exit, NEW z, z = AfterExitsRemove(live, X),
             SamePassages(live', z) \/ live' = z, NoNewUpdate
      PROVE  Kept
  <2>1. Fewer(z, live)  BY <1>0, <1>2, FewerExits
  <2>2. Fewer(live', live)  BY <1>2, <2>1 DEF Fewer, SamePassages
  <2> QED  BY <1>2, <2>2, FewerDirections
<1>3. ASSUME NEW s \in Session, NEW r, Prepare(s, r), r.kind # "updateExit"  PROVE Kept
  <2>1. SamePassages(live', live)  BY <1>3 DEF Prepare, SamePassages
  <2>2. NoNewUpdate  BY <1>0, <1>3 DEF Prepare, NoNewUpdate, Has
  <2> QED  BY <1>1, <2>1, <2>2
<1>4. ASSUME NEW s \in Editor, Idle(s)
      PROVE  \A t \in Session : ~Has(t, "updateExit")
  BY <1>0, <1>4 DEF SoleEditor, UpdatesSeen, Idle, Has
<1>5. ASSUME NEW s \in Editor, EditorStep(s)  PROVE Kept
  <2>1. ASSUME NEW l \in Location, AddLocation(s, l)  PROVE Kept
    <3>1. Fewer(live', live)  BY <1>0, <2>1 DEF AddLocation, AfterLocationAdd, ZoneType, Fewer
    <3>2. NoNewUpdate  BY <2>1 DEF AddLocation, NoNewUpdate
    <3> QED  BY <3>1, <3>2, FewerDirections
  <2>2. ASSUME NEW l \in Location, SetDefaultLocation(s, l)  PROVE Kept
    <3>1. Fewer(live', live)
      BY <1>0, <2>2 DEF SetDefaultLocation, AfterSetDefault, ZoneType, Fewer
    <3>2. NoNewUpdate  BY <2>2 DEF SetDefaultLocation, NoNewUpdate
    <3> QED  BY <3>1, <3>2, FewerDirections
  <2>3. ASSUME NEW x \in Exit, NEW l \in Location, NEW d \in Direction,
               NEW t \in Location \cup {Elsewhere}, AddExit(s, x, l, d, t)
        PROVE  Kept
    <3>1. /\ x \notin live.exits /\ pending' = pending /\ Idle(s)
          /\ live' = AfterExitAdd(live, x, l, d, t) /\ OutExitToward(live, l, d) = {}
      BY <1>0, <2>3 DEF AddExit, Fresh, CanExitAdd
    <3>2. /\ live'.dir = [live.dir EXCEPT ![x] = d]
          /\ live'.out = [live.out EXCEPT ![l] = @ \cup {x}]
      BY <1>0, <3>1 DEF AfterExitAdd, ZoneType
    <3>3. \A k \in Location : x \notin live.out[k] /\ live.out[k] \subseteq Exit
      BY <1>0, <3>1 DEF Anchored, ZoneType
    <3>4. /\ live'.dir[x] = d
          /\ \A k \in Location : \A y \in live.out[k] :
                 live'.dir[y] = live.dir[y] /\ (k = l => live.dir[y] # d)
      <4>1. live.dir \in [Exit -> Direction \cup {Nil}]  BY <1>0 DEF ZoneType
      <4> QED  BY <3>1, <3>2, <3>3, <4>1 DEF OutExitToward
    <3>5. \A k \in Location : live'.out[k] = IF k = l THEN live.out[k] \cup {x} ELSE live.out[k]
      BY <1>0, <3>2 DEF ZoneType
    <3>6. UniqueOut(live')
      <4> SUFFICES ASSUME NEW k \in Location, NEW y \in live'.out[k], NEW z \in live'.out[k],
                          live'.dir[y] = live'.dir[z]
                   PROVE  y = z
        BY DEF UniqueOut
      <4>1. (y = x \/ y \in live.out[k]) /\ (z = x \/ z \in live.out[k])  BY <3>5
      <4>2. y = x \/ z = x => k = l  BY <3>3, <3>5
      <4>3. CASE y # x /\ z # x  BY <1>0, <3>4, <4>1, <4>3 DEF UniqueOut
      <4>4. CASE y = x \/ z = x  BY <3>4, <4>1, <4>2, <4>4
      <4> QED  BY <4>3, <4>4
    <3>7. UpdatesSeen'  BY <1>4, <3>1 DEF UpdatesSeen, Has
    <3> QED  BY <3>6, <3>7
  <2>4. ASSUME NEW x \in Exit, RemoveExit(s, x)  PROVE Kept
    <3>1. live' = AfterExitsRemove(live, {x}) /\ {x} \in SUBSET Exit  BY <2>4 DEF RemoveExit
    <3>2. NoNewUpdate  BY <2>4 DEF RemoveExit, NoNewUpdate
    <3> QED  BY <1>2, <3>1, <3>2
  <2>5. ASSUME NEW x \in Exit, NEW d \in Direction,
               NEW t \in Location \cup {Elsewhere}, PrepareUpdateExit(s, x, d, t)
        PROVE  Kept
    <3> DEFINE r == [kind |-> "updateExit", exit |-> x, dir |-> d, to |-> t]
    <3>1. /\ live' = live /\ Idle(s) /\ x \in live.exits
          /\ d = live.dir[x] \/ OutExitToward(live, live.src[x], d) = {}
          /\ pending' = [pending EXCEPT ![s] = r]
      BY <2>5 DEF PrepareUpdateExit, Prepare
    <3>2. r.exit = x /\ r.dir = d  OBVIOUS
    <3> HIDE DEF r
    <3>3. live.src[x] \in Location /\ x \in live.out[live.src[x]]
      BY <1>0, <3>1 DEF Anchored, ZoneType
    <3>4. \A y \in live.out[live.src[x]] : live.dir[y] = d => y = x
      BY <1>0, <3>1, <3>3 DEF UniqueOut, OutExitToward
    <3>5. s \in Session  BY SessionAssumption
    <3>6. \A t_1 \in Session : Has(t_1, "updateExit")' => t_1 = s /\ pending'[t_1] = r
      BY <1>0, <1>4, <3>1, <3>5 DEF Has
    <3>7. UpdatesSeen'  BY <3>1, <3>2, <3>4, <3>6 DEF UpdatesSeen
    <3> QED  BY <1>0, <3>1, <3>7 DEF UniqueOut
  <2>6. ASSUME NEW l \in Location, PrepareRemoveLocation(s, l)  PROVE Kept
    <3>1. s \in Session  BY SessionAssumption
    <3> QED  BY <1>3, <2>6, <3>1 DEF PrepareRemoveLocation
  <2> QED  BY <1>5, <2>1, <2>2, <2>3, <2>4, <2>5, <2>6 DEF EditorStep
<1>6. CASE ActorStep \/ ObjectStep
  <2>1. pending' = pending
    BY <1>6 DEF ActorStep, AddActor, Die, Hit, HitToDeath, Death,
                ObjectStep, AddObject, MoveObject, MoveObjectFails, Wear, Unwear
  <2>2. NoNewUpdate  BY <2>1 DEF NoNewUpdate
  <2> QED  BY <1>0, <1>1, <1>6, <2>2, ActorPassages, ObjectPassages
<1>7. ASSUME NEW s \in Session, Answer(s)  PROVE NoNewUpdate
  BY <1>0, <1>7 DEF Answer, NoNewUpdate, Has
<1>8. ASSUME NEW s \in Session, RequestStep(s)  PROVE Kept
  <2>0. pending[s] \in Request \cup {Nil}  BY <1>0
  <2>1. CASE UpdateExit(s)
    <3> DEFINE x == pending[s].exit
               d == pending[s].dir
               t == pending[s].to
    <3>1. /\ x \in live.exits /\ x \in Exit /\ live' = AfterExitUpdate(live, x, d, t)
          /\ Answer(s) /\ Has(s, "updateExit")
      BY <1>0, <2>0, <2>1 DEF UpdateExit, CanUpdateExit, ZoneType
    <3>2. s \in Editor /\ \A y \in live.out[live.src[x]] : live.dir[y] = d => y = x
      BY <1>0, <3>1 DEF UpdatesSeen
    <3>3. \A t_1 \in Session : ~Has(t_1, "updateExit")'
      <4>1. \A t_1 \in Session : Has(t_1, "updateExit") => t_1 = s
        BY <1>0, <3>2 DEF UpdatesSeen, SoleEditor
      <4> QED  BY <1>0, <3>1, <4>1 DEF Answer, Has
    <3> HIDE DEF x, d, t
    <3>4. live'.dir = [live.dir EXCEPT ![x] = d] /\ live'.out = live.out
      BY <1>0, <3>1 DEF AfterExitUpdate, ZoneType
    <3>5. \A y \in Exit : live'.dir[y] = IF y = x THEN d ELSE live.dir[y]
      BY <1>0, <3>4 DEF ZoneType
    <3>6. \A l \in Location : live.out[l] \subseteq Exit /\ (x \in live.out[l] => live.src[x] = l)
      BY <1>0 DEF Anchored, ZoneType
    <3>7. UniqueOut(live')  BY <1>0, <3>2, <3>4, <3>5, <3>6 DEF UniqueOut
    <3> QED  BY <3>3, <3>7 DEF UpdatesSeen
  <2>2. CASE RemoveLocation(s)
    <3> DEFINE l == pending[s].loc
               gone == Vacated(l, ExitsAt(l), live.here[l], live.holds[l])
               bare == AfterExitsRemove(live, ExitsAt(l))
    <3>1. l \in Location  BY <2>0, <2>2 DEF RemoveLocation, Has, Request
    <3>2. live' = AfterLocationRemove(gone, l) /\ Answer(s)  BY <2>2 DEF RemoveLocation
    <3> HIDE DEF l
    <3>3. /\ ExitsAt(l) \in SUBSET Exit
          /\ live.here[l] \in SUBSET Actor /\ live.holds[l] \in SUBSET Object
      BY <1>0, <3>1 DEF ZoneType, ExitsAt, ExitsToLocation, Container
    <3>4. SamePassages(gone, bare) /\ gone \in ZoneType
      BY <1>0, <3>1, <3>3, VacatedPassages, VacatedType
    <3>5. Fewer(bare, live)  BY <1>0, <3>3, FewerExits
    <3> HIDE DEF gone, bare
    <3>6. live'.exits = gone.exits /\ live'.src = gone.src /\ live'.dir = gone.dir /\ live'.out = gone.out
      BY <3>2, <3>4 DEF AfterLocationRemove, ZoneType
    <3>7. Fewer(live', live)  BY <3>4, <3>5, <3>6 DEF Fewer, SamePassages
    <3> QED  BY <1>7, <3>2, <3>7, FewerDirections
  <2>3. CASE RemoveLocationFails(s)
    <3> DEFINE l == pending[s].loc
    <3>1. l \in Location /\ Answer(s)  BY <2>0, <2>3 DEF RemoveLocationFails, Has, Request
    <3> HIDE DEF l
    <3>2. /\ live.out[l] \in SUBSET Exit /\ ExitsAt(l) \in SUBSET Exit
          /\ live.here[l] \in SUBSET Actor
      BY <1>0, <3>1 DEF ZoneType, ExitsAt, ExitsToLocation
    <3>3. ASSUME NEW X \in SUBSET Exit, live' = AfterExitsRemove(live, X)  PROVE Kept
      BY <1>2, <1>7, <3>1, <3>3
    <3>4. ASSUME NEW A \in SUBSET Actor, live' = Vacated(l, ExitsAt(l), A, {})  PROVE Kept
      <4>1. SamePassages(live', AfterExitsRemove(live, ExitsAt(l)))
        BY <1>0, <3>1, <3>2, <3>4, VacatedPassages
      <4> QED  BY <1>2, <1>7, <3>1, <3>2, <4>1
    <3>5. \/ \E X \in SUBSET Exit : live' = AfterExitsRemove(live, X)
          \/ \E A \in SUBSET Actor : live' = Vacated(l, ExitsAt(l), A, {})
      <4>1. \A X \in SUBSET (ExitsAt(l) \ live.out[l]) : live.out[l] \cup X \in SUBSET Exit
        BY <3>2
      <4>2. \A A \in SUBSET (live.here[l] \cap live.actors) : A \in SUBSET Actor
        BY <3>2
      <4> QED  BY <2>3, <3>2, <4>1, <4>2 DEF RemoveLocationFails, l
    <3> QED  BY <3>3, <3>4, <3>5
  <2>4. CASE Move(s)
    <3>1. SamePassages(live', live) /\ Answer(s)
      BY <1>0, <2>4 DEF Move, AfterActorMove, ZoneType, SamePassages
    <3> QED  BY <1>1, <1>7, <3>1
  <2>5. CASE Reap(s)
    <3>1. SamePassages(live', live) /\ Answer(s)
      BY <1>0, <2>5 DEF Reap, AfterObjectRemove, ZoneType, SamePassages
    <3> QED  BY <1>1, <1>7, <3>1
  <2>6. CASE Reject(s)
    <3>1. SamePassages(live', live) /\ Answer(s)  BY <2>6 DEF Reject, SamePassages
    <3> QED  BY <1>1, <1>7, <3>1
  <2> QED  BY <1>8, <2>1, <2>2, <2>3, <2>4, <2>5, <2>6 DEF RequestStep
<1>9. ASSUME NEW s \in Session, NEW a \in Actor, NEW x \in Exit, PrepareMove(s, a, x)
      PROVE  Kept
  BY <1>3, <1>9 DEF PrepareMove
<1>10. ASSUME NEW s \in Session, NEW o \in Object, NEW l \in Location, PrepareReap(s, o, l)
       PROVE  Kept
  BY <1>3, <1>10 DEF PrepareReap
<1>11. CASE UNCHANGED vars
  BY <1>1, <1>11 DEF vars, SamePassages, NoNewUpdate
<1> QED  BY <1>5, <1>6, <1>8, <1>9, <1>10, <1>11, SessionAssumption DEF Next

(* As long as one person edits the world, no two Exits of a Location lead  *)
(* the same way, though ExitUpdate itself checks nothing: it may run after *)
(* any number of other commands.                                           *)
THEOREM DirectionsUnique == ASSUME SoleEditor PROVE Spec => []UniqueDirections
<1>1. Init => DirectionsInv
  BY EmptyZoneType
     DEF Init, DirectionsInv, PassagesInv, TypeOK, Anchored, UniqueOut, UpdatesSeen, EmptyZone, Has
<1>2. DirectionsInv /\ [Next]_vars => DirectionsInv'  BY DirectionsStep
<1>3. DirectionsInv => UniqueDirections
  BY DEF DirectionsInv, PassagesInv, TypeOK, ZoneType, UniqueOut, UniqueDirections
<1> QED  BY <1>1, <1>2, <1>3, PTL DEF Spec

-----------------------------------------------------------------------------
(* Places: nobody is nowhere as long as one person edits the world, and    *)
(* nobody is in two places as long as one session drives each Actor.       *)

Listed(z) ==
    \A a \in z.actors : z.at[a] \in z.locs /\ a \in z.here[z.at[a]]

Single(z) ==
    \A l \in Location : \A a \in z.here[l] : a \in z.actors /\ z.at[a] = l

-----------------------------------------------------------------------------
(* The events *)

LEMMA PlacesFrame ==
  ASSUME NEW z, NEW y, SamePlaces(y, z)
  PROVE  (Listed(z) => Listed(y)) /\ (Single(z) => Single(y))
BY DEF Listed, Single, SamePlaces

LEMMA RelocateFrame ==
  ASSUME NEW z \in ZoneType, NEW y \in ZoneType, SamePlaces(y, z), NEW A, NEW to
  PROVE  SamePlaces(AfterActorsRelocate(y, A, to), AfterActorsRelocate(z, A, to))
BY DEF AfterActorsRelocate, ZoneType, SamePlaces

LEMMA RemoveFrame ==
  ASSUME NEW z \in ZoneType, NEW y \in ZoneType, SamePlaces(y, z), NEW a \in Actor
  PROVE  SamePlaces(AfterActorRemove(y, a), AfterActorRemove(z, a))
BY DEF AfterActorRemove, ZoneType, SamePlaces

LEMMA ActorAddPlaces ==
  ASSUME NEW z \in ZoneType, NEW a \in Actor, NEW l \in z.locs, a \notin z.actors
  PROVE  LET y == AfterActorAdd(z, a, l)
         IN  /\ y.locs = z.locs /\ y.def = z.def /\ y.actors = z.actors \cup {a}
             /\ y.at = [z.at EXCEPT ![a] = l]
             /\ Listed(z) => Listed(y)
             /\ Single(z) => Single(y)
<1> DEFINE y == AfterActorAdd(z, a, l)
<1>1. Arrival(z, l) = l /\ l \in Location  BY DEF Arrival, ZoneType
<1>2. /\ y.locs = z.locs /\ y.def = z.def /\ y.actors = z.actors \cup {a}
      /\ y.at = [z.at EXCEPT ![a] = l]
      /\ y.here = [z.here EXCEPT ![l] = @ \cup {a}]
  BY <1>1 DEF AfterActorAdd, ZoneType
<1> HIDE DEF y
<1>3. Listed(z) => Listed(y)  BY <1>1, <1>2 DEF Listed, ZoneType
<1>4. Single(z) => Single(y)  BY <1>1, <1>2 DEF Single, ZoneType
<1> QED  BY <1>2, <1>3, <1>4 DEF y

LEMMA ActorMovePlaces ==
  ASSUME NEW z \in ZoneType, NEW a \in Actor, NEW from \in Location, NEW to \in Location,
         a \in z.actors, to \in z.locs
  PROVE  LET y == AfterActorMove(z, a, from, to)
         IN  /\ y.locs = z.locs /\ y.def = z.def /\ y.actors = z.actors
             /\ y.at = [z.at EXCEPT ![a] = to]
             /\ Listed(z) => Listed(y)
             /\ Single(z) /\ z.at[a] = from => Single(y)
<1> DEFINE y == AfterActorMove(z, a, from, to)
<1>1. /\ y.locs = z.locs /\ y.def = z.def /\ y.actors = z.actors
      /\ y.at = [z.at EXCEPT ![a] = to]
      /\ y.here = Relisted(z.here, a, from, to)
  BY DEF AfterActorMove, ZoneType
<1>2. \A l \in Location : Relisted(z.here, a, from, to)[l] =
          IF l = to THEN z.here[l] \cup {a}
          ELSE IF l = from THEN z.here[l] \ {a} ELSE z.here[l]
  BY DEF Relisted, ZoneType
<1>3. a \in Actor /\ to \in Location /\ z.at \in [Actor -> Location \cup {Nil}]
      /\ z.actors \subseteq Actor /\ z.locs \subseteq Location
  BY DEF ZoneType
<1> HIDE DEF y
<1>4. Listed(z) => Listed(y)  BY <1>1, <1>2, <1>3 DEF Listed
<1>5. Single(z) /\ z.at[a] = from => Single(y)
  <2> SUFFICES ASSUME Single(z), z.at[a] = from, NEW l \in Location, NEW b \in y.here[l]
               PROVE  b \in y.actors /\ y.at[b] = l
    BY DEF Single
  <2>1. b \in IF l = to THEN z.here[l] \cup {a}
             ELSE IF l = from THEN z.here[l] \ {a} ELSE z.here[l]
    BY <1>1, <1>2
  <2>2. b = a => l = to  BY <2>1 DEF Single
  <2>3. b # a => b \in z.here[l] /\ y.at[b] = z.at[b]  BY <1>1, <1>3, <2>1
  <2>4. y.at[a] = to  BY <1>1, <1>3
  <2> QED  BY <1>1, <2>2, <2>3, <2>4 DEF Single
<1> QED  BY <1>1, <1>4, <1>5 DEF y

LEMMA ActorsRelocatePlaces ==
  ASSUME NEW z \in ZoneType, NEW A \in SUBSET Actor, NEW to \in Location
  PROVE  LET y == AfterActorsRelocate(z, A, to)
         IN  /\ y.locs = z.locs /\ y.def = z.def /\ y.actors = z.actors
             /\ y.at = [a \in Actor |-> IF a \in A THEN to ELSE z.at[a]]
             /\ to \in z.locs /\ Listed(z) => Listed(y)
             /\ A \subseteq z.actors /\ Single(z) => Single(y)
<1> DEFINE y == AfterActorsRelocate(z, A, to)
<1>1. /\ y.locs = z.locs /\ y.def = z.def /\ y.actors = z.actors
      /\ y.at = [a \in Actor |-> IF a \in A THEN to ELSE z.at[a]]
      /\ y.here = [l \in Location |->
                      IF l = to THEN z.here[l] \cup A
                                ELSE z.here[l] \ {a \in A : z.at[a] = l}]
  BY DEF AfterActorsRelocate, ZoneType
<1>2. z.actors \subseteq Actor /\ z.locs \subseteq Location
      /\ \A l \in Location : z.here[l] \subseteq Actor
  BY DEF ZoneType
<1> HIDE DEF y
<1>3. to \in z.locs /\ Listed(z) => Listed(y)  BY <1>1, <1>2 DEF Listed
<1>4. A \subseteq z.actors /\ Single(z) => Single(y)  BY <1>1, <1>2 DEF Single
<1> QED  BY <1>1, <1>3, <1>4 DEF y

LEMMA ActorRemovePlaces ==
  ASSUME NEW z \in ZoneType, NEW a \in Actor
  PROVE  LET y == AfterActorRemove(z, a)
         IN  /\ y.locs = z.locs /\ y.def = z.def /\ y.actors = z.actors \ {a}
             /\ y.at = [z.at EXCEPT ![a] = Nil]
             /\ Listed(z) => Listed(y)
             /\ Single(z) => Single(y)
<1> DEFINE y == AfterActorRemove(z, a)
<1>1. /\ y.locs = z.locs /\ y.def = z.def /\ y.actors = z.actors \ {a}
      /\ y.at = [z.at EXCEPT ![a] = Nil]
      /\ y.here = [l \in Location |->
                      IF l = z.at[a] THEN z.here[l] \ {a} ELSE z.here[l]]
  BY DEF AfterActorRemove, ZoneType
<1>2. z.actors \subseteq Actor /\ z.locs \subseteq Location
      /\ z.at \in [Actor -> Location \cup {Nil}]
  BY DEF ZoneType
<1> HIDE DEF y
<1>3. Listed(z) => Listed(y)  BY <1>1, <1>2 DEF Listed
<1>4. Single(z) => Single(y)  BY <1>1, <1>2 DEF Single
<1> QED  BY <1>1, <1>3, <1>4 DEF y

-----------------------------------------------------------------------------
(* What the steps do to the places *)

LEMMA VacatedPlaces ==
  ASSUME TypeOK, NEW X \in SUBSET Exit, NEW A \in SUBSET Actor,
         NEW O \in SUBSET Object, NEW l
  PROVE  SamePlaces(Vacated(l, X, A, O), AfterActorsRelocate(live, A, live.def))
<1> DEFINE y == AfterExitsRemove(live, X)
           w == AfterActorsRelocate(y, A, live.def)
<1>0. live \in ZoneType /\ live.def \in Location \cup {Nil}  BY DEF TypeOK, ZoneType
<1>1. y \in ZoneType  BY <1>0, ExitsRemoveType
<1>2. SamePlaces(y, live)  BY <1>0 DEF AfterExitsRemove, ZoneType, SamePlaces
<1> HIDE DEF y
<1>3. w \in ZoneType  BY <1>0, <1>1, ActorsRelocateType
<1>4. SamePlaces(w, AfterActorsRelocate(live, A, live.def))
  BY <1>0, <1>1, <1>2, RelocateFrame
<1> HIDE DEF w
<1>5. SamePlaces(AfterObjectsRelocate(w, O, live.def), w)
  BY <1>3 DEF AfterObjectsRelocate, ZoneType, SamePlaces
<1> QED  BY <1>4, <1>5 DEF Vacated, SamePlaces, y, w

LEMMA DeathPlaces ==
  ASSUME TypeOK, NEW z \in ZoneType, NEW d, NEW a \in Actor, NEW k \in Corpse,
         SamePlaces(z, live), Death(z, d, a, k)
  PROVE  SamePlaces(live', AfterActorRemove(live, a))
<1> DEFINE loot == Contents(live, a)
           l    == live.at[a]
<1>0. live \in ZoneType  BY DEF TypeOK
<1>1. l \in Location  BY DEF Death, TypeOK, ZoneType
<1>2. loot \in SUBSET Object  BY ContentsType DEF TypeOK, Container
<1> HIDE DEF loot, l
<1>3. live' = AfterDeath(z, a, k, l, loot)  BY DEF Death, loot, l
<1>4. PICK y \in ZoneType : SamePlaces(y, z) /\ live' = AfterActorRemove(y, a)
  BY <1>1, <1>2, <1>3, DeathFrame
<1>5. SamePlaces(y, live)  BY <1>4 DEF SamePlaces
<1> QED  BY <1>0, <1>4, <1>5, RemoveFrame

(* An Actor arrives, or dies, or all stay where they are. *)
ActorEffect ==
    \/ SamePlaces(live', live)
    \/ \E a \in Actor : \E l \in live.locs :
           a \notin used /\ a \in used' /\ live' = AfterActorAdd(live, a, l)
    \/ \E a \in Actor : SamePlaces(live', AfterActorRemove(live, a))

LEMMA ActorPlaces ==
  ASSUME TypeOK, ActorStep
  PROVE  ActorEffect /\ used \subseteq used' /\ pending' = pending
<1>0. live \in ZoneType  BY DEF TypeOK
<1> DEFINE Goal == ActorEffect /\ used \subseteq used' /\ pending' = pending
<1>1. ASSUME NEW a \in Actor, NEW l \in Location, AddActor(a, l)  PROVE Goal
  BY <1>1 DEF AddActor, Use, Fresh, ActorEffect
<1>2. ASSUME NEW a \in Actor, NEW k \in Corpse, Die(a, k)  PROVE Goal
  <2>1. Death(live, disk, a, k) /\ SamePlaces(live, live)
    BY <1>2 DEF Die, SamePlaces
  <2>2. used \subseteq used' /\ pending' = pending  BY <2>1 DEF Death, Use
  <2> QED  BY <1>0, <2>1, <2>2, DeathPlaces DEF ActorEffect
<1>3. ASSUME NEW a \in Actor, NEW b \in Actor, NEW d \in 1..MaxHp, Hit(a, b, d)
      PROVE  Goal
  BY <1>0, <1>3, DamageFrame DEF Hit, ActorEffect
<1>4. ASSUME NEW a \in Actor, NEW b \in Actor, NEW d \in 1..MaxHp, NEW k \in Corpse,
             HitToDeath(a, b, d, k)
      PROVE  Goal
  <2> DEFINE hurt == AfterDamage(live, b, d)
  <2>1. d \in Nat  BY ConstantsAssumption
  <2>2. hurt \in ZoneType /\ SamePlaces(hurt, live)
    BY <1>0, <2>1, DamageType, DamageFrame
  <2>3. Death(hurt, AfterDamage(disk, b, d), b, k)  BY <1>4 DEF HitToDeath
  <2> HIDE DEF hurt
  <2>4. SamePlaces(live', AfterActorRemove(live, b))  BY <2>2, <2>3, DeathPlaces
  <2>5. used \subseteq used' /\ pending' = pending  BY <2>3 DEF Death, Use
  <2> QED  BY <2>4, <2>5 DEF ActorEffect
<1> QED  BY <1>1, <1>2, <1>3, <1>4 DEF ActorStep

(* What became of the commands in the queue: each is still there, or was   *)
(* run, or is new and of a kind that concerns no place.                    *)
Undisturbed(s) ==
    pending'[s] = pending[s] \/ ~(Has(s, "move") \/ Has(s, "removeLocation"))'

LEMMA AnswerUndisturbs ==
  ASSUME TypeOK, NEW s \in Session, Answer(s)
  PROVE  \A t \in Session : Undisturbed(t) /\ (t # s => pending'[t] = pending[t])
BY DEF TypeOK, Answer, Undisturbed, Has

-----------------------------------------------------------------------------
(* Nobody is nowhere *)

RemovalsGuarded ==
    \A s \in Session : Has(s, "removeLocation") =>
        s \in Editor /\ live.def \notin {Nil, pending[s].loc}

ListedInv ==
    /\ TypeOK
    /\ Listed(live)
    /\ live.def \in live.locs \cup {Nil}
    /\ RemovalsGuarded

LEMMA ListedStep ==
  ASSUME SoleEditor, ListedInv, [Next]_vars
  PROVE  ListedInv'
<1> DEFINE Kept == /\ Listed(live') /\ live'.def \in live'.locs \cup {Nil}
                   /\ RemovalsGuarded'
<1> SUFFICES Kept  BY TypeStep DEF ListedInv, Listed
<1>0. /\ live \in ZoneType /\ TypeOK /\ Listed(live)
      /\ live.def \in live.locs \cup {Nil} /\ RemovalsGuarded
      /\ pending \in [Session -> Request \cup {Nil}]
  BY DEF ListedInv, TypeOK
<1>1. ASSUME SamePlaces(live', live), \A t \in Session : Undisturbed(t)  PROVE Kept
  <2>1. Listed(live')  BY <1>0, <1>1, PlacesFrame
  <2>2. live'.def = live.def /\ live'.locs = live.locs  BY <1>1 DEF SamePlaces
  <2> QED  BY <1>0, <1>1, <2>1, <2>2 DEF RemovalsGuarded, Undisturbed, Has
<1>2. ASSUME NEW s \in Editor, EditorStep(s)  PROVE Kept
  <2>1. ASSUME NEW l \in Location, AddLocation(s, l)  PROVE Kept
    BY <1>0, <2>1 DEF AddLocation, AfterLocationAdd, ZoneType, Listed, RemovalsGuarded, Has
  <2>2. ASSUME NEW l \in Location, SetDefaultLocation(s, l)  PROVE Kept
    <3>1. \A t \in Session : ~Has(t, "removeLocation")
      BY <1>0, <2>2 DEF SoleEditor, RemovalsGuarded, SetDefaultLocation, Idle, Has
    <3>2. live' = AfterSetDefault(live, l) /\ l \in live.locs /\ pending' = pending
      BY <2>2 DEF SetDefaultLocation
    <3>3. Listed(live') /\ live'.def = l /\ live'.locs = live.locs
      BY <1>0, <3>2 DEF AfterSetDefault, ZoneType, Listed
    <3> QED  BY <3>1, <3>2, <3>3 DEF RemovalsGuarded, Has
  <2>3. ASSUME NEW x \in Exit, NEW l, NEW d, NEW t, AddExit(s, x, l, d, t)  PROVE Kept
    BY <1>0, <1>1, <2>3, ExitEventsFrame DEF AddExit, Undisturbed
  <2>4. ASSUME NEW x \in Exit, RemoveExit(s, x)  PROVE Kept
    BY <1>0, <1>1, <2>4, ExitEventsFrame DEF RemoveExit, Undisturbed
  <2>5. ASSUME NEW x, NEW d, NEW t, PrepareUpdateExit(s, x, d, t)  PROVE Kept
    BY <1>0, <1>1, <2>5 DEF PrepareUpdateExit, Prepare, SamePlaces, Undisturbed, Has
  <2>6. ASSUME NEW l \in Location, PrepareRemoveLocation(s, l)  PROVE Kept
    BY <1>0, <2>6, SessionAssumption, ConstantsAssumption
       DEF PrepareRemoveLocation, Prepare, RemovalsGuarded, Has, Listed
  <2> QED  BY <1>2, <2>1, <2>2, <2>3, <2>4, <2>5, <2>6 DEF EditorStep
<1>3. CASE ActorStep
  <2>0. ActorEffect /\ used \subseteq used' /\ pending' = pending  BY <1>0, <1>3, ActorPlaces
  <2>1. CASE SamePlaces(live', live)  BY <1>1, <2>0, <2>1 DEF Undisturbed
  <2>2. ASSUME NEW a \in Actor, NEW l \in live.locs, live' = AfterActorAdd(live, a, l)
        PROVE  Kept
    <3>1. live'.locs = live.locs /\ live'.def = live.def /\ Listed(live')
      <4>1. Arrival(live, l) = l  BY DEF Arrival
      <4> QED  BY <1>0, <2>2, <4>1 DEF AfterActorAdd, ZoneType, Listed
    <3> QED  BY <1>0, <2>0, <3>1 DEF RemovalsGuarded, Has
  <2>3. ASSUME NEW a \in Actor, SamePlaces(live', AfterActorRemove(live, a))  PROVE Kept
    <3>1. live'.locs = live.locs /\ live'.def = live.def /\ Listed(live')
      BY <1>0, <2>3, ActorRemovePlaces, PlacesFrame DEF SamePlaces
    <3> QED  BY <1>0, <2>0, <3>1 DEF RemovalsGuarded, Has
  <2> QED  BY <2>0, <2>1, <2>2, <2>3 DEF ActorEffect
<1>4. CASE ObjectStep  BY <1>0, <1>1, <1>4, ObjectPassages DEF Undisturbed
<1>5. ASSUME NEW s \in Session, RequestStep(s)  PROVE Kept
  <2>0. pending[s] \in Request \cup {Nil}  BY <1>0
  <2>1. CASE UpdateExit(s)
    <3>1. pending[s].exit \in Exit  BY <2>0, <2>1 DEF UpdateExit, Has, Request
    <3> QED  BY <1>0, <1>1, <2>1, <3>1, ExitEventsFrame, AnswerUndisturbs DEF UpdateExit
  <2>2. CASE RemoveLocation(s)
    <3> DEFINE l == pending[s].loc
               gone == Vacated(l, ExitsAt(l), live.here[l], live.holds[l])
               sent == AfterActorsRelocate(live, live.here[l], live.def)
    <3>1. l \in Location /\ Has(s, "removeLocation")
      BY <2>0, <2>2 DEF RemoveLocation, Has, Request
    <3>2. live' = AfterLocationRemove(gone, l) /\ Answer(s)  BY <2>2 DEF RemoveLocation
    <3>3. live.def \in live.locs /\ live.def # l /\ live.def \in Location
      BY <1>0, <3>1 DEF RemovalsGuarded, ZoneType
    <3> HIDE DEF l
    <3>4. /\ ExitsAt(l) \in SUBSET Exit
          /\ live.here[l] \in SUBSET Actor /\ live.holds[l] \in SUBSET Object
      BY <1>0, <3>1 DEF ZoneType, ExitsAt, ExitsToLocation, Container
    <3>5. SamePlaces(gone, sent) /\ gone \in ZoneType
      BY <1>0, <3>1, <3>4, VacatedPlaces, VacatedType
    <3>6. /\ sent.locs = live.locs /\ sent.def = live.def /\ sent.actors = live.actors
          /\ sent.at = [a \in Actor |-> IF a \in live.here[l] THEN live.def ELSE live.at[a]]
          /\ Listed(sent)
      BY <1>0, <3>3, <3>4, ActorsRelocatePlaces
    <3>7. \A a \in live.actors : sent.at[a] # l
      BY <1>0, <3>3, <3>6 DEF Listed, ZoneType
    <3> HIDE DEF gone, sent
    <3>8. Listed(gone) /\ (\A a \in gone.actors : gone.at[a] # l)
          /\ gone.def = live.def /\ gone.locs = live.locs
      BY <3>5, <3>6, <3>7, PlacesFrame DEF SamePlaces
    <3>9. Listed(live') /\ live'.def = live.def /\ live'.locs = live.locs \ {l}
      BY <3>1, <3>2, <3>5, <3>8 DEF AfterLocationRemove, ZoneType, Listed
    <3> QED
      BY <1>0, <3>2, <3>3, <3>9, AnswerUndisturbs DEF RemovalsGuarded, Undisturbed, Has
  <2>3. CASE RemoveLocationFails(s)
    <3> DEFINE l == pending[s].loc
    <3>1. l \in Location /\ Has(s, "removeLocation") /\ Answer(s)
      BY <2>0, <2>3 DEF RemoveLocationFails, Has, Request
    <3>2. live.def \in live.locs /\ live.def \in Location
      BY <1>0, <3>1 DEF RemovalsGuarded, ZoneType
    <3> HIDE DEF l
    <3>3. ExitsAt(l) \in SUBSET Exit /\ live.here[l] \in SUBSET Actor
      BY <1>0, <3>1 DEF ZoneType, ExitsAt, ExitsToLocation
    <3>4. ASSUME NEW X, live' = AfterExitsRemove(live, X)  PROVE Kept
      BY <1>0, <1>1, <3>1, <3>4, AnswerUndisturbs DEF AfterExitsRemove, ZoneType, SamePlaces
    <3>5. ASSUME NEW A \in SUBSET Actor, live' = Vacated(l, ExitsAt(l), A, {})  PROVE Kept
      <4> DEFINE sent == AfterActorsRelocate(live, A, live.def)
      <4>1. SamePlaces(live', sent)  BY <1>0, <3>3, <3>5, VacatedPlaces
      <4>2. sent.locs = live.locs /\ sent.def = live.def /\ Listed(sent)
        <5>1. live \in ZoneType /\ Listed(live)  BY <1>0
        <5> QED  BY <5>1, <3>2, ActorsRelocatePlaces
      <4> HIDE DEF sent
      <4>3. Listed(live') /\ live'.def = live.def /\ live'.locs = live.locs
        BY <4>1, <4>2, PlacesFrame DEF SamePlaces
      <4> QED  BY <1>0, <3>1, <4>3, AnswerUndisturbs DEF RemovalsGuarded, Undisturbed, Has
    <3>6. \A A \in SUBSET (live.here[l] \cap live.actors) : A \in SUBSET Actor  BY <3>3
    <3> QED  BY <2>3, <3>4, <3>5, <3>6 DEF RemoveLocationFails, l
  <2>4. CASE Move(s)
    <3> DEFINE a    == pending[s].actor
               from == pending[s].from
               to   == pending[s].to
    <3>1. /\ a \in Actor /\ from \in Location /\ to \in Location
          /\ a \in live.actors /\ to \in live.locs /\ Answer(s)
          /\ live' = AfterActorMove(live, a, from, to)
      BY <2>0, <2>4 DEF Move, Has, Request, CanMove
    <3>2. live \in ZoneType /\ Listed(live)  BY <1>0
    <3> HIDE DEF a, from, to
    <3>3. Listed(live')  BY <3>1, <3>2, ActorMovePlaces
    <3>4. live'.def = live.def /\ live'.locs = live.locs
      BY <3>1, <3>2 DEF AfterActorMove, ZoneType
    <3> QED  BY <1>0, <3>1, <3>3, <3>4, AnswerUndisturbs DEF RemovalsGuarded, Undisturbed, Has
  <2>5. CASE Reap(s)
    <3>1. pending[s].obj \in Object  BY <2>0, <2>5 DEF Reap, Has, Request
    <3>2. SamePlaces(live', live)
      BY <1>0, <2>5, <3>1 DEF Reap, AfterObjectRemove, ZoneType, SamePlaces
    <3> QED  BY <1>0, <1>1, <2>5, <3>2, AnswerUndisturbs DEF Reap
  <2>6. CASE Reject(s)
    BY <1>0, <1>1, <2>6, AnswerUndisturbs DEF Reject, SamePlaces
  <2> QED  BY <1>5, <2>1, <2>2, <2>3, <2>4, <2>5, <2>6 DEF RequestStep
<1>6. ASSUME NEW s \in Session, NEW r \in Request, Prepare(s, r),
             r.kind # "removeLocation"
      PROVE  Kept
  BY <1>0, <1>6 DEF Prepare, RemovalsGuarded, Has, Listed
<1>7. ASSUME NEW s \in Session, NEW a \in Actor, NEW x \in Exit, PrepareMove(s, a, x)
      PROVE  Kept
  <2>1. [kind |-> "move", actor |-> a, from |-> live.at[a], to |-> live.dst[x]] \in Request
    BY <1>0, <1>7 DEF PrepareMove, Request, ZoneType
  <2> QED  BY <1>6, <1>7, <2>1 DEF PrepareMove
<1>8. ASSUME NEW s \in Session, NEW o \in Object, NEW l \in Location, PrepareReap(s, o, l)
      PROVE  Kept
  BY <1>6, <1>8 DEF PrepareReap, Request
<1>9. CASE UNCHANGED vars
  BY <1>0, <1>9 DEF vars, RemovalsGuarded, Has, Listed
<1> QED  BY <1>2, <1>3, <1>4, <1>5, <1>7, <1>8, <1>9, SessionAssumption DEF Next

(* However many sessions move Actors about, with one editor at a time no   *)
(* Actor ever loses its Location.                                          *)
THEOREM ActorsListed == ASSUME SoleEditor PROVE Spec => []ActorListed
<1>1. Init => ListedInv
  BY EmptyZoneType DEF Init, ListedInv, TypeOK, Listed, EmptyZone, RemovalsGuarded, Has
<1>2. ListedInv /\ [Next]_vars => ListedInv'  BY ListedStep
<1>3. ListedInv => ActorListed  BY DEF ListedInv, Listed, ActorListed
<1> QED  BY <1>1, <1>2, <1>3, PTL DEF Spec

-----------------------------------------------------------------------------
(* Nobody is in two places.  A prepared move stays true of its Actor: no   *)
(* other session moves it, its death withdraws it, and the removal of the  *)
(* Location where it stands makes the handler refuse the move.  An id that *)
(* was given out does not come back, so neither do the Actor and Location  *)
(* of a command in the queue.                                              *)

GivenOut ==
    /\ live.locs \subseteq used /\ live.actors \subseteq used
    /\ live.def \in used \cup {Nil}
    /\ \A a \in Actor : live.at[a] \in used \cup {Nil}

MovesCurrent ==
    \A s \in Session : Has(s, "move") =>
        /\ <<s, pending[s].actor>> \in Drives
        /\ pending[s].actor \in used /\ pending[s].from \in used
        /\ pending[s].actor \in live.actors /\ pending[s].from \in live.locs
               => live.at[pending[s].actor] = pending[s].from

SingleInv == TypeOK /\ Single(live) /\ GivenOut /\ MovesCurrent

LEMMA SingleStep ==
  ASSUME SoleDriver, SingleInv, [Next]_vars
  PROVE  SingleInv'
<1> DEFINE Kept == Single(live') /\ GivenOut' /\ MovesCurrent'
<1> SUFFICES Kept  BY TypeStep DEF SingleInv, Single
<1>0. /\ live \in ZoneType /\ TypeOK /\ Single(live)
      /\ GivenOut /\ MovesCurrent
      /\ pending \in [Session -> Request \cup {Nil}]
  BY DEF SingleInv, TypeOK
<1>z. live \in ZoneType /\ Single(live)  BY <1>0
<1>1. ASSUME SamePlaces(live', live), used \subseteq used', \A t \in Session : Undisturbed(t)
      PROVE  Kept
  <2>1. Single(live')  BY <1>z, <1>1, PlacesFrame
  <2>2. GivenOut'  BY <1>0, <1>1 DEF SamePlaces, GivenOut
  <2>3. MovesCurrent'  BY <1>0, <1>1 DEF SamePlaces, MovesCurrent, Undisturbed, Has
  <2> QED  BY <2>1, <2>2, <2>3
<1>2. ASSUME NEW s \in Session, EditorStep(s)  PROVE Kept
  <2>1. ASSUME NEW l \in Location, AddLocation(s, l)  PROVE Kept
    <3>1. /\ l \notin used /\ used' = used \cup {l} /\ pending' = pending
          /\ live' = AfterLocationAdd(live, l)
      BY <2>1 DEF AddLocation, Fresh, Use
    <3>2. /\ live'.locs = live.locs \cup {l} /\ live'.def = live.def
          /\ live'.actors = live.actors /\ live'.at = live.at /\ live'.here = live.here
      BY <1>z, <3>1 DEF AfterLocationAdd, ZoneType
    <3>3. Single(live')  BY <1>z, <3>2 DEF Single
    <3>4. GivenOut'  BY <1>0, <3>1, <3>2 DEF GivenOut
    <3>5. MovesCurrent'  BY <1>0, <3>1, <3>2 DEF MovesCurrent, Has
    <3> QED  BY <3>3, <3>4, <3>5
  <2>2. ASSUME NEW l \in Location, SetDefaultLocation(s, l)  PROVE Kept
    <3>1. /\ live' = AfterSetDefault(live, l) /\ l \in live.locs
          /\ pending' = pending /\ used' = used
      BY <2>2 DEF SetDefaultLocation
    <3>2. /\ live'.locs = live.locs /\ live'.def = l
          /\ live'.actors = live.actors /\ live'.at = live.at /\ live'.here = live.here
      BY <1>z, <3>1 DEF AfterSetDefault, ZoneType
    <3>3. Single(live')  BY <1>z, <3>2 DEF Single
    <3>4. GivenOut'  BY <1>0, <3>1, <3>2 DEF GivenOut
    <3>5. MovesCurrent'  BY <1>0, <3>1, <3>2 DEF MovesCurrent, Has
    <3> QED  BY <3>3, <3>4, <3>5
  <2>3. ASSUME NEW x \in Exit, NEW l, NEW d, NEW t, AddExit(s, x, l, d, t)  PROVE Kept
    BY <1>z, <1>1, <2>3, ExitEventsFrame DEF AddExit, Use, Undisturbed
  <2>4. ASSUME NEW x \in Exit, RemoveExit(s, x)  PROVE Kept
    BY <1>z, <1>1, <2>4, ExitEventsFrame DEF RemoveExit, Undisturbed
  <2>5. ASSUME NEW x, NEW d, NEW t, PrepareUpdateExit(s, x, d, t)  PROVE Kept
    BY <1>0, <1>1, <2>5 DEF PrepareUpdateExit, Prepare, SamePlaces, Undisturbed, Has
  <2>6. ASSUME NEW l \in Location, PrepareRemoveLocation(s, l)  PROVE Kept
    <3>1. live' = live /\ used' = used
          /\ \A t \in Session : Has(t, "move")' => pending'[t] = pending[t]
      BY <1>0, <2>6 DEF PrepareRemoveLocation, Prepare, Has
    <3> QED  BY <1>0, <3>1 DEF MovesCurrent, GivenOut, Has, Single
  <2> QED  BY <1>2, <2>1, <2>2, <2>3, <2>4, <2>5, <2>6 DEF EditorStep
<1>3. CASE ActorStep
  <2>0. ActorEffect /\ used \subseteq used' /\ pending' = pending  BY <1>0, <1>3, ActorPlaces
  <2>1. CASE SamePlaces(live', live)  BY <1>1, <2>0, <2>1 DEF Undisturbed
  <2>2. ASSUME NEW a \in Actor, NEW l \in live.locs, a \notin used, a \in used',
               live' = AfterActorAdd(live, a, l)
        PROVE  Kept
    <3>0. a \notin live.actors /\ l \in Location /\ l \in used'
      BY <1>0, <2>0, <2>2 DEF GivenOut, ZoneType
    <3>1. /\ live'.locs = live.locs /\ live'.def = live.def
          /\ live'.actors = live.actors \cup {a} /\ live'.at = [live.at EXCEPT ![a] = l]
          /\ live'.here = [live.here EXCEPT ![l] = @ \cup {a}]
      <4>1. Arrival(live, l) = l  BY <2>2 DEF Arrival
      <4> QED  BY <1>z, <2>2, <3>0, <4>1 DEF AfterActorAdd, ZoneType
    <3>2. Single(live')  BY <1>z, <3>0, <3>1 DEF Single, ZoneType
    <3>3. GivenOut'  BY <1>0, <2>0, <2>2, <3>0, <3>1 DEF GivenOut, ZoneType
    <3>4. MovesCurrent'  BY <1>0, <2>0, <2>2, <3>1 DEF MovesCurrent, Has, ZoneType
    <3> QED  BY <3>2, <3>3, <3>4
  <2>3. ASSUME NEW a \in Actor, SamePlaces(live', AfterActorRemove(live, a))  PROVE Kept
    <3>1. /\ live'.locs = live.locs /\ live'.def = live.def
          /\ live'.actors = live.actors \ {a} /\ live'.at = [live.at EXCEPT ![a] = Nil]
      BY <1>z, <2>3 DEF AfterActorRemove, ZoneType, SamePlaces
    <3>2. Single(live')  BY <1>z, <2>3, ActorRemovePlaces, PlacesFrame
    <3>3. GivenOut'  BY <1>0, <2>0, <3>1 DEF GivenOut, ZoneType
    <3>4. MovesCurrent'  BY <1>0, <2>0, <3>1 DEF MovesCurrent, Has, ZoneType
    <3> QED  BY <3>2, <3>3, <3>4
  <2> QED  BY <2>0, <2>1, <2>2, <2>3 DEF ActorEffect
<1>4. CASE ObjectStep  BY <1>0, <1>1, <1>4, ObjectPassages DEF Undisturbed
<1>5. ASSUME NEW s \in Session, RequestStep(s)  PROVE Kept
  <2>0. pending[s] \in Request \cup {Nil}  BY <1>0
  <2>1. CASE UpdateExit(s)
    <3>1. pending[s].exit \in Exit  BY <2>0, <2>1 DEF UpdateExit, Has, Request
    <3> QED  BY <1>0, <1>1, <2>1, <3>1, ExitEventsFrame, AnswerUndisturbs DEF UpdateExit
  <2>2. CASE RemoveLocation(s)
    <3> DEFINE l == pending[s].loc
               gone == Vacated(l, ExitsAt(l), live.here[l], live.holds[l])
               sent == AfterActorsRelocate(live, live.here[l], live.def)
    <3>1. l \in Location /\ Has(s, "removeLocation") /\ CanRemoveLocation(l)
      BY <2>0, <2>2 DEF RemoveLocation, Has, Request
    <3>2. live' = AfterLocationRemove(gone, l) /\ Answer(s) /\ used' = used
      BY <2>2 DEF RemoveLocation
    <3> HIDE DEF l
    <3>3. /\ ExitsAt(l) \in SUBSET Exit /\ live.here[l] \subseteq live.actors
          /\ live.here[l] \in SUBSET Actor /\ live.holds[l] \in SUBSET Object
      BY <1>z, <3>1 DEF ZoneType, ExitsAt, ExitsToLocation, Container, Single
    <3>4. SamePlaces(gone, sent) /\ gone \in ZoneType
      BY <1>0, <3>1, <3>3, VacatedPlaces, VacatedType
    <3>5. /\ sent.locs = live.locs /\ sent.def = live.def /\ sent.actors = live.actors
          /\ sent.at = [a \in Actor |-> IF a \in live.here[l] THEN live.def ELSE live.at[a]]
          /\ sent.here = [k \in Location |->
                             IF k = live.def THEN live.here[k] \cup live.here[l]
                             ELSE live.here[k] \ {a \in live.here[l] : live.at[a] = k}]
      BY <1>z, <3>3 DEF AfterActorsRelocate, ZoneType
    <3>6. live.def = Nil => live.here[l] = {}
      BY <3>1 DEF CanRemoveLocation
    <3>7. Single(sent)
      BY <1>z, <3>1, <3>3, <3>5, <3>6 DEF Single, ZoneType
    <3> HIDE DEF gone, sent
    <3>8. /\ live'.locs = live.locs \ {l} /\ live'.def = live.def
          /\ live'.actors = live.actors /\ live'.at = sent.at /\ live'.here = sent.here
      BY <3>1, <3>2, <3>4, <3>5 DEF AfterLocationRemove, ZoneType, SamePlaces
    <3>9. Single(live')  BY <3>5, <3>7, <3>8 DEF Single
    <3>10. GivenOut'  BY <1>0, <3>2, <3>5, <3>8 DEF GivenOut
    <3>11. MovesCurrent'
      <4>1. \A a \in Actor : live'.at[a] # live.at[a] => live.at[a] = l
        BY <1>z, <3>1, <3>5, <3>8 DEF Single
      <4>2. \A t \in Session : Has(t, "move")' => pending'[t] = pending[t] /\ pending[t].actor \in Actor
        BY <1>0, <3>2 DEF Answer, Has, Request
      <4> QED  BY <1>0, <3>2, <3>8, <4>1, <4>2 DEF MovesCurrent, Has
    <3> QED  BY <3>9, <3>10, <3>11
  <2>3. CASE RemoveLocationFails(s)
    <3> DEFINE l == pending[s].loc
    <3>1. l \in Location /\ Answer(s) /\ used' = used
      BY <2>0, <2>3 DEF RemoveLocationFails, Has, Request
    <3> HIDE DEF l
    <3>2. DeadActors(l) = {}  BY <1>z, <3>1 DEF DeadActors, Single
    <3>3. ASSUME NEW X, live' = AfterExitsRemove(live, X)  PROVE Kept
      BY <1>0, <1>1, <3>1, <3>3, AnswerUndisturbs DEF AfterExitsRemove, ZoneType, SamePlaces
    <3> QED  BY <2>3, <3>2, <3>3 DEF RemoveLocationFails, l
  <2>4. CASE Move(s)
    <3> DEFINE a    == pending[s].actor
               from == pending[s].from
               to   == pending[s].to
    <3>1. /\ a \in Actor /\ from \in Location /\ to \in Location
          /\ a \in live.actors /\ from \in live.locs /\ to \in live.locs
          /\ live.at[a] = from /\ <<s, a>> \in Drives
          /\ live' = AfterActorMove(live, a, from, to) /\ Answer(s) /\ used' = used
      BY <1>0, <2>0, <2>4 DEF Move, Has, Request, CanMove, MovesCurrent
    <3>a. \A t \in Session : Has(t, "move")' =>
              /\ pending'[t] = pending[t] /\ Has(t, "move")
              /\ pending[t].actor \in Actor /\ pending[t].actor # a
      <4>1. \A t \in Session : Has(t, "move")' =>
                t # s /\ pending'[t] = pending[t] /\ Has(t, "move") /\ pending[t].actor \in Actor
        BY <1>0, <3>1 DEF Answer, Has, Request
      <4> HIDE DEF a
      <4> QED  BY <1>0, <3>1, <4>1 DEF MovesCurrent, SoleDriver
    <3> HIDE DEF a, from, to
    <3>2. Single(live')  BY <1>z, <3>1, ActorMovePlaces
    <3>3. /\ live'.locs = live.locs /\ live'.def = live.def /\ live'.actors = live.actors
          /\ live'.at = [live.at EXCEPT ![a] = to]
      BY <1>z, <3>1 DEF AfterActorMove, ZoneType
    <3>4. GivenOut'  BY <1>0, <3>1, <3>3 DEF GivenOut, ZoneType
    <3>5. MovesCurrent'
      <4>1. \A b \in Actor : b # a => live'.at[b] = live.at[b]  BY <1>z, <3>3 DEF ZoneType
      <4> QED  BY <1>0, <3>1, <3>a, <3>3, <4>1 DEF MovesCurrent
    <3> QED  BY <3>2, <3>4, <3>5
  <2>5. CASE Reap(s)
    <3>1. pending[s].obj \in Object  BY <2>0, <2>5 DEF Reap, Has, Request
    <3>2. SamePlaces(live', live)
      BY <1>z, <2>5, <3>1 DEF Reap, AfterObjectRemove, ZoneType, SamePlaces
    <3> QED  BY <1>0, <1>1, <2>5, <3>2, AnswerUndisturbs DEF Reap
  <2>6. CASE Reject(s)
    BY <1>0, <1>1, <2>6, AnswerUndisturbs DEF Reject, SamePlaces
  <2> QED  BY <1>5, <2>1, <2>2, <2>3, <2>4, <2>5, <2>6 DEF RequestStep
<1>6. ASSUME NEW s \in Session, NEW a \in Actor, NEW x \in Exit, PrepareMove(s, a, x)
      PROVE  Kept
  <2> DEFINE r == [kind |-> "move", actor |-> a, from |-> live.at[a], to |-> live.dst[x]]
  <2>1. /\ live' = live /\ used' = used /\ <<s, a>> \in Drives
        /\ a \in live.actors /\ live.at[a] # Nil
        /\ pending' = [pending EXCEPT ![s] = r]
    BY <1>6 DEF PrepareMove, Prepare
  <2>2. r.actor = a /\ r.from = live.at[a]  OBVIOUS
  <2> HIDE DEF r
  <2>3. a \in used /\ live.at[a] \in used  BY <1>0, <2>1 DEF GivenOut
  <2>4. MovesCurrent'  BY <1>0, <2>1, <2>2, <2>3 DEF MovesCurrent, Has
  <2> QED  BY <1>0, <2>1, <2>4 DEF GivenOut, Single
<1>7. ASSUME NEW s \in Session, NEW o \in Object, NEW l \in Location, PrepareReap(s, o, l)
      PROVE  Kept
  <2>1. live' = live /\ used' = used
        /\ \A t \in Session : Has(t, "move")' => pending'[t] = pending[t]
    BY <1>0, <1>7 DEF PrepareReap, Prepare, Has
  <2> QED  BY <1>0, <2>1 DEF MovesCurrent, GivenOut, Has, Single
<1>8. CASE UNCHANGED vars
  BY <1>0, <1>8 DEF vars, MovesCurrent, GivenOut, Has, Single
<1> QED  BY <1>2, <1>3, <1>4, <1>5, <1>6, <1>7, <1>8, SessionAssumption DEF Next

(* As long as one session commands each Actor, the commands that sleep and *)
(* cross on their way never leave an Actor listed in a Location where it   *)
(* is not, however many editors rebuild the world meanwhile.  Without the  *)
(* assumption TLC finds the opposite.                                      *)
THEOREM ActorsInOnePlace == ASSUME SoleDriver PROVE Spec => []OneLocation
<1>1. Init => SingleInv
  BY EmptyZoneType
     DEF Init, SingleInv, TypeOK, Single, EmptyZone, GivenOut, MovesCurrent, Has
<1>2. SingleInv /\ [Next]_vars => SingleInv'  BY SingleStep
<1>3. SingleInv => OneLocation
  BY DEF SingleInv, TypeOK, ZoneType, Single, OneLocation
<1> QED  BY <1>1, <1>2, <1>3, PTL DEF Spec

-----------------------------------------------------------------------------
(* Nobody is a living dead *)

Healthy(z) == \A a \in z.actors : z.hp[a] > 0

SameLives(y, z) == y.actors = z.actors /\ y.hp = z.hp

LEMMA VacatedLives ==
  ASSUME TypeOK, NEW X \in SUBSET Exit, NEW A \in SUBSET Actor, NEW O, NEW l
  PROVE  SameLives(Vacated(l, X, A, O), live)
<1> DEFINE y == AfterExitsRemove(live, X)
           w == AfterActorsRelocate(y, A, live.def)
<1>0. live \in ZoneType /\ live.def \in Location \cup {Nil}  BY DEF TypeOK, ZoneType
<1>1. y \in ZoneType  BY <1>0, ExitsRemoveType
<1>2. SameLives(y, live)  BY <1>0 DEF AfterExitsRemove, ZoneType, SameLives
<1> HIDE DEF y
<1>3. w \in ZoneType  BY <1>0, <1>1, ActorsRelocateType
<1>4. SameLives(w, y)  BY <1>1 DEF AfterActorsRelocate, ZoneType, SameLives
<1> HIDE DEF w
<1>5. SameLives(AfterObjectsRelocate(w, O, live.def), w)
  BY <1>3 DEF AfterObjectsRelocate, ZoneType, SameLives
<1> QED  BY <1>2, <1>4, <1>5 DEF Vacated, SameLives, y, w

LEMMA DeathLives ==
  ASSUME TypeOK, NEW z \in ZoneType, NEW d, NEW a \in Actor, NEW k \in Corpse, Death(z, d, a, k)
  PROVE  live'.actors = z.actors \ {a} /\ live'.hp = [z.hp EXCEPT ![a] = 0]
<1> DEFINE loot == Contents(live, a)
           l    == live.at[a]
           y    == AfterObjectAdd(z, k, l)
           w    == AfterObjectsRelocate(y, loot, k)
<1>1. l \in Location /\ k \in Object /\ k \in Container
  BY DEF Death, TypeOK, ZoneType, Object, Container
<1>2. loot \in SUBSET Object  BY ContentsType DEF TypeOK, Container
<1>3. live' = AfterActorRemove(w, a)  BY DEF Death, AfterDeath
<1> HIDE DEF loot, l
<1>4. y \in ZoneType  BY <1>1, ObjectAddType
<1>5. SameLives(y, z)  BY DEF AfterObjectAdd, ZoneType, SameLives
<1> HIDE DEF y
<1>6. w \in ZoneType  BY <1>1, <1>2, <1>4, ObjectsRelocateType
<1>7. SameLives(w, y)  BY <1>4 DEF AfterObjectsRelocate, ZoneType, SameLives
<1> HIDE DEF w
<1>8. live'.actors = w.actors \ {a} /\ live'.hp = [w.hp EXCEPT ![a] = 0]
  BY <1>3, <1>6 DEF AfterActorRemove, ZoneType
<1> QED  BY <1>5, <1>7, <1>8 DEF SameLives

LEMMA ActorLives ==
  ASSUME TypeOK, Healthy(live), ActorStep
  PROVE  Healthy(live')
<1>0. live \in ZoneType  BY DEF TypeOK
<1>1. ASSUME NEW a \in Actor, NEW l \in Location, AddActor(a, l)  PROVE Healthy(live')
  <2>1. live'.actors = live.actors \cup {a} /\ live'.hp = [live.hp EXCEPT ![a] = MaxHp]
    BY <1>0, <1>1 DEF AddActor, AfterActorAdd, ZoneType
  <2> QED  BY <1>0, <2>1, ConstantsAssumption DEF Healthy, ZoneType
<1>2. ASSUME NEW z \in ZoneType, NEW d, NEW a \in Actor, NEW k \in Corpse, Death(z, d, a, k),
             z.actors = live.actors, \A b \in Actor : b # a => z.hp[b] = live.hp[b]
      PROVE  Healthy(live')
  <2>1. live'.actors = z.actors \ {a} /\ live'.hp = [z.hp EXCEPT ![a] = 0]
    BY <1>2, DeathLives
  <2>2. z.hp \in [Actor -> 0..MaxHp] /\ live.actors \subseteq Actor  BY <1>0 DEF ZoneType
  <2> QED  BY <1>2, <2>1, <2>2 DEF Healthy
<1>3. ASSUME NEW a \in Actor, NEW k \in Corpse, Die(a, k)  PROVE Healthy(live')
  BY <1>0, <1>2, <1>3 DEF Die
<1>4. ASSUME NEW b \in Actor, NEW d \in 1..MaxHp
      PROVE  /\ AfterDamage(live, b, d) \in ZoneType
             /\ AfterDamage(live, b, d).actors = live.actors
             /\ AfterDamage(live, b, d).hp =
                    [live.hp EXCEPT ![b] = IF d < live.hp[b] THEN live.hp[b] - d ELSE 0]
  <2>1. d \in Nat  BY ConstantsAssumption
  <2>2. AfterDamage(live, b, d) \in ZoneType  BY <1>0, <2>1, DamageType
  <2>3. /\ AfterDamage(live, b, d).actors = live.actors
        /\ AfterDamage(live, b, d).hp =
               [live.hp EXCEPT ![b] = IF d < live.hp[b] THEN live.hp[b] - d ELSE 0]
    BY <1>0 DEF AfterDamage, ZoneType
  <2> QED  BY <2>2, <2>3
<1>5. ASSUME NEW a \in Actor, NEW b \in Actor, NEW d \in 1..MaxHp, Hit(a, b, d)
      PROVE  Healthy(live')
  <2>1. d < live.hp[b] /\ live' = AfterDamage(live, b, d)  BY <1>5 DEF Hit
  <2>2. live.hp \in [Actor -> 0..MaxHp] /\ live.actors \subseteq Actor  BY <1>0 DEF ZoneType
  <2>3. live'.actors = live.actors /\ live'.hp = [live.hp EXCEPT ![b] = live.hp[b] - d]
    BY <1>4, <2>1
  <2>4. live.hp[b] - d > 0  BY <2>1, <2>2, ConstantsAssumption
  <2> QED  BY <2>2, <2>3, <2>4 DEF Healthy
<1>6. ASSUME NEW a \in Actor, NEW b \in Actor, NEW d \in 1..MaxHp, NEW k \in Corpse,
             HitToDeath(a, b, d, k)
      PROVE  Healthy(live')
  <2> DEFINE hurt == AfterDamage(live, b, d)
  <2>1. Death(hurt, AfterDamage(disk, b, d), b, k)  BY <1>6 DEF HitToDeath
  <2>2. /\ hurt \in ZoneType /\ hurt.actors = live.actors
        /\ hurt.hp = [live.hp EXCEPT ![b] = IF d < live.hp[b] THEN live.hp[b] - d ELSE 0]
    BY <1>4
  <2> HIDE DEF hurt
  <2>3. \A c \in Actor : c # b => hurt.hp[c] = live.hp[c]
    <3>1. live.hp \in [Actor -> 0..MaxHp]  BY <1>0 DEF ZoneType
    <3> QED  BY <2>2, <3>1
  <2> QED  BY <1>2, <2>1, <2>2, <2>3
<1> QED  BY <1>1, <1>3, <1>5, <1>6 DEF ActorStep

LEMMA LivesStep ==
  ASSUME TypeOK, Healthy(live), [Next]_vars
  PROVE  Healthy(live')
<1>0. live \in ZoneType  BY DEF TypeOK
<1>1. ASSUME SameLives(live', live)  PROVE Healthy(live')
  BY <1>1 DEF SameLives, Healthy
<1>2. ASSUME NEW s \in Session, EditorStep(s)  PROVE SameLives(live', live)
  <2>1. ASSUME NEW l \in Location, AddLocation(s, l)  PROVE SameLives(live', live)
    BY <1>0, <2>1 DEF AddLocation, AfterLocationAdd, ZoneType, SameLives
  <2>2. ASSUME NEW l \in Location, SetDefaultLocation(s, l)  PROVE SameLives(live', live)
    BY <1>0, <2>2 DEF SetDefaultLocation, AfterSetDefault, ZoneType, SameLives
  <2>3. ASSUME NEW x, NEW l, NEW d, NEW t, AddExit(s, x, l, d, t)  PROVE SameLives(live', live)
    BY <1>0, <2>3 DEF AddExit, AfterExitAdd, ZoneType, SameLives
  <2>4. ASSUME NEW x, RemoveExit(s, x)  PROVE SameLives(live', live)
    BY <1>0, <2>4 DEF RemoveExit, AfterExitsRemove, ZoneType, SameLives
  <2>5. ASSUME NEW x, NEW d, NEW t, PrepareUpdateExit(s, x, d, t)  PROVE SameLives(live', live)
    BY <2>5 DEF PrepareUpdateExit, Prepare, SameLives
  <2>6. ASSUME NEW l, PrepareRemoveLocation(s, l)  PROVE SameLives(live', live)
    BY <2>6 DEF PrepareRemoveLocation, Prepare, SameLives
  <2> QED  BY <1>2, <2>1, <2>2, <2>3, <2>4, <2>5, <2>6 DEF EditorStep
<1>3. ASSUME ObjectStep  PROVE SameLives(live', live)
  <2>1. ASSUME NEW o, NEW l, AddObject(o, l)  PROVE SameLives(live', live)
    BY <1>0, <2>1 DEF AddObject, AfterObjectAdd, ZoneType, SameLives
  <2>2. ASSUME NEW who, NEW from, NEW to, NEW o, MoveObject(who, o, from, to)
        PROVE  SameLives(live', live)
    BY <1>0, <2>2 DEF MoveObject, AfterObjectMove, ZoneType, SameLives
  <2>3. ASSUME NEW who, NEW from, NEW to, NEW o, MoveObjectFails(who, o, from, to)
        PROVE  SameLives(live', live)
    BY <1>0, <2>3 DEF MoveObjectFails, AfterObjectMoveFails, ZoneType, SameLives
  <2>4. ASSUME NEW a, NEW o, Wear(a, o) \/ Unwear(a, o)  PROVE SameLives(live', live)
    BY <1>0, <2>4 DEF Wear, Unwear, AfterMoveSubcontainer, ZoneType, SameLives
  <2> QED  BY <1>3, <2>1, <2>2, <2>3, <2>4 DEF ObjectStep
<1>4. ASSUME NEW s \in Session, RequestStep(s)  PROVE SameLives(live', live)
  <2>0. pending[s] \in Request \cup {Nil}  BY DEF TypeOK
  <2>1. CASE UpdateExit(s)
    BY <1>0, <2>1 DEF UpdateExit, AfterExitUpdate, ZoneType, SameLives
  <2>2. CASE RemoveLocation(s)
    <3> DEFINE l == pending[s].loc
               gone == Vacated(l, ExitsAt(l), live.here[l], live.holds[l])
    <3>1. l \in Location  BY <2>0, <2>2 DEF RemoveLocation, Has, Request
    <3>2. live' = AfterLocationRemove(gone, l)  BY <2>2 DEF RemoveLocation
    <3> HIDE DEF l
    <3>3. /\ ExitsAt(l) \in SUBSET Exit
          /\ live.here[l] \in SUBSET Actor /\ live.holds[l] \in SUBSET Object
      BY <1>0, <3>1 DEF ZoneType, ExitsAt, ExitsToLocation, Container
    <3>4. SameLives(gone, live) /\ gone \in ZoneType  BY <3>1, <3>3, VacatedLives, VacatedType
    <3> HIDE DEF gone
    <3>5. SameLives(live', gone)  BY <3>2, <3>4 DEF AfterLocationRemove, ZoneType, SameLives
    <3> QED  BY <3>4, <3>5 DEF SameLives
  <2>3. CASE RemoveLocationFails(s)
    <3> DEFINE l == pending[s].loc
    <3>1. l \in Location  BY <2>0, <2>3 DEF RemoveLocationFails, Has, Request
    <3> HIDE DEF l
    <3>2. ExitsAt(l) \in SUBSET Exit /\ live.here[l] \in SUBSET Actor
      BY <1>0, <3>1 DEF ZoneType, ExitsAt, ExitsToLocation
    <3>3. ASSUME NEW X, live' = AfterExitsRemove(live, X)  PROVE SameLives(live', live)
      BY <1>0, <3>3 DEF AfterExitsRemove, ZoneType, SameLives
    <3>4. ASSUME NEW A \in SUBSET Actor, live' = Vacated(l, ExitsAt(l), A, {})
          PROVE  SameLives(live', live)
      BY <3>2, <3>4, VacatedLives
    <3>5. \A A \in SUBSET (live.here[l] \cap live.actors) : A \in SUBSET Actor  BY <3>2
    <3> QED  BY <2>3, <3>3, <3>4, <3>5 DEF RemoveLocationFails, l
  <2>4. CASE Move(s)  BY <1>0, <2>4 DEF Move, AfterActorMove, ZoneType, SameLives
  <2>5. CASE Reap(s)  BY <1>0, <2>5 DEF Reap, AfterObjectRemove, ZoneType, SameLives
  <2>6. CASE Reject(s)  BY <2>6 DEF Reject, SameLives
  <2> QED  BY <1>4, <2>1, <2>2, <2>3, <2>4, <2>5, <2>6 DEF RequestStep
<1>5. CASE (\E s \in Session, a \in Actor, x \in Exit : PrepareMove(s, a, x))
        \/ (\E s \in Reaper, o \in Object, l \in Location : PrepareReap(s, o, l))
        \/ UNCHANGED vars
  BY <1>1, <1>5 DEF PrepareMove, PrepareReap, Prepare, vars, SameLives
<1> QED  BY <1>1, <1>2, <1>3, <1>4, <1>5, ActorLives, SessionAssumption DEF Next

(* Whoever is in the Zone has a hit point left, whatever the order in      *)
(* which blows, deaths, moves and the editor's commands are run: the blow  *)
(* that takes the last one is also the death.                              *)
THEOREM ActorsHaveHp == Spec => []AliveHaveHp
<1> DEFINE Inv == TypeOK /\ Healthy(live)
<1>1. Init => Inv  BY EmptyZoneType DEF Init, TypeOK, EmptyZone, Healthy
<1>2. Inv /\ [Next]_vars => Inv'
  <2> SUFFICES ASSUME Inv, [Next]_vars  PROVE Inv'
    OBVIOUS
  <2> QED  BY LivesStep, TypeStep DEF Healthy
<1>3. Inv => AliveHaveHp  BY DEF Healthy, AliveHaveHp
<1> QED  BY <1>1, <1>2, <1>3, PTL DEF Spec

-----------------------------------------------------------------------------
(* Objects *)

Stowed(z) ==
    \A c \in Container : \A o \in z.holds[c] : o \in z.objs /\ z.cont[o] = c

Bearable(z) ==
    \A a \in Actor : /\ Cardinality(Hands(z, a)) <= HandMax
                     /\ Cardinality(Worn(z, a)) <= WornMax

(* No Actor of y has more in its hands, or on, than in z. *)
Lighter(y, z) ==
    \A a \in Actor : Hands(y, a) \subseteq Hands(z, a) /\ Worn(y, a) \subseteq Worn(z, a)

SameThings(y, z) ==
    y.objs = z.objs /\ y.cont = z.cont /\ y.holds = z.holds /\ y.worn = z.worn

-----------------------------------------------------------------------------
(* Hands and clothes *)

LEMMA InventoryType ==
  ASSUME NEW z \in ZoneType, NEW a \in Actor
  PROVE  /\ IsFiniteSet(Hands(z, a)) /\ Cardinality(Hands(z, a)) \in Nat
         /\ IsFiniteSet(Worn(z, a)) /\ Cardinality(Worn(z, a)) \in Nat
<1>1. Hands(z, a) \in SUBSET Object /\ Worn(z, a) \in SUBSET Object
  BY DEF ZoneType, Container, Hands, Worn
<1>2. IsFiniteSet(Object)  BY ConstantsAssumption
<1> QED  BY <1>1, <1>2, FS_Subset, FS_CardinalityType

LEMMA LighterIsBearable ==
  ASSUME NEW z \in ZoneType, NEW y \in ZoneType, Lighter(y, z), Bearable(z)
  PROVE  Bearable(y)
<1> SUFFICES ASSUME NEW a \in Actor
             PROVE  /\ Cardinality(Hands(y, a)) <= HandMax
                    /\ Cardinality(Worn(y, a)) <= WornMax
  BY DEF Bearable
<1>1. Hands(y, a) \in SUBSET Hands(z, a) /\ Worn(y, a) \in SUBSET Worn(z, a)
  BY DEF Lighter
<1>2. /\ Cardinality(Hands(y, a)) <= Cardinality(Hands(z, a))
      /\ Cardinality(Worn(y, a)) <= Cardinality(Worn(z, a))
  BY <1>1, InventoryType, FS_Subset
<1>3. Cardinality(Hands(z, a)) <= HandMax /\ Cardinality(Worn(z, a)) <= WornMax
  BY DEF Bearable
<1> QED  BY <1>2, <1>3, InventoryType, ConstantsAssumption

LEMMA ThingsFrame ==
  ASSUME NEW z, NEW y, SameThings(y, z)
  PROVE  (Stowed(z) => Stowed(y)) /\ (Bearable(z) => Bearable(y))
BY DEF SameThings, Stowed, Bearable, Hands, Worn

-----------------------------------------------------------------------------
(* The events *)

LEMMA ObjectAddThings ==
  ASSUME NEW z \in ZoneType, NEW o \in Object, NEW l \in Location, o \notin z.objs, Stowed(z)
  PROVE  LET y == AfterObjectAdd(z, o, l)
         IN  /\ y.objs = z.objs \cup {o} /\ y.actors = z.actors /\ y.locs = z.locs
             /\ y.holds = IF l \in z.locs THEN [z.holds EXCEPT ![l] = @ \cup {o}] ELSE z.holds
             /\ y.cont = IF l \in z.locs THEN [z.cont EXCEPT ![o] = l] ELSE z.cont
             /\ Stowed(y) /\ Lighter(y, z)
<1> DEFINE y == AfterObjectAdd(z, o, l)
<1>1. l \in Container /\ l \notin Actor  BY ConstantsAssumption DEF Container
<1>2. /\ y.objs = z.objs \cup {o} /\ y.actors = z.actors /\ y.locs = z.locs
      /\ y.holds = IF l \in z.locs THEN [z.holds EXCEPT ![l] = @ \cup {o}] ELSE z.holds
      /\ y.cont = IF l \in z.locs THEN [z.cont EXCEPT ![o] = l] ELSE z.cont
      /\ y.worn = z.worn
  BY DEF AfterObjectAdd, ZoneType
<1> HIDE DEF y
<1>3. Stowed(y)  BY <1>1, <1>2 DEF Stowed, ZoneType
<1>4. Lighter(y, z)  BY <1>1, <1>2 DEF Lighter, Hands, Worn, ZoneType, Container
<1> QED  BY <1>2, <1>3, <1>4 DEF y

LEMMA ObjectMoveThings ==
  ASSUME NEW z \in ZoneType, NEW from \in Container, NEW to \in Container,
         NEW o \in z.holds[from], CanObjectMove(z, o, to), Stowed(z)
  PROVE  LET y == AfterObjectMove(z, o, from, to)
         IN  /\ y.objs = z.objs /\ y.actors = z.actors /\ y.locs = z.locs
             /\ \A c \in Container : c # to => y.holds[c] \subseteq z.holds[c]
             /\ Stowed(y) /\ (Bearable(z) => Bearable(y))
<1> DEFINE y == AfterObjectMove(z, o, from, to)
<1>0. o \in Object  BY DEF ZoneType
<1>1. y \in ZoneType  BY <1>0, ObjectMoveType
<1>2. /\ y.objs = z.objs /\ y.actors = z.actors /\ y.locs = z.locs
      /\ y.holds = Relisted(z.holds, o, from, to)
      /\ y.cont = [z.cont EXCEPT ![o] = to]
      /\ y.worn = z.worn \ {o}
  BY DEF AfterObjectMove, ZoneType
<1>3. \A c \in Container : y.holds[c] = IF c = to THEN z.holds[c] \cup {o}
                                       ELSE IF c = from THEN z.holds[c] \ {o} ELSE z.holds[c]
  BY <1>2 DEF Relisted, ZoneType
<1> HIDE DEF y
<1>4. \A c \in Container : o \in z.holds[c] => c = from  BY DEF Stowed
<1>5. Stowed(y)
  <2> SUFFICES ASSUME NEW c \in Container, NEW p \in y.holds[c]
               PROVE  p \in y.objs /\ y.cont[p] = c
    BY DEF Stowed
  <2>1. p = o => c = to  BY <1>3, <1>4
  <2>2. p # o => p \in z.holds[c]  BY <1>3
  <2>3. CASE p = o  BY <1>0, <1>2, <2>1, <2>3 DEF Stowed, ZoneType
  <2>4. CASE p # o
    <3>1. p \in z.objs /\ z.cont[p] = c  BY <2>2, <2>4 DEF Stowed
    <3> QED  BY <1>2, <2>4, <3>1 DEF ZoneType
  <2> QED  BY <2>3, <2>4
<1>6. ASSUME Bearable(z)  PROVE Bearable(y)
  <2> SUFFICES ASSUME NEW a \in Actor
               PROVE  /\ Cardinality(Hands(y, a)) <= HandMax
                      /\ Cardinality(Worn(y, a)) <= WornMax
    BY DEF Bearable
  <2>0. a \in Container  BY DEF Container
  <2>1. Worn(y, a) \in SUBSET Worn(z, a)  BY <1>2, <1>3, <1>4, <2>0 DEF Worn
  <2>2. Cardinality(Worn(y, a)) <= WornMax
    <3>1. Cardinality(Worn(y, a)) <= Cardinality(Worn(z, a))  BY <2>1, InventoryType, FS_Subset
    <3>2. Cardinality(Worn(z, a)) <= WornMax  BY <1>6 DEF Bearable
    <3> QED  BY <1>1, <3>1, <3>2, InventoryType, ConstantsAssumption
  <2>3. CASE a = to
    <3>1. Hands(y, a) = Hands(z, a) \cup {o} /\ o \notin Hands(z, a)
      BY <1>2, <1>3, <2>0, <2>3 DEF Hands, CanObjectMove
    <3>2. Cardinality(Hands(y, a)) = Cardinality(Hands(z, a)) + 1
      BY <3>1, InventoryType, FS_AddElement
    <3>3. Cardinality(Hands(z, a)) < HandMax  BY <2>3 DEF CanObjectMove
    <3> QED  BY <2>2, <3>2, <3>3, InventoryType, ConstantsAssumption
  <2>4. CASE a # to
    <3>1. Hands(y, a) \in SUBSET Hands(z, a)  BY <1>2, <1>3, <1>4, <2>0, <2>4 DEF Hands
    <3>2. Cardinality(Hands(y, a)) <= Cardinality(Hands(z, a))  BY <3>1, InventoryType, FS_Subset
    <3>3. Cardinality(Hands(z, a)) <= HandMax  BY <1>6 DEF Bearable
    <3> QED  BY <1>1, <2>2, <3>2, <3>3, InventoryType, ConstantsAssumption
  <2> QED  BY <2>3, <2>4
<1>7. \A c \in Container : c # to => y.holds[c] \subseteq z.holds[c]  BY <1>3
<1> QED  BY <1>2, <1>5, <1>6, <1>7 DEF y

LEMMA ObjectMoveFailsThings ==
  ASSUME NEW z \in ZoneType, NEW from \in Container, NEW o \in z.holds[from], Stowed(z)
  PROVE  LET y == AfterObjectMoveFails(z, o, from)
         IN  /\ y.objs = z.objs /\ y.actors = z.actors /\ y.locs = z.locs
             /\ \A c \in Container : y.holds[c] \subseteq z.holds[c]
             /\ Stowed(y) /\ Lighter(y, z)
<1> DEFINE y == AfterObjectMoveFails(z, o, from)
<1>1. /\ y.objs = z.objs /\ y.actors = z.actors /\ y.locs = z.locs
      /\ y.cont = z.cont /\ y.worn = z.worn \ {o}
      /\ y.holds = [z.holds EXCEPT ![from] = @ \ {o}]
  BY DEF AfterObjectMoveFails, ZoneType
<1>2. \A c \in Container : y.holds[c] = IF c = from THEN z.holds[c] \ {o} ELSE z.holds[c]
  BY <1>1 DEF ZoneType
<1> HIDE DEF y
<1>3. \A c \in Container : o \notin y.holds[c]  BY <1>2 DEF Stowed
<1>4. Stowed(y)  BY <1>1, <1>2 DEF Stowed
<1>5. Lighter(y, z)  BY <1>1, <1>2, <1>3 DEF Lighter, Hands, Worn, Container
<1> QED  BY <1>1, <1>2, <1>4, <1>5 DEF y

LEMMA WearThings ==
  ASSUME NEW z \in ZoneType, NEW a \in Actor, Stowed(z), Bearable(z),
         NEW o \in Hands(z, a), Cardinality(Worn(z, a)) < WornMax
  PROVE  Bearable(AfterMoveSubcontainer(z, o, TRUE))
<1> DEFINE y == AfterMoveSubcontainer(z, o, TRUE)
<1>0. o \in Object /\ o \in z.holds[a] /\ a \in Container  BY DEF Hands, ZoneType, Container
<1>1. /\ y \in ZoneType
      /\ y.holds = z.holds /\ y.worn = z.worn \cup {o}
  <2>1. y \in ZoneType  BY <1>0, MoveSubcontainerType
  <2> QED  BY <2>1 DEF AfterMoveSubcontainer, ZoneType
<1> HIDE DEF y
<1> SUFFICES ASSUME NEW b \in Actor
             PROVE  /\ Cardinality(Hands(y, b)) <= HandMax
                    /\ Cardinality(Worn(y, b)) <= WornMax
  BY DEF Bearable, y
<1>2. Hands(y, b) \in SUBSET Hands(z, b)  BY <1>1 DEF Hands
<1>3. Cardinality(Hands(y, b)) <= HandMax
  <2>1. Cardinality(Hands(y, b)) <= Cardinality(Hands(z, b))  BY <1>2, InventoryType, FS_Subset
  <2>2. Cardinality(Hands(z, b)) <= HandMax  BY DEF Bearable
  <2> QED  BY <1>1, <2>1, <2>2, InventoryType, ConstantsAssumption
<1>4. CASE b = a
  <2>1. Worn(y, a) = Worn(z, a) \cup {o} /\ o \notin Worn(z, a)
    BY <1>0, <1>1 DEF Worn, Hands
  <2>2. Cardinality(Worn(y, a)) = Cardinality(Worn(z, a)) + 1
    BY <2>1, InventoryType, FS_AddElement
  <2> QED  BY <1>3, <1>4, <2>2, InventoryType, ConstantsAssumption
<1>5. CASE b # a
  <2>1. o \notin z.holds[b]  BY <1>0, <1>5 DEF Stowed, Container
  <2>2. Worn(y, b) = Worn(z, b)  BY <1>1, <2>1 DEF Worn
  <2> QED  BY <1>3, <2>2 DEF Bearable
<1> QED  BY <1>4, <1>5

LEMMA UnwearThings ==
  ASSUME NEW z \in ZoneType, NEW a \in Actor, Stowed(z), Bearable(z),
         NEW o \in Worn(z, a), Cardinality(Hands(z, a)) < HandMax
  PROVE  Bearable(AfterMoveSubcontainer(z, o, FALSE))
<1> DEFINE y == AfterMoveSubcontainer(z, o, FALSE)
<1>0. o \in Object /\ o \in z.holds[a] /\ a \in Container  BY DEF Worn, ZoneType, Container
<1>1. /\ y \in ZoneType
      /\ y.holds = z.holds /\ y.worn = z.worn \ {o}
  <2>1. y \in ZoneType  BY <1>0, MoveSubcontainerType
  <2> QED  BY <2>1 DEF AfterMoveSubcontainer, ZoneType
<1> HIDE DEF y
<1> SUFFICES ASSUME NEW b \in Actor
             PROVE  /\ Cardinality(Hands(y, b)) <= HandMax
                    /\ Cardinality(Worn(y, b)) <= WornMax
  BY DEF Bearable, y
<1>2. Worn(y, b) \in SUBSET Worn(z, b)  BY <1>1 DEF Worn
<1>3. Cardinality(Worn(y, b)) <= WornMax
  <2>1. Cardinality(Worn(y, b)) <= Cardinality(Worn(z, b))  BY <1>2, InventoryType, FS_Subset
  <2>2. Cardinality(Worn(z, b)) <= WornMax  BY DEF Bearable
  <2> QED  BY <1>1, <2>1, <2>2, InventoryType, ConstantsAssumption
<1>4. CASE b = a
  <2>1. Hands(y, a) = Hands(z, a) \cup {o} /\ o \notin Hands(z, a)
    BY <1>0, <1>1 DEF Worn, Hands
  <2>2. Cardinality(Hands(y, a)) = Cardinality(Hands(z, a)) + 1
    BY <2>1, InventoryType, FS_AddElement
  <2> QED  BY <1>3, <1>4, <2>2, InventoryType, ConstantsAssumption
<1>5. CASE b # a
  <2>1. o \notin z.holds[b]  BY <1>0, <1>5 DEF Stowed, Container
  <2>2. Hands(y, b) = Hands(z, b)  BY <1>1, <2>1 DEF Hands
  <2> QED  BY <1>3, <2>2 DEF Bearable
<1> QED  BY <1>4, <1>5

(* From wherever they are, to one place that is nobody's inventory. *)
LEMMA ObjectsRelocateThings ==
  ASSUME NEW z \in ZoneType, NEW O \in SUBSET z.objs,
         NEW to \in Location \cup Object, Stowed(z)
  PROVE  LET y == AfterObjectsRelocate(z, O, to)
         IN  /\ y.objs = z.objs /\ y.actors = z.actors /\ y.locs = z.locs
             /\ y.cont = [o \in Object |-> IF o \in O THEN to ELSE z.cont[o]]
             /\ \A c \in Container : y.holds[c] = IF c = to THEN z.holds[c] \cup O
                                                            ELSE z.holds[c] \ O
             /\ Stowed(y) /\ Lighter(y, z)
<1> DEFINE y == AfterObjectsRelocate(z, O, to)
<1>0. O \subseteq Object /\ to \in Container /\ to \notin Actor
  BY ConstantsAssumption DEF ZoneType, Container
<1>1. /\ y.objs = z.objs /\ y.actors = z.actors /\ y.locs = z.locs
      /\ y.cont = [o \in Object |-> IF o \in O THEN to ELSE z.cont[o]]
      /\ y.worn = z.worn \ O
      /\ y.holds = [c \in Container |-> IF c = to THEN z.holds[c] \cup O
                                        ELSE z.holds[c] \ {o \in O : z.cont[o] = c}]
  BY DEF AfterObjectsRelocate, ZoneType
<1> HIDE DEF y
<1>2. \A c \in Container : z.holds[c] \ {o \in O : z.cont[o] = c} = z.holds[c] \ O
  BY DEF Stowed
<1>3. \A c \in Container : y.holds[c] = IF c = to THEN z.holds[c] \cup O ELSE z.holds[c] \ O
  BY <1>1, <1>2
<1>4. Stowed(y)
  <2> SUFFICES ASSUME NEW c \in Container, NEW o \in y.holds[c]
               PROVE  o \in y.objs /\ y.cont[o] = c
    BY DEF Stowed
  <2>1. CASE o \in O  BY <1>0, <1>1, <1>3, <2>1
  <2>2. CASE o \notin O
    <3>1. o \in z.holds[c]  BY <1>3, <2>2
    <3>2. o \in z.objs /\ z.cont[o] = c  BY <3>1 DEF Stowed
    <3>3. o \in Object  BY <3>2 DEF ZoneType
    <3> QED  BY <1>1, <2>2, <3>2, <3>3
  <2> QED  BY <2>1, <2>2
<1>5. Lighter(y, z)
  <2>1. y.worn = z.worn \ O /\ \A a \in Actor : y.holds[a] = z.holds[a] \ O
    BY <1>0, <1>1, <1>3 DEF Container
  <2> QED  BY <2>1 DEF Lighter, Hands, Worn
<1> QED  BY <1>1, <1>3, <1>4, <1>5 DEF y

LEMMA ObjectRemoveThings ==
  ASSUME NEW z \in ZoneType, NEW o \in Object, Stowed(z)
  PROVE  LET y == AfterObjectRemove(z, o)
         IN  /\ y.objs = z.objs \ {o} /\ y.actors = z.actors /\ y.locs = z.locs
             /\ \A c \in Container : y.holds[c] \subseteq z.holds[c]
             /\ Stowed(y) /\ Lighter(y, z)
<1> DEFINE y == AfterObjectRemove(z, o)
<1>1. /\ y.objs = z.objs \ {o} /\ y.actors = z.actors /\ y.locs = z.locs
      /\ y.cont = [z.cont EXCEPT ![o] = Nil] /\ y.worn = z.worn \ {o}
      /\ y.holds = [c \in Container |-> IF c = z.cont[o] THEN z.holds[c] \ {o} ELSE z.holds[c]]
  BY DEF AfterObjectRemove, ZoneType
<1> HIDE DEF y
<1>2. \A c \in Container : y.holds[c] = z.holds[c] \ {o}  BY <1>1 DEF Stowed
<1>3. Stowed(y)  BY <1>1, <1>2 DEF Stowed, ZoneType
<1>4. Lighter(y, z)  BY <1>1, <1>2 DEF Lighter, Hands, Worn, Container
<1> QED  BY <1>1, <1>2, <1>3, <1>4 DEF y

-----------------------------------------------------------------------------
(* What the steps do to the Objects *)

ThingsInv ==
    TypeOK /\ Stowed(live) /\ Bearable(live) /\ live.objs \subseteq used

(* Neither who has died nor what has been removed holds anything. *)
Emptied(z) ==
    \A c \in (Actor \ z.actors) \cup (Location \ z.locs) : z.holds[c] = {}

LEMMA ContentsInZone ==
  ASSUME NEW z, NEW c \in Container, Stowed(z)
  PROVE  z.holds[c] \subseteq Contents(z, c) /\ Contents(z, c) \subseteq z.objs
BY DEF Contents, Stowed

LEMMA DeathThings ==
  ASSUME ThingsInv, NEW z \in ZoneType, NEW d, NEW a \in Actor, NEW k \in Corpse,
         SameThings(z, live), z.actors = live.actors, z.locs = live.locs,
         Death(z, d, a, k)
  PROVE  /\ Stowed(live') /\ Bearable(live')
         /\ live'.objs = live.objs \cup {k} /\ k \notin live.objs
         /\ live'.actors = live.actors \ {a} /\ live'.locs = live.locs
         /\ live'.holds[a] = {}
         /\ \A c \in Actor \cup Location : c \notin live.locs => live'.holds[c] \subseteq live.holds[c]
         /\ Contents(live, a) \subseteq live'.holds[k]
         /\ live.at[a] \in live.locs => live'.cont[k] = live.at[a]
         /\ used' = used \cup {k} /\ pending' = pending
<1> DEFINE loot == Contents(live, a)
           l    == live.at[a]
           y    == AfterObjectAdd(z, k, l)
           w    == AfterObjectsRelocate(y, loot, k)
<1>1. /\ live \in ZoneType /\ Stowed(live) /\ Bearable(live) /\ live.objs \subseteq used
      /\ Stowed(z) /\ Bearable(z) /\ z.objs = live.objs /\ z.holds = live.holds
  <2>1. live \in ZoneType /\ Stowed(live) /\ Bearable(live) /\ live.objs \subseteq used
    BY DEF ThingsInv, TypeOK
  <2> QED  BY <2>1, ThingsFrame DEF SameThings
<1>2. /\ l \in Location /\ k \in Object /\ k \in Container /\ k \notin Actor \cup Location
      /\ a \in Container /\ a # l /\ l \in Container
  BY ConstantsAssumption DEF Death, ThingsInv, TypeOK, ZoneType, Object, Container
<1>3. k \notin live.objs  BY <1>1 DEF Death, Fresh
<1>4. loot \subseteq live.objs /\ live.holds[a] \subseteq loot /\ loot \subseteq Object
  BY <1>1, <1>2, ContentsInZone DEF ZoneType
<1>5. live' = AfterActorRemove(w, a) /\ used' = used \cup {k} /\ pending' = pending
  BY DEF Death, AfterDeath, Use
<1> HIDE DEF loot, l
<1>6. /\ y.objs = live.objs \cup {k} /\ y.actors = live.actors /\ y.locs = live.locs
      /\ y.holds = IF l \in live.locs THEN [live.holds EXCEPT ![l] = @ \cup {k}] ELSE live.holds
      /\ l \in live.locs => y.cont[k] = l
      /\ Stowed(y) /\ Lighter(y, z) /\ y \in ZoneType
  <2>1. y \in ZoneType  BY <1>2, ObjectAddType
  <2>2. /\ y.objs = z.objs \cup {k} /\ y.actors = z.actors /\ y.locs = z.locs
        /\ y.holds = IF l \in z.locs THEN [z.holds EXCEPT ![l] = @ \cup {k}] ELSE z.holds
        /\ y.cont = IF l \in z.locs THEN [z.cont EXCEPT ![k] = l] ELSE z.cont
        /\ Stowed(y) /\ Lighter(y, z)
    BY <1>1, <1>2, <1>3, ObjectAddThings
  <2>3. l \in z.locs => y.cont[k] = l  BY <1>2, <2>2 DEF ZoneType
  <2> QED  BY <1>1, <2>1, <2>2, <2>3
<1> HIDE DEF y
<1>7. /\ w.objs = y.objs /\ w.actors = y.actors /\ w.locs = y.locs
      /\ w.cont = [o \in Object |-> IF o \in loot THEN k ELSE y.cont[o]]
      /\ \A c \in Container : w.holds[c] = IF c = k THEN y.holds[c] \cup loot ELSE y.holds[c] \ loot
      /\ Stowed(w) /\ Lighter(w, y) /\ w \in ZoneType
  <2>1. loot \in SUBSET y.objs /\ k \in Location \cup Object  BY <1>2, <1>4, <1>6
  <2>2. w \in ZoneType  BY <1>2, <1>4, <1>6, ObjectsRelocateType
  <2>3. y \in ZoneType /\ Stowed(y)  BY <1>6
  <2>4. /\ w.objs = y.objs /\ w.actors = y.actors /\ w.locs = y.locs
        /\ w.cont = [o \in Object |-> IF o \in loot THEN k ELSE y.cont[o]]
        /\ \A c \in Container : w.holds[c] = IF c = k THEN y.holds[c] \cup loot ELSE y.holds[c] \ loot
        /\ Stowed(w) /\ Lighter(w, y)
    BY <2>1, <2>3, ObjectsRelocateThings
  <2> QED  BY <2>2, <2>4
<1> HIDE DEF w
<1>8. SameThings(live', w) /\ live'.actors = w.actors \ {a} /\ live'.locs = w.locs /\ live' \in ZoneType
  <2>1. live' = AfterActorRemove(w, a) /\ w \in ZoneType  BY <1>5, <1>7
  <2>2. live' \in ZoneType  BY <2>1, ActorRemoveType
  <2>3. SameThings(live', w) /\ live'.actors = w.actors \ {a} /\ live'.locs = w.locs
    BY <2>1 DEF AfterActorRemove, ZoneType, SameThings
  <2> QED  BY <2>2, <2>3
<1>9. Stowed(live')  BY <1>7, <1>8, ThingsFrame
<1>10. Bearable(live')
  <2>1. Bearable(y)  BY <1>1, <1>6, LighterIsBearable
  <2>2. Bearable(w)  BY <1>6, <1>7, <2>1, LighterIsBearable
  <2> QED  BY <1>8, <2>2, ThingsFrame
<1>11. \A c \in Actor \cup Location : c \notin live.locs => y.holds[c] = live.holds[c] /\ c \in Container /\ c # k
  BY <1>1, <1>2, <1>6 DEF ZoneType, Container
<1>12. \A c \in Actor \cup Location : c \notin live.locs => live'.holds[c] = live.holds[c] \ loot
  BY <1>7, <1>8, <1>11 DEF SameThings
<1>13. a \notin live.locs  BY <1>1, ConstantsAssumption DEF ZoneType
<1>14. live'.holds[a] = {}  BY <1>4, <1>12, <1>13
<1>15. loot \subseteq live'.holds[k]  BY <1>2, <1>7, <1>8 DEF SameThings
<1>16. l \in live.locs => live'.cont[k] = l  BY <1>2, <1>3, <1>4, <1>6, <1>7, <1>8 DEF SameThings
<1> QED  BY <1>3, <1>5, <1>6, <1>7, <1>8, <1>9, <1>10, <1>12, <1>14, <1>15, <1>16 DEF SameThings, loot, l

(* Nothing moves, and nobody dies and nothing is removed. *)
LEMMA QuietThings ==
  ASSUME ThingsInv, SameThings(live', live), used \subseteq used',
         live.actors \subseteq live'.actors, live.locs \subseteq live'.locs
  PROVE  /\ Stowed(live') /\ Bearable(live') /\ live'.objs \subseteq used'
         /\ Emptied(live) => Emptied(live')
<1>1. Stowed(live') /\ Bearable(live')  BY ThingsFrame DEF ThingsInv
<1>2. live'.objs \subseteq used'  BY DEF ThingsInv, SameThings
<1>3. Emptied(live) => Emptied(live')  BY DEF Emptied, SameThings
<1> QED  BY <1>1, <1>2, <1>3

(* The editor moves no Object: what a command will do is in the queue. *)
LEMMA EditorThings ==
  ASSUME TypeOK, NEW s \in Session, EditorStep(s)
  PROVE  /\ SameThings(live', live) /\ used \subseteq used'
         /\ live'.actors = live.actors /\ live.locs \subseteq live'.locs
<1> DEFINE Quiet == /\ SameThings(live', live) /\ used \subseteq used'
                    /\ live'.actors = live.actors /\ live.locs \subseteq live'.locs
<1>0. live \in ZoneType  BY DEF TypeOK
<1>1. ASSUME NEW l \in Location, AddLocation(s, l)  PROVE Quiet
  BY <1>0, <1>1 DEF AddLocation, Use, AfterLocationAdd, ZoneType, SameThings
<1>2. ASSUME NEW l \in Location, SetDefaultLocation(s, l)  PROVE Quiet
  BY <1>0, <1>2 DEF SetDefaultLocation, AfterSetDefault, ZoneType, SameThings
<1>3. ASSUME NEW x, NEW l, NEW d, NEW t, AddExit(s, x, l, d, t)  PROVE Quiet
  BY <1>0, <1>3 DEF AddExit, Use, AfterExitAdd, ZoneType, SameThings
<1>4. ASSUME NEW x, RemoveExit(s, x)  PROVE Quiet
  BY <1>0, <1>4 DEF RemoveExit, AfterExitsRemove, ZoneType, SameThings
<1>5. ASSUME NEW x, NEW d, NEW t, PrepareUpdateExit(s, x, d, t)  PROVE Quiet
  BY <1>5 DEF PrepareUpdateExit, Prepare, SameThings
<1>6. ASSUME NEW l, PrepareRemoveLocation(s, l)  PROVE Quiet
  BY <1>6 DEF PrepareRemoveLocation, Prepare, SameThings
<1> QED  BY <1>1, <1>2, <1>3, <1>4, <1>5, <1>6 DEF EditorStep

(* A step of Actors kills one, which leaves what it had in its corpse, or  *)
(* moves no Object.                                                        *)
DeathStep ==
    \E a \in live.actors, k \in Corpse : \E z \in ZoneType, d \in ZoneType :
        /\ SameThings(z, live) /\ z.actors = live.actors /\ z.locs = live.locs
        /\ Death(z, d, a, k)

LEMMA ActorThings ==
  ASSUME TypeOK, ActorStep
  PROVE  \/ DeathStep
         \/ /\ SameThings(live', live) /\ used \subseteq used'
            /\ live.actors \subseteq live'.actors /\ live'.locs = live.locs
<1> DEFINE Quiet == /\ SameThings(live', live) /\ used \subseteq used'
                    /\ live.actors \subseteq live'.actors /\ live'.locs = live.locs
<1>0. live \in ZoneType /\ disk \in ZoneType  BY DEF TypeOK
<1>1. ASSUME NEW a \in Actor, NEW l \in Location, AddActor(a, l)  PROVE Quiet
  BY <1>0, <1>1 DEF AddActor, Use, AfterActorAdd, ZoneType, SameThings
<1>2. ASSUME NEW a \in Actor, NEW k \in Corpse, Die(a, k)  PROVE DeathStep
  BY <1>0, <1>2 DEF Die, DeathStep, SameThings
<1>3. ASSUME NEW a \in Actor, NEW b \in Actor, NEW d \in 1..MaxHp, Hit(a, b, d)
      PROVE  Quiet
  BY <1>0, <1>3 DEF Hit, AfterDamage, ZoneType, SameThings
<1>4. ASSUME NEW a \in Actor, NEW b \in Actor, NEW d \in 1..MaxHp, NEW k \in Corpse,
             HitToDeath(a, b, d, k)
      PROVE  DeathStep
  <2> DEFINE hurt  == AfterDamage(live, b, d)
             saved == AfterDamage(disk, b, d)
  <2>1. d \in Nat  BY ConstantsAssumption
  <2>2. hurt \in ZoneType /\ saved \in ZoneType  BY <1>0, <2>1, DamageType
  <2>3. SameThings(hurt, live) /\ hurt.actors = live.actors /\ hurt.locs = live.locs
    BY <1>0 DEF AfterDamage, ZoneType, SameThings
  <2>4. Death(hurt, saved, b, k) /\ b \in live.actors  BY <1>4 DEF HitToDeath
  <2> QED  BY <2>2, <2>3, <2>4 DEF DeathStep
<1> QED  BY <1>1, <1>2, <1>3, <1>4 DEF ActorStep

LEMMA ObjectThings ==
  ASSUME ThingsInv, ObjectStep
  PROVE  /\ Stowed(live') /\ Bearable(live') /\ live'.objs \subseteq used'
         /\ live'.actors = live.actors /\ live'.locs = live.locs
         /\ \A c \in Actor \cup Location :
                c \notin live.actors \cup live.locs => live'.holds[c] \subseteq live.holds[c]
<1> DEFINE Kept == /\ Stowed(live') /\ Bearable(live') /\ live'.objs \subseteq used'
                   /\ live'.actors = live.actors /\ live'.locs = live.locs
                   /\ \A c \in Actor \cup Location :
                          c \notin live.actors \cup live.locs => live'.holds[c] \subseteq live.holds[c]
<1>0. /\ live \in ZoneType /\ Stowed(live) /\ Bearable(live) /\ live.objs \subseteq used
      /\ \A c \in Container : live.holds[c] \subseteq Object
      /\ Actor \cup Location \subseteq Container
  BY DEF ThingsInv, TypeOK, ZoneType, Container
<1>t. live' \in ZoneType  BY TypeStep DEF ThingsInv, TypeOK, Next
<1>z. live \in ZoneType /\ Stowed(live) /\ Bearable(live)  BY <1>0
<1>1. ASSUME NEW o \in Item, NEW l \in Location, AddObject(o, l)  PROVE Kept
  <2>1. o \in Object /\ o \notin live.objs  BY <1>0, <1>1 DEF AddObject, Fresh, Object
  <2>2. live' = AfterObjectAdd(live, o, l) /\ used' = used \cup {o} /\ l \in live.locs
    BY <1>1 DEF AddObject, Use
  <2>3. /\ live'.objs = live.objs \cup {o} /\ live'.actors = live.actors /\ live'.locs = live.locs
        /\ live'.holds = [live.holds EXCEPT ![l] = @ \cup {o}]
        /\ Stowed(live') /\ Lighter(live', live)
    BY <1>z, <2>1, <2>2, ObjectAddThings
  <2>4. Bearable(live')  BY <1>t, <1>z, <2>3, LighterIsBearable
  <2> QED  BY <1>0, <2>2, <2>3, <2>4
<1>2. ASSUME NEW who \in Actor, NEW from \in Container, NEW to \in Container,
             NEW o \in live.holds[from], MoveObject(who, o, from, to)
      PROVE  Kept
  <2>1. live' = AfterObjectMove(live, o, from, to) /\ CanObjectMove(live, o, to) /\ used' = used
    BY <1>2 DEF MoveObject
  <2>2. to \in live.locs \cup live.actors \cup Object
    BY <1>2, <1>z DEF MoveObject, CanMoveObject, Known, ZoneType
  <2>3. /\ live'.objs = live.objs /\ live'.actors = live.actors /\ live'.locs = live.locs
        /\ \A c \in Container : c # to => live'.holds[c] \subseteq live.holds[c]
        /\ Stowed(live') /\ Bearable(live')
    BY <1>z, <2>1, ObjectMoveThings
  <2> QED  BY <1>0, <2>1, <2>2, <2>3, ConstantsAssumption
<1>3. ASSUME NEW who \in Actor, NEW from \in Container, NEW to \in Container,
             NEW o \in live.holds[from], MoveObjectFails(who, o, from, to)
      PROVE  Kept
  <2>1. live' = AfterObjectMoveFails(live, o, from) /\ used' = used
    BY <1>3 DEF MoveObjectFails
  <2>2. /\ live'.objs = live.objs /\ live'.actors = live.actors /\ live'.locs = live.locs
        /\ \A c \in Container : live'.holds[c] \subseteq live.holds[c]
        /\ Stowed(live') /\ Lighter(live', live)
    BY <1>z, <2>1, ObjectMoveFailsThings
  <2>3. Bearable(live')  BY <1>t, <1>z, <2>2, LighterIsBearable
  <2> QED  BY <1>0, <2>1, <2>2, <2>3
<1>4. ASSUME NEW o, NEW wear \in BOOLEAN, live' = AfterMoveSubcontainer(live, o, wear),
             used' = used, Bearable(live')
      PROVE  Kept
  <2>1. /\ live'.objs = live.objs /\ live'.actors = live.actors /\ live'.locs = live.locs
        /\ live'.holds = live.holds /\ live'.cont = live.cont
    BY <1>z, <1>4 DEF AfterMoveSubcontainer, ZoneType
  <2>2. Stowed(live')  BY <1>z, <2>1 DEF Stowed
  <2> QED  BY <1>0, <1>4, <2>1, <2>2
<1>5. ASSUME NEW a \in Actor, NEW o \in live.holds[a], Wear(a, o)  PROVE Kept
  <2>1. /\ live' = AfterMoveSubcontainer(live, o, TRUE) /\ used' = used
        /\ o \in Hands(live, a) /\ Cardinality(Worn(live, a)) < WornMax
    BY <1>5 DEF Wear
  <2>2. Bearable(live')  BY <1>z, <2>1, WearThings
  <2> QED  BY <1>4, <2>1, <2>2
<1>6. ASSUME NEW a \in Actor, NEW o \in live.holds[a], Unwear(a, o)  PROVE Kept
  <2>1. /\ live' = AfterMoveSubcontainer(live, o, FALSE) /\ used' = used
        /\ o \in Worn(live, a) /\ Cardinality(Hands(live, a)) < HandMax
    BY <1>6 DEF Unwear
  <2>2. Bearable(live')  BY <1>z, <2>1, UnwearThings
  <2> QED  BY <1>4, <2>1, <2>2
<1> QED  BY <1>1, <1>2, <1>3, <1>5, <1>6 DEF ObjectStep

LEMMA VacatedThings ==
  ASSUME ThingsInv, NEW l \in Location, NEW X \in SUBSET Exit, NEW A \in SUBSET Actor,
         NEW O \in SUBSET live.objs, O # {} => live.def # Nil
  PROVE  LET w == Vacated(l, X, A, O)
         IN  /\ w \in ZoneType
             /\ w.objs = live.objs /\ w.actors = live.actors /\ w.locs = live.locs
             /\ \A c \in Container : c # live.def => w.holds[c] = live.holds[c] \ O
             /\ Stowed(w) /\ Bearable(w)
<1> DEFINE x == AfterExitsRemove(live, X)
           y == AfterActorsRelocate(x, A, live.def)
           w == AfterObjectsRelocate(y, O, live.def)
<1>0. /\ live \in ZoneType /\ Stowed(live) /\ Bearable(live) /\ O \subseteq Object
      /\ live.def \in Location \cup {Nil}
  BY DEF ThingsInv, TypeOK, ZoneType
<1>z. live \in ZoneType  BY <1>0
<1>1. x \in ZoneType  BY <1>0, ExitsRemoveType
<1>2. SameThings(x, live) /\ x.actors = live.actors /\ x.locs = live.locs
  BY <1>z DEF AfterExitsRemove, ZoneType, SameThings
<1> HIDE DEF x
<1>3. y \in ZoneType  BY <1>0, <1>1, ActorsRelocateType
<1>4. SameThings(y, x) /\ y.actors = x.actors /\ y.locs = x.locs
  BY <1>1 DEF AfterActorsRelocate, ZoneType, SameThings
<1> HIDE DEF y
<1>5. /\ Stowed(y) /\ Bearable(y) /\ y.actors = live.actors /\ y.locs = live.locs
      /\ y.objs = live.objs /\ y.holds = live.holds /\ y.cont = live.cont
  <2>1. Stowed(x) /\ Bearable(x)  BY <1>0, <1>2, ThingsFrame
  <2>2. Stowed(y) /\ Bearable(y)  BY <1>4, <2>1, ThingsFrame
  <2> QED  BY <1>2, <1>4, <2>2 DEF SameThings
<1>6. w \in ZoneType
  <2>1. live.def \in Container \cup {Nil}  BY <1>0 DEF Container
  <2> QED  BY <1>0, <1>3, <2>1, ObjectsRelocateType
<1>7. /\ w.objs = live.objs /\ w.actors = live.actors /\ w.locs = live.locs
      /\ \A c \in Container : c # live.def => w.holds[c] = live.holds[c] \ O
      /\ Stowed(w) /\ Bearable(w)
  <2>1. CASE live.def # Nil
    <3> DEFINE d == live.def
    <3>1. O \in SUBSET y.objs /\ d \in Location \cup Object  BY <1>0, <1>5, <2>1
    <3>2. y \in ZoneType /\ Stowed(y)  BY <1>3, <1>5
    <3>3. w = AfterObjectsRelocate(y, O, d)  OBVIOUS
    <3> HIDE DEF d, w
    <3> DEFINE v == AfterObjectsRelocate(y, O, d)
    <3>4. /\ v.objs = y.objs /\ v.actors = y.actors /\ v.locs = y.locs
          /\ v.cont = [o \in Object |-> IF o \in O THEN d ELSE y.cont[o]]
          /\ \A c \in Container : v.holds[c] = IF c = d THEN y.holds[c] \cup O
                                                        ELSE y.holds[c] \ O
          /\ Stowed(v) /\ Lighter(v, y)
      BY <3>1, <3>2, ObjectsRelocateThings
    <3> HIDE DEF v
    <3>5. w = v  BY <3>3 DEF v
    <3>6. Bearable(w)  BY <1>3, <1>5, <1>6, <3>4, <3>5, LighterIsBearable
    <3> QED  BY <1>5, <3>4, <3>5, <3>6 DEF d
  <2>2. CASE live.def = Nil
    <3>1. O = {}  BY <2>2
    <3>2. SameThings(w, y) /\ w.actors = y.actors /\ w.locs = y.locs
      <4>1. w.holds = y.holds /\ w.cont = y.cont
        BY <1>3, <2>2, <3>1, ConstantsAssumption DEF AfterObjectsRelocate, ZoneType, Container
      <4> QED  BY <1>3, <3>1, <4>1 DEF AfterObjectsRelocate, ZoneType, SameThings
    <3> HIDE DEF w
    <3>3. Stowed(w) /\ Bearable(w)  BY <1>5, <3>2, ThingsFrame
    <3> QED  BY <1>5, <3>1, <3>2, <3>3 DEF SameThings
  <2> QED  BY <2>1, <2>2
<1> QED  BY <1>6, <1>7 DEF Vacated, w, y, x

(* The removal of a Location has somewhere to send what lies there. *)
Orderly == live.def \in live.locs \cup {Nil} /\ RemovalsGuarded

LEMMA RequestThings ==
  ASSUME ThingsInv, NEW s \in Session, RequestStep(s)
  PROVE  /\ Stowed(live') /\ Bearable(live') /\ live'.objs \subseteq used'
         /\ live'.actors = live.actors
         /\ Orderly /\ Emptied(live) => Emptied(live')
<1> DEFINE Kept == /\ Stowed(live') /\ Bearable(live') /\ live'.objs \subseteq used'
                   /\ live'.actors = live.actors
                   /\ Orderly /\ Emptied(live) => Emptied(live')
<1>0. /\ live \in ZoneType /\ Stowed(live) /\ Bearable(live) /\ live.objs \subseteq used
      /\ TypeOK /\ pending[s] \in Request \cup {Nil} /\ live.objs \subseteq Object
  BY DEF ThingsInv, TypeOK, ZoneType
<1>z. live \in ZoneType /\ Stowed(live)  BY <1>0
<1>1. ASSUME SameThings(live', live), live'.actors = live.actors, live'.locs = live.locs, used' = used
      PROVE  Kept
  BY <1>1, QuietThings
<1>2. CASE UpdateExit(s)
  BY <1>z, <1>1, <1>2 DEF UpdateExit, AfterExitUpdate, ZoneType, SameThings
<1>3. CASE RemoveLocation(s)
  <2> DEFINE l == pending[s].loc
             gone == Vacated(l, ExitsAt(l), live.here[l], live.holds[l])
  <2>1. l \in Location /\ Has(s, "removeLocation") /\ CanRemoveLocation(l)
    BY <1>0, <1>3 DEF RemoveLocation, Has, Request
  <2>2. live' = AfterLocationRemove(gone, l) /\ used' = used  BY <1>3 DEF RemoveLocation
  <2>o. Orderly => live.def # l /\ live.def # Nil  BY <2>1 DEF Orderly, RemovalsGuarded
  <2> HIDE DEF l
  <2>3. /\ ExitsAt(l) \in SUBSET Exit /\ live.here[l] \in SUBSET Actor /\ l \in Container
        /\ live.holds[l] \in SUBSET live.objs /\ (live.holds[l] # {} => live.def # Nil)
    BY <1>z, <2>1 DEF ZoneType, ExitsAt, ExitsToLocation, Container, Stowed, CanRemoveLocation
  <2>4. /\ gone \in ZoneType
        /\ gone.objs = live.objs /\ gone.actors = live.actors /\ gone.locs = live.locs
        /\ \A c \in Container : c # live.def => gone.holds[c] = live.holds[c] \ live.holds[l]
        /\ Stowed(gone) /\ Bearable(gone)
    BY <2>1, <2>3, VacatedThings
  <2> HIDE DEF gone
  <2>5. SameThings(live', gone) /\ live'.actors = gone.actors /\ live'.locs = gone.locs \ {l}
    BY <2>2, <2>4 DEF AfterLocationRemove, ZoneType, SameThings
  <2>6. Stowed(live') /\ Bearable(live')  BY <2>4, <2>5, ThingsFrame
  <2>7. ASSUME Orderly, Emptied(live)  PROVE Emptied(live')
    <3>1. live.def # l /\ live.def \in live.locs /\ live.def \notin Actor
      BY <1>z, <2>o, <2>7, ConstantsAssumption DEF Orderly, ZoneType
    <3>2. \A c \in Actor \cup Location : c \in Container  BY DEF Container
    <3>3. \A c \in (Actor \ live'.actors) \cup (Location \ live'.locs) :
              c # live.def /\ live'.holds[c] = live.holds[c] \ live.holds[l]
      BY <2>4, <2>5, <3>1, <3>2 DEF SameThings
    <3> QED  BY <2>4, <2>5, <2>7, <3>3 DEF Emptied
  <2> QED  BY <1>0, <2>2, <2>4, <2>5, <2>6, <2>7 DEF SameThings
<1>4. CASE RemoveLocationFails(s)
  <2> DEFINE l == pending[s].loc
  <2>1. l \in Location /\ used' = used
    BY <1>0, <1>4 DEF RemoveLocationFails, Has, Request
  <2> HIDE DEF l
  <2>2. ASSUME NEW X, live' = AfterExitsRemove(live, X)  PROVE Kept
    BY <1>z, <1>1, <2>1, <2>2 DEF AfterExitsRemove, ZoneType, SameThings
  <2>3. ASSUME NEW A \in SUBSET (live.here[l] \cap live.actors),
               live' = Vacated(l, ExitsAt(l), A, {})
        PROVE  Kept
    <3>1. A \in SUBSET Actor /\ ExitsAt(l) \in SUBSET Exit
      BY <1>z, <2>1 DEF ZoneType, ExitsAt, ExitsToLocation
    <3> DEFINE x == AfterExitsRemove(live, ExitsAt(l))
               y == AfterActorsRelocate(x, A, live.def)
    <3>2. live.def \in Location \cup {Nil}  BY <1>z DEF ZoneType
    <3>3. x \in ZoneType  BY <1>z, <3>1, ExitsRemoveType
    <3>4. SameThings(x, live) /\ x.actors = live.actors /\ x.locs = live.locs
      BY <1>z DEF AfterExitsRemove, ZoneType, SameThings
    <3> HIDE DEF x
    <3>5. y \in ZoneType  BY <3>1, <3>2, <3>3, ActorsRelocateType
    <3>6. SameThings(y, x) /\ y.actors = x.actors /\ y.locs = x.locs
      BY <3>3 DEF AfterActorsRelocate, ZoneType, SameThings
    <3>7. live' = AfterObjectsRelocate(y, {}, live.def)  BY <2>3 DEF Vacated, x
    <3> HIDE DEF y
    <3>8. live'.holds = y.holds /\ live'.cont = y.cont /\ live'.worn = y.worn
      BY <3>5, <3>7 DEF AfterObjectsRelocate, ZoneType
    <3>9. live'.objs = y.objs /\ live'.actors = y.actors /\ live'.locs = y.locs
      BY <3>5, <3>7 DEF AfterObjectsRelocate, ZoneType
    <3> QED  BY <1>1, <2>1, <3>4, <3>6, <3>8, <3>9 DEF SameThings
  <2> QED  BY <1>4, <2>2, <2>3 DEF RemoveLocationFails, l
<1>5. CASE Move(s)
  BY <1>z, <1>1, <1>5 DEF Move, AfterActorMove, ZoneType, SameThings
<1>6. CASE Reap(s)
  <2> DEFINE o == pending[s].obj
  <2>1. o \in Object /\ live' = AfterObjectRemove(live, o) /\ used' = used
    BY <1>0, <1>6 DEF Reap, Has, Request
  <2> HIDE DEF o
  <2>2. live' \in ZoneType  BY <1>z, <2>1, ObjectRemoveType
  <2>3. /\ live'.objs = live.objs \ {o} /\ live'.actors = live.actors /\ live'.locs = live.locs
        /\ \A c \in Container : live'.holds[c] \subseteq live.holds[c]
        /\ Stowed(live') /\ Lighter(live', live)
    BY <1>z, <2>1, ObjectRemoveThings
  <2>4. Bearable(live')  BY <1>0, <2>2, <2>3, LighterIsBearable
  <2>5. Emptied(live) => Emptied(live')  BY <2>3 DEF Emptied, Container
  <2> QED  BY <1>0, <2>1, <2>3, <2>4, <2>5
<1>7. CASE Reject(s)
  BY <1>1, <1>7 DEF Reject, SameThings
<1> QED  BY <1>2, <1>3, <1>4, <1>5, <1>6, <1>7 DEF RequestStep

LEMMA ThingsStep ==
  ASSUME ThingsInv, [Next]_vars
  PROVE  ThingsInv' /\ (Orderly /\ Emptied(live) => Emptied(live'))
<1> DEFINE Kept == /\ Stowed(live') /\ Bearable(live') /\ live'.objs \subseteq used'
                   /\ Orderly /\ Emptied(live) => Emptied(live')
<1> SUFFICES Kept  BY TypeStep DEF ThingsInv, Stowed, Bearable
<1>0. TypeOK /\ live \in ZoneType /\ live.objs \subseteq used  BY DEF ThingsInv, TypeOK
<1>1. ASSUME SameThings(live', live), used \subseteq used',
             live.actors \subseteq live'.actors, live.locs \subseteq live'.locs
      PROVE  Kept
  BY <1>1, QuietThings
<1>2. ASSUME NEW s \in Session, EditorStep(s)  PROVE Kept
  BY <1>0, <1>1, <1>2, EditorThings
<1>3. CASE ActorStep
  <2>1. CASE DeathStep
    <3>1. PICK a \in live.actors, k \in Corpse, z \in ZoneType, d \in ZoneType :
              /\ SameThings(z, live) /\ z.actors = live.actors /\ z.locs = live.locs
              /\ Death(z, d, a, k)
      BY <2>1 DEF DeathStep
    <3>2. a \in Actor /\ live.locs \cap Actor = {}
      BY <1>0, ConstantsAssumption DEF ZoneType
    <3>3. /\ Stowed(live') /\ Bearable(live')
          /\ live'.objs = live.objs \cup {k} /\ k \notin live.objs
          /\ live'.actors = live.actors \ {a} /\ live'.locs = live.locs
          /\ live'.holds[a] = {}
          /\ \A c \in Actor \cup Location : c \notin live.locs => live'.holds[c] \subseteq live.holds[c]
          /\ Contents(live, a) \subseteq live'.holds[k]
          /\ live.at[a] \in live.locs => live'.cont[k] = live.at[a]
          /\ used' = used \cup {k} /\ pending' = pending
      BY <3>1, <3>2, DeathThings
    <3>4. Emptied(live) => Emptied(live')  BY <3>2, <3>3 DEF Emptied
    <3> QED  BY <1>0, <3>3, <3>4
  <2> QED  BY <1>0, <1>1, <1>3, <2>1, ActorThings
<1>4. CASE ObjectStep
  <2>1. /\ Stowed(live') /\ Bearable(live') /\ live'.objs \subseteq used'
        /\ live'.actors = live.actors /\ live'.locs = live.locs
        /\ \A c \in Actor \cup Location :
               c \notin live.actors \cup live.locs => live'.holds[c] \subseteq live.holds[c]
    BY <1>4, ObjectThings
  <2>2. live.actors \cap Location = {} /\ live.locs \cap Actor = {}
    BY <1>0, ConstantsAssumption DEF ZoneType
  <2>3. Emptied(live) => Emptied(live')  BY <2>1, <2>2 DEF Emptied
  <2> QED  BY <2>1, <2>3
<1>5. ASSUME NEW s \in Session, RequestStep(s)  PROVE Kept
  BY <1>5, RequestThings
<1>6. CASE (\E s \in Session, a \in Actor, x \in Exit : PrepareMove(s, a, x))
        \/ (\E s \in Reaper, o \in Object, l \in Location : PrepareReap(s, o, l))
        \/ UNCHANGED vars
  BY <1>1, <1>6 DEF PrepareMove, PrepareReap, Prepare, vars, SameThings
<1> QED  BY <1>2, <1>3, <1>4, <1>5, <1>6, SessionAssumption DEF Next

LEMMA ThingsInit == Init => ThingsInv /\ Emptied(live)
<1> SUFFICES ASSUME Init  PROVE ThingsInv /\ Emptied(live)
  OBVIOUS
<1>1. live = EmptyZone /\ TypeOK  BY EmptyZoneType DEF Init, TypeOK
<1>2. /\ live.objs = {} /\ \A c \in Container : live.holds[c] = {}
      /\ Actor \cup Location \subseteq Container
  BY <1>1 DEF EmptyZone, Container
<1>3. Stowed(live) /\ Emptied(live)  BY <1>2 DEF Stowed, Emptied
<1>4. Bearable(live)
  <2>1. \A a \in Actor : Hands(live, a) = {} /\ Worn(live, a) = {}
    BY <1>2 DEF Hands, Worn
  <2> QED  BY <2>1, FS_EmptySet, ConstantsAssumption DEF Bearable
<1> QED  BY <1>1, <1>2, <1>3, <1>4 DEF ThingsInv

(* Taken, given, put into a bag, dropped by a death or by the removal of a *)
(* Location, an Object is in one list at most, that of its container: a    *)
(* failed move takes it off a list and puts it on none, never on two.      *)
THEOREM ObjectsListedOnce == Spec => []SingleListing
<1>1. ThingsInv => SingleListing  BY DEF ThingsInv, Stowed, SingleListing
<1> QED  BY <1>1, ThingsInit, ThingsStep, PTL DEF Spec

(* However takes, gifts and changes of clothes interleave, no Actor has    *)
(* more in its hands, or on, than fits.  A dead Actor needs the invariant  *)
(* too: an id gets its inventory back only empty.                          *)
THEOREM InventoriesFit == Spec => []CarryingLimit
<1>1. ThingsInv => CarryingLimit
  BY DEF ThingsInv, TypeOK, ZoneType, Bearable, CarryingLimit
<1> QED  BY <1>1, ThingsInit, ThingsStep, PTL DEF Spec

(* With one editor at a time, a removed Location and a dead Actor hold     *)
(* nothing: RemoveLocation always has a default Location to send the       *)
(* Objects to, another than the one it removes.                            *)
THEOREM NothingIsOrphaned == ASSUME SoleEditor PROVE Spec => []NothingLeftBehind
<1> DEFINE Inv == ThingsInv /\ ListedInv /\ Emptied(live)
<1>1. Init => Inv
  <2>1. Init => ListedInv
    BY EmptyZoneType DEF Init, ListedInv, TypeOK, Listed, EmptyZone, RemovalsGuarded, Has
  <2> QED  BY <2>1, ThingsInit
<1>2. Inv /\ [Next]_vars => Inv'
  <2> SUFFICES ASSUME Inv, [Next]_vars  PROVE Inv'
    OBVIOUS
  <2>1. ListedInv'  BY ListedStep
  <2>2. Orderly  BY DEF ListedInv, Orderly
  <2>3. ThingsInv' /\ Emptied(live')  BY <2>2, ThingsStep
  <2> QED  BY <2>1, <2>3 DEF Emptied
<1>3. Inv => NothingLeftBehind  BY DEF Emptied, NothingLeftBehind
<1> QED  BY <1>1, <1>2, <1>3, PTL DEF Spec

LEMMA DeathLoot ==
  ASSUME ThingsInv, ListedInv, [Next]_vars, NEW a \in live.actors \ live'.actors
  PROVE  \E k \in live'.objs \ live.objs :
             /\ live'.cont[k] = live.at[a]
             /\ \A o \in Contents(live, a) : o \in live'.holds[k]
<1>0. TypeOK /\ live \in ZoneType  BY DEF ThingsInv, TypeOK
<1>1. DeathStep
  <2>1. ASSUME NEW s \in Session, EditorStep(s)  PROVE FALSE
    BY <1>0, <2>1, EditorThings
  <2>2. ASSUME ActorStep, ~DeathStep  PROVE FALSE
    BY <1>0, <2>2, ActorThings
  <2>3. ~ObjectStep  BY ObjectThings
  <2>4. \A s \in Session : ~RequestStep(s)  BY RequestThings
  <2>5. ASSUME live' = live  PROVE FALSE  BY <2>5
  <2>6. CASE (\E s \in Session, b \in Actor, x \in Exit : PrepareMove(s, b, x))
          \/ (\E s \in Reaper, o \in Object, l \in Location : PrepareReap(s, o, l))
          \/ UNCHANGED vars
    BY <2>5, <2>6 DEF PrepareMove, PrepareReap, Prepare, vars
  <2> QED  BY <2>1, <2>2, <2>3, <2>4, <2>6, SessionAssumption DEF Next
<1>2. PICK b \in live.actors, k \in Corpse, z \in ZoneType, d \in ZoneType :
          /\ SameThings(z, live) /\ z.actors = live.actors /\ z.locs = live.locs
          /\ Death(z, d, b, k)
  BY <1>1 DEF DeathStep
<1>3. b \in Actor /\ live.at[b] \in live.locs  BY <1>0 DEF ZoneType, ListedInv, Listed
<1>4. /\ live'.objs = live.objs \cup {k} /\ k \notin live.objs
      /\ live'.actors = live.actors \ {b}
      /\ Contents(live, b) \subseteq live'.holds[k]
      /\ live'.cont[k] = live.at[b]
  BY <1>2, <1>3, DeathThings
<1>5. a = b  BY <1>4
<1> QED  BY <1>4, <1>5

(* Whatever killed an Actor, all it had, down to what was in its bags, is  *)
(* in one new corpse where it stood: no command that came in between moved *)
(* the Location away from under the corpse.                                *)
THEOREM DeathsLeaveLoot == ASSUME SoleEditor PROVE Spec => DeathLeavesLoot
<1> DEFINE Inv == ThingsInv /\ ListedInv
<1>1. Init => Inv
  <2>1. Init => ListedInv
    BY EmptyZoneType DEF Init, ListedInv, TypeOK, Listed, EmptyZone, RemovalsGuarded, Has
  <2> QED  BY <2>1, ThingsInit
<1>2. Inv /\ [Next]_vars => Inv'  BY ListedStep, ThingsStep
<1>3. Inv /\ [Next]_vars =>
          \A a \in live.actors \ live'.actors :
              \E k \in live'.objs \ live.objs :
                  /\ live'.cont[k] = live.at[a]
                  /\ \A o \in Contents(live, a) : o \in live'.holds[k]
  BY DeathLoot
<1> HIDE DEF Inv
<1> QED  BY <1>1, <1>2, <1>3, PTL DEF Spec, DeathLeavesLoot

-----------------------------------------------------------------------------
(* Where Objects are in the end *)

(* All that has a place in the world keeps one. *)
Upholds(y, z) == \A o \in Object : Located(y, o) => Located(z, o)

LEMMA ResettledUpholds ==
  ASSUME NEW y \in ZoneType, NEW z \in ZoneType,
         \A o \in Object : z.cont[o] = y.cont[o] \/ Located(z, o)
  PROVE  Upholds(y, z)
BY StaysLocated DEF Upholds

LEMMA UnmovedUpholds ==
  ASSUME NEW y \in ZoneType, NEW z \in ZoneType, z.cont = y.cont
  PROVE  Upholds(y, z)
BY ResettledUpholds

(* Objects are put where somebody can go. *)
LEMMA PutDownUpholds ==
  ASSUME NEW y \in ZoneType, NEW z \in ZoneType, NEW O, NEW l,
         O # {} => l \in Location,
         z.cont = [o \in Object |-> IF o \in O THEN l ELSE y.cont[o]]
  PROVE  Upholds(y, z)
<1>1. ASSUME NEW o \in Object  PROVE z.cont[o] = y.cont[o] \/ Located(z, o)
  <2>1. CASE o \in O
    <3>1. z.cont[o] = l /\ l \in Location  BY <2>1
    <3>2. Located(z, z.cont[o])  BY <3>1, LocatedOutside
    <3> QED  BY <3>2, LocatedBelow
  <2>2. CASE o \notin O  BY <2>2
  <2> QED  BY <2>1, <2>2
<1> QED  BY <1>1, ResettledUpholds

(* The corpse lies where the Actor was, and what it had in the corpse. *)
LEMMA DeathUpholds ==
  ASSUME ThingsInv, NEW z \in ZoneType, NEW d, NEW a \in Actor, NEW k \in Corpse,
         SameThings(z, live), z.locs = live.locs, live.at[a] \in live.locs,
         live' \in ZoneType, Death(z, d, a, k)
  PROVE  Upholds(live, live')
<1> DEFINE loot == Contents(live, a)
           l    == live.at[a]
           y    == AfterObjectAdd(z, k, l)
           w    == AfterObjectsRelocate(y, loot, k)
<1>1. live \in ZoneType /\ Stowed(live) /\ live.objs \subseteq used /\ z.cont = live.cont
  BY DEF ThingsInv, TypeOK, SameThings
<1>2. l \in Location /\ k \in Object /\ a \in Container
  BY <1>1 DEF ZoneType, Object, Container
<1>3. k \notin live.objs  BY <1>1 DEF Death, Fresh
<1>4. k \notin loot  BY <1>1, <1>2, <1>3, ContentsInZone
<1>5. live' = AfterActorRemove(w, a)  BY DEF Death, AfterDeath
<1> HIDE DEF loot, l
<1>6. y.cont = [live.cont EXCEPT ![k] = l]  BY <1>1 DEF AfterObjectAdd, ZoneType, l
<1>7. y \in ZoneType  BY <1>2, ObjectAddType
<1> HIDE DEF y
<1>8. w.cont = [o \in Object |-> IF o \in loot THEN k ELSE y.cont[o]]
  BY <1>7 DEF AfterObjectsRelocate, ZoneType
<1>9. AfterActorRemove(w, a).cont = w.cont
  BY <1>7 DEF AfterObjectsRelocate, AfterActorRemove, ZoneType
<1> HIDE DEF w
<1>10. live'.cont = [o \in Object |-> IF o \in loot THEN k ELSE y.cont[o]]
  BY <1>5, <1>8, <1>9
<1>11. live'.cont[k] = l  BY <1>1, <1>2, <1>4, <1>6, <1>10 DEF ZoneType
<1>12. Located(live', k)
  <2>1. Located(live', live'.cont[k])  BY <1>2, <1>11, LocatedOutside
  <2> QED  BY <1>2, <2>1, LocatedBelow
<1>13. ASSUME NEW o \in Object  PROVE live'.cont[o] = live.cont[o] \/ Located(live', o)
  <2>1. CASE o \in loot
    <3>1. live'.cont[o] = k  BY <1>10, <2>1
    <3> QED  BY <1>12, <3>1, LocatedBelow
  <2>2. CASE o = k  BY <1>12, <2>2
  <2>3. CASE o \notin loot /\ o # k
    BY <1>1, <1>6, <1>10, <2>3 DEF ZoneType
  <2> QED  BY <2>1, <2>2, <2>3
<1> QED  BY <1>1, <1>13, ResettledUpholds

(* o is put elsewhere: into the world, or out of it with all that is in it. *)
LEMMA CarriedOff ==
  ASSUME NEW y \in ZoneType, NEW z \in ZoneType, NEW b \in Object,
         \A o \in Object \ {b} : z.cont[o] = y.cont[o],
         NEW o \in Object, Located(y, o), ~Located(z, o)
  PROVE  b \in WayUp(y, o)
BY StaysLocated

LEMMA MovedOnWay ==
  ASSUME NEW y \in ZoneType, NEW z \in ZoneType, NEW b \in Object, NEW to \in Container,
         z.cont = [y.cont EXCEPT ![b] = to], Located(y, to), b \notin WayUp(y, to)
  PROVE  Upholds(y, z)
<1>1. z.cont[b] = to /\ \A o \in Object \ {b} : z.cont[o] = y.cont[o]
  BY DEF ZoneType
<1>2. Located(z, to)
  <2>1. CASE to \in Object
    <3>1. ASSUME ~Located(z, to)  PROVE b \in WayUp(y, to)
      BY <1>1, <2>1, <3>1, CarriedOff
    <3> QED  BY <3>1
  <2>2. CASE to \notin Object
    BY <2>2, LocatedOutside DEF Container
  <2> QED  BY <2>1, <2>2
<1>3. Located(z, b)  BY <1>1, <1>2, LocatedBelow
<1>4. ASSUME NEW o \in Object  PROVE z.cont[o] = y.cont[o] \/ Located(z, o)
  BY <1>1, <1>3
<1> QED  BY <1>4, ResettledUpholds

(* What falls out of the world is with an Object that is removed or put    *)
(* into itself.                                                            *)
Falls(o, b) ==
    /\ b \in WayUp(live, o) \cap live.objs
    /\ b \notin live'.objs \/ b \in WayUp(live, live'.cont[b])

LEMMA ObjectFalls ==
  ASSUME ThingsInv, ObjectStep, live' \in ZoneType,
         NEW o \in live.objs \cap live'.objs, Located(live, o), ~Located(live', o)
  PROVE  \E b : Falls(o, b)
<1>0. /\ live \in ZoneType /\ Stowed(live) /\ o \in Object
      /\ \A c \in Container : live.holds[c] \subseteq Object
      /\ Actor \cup Location \subseteq Container
  BY DEF ThingsInv, TypeOK, ZoneType, Container
<1>1. ~Upholds(live, live')  BY <1>0 DEF Upholds
<1>2. ASSUME NEW i \in Item, NEW l \in Location, AddObject(i, l)  PROVE FALSE
  <2> DEFINE O == {i}
  <2>1. live'.cont = [k \in Object |-> IF k \in O THEN l ELSE live.cont[k]]
    BY <1>0, <1>2 DEF AddObject, AfterObjectAdd, ZoneType
  <2> HIDE DEF O
  <2> QED  BY <1>0, <1>1, <2>1, PutDownUpholds
<1>3. ASSUME NEW who \in Actor, NEW from \in Container, NEW to \in Container,
             NEW b \in live.holds[from], MoveObject(who, b, from, to)
      PROVE  Falls(o, b)
  <2>1. live' = AfterObjectMove(live, b, from, to) /\ Located(live, to) /\ b \in live.objs
    BY <1>3 DEF MoveObject, CanMoveObject
  <2>2. b \in Object  BY <1>0
  <2>3. live'.cont = [live.cont EXCEPT ![b] = to]
    BY <1>0, <2>1 DEF AfterObjectMove, ZoneType
  <2>4. live'.cont[b] = to /\ \A k \in Object \ {b} : live'.cont[k] = live.cont[k]
    BY <1>0, <2>2, <2>3 DEF ZoneType
  <2>5. b \in WayUp(live, to)  BY <1>0, <1>1, <2>1, <2>2, <2>3, MovedOnWay
  <2>6. b \in WayUp(live, o)  BY <1>0, <2>2, <2>4, CarriedOff
  <2> QED  BY <2>1, <2>4, <2>5, <2>6 DEF Falls
<1>4. ASSUME NEW who \in Actor, NEW from \in Container, NEW to \in Container,
             NEW b \in live.holds[from], MoveObjectFails(who, b, from, to)
      PROVE  FALSE
  <2>1. live'.cont = live.cont
    BY <1>0, <1>4 DEF MoveObjectFails, AfterObjectMoveFails, ZoneType
  <2> QED  BY <1>0, <1>1, <2>1, UnmovedUpholds
<1>5. ASSUME NEW a, NEW b, Wear(a, b) \/ Unwear(a, b)  PROVE FALSE
  <2>1. live'.cont = live.cont
    BY <1>0, <1>5 DEF Wear, Unwear, AfterMoveSubcontainer, ZoneType
  <2> QED  BY <1>0, <1>1, <2>1, UnmovedUpholds
<1> QED  BY <1>2, <1>3, <1>4, <1>5 DEF ObjectStep

LEMMA VacatedContainers ==
  ASSUME NEW l \in Location, NEW X \in SUBSET Exit, NEW A \in SUBSET Actor,
         live \in ZoneType, NEW O
  PROVE  /\ Vacated(l, X, A, O).cont = [o \in Object |-> IF o \in O THEN live.def ELSE live.cont[o]]
         /\ AfterLocationRemove(Vacated(l, X, A, O), l).cont = Vacated(l, X, A, O).cont
<1> DEFINE x == AfterExitsRemove(live, X)
           y == AfterActorsRelocate(x, A, live.def)
<1>1. live.def \in Location \cup {Nil}  BY DEF ZoneType
<1>2. x \in ZoneType  BY ExitsRemoveType
<1>3. x.cont = live.cont  BY DEF AfterExitsRemove, ZoneType
<1> HIDE DEF x
<1>4. y \in ZoneType  BY <1>1, <1>2, ActorsRelocateType
<1>5. y.cont = x.cont  BY <1>2 DEF AfterActorsRelocate, ZoneType
<1>6. Vacated(l, X, A, O) = AfterObjectsRelocate(y, O, live.def)  BY DEF Vacated, x
<1> HIDE DEF y
<1>7. AfterObjectsRelocate(y, O, live.def).cont
          = [o \in Object |-> IF o \in O THEN live.def ELSE y.cont[o]]
  BY <1>4 DEF AfterObjectsRelocate, ZoneType
<1>8. AfterLocationRemove(AfterObjectsRelocate(y, O, live.def), l).cont
          = AfterObjectsRelocate(y, O, live.def).cont
  BY <1>4 DEF AfterObjectsRelocate, AfterLocationRemove, ZoneType
<1> QED  BY <1>3, <1>5, <1>6, <1>7, <1>8

LEMMA RequestFalls ==
  ASSUME ThingsInv, NEW s \in Session, RequestStep(s), live' \in ZoneType,
         NEW o \in live.objs \cap live'.objs, Located(live, o), ~Located(live', o)
  PROVE  \E b : Falls(o, b)
<1>0. /\ live \in ZoneType /\ o \in Object /\ live.objs \subseteq Object
      /\ TypeOK /\ pending[s] \in Request \cup {Nil}
  BY DEF ThingsInv, TypeOK, ZoneType
<1>1. ~Upholds(live, live')  BY <1>0 DEF Upholds
<1>2. live'.cont # live.cont  BY <1>0, <1>1, UnmovedUpholds
<1>3. ~UpdateExit(s)
  BY <1>0, <1>2 DEF UpdateExit, AfterExitUpdate, ZoneType
<1>4. ASSUME RemoveLocation(s)  PROVE FALSE
  <2> DEFINE l == pending[s].loc
             gone == Vacated(l, ExitsAt(l), live.here[l], live.holds[l])
  <2>1. l \in Location /\ live' = AfterLocationRemove(gone, l) /\ ~NowhereToGo(l)
    BY <1>0, <1>4 DEF RemoveLocation, Has, Request
  <2> HIDE DEF l
  <2>2. ExitsAt(l) \in SUBSET Exit /\ live.here[l] \in SUBSET Actor
    BY <1>0, <2>1 DEF ZoneType, ExitsAt, ExitsToLocation
  <2>3. live'.cont = [k \in Object |-> IF k \in live.holds[l] THEN live.def ELSE live.cont[k]]
    BY <1>0, <2>1, <2>2, VacatedContainers
  <2>4. live.holds[l] # {} => live.def \in Location
    BY <1>0, <2>1 DEF NowhereToGo, ZoneType
  <2> QED  BY <1>0, <1>1, <2>3, <2>4, PutDownUpholds
<1>5. ASSUME RemoveLocationFails(s)  PROVE FALSE
  <2> DEFINE l == pending[s].loc
  <2>1. l \in Location
    BY <1>0, <1>5 DEF RemoveLocationFails, Has, Request
  <2> HIDE DEF l
  <2>2. ASSUME NEW X, live' = AfterExitsRemove(live, X)  PROVE FALSE
    BY <1>0, <1>2, <2>2 DEF AfterExitsRemove, ZoneType
  <2>3. ASSUME NEW A \in SUBSET (live.here[l] \cap live.actors),
               live' = Vacated(l, ExitsAt(l), A, {})
        PROVE  FALSE
    <3>1. A \in SUBSET Actor /\ ExitsAt(l) \in SUBSET Exit
      BY <1>0, <2>1 DEF ZoneType, ExitsAt, ExitsToLocation
    <3>2. live'.cont = [k \in Object |-> IF k \in {} THEN live.def ELSE live.cont[k]]
      BY <1>0, <2>1, <2>3, <3>1, VacatedContainers
    <3> QED  BY <1>0, <1>2, <3>2 DEF ZoneType
  <2> QED  BY <1>5, <2>2, <2>3 DEF RemoveLocationFails, l
<1>6. ~Move(s)
  BY <1>0, <1>2 DEF Move, AfterActorMove, ZoneType
<1>7. CASE Reap(s)
  <2> DEFINE b == pending[s].obj
  <2>1. b \in Object /\ b \in live.objs /\ live' = AfterObjectRemove(live, b)
    BY <1>0, <1>7 DEF Reap, CanReap, Has, Request
  <2> HIDE DEF b
  <2>2. live'.cont = [live.cont EXCEPT ![b] = Nil] /\ live'.objs = live.objs \ {b}
    BY <1>0, <2>1 DEF AfterObjectRemove, ZoneType
  <2>3. \A k \in Object \ {b} : live'.cont[k] = live.cont[k]
    BY <1>0, <2>2 DEF ZoneType
  <2>4. b \in WayUp(live, o)  BY <1>0, <2>1, <2>3, CarriedOff
  <2> QED  BY <2>1, <2>2, <2>4 DEF Falls
<1>8. ~Reject(s)  BY <1>2 DEF Reject
<1> QED  BY <1>3, <1>4, <1>5, <1>6, <1>7, <1>8 DEF RequestStep

LEMMA StepFalls ==
  ASSUME ThingsInv, ListedInv, [Next]_vars,
         NEW o \in live.objs \cap live'.objs, Located(live, o), ~Located(live', o)
  PROVE  \E b : Falls(o, b)
<1>0. TypeOK /\ live \in ZoneType /\ live' \in ZoneType /\ o \in Object
  BY TypeStep DEF ThingsInv, TypeOK, ZoneType
<1>1. ~Upholds(live, live')  BY <1>0 DEF Upholds
<1>2. ~SameThings(live', live)  BY <1>0, <1>1, UnmovedUpholds DEF SameThings
<1>3. \A s \in Session : ~EditorStep(s)  BY <1>0, <1>2, EditorThings
<1>4. ~ActorStep
  <2> SUFFICES ASSUME DeathStep  PROVE FALSE
    BY <1>0, <1>2, ActorThings
  <2>1. PICK a \in live.actors, k \in Corpse, z \in ZoneType, d \in ZoneType :
            /\ SameThings(z, live) /\ z.actors = live.actors /\ z.locs = live.locs
            /\ Death(z, d, a, k)
    BY DEF DeathStep
  <2>2. a \in Actor /\ live.at[a] \in live.locs
    BY <1>0 DEF ZoneType, ListedInv, Listed
  <2> QED  BY <1>0, <1>1, <2>1, <2>2, DeathUpholds
<1>5. CASE ObjectStep  BY <1>0, <1>5, ObjectFalls
<1>6. ASSUME NEW s \in Session, RequestStep(s)  PROVE \E b : Falls(o, b)
  BY <1>0, <1>6, RequestFalls
<1>7. CASE (\E s \in Session, a \in Actor, x \in Exit : PrepareMove(s, a, x))
        \/ (\E s \in Reaper, i \in Object, l \in Location : PrepareReap(s, i, l))
        \/ UNCHANGED vars
  BY <1>2, <1>7 DEF PrepareMove, PrepareReap, Prepare, vars, SameThings
<1> QED  BY <1>3, <1>4, <1>5, <1>6, <1>7, SessionAssumption DEF Next

(* With one editor at a time an Object drops out of the world, so that     *)
(* asking for its Location ends the process, only under something the      *)
(* reaper takes or something that is put into itself.                      *)
THEOREM NoOtherWayOut == ASSUME SoleEditor PROVE Spec => NothingFallsOut
<1> DEFINE Inv == ThingsInv /\ ListedInv
<1>1. Init => Inv
  <2>1. Init => ListedInv
    BY EmptyZoneType DEF Init, ListedInv, TypeOK, Listed, EmptyZone, RemovalsGuarded, Has
  <2> QED  BY <2>1, ThingsInit
<1>2. Inv /\ [Next]_vars => Inv'  BY ListedStep, ThingsStep
<1>3. Inv /\ [Next]_vars =>
          \A o \in live.objs \cap live'.objs :
              Located(live, o) /\ ~Located(live', o) =>
                  \E b \in WayUp(live, o) \cap live.objs :
                      b \notin live'.objs \/ b \in WayUp(live, live'.cont[b])
  <2> SUFFICES ASSUME Inv, [Next]_vars, NEW o \in live.objs \cap live'.objs,
                      Located(live, o), ~Located(live', o)
               PROVE  \E b \in WayUp(live, o) \cap live.objs :
                          b \notin live'.objs \/ b \in WayUp(live, live'.cont[b])
    OBVIOUS
  <2>1. PICK b : Falls(o, b)  BY StepFalls
  <2> QED  BY <2>1 DEF Falls
<1> HIDE DEF Inv
<1> QED  BY <1>1, <1>2, <1>3, PTL DEF Spec, NothingFallsOut

-----------------------------------------------------------------------------
(* What a restart gets right *)

SamePeople(y, z) ==
    /\ y.locs = z.locs /\ y.def = z.def
    /\ y.actors = z.actors /\ y.hp = z.hp /\ y.objs = z.objs

SameExits(y, z) ==
    \A x \in z.exits : /\ x \in y.exits
                       /\ y.src[x] = z.src[x] /\ y.dir[x] = z.dir[x] /\ y.dst[x] = z.dst[x]

Restored(y, z) == SamePeople(y, z) /\ SameExits(y, z)

(* Nothing of what is restored has changed. *)
SameRoll(y, z) ==
    /\ SamePeople(y, z) /\ y.exits = z.exits
    /\ y.src = z.src /\ y.dir = z.dir /\ y.dst = z.dst

-----------------------------------------------------------------------------
(* An event does the same to the Zone in memory and to the replayed one. *)

LEMMA RestoredFrame ==
  ASSUME NEW z, NEW y, NEW d, NEW e, SameRoll(y, z), SameRoll(e, d), Restored(d, z)
  PROVE  Restored(e, y)
BY DEF Restored, SameRoll, SamePeople, SameExits

LEMMA SameRollReflexive == \A z : SameRoll(z, z)
BY DEF SameRoll, SamePeople

LEMMA LocationEventsRestored ==
  ASSUME NEW z \in ZoneType, NEW d \in ZoneType, Restored(d, z), NEW l
  PROVE  /\ Restored(AfterLocationAdd(d, l), AfterLocationAdd(z, l))
         /\ Restored(AfterSetDefault(d, l), AfterSetDefault(z, l))
         /\ Restored(AfterLocationRemove(d, l), AfterLocationRemove(z, l))
<1>1. Restored(AfterLocationAdd(d, l), AfterLocationAdd(z, l))
  BY DEF AfterLocationAdd, ZoneType, Restored, SamePeople, SameExits
<1>2. Restored(AfterSetDefault(d, l), AfterSetDefault(z, l))
  BY DEF AfterSetDefault, ZoneType, Restored, SamePeople, SameExits
<1>3. Restored(AfterLocationRemove(d, l), AfterLocationRemove(z, l))
  BY DEF AfterLocationRemove, ZoneType, Restored, SamePeople, SameExits
<1> QED  BY <1>1, <1>2, <1>3

LEMMA ExitAddRestored ==
  ASSUME NEW z \in ZoneType, NEW d \in ZoneType, Restored(d, z),
         NEW x \in Exit, NEW l, NEW r, NEW t
  PROVE  Restored(AfterExitAdd(d, x, l, r, t), AfterExitAdd(z, x, l, r, t))
<1> DEFINE y == AfterExitAdd(z, x, l, r, t)
           e == AfterExitAdd(d, x, l, r, t)
<1>1. /\ y.exits = z.exits \cup {x} /\ y.src = [z.src EXCEPT ![x] = l]
      /\ y.dir = [z.dir EXCEPT ![x] = r] /\ y.dst = [z.dst EXCEPT ![x] = t]
      /\ SamePeople(y, z)
  BY DEF AfterExitAdd, ZoneType, SamePeople
<1>2. /\ e.exits = d.exits \cup {x} /\ e.src = [d.src EXCEPT ![x] = l]
      /\ e.dir = [d.dir EXCEPT ![x] = r] /\ e.dst = [d.dst EXCEPT ![x] = t]
      /\ SamePeople(e, d)
  BY DEF AfterExitAdd, ZoneType, SamePeople
<1>3. /\ z.exits \subseteq Exit /\ DOMAIN z.src = Exit /\ DOMAIN z.dir = Exit /\ DOMAIN z.dst = Exit
      /\ DOMAIN d.src = Exit /\ DOMAIN d.dir = Exit /\ DOMAIN d.dst = Exit
  BY DEF ZoneType
<1> HIDE DEF y, e
<1>4. SameExits(e, y)  BY <1>1, <1>2, <1>3 DEF Restored, SameExits
<1>5. SamePeople(e, y)  BY <1>1, <1>2 DEF Restored, SamePeople
<1> QED  BY <1>4, <1>5 DEF Restored, y, e

LEMMA ExitUpdateRestored ==
  ASSUME NEW z \in ZoneType, NEW d \in ZoneType, Restored(d, z), NEW x \in Exit, NEW r, NEW t
  PROVE  Restored(AfterExitUpdate(d, x, r, t), AfterExitUpdate(z, x, r, t))
<1> DEFINE y == AfterExitUpdate(z, x, r, t)
           e == AfterExitUpdate(d, x, r, t)
           w == IF t = Elsewhere THEN Elsewhere ELSE Nil
<1>1. /\ y.exits = z.exits /\ y.src = z.src
      /\ y.dir = [z.dir EXCEPT ![x] = r] /\ y.dst = [z.dst EXCEPT ![x] = w]
      /\ SamePeople(y, z)
  BY DEF AfterExitUpdate, ZoneType, SamePeople
<1>2. /\ e.exits = d.exits /\ e.src = d.src
      /\ e.dir = [d.dir EXCEPT ![x] = r] /\ e.dst = [d.dst EXCEPT ![x] = w]
      /\ SamePeople(e, d)
  BY DEF AfterExitUpdate, ZoneType, SamePeople
<1>3. /\ z.exits \subseteq Exit /\ DOMAIN z.dir = Exit /\ DOMAIN z.dst = Exit
      /\ DOMAIN d.dir = Exit /\ DOMAIN d.dst = Exit
  BY DEF ZoneType
<1> HIDE DEF y, e, w
<1>4. SameExits(e, y)  BY <1>1, <1>2, <1>3 DEF Restored, SameExits
<1>5. SamePeople(e, y)  BY <1>1, <1>2 DEF Restored, SamePeople
<1> QED  BY <1>4, <1>5 DEF Restored, y, e

LEMMA ExitsRemoveRestored ==
  ASSUME NEW z \in ZoneType, NEW d \in ZoneType, Restored(d, z), NEW X
  PROVE  /\ Restored(AfterExitsRemove(d, X), AfterExitsRemove(z, X))
         /\ Restored(d, AfterExitsRemove(z, X))
<1>1. Restored(AfterExitsRemove(d, X), AfterExitsRemove(z, X))
  BY DEF AfterExitsRemove, ZoneType, Restored, SamePeople, SameExits
<1>2. Restored(d, AfterExitsRemove(z, X))
  BY DEF AfterExitsRemove, ZoneType, Restored, SamePeople, SameExits
<1> QED  BY <1>1, <1>2

LEMMA ActorEventsRestored ==
  ASSUME NEW z \in ZoneType, NEW d \in ZoneType, Restored(d, z), NEW a \in Actor, NEW l, NEW n
  PROVE  /\ Restored(AfterActorAdd(d, a, l), AfterActorAdd(z, a, l))
         /\ Restored(AfterDamage(d, a, n), AfterDamage(z, a, n))
         /\ Restored(AfterActorRemove(d, a), AfterActorRemove(z, a))
<1>1. Restored(AfterActorAdd(d, a, l), AfterActorAdd(z, a, l))
  BY DEF AfterActorAdd, ZoneType, Restored, SamePeople, SameExits
<1>2. Restored(AfterDamage(d, a, n), AfterDamage(z, a, n))
  BY DEF AfterDamage, ZoneType, Restored, SamePeople, SameExits
<1>3. Restored(AfterActorRemove(d, a), AfterActorRemove(z, a))
  BY DEF AfterActorRemove, ZoneType, Restored, SamePeople, SameExits
<1> QED  BY <1>1, <1>2, <1>3

LEMMA ObjectEventsRestored ==
  ASSUME NEW z \in ZoneType, NEW d \in ZoneType, Restored(d, z), NEW o \in Object, NEW l
  PROVE  /\ Restored(AfterObjectAdd(d, o, l), AfterObjectAdd(z, o, l))
         /\ Restored(AfterObjectRemove(d, o), AfterObjectRemove(z, o))
<1>1. Restored(AfterObjectAdd(d, o, l), AfterObjectAdd(z, o, l))
  BY DEF AfterObjectAdd, ZoneType, Restored, SamePeople, SameExits
<1>2. Restored(AfterObjectRemove(d, o), AfterObjectRemove(z, o))
  BY DEF AfterObjectRemove, ZoneType, Restored, SamePeople, SameExits
<1> QED  BY <1>1, <1>2

(* Moving about, by oneself or by order, changes nothing that is restored. *)
LEMMA MovesRoll ==
  ASSUME NEW z \in ZoneType, NEW e, NEW from, NEW to, NEW A, NEW wear \in BOOLEAN
  PROVE  /\ SameRoll(AfterActorMove(z, e, from, to), z)
         /\ SameRoll(AfterActorsRelocate(z, A, to), z)
         /\ SameRoll(AfterObjectMove(z, e, from, to), z)
         /\ SameRoll(AfterObjectMoveFails(z, e, from), z)
         /\ SameRoll(AfterMoveSubcontainer(z, e, wear), z)
         /\ SameRoll(AfterObjectsRelocate(z, A, to), z)
<1>1. SameRoll(AfterActorMove(z, e, from, to), z)
  BY DEF AfterActorMove, ZoneType, SameRoll, SamePeople
<1>2. SameRoll(AfterActorsRelocate(z, A, to), z)
  BY DEF AfterActorsRelocate, ZoneType, SameRoll, SamePeople
<1>3. SameRoll(AfterObjectMove(z, e, from, to), z)
  BY DEF AfterObjectMove, ZoneType, SameRoll, SamePeople
<1>4. SameRoll(AfterObjectMoveFails(z, e, from), z)
  BY DEF AfterObjectMoveFails, ZoneType, SameRoll, SamePeople
<1>5. SameRoll(AfterMoveSubcontainer(z, e, wear), z)
  BY DEF AfterMoveSubcontainer, ZoneType, SameRoll, SamePeople
<1>6. SameRoll(AfterObjectsRelocate(z, A, to), z)
  BY DEF AfterObjectsRelocate, ZoneType, SameRoll, SamePeople
<1> QED  BY <1>1, <1>2, <1>3, <1>4, <1>5, <1>6

LEMMA DeathRestored ==
  ASSUME NEW z \in ZoneType, NEW d \in ZoneType, Restored(d, z), NEW a \in Actor,
         NEW k \in Corpse, NEW l \in Location, NEW O \in SUBSET Object
  PROVE  Restored(AfterDeath(d, a, k, l, O), AfterDeath(z, a, k, l, O))
<1> DEFINE y == AfterObjectAdd(z, k, l)
           e == AfterObjectAdd(d, k, l)
           w == AfterObjectsRelocate(y, O, k)
           g == AfterObjectsRelocate(e, O, k)
<1>1. k \in Object /\ k \in Container  BY DEF Object, Container
<1>2. y \in ZoneType /\ e \in ZoneType /\ Restored(e, y)
  BY <1>1, ObjectAddType, ObjectEventsRestored
<1> HIDE DEF y, e
<1>3. SameRoll(w, y) /\ SameRoll(g, e)  BY <1>2, MovesRoll
<1>4. w \in ZoneType /\ g \in ZoneType  BY <1>1, <1>2, ObjectsRelocateType
<1> HIDE DEF w, g
<1>5. Restored(g, w)  BY <1>2, <1>3, RestoredFrame
<1>6. Restored(AfterActorRemove(g, a), AfterActorRemove(w, a))  BY <1>4, <1>5, ActorEventsRestored
<1> QED  BY <1>6 DEF AfterDeath, y, e, w, g

LEMMA VacatedRestored ==
  ASSUME TypeOK, NEW d \in ZoneType, Restored(d, live), NEW X \in SUBSET Exit,
         NEW A \in SUBSET Actor, NEW O \in SUBSET Object, NEW l
  PROVE  Restored(d, Vacated(l, X, A, O))
<1> DEFINE y == AfterExitsRemove(live, X)
           w == AfterActorsRelocate(y, A, live.def)
<1>0. live \in ZoneType /\ live.def \in Location \cup {Nil}  BY DEF TypeOK, ZoneType
<1>1. y \in ZoneType /\ Restored(d, y)  BY <1>0, ExitsRemoveType, ExitsRemoveRestored
<1> HIDE DEF y
<1>2. w \in ZoneType /\ SameRoll(w, y)  BY <1>0, <1>1, ActorsRelocateType, MovesRoll
<1> HIDE DEF w
<1>3. SameRoll(AfterObjectsRelocate(w, O, live.def), w)  BY <1>2, MovesRoll
<1>4. Restored(d, w)  BY <1>1, <1>2, RestoredFrame, SameRollReflexive
<1>5. Restored(d, AfterObjectsRelocate(w, O, live.def))
  BY <1>3, <1>4, RestoredFrame, SameRollReflexive
<1> QED  BY <1>5 DEF Vacated, y, w

-----------------------------------------------------------------------------
(* The population and the passages *)

RestoredInv == TypeOK /\ (loads => Restored(disk, live))

LEMMA PersistRestored ==
  ASSUME RestoredInv, NEW d, NEW ok, Persist(d, ok),
         loads /\ ok /\ Restored(disk, live) => Restored(d, live')
  PROVE  loads' => Restored(disk', live')
BY DEF Persist, RestoredInv, TypeOK

LEMMA PersistNothingRestored ==
  ASSUME RestoredInv, PersistNothing, Restored(disk, live) => Restored(disk, live')
  PROVE  loads' => Restored(disk', live')
BY DEF PersistNothing, RestoredInv

LEMMA RestoredStep ==
  ASSUME RestoredInv, [Next]_vars
  PROVE  RestoredInv'
<1> DEFINE Kept == loads' => Restored(disk', live')
<1> SUFFICES Kept  BY TypeStep DEF RestoredInv, Restored
<1>0. TypeOK /\ live \in ZoneType /\ disk \in ZoneType /\ (loads => Restored(disk, live))
  BY DEF RestoredInv, TypeOK
<1>z. live \in ZoneType /\ disk \in ZoneType  BY <1>0
<1>1. ASSUME live' = live, disk' = disk, loads' = loads  PROVE Kept
  BY <1>0, <1>1
<1>2. ASSUME NEW s \in Session, NEW r, Prepare(s, r)  PROVE Kept
  BY <1>1, <1>2 DEF Prepare
<1>3. ASSUME NEW s \in Editor, EditorStep(s)  PROVE Kept
  <2>0. s \in Session  BY SessionAssumption
  <2>1. ASSUME NEW l \in Location, AddLocation(s, l)  PROVE Kept
    BY <1>z, <2>1, LocationEventsRestored, PersistRestored DEF AddLocation
  <2>2. ASSUME NEW l \in Location, SetDefaultLocation(s, l)  PROVE Kept
    BY <1>z, <2>2, LocationEventsRestored, PersistRestored DEF SetDefaultLocation
  <2>3. ASSUME NEW x \in Exit, NEW l, NEW d, NEW t, AddExit(s, x, l, d, t)  PROVE Kept
    BY <1>z, <2>3, ExitAddRestored, PersistRestored DEF AddExit
  <2>4. ASSUME NEW x \in Exit, RemoveExit(s, x)  PROVE Kept
    BY <1>z, <2>4, ExitsRemoveRestored, PersistRestored DEF RemoveExit
  <2>5. ASSUME NEW x, NEW d, NEW t, PrepareUpdateExit(s, x, d, t)  PROVE Kept
    BY <1>2, <2>0, <2>5 DEF PrepareUpdateExit
  <2>6. ASSUME NEW l, PrepareRemoveLocation(s, l)  PROVE Kept
    BY <1>2, <2>0, <2>6 DEF PrepareRemoveLocation
  <2> QED  BY <1>3, <2>1, <2>2, <2>3, <2>4, <2>5, <2>6 DEF EditorStep
<1>4. CASE ActorStep
  <2>1. ASSUME NEW a \in Actor, NEW l \in Location, AddActor(a, l)  PROVE Kept
    BY <1>z, <2>1, ActorEventsRestored, PersistRestored DEF AddActor
  <2>2. ASSUME NEW z \in ZoneType, NEW d \in ZoneType, NEW a \in Actor, NEW k \in Corpse,
               Death(z, d, a, k), Restored(disk, live) => Restored(d, z)
        PROVE  Kept
    <3> DEFINE loot == Contents(live, a)
               l    == live.at[a]
    <3>1. l \in Location  BY <1>z, <2>2 DEF Death, ZoneType
    <3>2. loot \in SUBSET Object  BY <1>z, ContentsType DEF Container
    <3> HIDE DEF loot, l
    <3>3. /\ live' = AfterDeath(z, a, k, l, loot)
          /\ Persist(AfterDeath(d, a, k, l, loot), a \in disk.actors /\ loot \subseteq disk.objs)
      BY <2>2 DEF Death, loot, l
    <3> QED  BY <2>2, <3>1, <3>2, <3>3, DeathRestored, PersistRestored
  <2>3. ASSUME NEW a \in Actor, NEW k \in Corpse, Die(a, k)  PROVE Kept
    BY <1>z, <2>2, <2>3 DEF Die
  <2>4. ASSUME NEW a \in Actor, NEW b \in Actor, NEW d \in 1..MaxHp, Hit(a, b, d)  PROVE Kept
    BY <1>z, <2>4, ActorEventsRestored, PersistRestored DEF Hit
  <2>5. ASSUME NEW a \in Actor, NEW b \in Actor, NEW d \in 1..MaxHp, NEW k \in Corpse,
               HitToDeath(a, b, d, k)
        PROVE  Kept
    <3> DEFINE hurt  == AfterDamage(live, b, d)
               saved == AfterDamage(disk, b, d)
    <3>1. d \in Nat  BY ConstantsAssumption
    <3>2. hurt \in ZoneType /\ saved \in ZoneType  BY <1>z, <3>1, DamageType
    <3>3. Restored(disk, live) => Restored(saved, hurt)  BY <1>z, ActorEventsRestored
    <3>4. Death(hurt, saved, b, k)  BY <2>5 DEF HitToDeath
    <3> HIDE DEF hurt, saved
    <3> QED  BY <2>2, <3>2, <3>3, <3>4
  <2> QED  BY <1>4, <2>1, <2>3, <2>4, <2>5 DEF ActorStep
<1>5. ASSUME NEW d, NEW ok, Persist(d, ok), SameRoll(live', live), SameRoll(d, disk)
      PROVE  Kept
  <2>1. Restored(disk, live) => Restored(d, live')  BY <1>5, RestoredFrame
  <2> QED  BY <1>5, <2>1, PersistRestored
<1>6. CASE ObjectStep
  <2>0. \A c \in Container : live.holds[c] \subseteq Object  BY <1>z DEF ZoneType
  <2>1. ASSUME NEW o \in Item, NEW l, AddObject(o, l)  PROVE Kept
    <3>1. o \in Object  BY DEF Object
    <3> QED  BY <1>z, <2>1, <3>1, ObjectEventsRestored, PersistRestored DEF AddObject
  <2>2. ASSUME NEW who, NEW from, NEW to, NEW o, MoveObject(who, o, from, to)  PROVE Kept
    BY <1>z, <1>5, <2>2, MovesRoll DEF MoveObject
  <2>3. ASSUME NEW who, NEW from, NEW to, NEW o, MoveObjectFails(who, o, from, to)  PROVE Kept
    <3>1. SameRoll(live', live)  BY <1>z, <2>3, MovesRoll DEF MoveObjectFails
    <3>2. Restored(disk, live) => Restored(disk, live')
      BY <3>1, RestoredFrame, SameRollReflexive
    <3> QED  BY <2>3, <3>2, PersistNothingRestored DEF MoveObjectFails
  <2>4. ASSUME NEW a, NEW o, Wear(a, o)  PROVE Kept
    BY <1>z, <1>5, <2>4, MovesRoll DEF Wear
  <2>5. ASSUME NEW a, NEW o, Unwear(a, o)  PROVE Kept
    BY <1>z, <1>5, <2>5, MovesRoll DEF Unwear
  <2> QED  BY <1>6, <2>1, <2>2, <2>3, <2>4, <2>5 DEF ObjectStep
<1>7. ASSUME NEW s \in Session, RequestStep(s)  PROVE Kept
  <2>0. pending[s] \in Request \cup {Nil}  BY <1>0 DEF TypeOK
  <2>1. CASE UpdateExit(s)
    <3>1. pending[s].exit \in Exit  BY <2>0, <2>1 DEF UpdateExit, Has, Request
    <3> QED  BY <1>z, <2>1, <3>1, ExitUpdateRestored, PersistRestored DEF UpdateExit
  <2>2. CASE RemoveLocation(s)
    <3> DEFINE l == pending[s].loc
               gone == Vacated(l, ExitsAt(l), live.here[l], live.holds[l])
    <3>1. l \in Location  BY <2>0, <2>2 DEF RemoveLocation, Has, Request
    <3>2. live' = AfterLocationRemove(gone, l) /\ Persist(AfterLocationRemove(disk, l), TRUE)
      BY <2>2 DEF RemoveLocation
    <3> HIDE DEF l
    <3>3. /\ ExitsAt(l) \in SUBSET Exit
          /\ live.here[l] \in SUBSET Actor /\ live.holds[l] \in SUBSET Object
      BY <1>z, <3>1 DEF ZoneType, ExitsAt, ExitsToLocation, Container
    <3>4. gone \in ZoneType  BY <1>0, <3>1, <3>3, VacatedType
    <3>5. Restored(disk, live) => Restored(disk, gone)
      BY <1>0, <3>3, VacatedRestored
    <3> HIDE DEF gone
    <3>6. Restored(disk, live) => Restored(AfterLocationRemove(disk, l), live')
      BY <1>z, <3>2, <3>4, <3>5, LocationEventsRestored
    <3> QED  BY <3>2, <3>6, PersistRestored
  <2>3. CASE RemoveLocationFails(s)
    <3> DEFINE l == pending[s].loc
    <3>1. l \in Location /\ PersistNothing
      BY <2>0, <2>3 DEF RemoveLocationFails, Has, Request
    <3> HIDE DEF l
    <3>2. ExitsAt(l) \in SUBSET Exit /\ live.here[l] \in SUBSET Actor
      BY <1>z, <3>1 DEF ZoneType, ExitsAt, ExitsToLocation
    <3>3. ASSUME NEW X, live' = AfterExitsRemove(live, X)  PROVE Kept
      BY <1>z, <3>1, <3>3, ExitsRemoveRestored, PersistNothingRestored
    <3>4. ASSUME NEW A \in SUBSET Actor, live' = Vacated(l, ExitsAt(l), A, {})  PROVE Kept
      <4>1. Restored(disk, live) => Restored(disk, live')
        BY <1>0, <3>2, <3>4, VacatedRestored
      <4> QED  BY <3>1, <4>1, PersistNothingRestored
    <3>5. \A A \in SUBSET (live.here[l] \cap live.actors) : A \in SUBSET Actor  BY <3>2
    <3> QED  BY <2>3, <3>3, <3>4, <3>5 DEF RemoveLocationFails, l
  <2>4. CASE Move(s)  BY <1>z, <1>5, <2>4, MovesRoll DEF Move
  <2>5. CASE Reap(s)
    <3>1. pending[s].obj \in Object  BY <2>0, <2>5 DEF Reap, Has, Request
    <3> QED  BY <1>z, <2>5, <3>1, ObjectEventsRestored, PersistRestored DEF Reap
  <2>6. CASE Reject(s)  BY <1>1, <2>6 DEF Reject
  <2> QED  BY <1>7, <2>1, <2>2, <2>3, <2>4, <2>5, <2>6 DEF RequestStep
<1>8. CASE (\E s \in Session, a \in Actor, x \in Exit : PrepareMove(s, a, x))
        \/ (\E s \in Reaper, o \in Object, l \in Location : PrepareReap(s, o, l))
        \/ UNCHANGED vars
  BY <1>1, <1>8 DEF PrepareMove, PrepareReap, Prepare, vars
<1> QED  BY <1>3, <1>4, <1>6, <1>7, <1>8 DEF Next

LEMMA RestoredInit == Init => RestoredInv
BY EmptyZoneType DEF Init, RestoredInv, TypeOK, Restored, SamePeople, SameExits

(* Whenever the process dies, a replay that runs to its end finds the      *)
(* Locations, the Actors with their hit points, and the Objects there      *)
(* were, though a removal of a Location logs one of its many events, and a *)
(* failed move or removal none of what it did.                             *)
THEOREM PopulationRestored == Spec => []RestartKeepsPopulation
<1>1. RestoredInv => RestartKeepsPopulation
  BY DEF RestoredInv, Restored, SamePeople, RestartKeepsPopulation
<1> QED  BY <1>1, RestoredInit, RestoredStep, PTL DEF Spec

(* ... and every passage there was, with the two ends it had: what a       *)
(* removal takes away without a trace in the log only comes back.          *)
THEOREM PassagesRestored == Spec => []RestartKeepsPassages
<1>1. RestoredInv => RestartKeepsPassages
  BY DEF RestoredInv, Restored, SameExits, RestartKeepsPassages
<1> QED  BY <1>1, RestoredInit, RestoredStep, PTL DEF Spec

-----------------------------------------------------------------------------
(* Places.  The log does not tell that the removal of a Location has sent  *)
(* its occupants away: to a replay they are still there.  It remains true  *)
(* that they are where they were or in a Location that is gone, because an *)
(* id that was given out does not come back.                               *)

Placed ==
    /\ \A a \in Actor : disk.at[a] \in used \cup {Nil}
    /\ \A o \in Object : disk.cont[o] \in used \cup {Nil}
    /\ \A o \in Object \ used : live.cont[o] = Nil /\ disk.cont[o] = Nil
    /\ \A a \in live.actors : disk.at[a] = live.at[a] \/ disk.at[a] \notin disk.locs
    /\ \A o \in live.objs :
           disk.cont[o] = live.cont[o] \/ disk.cont[o] \in Location \ disk.locs

PlacedInv == SingleInv /\ ThingsInv /\ RestoredInv /\ (loads => Placed)

(* What a step may do to an Actor: the log leaves it alone, and so does    *)
(* the Zone unless the place where it was goes; or both put it in the same *)
(* place.  And to an Object.                                               *)
MirrorsActor(a) ==
    \/ /\ disk'.at[a] = disk.at[a]
       /\ a \in live'.actors => a \in live.actors
       /\ live'.at[a] = live.at[a] \/ live.at[a] \notin disk'.locs
    \/ disk'.at[a] = live'.at[a] /\ live'.at[a] \in used' \cup {Nil}

MirrorsObject(o) ==
    \/ /\ disk'.cont[o] = disk.cont[o]
       /\ o \in live'.objs => o \in live.objs
       /\ \/ live'.cont[o] = live.cont[o]
          \/ o \in used /\ live.cont[o] \in Location \ disk'.locs
    \/ /\ disk'.cont[o] = live'.cont[o]
       /\ live'.cont[o] \in used' \cup {Nil} /\ o \in used'

Mirrors ==
    /\ used \subseteq used'
    /\ disk'.locs \subseteq disk.locs \cup (Location \ used)
    /\ \A a \in Actor : MirrorsActor(a)
    /\ \A o \in Object : MirrorsObject(o)

LEMMA MirrorsPlaced ==
  ASSUME TypeOK, TypeOK', Placed, Mirrors
  PROVE  Placed'
<1>0. live'.actors \subseteq Actor /\ live'.objs \subseteq Object /\ Nil \notin Location
  <2>1. live' \in ZoneType  BY DEF TypeOK
  <2>2. Nil \notin Location  BY ConstantsAssumption DEF Container
  <2> QED  BY <2>1, <2>2 DEF ZoneType
<1>1. used \subseteq used' /\ disk'.locs \subseteq disk.locs \cup (Location \ used)
  BY DEF Mirrors
<1>2. ASSUME NEW a \in Actor  PROVE disk'.at[a] \in used' \cup {Nil}
  BY <1>1 DEF Mirrors, MirrorsActor, Placed
<1>3. ASSUME NEW o \in Object  PROVE disk'.cont[o] \in used' \cup {Nil}
  BY <1>1 DEF Mirrors, MirrorsObject, Placed
<1>4. ASSUME NEW o \in Object \ used'  PROVE live'.cont[o] = Nil /\ disk'.cont[o] = Nil
  BY <1>1 DEF Mirrors, MirrorsObject, Placed
<1>5. ASSUME NEW a \in live'.actors
      PROVE  disk'.at[a] = live'.at[a] \/ disk'.at[a] \notin disk'.locs
  <2>1. a \in Actor /\ MirrorsActor(a) /\ disk.at[a] \in used \cup {Nil}
    BY <1>0 DEF Mirrors, Placed
  <2>2. disk.at[a] \notin disk.locs => disk.at[a] \notin disk'.locs  BY <1>0, <1>1, <2>1
  <2>3. a \in live.actors => disk.at[a] = live.at[a] \/ disk.at[a] \notin disk.locs
    BY DEF Placed
  <2> QED  BY <2>1, <2>2, <2>3 DEF MirrorsActor
<1>6. ASSUME NEW o \in live'.objs
      PROVE  disk'.cont[o] = live'.cont[o] \/ disk'.cont[o] \in Location \ disk'.locs
  <2>1. o \in Object /\ MirrorsObject(o) /\ disk.cont[o] \in used \cup {Nil}
    BY <1>0 DEF Mirrors, Placed
  <2>2. disk.cont[o] \in Location \ disk.locs => disk.cont[o] \in Location \ disk'.locs
    BY <1>0, <1>1, <2>1
  <2>3. o \in live.objs => disk.cont[o] = live.cont[o] \/ disk.cont[o] \in Location \ disk.locs
    BY DEF Placed
  <2> QED  BY <2>1, <2>2, <2>3 DEF MirrorsObject
<1> QED  BY <1>2, <1>3, <1>4, <1>5, <1>6 DEF Placed

(* Nobody and nothing moves or comes. *)
Still(y, z) ==
    y.at = z.at /\ y.cont = z.cont /\ y.actors = z.actors /\ y.objs = z.objs

LEMMA StillMirrors ==
  ASSUME Still(live', live), Still(disk', disk), used \subseteq used',
         disk'.locs \subseteq disk.locs \cup (Location \ used)
  PROVE  Mirrors
BY DEF Still, Mirrors, MirrorsActor, MirrorsObject

LEMMA EventsStill ==
  ASSUME NEW z \in ZoneType, NEW x, NEW l, NEW d, NEW t, NEW n, NEW wear \in BOOLEAN
  PROVE  /\ Still(AfterLocationAdd(z, l), z)
         /\ Still(AfterSetDefault(z, l), z)
         /\ Still(AfterExitAdd(z, x, l, d, t), z)
         /\ Still(AfterExitUpdate(z, x, d, t), z)
         /\ Still(AfterExitsRemove(z, x), z)
         /\ Still(AfterDamage(z, x, n), z)
         /\ Still(AfterObjectMoveFails(z, x, l), z)
         /\ Still(AfterMoveSubcontainer(z, x, wear), z)
<1>1. Still(AfterLocationAdd(z, l), z)  BY DEF AfterLocationAdd, ZoneType, Still
<1>2. Still(AfterSetDefault(z, l), z)  BY DEF AfterSetDefault, ZoneType, Still
<1>3. Still(AfterExitAdd(z, x, l, d, t), z)  BY DEF AfterExitAdd, ZoneType, Still
<1>4. Still(AfterExitUpdate(z, x, d, t), z)  BY DEF AfterExitUpdate, ZoneType, Still
<1>5. Still(AfterExitsRemove(z, x), z)  BY DEF AfterExitsRemove, ZoneType, Still
<1>6. Still(AfterDamage(z, x, n), z)  BY DEF AfterDamage, ZoneType, Still
<1>7. Still(AfterObjectMoveFails(z, x, l), z)  BY DEF AfterObjectMoveFails, ZoneType, Still
<1>8. Still(AfterMoveSubcontainer(z, x, wear), z)  BY DEF AfterMoveSubcontainer, ZoneType, Still
<1> QED  BY <1>1, <1>2, <1>3, <1>4, <1>5, <1>6, <1>7, <1>8

LEMMA DeathPlacement ==
  ASSUME NEW z \in ZoneType, NEW a \in Actor, NEW k \in Corpse,
         NEW l \in Location, NEW O \in SUBSET Object
  PROVE  LET y == AfterDeath(z, a, k, l, O)
         IN  /\ y.locs = z.locs /\ y.actors = z.actors \ {a} /\ y.objs = z.objs \cup {k}
             /\ \A b \in Actor : y.at[b] = IF b = a THEN Nil ELSE z.at[b]
             /\ \A o \in Object : y.cont[o] = IF o \in O THEN k
                                              ELSE IF o = k /\ l \in z.locs THEN l
                                              ELSE z.cont[o]
<1> DEFINE y == AfterObjectAdd(z, k, l)
           w == AfterObjectsRelocate(y, O, k)
           v == AfterActorRemove(w, a)
<1>1. k \in Object /\ k \in Container  BY DEF Object, Container
<1>2. y \in ZoneType  BY <1>1, ObjectAddType
<1>3. /\ y.locs = z.locs /\ y.actors = z.actors /\ y.objs = z.objs \cup {k} /\ y.at = z.at
      /\ y.cont = IF l \in z.locs THEN [z.cont EXCEPT ![k] = l] ELSE z.cont
  BY DEF AfterObjectAdd, ZoneType
<1> HIDE DEF y
<1>4. w \in ZoneType  BY <1>1, <1>2, ObjectsRelocateType
<1>5. /\ w.locs = y.locs /\ w.actors = y.actors /\ w.objs = y.objs /\ w.at = y.at
      /\ w.cont = [o \in Object |-> IF o \in O THEN k ELSE y.cont[o]]
  BY <1>2 DEF AfterObjectsRelocate, ZoneType
<1> HIDE DEF w
<1>6. /\ v.locs = w.locs /\ v.actors = w.actors \ {a} /\ v.objs = w.objs
      /\ v.at = [w.at EXCEPT ![a] = Nil] /\ v.cont = w.cont
  BY <1>4 DEF AfterActorRemove, ZoneType
<1> HIDE DEF v
<1>7. z.at \in [Actor -> Location \cup {Nil}] /\ z.cont \in [Object -> Container \cup {Nil}]
  BY DEF ZoneType
<1>8. \A b \in Actor : v.at[b] = IF b = a THEN Nil ELSE z.at[b]  BY <1>3, <1>5, <1>6, <1>7
<1>9. \A o \in Object : v.cont[o] = IF o \in O THEN k
                                    ELSE IF o = k /\ l \in z.locs THEN l ELSE z.cont[o]
  BY <1>3, <1>5, <1>6, <1>7
<1>10. v.locs = z.locs /\ v.actors = z.actors \ {a} /\ v.objs = z.objs \cup {k}
  BY <1>3, <1>5, <1>6
<1> QED  BY <1>8, <1>9, <1>10 DEF AfterDeath, y, w, v

LEMMA VacatedPlacement ==
  ASSUME TypeOK, NEW l, NEW X \in SUBSET Exit, NEW A \in SUBSET Actor, NEW O \in SUBSET Object
  PROVE  LET y == Vacated(l, X, A, O)
         IN  /\ y.actors = live.actors /\ y.objs = live.objs
             /\ y.at = [a \in Actor |-> IF a \in A THEN live.def ELSE live.at[a]]
             /\ y.cont = [o \in Object |-> IF o \in O THEN live.def ELSE live.cont[o]]
<1> DEFINE x == AfterExitsRemove(live, X)
           w == AfterActorsRelocate(x, A, live.def)
           y == AfterObjectsRelocate(w, O, live.def)
<1>0. live \in ZoneType /\ live.def \in Location \cup {Nil}  BY DEF TypeOK, ZoneType
<1>1. x \in ZoneType  BY <1>0, ExitsRemoveType
<1>2. Still(x, live)  BY <1>0, EventsStill
<1> HIDE DEF x
<1>3. w \in ZoneType  BY <1>0, <1>1, ActorsRelocateType
<1>4. /\ w.actors = x.actors /\ w.objs = x.objs /\ w.cont = x.cont
      /\ w.at = [a \in Actor |-> IF a \in A THEN live.def ELSE x.at[a]]
  BY <1>1 DEF AfterActorsRelocate, ZoneType
<1> HIDE DEF w
<1>5. /\ y.actors = w.actors /\ y.objs = w.objs /\ y.at = w.at
      /\ y.cont = [o \in Object |-> IF o \in O THEN live.def ELSE w.cont[o]]
  BY <1>3 DEF AfterObjectsRelocate, ZoneType
<1> HIDE DEF y
<1>6. /\ y.actors = live.actors /\ y.objs = live.objs
      /\ y.at = [a \in Actor |-> IF a \in A THEN live.def ELSE live.at[a]]
      /\ y.cont = [o \in Object |-> IF o \in O THEN live.def ELSE live.cont[o]]
  BY <1>2, <1>4, <1>5 DEF Still
<1> QED  BY <1>6 DEF Vacated, y, w, x

LEMMA PersistLoads ==
  ASSUME RestoredInv, loads', NEW d, NEW ok, Persist(d, ok)
  PROVE  loads /\ ok /\ disk' = d
BY DEF Persist, RestoredInv, TypeOK

LEMMA DeathMirrors ==
  ASSUME PlacedInv, loads', NEW z \in ZoneType, NEW d \in ZoneType,
         Still(z, live), z.locs = live.locs, Still(d, disk), d.locs = disk.locs,
         NEW a \in Actor, NEW k \in Corpse, Death(z, d, a, k)
  PROVE  Mirrors
<1> DEFINE loot == Contents(live, a)
           l    == live.at[a]
<1>0. /\ TypeOK /\ live \in ZoneType /\ Stowed(live) /\ live.objs \subseteq used /\ RestoredInv
      /\ GivenOut
  BY DEF PlacedInv, ThingsInv, SingleInv, TypeOK
<1>1. l \in Location /\ l \in used
  <2>1. l \in Location  BY <1>0 DEF Death, ZoneType
  <2>2. l \in used \cup {Nil} /\ l # Nil  BY DEF Death, GivenOut, PlacedInv, SingleInv
  <2> QED  BY <2>1, <2>2
<1>2. loot \in SUBSET Object /\ loot \subseteq used
  <2>1. a \in Container  BY DEF Container
  <2> QED  BY <1>0, <2>1, ContentsInZone, ContentsType
<1>3. k \in Object /\ k \notin used  BY DEF Death, Fresh, Object
<1>4. /\ live' = AfterDeath(z, a, k, l, loot)
      /\ Persist(AfterDeath(d, a, k, l, loot), a \in disk.actors /\ loot \subseteq disk.objs)
      /\ used' = used \cup {k}
  BY DEF Death, Use
<1> HIDE DEF l, loot
<1>5. /\ loads /\ disk' = AfterDeath(d, a, k, l, loot)
      /\ live.locs = disk.locs /\ Placed
  <2>1. loads /\ disk' = AfterDeath(d, a, k, l, loot)  BY <1>0, <1>4, PersistLoads
  <2> QED  BY <2>1 DEF PlacedInv, RestoredInv, Restored, SamePeople
<1>6. /\ live'.actors = live.actors \ {a} /\ live'.objs = live.objs \cup {k}
      /\ \A b \in Actor : live'.at[b] = IF b = a THEN Nil ELSE live.at[b]
      /\ \A o \in Object : live'.cont[o] = IF o \in loot THEN k
                                           ELSE IF o = k /\ l \in live.locs THEN l
                                           ELSE live.cont[o]
  <2> DEFINE y == AfterDeath(z, a, k, l, loot)
  <2>1. /\ y.locs = z.locs /\ y.actors = z.actors \ {a} /\ y.objs = z.objs \cup {k}
        /\ \A b \in Actor : y.at[b] = IF b = a THEN Nil ELSE z.at[b]
        /\ \A o \in Object : y.cont[o] = IF o \in loot THEN k
                                         ELSE IF o = k /\ l \in z.locs THEN l
                                         ELSE z.cont[o]
    BY <1>1, <1>2, DeathPlacement
  <2> HIDE DEF y
  <2>2. live' = y  BY <1>4 DEF y
  <2> QED  BY <2>1, <2>2 DEF Still
<1>7. /\ disk'.locs = disk.locs
      /\ \A b \in Actor : disk'.at[b] = IF b = a THEN Nil ELSE disk.at[b]
      /\ \A o \in Object : disk'.cont[o] = IF o \in loot THEN k
                                           ELSE IF o = k /\ l \in live.locs THEN l
                                           ELSE disk.cont[o]
  <2> DEFINE y == AfterDeath(d, a, k, l, loot)
  <2>1. /\ y.locs = d.locs /\ y.actors = d.actors \ {a} /\ y.objs = d.objs \cup {k}
        /\ \A b \in Actor : y.at[b] = IF b = a THEN Nil ELSE d.at[b]
        /\ \A o \in Object : y.cont[o] = IF o \in loot THEN k
                                         ELSE IF o = k /\ l \in d.locs THEN l
                                         ELSE d.cont[o]
    BY <1>1, <1>2, DeathPlacement
  <2> HIDE DEF y
  <2>2. disk' = y  BY <1>5 DEF y
  <2> QED  BY <1>5, <2>1, <2>2 DEF Still
<1>8. \A b \in Actor : MirrorsActor(b)  BY <1>6, <1>7 DEF MirrorsActor
<1>9. ASSUME NEW o \in Object  PROVE MirrorsObject(o)
  <2>1. CASE o \in loot
    <3>1. live'.cont[o] = k /\ disk'.cont[o] = k  BY <1>6, <1>7, <2>1
    <3> QED  BY <1>2, <1>4, <2>1, <3>1 DEF MirrorsObject
  <2>2. CASE o = k /\ o \notin loot
    <3>1. live.cont[k] = Nil /\ disk.cont[k] = Nil  BY <1>3, <1>5 DEF Placed
    <3>2. live'.cont[k] = disk'.cont[k] /\ live'.cont[k] \in {l, Nil}
      BY <1>3, <1>6, <1>7, <2>2, <3>1
    <3> QED  BY <1>1, <1>4, <2>2, <3>2 DEF MirrorsObject
  <2>3. CASE o # k /\ o \notin loot
    <3>1. live'.cont[o] = live.cont[o] /\ disk'.cont[o] = disk.cont[o]
      BY <1>6, <1>7, <2>3
    <3> QED  BY <1>6, <2>3, <3>1 DEF MirrorsObject
  <2> QED  BY <2>1, <2>2, <2>3
<1> QED  BY <1>4, <1>7, <1>8, <1>9 DEF Mirrors

LEMMA EditorMirrors ==
  ASSUME PlacedInv, loads', NEW s, EditorStep(s)
  PROVE  Mirrors
<1>0. live \in ZoneType /\ disk \in ZoneType /\ RestoredInv
  BY DEF PlacedInv, ThingsInv, TypeOK
<1>1. ASSUME NEW l \in Location, AddLocation(s, l)  PROVE Mirrors
  <2>1. /\ live' = AfterLocationAdd(live, l) /\ disk' = AfterLocationAdd(disk, l)
        /\ used' = used \cup {l} /\ l \notin used
    BY <1>0, <1>1, PersistLoads DEF AddLocation, Use, Fresh
  <2>2. Still(live', live) /\ Still(disk', disk)  BY <1>0, <2>1, EventsStill
  <2>3. disk'.locs = disk.locs \cup {l}  BY <1>0, <2>1 DEF AfterLocationAdd, ZoneType
  <2> QED  BY <2>1, <2>2, <2>3, StillMirrors
<1>2. ASSUME NEW l \in Location, SetDefaultLocation(s, l)  PROVE Mirrors
  <2>1. live' = AfterSetDefault(live, l) /\ disk' = AfterSetDefault(disk, l) /\ used' = used
    BY <1>0, <1>2, PersistLoads DEF SetDefaultLocation
  <2>2. Still(live', live) /\ Still(disk', disk)  BY <1>0, <2>1, EventsStill
  <2>3. disk'.locs = disk.locs  BY <1>0, <2>1 DEF AfterSetDefault, ZoneType
  <2> QED  BY <2>1, <2>2, <2>3, StillMirrors
<1>3. ASSUME NEW x, NEW l, NEW d, NEW t, AddExit(s, x, l, d, t)  PROVE Mirrors
  <2>1. /\ live' = AfterExitAdd(live, x, l, d, t) /\ disk' = AfterExitAdd(disk, x, l, d, t)
        /\ used' = used \cup {x}
    BY <1>0, <1>3, PersistLoads DEF AddExit, Use
  <2>2. Still(live', live) /\ Still(disk', disk)  BY <1>0, <2>1, EventsStill
  <2>3. disk'.locs = disk.locs  BY <1>0, <2>1 DEF AfterExitAdd, ZoneType
  <2> QED  BY <2>1, <2>2, <2>3, StillMirrors
<1>4. ASSUME NEW x, RemoveExit(s, x)  PROVE Mirrors
  <2>1. live' = AfterExitsRemove(live, {x}) /\ disk' = AfterExitsRemove(disk, {x}) /\ used' = used
    BY <1>0, <1>4, PersistLoads DEF RemoveExit
  <2>2. Still(live', live) /\ Still(disk', disk)  BY <1>0, <2>1, EventsStill
  <2>3. disk'.locs = disk.locs  BY <1>0, <2>1 DEF AfterExitsRemove, ZoneType
  <2> QED  BY <2>1, <2>2, <2>3, StillMirrors
<1>5. ASSUME NEW r, Prepare(s, r)  PROVE Mirrors
  BY <1>5, StillMirrors DEF Prepare, Still
<1> QED  BY <1>1, <1>2, <1>3, <1>4, <1>5 DEF EditorStep, PrepareUpdateExit, PrepareRemoveLocation

LEMMA ActorMirrors ==
  ASSUME PlacedInv, loads', ActorStep
  PROVE  Mirrors
<1>0. /\ live \in ZoneType /\ disk \in ZoneType /\ RestoredInv /\ live.locs \subseteq used
      /\ loads => live.locs = disk.locs
  BY DEF PlacedInv, ThingsInv, SingleInv, GivenOut, TypeOK, RestoredInv, Restored, SamePeople
<1>z. live \in ZoneType /\ disk \in ZoneType  BY <1>0
<1>1. ASSUME NEW a \in Actor, NEW l \in Location, AddActor(a, l)  PROVE Mirrors
  <2>1. /\ live' = AfterActorAdd(live, a, l) /\ disk' = AfterActorAdd(disk, a, l)
        /\ used' = used \cup {a} /\ l \in live.locs /\ l \in disk.locs
    BY <1>0, <1>1, PersistLoads DEF AddActor, Use
  <2>2. Arrival(live, l) = l /\ Arrival(disk, l) = l  BY <2>1 DEF Arrival
  <2>3. /\ live'.at = [live.at EXCEPT ![a] = l] /\ live'.cont = live.cont
        /\ live'.actors = live.actors \cup {a} /\ live'.objs = live.objs
    BY <1>z, <2>1, <2>2 DEF AfterActorAdd, ZoneType
  <2>4. /\ disk'.at = [disk.at EXCEPT ![a] = l] /\ disk'.cont = disk.cont
        /\ disk'.locs = disk.locs
    BY <1>z, <2>1, <2>2 DEF AfterActorAdd, ZoneType
  <2>5. DOMAIN live.at = Actor /\ DOMAIN disk.at = Actor /\ l \in used'
    BY <1>0, <2>1 DEF ZoneType
  <2>6. \A b \in Actor : MirrorsActor(b)  BY <2>3, <2>4, <2>5 DEF MirrorsActor
  <2>7. \A o \in Object : MirrorsObject(o)  BY <2>3, <2>4 DEF MirrorsObject
  <2> QED  BY <2>1, <2>4, <2>6, <2>7 DEF Mirrors
<1>2. ASSUME NEW a \in Actor, NEW k \in Corpse, Die(a, k)  PROVE Mirrors
  BY <1>z, <1>2, DeathMirrors DEF Die, Still
<1>3. ASSUME NEW b \in Actor, NEW d
      PROVE  /\ Still(AfterDamage(live, b, d), live) /\ Still(AfterDamage(disk, b, d), disk)
             /\ AfterDamage(live, b, d).locs = live.locs
             /\ AfterDamage(disk, b, d).locs = disk.locs
  <2>1. /\ AfterDamage(live, b, d).locs = live.locs
        /\ AfterDamage(disk, b, d).locs = disk.locs
    BY <1>z DEF AfterDamage, ZoneType
  <2> QED  BY <1>z, <2>1, EventsStill
<1>4. ASSUME NEW a \in Actor, NEW b \in Actor, NEW d \in 1..MaxHp, Hit(a, b, d)
      PROVE  Mirrors
  <2>1. live' = AfterDamage(live, b, d) /\ disk' = AfterDamage(disk, b, d) /\ used' = used
    BY <1>0, <1>4, PersistLoads DEF Hit
  <2> QED  BY <1>3, <2>1, StillMirrors
<1>5. ASSUME NEW a \in Actor, NEW b \in Actor, NEW d \in 1..MaxHp, NEW k \in Corpse,
             HitToDeath(a, b, d, k)
      PROVE  Mirrors
  <2> DEFINE hurt  == AfterDamage(live, b, d)
             saved == AfterDamage(disk, b, d)
  <2>1. d \in Nat  BY ConstantsAssumption
  <2>2. hurt \in ZoneType /\ saved \in ZoneType  BY <1>z, <2>1, DamageType
  <2>3. /\ Still(hurt, live) /\ hurt.locs = live.locs
        /\ Still(saved, disk) /\ saved.locs = disk.locs
    BY <1>3
  <2>4. Death(hurt, saved, b, k)  BY <1>5 DEF HitToDeath
  <2> HIDE DEF hurt, saved
  <2> QED  BY <2>2, <2>3, <2>4, DeathMirrors
<1> QED  BY <1>1, <1>2, <1>4, <1>5 DEF ActorStep

LEMMA ObjectMirrors ==
  ASSUME PlacedInv, loads', ObjectStep
  PROVE  Mirrors
<1>0. /\ live \in ZoneType /\ disk \in ZoneType /\ RestoredInv
      /\ live.locs \subseteq used /\ live.actors \subseteq used /\ live.objs \subseteq used
      /\ loads => live.locs = disk.locs
  BY DEF PlacedInv, ThingsInv, SingleInv, GivenOut, TypeOK, RestoredInv, Restored, SamePeople
<1>z. live \in ZoneType /\ disk \in ZoneType  BY <1>0
<1>c. DOMAIN live.cont = Object /\ DOMAIN disk.cont = Object  BY <1>z DEF ZoneType
<1>1. ASSUME NEW o \in Item, NEW l \in Location, AddObject(o, l)  PROVE Mirrors
  <2>1. /\ live' = AfterObjectAdd(live, o, l) /\ disk' = AfterObjectAdd(disk, o, l)
        /\ used' = used \cup {o} /\ l \in live.locs /\ l \in disk.locs
    BY <1>0, <1>1, PersistLoads DEF AddObject, Use
  <2>2. /\ live'.at = live.at /\ live'.cont = [live.cont EXCEPT ![o] = l]
        /\ live'.actors = live.actors /\ live'.objs = live.objs \cup {o}
    BY <1>z, <2>1 DEF AfterObjectAdd, ZoneType
  <2>3. /\ disk'.at = disk.at /\ disk'.cont = [disk.cont EXCEPT ![o] = l]
        /\ disk'.locs = disk.locs
    BY <1>z, <2>1 DEF AfterObjectAdd, ZoneType
  <2>4. \A a \in Actor : MirrorsActor(a)  BY <2>2, <2>3 DEF MirrorsActor
  <2>5. l \in used' /\ o \in used'  BY <1>0, <2>1
  <2>6. \A p \in Object : MirrorsObject(p)  BY <1>c, <2>2, <2>3, <2>5 DEF MirrorsObject
  <2> QED  BY <2>1, <2>3, <2>4, <2>6 DEF Mirrors
<1>2. ASSUME NEW who, NEW from, NEW to, NEW o, MoveObject(who, o, from, to)  PROVE Mirrors
  <2>1. /\ live' = AfterObjectMove(live, o, from, to) /\ disk' = AfterObjectMove(disk, o, from, to)
        /\ used' = used
    BY <1>0, <1>2, PersistLoads DEF MoveObject
  <2>2. o \in used' /\ to \in used'
    BY <1>0, <1>2, <2>1 DEF MoveObject, CanMoveObject, Known
  <2>3. /\ live'.at = live.at /\ live'.cont = [live.cont EXCEPT ![o] = to]
        /\ live'.actors = live.actors /\ live'.objs = live.objs
    BY <1>z, <2>1 DEF AfterObjectMove, ZoneType
  <2>4. /\ disk'.at = disk.at /\ disk'.cont = [disk.cont EXCEPT ![o] = to]
        /\ disk'.locs = disk.locs
    BY <1>z, <2>1 DEF AfterObjectMove, ZoneType
  <2>5. \A a \in Actor : MirrorsActor(a)  BY <2>3, <2>4 DEF MirrorsActor
  <2>6. \A p \in Object : MirrorsObject(p)  BY <1>c, <2>2, <2>3, <2>4 DEF MirrorsObject
  <2> QED  BY <2>1, <2>4, <2>5, <2>6 DEF Mirrors
<1>3. ASSUME NEW who, NEW from, NEW to, NEW o, MoveObjectFails(who, o, from, to)  PROVE Mirrors
  <2>1. /\ live' = AfterObjectMoveFails(live, o, from) /\ disk' = disk /\ used' = used
    BY <1>3 DEF MoveObjectFails, PersistNothing
  <2>2. Still(live', live)  BY <1>z, <2>1, EventsStill
  <2>3. Still(disk', disk)  BY <2>1 DEF Still
  <2> QED  BY <2>1, <2>2, <2>3, StillMirrors
<1>4. ASSUME NEW o, NEW w \in BOOLEAN, NEW ok, live' = AfterMoveSubcontainer(live, o, w),
             Persist(AfterMoveSubcontainer(disk, o, w), ok), used' = used
      PROVE  Mirrors
  <2>1. disk' = AfterMoveSubcontainer(disk, o, w)  BY <1>0, <1>4, PersistLoads
  <2>2. Still(live', live) /\ Still(disk', disk)  BY <1>z, <1>4, <2>1, EventsStill
  <2>3. disk'.locs = disk.locs  BY <1>z, <2>1 DEF AfterMoveSubcontainer, ZoneType
  <2> QED  BY <1>4, <2>2, <2>3, StillMirrors
<1>5. ASSUME NEW a, NEW o, Wear(a, o)  PROVE Mirrors
  BY <1>4, <1>5 DEF Wear
<1>6. ASSUME NEW a, NEW o, Unwear(a, o)  PROVE Mirrors
  BY <1>4, <1>6 DEF Unwear
<1> QED  BY <1>1, <1>2, <1>3, <1>5, <1>6 DEF ObjectStep

LEMMA RequestMirrors ==
  ASSUME PlacedInv, loads', NEW s \in Session, RequestStep(s)
  PROVE  Mirrors
<1>0. /\ live \in ZoneType /\ disk \in ZoneType /\ RestoredInv /\ TypeOK
      /\ live.locs \subseteq used /\ live.objs \subseteq used
      /\ Single(live) /\ Stowed(live) /\ pending[s] \in Request \cup {Nil}
  BY DEF PlacedInv, ThingsInv, SingleInv, GivenOut, TypeOK
<1>z. live \in ZoneType /\ disk \in ZoneType  BY <1>0
<1>1. CASE UpdateExit(s)
  <2> DEFINE r == pending[s]
  <2>1. /\ live' = AfterExitUpdate(live, r.exit, r.dir, r.to)
        /\ disk' = AfterExitUpdate(disk, r.exit, r.dir, r.to) /\ used' = used
    BY <1>0, <1>1, PersistLoads DEF UpdateExit
  <2> HIDE DEF r
  <2>2. Still(live', live) /\ Still(disk', disk)  BY <1>z, <2>1, EventsStill
  <2>3. disk'.locs = disk.locs  BY <1>z, <2>1 DEF AfterExitUpdate, ZoneType
  <2> QED  BY <2>1, <2>2, <2>3, StillMirrors
<1>2. CASE RemoveLocation(s)
  <2> DEFINE l == pending[s].loc
             gone == Vacated(l, ExitsAt(l), live.here[l], live.holds[l])
  <2>1. l \in Location  BY <1>0, <1>2 DEF RemoveLocation, Has, Request
  <2>2. live' = AfterLocationRemove(gone, l) /\ Persist(AfterLocationRemove(disk, l), TRUE)
        /\ used' = used
    BY <1>2 DEF RemoveLocation
  <2> HIDE DEF l
  <2>3. /\ ExitsAt(l) \in SUBSET Exit
        /\ live.here[l] \in SUBSET Actor /\ live.holds[l] \in SUBSET Object
    BY <1>z, <2>1 DEF ZoneType, ExitsAt, ExitsToLocation, Container
  <2>4. gone \in ZoneType  BY <1>0, <2>1, <2>3, VacatedType
  <2>5. /\ gone.actors = live.actors /\ gone.objs = live.objs
        /\ \A a \in Actor : gone.at[a] = IF a \in live.here[l] THEN live.def ELSE live.at[a]
        /\ \A o \in Object : gone.cont[o] = IF o \in live.holds[l] THEN live.def ELSE live.cont[o]
    <3>1. TypeOK  BY <1>0
    <3>2. /\ gone.actors = live.actors /\ gone.objs = live.objs
          /\ gone.at = [a \in Actor |-> IF a \in live.here[l] THEN live.def ELSE live.at[a]]
          /\ gone.cont = [o \in Object |-> IF o \in live.holds[l] THEN live.def ELSE live.cont[o]]
      BY <2>3, <3>1, VacatedPlacement
    <3> HIDE DEF gone
    <3> QED  BY <3>2
  <2> HIDE DEF gone
  <2>6. live'.at = gone.at /\ live'.cont = gone.cont /\ live'.actors = gone.actors
        /\ live'.objs = gone.objs
    BY <2>2, <2>4 DEF AfterLocationRemove, ZoneType
  <2>7. disk'.at = disk.at /\ disk'.cont = disk.cont /\ disk'.locs = disk.locs \ {l}
    <3>1. disk' = AfterLocationRemove(disk, l)  BY <1>0, <2>2, PersistLoads
    <3> QED  BY <1>z, <3>1 DEF AfterLocationRemove, ZoneType
  <2>8. ASSUME NEW a \in Actor  PROVE MirrorsActor(a)
    <3>1. a \in live.here[l] => live.at[a] = l  BY <1>0, <2>1 DEF Single
    <3> QED  BY <2>5, <2>6, <2>7, <3>1 DEF MirrorsActor
  <2>9. ASSUME NEW o \in Object  PROVE MirrorsObject(o)
    <3>1. o \in live.holds[l] => live.cont[o] = l /\ o \in used
      BY <1>0, <2>1 DEF Stowed, Container
    <3> QED  BY <2>1, <2>5, <2>6, <2>7, <3>1 DEF MirrorsObject
  <2> QED  BY <2>2, <2>7, <2>8, <2>9 DEF Mirrors
<1>3. CASE RemoveLocationFails(s)
  <2> DEFINE l == pending[s].loc
  <2>1. l \in Location /\ disk' = disk /\ used' = used
    BY <1>0, <1>3 DEF RemoveLocationFails, Has, Request, PersistNothing
  <2> HIDE DEF l
  <2>2. DeadActors(l) = {}  BY <1>0, <2>1 DEF DeadActors, Single
  <2>3. ASSUME NEW X, live' = AfterExitsRemove(live, X)  PROVE Mirrors
    <3>1. Still(live', live)  BY <1>z, <2>3, EventsStill
    <3>2. Still(disk', disk)  BY <2>1 DEF Still
    <3> QED  BY <2>1, <3>1, <3>2, StillMirrors
  <2> QED  BY <1>3, <2>2, <2>3 DEF RemoveLocationFails, l
<1>4. CASE Move(s)
  <2> DEFINE a    == pending[s].actor
             from == pending[s].from
             to   == pending[s].to
  <2>1. /\ live' = AfterActorMove(live, a, from, to) /\ disk' = AfterActorMove(disk, a, from, to)
        /\ used' = used /\ to \in used
    BY <1>0, <1>4, PersistLoads DEF Move, CanMove
  <2> HIDE DEF a, from, to
  <2>2. /\ live'.at = [live.at EXCEPT ![a] = to] /\ live'.cont = live.cont
        /\ live'.actors = live.actors /\ live'.objs = live.objs
    BY <1>z, <2>1 DEF AfterActorMove, ZoneType
  <2>3. /\ disk'.at = [disk.at EXCEPT ![a] = to] /\ disk'.cont = disk.cont
        /\ disk'.locs = disk.locs
    BY <1>z, <2>1 DEF AfterActorMove, ZoneType
  <2>4. DOMAIN live.at = Actor /\ DOMAIN disk.at = Actor  BY <1>z DEF ZoneType
  <2>5. \A b \in Actor : MirrorsActor(b)  BY <2>1, <2>2, <2>3, <2>4 DEF MirrorsActor
  <2>6. \A o \in Object : MirrorsObject(o)  BY <2>2, <2>3 DEF MirrorsObject
  <2> QED  BY <2>1, <2>3, <2>5, <2>6 DEF Mirrors
<1>5. CASE Reap(s)
  <2> DEFINE o == pending[s].obj
  <2>1. /\ live' = AfterObjectRemove(live, o) /\ disk' = AfterObjectRemove(disk, o)
        /\ used' = used /\ o \in used
    BY <1>0, <1>5, PersistLoads DEF Reap, CanReap
  <2> HIDE DEF o
  <2>2. /\ live'.at = live.at /\ live'.cont = [live.cont EXCEPT ![o] = Nil]
        /\ live'.actors = live.actors /\ live'.objs = live.objs \ {o}
    BY <1>z, <2>1 DEF AfterObjectRemove, ZoneType
  <2>3. /\ disk'.at = disk.at /\ disk'.cont = [disk.cont EXCEPT ![o] = Nil]
        /\ disk'.locs = disk.locs
    BY <1>z, <2>1 DEF AfterObjectRemove, ZoneType
  <2>4. DOMAIN live.cont = Object /\ DOMAIN disk.cont = Object  BY <1>z DEF ZoneType
  <2>5. \A a \in Actor : MirrorsActor(a)  BY <2>2, <2>3 DEF MirrorsActor
  <2>6. \A p \in Object : MirrorsObject(p)  BY <2>1, <2>2, <2>3, <2>4 DEF MirrorsObject
  <2> QED  BY <2>1, <2>3, <2>5, <2>6 DEF Mirrors
<1>6. CASE Reject(s)  BY <1>6, StillMirrors DEF Reject, Still
<1> QED  BY <1>1, <1>2, <1>3, <1>4, <1>5, <1>6 DEF RequestStep

LEMMA PlacedStep ==
  ASSUME SoleDriver, PlacedInv, [Next]_vars
  PROVE  PlacedInv'
<1>1. SingleInv' /\ ThingsInv' /\ RestoredInv'
  BY SingleStep, ThingsStep, RestoredStep DEF PlacedInv
<1>2. ASSUME loads'  PROVE Placed'
  <2>1. Mirrors
    <3>1. ASSUME live' = live, disk' = disk, used' = used  PROVE Mirrors
      BY <3>1, StillMirrors DEF Still
    <3>2. CASE (\E s \in Session, a \in Actor, x \in Exit : PrepareMove(s, a, x))
            \/ (\E s \in Reaper, o \in Object, l \in Location : PrepareReap(s, o, l))
            \/ UNCHANGED vars
      BY <3>1, <3>2 DEF PrepareMove, PrepareReap, Prepare, vars
    <3> QED  BY <1>2, <3>2, EditorMirrors, ActorMirrors, ObjectMirrors, RequestMirrors DEF Next
  <2>2. loads
    <3> SUFFICES ASSUME ~loads  PROVE FALSE
      OBVIOUS
    <3>1. RestoredInv  BY DEF PlacedInv
    <3>3. \A s : ~EditorStep(s)
      BY <1>2, <3>1, PersistLoads DEF EditorStep, AddLocation, SetDefaultLocation, AddExit, RemoveExit,
                        PrepareUpdateExit, PrepareRemoveLocation, Prepare
    <3>4. ~ActorStep
      BY <1>2, <3>1, PersistLoads DEF ActorStep, AddActor, Die, Hit, HitToDeath, Death
    <3>5. ~ObjectStep
      BY <1>2, <3>1, PersistLoads DEF ObjectStep, AddObject, MoveObject, MoveObjectFails, Wear, Unwear,
                        PersistNothing
    <3>6. \A s : ~RequestStep(s)
      BY <1>2, <3>1, PersistLoads DEF RequestStep, UpdateExit, RemoveLocation, RemoveLocationFails, Move,
                        Reap, Reject, PersistNothing
    <3> QED  BY <1>2, <3>3, <3>4, <3>5, <3>6 DEF Next, PrepareMove, PrepareReap, Prepare, vars
  <2>3. TypeOK /\ TypeOK' /\ Placed  BY <1>1, <2>2 DEF PlacedInv, SingleInv
  <2> QED  BY <2>1, <2>3, MirrorsPlaced
<1> QED  BY <1>1, <1>2 DEF PlacedInv

(* Whenever the process dies, a replay that runs to its end puts every     *)
(* Actor and Object where it was, or leaves it in a Location that is gone: *)
(* never into another place of the Zone, though the log does not say where *)
(* the occupants of a removed Location went.  Each Actor has one driver at *)
(* most: a stale move would log an Actor into a Location it is not in.     *)
THEOREM NobodyMisplaced == ASSUME SoleDriver PROVE Spec => []RestartMisplacesNobody
<1>1. Init => PlacedInv
  <2>1. Init => SingleInv
    BY EmptyZoneType
       DEF Init, SingleInv, TypeOK, Single, EmptyZone, GivenOut, MovesCurrent, Has
  <2>2. Init => Placed  BY DEF Init, EmptyZone, Placed
  <2> QED  BY <2>1, <2>2, ThingsInit, RestoredInit DEF PlacedInv
<1>2. PlacedInv /\ [Next]_vars => PlacedInv'  BY PlacedStep
<1>3. PlacedInv => RestartMisplacesNobody  BY DEF PlacedInv, Placed, RestartMisplacesNobody
<1> QED  BY <1>1, <1>2, <1>3, PTL DEF Spec
=============================================================================
