--------------------------------- MODULE Zone ---------------------------------
(***************************************************************************)
(* One core.Zone at work.  A single goroutine takes commands from a        *)
(* channel and runs each handler to its end (core/zone.go, processCommand: *)
(* check, apply the events, then persist them), so a handler is one step.  *)
(* What is not atomic is everything around it: sessions, the world editor  *)
(* and the reaper read the Zone, decide, and send a command that carries   *)
(* what they read; other commands run in between.  "pending" holds such    *)
(* commands.  Commands whose handler checks again all that the caller      *)
(* looked at are taken in one step.                                        *)
(*                                                                         *)
(* "disk" is what replaying the persisted events from the first one would  *)
(* build, kept up to date event by event, and "loads" whether that replay  *)
(* runs to its end: together they are what a restart finds, whenever the   *)
(* process dies.                                                           *)
(***************************************************************************)
EXTENDS ZoneState

CONSTANTS
    Session,    \* telnet and websocket sessions, brains, the reaper
    Editor,     \* the sessions in the world editor
    Reaper,     \* the spawn-and-reap service
    Drives      \* the pairs <<s, a>> such that session s commands Actor a

ASSUME SessionAssumption ==
    /\ Editor \cup Reaper \subseteq Session
    /\ Drives \subseteq Session \X Actor

(* Nothing stops two sessions from attaching to one Actor, or from being   *)
(* in the editor of one Zone: these are assumptions of the properties that *)
(* need them, not of the model.                                            *)
SoleDriver == \A s, t \in Session : \A a \in Actor :
                  <<s, a>> \in Drives /\ <<t, a>> \in Drives => s = t
SoleEditor == \A s, t \in Editor : s = t

VARIABLES
    live,       \* the Zone in memory
    disk,       \* the Zone that a replay of the event log would build
    loads,      \* FALSE once the replay would stop at an error
    pending,    \* the command a session has prepared and not yet seen run
    used        \* ids given away so far

vars == <<live, disk, loads, pending, used>>

Id == Location \cup Exit \cup Actor \cup Object

Request ==
    [kind : {"move"}, actor : Actor, from : Location, to : Location]
        \cup [kind : {"removeLocation"}, loc : Location]
        \cup [kind : {"updateExit"}, exit : Exit, dir : Direction,
              to : Location \cup {Elsewhere}]
        \cup [kind : {"reap"}, obj : Object]

TypeOK ==
    /\ live \in ZoneType
    /\ disk \in ZoneType
    /\ loads \in BOOLEAN
    /\ pending \in [Session -> Request \cup {Nil}]
    /\ used \subseteq Id

Init ==
    /\ live = EmptyZone
    /\ disk = EmptyZone
    /\ loads = TRUE
    /\ pending = [s \in Session |-> Nil]
    /\ used = {}

-----------------------------------------------------------------------------
(* Building blocks *)

(* Definitions marked "wrong on purpose": see ZoneState. *)

(* Wrong on purpose: the events not persisted. *)
PersistLost(d, ok) == UNCHANGED <<disk, loads>>

(* The events of the command are persisted: d is the replayed Zone after   *)
(* them, ok whether the replay gets through them.                          *)
Persist(d, ok) ==
    /\ loads' = (loads /\ ok)
    /\ disk' = IF loads /\ ok THEN d ELSE EmptyZone

PersistNothing == UNCHANGED <<disk, loads>>

Fresh(i) == i \notin used
Use(I)   == used' = used \cup I
Idle(s)  == pending[s] = Nil

Prepare(s, request) ==
    /\ Idle(s)
    /\ pending' = [pending EXCEPT ![s] = request]
    /\ UNCHANGED <<live, disk, loads, used>>

Has(s, kind) == pending[s] # Nil /\ pending[s].kind = kind
Answer(s)    == pending' = [pending EXCEPT ![s] = Nil]

-----------------------------------------------------------------------------
(* Locations and Exits: the world editor *)

AddLocation(s, l) ==
    /\ Idle(s) /\ Fresh(l)
    /\ live' = AfterLocationAdd(live, l)
    /\ Persist(AfterLocationAdd(disk, l), TRUE)
    /\ Use({l}) /\ UNCHANGED pending

SetDefaultLocation(s, l) ==
    /\ Idle(s)
    /\ l \in live.locs
    /\ live' = AfterSetDefault(live, l)
    /\ Persist(AfterSetDefault(disk, l), l \in disk.locs)
    /\ UNCHANGED <<pending, used>>

AddExit(s, x, l, d, t) ==
    /\ Idle(s) /\ Fresh(x)
    /\ CanExitAdd(live, l, d, t)
    /\ live' = AfterExitAdd(live, x, l, d, t)
    /\ Persist(AfterExitAdd(disk, x, l, d, t), CanExitAdd(disk, l, d, t))
    /\ Use({x}) /\ UNCHANGED pending

RemoveExit(s, x) ==
    /\ Idle(s)
    /\ x \in live.exits
    /\ live' = AfterExitsRemove(live, {x})
    /\ Persist(AfterExitsRemove(disk, {x}), x \in disk.exits)
    /\ UNCHANGED <<pending, used>>

(* The editor changes one thing of an Exit at a time: its description, its *)
(* direction, to one it sees free, or where it leads.  Exit.Update sends   *)
(* the other fields as the editor has read them.                           *)
PrepareUpdateExit(s, x, d, t) ==
    /\ x \in live.exits
    /\ \/ d = live.dir[x] /\ t \in live.locs \cup {Elsewhere}
       \/ OutExitToward(live, live.src[x], d) = {} /\ t = live.dst[x] /\ t # Nil
    /\ Prepare(s, [kind |-> "updateExit", exit |-> x, dir |-> d, to |-> t])

CanUpdateExit(x, t) ==
    /\ x \in live.exits
    /\ live.src[x] \in live.locs
    /\ t \in live.locs \cup {Elsewhere}
    /\ live.dst[x] # Nil                \* "invalid prior state"

UpdateExit(s) ==
    /\ Has(s, "updateExit")
    /\ LET r == pending[s] IN
       /\ CanUpdateExit(r.exit, r.to)
       /\ live' = AfterExitUpdate(live, r.exit, r.dir, r.to)
       /\ Persist(AfterExitUpdate(disk, r.exit, r.dir, r.to),
                  /\ r.exit \in disk.exits
                  /\ disk.src[r.exit] \in disk.locs
                  /\ r.to \in disk.locs \cup {Elsewhere})
    /\ Answer(s) /\ UNCHANGED used

(* The editor refuses to remove the default Location, or any while there   *)
(* is no default to send the occupants to.                                 *)
PrepareRemoveLocation(s, l) ==
    /\ l \in live.locs
    /\ live.def \notin {l, Nil}
    /\ Prepare(s, [kind |-> "removeLocation", loc |-> l])

CanRemoveLocation(l) ==
    /\ l \in live.locs
    /\ live.def = Nil => live.here[l] = {} /\ live.holds[l] = {}

(* Wrong on purpose: the Exits that lead to l forgotten. *)
ExitsOutOf(l) == live.out[l]

ExitsAt(l) == live.out[l] \cup ExitsToLocation(live, l)

(* What makes the handler return half-way: an Exit from l to l, met twice; *)
(* an Actor listed at l after its death, not found; a default Location     *)
(* that is gone itself, so that it is no place to send the occupants to.   *)
SelfLoops(l)  == live.out[l] \cap ExitsToLocation(live, l)
DeadActors(l) == live.here[l] \ live.actors
NowhereToGo(l) ==
    live.def \notin live.locs /\ live.here[l] \cup live.holds[l] # {}

(* Wrong on purpose: the Actors, or the Objects, left where they are. *)
VacatedOfObjects(l, X, A, O) ==
    AfterObjectsRelocate(AfterExitsRemove(live, X), O, live.def)
VacatedOfActors(l, X, A, O) ==
    AfterActorsRelocate(AfterExitsRemove(live, X), A, live.def)

Vacated(l, X, A, O) ==
    AfterObjectsRelocate(
        AfterActorsRelocate(AfterExitsRemove(live, X), A, live.def), O, live.def)

(* The handler applies an event for every Exit, Actor and Object it moves  *)
(* out of the way and returns the last event only: the others are not      *)
(* persisted.                                                              *)
RemoveLocation(s) ==
    /\ Has(s, "removeLocation")
    /\ LET l == pending[s].loc IN
       /\ CanRemoveLocation(l)
       /\ SelfLoops(l) = {} /\ DeadActors(l) = {} /\ ~NowhereToGo(l)
       /\ live' = AfterLocationRemove(
                      Vacated(l, ExitsAt(l), live.here[l], live.holds[l]), l)
       /\ Persist(AfterLocationRemove(disk, l), TRUE)
    /\ Answer(s) /\ UNCHANGED used

(* On an error nothing at all is persisted of what was applied before.     *)
RemoveLocationFails(s) ==
    /\ Has(s, "removeLocation")
    /\ LET l == pending[s].loc IN
       /\ CanRemoveLocation(l)
       /\ \/ /\ SelfLoops(l) # {}
             /\ \E X \in SUBSET (ExitsAt(l) \ live.out[l]) :
                    live' = AfterExitsRemove(live, live.out[l] \cup X)
          \/ /\ SelfLoops(l) = {} /\ NowhereToGo(l)
             /\ live' = AfterExitsRemove(live, ExitsAt(l))
          \/ /\ SelfLoops(l) = {} /\ DeadActors(l) # {} /\ ~NowhereToGo(l)
             /\ \E A \in SUBSET (live.here[l] \cap live.actors) :
                    live' = Vacated(l, ExitsAt(l), A, {})
    /\ PersistNothing
    /\ Answer(s) /\ UNCHANGED used

-----------------------------------------------------------------------------
(* Actors *)

(* Lobby and spawner; the handler knows the starting Location. *)
AddActor(a, l) ==
    /\ Fresh(a)
    /\ l \in live.locs
    /\ live' = AfterActorAdd(live, a, l)
    /\ Persist(AfterActorAdd(disk, a, l), CanActorAdd(disk, l))
    /\ Use({a}) /\ UNCHANGED pending

(* Wrong on purpose: the test for an Exit inside the Zone dropped. *)
PrepareMoveAcross(s, a, x) ==
    /\ <<s, a>> \in Drives
    /\ a \in live.actors
    /\ x \in live.exits
    /\ live.at[a] # Nil
    /\ Prepare(s, [kind |-> "move", actor |-> a,
                   from |-> live.at[a], to |-> live.dst[x]])

(* commands.MoveActor picks an Exit and reads the Actor's Location again   *)
(* for the command; Actor.Move may sleep before it sends it.               *)
PrepareMove(s, a, x) ==
    /\ <<s, a>> \in Drives
    /\ a \in live.actors
    /\ x \in live.exits /\ live.dst[x] \in Location
    /\ live.at[a] # Nil
    /\ Prepare(s, [kind |-> "move", actor |-> a,
                   from |-> live.at[a], to |-> live.dst[x]])

(* The handler asks for an Exit between the Locations the command names,   *)
(* and not that the Actor be at the first of them.                         *)
CanMove(r) ==
    /\ r.from \in live.locs /\ r.to \in live.locs
    /\ \E x \in live.out[r.from] : live.dst[x] = r.to
    /\ r.actor \in live.actors

Move(s) ==
    /\ Has(s, "move")
    /\ LET r == pending[s] IN
       /\ CanMove(r)
       /\ live' = AfterActorMove(live, r.actor, r.from, r.to)
       /\ Persist(AfterActorMove(disk, r.actor, r.from, r.to),
                  /\ {r.from, r.to} \subseteq disk.locs
                  /\ r.actor \in disk.actors)
    /\ Answer(s) /\ UNCHANGED used

(* The events of a death, after a blow that has left z behind. *)
Death(z, d, a, corpse) ==
    LET loot == Contents(live, a)
    IN  /\ Fresh(corpse)
        /\ live.at[a] # Nil
        /\ live' = AfterDeath(z, a, corpse, live.at[a], loot)
        /\ Persist(AfterDeath(d, a, corpse, live.at[a], loot),
                   /\ a \in disk.actors
                   /\ loot \subseteq disk.objs)
        /\ Use({corpse}) /\ UNCHANGED pending

Die(a, corpse) ==
    /\ a \in live.actors
    /\ Death(live, disk, a, corpse)

(* Wrong on purpose: off by one, no death at zero. *)
HitToZero(a, b, d) ==
    /\ {a, b} \subseteq live.actors
    /\ live.at[a] = live.at[b]
    /\ d <= live.hp[b]
    /\ live' = AfterDamage(live, b, d)
    /\ Persist(AfterDamage(disk, b, d), b \in disk.actors)
    /\ UNCHANGED <<pending, used>>

(* Slash and Bite roll for damage; a dodged blow changes nothing. *)
Hit(a, b, d) ==
    /\ {a, b} \subseteq live.actors
    /\ live.at[a] = live.at[b]
    /\ d < live.hp[b]
    /\ live' = AfterDamage(live, b, d)
    /\ Persist(AfterDamage(disk, b, d), b \in disk.actors)
    /\ UNCHANGED <<pending, used>>

HitToDeath(a, b, d, corpse) ==
    /\ {a, b} \subseteq live.actors
    /\ live.at[a] = live.at[b]
    /\ live.hp[b] <= d
    /\ Death(AfterDamage(live, b, d), AfterDamage(disk, b, d), b, corpse)

-----------------------------------------------------------------------------
(* Objects *)

(* Only the bootstrap code adds Objects, always to a Location. *)
AddObject(o, l) ==
    /\ Fresh(o)
    /\ l \in live.locs
    /\ live' = AfterObjectAdd(live, o, l)
    /\ Persist(AfterObjectAdd(disk, o, l), TRUE)
    /\ Use({o}) /\ UNCHANGED pending

MoveObject(who, o, from, to) ==
    /\ CanMoveObject(live, who, o, from, to)
    /\ CanObjectMove(live, o, to)
    /\ live' = AfterObjectMove(live, o, from, to)
    /\ Persist(AfterObjectMove(disk, o, from, to),
               /\ o \in disk.objs
               /\ CanObjectMove(disk, o, to))
    /\ UNCHANGED <<pending, used>>

MoveObjectFails(who, o, from, to) ==
    /\ CanMoveObject(live, who, o, from, to)
    /\ ~CanObjectMove(live, o, to)
    /\ live' = AfterObjectMoveFails(live, o, from)
    /\ PersistNothing
    /\ UNCHANGED <<pending, used>>

(* wear and remove: between the hands and the rest of the inventory *)
Wear(a, o) ==
    /\ a \in live.actors /\ o \in Hands(live, a)
    /\ Cardinality(Worn(live, a)) < WornMax
    /\ live' = AfterMoveSubcontainer(live, o, TRUE)
    /\ Persist(AfterMoveSubcontainer(disk, o, TRUE), o \in disk.objs)
    /\ UNCHANGED <<pending, used>>

Unwear(a, o) ==
    /\ a \in live.actors /\ o \in Worn(live, a)
    /\ Cardinality(Hands(live, a)) < HandMax
    /\ live' = AfterMoveSubcontainer(live, o, FALSE)
    /\ Persist(AfterMoveSubcontainer(disk, o, FALSE), o \in disk.objs)
    /\ UNCHANGED <<pending, used>>

(* The reaper takes Objects that have lain long enough where no Actor is.  *)
PrepareReap(s, o, l) ==
    /\ l \in live.locs /\ live.here[l] = {}
    /\ o \in live.holds[l]
    /\ Prepare(s, [kind |-> "reap", obj |-> o])

CanReap(o) == o \in live.objs /\ Located(live, o)

Reap(s) ==
    /\ Has(s, "reap")
    /\ LET o == pending[s].obj IN
       /\ CanReap(o)
       /\ live' = AfterObjectRemove(live, o)
       /\ Persist(AfterObjectRemove(disk, o), o \in disk.objs)
    /\ Answer(s) /\ UNCHANGED used

(* A command whose handler returns an error before it applies anything. *)
Reject(s) ==
    /\ \/ Has(s, "move") /\ ~CanMove(pending[s])
       \/ Has(s, "removeLocation") /\ ~CanRemoveLocation(pending[s].loc)
       \/ Has(s, "updateExit") /\ ~CanUpdateExit(pending[s].exit, pending[s].to)
       \/ Has(s, "reap") /\ pending[s].obj \notin live.objs
    /\ Answer(s)
    /\ UNCHANGED <<live, disk, loads, used>>

-----------------------------------------------------------------------------
EditorStep(s) ==
    \/ \E l \in Location : AddLocation(s, l) \/ SetDefaultLocation(s, l)
    \/ \E x \in Exit, l \in Location, d \in Direction, t \in Location \cup {Elsewhere} :
           AddExit(s, x, l, d, t)
    \/ \E x \in Exit : RemoveExit(s, x)
    \/ \E x \in Exit, d \in Direction, t \in Location \cup {Elsewhere} :
           PrepareUpdateExit(s, x, d, t)
    \/ \E l \in Location : PrepareRemoveLocation(s, l)

ActorStep ==
    \/ \E a \in Actor, l \in Location : AddActor(a, l)
    \/ \E a \in Actor, k \in Corpse : Die(a, k)
    \/ \E a, b \in Actor, d \in 1..MaxHp : Hit(a, b, d)
    \/ \E a, b \in Actor, d \in 1..MaxHp, k \in Corpse : HitToDeath(a, b, d, k)

ObjectStep ==
    \/ \E o \in Item, l \in Location : AddObject(o, l)
    \/ \E from, to \in Container, who \in Actor : \E o \in live.holds[from] :
           MoveObject(who, o, from, to) \/ MoveObjectFails(who, o, from, to)
    \/ \E a \in Actor : \E o \in live.holds[a] : Wear(a, o) \/ Unwear(a, o)

RequestStep(s) ==
    \/ UpdateExit(s)
    \/ RemoveLocation(s)
    \/ RemoveLocationFails(s)
    \/ Move(s)
    \/ Reap(s)
    \/ Reject(s)

Next ==
    \/ \E s \in Editor : EditorStep(s)
    \/ ActorStep
    \/ ObjectStep
    \/ \E s \in Session, a \in Actor, x \in Exit : PrepareMove(s, a, x)
    \/ \E s \in Reaper, o \in Object, l \in Location : PrepareReap(s, o, l)
    \/ \E s \in Session : RequestStep(s)

Spec == Init /\ [][Next]_vars

-----------------------------------------------------------------------------
(* Safety: the Zone in memory *)

(* An Actor is never nowhere: it points to a Location of the Zone and that *)
(* Location lists it.  RemoveLocation moves the occupants out in time, and *)
(* a stale move, or a move to a Location that is gone, does not lose       *)
(* anybody ("exactly 1 current location (not 0, not 2)", doc/README.md).   *)
ActorListed ==
    \A a \in live.actors :
        /\ live.at[a] \in live.locs
        /\ a \in live.here[live.at[a]]

(* An Actor is never in two places: who is listed at a Location is alive   *)
(* and points to it.  Whether it holds rests on the callers, since the     *)
(* handler of a move does not look at where the Actor is.                  *)
OneLocation ==
    \A l \in live.locs : \A a \in live.here[l] :
        a \in live.actors /\ live.at[a] = l

(* Both ends of an Exit are Locations of the Zone, and the Exits a         *)
(* Location lists are exactly those that leave it: removing a Location     *)
(* leaves no dangling passage, whatever is in the queue.                   *)
ExitsAnchored ==
    /\ \A x \in live.exits :
           /\ live.src[x] \in live.locs
           /\ x \in live.out[live.src[x]]
           /\ live.dst[x] \in live.locs \cup {Elsewhere, Nil}
    /\ \A l \in live.locs : \A x \in live.out[l] :
           x \in live.exits /\ live.src[x] = l

(* Two Exits of a Location never share a direction.  AddExit looks at the  *)
(* Zone; ExitUpdate does not and relies on the editor having looked.       *)
UniqueDirections ==
    \A l \in live.locs : \A x, y \in live.out[l] :
        live.dir[x] = live.dir[y] => x = y

(* An Object is in at most one list, and it is the list of its container.  *)
SingleListing ==
    \A c \in Container : \A o \in live.holds[c] :
        o \in live.objs /\ live.cont[o] = c

(* Neither a dead Actor nor a removed Location still holds an Object: a    *)
(* death empties the inventory into the corpse and RemoveLocation sends    *)
(* what lies there to the default Location ("so they aren't orphaned").    *)
NothingLeftBehind ==
    \A c \in (Actor \ live.actors) \cup (Location \ live.locs) : live.holds[c] = {}

(* Hands and clothes hold no more than they can, by take, give, put, wear, *)
(* remove in any order: each way in has a check of its own.                *)
CarryingLimit ==
    \A a \in live.actors :
        /\ Cardinality(Hands(live, a)) <= HandMax
        /\ Cardinality(Worn(live, a)) <= WornMax

(* Nobody walks around without hit points: the blow that takes the last    *)
(* one carries the death with it, in the same command.                     *)
AliveHaveHp == \A a \in live.actors : live.hp[a] > 0

(* What an Actor carried, in its hands, worn or inside a bag, lies in a    *)
(* corpse at the place of its death as soon as it is gone.                 *)
DeathLeavesLoot ==
    [][\A a \in live.actors \ live'.actors :
          \E k \in live'.objs \ live.objs :
              /\ live'.cont[k] = live.at[a]
              /\ \A o \in Contents(live, a) : o \in live'.holds[k]]_vars

(* No Object drops out of the world, where asking for its Location kills   *)
(* the process (object.go l.80), unless it was under an Object the reaper  *)
(* takes away, or under one that is put into itself or into something      *)
(* inside it.  A death, the removal of a Location, a transfer refused      *)
(* half-way lose nothing, whatever lies in whatever.                       *)
NothingFallsOut ==
    [][\A o \in live.objs \cap live'.objs :
          Located(live, o) /\ ~Located(live', o) =>
              \E b \in WayUp(live, o) \cap live.objs :
                  b \notin live'.objs \/ b \in WayUp(live, live'.cont[b])]_vars

-----------------------------------------------------------------------------
(* Safety: the event log.  RemoveLocation and a failed MoveObject change   *)
(* the Zone without a trace in the log, so a replay need not restore it;   *)
(* these say what it gets right all the same, as long as it succeeds.      *)

(* No Actor, Object or Location is lost or comes back from the dead, and   *)
(* every Actor has the hit points it had.                                  *)
RestartKeepsPopulation ==
    loads => /\ disk.locs = live.locs /\ disk.def = live.def
             /\ disk.actors = live.actors /\ disk.hp = live.hp
             /\ disk.objs = live.objs

(* Every passage comes back as it was (and some that were removed may).    *)
RestartKeepsPassages ==
    loads => \A x \in live.exits :
                 /\ x \in disk.exits
                 /\ disk.src[x] = live.src[x]
                 /\ disk.dir[x] = live.dir[x]
                 /\ disk.dst[x] = live.dst[x]

(* An Actor or Object comes back where it was, or is stranded in a removed *)
(* Location; never in another place of the Zone.                           *)
RestartMisplacesNobody ==
    loads => /\ \A a \in live.actors :
                    disk.at[a] = live.at[a] \/ disk.at[a] \notin disk.locs
             /\ \A o \in live.objs :
                    disk.cont[o] = live.cont[o] \/ disk.cont[o] \in Location \ disk.locs

(* What the documentation promises and the code does not keep. *)

(* "all changes in a Zone are atomic, serial, and can be replayed in a     *)
(* vacuum": the replay of the log succeeds.                                *)
LogReplays == loads

(* ... and rebuilds the Zone. *)
LogRebuildsZone == disk = live

(* "Item decay for objects left on the ground": what decays lies on the    *)
(* ground.                                                                 *)
DecayOnTheGround ==
    [][\A o \in live.objs \ live'.objs : live.cont[o] \in Location]_vars
=============================================================================
