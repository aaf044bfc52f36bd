--------------------------------- MODULE World ---------------------------------
(***************************************************************************)
(* core.World above its Zones: Actors migrate from Zone to Zone with all   *)
(* they carry while others trade Objects, fight and die, and the process   *)
(* may crash at any moment.                                                *)
(*                                                                         *)
(* The World is one goroutine that serves one migration at a time with two *)
(* commands, MigrateIn to the new Zone and, when that is answered,         *)
(* MigrateOut to the old one (core/world.go, handleMigrateActorCommand).   *)
(* Each Zone is a goroutine that applies all the events of a command, then *)
(* persists them one after the other, then answers (core/zone.go,          *)
(* processCommand); a crash in between leaves part of them in the log.     *)
(*                                                                         *)
(* Zones start as a replay of their logs finds them, with their Locations, *)
(* Actors and Objects in place.  Who sits in the world editor does so in   *)
(* module Zone; here Locations stay.                                       *)
(***************************************************************************)
EXTENDS ZoneState, SequencesExt

CONSTANTS
    ZoneId,
    Land,       \* [Location -> ZoneId]
    Home,       \* [Actor -> Location], where an Actor starts
    Lies,       \* [Item -> Location \cup Item], where an Item starts
    Gives       \* the pairs <<a, b>> such that a may hand Objects to b
                \* between the two halves of b's migration

(* What commands.MoveActor has read when it calls World.MigrateActor, and  *)
(* how far the World is with a migration.                                  *)
Journey == [src : ZoneId, dst : ZoneId, to : Location]
Errand  == [actor : Actor, stage : {"in", "copied", "out"}]

ASSUME WorldAssumption ==
    /\ Land \in [Location -> ZoneId]
    /\ Home \in [Actor -> Location]
    /\ Lies \in [Item -> Location \cup Item]
    /\ \A o \in Item : Lies[o] \in Item => Lies[Lies[o]] \in Location
    /\ Gives \subseteq Actor \X Actor
    /\ Nil \notin Actor \cup ZoneId \cup Journey \cup Errand
    /\ Nil \notin [actor : Actor, stage : {"in", "copied", "out"},
                  src : ZoneId, dst : ZoneId]       \* no record is nil

VARIABLES
    zone,       \* [ZoneId -> ZoneType], the Zones in memory
    disk,       \* what a replay of each Zone's log would build
    writing,    \* events a Zone has applied and not yet persisted
    asked,      \* the migration the session of an Actor waits for
    serving,    \* the one the World works on
    crashed,    \* history: there has been a crash
    dead        \* history: the Actors that have been killed

vars == <<zone, disk, writing, asked, serving, crashed, dead>>

Event ==
    [kind : {"actorIn"}, actor : Actor, hp : 0..MaxHp, loc : Location]
        \cup [kind : {"objectIn"}, obj : Object, in : Container, worn : BOOLEAN]
        \cup [kind : {"objectOut"}, obj : Object]
        \cup [kind : {"actorOut", "death", "actorRemove"}, actor : Actor]
        \cup [kind : {"objectMove"}, obj : Object, from : Container, to : Container]
        \cup [kind : {"objectAdd"}, obj : Object, loc : Location]
        \cup [kind : {"relocate"}, obj : Object, to : Object]

TypeOK ==
    /\ zone \in [ZoneId -> ZoneType]
    /\ disk \in [ZoneId -> ZoneType]
    /\ writing \in [ZoneId -> Seq(Event)]
    /\ asked \in [Actor -> Journey \cup {Nil}]
    /\ serving \in Errand \cup {Nil}
    /\ crashed \in BOOLEAN
    /\ dead \subseteq Actor

Loaded(z) ==
    LET L == {l \in Location : Land[l] = z}
        A == {a \in Actor : Home[a] \in L}
        O == {o \in Item : (IF Lies[o] \in Item THEN Lies[Lies[o]] ELSE Lies[o]) \in L}
    IN  [EmptyZone EXCEPT
            !.locs   = L,
            !.actors = A,
            !.at     = [a \in Actor |-> IF a \in A THEN Home[a] ELSE Nil],
            !.here   = [l \in Location |-> {a \in A : Home[a] = l}],
            !.hp     = [a \in Actor |-> IF a \in A THEN MaxHp ELSE 0],
            !.objs   = O,
            !.cont   = [o \in Object |-> IF o \in O THEN Lies[o] ELSE Nil],
            !.holds  = [c \in Container |-> {o \in O : Lies[o] = c}]]

Init ==
    /\ zone = [z \in ZoneId |-> Loaded(z)]
    /\ disk = zone
    /\ writing = [z \in ZoneId |-> <<>>]
    /\ asked = [a \in Actor |-> Nil]
    /\ serving = Nil
    /\ crashed = FALSE
    /\ dead = {}

-----------------------------------------------------------------------------
(* Building blocks *)

Apply(z, e) ==
    CASE e.kind = "actorIn"     -> AfterActorMigrateIn(z, e.actor, e.hp, e.loc)
      [] e.kind = "objectIn"    -> AfterObjectMigrateIn(z, e.obj, e.in, e.worn)
      [] e.kind = "objectOut"   -> AfterObjectMigrateOut(z, e.obj)
      [] e.kind = "actorOut"    -> AfterActorMigrateOut(z, e.actor)
      [] e.kind = "death"       -> [z EXCEPT !.hp[e.actor] = 0]
      [] e.kind = "actorRemove" -> AfterActorRemove(z, e.actor)
      [] e.kind = "objectMove"  -> AfterObjectMove(z, e.obj, e.from, e.to)
      [] e.kind = "objectAdd"   -> AfterObjectAdd(z, e.obj, e.loc)
      [] e.kind = "relocate"    -> AfterObjectsRelocate(z, {e.obj}, e.to)

AfterAll(z, events) ==
    LET after[n \in 0..Len(events)] ==
            IF n = 0 THEN z ELSE Apply(after[n-1], events[n])
    IN  after[Len(events)]

(* A Zone with no command in hand runs one that makes the given events. *)
Handle(z, events) ==
    /\ writing[z] = <<>>
    /\ zone' = [zone EXCEPT ![z] = AfterAll(@, events)]
    /\ writing' = [writing EXCEPT ![z] = events]
    /\ UNCHANGED disk

(* The Container in whose list an Object is found. *)
Holder(z, o) == CHOOSE c \in Container : o \in z.holds[c]

(* The Objects an Actor carries, a bag before what it holds: there is such *)
(* an order unless bags hold each other.                                   *)
Carried(z, a) ==
    LET orders == SetToSeqs(Contents(z, a))
        BagsFirst(s) == \A i, j \in DOMAIN s : s[i] \in z.holds[s[j]] => j < i
    IN  CHOOSE s \in orders : (\E t \in orders : BagsFirst(t)) => BagsFirst(s)

MigrateInEvents(z, a, l) ==
    LET objs == Carried(z, a)
    IN  <<[kind |-> "actorIn", actor |-> a, hp |-> z.hp[a], loc |-> l]>> \o
        [i \in DOMAIN objs |->
            [kind |-> "objectIn", obj |-> objs[i], in |-> Holder(z, objs[i]),
             worn |-> objs[i] \in z.worn]]

MigrateOutEvents(z, a) ==
    LET objs == Carried(z, a)
    IN  [i \in DOMAIN objs |-> [kind |-> "objectOut", obj |-> objs[i]]] \o
        <<[kind |-> "actorOut", actor |-> a]>>

(* Wrong on purpose: where the Actor stood read after it has left. *)
DeathEventsNowhere(z, a, corpse) ==
    <<[kind |-> "death", actor |-> a],
      [kind |-> "actorRemove", actor |-> a],
      [kind |-> "objectAdd", obj |-> corpse, loc |-> Nil]>>

DeathEvents(z, a, corpse) ==
    LET objs == Carried(z, a)
    IN  <<[kind |-> "death", actor |-> a],
          [kind |-> "objectAdd", obj |-> corpse, loc |-> z.at[a]]>> \o
        [i \in DOMAIN objs |->
            [kind |-> "relocate", obj |-> objs[i], to |-> corpse]] \o
        <<[kind |-> "actorRemove", actor |-> a]>>

-----------------------------------------------------------------------------
(* Migration *)

(* The session of an Actor walks it through an Exit to another Zone, and   *)
(* waits.  It has read where the Actor is, and the World serves it later.  *)
(* A bound: once a crash or a death has left copies in two Zones, they are *)
(* not followed through another migration.                                 *)
Unique(a, z) ==
    \A y \in ZoneId \ {z} :
        a \notin zone[y].actors /\ Contents(zone[z], a) \cap zone[y].objs = {}

Ask(a, z, l) ==
    /\ asked[a] = Nil
    /\ a \in zone[z].actors /\ zone[z].at[a] # Nil
    /\ Unique(a, z)
    /\ Land[l] # z
    /\ asked' = [asked EXCEPT ![a] = [src |-> z, dst |-> Land[l], to |-> l]]
    /\ UNCHANGED <<zone, disk, writing, serving, crashed, dead>>

(* The new Zone copies the Actor and what it carries out of the structures *)
(* of the old Zone, as they are now; nothing asks whether the Actor is     *)
(* still there, or alive.                                                  *)
MigrateIn(a) ==
    /\ serving = Nil /\ asked[a] # Nil
    /\ serving' = [actor |-> a, stage |-> "in"]
    /\ Handle(asked[a].dst, MigrateInEvents(zone[asked[a].src], a, asked[a].to))
    /\ UNCHANGED <<asked, crashed, dead>>

(* Wrong on purpose: the answer of the new Zone not waited for. *)
MigrateOutEarly ==
    /\ serving # Nil /\ serving.stage \in {"in", "copied"}
    /\ LET a == serving.actor
           z == asked[a].src
       IN  /\ a \in zone[z].actors
           /\ Handle(z, MigrateOutEvents(zone[z], a))
    /\ serving' = [serving EXCEPT !.stage = "out"]
    /\ UNCHANGED <<asked, crashed, dead>>

(* The old Zone removes what the Actor carries by then, and the Actor. *)
MigrateOut ==
    /\ serving # Nil /\ serving.stage = "copied"
    /\ LET a == serving.actor
           z == asked[a].src
       IN  /\ a \in zone[z].actors
           /\ Handle(z, MigrateOutEvents(zone[z], a))
    /\ serving' = [serving EXCEPT !.stage = "out"]
    /\ UNCHANGED <<asked, crashed, dead>>

(* Wrong on purpose: the session is left without an answer. *)
MigrateOutFailsSilently ==
    /\ serving # Nil /\ serving.stage = "copied"
    /\ LET z == asked[serving.actor].src
       IN  writing[z] = <<>> /\ serving.actor \notin zone[z].actors
    /\ serving' = Nil
    /\ UNCHANGED <<zone, disk, writing, asked, crashed, dead>>

(* "cannot find Actor to migrate out": it was killed meanwhile. *)
MigrateOutFails ==
    /\ serving # Nil /\ serving.stage = "copied"
    /\ LET a == serving.actor
           z == asked[a].src
       IN  /\ writing[z] = <<>>
           /\ a \notin zone[z].actors
           /\ asked' = [asked EXCEPT ![a] = Nil]
    /\ serving' = Nil
    /\ UNCHANGED <<zone, disk, writing, crashed, dead>>

(* A Zone persists its next event; after the last one it answers.  While a *)
(* stage of the migration is "in" or "out" the command in hand of the Zone *)
(* concerned is the World's.                                               *)
Awaited(z) ==
    /\ serving # Nil
    /\ LET j == asked[serving.actor] IN
       \/ serving.stage = "in"  /\ z = j.dst
       \/ serving.stage = "out" /\ z = j.src

(* Wrong on purpose: the answer sent before the events are persisted. *)
PersistLate(z) ==
    /\ writing[z] # <<>>
    /\ disk' = [disk EXCEPT ![z] = Apply(@, Head(writing[z]))]
    /\ writing' = [writing EXCEPT ![z] = Tail(@)]
    /\ IF ~Awaited(z)
       THEN UNCHANGED <<asked, serving>>
       ELSE IF serving.stage = "in"
            THEN /\ serving' = [serving EXCEPT !.stage = "copied"]
                 /\ UNCHANGED asked
            ELSE /\ serving' = Nil
                 /\ asked' = [asked EXCEPT ![serving.actor] = Nil]
    /\ UNCHANGED <<zone, crashed, dead>>

Persist(z) ==
    /\ writing[z] # <<>>
    /\ disk' = [disk EXCEPT ![z] = Apply(@, Head(writing[z]))]
    /\ writing' = [writing EXCEPT ![z] = Tail(@)]
    /\ IF Tail(writing[z]) # <<>> \/ ~Awaited(z)
       THEN UNCHANGED <<asked, serving>>
       ELSE IF serving.stage = "in"
            THEN /\ serving' = [serving EXCEPT !.stage = "copied"]
                 /\ UNCHANGED asked
            ELSE /\ serving' = Nil
                 /\ asked' = [asked EXCEPT ![serving.actor] = Nil]
    /\ UNCHANGED <<zone, crashed, dead>>

-----------------------------------------------------------------------------
(* Everybody else *)

(* Copied to its new Zone and not yet removed from this one. *)
Leaving(z, b) ==
    /\ serving # Nil /\ serving.stage \in {"in", "copied"}
    /\ serving.actor = b /\ asked[b].src = z

(* take, drop, put and give, by an Actor whose session is not waiting: the *)
(* other Container may be anybody, or a bag that anybody carries.  A       *)
(* bound: only until the crash.                                            *)
MoveObject(z, who, o, from, to) ==
    /\ ~crashed
    /\ asked[who] = Nil
    /\ who \in {from, to} \/ {from, to} \subseteq Object
    /\ \A b \in Actor :
           Leaving(z, b) /\ to \in {b} \cup Contents(zone[z], b) =>
               <<who, b>> \in Gives
    /\ CanMoveObject(zone[z], who, o, from, to)
    /\ CanObjectMove(zone[z], o, to)
    /\ Handle(z, <<[kind |-> "objectMove", obj |-> o, from |-> from, to |-> to]>>)
    /\ UNCHANGED <<asked, serving, crashed, dead>>

(* Killed, by whatever blow. *)
Die(z, a, corpse) ==
    /\ a \in zone[z].actors /\ zone[z].at[a] # Nil
    /\ \A y \in ZoneId : corpse \notin zone[y].objs \cup disk[y].objs
    /\ Handle(z, DeathEvents(zone[z], a, corpse))
    /\ dead' = dead \cup {a}
    /\ UNCHANGED <<asked, serving, crashed>>

(* The process dies and comes back: each Zone replays its log; the intent  *)
(* log is opened and found empty, since the migration writes none.  One    *)
(* crash is the bound.                                                     *)
CrashAndRestart ==
    /\ ~crashed
    /\ zone' = disk
    /\ writing' = [z \in ZoneId |-> <<>>]
    /\ asked' = [a \in Actor |-> Nil]
    /\ serving' = Nil
    /\ crashed' = TRUE
    /\ UNCHANGED <<disk, dead>>

-----------------------------------------------------------------------------
Next ==
    \/ \E a \in Actor, z \in ZoneId, l \in Location : Ask(a, z, l)
    \/ \E a \in Actor : MigrateIn(a)
    \/ MigrateOut
    \/ MigrateOutFails
    \/ \E z \in ZoneId : Persist(z)
    \/ \E z \in ZoneId, who \in Actor, from, to \in Container :
           \E o \in zone[z].holds[from] : MoveObject(z, who, o, from, to)
    \/ \E z \in ZoneId, a \in Actor, k \in Corpse : Die(z, a, k)
    \/ CrashAndRestart

(* When MigrateIn and MigrateOut are enabled, spelled out because TLC is   *)
(* slow to find it.                                                        *)
MayMigrateIn(a) ==
    serving = Nil /\ asked[a] # Nil /\ writing[asked[a].dst] = <<>>

MayMigrateOut ==
    /\ serving # Nil /\ serving.stage = "copied"
    /\ LET z == asked[serving.actor].src
       IN  writing[z] = <<>> /\ serving.actor \in zone[z].actors

(* Goroutines run, and the callers blocked on a channel are served in the  *)
(* order they came.                                                        *)
Fairness ==
    /\ \A z \in ZoneId : WF_vars(Persist(z))
    /\ \A a \in Actor : []<>MayMigrateIn(a) => []<><<MigrateIn(a)>>_vars
    /\ []<>MayMigrateOut => []<><<MigrateOut>>_vars
    /\ SF_vars(MigrateOutFails)

Spec == Init /\ [][Next]_vars /\ Fairness

-----------------------------------------------------------------------------
(* The World hands Actors over as Handover says. *)
Handing == INSTANCE Handover WITH
    present <- [a \in Actor |-> {z \in ZoneId : a \in zone[z].actors}],
    saved   <- [a \in Actor |-> {z \in ZoneId : a \in disk[z].actors}],
    moving  <- IF serving = Nil THEN Nil
               ELSE [actor |-> serving.actor, stage |-> serving.stage,
                     src   |-> asked[serving.actor].src,
                     dst   |-> asked[serving.actor].dst]

(* handleMigrateActorCommand in the terms of Handover: the copy, the wait  *)
(* for its answer, the removal or the refusal, and nothing else moves an   *)
(* Actor between Zones.                                                    *)
HandsOver == Handing!Spec

(* An Actor that nobody has killed is in some Zone, and in the log of some *)
(* Zone, at every moment of a migration and after a crash at any moment:   *)
(* MigrateIn is persisted before MigrateOut begins.  (The documentation    *)
(* has it the other way round, "briefly found in neither".)                *)
NobodyLost == Handing!NobodyLost

(* Nor is any Object lost, be it in a bag, worn or in hand, as long as     *)
(* nobody hands Objects to an Actor on its way: the new Zone has copied    *)
(* all that the old Zone removes.                                          *)
NothingLost ==
    \A o \in Item :
        /\ \E z \in ZoneId : o \in zone[z].objs
        /\ \E z \in ZoneId : o \in disk[z].objs

(* Before the first crash an Actor is in two Zones only while the World    *)
(* works on its migration.                                                 *)
OneZone ==
    ~crashed =>
        \A a \in Actor : \A y, z \in ZoneId :
            a \in zone[y].actors \cap zone[z].actors =>
                y = z \/ (serving # Nil /\ serving.actor = a)

(* Every migration a session waits for is answered. *)
MigrationAnswered == \A a \in Actor : asked[a] # Nil ~> asked[a] = Nil

(* "should the MUD crash during that moment of inconsistency, it will be   *)
(* returned to a consistent state upon restart" (doc/README.md): when no   *)
(* migration is under way every Actor is in at most one Zone.              *)
ConsistentAfterRestart ==
    serving = Nil =>
        \A a \in Actor : \A y, z \in ZoneId :
            a \in zone[y].actors \cap zone[z].actors => y = z
=============================================================================
