------------------------------- MODULE ZoneState -------------------------------
(***************************************************************************)
(* The data a core.Zone keeps in memory, and what each of its events does  *)
(* to it.  Every After... operator below is one applyXxxEvent method of    *)
(* core/zone.go: it takes the state before the event and returns the state *)
(* after it.  Can... is the condition under which the method returns no    *)
(* error.  The same operators serve the running zone and the replay of its *)
(* event log, as the same methods do in the program.                       *)
(*                                                                         *)
(* A definition marked "wrong on purpose" is a bug the code does not have. *)
(* No specification uses it; it takes the place of the definition after it *)
(* to see that the properties notice.                                      *)
(*                                                                         *)
(* Left out: names, descriptions, keywords, skills and timestamps, and the *)
(* sequence numbers of the events.                                         *)
(***************************************************************************)
EXTENDS Naturals, FiniteSets

CONSTANTS
    Location,   \* ids a Location may get; an id (a UUID) is used once
    Exit,       \* ids an Exit may get
    Direction,  \* "north", "south", ...
    Actor,      \* ids an Actor may get
    Item,       \* ids of the Objects that are put into the Zone
    Corpse,     \* ids of the Objects that deaths create
    HandMax,    \* how many Objects an Actor's hands hold
    WornMax,    \* how many Objects its back, belt and body hold
    Capacity,   \* [Item -> Nat], the capacity of an Item used as a container
    MaxHp,      \* the Attributes of a new Actor
    Elsewhere,  \* the destination of an Exit that leads to another Zone
    Nil         \* Go's nil

Object    == Item \cup Corpse
Container == Location \cup Actor \cup Object

ASSUME ConstantsAssumption ==
    /\ IsFiniteSet(Object)
    /\ HandMax \in Nat /\ WornMax \in Nat /\ MaxHp \in Nat \ {0}
    /\ Capacity \in [Item -> Nat]
    /\ Nil # Elsewhere
    /\ {Nil, Elsewhere} \cap (Container \cup Exit \cup Direction) = {}
    /\ Location \cap Actor = {}
    /\ Item \cap Corpse = {}
    /\ Object \cap (Location \cup Actor) = {}

(* A Zone.  locs, exits, actors and objs are the domains of the maps       *)
(* locationsById, exitsById, actorsById and objectsById; the functions are *)
(* the fields of the structures, total because a structure outlives its    *)
(* entry in the map.  dst is Nil when the Exit has neither a destination   *)
(* nor a reference to another Zone.  worn holds the Objects their Actor    *)
(* has moved out of its hands.                                             *)
ZoneType ==
    [locs  : SUBSET Location,
     def   : Location \cup {Nil},
     exits : SUBSET Exit,
     src   : [Exit -> Location \cup {Nil}],
     dir   : [Exit -> Direction \cup {Nil}],
     dst   : [Exit -> Location \cup {Elsewhere, Nil}],
     out   : [Location -> SUBSET Exit],
     actors: SUBSET Actor,
     at    : [Actor -> Location \cup {Nil}],
     here  : [Location -> SUBSET Actor],
     hp    : [Actor -> 0..MaxHp],
     objs  : SUBSET Object,
     cont  : [Object -> Container \cup {Nil}],
     holds : [Container -> SUBSET Object],
     worn  : SUBSET Object]

EmptyZone ==
    [locs   |-> {}, def |-> Nil,
     exits  |-> {},
     src    |-> [x \in Exit |-> Nil],
     dir    |-> [x \in Exit |-> Nil],
     dst    |-> [x \in Exit |-> Nil],
     out    |-> [l \in Location |-> {}],
     actors |-> {},
     at     |-> [a \in Actor |-> Nil],
     here   |-> [l \in Location |-> {}],
     hp     |-> [a \in Actor |-> 0],
     objs   |-> {},
     cont   |-> [o \in Object |-> Nil],
     holds  |-> [c \in Container |-> {}],
     worn   |-> {}]

-----------------------------------------------------------------------------
(* Queries *)

OutExitToward(z, l, d) == {x \in z.out[l] : z.dir[x] = d}
ExitsToLocation(z, l)  == {x \in z.exits : z.dst[x] = l}
Hands(z, a)            == z.holds[a] \ z.worn
Worn(z, a)             == z.holds[a] \cap z.worn

(* Object.Location() walks up the containers: one step from d, and where   *)
(* the walk from c stands after n steps.                                   *)
Above(z, d) == IF d \in Object THEN z.cont[d] ELSE d

Up(z, c, n) ==
    LET up[k \in Nat] == IF k = 0 THEN c ELSE Above(z, up[k-1])
    IN  up[n]

(* Top is where it ends: a Location or an Actor, Nil under a removed       *)
(* Object, or an Object when the containers form a cycle.  In the last two *)
(* cases the Go code does not return: it dereferences nil, or recurses     *)
(* until the stack overflows.                                              *)
Top(z, c) == Up(z, c, Cardinality(Object) + 1)

(* All it comes by, c included. *)
WayUp(z, c) == {Up(z, c, n) : n \in 0..(Cardinality(Object) + 1)}

Located(z, c) == Top(z, c) \in Location \cup Actor

LocationOf(z, c) == IF Top(z, c) \in Actor THEN z.at[Top(z, c)] ELSE Top(z, c)

(* getObjectContainerTuplesRecursive: the Objects in c and, level by       *)
(* level, those inside them.                                               *)
Contents(z, c) ==
    LET level[n \in 0..Cardinality(Object)] ==
            IF n = 0 THEN z.holds[c]
            ELSE UNION {z.holds[o] : o \in level[n-1]}
    IN  z.holds[c] \cup
            {o \in z.objs : \E n \in 1..Cardinality(Object) : o \in level[n]}

(* The lists after e has left the one of "from" and entered that of "to".  *)
Relisted(lists, e, from, to) ==
    [c \in DOMAIN lists |->
        CASE c = to            -> lists[c] \cup {e}
          [] c = from /\ c # to -> lists[c] \ {e}
          [] OTHER             -> lists[c]]

-----------------------------------------------------------------------------
(* Events about Locations and Exits *)

AfterLocationAdd(z, l)    == [z EXCEPT !.locs = @ \cup {l}]
AfterSetDefault(z, l)     == [z EXCEPT !.def = l]

(* Only the entry in locationsById goes. *)
AfterLocationRemove(z, l) == [z EXCEPT !.locs = @ \ {l}]

(* Wrong on purpose: the test for a free direction dropped. *)
CanExitAddAnyDirection(z, l, d, t) ==
    /\ l \in z.locs
    /\ t \in z.locs \cup {Elsewhere}

CanExitAdd(z, l, d, t) ==
    /\ l \in z.locs
    /\ t \in z.locs \cup {Elsewhere}
    /\ OutExitToward(z, l, d) = {}

AfterExitAdd(z, x, l, d, t) ==
    [z EXCEPT !.exits  = @ \cup {x},
              !.src[x] = l,
              !.dir[x] = d,
              !.dst[x] = t,
              !.out[l] = @ \cup {x}]

(* newDst is declared and never assigned (zone.go l.1453), so an update    *)
(* whose destination lies in this Zone leaves the Exit without one.  No    *)
(* caller changes the source of an Exit.                                   *)
AfterExitUpdate(z, x, d, t) ==
    [z EXCEPT !.dir[x] = d,
              !.dst[x] = IF t = Elsewhere THEN Elsewhere ELSE Nil]

(* An ExitRemoveFromZone event for each Exit of X. *)
AfterExitsRemove(z, X) ==
    [z EXCEPT !.exits = @ \ X,
              !.out   = [l \in Location |-> z.out[l] \ {x \in X : z.src[x] = l}]]

-----------------------------------------------------------------------------
(* Events about Actors *)

CanActorAdd(z, l) == l \in z.locs \/ z.def # Nil

(* The Location a new Actor arrives at. *)
Arrival(z, l) == IF l \in z.locs THEN l ELSE z.def

AfterActorAdd(z, a, l) ==
    [z EXCEPT !.actors              = @ \cup {a},
              !.at[a]               = Arrival(z, l),
              !.here[Arrival(z, l)] = @ \cup {a},
              !.hp[a]               = MaxHp]

(* Wrong on purpose: the Actor not taken off the old list. *)
AfterActorMoveKeepsOld(z, a, from, to) ==
    [z EXCEPT !.at[a] = to, !.here[to] = @ \cup {a}]

(* The Actor leaves the list of "from", wherever it really is. *)
AfterActorMove(z, a, from, to) ==
    [z EXCEPT !.at[a] = to, !.here = Relisted(z.here, a, from, to)]

(* A whole set of ActorAdminRelocate events, one for each Actor of A. *)
AfterActorsRelocate(z, A, to) ==
    [z EXCEPT !.at   = [a \in Actor |-> IF a \in A THEN to ELSE z.at[a]],
              !.here = [l \in Location |->
                            IF l = to THEN z.here[l] \cup A
                                      ELSE z.here[l] \ {a \in A : z.at[a] = l}]]

(* Into another Zone comes a new structure, its inventory empty, even when *)
(* an Actor of that id is there already.                                   *)
AfterActorMigrateIn(z, a, hp, l) ==
    [z EXCEPT !.actors   = @ \cup {a},
              !.at[a]    = IF l \in z.locs THEN l ELSE Nil,
              !.here     = [k \in Location |->
                               IF k = l /\ l \in z.locs THEN z.here[k] \cup {a}
                                                       ELSE z.here[k]],
              !.hp[a]    = hp,
              !.holds[a] = {}]

(* Wrong on purpose: the entry in actorsById kept. *)
AfterActorMigrateOutKeepsId(z, a) ==
    [z EXCEPT !.at[a] = Nil,
              !.here  = [l \in Location |->
                             IF l = z.at[a] THEN z.here[l] \ {a} ELSE z.here[l]]]

AfterActorMigrateOut(z, a) ==
    [z EXCEPT !.actors = @ \ {a},
              !.at[a]  = Nil,
              !.here   = [l \in Location |->
                              IF l = z.at[a] THEN z.here[l] \ {a} ELSE z.here[l]]]

AfterDamage(z, a, d) ==
    [z EXCEPT !.hp[a] = IF d < @ THEN @ - d ELSE 0]

AfterActorRemove(z, a) ==
    [z EXCEPT !.actors = @ \ {a},
              !.at[a]  = Nil,
              !.hp[a]  = 0,
              !.here   = [l \in Location |->
                              IF l = z.at[a] THEN z.here[l] \ {a} ELSE z.here[l]]]

-----------------------------------------------------------------------------
(* Events about Objects *)

AfterObjectAdd(z, o, l) ==
    IF l \in z.locs
    THEN [z EXCEPT !.objs     = @ \cup {o},
                   !.cont[o]  = l,
                   !.holds[l] = @ \cup {o}]
    ELSE [z EXCEPT !.objs = @ \cup {o}]   \* "no resolvable Container"

(* Wrong on purpose: no limit on what the hands hold. *)
CanObjectMoveAnyHands(z, o, to) == o \notin z.holds[to]

(* addObject refuses an Object that is already listed; an Actor's          *)
(* inventory also refuses one more than the hands hold.                    *)
CanObjectMove(z, o, to) ==
    /\ o \notin z.holds[to]
    /\ to \in Actor => Cardinality(Hands(z, to)) < HandMax

(* What processObjectMoveCommand asks for before it makes its event.  The  *)
(* test meant to keep "to" from overflowing looks at "from".               *)
WouldOverflow(z, from, to) ==
    from \in Item /\ Cardinality(z.holds[from]) >= Capacity[from]

Known(z, c) == c \in z.locs \cup z.actors \cup z.objs

CanMoveObject(z, who, o, from, to) ==
    /\ who \in z.actors /\ o \in z.objs
    /\ Known(z, from) /\ Known(z, to)
    /\ from # to
    /\ o \in z.holds[from]
    /\ Located(z, from) /\ Located(z, to)
    /\ LocationOf(z, from) = LocationOf(z, to)
    /\ ~WouldOverflow(z, from, to)
    /\ from \in Actor \/ to \in Actor
    /\ from \in Actor => to # who       \* "stealing not allowed"

(* Wrong on purpose: the Object not taken off the old list. *)
AfterObjectMoveKeepsOld(z, o, from, to) ==
    [z EXCEPT !.cont[o] = to, !.holds[to] = @ \cup {o}, !.worn = @ \ {o}]

AfterObjectMove(z, o, from, to) ==
    [z EXCEPT !.cont[o] = to,
              !.holds   = Relisted(z.holds, o, from, to),
              !.worn    = @ \ {o}]

(* Wrong on purpose: the Object's container forgotten by the first half.   *)
AfterObjectMoveFailsNowhere(z, o, from) ==
    [z EXCEPT !.cont[o] = Nil, !.holds[from] = @ \ {o}, !.worn = @ \ {o}]

(* removeObject comes before addObject: when the second fails, the Object  *)
(* is in no list, and its container is still the old one.                  *)
AfterObjectMoveFails(z, o, from) ==
    [z EXCEPT !.holds[from] = @ \ {o}, !.worn = @ \ {o}]

AfterMoveSubcontainer(z, o, wear) ==
    [z EXCEPT !.worn = IF wear THEN @ \cup {o} ELSE @ \ {o}]

(* A whole set of ObjectAdminRelocate events to a Location or an Object. *)
AfterObjectsRelocate(z, O, to) ==
    [z EXCEPT !.cont  = [o \in Object |-> IF o \in O THEN to ELSE z.cont[o]],
              !.holds = [c \in Container |->
                             IF c = to THEN z.holds[c] \cup O
                                       ELSE z.holds[c] \ {o \in O : z.cont[o] = c}],
              !.worn  = @ \ O]

AfterObjectRemove(z, o) ==
    [z EXCEPT !.objs    = @ \ {o},
              !.cont[o] = Nil,
              !.holds   = [c \in Container |->
                               IF c = z.cont[o] THEN z.holds[c] \ {o} ELSE z.holds[c]],
              !.worn    = @ \ {o}]

AfterObjectMigrateIn(z, o, c, worn) ==
    [z EXCEPT !.objs    = @ \cup {o},
              !.cont[o] = c,
              !.holds   = [k \in Container |->
                               CASE k = c -> z.holds[k] \cup {o}
                                 [] k = o /\ k # c -> {}
                                 [] OTHER -> z.holds[k]],
              !.worn    = IF worn THEN @ \cup {o} ELSE @ \ {o}]

AfterObjectMigrateOut(z, o) == AfterObjectRemove(z, o)

(* Wrong on purpose: what is inside bags left where it is. *)
AfterDeathOneDeep(z, a, corpse, l, loot) ==
    AfterActorRemove(
        AfterObjectsRelocate(AfterObjectAdd(z, corpse, l), z.holds[a], corpse), a)

(* doActorDeath: the death itself, a corpse at l, where the Actor is, the  *)
(* Actor's Objects one by one into the corpse, and the Actor's removal.    *)
AfterDeath(z, a, corpse, l, loot) ==
    AfterActorRemove(
        AfterObjectsRelocate(AfterObjectAdd(z, corpse, l), loot, corpse), a)
=============================================================================
