---------------------------- MODULE ZoneStateProofs ----------------------------
(***************************************************************************)
(* What every event does to a Zone, for any Zone: it stays one, and most   *)
(* of its parts stay as they are.  And what the walk up the containers,    *)
(* which asks for the Location of an Object, comes to.                     *)
(***************************************************************************)
EXTENDS ZoneState, FiniteSetTheorems, WellFoundedInduction, TLAPS

-----------------------------------------------------------------------------
(* Types: every event turns a Zone into a Zone. *)

LEMMA EmptyZoneType == EmptyZone \in ZoneType
BY ConstantsAssumption DEF EmptyZone, ZoneType

LEMMA LocationAddType ==
  ASSUME NEW z \in ZoneType, NEW l \in Location
  PROVE  AfterLocationAdd(z, l) \in ZoneType
BY DEF AfterLocationAdd, ZoneType

LEMMA SetDefaultType ==
  ASSUME NEW z \in ZoneType, NEW l \in Location
  PROVE  AfterSetDefault(z, l) \in ZoneType
BY DEF AfterSetDefault, ZoneType

LEMMA LocationRemoveType ==
  ASSUME NEW z \in ZoneType, NEW l \in Location
  PROVE  AfterLocationRemove(z, l) \in ZoneType
BY DEF AfterLocationRemove, ZoneType

LEMMA ExitAddType ==
  ASSUME NEW z \in ZoneType, NEW x \in Exit, NEW l \in Location,
         NEW d \in Direction, NEW t \in Location \cup {Elsewhere}
  PROVE  AfterExitAdd(z, x, l, d, t) \in ZoneType
BY DEF AfterExitAdd, ZoneType

LEMMA ExitUpdateType ==
  ASSUME NEW z \in ZoneType, NEW x \in Exit,
         NEW d \in Direction, NEW t \in Location \cup {Elsewhere}
  PROVE  AfterExitUpdate(z, x, d, t) \in ZoneType
BY DEF AfterExitUpdate, ZoneType

LEMMA ExitsRemoveType ==
  ASSUME NEW z \in ZoneType, NEW X \in SUBSET Exit
  PROVE  AfterExitsRemove(z, X) \in ZoneType
BY DEF AfterExitsRemove, ZoneType

LEMMA ActorAddType ==
  ASSUME NEW z \in ZoneType, NEW a \in Actor, NEW l \in Location,
         CanActorAdd(z, l)
  PROVE  AfterActorAdd(z, a, l) \in ZoneType
<1>1. Arrival(z, l) \in Location
  BY ConstantsAssumption DEF CanActorAdd, ZoneType, Arrival
<1>2. MaxHp \in 0..MaxHp  BY ConstantsAssumption
<1> QED  BY <1>1, <1>2 DEF AfterActorAdd, ZoneType

LEMMA ActorMoveType ==
  ASSUME NEW z \in ZoneType, NEW a \in Actor,
         NEW from \in Location, NEW to \in Location
  PROVE  AfterActorMove(z, a, from, to) \in ZoneType
BY DEF AfterActorMove, Relisted, ZoneType

LEMMA ActorsRelocateType ==
  ASSUME NEW z \in ZoneType, NEW A \in SUBSET Actor,
         NEW to \in Location \cup {Nil}
  PROVE  AfterActorsRelocate(z, A, to) \in ZoneType
BY DEF AfterActorsRelocate, ZoneType

LEMMA DamageType ==
  ASSUME NEW z \in ZoneType, NEW a \in Actor, NEW d \in Nat
  PROVE  AfterDamage(z, a, d) \in ZoneType
<1>1. z.hp[a] \in 0..MaxHp  BY DEF ZoneType
<1>2. (IF d < z.hp[a] THEN z.hp[a] - d ELSE 0) \in 0..MaxHp
  BY <1>1, ConstantsAssumption
<1> QED  BY <1>2 DEF AfterDamage, ZoneType

LEMMA ActorRemoveType ==
  ASSUME NEW z \in ZoneType, NEW a \in Actor
  PROVE  AfterActorRemove(z, a) \in ZoneType
<1>1. 0 \in 0..MaxHp  BY ConstantsAssumption
<1> QED  BY <1>1 DEF AfterActorRemove, ZoneType

LEMMA ObjectAddType ==
  ASSUME NEW z \in ZoneType, NEW o \in Object, NEW l \in Location
  PROVE  AfterObjectAdd(z, o, l) \in ZoneType
BY DEF AfterObjectAdd, ZoneType, Container

LEMMA ObjectMoveType ==
  ASSUME NEW z \in ZoneType, NEW o \in Object,
         NEW from \in Container, NEW to \in Container
  PROVE  AfterObjectMove(z, o, from, to) \in ZoneType
BY DEF AfterObjectMove, Relisted, ZoneType

LEMMA ObjectMoveFailsType ==
  ASSUME NEW z \in ZoneType, NEW o \in Object, NEW from \in Container
  PROVE  AfterObjectMoveFails(z, o, from) \in ZoneType
BY DEF AfterObjectMoveFails, ZoneType

LEMMA MoveSubcontainerType ==
  ASSUME NEW z \in ZoneType, NEW o \in Object, NEW wear \in BOOLEAN
  PROVE  AfterMoveSubcontainer(z, o, wear) \in ZoneType
BY DEF AfterMoveSubcontainer, ZoneType

LEMMA ObjectsRelocateType ==
  ASSUME NEW z \in ZoneType, NEW O \in SUBSET Object,
         NEW to \in Container \cup {Nil}
  PROVE  AfterObjectsRelocate(z, O, to) \in ZoneType
BY DEF AfterObjectsRelocate, ZoneType

LEMMA ObjectRemoveType ==
  ASSUME NEW z \in ZoneType, NEW o \in Object
  PROVE  AfterObjectRemove(z, o) \in ZoneType
BY DEF AfterObjectRemove, ZoneType

LEMMA ActorMigrateInType ==
  ASSUME NEW z \in ZoneType, NEW a \in Actor, NEW hp \in 0..MaxHp, NEW l \in Location
  PROVE  AfterActorMigrateIn(z, a, hp, l) \in ZoneType
BY DEF AfterActorMigrateIn, ZoneType, Container

LEMMA ActorMigrateOutType ==
  ASSUME NEW z \in ZoneType, NEW a \in Actor
  PROVE  AfterActorMigrateOut(z, a) \in ZoneType
BY DEF AfterActorMigrateOut, ZoneType

LEMMA ObjectMigrateInType ==
  ASSUME NEW z \in ZoneType, NEW o \in Object, NEW c \in Container, NEW worn \in BOOLEAN
  PROVE  AfterObjectMigrateIn(z, o, c, worn) \in ZoneType
BY DEF AfterObjectMigrateIn, ZoneType

LEMMA ContentsType ==
  ASSUME NEW z \in ZoneType, NEW c \in Container
  PROVE  Contents(z, c) \subseteq Object
BY DEF Contents, ZoneType

LEMMA DeathType ==
  ASSUME NEW z \in ZoneType, NEW a \in Actor, NEW k \in Corpse,
         NEW l \in Location, NEW O \in SUBSET Object
  PROVE  AfterDeath(z, a, k, l, O) \in ZoneType
<1>1. k \in Object /\ k \in Container  BY DEF Object, Container
<1>2. AfterObjectAdd(z, k, l) \in ZoneType  BY <1>1, ObjectAddType
<1>3. AfterObjectsRelocate(AfterObjectAdd(z, k, l), O, k) \in ZoneType
  BY <1>1, <1>2, ObjectsRelocateType
<1> QED  BY <1>3, ActorRemoveType DEF AfterDeath

-----------------------------------------------------------------------------
(* Frames: which parts of a Zone an event leaves alone. *)

SamePassages(y, z) ==
    /\ y.locs = z.locs /\ y.exits = z.exits
    /\ y.src = z.src /\ y.dir = z.dir /\ y.dst = z.dst /\ y.out = z.out

SamePlaces(y, z) ==
    /\ y.locs = z.locs /\ y.def = z.def
    /\ y.actors = z.actors /\ y.at = z.at /\ y.here = z.here

LEMMA ObjectEventsFrame ==
  ASSUME NEW z \in ZoneType, NEW o \in Object, NEW l \in Location,
         NEW from, NEW to, NEW O, NEW wear \in BOOLEAN
  PROVE  LET same(y) == SamePassages(y, z) /\ SamePlaces(y, z)
         IN  /\ same(AfterObjectAdd(z, o, l))
             /\ same(AfterObjectMove(z, o, from, to))
             /\ same(AfterObjectMoveFails(z, o, from))
             /\ same(AfterMoveSubcontainer(z, o, wear))
             /\ same(AfterObjectsRelocate(z, O, to))
             /\ same(AfterObjectRemove(z, o))
<1>1. SamePassages(AfterObjectAdd(z, o, l), z) /\ SamePlaces(AfterObjectAdd(z, o, l), z)
  BY DEF AfterObjectAdd, ZoneType, SamePassages, SamePlaces
<1>2. SamePassages(AfterObjectMove(z, o, from, to), z) /\ SamePlaces(AfterObjectMove(z, o, from, to), z)
  BY DEF AfterObjectMove, ZoneType, SamePassages, SamePlaces
<1>3. SamePassages(AfterObjectMoveFails(z, o, from), z) /\ SamePlaces(AfterObjectMoveFails(z, o, from), z)
  BY DEF AfterObjectMoveFails, ZoneType, SamePassages, SamePlaces
<1>4. SamePassages(AfterMoveSubcontainer(z, o, wear), z) /\ SamePlaces(AfterMoveSubcontainer(z, o, wear), z)
  BY DEF AfterMoveSubcontainer, ZoneType, SamePassages, SamePlaces
<1>5. SamePassages(AfterObjectsRelocate(z, O, to), z) /\ SamePlaces(AfterObjectsRelocate(z, O, to), z)
  BY DEF AfterObjectsRelocate, ZoneType, SamePassages, SamePlaces
<1>6. SamePassages(AfterObjectRemove(z, o), z) /\ SamePlaces(AfterObjectRemove(z, o), z)
  BY DEF AfterObjectRemove, ZoneType, SamePassages, SamePlaces
<1> QED  BY <1>1, <1>2, <1>3, <1>4, <1>5, <1>6

LEMMA ActorEventsFrame ==
  ASSUME NEW z \in ZoneType, NEW a \in Actor, NEW l \in Location,
         NEW from, NEW to, NEW A
  PROVE  /\ SamePassages(AfterActorAdd(z, a, l), z)
         /\ SamePassages(AfterActorMove(z, a, from, to), z)
         /\ SamePassages(AfterActorsRelocate(z, A, to), z)
         /\ SamePassages(AfterActorRemove(z, a), z)
<1>1. SamePassages(AfterActorAdd(z, a, l), z)
  BY DEF AfterActorAdd, ZoneType, SamePassages
<1>2. SamePassages(AfterActorMove(z, a, from, to), z)
  BY DEF AfterActorMove, ZoneType, SamePassages
<1>3. SamePassages(AfterActorsRelocate(z, A, to), z)
  BY DEF AfterActorsRelocate, ZoneType, SamePassages
<1>4. SamePassages(AfterActorRemove(z, a), z)
  BY DEF AfterActorRemove, ZoneType, SamePassages
<1> QED  BY <1>1, <1>2, <1>3, <1>4

LEMMA DamageFrame ==
  ASSUME NEW z \in ZoneType, NEW a \in Actor, NEW d
  PROVE  SamePassages(AfterDamage(z, a, d), z) /\ SamePlaces(AfterDamage(z, a, d), z)
BY DEF AfterDamage, ZoneType, SamePassages, SamePlaces

LEMMA ExitEventsFrame ==
  ASSUME NEW z \in ZoneType, NEW x \in Exit, NEW l, NEW d, NEW t, NEW X
  PROVE  /\ SamePlaces(AfterExitAdd(z, x, l, d, t), z)
         /\ SamePlaces(AfterExitUpdate(z, x, d, t), z)
         /\ SamePlaces(AfterExitsRemove(z, X), z)
<1>1. SamePlaces(AfterExitAdd(z, x, l, d, t), z)
  BY DEF AfterExitAdd, ZoneType, SamePlaces
<1>2. SamePlaces(AfterExitUpdate(z, x, d, t), z)
  BY DEF AfterExitUpdate, ZoneType, SamePlaces
<1>3. SamePlaces(AfterExitsRemove(z, X), z)
  BY DEF AfterExitsRemove, ZoneType, SamePlaces
<1> QED  BY <1>1, <1>2, <1>3

(* To the map of the place, a death is the removal of the Actor. *)
LEMMA DeathFrame ==
  ASSUME NEW z \in ZoneType, NEW a \in Actor, NEW k \in Corpse,
         NEW l \in Location, NEW O \in SUBSET Object
  PROVE  /\ SamePassages(AfterDeath(z, a, k, l, O), z)
         /\ \E y \in ZoneType : /\ SamePlaces(y, z)
                                /\ AfterDeath(z, a, k, l, O) = AfterActorRemove(y, a)
<1> DEFINE y == AfterObjectAdd(z, k, l)
           w == AfterObjectsRelocate(y, O, k)
<1>1. k \in Object /\ k \in Container  BY DEF Object, Container
<1>2. y \in ZoneType /\ SamePassages(y, z) /\ SamePlaces(y, z)
  BY <1>1, ObjectAddType, ObjectEventsFrame
<1> HIDE DEF y
<1>3. w \in ZoneType /\ SamePassages(w, y) /\ SamePlaces(w, y)
  BY <1>1, <1>2, ObjectsRelocateType, ObjectEventsFrame
<1> HIDE DEF w
<1>4. AfterDeath(z, a, k, l, O) = AfterActorRemove(w, a)
  BY DEF AfterDeath, y, w
<1>5. SamePassages(AfterActorRemove(w, a), w)
  BY <1>3, ActorEventsFrame
<1>6. SamePassages(AfterActorRemove(w, a), z)
  BY <1>2, <1>3, <1>5 DEF SamePassages
<1>7. SamePlaces(w, z)  BY <1>2, <1>3 DEF SamePlaces
<1> QED  BY <1>3, <1>4, <1>6, <1>7

-----------------------------------------------------------------------------
(* Induction, by the least number of which the claim would be false: the   *)
(* library states that the natural numbers are well founded.               *)
Before == {ss \in Nat \X Nat : ss[1] < ss[2]}

LEMMA Counting ==
  ASSUME NEW T, 0 \in T, \A k \in Nat : k \in T => k + 1 \in T
  PROVE  \A k \in Nat : k \in T
<1> DEFINE Bad == {k \in Nat : k \notin T}
<1> SUFFICES ASSUME Bad # {} PROVE FALSE
  OBVIOUS
<1>1. Bad \subseteq Nat
  OBVIOUS
<1> HIDE DEF Bad
<1>2. IsWellFoundedOn(Before, Nat)
  BY NatLessThanWellFounded DEF OpToRel, Before
<1>3. PICK m \in Bad : \A y \in Bad : <<y, m>> \notin Before
  BY <1>1, <1>2, WFMin
<1>4. m \in Nat /\ m \notin T /\ m # 0
  BY <1>3 DEF Bad
<1>5. m - 1 \in Nat /\ m - 1 < m /\ (m - 1) + 1 = m
  BY <1>4
<1>6. <<m - 1, m>> \in Before
  BY <1>4, <1>5 DEF Before
<1>7. m - 1 \notin Bad
  BY <1>3, <1>6
<1>8. m - 1 \in T
  BY <1>5, <1>7 DEF Bad
<1> QED  BY <1>4, <1>5, <1>8

-----------------------------------------------------------------------------
(* The walk up the containers *)

(* What the walk can come by. *)
OnTheWay == Container \cup {Nil}

LEMMA AboveType ==
  ASSUME NEW z \in ZoneType, NEW d \in OnTheWay
  PROVE  Above(z, d) \in OnTheWay
BY DEF Above, OnTheWay, ZoneType

(* h is the beginning of the walk up from c. *)
Climb(z, c, n, h) ==
    h \in [0..n -> OnTheWay] /\ h[0] = c /\ \A k \in 1..n : h[k] = Above(z, h[k-1])

LEMMA ClimbExists ==
  ASSUME NEW z \in ZoneType, NEW c \in OnTheWay
  PROVE  \A n \in Nat : \E h : Climb(z, c, n, h)
<1> DEFINE T == {n \in Nat : \E h : Climb(z, c, n, h)}
<1>1. 0 \in T
  <2> DEFINE h == [k \in 0..0 |-> c]
  <2>1. h \in [0..0 -> OnTheWay] /\ h[0] = c /\ \A k \in 1..0 : h[k] = Above(z, h[k-1])
    OBVIOUS
  <2> QED  BY <2>1 DEF Climb
<1>2. ASSUME NEW n \in Nat, n \in T PROVE n + 1 \in T
  <2>1. PICK h : Climb(z, c, n, h)
    BY <1>2
  <2> DEFINE g == [k \in 0..(n+1) |-> IF k = n + 1 THEN Above(z, h[n]) ELSE h[k]]
  <2>2. h \in [0..n -> OnTheWay] /\ h[0] = c /\ n \in 0..n /\ n + 1 \in Nat
    BY <2>1 DEF Climb
  <2>3. Above(z, h[n]) \in OnTheWay
    BY <2>2, AboveType
  <2>4. g \in [0..(n+1) -> OnTheWay]
    BY <2>2, <2>3
  <2>5. g[0] = c /\ (\A k \in 0..n : g[k] = h[k]) /\ g[n+1] = Above(z, h[n])
    BY <2>2
  <2> HIDE DEF g
  <2>6. ASSUME NEW k \in 1..(n+1) PROVE g[k] = Above(z, g[k-1])
    <3>1. CASE k = n + 1
      <4>1. k - 1 = n
        BY <3>1
      <4> QED  BY <2>2, <2>5, <3>1, <4>1
    <3>2. CASE k # n + 1
      <4>1. k \in 1..n /\ k \in 0..n /\ k - 1 \in 0..n
        BY <3>2
      <4>2. h[k] = Above(z, h[k-1])
        BY <2>1, <4>1 DEF Climb
      <4> QED  BY <2>5, <4>1, <4>2
    <3> QED  BY <3>1, <3>2
  <2>7. Climb(z, c, n + 1, g)
    BY <2>4, <2>5, <2>6 DEF Climb
  <2> QED  BY <2>2, <2>7
<1>3. \A n \in Nat : n \in T
  <2> HIDE DEF T
  <2> QED  BY <1>1, <1>2, Counting
<1> QED  BY <1>3

LEMMA ClimbsAgree ==
  ASSUME NEW z, NEW c, NEW n \in Nat, NEW g, NEW h,
         Climb(z, c, n, g), Climb(z, c, n + 1, h)
  PROVE  g[n] = h[n]
<1> DEFINE T == {k \in Nat : k \in 0..n => g[k] = h[k]}
<1>1. 0 \in T
  BY DEF Climb
<1>2. ASSUME NEW k \in Nat, k \in T PROVE k + 1 \in T
  <2> SUFFICES ASSUME k + 1 \in 0..n PROVE g[k+1] = h[k+1]
    OBVIOUS
  <2>1. k \in 0..n /\ k + 1 \in 1..n /\ k + 1 \in 1..(n+1) /\ (k + 1) - 1 = k
    OBVIOUS
  <2>2. g[k] = h[k]
    BY <1>2, <2>1
  <2>3. g[k+1] = Above(z, g[k])
    BY <2>1 DEF Climb
  <2>4. h[k+1] = Above(z, h[k])
    BY <2>1 DEF Climb
  <2> QED  BY <2>2, <2>3, <2>4
<1>3. \A k \in Nat : k \in T
  <2> HIDE DEF T
  <2> QED  BY <1>1, <1>2, Counting
<1> QED  BY <1>3

(* The walk up from c, step by step. *)
LEMMA UpSteps ==
  ASSUME NEW z \in ZoneType, NEW c \in OnTheWay
  PROVE  /\ Up(z, c, 0) = c
         /\ \A n \in Nat : /\ Up(z, c, n) \in OnTheWay
                           /\ Up(z, c, n + 1) = Above(z, Up(z, c, n))
<1> DEFINE h(n) == CHOOSE g : Climb(z, c, n, g)
           f == [n \in Nat |-> h(n)[n]]
           up == CHOOSE g : g = [k \in Nat |-> IF k = 0 THEN c ELSE Above(z, g[k-1])]
<1>1. \A n \in Nat : Climb(z, c, n, h(n))
  BY ClimbExists
<1> HIDE DEF h
<1>2. f[0] = c
  BY <1>1 DEF Climb
<1>3. ASSUME NEW n \in Nat PROVE f[n+1] = Above(z, f[n]) /\ f[n] \in OnTheWay
  <2>1. n + 1 \in Nat /\ n + 1 \in 1..(n+1) /\ (n + 1) - 1 = n /\ n \in 0..n
    OBVIOUS
  <2>2. Climb(z, c, n, h(n)) /\ Climb(z, c, n + 1, h(n+1))
    BY <1>1, <2>1
  <2>3. h(n)[n] = h(n+1)[n]
    BY <2>2, ClimbsAgree
  <2>4. h(n+1)[n+1] = Above(z, h(n+1)[n])
    BY <2>1, <2>2 DEF Climb
  <2>5. h(n)[n] \in OnTheWay
    BY <2>1, <2>2 DEF Climb
  <2>6. f[n] = h(n)[n] /\ f[n+1] = h(n+1)[n+1]
    BY <2>1
  <2> QED  BY <2>3, <2>4, <2>5, <2>6
<1>4. f = [k \in Nat |-> IF k = 0 THEN c ELSE Above(z, f[k-1])]
  <2>1. ASSUME NEW k \in Nat PROVE f[k] = IF k = 0 THEN c ELSE Above(z, f[k-1])
    <3>1. CASE k = 0
      BY <1>2, <3>1
    <3>2. CASE k # 0
      <4>1. k - 1 \in Nat /\ (k - 1) + 1 = k
        BY <3>2
      <4>2. f[(k-1)+1] = Above(z, f[k-1])
        BY <1>3, <4>1
      <4> HIDE DEF f
      <4> QED  BY <3>2, <4>1, <4>2
    <3> QED  BY <3>1, <3>2
  <2>2. f = [k \in Nat |-> f[k]]
    OBVIOUS
  <2> HIDE DEF f
  <2> QED  BY <2>1, <2>2
<1> HIDE DEF f
<1>5. up = [k \in Nat |-> IF k = 0 THEN c ELSE Above(z, up[k-1])]
  BY <1>4
<1> HIDE DEF up
<1>6. \A n \in Nat : Up(z, c, n) = up[n]
  BY DEF Up, up
<1>7. up[0] = c
  BY <1>5
<1>8. ASSUME NEW n \in Nat PROVE up[n+1] = Above(z, up[n])
  <2>1. n + 1 \in Nat /\ n + 1 # 0 /\ (n + 1) - 1 = n
    OBVIOUS
  <2>2. up[n+1] = IF n + 1 = 0 THEN c ELSE Above(z, up[(n+1)-1])
    BY <1>5, <2>1
  <2> QED  BY <2>1, <2>2
<1> DEFINE T == {n \in Nat : up[n] \in OnTheWay}
<1>9. 0 \in T
  BY <1>7
<1>10. ASSUME NEW n \in Nat, n \in T PROVE n + 1 \in T
  BY <1>8, <1>10, AboveType
<1>11. \A n \in Nat : n \in T
  <2> HIDE DEF T
  <2> QED  BY <1>9, <1>10, Counting
<1>12. \A n \in Nat : n + 1 \in Nat
  OBVIOUS
<1> QED  BY <1>6, <1>7, <1>8, <1>11, <1>12

(* The walk up from the next container is the rest of the walk. *)
LEMMA UpFromAbove ==
  ASSUME NEW z \in ZoneType, NEW c \in OnTheWay
  PROVE  \A n \in Nat : Up(z, Above(z, c), n) = Up(z, c, n + 1)
<1> DEFINE d == Above(z, c)
           T == {n \in Nat : Up(z, d, n) = Up(z, c, n + 1)}
<1>1. d \in OnTheWay
  BY AboveType
<1>2. 0 \in T
  BY <1>1, UpSteps
<1>3. ASSUME NEW n \in Nat, n \in T PROVE n + 1 \in T
  <2>1. Up(z, d, n) = Up(z, c, n + 1)
    BY <1>3
  <2>2. Up(z, d, n + 1) = Above(z, Up(z, d, n))
    BY <1>1, UpSteps
  <2>3. Up(z, c, (n + 1) + 1) = Above(z, Up(z, c, n + 1))
    BY UpSteps
  <2> QED  BY <2>1, <2>2, <2>3
<1> HIDE DEF d
<1>4. \A n \in Nat : n \in T
  <2> HIDE DEF T
  <2> QED  BY <1>2, <1>3, Counting
<1> QED  BY <1>4 DEF d

(* Where the walk leaves the Objects it ends. *)
LEMMA OutIsOut ==
  ASSUME NEW z \in ZoneType, NEW c \in OnTheWay, NEW n \in Nat, Up(z, c, n) \notin Object
  PROVE  \A k \in Nat : Up(z, c, n + k) = Up(z, c, n)
<1> DEFINE T == {k \in Nat : Up(z, c, n + k) = Up(z, c, n)}
<1>1. 0 \in T
  OBVIOUS
<1>2. ASSUME NEW k \in Nat, k \in T PROVE k + 1 \in T
  <2>1. n + k \in Nat /\ (n + k) + 1 = n + (k + 1)
    OBVIOUS
  <2>2. Up(z, c, (n + k) + 1) = Above(z, Up(z, c, n + k))
    BY <2>1, UpSteps
  <2>3. Up(z, c, n + k) = Up(z, c, n)
    BY <1>2
  <2>4. Above(z, Up(z, c, n)) = Up(z, c, n)
    BY DEF Above
  <2> QED  BY <2>1, <2>2, <2>3, <2>4
<1>3. \A k \in Nat : k \in T
  <2> HIDE DEF T
  <2> QED  BY <1>1, <1>2, Counting
<1> QED  BY <1>3

(* A walk that comes by the same container twice never ends. *)
LEMMA RoundIsForEver ==
  ASSUME NEW z \in ZoneType, NEW c \in OnTheWay, NEW i \in Nat, NEW j \in Nat, i < j,
         Up(z, c, i) = Up(z, c, j), \A k \in 0..j : Up(z, c, k) \in Object
  PROVE  \A k \in Nat : Up(z, c, k) \in Object
<1> DEFINE T == {k \in Nat : \E m \in 0..j : Up(z, c, k) = Up(z, c, m)}
<1>1. 0 \in T
  OBVIOUS
<1>2. ASSUME NEW k \in Nat, k \in T PROVE k + 1 \in T
  <2>1. PICK m \in 0..j : Up(z, c, k) = Up(z, c, m)
    BY <1>2
  <2>2. \E m2 \in 0..(j-1) : Up(z, c, k) = Up(z, c, m2)
    <3>1. CASE m = j
      BY <2>1, <3>1
    <3>2. CASE m # j
      BY <2>1, <3>2
    <3> QED  BY <3>1, <3>2
  <2>3. PICK m2 \in 0..(j-1) : Up(z, c, k) = Up(z, c, m2)
    BY <2>2
  <2>4. m2 \in Nat /\ m2 + 1 \in 0..j
    OBVIOUS
  <2>5. Up(z, c, k + 1) = Up(z, c, m2 + 1)
    BY <2>3, <2>4, UpSteps
  <2> QED  BY <2>4, <2>5
<1>3. \A k \in Nat : k \in T
  <2> HIDE DEF T
  <2> QED  BY <1>1, <1>2, Counting
<1> QED  BY <1>3

(* Top looks up as many containers as there are Objects, and one more;     *)
(* Object.Location() goes on as long as it finds an Object.  That is the   *)
(* same: where the walk ends, however long it is, is Top, and when Top is  *)
(* still an Object the walk comes by one container twice and has no end.   *)
THEOREM TopIsDeepEnough ==
  ASSUME NEW z \in ZoneType, NEW c \in Container
  PROVE  /\ \A n \in Nat : Up(z, c, n) \notin Object => Top(z, c) = Up(z, c, n)
         /\ Top(z, c) \in Object =>
                \E i, j \in Nat : i < j /\ Up(z, c, i) = Up(z, c, j)
<1> DEFINE N == Cardinality(Object)
<1>1. N \in Nat /\ IsFiniteSet(Object)
  BY ConstantsAssumption, FS_CardinalityType
<1>c. c \in OnTheWay
  BY DEF OnTheWay
<1> HIDE DEF N
<1>2. Top(z, c) = Up(z, c, N + 1)
  BY DEF Top, N
<1>3. ASSUME Top(z, c) \in Object
      PROVE  /\ \E i, j \in Nat : i < j /\ Up(z, c, i) = Up(z, c, j)
             /\ \A k \in Nat : Up(z, c, k) \in Object
  <2>1. ASSUME NEW k \in 0..(N+1) PROVE Up(z, c, k) \in Object
    <3> SUFFICES ASSUME Up(z, c, k) \notin Object PROVE FALSE
      OBVIOUS
    <3>1. k \in Nat /\ (N + 1) - k \in Nat /\ k + ((N + 1) - k) = N + 1
      BY <1>1
    <3>2. Up(z, c, k + ((N + 1) - k)) = Up(z, c, k)
      BY <1>c, <3>1, OutIsOut
    <3> QED  BY <1>2, <1>3, <3>1, <3>2
  <2> DEFINE f == [k \in 0..N |-> Up(z, c, k)]
  <2>2. f \in [0..N -> Object]
    BY <1>1, <2>1
  <2>3. IsFiniteSet(0..N) /\ Cardinality(0..N) = N + 1
    BY <1>1, FS_Interval
  <2>4. Cardinality(Object) < Cardinality(0..N)
    BY <1>1, <2>3 DEF N
  <2> HIDE DEF f
  <2>5. PICK x, y \in 0..N : x # y /\ f[x] = f[y]
    BY <1>1, <2>2, <2>3, <2>4, FS_PigeonHole
  <2>6. x \in Nat /\ y \in Nat /\ Up(z, c, x) = Up(z, c, y)
    BY <1>1, <2>5 DEF f
  <2>7. \E i, j \in 0..N : i < j /\ Up(z, c, i) = Up(z, c, j)
    <3>1. CASE x < y
      BY <2>6, <3>1
    <3>2. CASE y < x
      BY <2>6, <3>2
    <3> QED  BY <1>1, <2>5, <3>1, <3>2
  <2>8. PICK i, j \in 0..N : i < j /\ Up(z, c, i) = Up(z, c, j)
    BY <2>7
  <2>9. i \in Nat /\ j \in Nat /\ 0..j \subseteq 0..(N+1)
    BY <1>1
  <2>10. \A k \in 0..j : Up(z, c, k) \in Object
    BY <2>1, <2>9
  <2>11. \A k \in Nat : Up(z, c, k) \in Object
    BY <1>c, <2>8, <2>9, <2>10, RoundIsForEver
  <2> QED  BY <2>8, <2>9, <2>11
<1>4. ASSUME NEW n \in Nat, Up(z, c, n) \notin Object PROVE Top(z, c) = Up(z, c, n)
  <2>1. Up(z, c, N + 1) \notin Object
    BY <1>2, <1>3, <1>4
  <2>2. N + 1 \in Nat
    BY <1>1
  <2>3. CASE n <= N + 1
    <3>1. (N + 1) - n \in Nat /\ n + ((N + 1) - n) = N + 1
      BY <1>1, <2>3
    <3> QED  BY <1>c, <1>2, <1>4, <3>1, OutIsOut
  <2>4. CASE ~(n <= N + 1)
    <3>1. n - (N + 1) \in Nat /\ (N + 1) + (n - (N + 1)) = n
      BY <1>1, <2>4
    <3>2. Up(z, c, (N + 1) + (n - (N + 1))) = Up(z, c, N + 1)
      BY <1>c, <2>1, <2>2, <3>1, OutIsOut
    <3> QED  BY <1>2, <3>1, <3>2
  <2> QED  BY <2>3, <2>4
<1> QED  BY <1>3, <1>4

(* What is in something that has a place has a place. *)
LEMMA LocatedBelow ==
  ASSUME NEW z \in ZoneType, NEW o \in Object, Located(z, z.cont[o])
  PROVE  Located(z, o)
<1> DEFINE N == Cardinality(Object)
<1>1. N \in Nat
  BY ConstantsAssumption, FS_CardinalityType
<1>2. o \in Container /\ o \in OnTheWay /\ Above(z, o) = z.cont[o]
  BY DEF Container, OnTheWay, Above
<1>3. Top(z, z.cont[o]) = Up(z, o, (N + 1) + 1)
  <2>1. N + 1 \in Nat
    BY <1>1
  <2>2. Up(z, z.cont[o], N + 1) = Up(z, o, (N + 1) + 1)
    BY <1>2, <2>1, UpFromAbove
  <2> QED  BY <2>2 DEF Top
<1>4. (N + 1) + 1 \in Nat
  BY <1>1
<1>5. Up(z, o, (N + 1) + 1) \in Location \cup Actor
  BY <1>3 DEF Located
<1>6. Up(z, o, (N + 1) + 1) \notin Object
  BY <1>5, ConstantsAssumption
<1>7. Top(z, o) = Up(z, o, (N + 1) + 1)
  BY <1>2, <1>4, <1>6, TopIsDeepEnough
<1> QED  BY <1>5, <1>7 DEF Located

(* A Location or an Actor is where the walk from it ends. *)
LEMMA LocatedOutside ==
  ASSUME NEW z \in ZoneType, NEW c \in Location \cup Actor
  PROVE  Located(z, c)
<1>1. c \in Container /\ c \in OnTheWay /\ c \notin Object
  BY ConstantsAssumption DEF Container, OnTheWay
<1>2. Up(z, c, 0) = c
  BY <1>1, UpSteps
<1>3. Top(z, c) = c
  BY <1>1, <1>2, TopIsDeepEnough
<1> QED  BY <1>3 DEF Located

(* An Object keeps its place when all that it is in, itself included,      *)
(* either stays in what it was in or has a place in the end.               *)
LEMMA StaysLocated ==
  ASSUME NEW y \in ZoneType, NEW z \in ZoneType, NEW o \in Object, Located(y, o),
         \A b \in WayUp(y, o) \cap Object : z.cont[b] = y.cont[b] \/ Located(z, b)
  PROVE  Located(z, o)
<1> DEFINE N == Cardinality(Object)
<1>1. N \in Nat
  BY ConstantsAssumption, FS_CardinalityType
<1>2. o \in Container /\ o \in OnTheWay
  BY DEF Container, OnTheWay
<1>3. WayUp(y, o) = {Up(y, o, k) : k \in 0..(N + 1)} /\ Top(y, o) = Up(y, o, N + 1)
  BY DEF WayUp, Top
<1> HIDE DEF N
<1> SUFFICES ASSUME ~Located(z, o) PROVE FALSE
  OBVIOUS
<1> DEFINE T == {k \in Nat : k \in 0..(N + 1) => ~Located(z, Up(y, o, k))}
<1>4. 0 \in T
  BY <1>2, UpSteps
<1>5. ASSUME NEW k \in Nat, k \in T PROVE k + 1 \in T
  <2> SUFFICES ASSUME k + 1 \in 0..(N + 1) PROVE ~Located(z, Up(y, o, k + 1))
    OBVIOUS
  <2> DEFINE b == Up(y, o, k)
  <2>1. k \in 0..(N + 1)
    BY <1>1
  <2>2. ~Located(z, b) /\ b \in WayUp(y, o)
    BY <1>3, <1>5, <2>1
  <2>3. Up(y, o, k + 1) = Above(y, b)
    BY <1>2, UpSteps
  <2> HIDE DEF b
  <2>4. CASE b \in Object
    <3>1. z.cont[b] = y.cont[b]
      BY <2>2, <2>4
    <3>2. ~Located(z, z.cont[b])
      BY <2>2, <2>4, LocatedBelow
    <3> QED  BY <2>3, <2>4, <3>1, <3>2 DEF Above
  <2>5. CASE b \notin Object
    BY <2>2, <2>3, <2>5 DEF Above
  <2> QED  BY <2>4, <2>5
<1>6. \A k \in Nat : k \in T
  <2> HIDE DEF T
  <2> QED  BY <1>4, <1>5, Counting
<1>7. N + 1 \in Nat /\ N + 1 \in 0..(N + 1)
  BY <1>1
<1>8. ~Located(z, Top(y, o))
  BY <1>3, <1>6, <1>7
<1>9. Top(y, o) \in Location \cup Actor
  BY DEF Located
<1> QED  BY <1>8, <1>9, LocatedOutside
=============================================================================
