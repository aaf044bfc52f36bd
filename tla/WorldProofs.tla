------------------------------ MODULE WorldProofs ------------------------------
(***************************************************************************)
(* The World hands Actors over as module Handover says, and loses none of  *)
(* their Objects, for any number of Zones, Locations, Actors and Objects.  *)
(***************************************************************************)
EXTENDS World, ZoneStateProofs, SequenceTheorems, FiniteSetTheorems, WellFoundedInduction

-----------------------------------------------------------------------------
(* A set of numbers that has 0, and the next of each, has all of them. *)

Less == {ss \in Nat \X Nat : ss[1] < ss[2]}

LEMMA Along ==
  ASSUME NEW N \in Nat, NEW T, T \subseteq 0..N, 0 \in T,
         \A n \in 1..N : n - 1 \in T => n \in T
  PROVE  T = 0..N
<1> DEFINE Bad == (0..N) \ T
<1> SUFFICES ASSUME Bad # {} PROVE FALSE
  OBVIOUS
<1>1. IsWellFoundedOn(Less, Nat)
  BY NatLessThanWellFounded DEF OpToRel, Less
<1>2. Bad \subseteq Nat
  OBVIOUS
<1>3. PICK m \in Bad : \A y \in Bad : <<y, m>> \notin Less
  <2> HIDE DEF Bad
  <2> QED  BY <1>1, <1>2, WFMin
<1>4. m \in 1..N /\ m - 1 \in 0..N /\ m - 1 < m
  OBVIOUS
<1>5. m - 1 \notin Bad
  <2>1. <<m - 1, m>> \in Less
    BY <1>4 DEF Less
  <2> HIDE DEF Bad
  <2> QED  BY <1>3, <2>1
<1> QED  BY <1>4, <1>5

-----------------------------------------------------------------------------
(* What an Actor carries *)

LEMMA ObjectCount == Cardinality(Object) \in Nat
BY ConstantsAssumption, FS_CardinalityType

LevelBody(z, c, f, n) == IF n = 0 THEN z.holds[c] ELSE UNION {z.holds[o] : o \in f[n-1]}

LEMMA LevelExists ==
  ASSUME NEW z, NEW c, NEW N \in Nat
  PROVE  \E f : f = [n \in 0..N |-> LevelBody(z, c, f, n)]
<1> DEFINE Upto(m) == \E f : f = [n \in 0..m |-> LevelBody(z, c, f, n)]
           T == {m \in 0..N : Upto(m)}
<1>1. Upto(0)
  <2> DEFINE f == [n \in 0..0 |-> z.holds[c]]
  <2>1. f = [n \in 0..0 |-> LevelBody(z, c, f, n)]
    BY DEF LevelBody
  <2> QED  BY <2>1
<1>2. ASSUME NEW m \in 1..N, Upto(m - 1) PROVE Upto(m)
  <2>1. PICK f : f = [n \in 0..(m-1) |-> LevelBody(z, c, f, n)]
    BY <1>2
  <2> DEFINE g == [n \in 0..m |-> IF n = m THEN LevelBody(z, c, f, m) ELSE f[n]]
  <2>2. \A n \in 0..(m-1) : g[n] = f[n]
    OBVIOUS
  <2>3. ASSUME NEW n \in 0..m PROVE g[n] = LevelBody(z, c, f, n)
    <3>1. CASE n = m
      BY <3>1
    <3>2. CASE n # m
      <4>1. n \in 0..(m-1) /\ g[n] = f[n]
        BY <3>2
      <4> HIDE DEF g
      <4> QED  BY <2>1, <4>1
    <3> QED  BY <3>1, <3>2
  <2> HIDE DEF g
  <2>4. ASSUME NEW n \in 0..m PROVE LevelBody(z, c, f, n) = LevelBody(z, c, g, n)
    <3>1. n # 0 => n - 1 \in 0..(m-1)
      OBVIOUS
    <3>2. n # 0 => f[n-1] = g[n-1]
      BY <2>2, <3>1
    <3> QED  BY <3>2 DEF LevelBody
  <2>5. g = [n \in 0..m |-> g[n]]
    BY DEF g
  <2>6. g = [n \in 0..m |-> LevelBody(z, c, g, n)]
    BY <2>3, <2>4, <2>5
  <2> QED  BY <2>6
<1> HIDE DEF Upto
<1>3. T = 0..N
  <2>1. 0 \in T /\ T \subseteq 0..N
    BY <1>1
  <2>2. \A n \in 1..N : n - 1 \in T => n \in T
    BY <1>2
  <2> HIDE DEF T
  <2> QED  BY <2>1, <2>2, Along
<1>4. Upto(N)
  BY <1>3
<1> QED  BY <1>4 DEF Upto

(* Whatever is found in a Container, at any depth, is in somebody's list. *)
LEMMA ContentsHeld ==
  ASSUME NEW z \in ZoneType, NEW c \in Container, NEW o \in Contents(z, c)
  PROVE  Holder(z, o) \in Container /\ o \in z.holds[Holder(z, o)]
<1> DEFINE N == Cardinality(Object)
           level == CHOOSE f : f = [n \in 0..N |-> LevelBody(z, c, f, n)]
<1>1. N \in Nat
  BY ObjectCount
<1>2. level = [n \in 0..N |-> LevelBody(z, c, level, n)]
  <2> HIDE DEF N
  <2> QED  BY <1>1, LevelExists
<1>3. Contents(z, c) = z.holds[c] \cup {x \in z.objs : \E n \in 1..N : x \in level[n]}
  BY DEF Contents, LevelBody
<1> HIDE DEF N, level
<1>4. z.holds \in [Container -> SUBSET Object]
  BY DEF ZoneType
<1>5. Object \subseteq Container
  BY DEF Container
<1>6. \A n \in 0..N : level[n] \subseteq Object
  <2> DEFINE T == {n \in 0..N : level[n] \subseteq Object}
  <2>1. 0 \in T
    BY <1>1, <1>2, <1>4 DEF LevelBody
  <2>2. ASSUME NEW n \in 1..N, n - 1 \in T PROVE n \in T
    <3>1. n \in 0..N /\ n # 0 /\ level[n-1] \subseteq Container
      BY <1>1, <1>5, <2>2
    <3>2. level[n] = UNION {z.holds[x] : x \in level[n-1]}
      BY <1>2, <3>1 DEF LevelBody
    <3> QED  BY <1>4, <3>1, <3>2
  <2>3. T = 0..N
    <3>1. T \subseteq 0..N
      OBVIOUS
    <3> HIDE DEF T
    <3> QED  BY <1>1, <2>1, <2>2, <3>1, Along
  <2> QED  BY <2>3
<1>7. \E k \in Container : o \in z.holds[k]
  <2>1. CASE o \in z.holds[c]
    BY <2>1
  <2>2. ASSUME NEW n \in 1..N, o \in level[n] PROVE \E k \in Container : o \in z.holds[k]
    <3>1. n \in 0..N /\ n # 0 /\ n - 1 \in 0..N
      BY <1>1
    <3>2. level[n] = UNION {z.holds[x] : x \in level[n-1]}
      BY <1>2, <3>1 DEF LevelBody
    <3> QED  BY <1>5, <1>6, <2>2, <3>1, <3>2
  <2> QED  BY <1>3, <2>1, <2>2
<1> QED  BY <1>7 DEF Holder

LEMMA CarriedType ==
  ASSUME NEW z \in ZoneType, NEW a \in Actor
  PROVE  /\ Carried(z, a) \in Seq(Contents(z, a))
         /\ Contents(z, a) \subseteq Object
<1> DEFINE S == Contents(z, a)
           orders == SetToSeqs(S)
           BagsFirst(s) == \A i, j \in DOMAIN s : s[i] \in z.holds[s[j]] => j < i
<1>1. S \subseteq Object
  BY ContentsType DEF Container
<1>2. IsFiniteSet(S)
  BY <1>1, ConstantsAssumption, FS_Subset
<1> HIDE DEF S
<1>3. Cardinality(S) \in Nat /\ ExistsBijection(1..Cardinality(S), S)
  BY <1>2, FS_CardinalityType
<1>4. orders # {}
  <2>1. PICK f : f \in Bijection(1..Cardinality(S), S)
    BY <1>3 DEF ExistsBijection
  <2>2. f \in orders
    BY <2>1 DEF Bijection, Injection, IsInjective, SetToSeqs
  <2> QED  BY <2>2
<1>5. \A s \in orders : s \in Seq(S)
  BY <1>3, SeqDef DEF SetToSeqs
<1>6. Carried(z, a) = CHOOSE s \in orders : (\E t \in orders : BagsFirst(t)) => BagsFirst(s)
  BY DEF Carried, S
<1> HIDE DEF orders, BagsFirst
<1>7. \E s \in orders : (\E t \in orders : BagsFirst(t)) => BagsFirst(s)
  BY <1>4
<1>8. Carried(z, a) \in orders
  BY <1>6, <1>7
<1> QED  BY <1>1, <1>5, <1>8 DEF S

-----------------------------------------------------------------------------
(* Events, and what a list of them does to a Zone *)

LEMMA EventFacts ==
  ASSUME NEW e \in Event
  PROVE  /\ e.kind \in {"actorIn", "objectIn", "objectOut", "actorOut", "death",
                        "actorRemove", "objectMove", "objectAdd", "relocate"}
         /\ e.kind = "actorIn" => e.actor \in Actor /\ e.hp \in 0..MaxHp /\ e.loc \in Location
         /\ e.kind = "objectIn" => e.obj \in Object /\ e.in \in Container /\ e.worn \in BOOLEAN
         /\ e.kind = "objectOut" => e.obj \in Object
         /\ e.kind \in {"actorOut", "death", "actorRemove"} => e.actor \in Actor
         /\ e.kind = "objectMove" => e.obj \in Object /\ e.from \in Container /\ e.to \in Container
         /\ e.kind = "objectAdd" => e.obj \in Object /\ e.loc \in Location
         /\ e.kind = "relocate" => e.obj \in Object /\ e.to \in Object
BY DEF Event

LEMMA ApplyType ==
  ASSUME NEW z \in ZoneType, NEW e \in Event
  PROVE  Apply(z, e) \in ZoneType
<1>1. CASE e.kind = "actorIn"
  BY <1>1, EventFacts, ActorMigrateInType DEF Apply
<1>2. CASE e.kind = "objectIn"
  BY <1>2, EventFacts, ObjectMigrateInType DEF Apply
<1>3. CASE e.kind = "objectOut"
  BY <1>3, EventFacts, ObjectRemoveType DEF Apply, AfterObjectMigrateOut
<1>4. CASE e.kind = "actorOut"
  BY <1>4, EventFacts, ActorMigrateOutType DEF Apply
<1>5. CASE e.kind = "death"
  <2>1. e.actor \in Actor /\ 0 \in 0..MaxHp
    BY <1>5, EventFacts, ConstantsAssumption
  <2>2. Apply(z, e) = [z EXCEPT !.hp[e.actor] = 0]
    BY <1>5 DEF Apply
  <2>3. ASSUME NEW a \in Actor PROVE [z EXCEPT !.hp[a] = 0] \in ZoneType
    BY <2>1 DEF ZoneType
  <2> QED  BY <2>1, <2>2, <2>3
<1>6. CASE e.kind = "actorRemove"
  BY <1>6, EventFacts, ActorRemoveType DEF Apply
<1>7. CASE e.kind = "objectMove"
  BY <1>7, EventFacts, ObjectMoveType DEF Apply
<1>8. CASE e.kind = "objectAdd"
  BY <1>8, EventFacts, ObjectAddType DEF Apply
<1>9. CASE e.kind = "relocate"
  <2>1. e.obj \in Object /\ e.to \in Container /\ {e.obj} \in SUBSET Object
    BY <1>9, EventFacts DEF Container
  <2>2. Apply(z, e) = AfterObjectsRelocate(z, {e.obj}, e.to)
    BY <1>9 DEF Apply
  <2> QED  BY <2>1, <2>2, ObjectsRelocateType
<1> QED  BY <1>1, <1>2, <1>3, <1>4, <1>5, <1>6, <1>7, <1>8, <1>9, EventFacts

(* An Actor comes with one kind of event and goes with two. *)
Comes(e) == e.kind = "actorIn"
Goes(e)  == e.kind \in {"actorOut", "actorRemove"}

LEMMA ApplyActors ==
  ASSUME NEW z \in ZoneType, NEW e \in Event
  PROVE  /\ Comes(e) => Apply(z, e).actors = z.actors \cup {e.actor}
         /\ Goes(e) => Apply(z, e).actors = z.actors \ {e.actor}
         /\ ~Comes(e) /\ ~Goes(e) => Apply(z, e).actors = z.actors
<1>1. CASE e.kind = "actorIn"
  <2>1. Apply(z, e) = AfterActorMigrateIn(z, e.actor, e.hp, e.loc)
    BY <1>1 DEF Apply
  <2>2. AfterActorMigrateIn(z, e.actor, e.hp, e.loc).actors = z.actors \cup {e.actor}
    BY DEF AfterActorMigrateIn, ZoneType
  <2> QED  BY <1>1, <2>1, <2>2 DEF Comes, Goes
<1>2. CASE e.kind = "objectIn"
  <2>1. Apply(z, e) = AfterObjectMigrateIn(z, e.obj, e.in, e.worn)
    BY <1>2 DEF Apply
  <2>2. AfterObjectMigrateIn(z, e.obj, e.in, e.worn).actors = z.actors
    BY DEF AfterObjectMigrateIn, ZoneType
  <2> QED  BY <1>2, <2>1, <2>2 DEF Comes, Goes
<1>3. CASE e.kind = "objectOut"
  <2>1. Apply(z, e) = AfterObjectRemove(z, e.obj)
    BY <1>3 DEF Apply, AfterObjectMigrateOut
  <2>2. AfterObjectRemove(z, e.obj).actors = z.actors
    BY DEF AfterObjectRemove, ZoneType
  <2> QED  BY <1>3, <2>1, <2>2 DEF Comes, Goes
<1>4. CASE e.kind = "actorOut"
  <2>1. Apply(z, e) = AfterActorMigrateOut(z, e.actor)
    BY <1>4 DEF Apply
  <2>2. AfterActorMigrateOut(z, e.actor).actors = z.actors \ {e.actor}
    BY DEF AfterActorMigrateOut, ZoneType
  <2> QED  BY <1>4, <2>1, <2>2 DEF Comes, Goes
<1>5. CASE e.kind = "death"
  <2>1. Apply(z, e) = [z EXCEPT !.hp[e.actor] = 0]
    BY <1>5 DEF Apply
  <2>2. [z EXCEPT !.hp[e.actor] = 0].actors = z.actors
    BY DEF ZoneType
  <2> QED  BY <1>5, <2>1, <2>2 DEF Comes, Goes
<1>6. CASE e.kind = "actorRemove"
  <2>1. Apply(z, e) = AfterActorRemove(z, e.actor)
    BY <1>6 DEF Apply
  <2>2. AfterActorRemove(z, e.actor).actors = z.actors \ {e.actor}
    BY DEF AfterActorRemove, ZoneType
  <2> QED  BY <1>6, <2>1, <2>2 DEF Comes, Goes
<1>7. CASE e.kind = "objectMove"
  <2>1. Apply(z, e) = AfterObjectMove(z, e.obj, e.from, e.to)
    BY <1>7 DEF Apply
  <2>2. AfterObjectMove(z, e.obj, e.from, e.to).actors = z.actors
    BY DEF AfterObjectMove, ZoneType
  <2> QED  BY <1>7, <2>1, <2>2 DEF Comes, Goes
<1>8. CASE e.kind = "objectAdd"
  <2>1. Apply(z, e) = AfterObjectAdd(z, e.obj, e.loc)
    BY <1>8 DEF Apply
  <2>2. AfterObjectAdd(z, e.obj, e.loc).actors = z.actors
    BY DEF AfterObjectAdd, ZoneType
  <2> QED  BY <1>8, <2>1, <2>2 DEF Comes, Goes
<1>9. CASE e.kind = "relocate"
  <2>1. Apply(z, e) = AfterObjectsRelocate(z, {e.obj}, e.to)
    BY <1>9 DEF Apply
  <2>2. AfterObjectsRelocate(z, {e.obj}, e.to).actors = z.actors
    BY DEF AfterObjectsRelocate, ZoneType
  <2> QED  BY <1>9, <2>1, <2>2 DEF Comes, Goes
<1> QED  BY <1>1, <1>2, <1>3, <1>4, <1>5, <1>6, <1>7, <1>8, <1>9, EventFacts

AfterBody(z, events, f, n) == IF n = 0 THEN z ELSE Apply(f[n-1], events[n])

LEMMA AfterExists ==
  ASSUME NEW z, NEW events, NEW N \in Nat
  PROVE  \E f : f = [n \in 0..N |-> AfterBody(z, events, f, n)]
<1> DEFINE Upto(m) == \E f : f = [n \in 0..m |-> AfterBody(z, events, f, n)]
           T == {m \in 0..N : Upto(m)}
<1>1. Upto(0)
  <2> DEFINE f == [n \in 0..0 |-> z]
  <2>1. f = [n \in 0..0 |-> AfterBody(z, events, f, n)]
    BY DEF AfterBody
  <2> QED  BY <2>1
<1>2. ASSUME NEW m \in 1..N, Upto(m - 1) PROVE Upto(m)
  <2>1. PICK f : f = [n \in 0..(m-1) |-> AfterBody(z, events, f, n)]
    BY <1>2
  <2> DEFINE g == [n \in 0..m |-> IF n = m THEN AfterBody(z, events, f, m) ELSE f[n]]
  <2>2. \A n \in 0..(m-1) : g[n] = f[n]
    OBVIOUS
  <2>3. ASSUME NEW n \in 0..m PROVE g[n] = AfterBody(z, events, f, n)
    <3>1. CASE n = m
      BY <3>1
    <3>2. CASE n # m
      <4>1. n \in 0..(m-1) /\ g[n] = f[n]
        BY <3>2
      <4> HIDE DEF g
      <4> QED  BY <2>1, <4>1
    <3> QED  BY <3>1, <3>2
  <2> HIDE DEF g
  <2>4. ASSUME NEW n \in 0..m PROVE AfterBody(z, events, f, n) = AfterBody(z, events, g, n)
    <3>1. n # 0 => n - 1 \in 0..(m-1)
      OBVIOUS
    <3>2. n # 0 => f[n-1] = g[n-1]
      BY <2>2, <3>1
    <3> QED  BY <3>2 DEF AfterBody
  <2>5. g = [n \in 0..m |-> g[n]]
    BY DEF g
  <2>6. g = [n \in 0..m |-> AfterBody(z, events, g, n)]
    BY <2>3, <2>4, <2>5
  <2> QED  BY <2>6
<1> HIDE DEF Upto
<1>3. T = 0..N
  <2>1. 0 \in T /\ T \subseteq 0..N
    BY <1>1
  <2>2. \A n \in 1..N : n - 1 \in T => n \in T
    BY <1>2
  <2> HIDE DEF T
  <2> QED  BY <2>1, <2>2, Along
<1>4. Upto(N)
  BY <1>3
<1> QED  BY <1>4 DEF Upto

(* Through which Zones a list of events leads. *)
Leads(z, events, h) ==
    /\ h[0] = z
    /\ \A n \in 1..Len(events) : h[n] = Apply(h[n-1], events[n])
    /\ \A n \in 0..Len(events) : h[n] \in ZoneType
    /\ AfterAll(z, events) = h[Len(events)]

LEMMA AfterAllLeads ==
  ASSUME NEW z \in ZoneType, NEW events \in Seq(Event)
  PROVE  \E h : Leads(z, events, h)
<1> DEFINE N == Len(events)
           h == CHOOSE f : f = [n \in 0..N |-> AfterBody(z, events, f, n)]
<1>1. N \in Nat /\ \A n \in 1..N : events[n] \in Event
  BY LenProperties, ElementOfSeq
<1>2. h = [n \in 0..N |-> AfterBody(z, events, h, n)]
  <2> HIDE DEF N
  <2> QED  BY <1>1, AfterExists
<1>3. AfterAll(z, events) = h[N]
  BY DEF AfterAll, AfterBody
<1> HIDE DEF N, h
<1>4. h[0] = z
  BY <1>1, <1>2 DEF AfterBody
<1>5. ASSUME NEW n \in 1..N PROVE h[n] = Apply(h[n-1], events[n])
  <2>1. n \in 0..N /\ n # 0
    BY <1>1
  <2> QED  BY <1>2, <2>1 DEF AfterBody
<1>6. \A n \in 0..N : h[n] \in ZoneType
  <2> DEFINE T == {n \in 0..N : h[n] \in ZoneType}
  <2>1. 0 \in T /\ T \subseteq 0..N
    BY <1>1, <1>4
  <2>2. ASSUME NEW n \in 1..N, n - 1 \in T PROVE n \in T
    BY <1>1, <1>5, <2>2, ApplyType
  <2> HIDE DEF T
  <2>3. T = 0..N
    BY <1>1, <2>1, <2>2, Along
  <2> QED  BY <2>3 DEF T
<1>7. Leads(z, events, h)
  BY <1>3, <1>4, <1>5, <1>6 DEF Leads, N
<1> QED  BY <1>7

(* Events about Objects and wounds leave it open who is there. *)
LEMMA NobodyMoves ==
  ASSUME NEW z \in ZoneType, NEW events \in Seq(Event), NEW h, Leads(z, events, h),
         NEW i \in 0..Len(events), NEW k \in i..Len(events),
         \A n \in (i+1)..k : ~Comes(events[n]) /\ ~Goes(events[n])
  PROVE  h[k].actors = h[i].actors
<1> DEFINE N == Len(events)
           T == {n \in 0..(k-i) : h[i + n].actors = h[i].actors}
<1>1. N \in Nat /\ \A n \in 1..N : events[n] \in Event
  BY LenProperties, ElementOfSeq
<1>2. /\ \A n \in 1..N : h[n] = Apply(h[n-1], events[n])
      /\ \A n \in 0..N : h[n] \in ZoneType
  BY DEF Leads
<1>3. i \in 0..N /\ k \in i..N /\ k - i \in Nat /\ i + 0 = i /\ i + (k - i) = k
  BY <1>1
<1> HIDE DEF N
<1>4. 0 \in T /\ T \subseteq 0..(k-i)
  BY <1>3
<1>5. ASSUME NEW n \in 1..(k-i), n - 1 \in T PROVE n \in T
  <2>1. /\ i + n \in 1..N /\ i + n \in (i+1)..k /\ (i + n) - 1 = i + (n - 1)
        /\ i + (n - 1) \in 0..N /\ n \in 0..(k-i)
    BY <1>1, <1>3
  <2>2. h[i + n] = Apply(h[i + (n-1)], events[i + n])
    BY <1>2, <2>1
  <2>3. h[i + n].actors = h[i + (n-1)].actors
    BY <1>1, <1>2, <2>1, <2>2, ApplyActors
  <2>4. h[i + (n-1)].actors = h[i].actors
    BY <1>5
  <2> QED  BY <2>1, <2>3, <2>4
<1> HIDE DEF T
<1>6. T = 0..(k-i)
  BY <1>3, <1>4, <1>5, Along
<1>7. k - i \in T
  BY <1>3, <1>6
<1> QED  BY <1>3, <1>7 DEF T

-----------------------------------------------------------------------------
(* The lists the World and the Zones make *)

Quiet(events) == \A n \in 1..Len(events) : ~Comes(events[n]) /\ ~Goes(events[n])

LEMMA OneEvent ==
  ASSUME NEW e \in Event
  PROVE  <<e>> \in Seq(Event) /\ Len(<<e>>) = 1 /\ <<e>>[1] = e
OBVIOUS

LEMMA EntryActors ==
  ASSUME NEW z \in ZoneType, NEW e \in Event, NEW q \in Seq(Event), Quiet(q), Comes(e)
  PROVE  /\ <<e>> \o q \in Seq(Event) /\ <<e>> \o q # <<>> /\ Head(<<e>> \o q) = e
         /\ \A n \in 1..Len(<<e>> \o q) : /\ ~Goes((<<e>> \o q)[n])
                                          /\ Comes((<<e>> \o q)[n]) => (<<e>> \o q)[n] = e
         /\ AfterAll(z, <<e>> \o q) \in ZoneType
         /\ AfterAll(z, <<e>> \o q).actors = z.actors \cup {e.actor}
<1> DEFINE w == <<e>> \o q
           N == Len(w)
<1>1. /\ w \in Seq(Event) /\ N = 1 + Len(q) /\ Len(q) \in Nat
      /\ \A n \in 1..N : w[n] = IF n <= 1 THEN e ELSE q[n - 1]
  BY OneEvent, ConcatProperties, LenProperties
<1> HIDE DEF w
<1>2. N \in Nat /\ 1 \in 1..N /\ w[1] = e /\ N \in 1..N
  BY <1>1
<1>3. w # <<>> /\ Head(w) = w[1]
  BY <1>1, <1>2
<1>4. ASSUME NEW n \in 2..N PROVE ~Comes(w[n]) /\ ~Goes(w[n])
  <2>1. n \in 1..N /\ ~(n <= 1) /\ n - 1 \in 1..Len(q)
    BY <1>1
  <2>2. w[n] = q[n - 1]
    BY <1>1, <2>1
  <2> QED  BY <2>1, <2>2 DEF Quiet
<1>5. ~Goes(e)
  BY DEF Comes, Goes
<1>6. ASSUME NEW n \in 1..N PROVE ~Goes(w[n]) /\ (Comes(w[n]) => w[n] = e)
  <2>1. CASE n = 1
    BY <1>2, <1>5, <2>1
  <2>2. CASE n \in 2..N
    BY <1>4, <2>2
  <2> QED  BY <1>2, <2>1, <2>2
<1>7. PICK h : Leads(z, w, h)
  BY <1>1, AfterAllLeads
<1>8. h[1] = Apply(z, e) /\ h[N] \in ZoneType /\ AfterAll(z, w) = h[N]
  <2>1. h[1] = Apply(h[0], w[1]) /\ h[0] = z
    BY <1>2, <1>7 DEF Leads
  <2>2. N \in 0..N
    BY <1>2
  <2> QED  BY <1>2, <1>7, <2>1, <2>2 DEF Leads
<1>9. h[N].actors = h[1].actors
  <2>1. 1 \in 0..N /\ N \in 1..N /\ 1 + 1 = 2
    BY <1>2
  <2> QED  BY <1>1, <1>4, <1>7, <2>1, NobodyMoves
<1>10. h[1].actors = z.actors \cup {e.actor}
  BY <1>8, ApplyActors
<1> QED  BY <1>1, <1>2, <1>3, <1>6, <1>8, <1>9, <1>10 DEF w

LEMMA ExitActors ==
  ASSUME NEW z \in ZoneType, NEW e \in Event, NEW q \in Seq(Event), Quiet(q), Goes(e)
  PROVE  /\ q \o <<e>> \in Seq(Event)
         /\ \A n \in 1..Len(q \o <<e>>) : /\ ~Comes((q \o <<e>>)[n])
                                          /\ Goes((q \o <<e>>)[n]) => (q \o <<e>>)[n] = e
         /\ AfterAll(z, q \o <<e>>) \in ZoneType
         /\ AfterAll(z, q \o <<e>>).actors = z.actors \ {e.actor}
<1> DEFINE w == q \o <<e>>
           N == Len(w)
           K == Len(q)
<1>1. /\ w \in Seq(Event) /\ N = K + 1 /\ K \in Nat
      /\ \A n \in 1..N : w[n] = IF n <= K THEN q[n] ELSE <<e>>[n - K]
  BY OneEvent, ConcatProperties, LenProperties
<1> HIDE DEF w, N, K
<1>2. N \in Nat /\ N - 1 = K /\ N \in 1..N /\ K \in 0..N /\ w[N] = e
  <2>1. N \in 1..N /\ ~(N <= K) /\ N - K = 1
    BY <1>1
  <2>2. w[N] = <<e>>[1]
    BY <1>1, <2>1
  <2> QED  BY <1>1, <2>2
<1>4. ASSUME NEW n \in 1..K PROVE ~Comes(w[n]) /\ ~Goes(w[n])
  <2>1. n \in 1..N /\ n <= K
    BY <1>1
  <2>2. w[n] = q[n]
    BY <1>1, <2>1
  <2> QED  BY <2>1, <2>2 DEF Quiet, K
<1>5. ~Comes(e)
  BY DEF Comes, Goes
<1>6. ASSUME NEW n \in 1..N PROVE ~Comes(w[n]) /\ (Goes(w[n]) => w[n] = e)
  <2>1. CASE n = N
    BY <1>2, <1>5, <2>1
  <2>2. CASE n \in 1..K
    BY <1>4, <2>2
  <2> QED  BY <1>1, <2>1, <2>2
<1>7. PICK h : Leads(z, w, h)
  BY <1>1, AfterAllLeads
<1>8. h[0] = z /\ h[N] = Apply(h[K], e) /\ h[K] \in ZoneType /\ h[N] \in ZoneType /\ AfterAll(z, w) = h[N]
  <2>1. N \in 1..Len(w) /\ N \in 0..Len(w) /\ K \in 0..Len(w) /\ Len(w) = N
    BY <1>2 DEF N
  <2>2. h[N] = Apply(h[N-1], w[N])
    BY <1>7, <2>1 DEF Leads
  <2> QED  BY <1>2, <1>7, <2>1, <2>2 DEF Leads
<1>9. h[K].actors = h[0].actors
  <2>1. 0 \in 0..Len(w) /\ K \in 0..Len(w) /\ 0 + 1 = 1
    BY <1>1, <1>2 DEF N
  <2> QED  BY <1>1, <1>4, <1>7, <2>1, NobodyMoves
<1>10. h[N].actors = h[K].actors \ {e.actor}
  BY <1>8, ApplyActors
<1> QED  BY <1>1, <1>6, <1>8, <1>9, <1>10 DEF w, N

(* A list made of another, one event for one Object. *)
LEMMA OneForOne ==
  ASSUME NEW S, NEW objs \in Seq(S), NEW X, NEW f,
         f = [i \in DOMAIN objs |-> f[i]], \A i \in DOMAIN objs : f[i] \in X
  PROVE  f \in Seq(X) /\ DOMAIN f = 1..Len(f)
<1>1. Len(objs) \in Nat /\ DOMAIN objs = 1..Len(objs)
  BY LenProperties
<1>2. f \in [1..Len(objs) -> X]
  BY <1>1
<1>3. f \in Seq(X)
  BY <1>1, <1>2, SeqDef
<1> QED  BY <1>3, LenProperties

LEMMA MigrateInList ==
  ASSUME NEW z \in ZoneType, NEW a \in Actor, NEW l \in Location
  PROVE  \E e \in Event, q \in Seq(Event) :
             MigrateInEvents(z, a, l) = <<e>> \o q /\ Comes(e) /\ e.actor = a /\ Quiet(q)
<1> DEFINE objs == Carried(z, a)
           e == [kind |-> "actorIn", actor |-> a, hp |-> z.hp[a], loc |-> l]
           q == [i \in DOMAIN objs |->
                   [kind |-> "objectIn", obj |-> objs[i], in |-> Holder(z, objs[i]),
                    worn |-> objs[i] \in z.worn]]
<1>1. objs \in Seq(Contents(z, a)) /\ Contents(z, a) \subseteq Object
  BY CarriedType
<1>2. \A i \in DOMAIN objs : objs[i] \in Contents(z, a) /\ objs[i] \in Object
  BY <1>1, LenProperties, ElementOfSeq
<1>3. MigrateInEvents(z, a, l) = <<e>> \o q
  BY DEF MigrateInEvents
<1>4. e \in Event /\ Comes(e) /\ e.actor = a
  BY DEF Event, ZoneType, Comes
<1> HIDE DEF objs
<1>5. ASSUME NEW i \in DOMAIN objs PROVE q[i] \in Event /\ q[i].kind = "objectIn"
  <2>1. Holder(z, objs[i]) \in Container
    BY <1>2, ContentsHeld DEF Container
  <2> QED  BY <1>2, <2>1 DEF Event
<1>6. q = [i \in DOMAIN objs |-> q[i]]
  OBVIOUS
<1> HIDE DEF e, q
<1>7. q \in Seq(Event) /\ DOMAIN q = 1..Len(q) /\ DOMAIN q = DOMAIN objs
  BY <1>1, <1>5, <1>6, OneForOne
<1>8. Quiet(q)
  BY <1>5, <1>7 DEF Quiet, Comes, Goes
<1> QED  BY <1>3, <1>4, <1>7, <1>8

LEMMA MigrateOutList ==
  ASSUME NEW z \in ZoneType, NEW a \in Actor
  PROVE  \E e \in Event, q \in Seq(Event) :
             MigrateOutEvents(z, a) = q \o <<e>> /\ Goes(e) /\ e.actor = a /\ Quiet(q)
<1> DEFINE objs == Carried(z, a)
           e == [kind |-> "actorOut", actor |-> a]
           q == [i \in DOMAIN objs |-> [kind |-> "objectOut", obj |-> objs[i]]]
<1>1. objs \in Seq(Contents(z, a)) /\ Contents(z, a) \subseteq Object
  BY CarriedType
<1>2. \A i \in DOMAIN objs : objs[i] \in Object
  BY <1>1, LenProperties, ElementOfSeq
<1>3. MigrateOutEvents(z, a) = q \o <<e>>
  BY DEF MigrateOutEvents
<1>4. e \in Event /\ Goes(e) /\ e.actor = a
  BY DEF Event, Goes
<1> HIDE DEF objs
<1>5. \A i \in DOMAIN objs : q[i] \in Event /\ q[i].kind = "objectOut"
  BY <1>2 DEF Event
<1>6. q = [i \in DOMAIN objs |-> q[i]]
  OBVIOUS
<1> HIDE DEF e, q
<1>7. q \in Seq(Event) /\ DOMAIN q = 1..Len(q) /\ DOMAIN q = DOMAIN objs
  BY <1>1, <1>5, <1>6, OneForOne
<1>8. Quiet(q)
  BY <1>5, <1>7 DEF Quiet, Comes, Goes
<1> QED  BY <1>3, <1>4, <1>7, <1>8

LEMMA DeathList ==
  ASSUME NEW z \in ZoneType, NEW a \in Actor, z.at[a] \in Location, NEW k \in Corpse
  PROVE  \E e \in Event, q \in Seq(Event) :
             DeathEvents(z, a, k) = q \o <<e>> /\ Goes(e) /\ e.actor = a /\ Quiet(q)
<1> DEFINE objs == Carried(z, a)
           d == [kind |-> "death", actor |-> a]
           c == [kind |-> "objectAdd", obj |-> k, loc |-> z.at[a]]
           r == [i \in DOMAIN objs |-> [kind |-> "relocate", obj |-> objs[i], to |-> k]]
           e == [kind |-> "actorRemove", actor |-> a]
           p == <<d, c>>
<1>1. objs \in Seq(Contents(z, a)) /\ Contents(z, a) \subseteq Object
  BY CarriedType
<1>2. (\A i \in DOMAIN objs : objs[i] \in Object) /\ k \in Object
  BY <1>1, LenProperties, ElementOfSeq DEF Object
<1>3. DeathEvents(z, a, k) = p \o r \o <<e>>
  BY DEF DeathEvents
<1>4. /\ e \in Event /\ Goes(e) /\ e.actor = a
      /\ d \in Event /\ c \in Event
      /\ d.kind = "death" /\ c.kind = "objectAdd"
  BY <1>2 DEF Event, Goes
<1> HIDE DEF objs
<1>5. \A i \in DOMAIN objs : r[i] \in Event /\ r[i].kind = "relocate"
  BY <1>2 DEF Event
<1>6. r = [i \in DOMAIN objs |-> r[i]]
  OBVIOUS
<1> HIDE DEF e, r, c, d
<1>7. r \in Seq(Event) /\ DOMAIN r = 1..Len(r) /\ DOMAIN r = DOMAIN objs /\ Len(r) \in Nat
  BY <1>1, <1>5, <1>6, OneForOne, LenProperties
<1>8. p \in Seq(Event) /\ Len(p) = 2 /\ p[1] = d /\ p[2] = c
  BY <1>4
<1> HIDE DEF p
<1> DEFINE q == p \o r
<1>9. /\ q \in Seq(Event) /\ Len(q) = 2 + Len(r)
      /\ \A n \in 1..(2 + Len(r)) : q[n] = IF n <= 2 THEN p[n] ELSE r[n - 2]
  <2>1. /\ q \in Seq(Event) /\ Len(q) = Len(p) + Len(r)
        /\ \A n \in 1..(Len(p) + Len(r)) :
               q[n] = IF n <= Len(p) THEN p[n] ELSE r[n - Len(p)]
    BY <1>7, <1>8, ConcatProperties
  <2> HIDE DEF q
  <2> QED  BY <1>8, <2>1
<1> HIDE DEF q
<1>10. ASSUME NEW n \in 1..Len(q) PROVE q[n].kind \in {"death", "objectAdd", "relocate"}
  <2>1. CASE n \in {1, 2}
    <3>1. q[n] = p[n]
      BY <1>7, <1>9, <2>1
    <3> QED  BY <1>4, <1>8, <2>1, <3>1
  <2>2. CASE n \in 3..Len(q)
    <3>1. n - 2 \in 1..Len(r) /\ ~(n <= 2)
      BY <1>7, <1>9, <2>2
    <3>2. q[n] = r[n - 2]
      BY <1>9, <3>1
    <3> QED  BY <1>5, <1>7, <3>1, <3>2
  <2> QED  BY <1>7, <1>9, <2>1, <2>2
<1>11. Quiet(q)
  BY <1>10 DEF Quiet, Comes, Goes
<1> QED  BY <1>3, <1>4, <1>9, <1>11 DEF q

-----------------------------------------------------------------------------
(* The invariant.  The events still to be persisted agree with who is      *)
(* there, since a Zone that has any takes no other command; a migration    *)
(* leads to another Zone; and as long as the new Zone works on it the      *)
(* Actor is there, in its log too or about to be written to it.            *)

Agreed ==
    \A z \in ZoneId : \A n \in 1..Len(writing[z]) :
        /\ Comes(writing[z][n]) => writing[z][n].actor \in zone[z].actors
        /\ Goes(writing[z][n]) => writing[z][n].actor \notin zone[z].actors

Underway ==
    /\ \A a \in Actor : asked[a] # Nil => asked[a].src # asked[a].dst
    /\ serving # Nil => asked[serving.actor] # Nil

Arriving ==
    serving # Nil /\ serving.stage = "in" =>
        LET a == serving.actor
            d == asked[a].dst
        IN  /\ a \in zone[d].actors /\ writing[d] # <<>>
            /\ \/ a \in disk[d].actors
               \/ Comes(Head(writing[d])) /\ Head(writing[d]).actor = a

WorldInv == TypeOK /\ Agreed /\ Underway /\ Arriving

LEMMA LoadedType ==
  ASSUME NEW z \in ZoneId
  PROVE  Loaded(z) \in ZoneType
<1> DEFINE L == {l \in Location : Land[l] = z}
           A == {a \in Actor : Home[a] \in L}
           O == {o \in Item : (IF Lies[o] \in Item THEN Lies[Lies[o]] ELSE Lies[o]) \in L}
           at == [a \in Actor |-> IF a \in A THEN Home[a] ELSE Nil]
           here == [l \in Location |-> {a \in A : Home[a] = l}]
           hp == [a \in Actor |-> IF a \in A THEN MaxHp ELSE 0]
           cont == [o \in Object |-> IF o \in O THEN Lies[o] ELSE Nil]
           holds == [c \in Container |-> {o \in O : Lies[o] = c}]
<1>1. L \in SUBSET Location /\ A \in SUBSET Actor /\ O \in SUBSET Object
  BY DEF Object
<1>2. at \in [Actor -> Location \cup {Nil}] /\ here \in [Location -> SUBSET Actor]
  BY WorldAssumption
<1>3. hp \in [Actor -> 0..MaxHp]
  BY ConstantsAssumption
<1>4. cont \in [Object -> Container \cup {Nil}] /\ holds \in [Container -> SUBSET Object]
  <2>1. \A o \in O : Lies[o] \in Container
    BY WorldAssumption DEF Container, Object
  <2> QED  BY <1>1, <2>1
<1>5. Loaded(z) = [EmptyZone EXCEPT !.locs = L, !.actors = A, !.at = at, !.here = here,
                     !.hp = hp, !.objs = O, !.cont = cont, !.holds = holds]
  BY DEF Loaded
<1> HIDE DEF L, A, O, at, here, hp, cont, holds
<1> DEFINE land   == [EmptyZone EXCEPT !.locs = L, !.actors = A, !.objs = O]
           people == [land EXCEPT !.at = at, !.here = here, !.hp = hp]
<1>6. Loaded(z) = [people EXCEPT !.cont = cont, !.holds = holds]
  BY <1>5
<1>7. land \in ZoneType
  BY <1>1, EmptyZoneType DEF ZoneType
<1> HIDE DEF land
<1>8. people \in ZoneType
  BY <1>2, <1>3, <1>7 DEF ZoneType
<1> HIDE DEF people
<1> QED  BY <1>4, <1>6, <1>8 DEF ZoneType

LEMMA WorldInit == Init => WorldInv
<1> SUFFICES ASSUME Init PROVE WorldInv
  OBVIOUS
<1>1. /\ zone \in [ZoneId -> ZoneType] /\ disk = zone
      /\ writing = [z \in ZoneId |-> <<>>] /\ asked = [a \in Actor |-> Nil]
      /\ serving = Nil /\ crashed = FALSE /\ dead = {}
  BY LoadedType DEF Init
<1>2. writing \in [ZoneId -> Seq(Event)] /\ \A z \in ZoneId : Len(writing[z]) = 0
  BY <1>1, EmptySeq
<1>3. TypeOK
  BY <1>1, <1>2 DEF TypeOK
<1>4. Agreed
  BY <1>2 DEF Agreed
<1>5. Underway /\ Arriving
  BY <1>1 DEF Underway, Arriving
<1> QED  BY <1>3, <1>4, <1>5 DEF WorldInv

LEMMA JourneyFacts ==
  ASSUME TypeOK
  PROVE  /\ \A a \in Actor : asked[a] # Nil =>
              /\ asked[a] \in Journey
              /\ asked[a].src \in ZoneId /\ asked[a].dst \in ZoneId /\ asked[a].to \in Location
         /\ serving # Nil => serving.actor \in Actor /\ serving.stage \in {"in", "copied", "out"}
BY DEF TypeOK, Journey, Errand

(* A Zone runs a command that makes the events w and leaves the Actors A. *)
Runs(z, w, A) ==
    /\ writing[z] = <<>>
    /\ zone' \in [ZoneId -> ZoneType]
    /\ writing' \in [ZoneId -> Seq(Event)]
    /\ zone'[z].actors = A /\ writing'[z] = w
    /\ \A y \in ZoneId \ {z} : zone'[y] = zone[y] /\ writing'[y] = writing[y]
    /\ \A n \in 1..Len(w) : /\ Comes(w[n]) => w[n].actor \in A
                            /\ Goes(w[n]) => w[n].actor \notin A

LEMMA HandleRuns ==
  ASSUME TypeOK, NEW z \in ZoneId, NEW w \in Seq(Event), Handle(z, w),
         AfterAll(zone[z], w) \in ZoneType,
         NEW A, AfterAll(zone[z], w).actors = A,
         \A n \in 1..Len(w) : /\ Comes(w[n]) => w[n].actor \in A
                              /\ Goes(w[n]) => w[n].actor \notin A
  PROVE  Runs(z, w, A) /\ disk' = disk
<1>1. /\ zone \in [ZoneId -> ZoneType] /\ writing \in [ZoneId -> Seq(Event)]
      /\ zone' = [zone EXCEPT ![z] = AfterAll(zone[z], w)]
      /\ writing' = [writing EXCEPT ![z] = w] /\ writing[z] = <<>> /\ disk' = disk
  BY DEF TypeOK, Handle
<1>2. zone' \in [ZoneId -> ZoneType] /\ writing' \in [ZoneId -> Seq(Event)]
  BY <1>1
<1>3. /\ zone'[z] = AfterAll(zone[z], w) /\ writing'[z] = w
      /\ \A y \in ZoneId \ {z} : zone'[y] = zone[y] /\ writing'[y] = writing[y]
  BY <1>1
<1> QED  BY <1>1, <1>2, <1>3 DEF Runs

LEMMA MigrateInRuns ==
  ASSUME TypeOK, NEW a \in Actor, MigrateIn(a)
  PROVE  \E w \in Seq(Event) :
             /\ Runs(asked[a].dst, w, zone[asked[a].dst].actors \cup {a}) /\ disk' = disk
             /\ w # <<>> /\ Comes(Head(w)) /\ Head(w).actor = a
<1> DEFINE s == asked[a].src
           d == asked[a].dst
           l == asked[a].to
           w == MigrateInEvents(zone[s], a, l)
<1>1. s \in ZoneId /\ d \in ZoneId /\ l \in Location /\ Handle(d, w)
  BY JourneyFacts DEF MigrateIn
<1> HIDE DEF s, l, d
<1>2. zone[s] \in ZoneType /\ zone[d] \in ZoneType
  BY <1>1 DEF TypeOK
<1>3. PICK e \in Event, q \in Seq(Event) :
          w = <<e>> \o q /\ Comes(e) /\ e.actor = a /\ Quiet(q)
  BY <1>1, <1>2, MigrateInList
<1> HIDE DEF w
<1>4. /\ w \in Seq(Event) /\ w # <<>> /\ Head(w) = e
      /\ \A n \in 1..Len(w) : ~Goes(w[n]) /\ (Comes(w[n]) => w[n] = e)
      /\ AfterAll(zone[d], w) \in ZoneType
      /\ AfterAll(zone[d], w).actors = zone[d].actors \cup {a}
  BY <1>2, <1>3, EntryActors
<1>5. Runs(d, w, zone[d].actors \cup {a}) /\ disk' = disk
  <2> DEFINE A == zone[d].actors \cup {a}
  <2>1. \A n \in 1..Len(w) : /\ Comes(w[n]) => w[n].actor \in A
                             /\ Goes(w[n]) => w[n].actor \notin A
    BY <1>3, <1>4
  <2>2. AfterAll(zone[d], w).actors = A
    BY <1>4
  <2> HIDE DEF A
  <2>3. Runs(d, w, A) /\ disk' = disk
    BY <1>1, <1>4, <2>1, <2>2, HandleRuns
  <2> QED  BY <2>3 DEF A
<1> QED  BY <1>3, <1>4, <1>5 DEF d

LEMMA LeaveRuns ==
  ASSUME TypeOK, NEW z \in ZoneId, NEW a \in Actor, NEW e \in Event, NEW q \in Seq(Event),
         Handle(z, q \o <<e>>), Goes(e), e.actor = a, Quiet(q)
  PROVE  Runs(z, q \o <<e>>, zone[z].actors \ {a}) /\ disk' = disk
<1> DEFINE w == q \o <<e>>
           A == zone[z].actors \ {a}
<1>1. zone[z] \in ZoneType
  BY DEF TypeOK
<1>2. /\ w \in Seq(Event)
      /\ \A n \in 1..Len(w) : ~Comes(w[n]) /\ (Goes(w[n]) => w[n] = e)
      /\ AfterAll(zone[z], w) \in ZoneType
      /\ AfterAll(zone[z], w).actors = A
  BY <1>1, ExitActors
<1>3. Handle(z, w) /\ a \notin A
  OBVIOUS
<1> HIDE DEF w, A
<1>4. Runs(z, w, A) /\ disk' = disk
  BY <1>2, <1>3, HandleRuns
<1> QED  BY <1>4 DEF w, A

LEMMA MigrateOutRuns ==
  ASSUME TypeOK, Underway, MigrateOut
  PROVE  LET a == serving.actor
             z == asked[a].src
         IN  /\ \E w : Runs(z, w, zone[z].actors \ {a})
             /\ disk' = disk /\ a \in Actor /\ z \in ZoneId /\ a \in zone[z].actors
<1> DEFINE a == serving.actor
           z == asked[a].src
<1>1. a \in Actor /\ z \in ZoneId /\ a \in zone[z].actors /\ Handle(z, MigrateOutEvents(zone[z], a))
  BY JourneyFacts DEF MigrateOut, Underway
<1> HIDE DEF a, z
<1>2. zone[z] \in ZoneType
  BY <1>1 DEF TypeOK
<1>3. PICK e \in Event, q \in Seq(Event) :
          MigrateOutEvents(zone[z], a) = q \o <<e>> /\ Goes(e) /\ e.actor = a /\ Quiet(q)
  BY <1>1, <1>2, MigrateOutList
<1>4. Runs(z, q \o <<e>>, zone[z].actors \ {a}) /\ disk' = disk
  BY <1>1, <1>3, LeaveRuns
<1> QED  BY <1>1, <1>4 DEF a, z

LEMMA DieRuns ==
  ASSUME TypeOK, NEW z \in ZoneId, NEW a \in Actor, NEW k \in Corpse, Die(z, a, k)
  PROVE  (\E w : Runs(z, w, zone[z].actors \ {a})) /\ disk' = disk
<1>1. zone[z] \in ZoneType
  BY DEF TypeOK
<1>2. zone[z].at[a] \in Location
  BY <1>1 DEF Die, ZoneType
<1>3. PICK e \in Event, q \in Seq(Event) :
          DeathEvents(zone[z], a, k) = q \o <<e>> /\ Goes(e) /\ e.actor = a /\ Quiet(q)
  BY <1>1, <1>2, DeathList
<1>4. Handle(z, q \o <<e>>)
  BY <1>3 DEF Die
<1> QED  BY <1>3, <1>4, LeaveRuns

LEMMA MoveRuns ==
  ASSUME TypeOK, NEW z \in ZoneId, NEW who, NEW from \in Container, NEW to \in Container,
         NEW o \in zone[z].holds[from], MoveObject(z, who, o, from, to)
  PROVE  (\E w : Runs(z, w, zone[z].actors)) /\ disk' = disk
<1> DEFINE e == [kind |-> "objectMove", obj |-> o, from |-> from, to |-> to]
           w == <<e>>
<1>1. zone[z] \in ZoneType
  BY DEF TypeOK
<1>2. o \in Object
  BY <1>1 DEF ZoneType
<1>3. e \in Event /\ ~Comes(e) /\ ~Goes(e)
  BY <1>2 DEF Event, Comes, Goes
<1>4. Handle(z, w)
  BY DEF MoveObject
<1> HIDE DEF e
<1>5. w \in Seq(Event) /\ Len(w) = 1 /\ w[1] = e
  BY <1>3, OneEvent
<1> HIDE DEF w
<1>6. PICK h : Leads(zone[z], w, h)
  BY <1>1, <1>5, AfterAllLeads
<1>7. /\ h[0] = zone[z] /\ h[1] \in ZoneType /\ AfterAll(zone[z], w) = h[1]
      /\ h[1].actors = h[0].actors
  <2>1. 0 \in 0..Len(w) /\ 1 \in 0..Len(w) /\ \A n \in (0+1)..1 : n = 1
    BY <1>5
  <2>2. h[1].actors = h[0].actors
    BY <1>1, <1>3, <1>5, <1>6, <2>1, NobodyMoves
  <2> QED  BY <1>5, <1>6, <2>1, <2>2 DEF Leads
<1>8. \A n \in 1..Len(w) : ~Comes(w[n]) /\ ~Goes(w[n])
  BY <1>3, <1>5
<1> QED  BY <1>4, <1>5, <1>7, <1>8, HandleRuns

LEMMA RunsAgree ==
  ASSUME Agreed, NEW z \in ZoneId, NEW w, NEW A, Runs(z, w, A)
  PROVE  Agreed'
<1> SUFFICES ASSUME NEW y \in ZoneId, NEW n \in 1..Len(writing'[y])
             PROVE  /\ Comes(writing'[y][n]) => writing'[y][n].actor \in zone'[y].actors
                    /\ Goes(writing'[y][n]) => writing'[y][n].actor \notin zone'[y].actors
  BY DEF Agreed, Comes, Goes
<1>1. CASE y = z
  BY <1>1 DEF Runs
<1>2. CASE y # z
  <2>1. zone'[y] = zone[y] /\ writing'[y] = writing[y]
    BY <1>2 DEF Runs
  <2> QED  BY <2>1 DEF Agreed
<1> QED  BY <1>1, <1>2

(* A Zone persists its next event. *)
Persists(z) ==
    LET e == Head(writing[z])
    IN  /\ writing[z] # <<>> /\ e \in Event
        /\ disk' \in [ZoneId -> ZoneType] /\ writing' \in [ZoneId -> Seq(Event)]
        /\ Comes(e) => /\ e.actor \in zone[z].actors
                       /\ disk'[z].actors = disk[z].actors \cup {e.actor}
        /\ Goes(e) => /\ e.actor \notin zone[z].actors
                      /\ disk'[z].actors = disk[z].actors \ {e.actor}
        /\ ~Comes(e) /\ ~Goes(e) => disk'[z].actors = disk[z].actors
        /\ writing'[z] = Tail(writing[z])
        /\ \A y \in ZoneId \ {z} : disk'[y] = disk[y] /\ writing'[y] = writing[y]

LEMMA PersistPersists ==
  ASSUME TypeOK, Agreed, NEW z \in ZoneId, Persist(z)
  PROVE  Persists(z) /\ Agreed'
<1> DEFINE w == writing[z]
           e == Head(w)
<1>1. /\ w \in Seq(Event) /\ w # <<>> /\ zone' = zone
      /\ disk' = [disk EXCEPT ![z] = Apply(disk[z], e)]
      /\ writing' = [writing EXCEPT ![z] = Tail(w)]
  BY DEF Persist, TypeOK
<1>2. disk[z] \in ZoneType /\ disk \in [ZoneId -> ZoneType] /\ writing \in [ZoneId -> Seq(Event)]
  BY DEF TypeOK
<1>3. \A n \in 1..Len(w) : /\ Comes(w[n]) => w[n].actor \in zone[z].actors
                           /\ Goes(w[n]) => w[n].actor \notin zone[z].actors
  BY DEF Agreed
<1>4. e = w[1] /\ 1 \in 1..Len(w)
  <2> HIDE DEF w
  <2> QED  BY <1>1, EmptySeq
<1> HIDE DEF w
<1>5. /\ e \in Event /\ Tail(w) \in Seq(Event) /\ Len(Tail(w)) = Len(w) - 1 /\ Len(w) \in Nat
      /\ \A n \in 1..Len(Tail(w)) : Tail(w)[n] = w[n+1]
  BY <1>1, HeadTailProperties, LenProperties
<1> HIDE DEF e
<1>6. Apply(disk[z], e) \in ZoneType
  BY <1>2, <1>5, ApplyType
<1>7. disk' \in [ZoneId -> ZoneType] /\ writing' \in [ZoneId -> Seq(Event)]
  BY <1>1, <1>2, <1>5, <1>6
<1>8. /\ disk'[z] = Apply(disk[z], e) /\ writing'[z] = Tail(w)
      /\ \A y \in ZoneId \ {z} : disk'[y] = disk[y] /\ writing'[y] = writing[y]
  BY <1>1, <1>2
<1>9. /\ Comes(e) => e.actor \in zone[z].actors
      /\ Goes(e) => e.actor \notin zone[z].actors
  BY <1>3, <1>4
<1>10. /\ Comes(e) => disk'[z].actors = disk[z].actors \cup {e.actor}
       /\ Goes(e) => disk'[z].actors = disk[z].actors \ {e.actor}
       /\ ~Comes(e) /\ ~Goes(e) => disk'[z].actors = disk[z].actors
  BY <1>2, <1>5, <1>8, ApplyActors
<1>11. Persists(z)
  BY <1>1, <1>5, <1>7, <1>8, <1>9, <1>10 DEF Persists, w, e
<1>12. Agreed'
  <2> SUFFICES ASSUME NEW y \in ZoneId, NEW n \in 1..Len(writing'[y])
               PROVE  /\ Comes(writing'[y][n]) => writing'[y][n].actor \in zone[y].actors
                      /\ Goes(writing'[y][n]) => writing'[y][n].actor \notin zone[y].actors
    BY <1>1 DEF Agreed, Comes, Goes
  <2>1. CASE y = z
    <3>1. n \in 1..Len(Tail(w)) /\ writing'[y] = Tail(w)
      BY <1>8, <2>1
    <3>2. n + 1 \in 1..Len(w) /\ Tail(w)[n] = w[n+1]
      BY <1>5, <3>1
    <3> QED  BY <1>3, <2>1, <3>1, <3>2
  <2>2. CASE y # z
    <3>1. writing'[y] = writing[y]
      BY <1>8, <2>2
    <3> QED  BY <3>1 DEF Agreed
  <2> QED  BY <2>1, <2>2
<1> QED  BY <1>11, <1>12

-----------------------------------------------------------------------------
(* The steps *)

LEMMA AskStep ==
  ASSUME WorldInv, NEW a \in Actor, NEW z \in ZoneId, NEW l \in Location, Ask(a, z, l)
  PROVE  WorldInv' /\ (serving # Nil => asked'[serving.actor] = asked[serving.actor])
<1> DEFINE j == [src |-> z, dst |-> Land[l], to |-> l]
<1>1. /\ asked[a] = Nil /\ Land[l] # z /\ asked' = [asked EXCEPT ![a] = j]
      /\ UNCHANGED <<zone, disk, writing, serving, crashed, dead>>
  BY DEF Ask
<1>2. j \in Journey /\ j.src = z /\ j.dst = Land[l]
  BY WorldAssumption DEF Journey
<1> HIDE DEF j
<1>3. asked \in [Actor -> Journey \cup {Nil}]
  BY DEF WorldInv, TypeOK
<1>4. asked' \in [Actor -> Journey \cup {Nil}]
  BY <1>1, <1>2, <1>3
<1>5. TypeOK'
  BY <1>1, <1>4 DEF WorldInv, TypeOK
<1>6. \A b \in Actor : asked'[b] = IF b = a THEN j ELSE asked[b]
  BY <1>1, <1>3
<1>7. serving # Nil => serving.actor \in Actor /\ serving.actor # a
  BY <1>1, JourneyFacts DEF WorldInv, Underway
<1>8. serving # Nil => asked'[serving.actor] = asked[serving.actor]
  BY <1>6, <1>7
<1>9. Underway'
  BY <1>1, <1>2, <1>6, <1>8 DEF WorldInv, Underway
<1>10. Agreed'
  BY <1>1 DEF WorldInv, Agreed
<1>11. Arriving'
  BY <1>1, <1>8 DEF WorldInv, Arriving
<1> QED  BY <1>5, <1>8, <1>9, <1>10, <1>11 DEF WorldInv

(* What the migration under way needs is not disturbed by a command in     *)
(* another Zone, or in one that has nothing to persist.                    *)
LEMMA ArrivingUndisturbed ==
  ASSUME WorldInv, NEW z \in ZoneId, NEW w, NEW A, Runs(z, w, A), disk' = disk,
         asked' = asked, serving' = serving
  PROVE  Arriving'
<1> SUFFICES ASSUME serving # Nil, serving.stage = "in"
             PROVE  LET a == serving.actor
                        d == asked[a].dst
                    IN  /\ a \in zone'[d].actors /\ writing'[d] # <<>>
                        /\ \/ a \in disk[d].actors
                           \/ Comes(Head(writing'[d])) /\ Head(writing'[d]).actor = a
  BY DEF Arriving, Comes
<1> DEFINE a == serving.actor
           d == asked[a].dst
<1>1. a \in Actor /\ d \in ZoneId
  BY JourneyFacts DEF WorldInv, Underway
<1>2. /\ a \in zone[d].actors /\ writing[d] # <<>>
      /\ \/ a \in disk[d].actors
         \/ Comes(Head(writing[d])) /\ Head(writing[d]).actor = a
  BY DEF WorldInv, Arriving
<1> HIDE DEF a, d
<1>3. d # z
  BY <1>2 DEF Runs
<1>4. zone'[d] = zone[d] /\ writing'[d] = writing[d]
  BY <1>1, <1>3 DEF Runs
<1> QED  BY <1>2, <1>4 DEF a, d

LEMMA QuietRunStep ==
  ASSUME WorldInv, NEW z \in ZoneId, NEW w, NEW A, Runs(z, w, A), disk' = disk,
         UNCHANGED <<asked, serving, crashed>>, dead' \subseteq Actor
  PROVE  WorldInv'
<1>1. TypeOK'
  BY DEF WorldInv, TypeOK, Runs
<1>2. Agreed'
  BY RunsAgree DEF WorldInv
<1>3. Arriving'
  BY ArrivingUndisturbed
<1>4. Underway'
  BY DEF WorldInv, Underway
<1> QED  BY <1>1, <1>2, <1>3, <1>4 DEF WorldInv

LEMMA MigrateInStep ==
  ASSUME WorldInv, NEW a \in Actor, MigrateIn(a)
  PROVE  WorldInv'
<1> DEFINE d == asked[a].dst
<1>1. /\ serving = Nil /\ asked[a] # Nil /\ serving' = [actor |-> a, stage |-> "in"]
      /\ UNCHANGED <<asked, crashed, dead>>
  BY DEF MigrateIn
<1>2. PICK w \in Seq(Event) : /\ Runs(d, w, zone[d].actors \cup {a}) /\ disk' = disk
                              /\ w # <<>> /\ Comes(Head(w)) /\ Head(w).actor = a
  BY MigrateInRuns DEF WorldInv
<1>3. d \in ZoneId
  BY <1>1, JourneyFacts DEF WorldInv
<1>4. serving' \in Errand /\ serving'.actor = a /\ serving'.stage = "in"
  BY <1>1 DEF Errand
<1> HIDE DEF d
<1>5. TypeOK'
  BY <1>1, <1>2, <1>4 DEF WorldInv, TypeOK, Runs
<1>6. Agreed'
  BY <1>2, <1>3, RunsAgree DEF WorldInv
<1>7. Underway'
  BY <1>1, <1>4 DEF WorldInv, Underway
<1>8. a \in zone'[d].actors /\ writing'[d] = w
  BY <1>2 DEF Runs
<1>9. Arriving'
  BY <1>1, <1>2, <1>4, <1>8 DEF Arriving, d
<1> QED  BY <1>5, <1>6, <1>7, <1>9 DEF WorldInv

LEMMA MigrateOutStep ==
  ASSUME WorldInv, MigrateOut
  PROVE  WorldInv'
<1> DEFINE a == serving.actor
           z == asked[a].src
<1>1. /\ serving # Nil /\ serving' = [serving EXCEPT !.stage = "out"]
      /\ UNCHANGED <<asked, crashed, dead>>
  BY DEF MigrateOut
<1>2. /\ \E w : Runs(z, w, zone[z].actors \ {a})
      /\ disk' = disk /\ z \in ZoneId
  BY MigrateOutRuns DEF WorldInv
<1>3. serving' \in Errand /\ serving'.actor = serving.actor /\ serving'.stage = "out"
  BY <1>1 DEF WorldInv, TypeOK, Errand
<1> HIDE DEF z
<1>4. TypeOK'
  BY <1>1, <1>2, <1>3 DEF WorldInv, TypeOK, Runs
<1>5. Agreed'
  BY <1>2, RunsAgree DEF WorldInv
<1>6. Underway' /\ Arriving'
  BY <1>1, <1>3 DEF WorldInv, Underway, Arriving
<1> QED  BY <1>4, <1>5, <1>6 DEF WorldInv

LEMMA MigrateOutFailsStep ==
  ASSUME WorldInv, MigrateOutFails
  PROVE  WorldInv'
<1>1. /\ serving # Nil /\ serving' = Nil /\ asked' = [asked EXCEPT ![serving.actor] = Nil]
      /\ UNCHANGED <<zone, disk, writing, crashed, dead>>
  BY DEF MigrateOutFails
<1>2. asked \in [Actor -> Journey \cup {Nil}]
  BY DEF WorldInv, TypeOK
<1>3. asked' \in [Actor -> Journey \cup {Nil}]
  BY <1>1, <1>2
<1>4. TypeOK'
  BY <1>1, <1>3 DEF WorldInv, TypeOK
<1>5. \A b \in Actor : asked'[b] # Nil => asked'[b] = asked[b]
  BY <1>1, <1>2
<1>6. Underway' /\ Arriving' /\ Agreed'
  BY <1>1, <1>5 DEF WorldInv, Underway, Arriving, Agreed
<1> QED  BY <1>4, <1>6 DEF WorldInv

(* Three outcomes: nobody waits for the answer, or it is not the last      *)
(* event; the new Zone answers; the old one does.                          *)
Unanswered == UNCHANGED <<asked, serving>>
EntryAnswered(z) ==
    /\ serving # Nil /\ serving.stage = "in" /\ z = asked[serving.actor].dst
    /\ Tail(writing[z]) = <<>>
    /\ serving' = [serving EXCEPT !.stage = "copied"] /\ asked' = asked
ExitAnswered(z) ==
    /\ serving # Nil /\ serving.stage = "out" /\ serving' = Nil
    /\ asked' = [asked EXCEPT ![serving.actor] = Nil]

LEMMA PersistAnswers ==
  ASSUME TypeOK, NEW z \in ZoneId, Persist(z)
  PROVE  /\ Unanswered \/ EntryAnswered(z) \/ ExitAnswered(z)
         /\ Unanswered => \/ serving = Nil \/ serving.stage # "in"
                          \/ z # asked[serving.actor].dst \/ Tail(writing[z]) # <<>>
         /\ UNCHANGED <<zone, crashed, dead>>
<1>1. CASE Tail(writing[z]) # <<>> \/ ~Awaited(z)
  BY <1>1 DEF Persist, Awaited, Unanswered
<1>2. CASE Tail(writing[z]) = <<>> /\ Awaited(z)
  <2>1. serving # Nil
    BY <1>2 DEF Awaited
  <2>2. CASE serving.stage = "in"
    <3>1. z = asked[serving.actor].dst
      BY <1>2, <2>2 DEF Awaited
    <3>2. serving' = [serving EXCEPT !.stage = "copied"] /\ asked' = asked
      BY <1>2, <2>2 DEF Persist
    <3>3. UNCHANGED <<zone, crashed, dead>>
      BY DEF Persist
    <3>4. serving'.stage = "copied"
      BY <2>1, <3>2 DEF TypeOK, Errand
    <3> QED  BY <1>2, <2>1, <2>2, <3>1, <3>2, <3>3, <3>4 DEF EntryAnswered, Unanswered
  <2>3. CASE serving.stage # "in"
    <3>1. serving.stage = "out"
      BY <1>2, <2>3 DEF Awaited
    <3>2. serving' = Nil /\ asked' = [asked EXCEPT ![serving.actor] = Nil]
      BY <1>2, <2>3 DEF Persist
    <3>3. UNCHANGED <<zone, crashed, dead>>
      BY DEF Persist
    <3> QED  BY <2>1, <2>3, <3>1, <3>2, <3>3 DEF ExitAnswered, Unanswered
  <2> QED  BY <2>2, <2>3
<1> QED  BY <1>1, <1>2

LEMMA PersistStep ==
  ASSUME WorldInv, NEW z \in ZoneId, Persist(z)
  PROVE  WorldInv' /\ Persists(z)
<1>1. Persists(z) /\ Agreed'
  BY PersistPersists DEF WorldInv
<1>2. /\ Unanswered \/ EntryAnswered(z) \/ ExitAnswered(z)
      /\ Unanswered => \/ serving = Nil \/ serving.stage # "in"
                       \/ z # asked[serving.actor].dst \/ Tail(writing[z]) # <<>>
      /\ UNCHANGED <<zone, crashed, dead>>
  BY PersistAnswers DEF WorldInv
<1>3. /\ asked \in [Actor -> Journey \cup {Nil}] /\ serving \in Errand \cup {Nil}
  BY DEF WorldInv, TypeOK
<1>4. /\ asked' \in [Actor -> Journey \cup {Nil}] /\ serving' \in Errand \cup {Nil}
  <2>1. CASE Unanswered
    BY <1>3, <2>1 DEF Unanswered
  <2>2. CASE EntryAnswered(z)
    BY <1>3, <2>2 DEF EntryAnswered, Errand
  <2>3. CASE ExitAnswered(z)
    BY <1>3, <2>3 DEF ExitAnswered
  <2> QED  BY <1>2, <2>1, <2>2, <2>3
<1>5. TypeOK'
  BY <1>1, <1>2, <1>4 DEF WorldInv, TypeOK, Persists
<1>6. Underway'
  <2>1. CASE Unanswered
    BY <2>1 DEF Unanswered, WorldInv, Underway
  <2>2. CASE EntryAnswered(z)
    <3>1. serving' # Nil => serving'.actor = serving.actor
      BY <1>3, <2>2 DEF EntryAnswered, Errand
    <3> QED  BY <2>2, <3>1 DEF EntryAnswered, WorldInv, Underway
  <2>3. CASE ExitAnswered(z)
    <3>1. \A b \in Actor : asked'[b] # Nil => asked'[b] = asked[b]
      BY <1>3, <2>3 DEF ExitAnswered
    <3> QED  BY <2>3, <3>1 DEF ExitAnswered, WorldInv, Underway
  <2> QED  BY <1>2, <2>1, <2>2, <2>3
<1>7. Arriving'
  <2>1. CASE Unanswered
    <3> SUFFICES ASSUME serving # Nil, serving.stage = "in"
                 PROVE  LET a == serving.actor
                            d == asked[a].dst
                        IN  /\ a \in zone[d].actors /\ writing'[d] # <<>>
                            /\ \/ a \in disk'[d].actors
                               \/ Comes(Head(writing'[d])) /\ Head(writing'[d]).actor = a
      BY <1>2, <2>1 DEF Unanswered, Arriving, Comes
    <3> DEFINE a == serving.actor
               d == asked[a].dst
    <3>1. a \in Actor /\ d \in ZoneId
      BY JourneyFacts DEF WorldInv, Underway
    <3>2. /\ a \in zone[d].actors /\ writing[d] # <<>>
          /\ \/ a \in disk[d].actors
             \/ Comes(Head(writing[d])) /\ Head(writing[d]).actor = a
      BY DEF WorldInv, Arriving
    <3>3. d = z => Tail(writing[z]) # <<>>
      BY <1>2, <2>1
    <3> HIDE DEF a, d
    <3>4. CASE d # z
      <4>1. disk'[d] = disk[d] /\ writing'[d] = writing[d]
        BY <1>1, <3>1, <3>4 DEF Persists
      <4> QED  BY <3>2, <4>1 DEF a, d
    <3>5. CASE d = z
      <4>1. writing'[d] # <<>>
        BY <1>1, <3>3, <3>5 DEF Persists
      <4>2. a \in disk'[d].actors
        BY <1>1, <3>2, <3>5 DEF Persists, Comes, Goes
      <4> QED  BY <3>2, <4>1, <4>2 DEF a, d
    <3> QED  BY <3>4, <3>5
  <2>2. CASE EntryAnswered(z)
    <3>1. serving' # Nil => serving'.stage = "copied"
      BY <1>3, <2>2 DEF EntryAnswered, Errand
    <3> QED  BY <3>1 DEF Arriving
  <2>3. CASE ExitAnswered(z)
    BY <2>3 DEF ExitAnswered, Arriving
  <2> QED  BY <1>2, <2>1, <2>2, <2>3
<1> QED  BY <1>1, <1>5, <1>6, <1>7 DEF WorldInv

LEMMA CrashStep ==
  ASSUME WorldInv, CrashAndRestart
  PROVE  WorldInv'
<1>1. /\ zone' = disk /\ disk' = disk /\ writing' = [z \in ZoneId |-> <<>>]
      /\ asked' = [a \in Actor |-> Nil] /\ serving' = Nil /\ crashed' = TRUE /\ dead' = dead
  BY DEF CrashAndRestart
<1>2. writing' \in [ZoneId -> Seq(Event)] /\ \A z \in ZoneId : Len(writing'[z]) = 0
  BY <1>1, EmptySeq
<1>3. TypeOK'
  BY <1>1, <1>2 DEF WorldInv, TypeOK
<1>4. Agreed'
  BY <1>2 DEF Agreed
<1>5. Underway' /\ Arriving'
  BY <1>1 DEF Underway, Arriving
<1> QED  BY <1>3, <1>4, <1>5 DEF WorldInv

LEMMA WorldStep == WorldInv /\ [Next]_vars => WorldInv'
<1> SUFFICES ASSUME WorldInv, [Next]_vars PROVE WorldInv'
  OBVIOUS
<1>1. ASSUME NEW a \in Actor, NEW z \in ZoneId, NEW l \in Location, Ask(a, z, l)
      PROVE  WorldInv'
  BY <1>1, AskStep
<1>2. ASSUME NEW a \in Actor, MigrateIn(a) PROVE WorldInv'
  BY <1>2, MigrateInStep
<1>3. CASE MigrateOut
  BY <1>3, MigrateOutStep
<1>4. CASE MigrateOutFails
  BY <1>4, MigrateOutFailsStep
<1>5. ASSUME NEW z \in ZoneId, Persist(z) PROVE WorldInv'
  BY <1>5, PersistStep
<1>6. ASSUME NEW z \in ZoneId, NEW who \in Actor, NEW from \in Container, NEW to \in Container,
             NEW o \in zone[z].holds[from], MoveObject(z, who, o, from, to)
      PROVE  WorldInv'
  <2>1. UNCHANGED <<asked, serving, crashed, dead>>
    BY <1>6 DEF MoveObject
  <2>2. dead' \subseteq Actor
    BY <2>1 DEF WorldInv, TypeOK
  <2>3. (\E w : Runs(z, w, zone[z].actors)) /\ disk' = disk
    BY <1>6, MoveRuns DEF WorldInv
  <2> QED  BY <2>1, <2>2, <2>3, QuietRunStep
<1>7. ASSUME NEW z \in ZoneId, NEW a \in Actor, NEW k \in Corpse, Die(z, a, k)
      PROVE  WorldInv'
  <2>1. UNCHANGED <<asked, serving, crashed>> /\ dead' = dead \cup {a}
    BY <1>7 DEF Die
  <2>2. dead' \subseteq Actor
    BY <2>1 DEF WorldInv, TypeOK
  <2>3. (\E w : Runs(z, w, zone[z].actors \ {a})) /\ disk' = disk
    BY <1>7, DieRuns DEF WorldInv
  <2> QED  BY <2>1, <2>2, <2>3, QuietRunStep
<1>8. CASE CrashAndRestart
  BY <1>8, CrashStep
<1>9. CASE UNCHANGED vars
  <2>1. TypeOK' /\ Agreed' /\ Underway' /\ Arriving'
    BY <1>9 DEF vars, WorldInv, TypeOK, Agreed, Underway, Arriving
  <2> QED  BY <2>1 DEF WorldInv
<1> QED
  BY <1>1, <1>2, <1>3, <1>4, <1>5, <1>6, <1>7, <1>8, <1>9 DEF Next

LEMMA WorldInvariant == Spec => []WorldInv
BY WorldInit, WorldStep, PTL DEF Spec

(* Zones in memory and in the log, the events on their way there, the      *)
(* waiting sessions and the World keep their types, whatever is moved,     *)
(* killed and cut off by crashes: no event is ever made of an Object that  *)
(* nobody holds or of a place that is nil (core/zone.go, processCommand).  *)
THEOREM WorldTyped == Spec => []TypeOK
<1>1. WorldInv => TypeOK
  BY DEF WorldInv
<1> QED  BY <1>1, WorldInvariant, PTL

-----------------------------------------------------------------------------
(* The World implements Handover *)

Present == [a \in Actor |-> {z \in ZoneId : a \in zone[z].actors}]
Saved   == [a \in Actor |-> {z \in ZoneId : a \in disk[z].actors}]
Moving  == IF serving = Nil THEN Nil
           ELSE [actor |-> serving.actor, stage |-> serving.stage,
                 src   |-> asked[serving.actor].src,
                 dst   |-> asked[serving.actor].dst]

LEMMA MovingFacts ==
  ASSUME WorldInv
  PROVE  /\ Moving = Nil <=> serving = Nil
         /\ serving # Nil =>
              /\ Moving.actor = serving.actor /\ Moving.stage = serving.stage
              /\ Moving.src = asked[serving.actor].src
              /\ Moving.dst = asked[serving.actor].dst
<1>1. CASE serving = Nil
  BY <1>1 DEF Moving
<1>2. CASE serving # Nil
  <2> DEFINE m == [actor |-> serving.actor, stage |-> serving.stage,
                   src |-> asked[serving.actor].src, dst |-> asked[serving.actor].dst]
  <2>1. Moving = m
    BY <1>2 DEF Moving
  <2>2. /\ serving.actor \in Actor /\ serving.stage \in {"in", "copied", "out"}
        /\ asked[serving.actor].src \in ZoneId /\ asked[serving.actor].dst \in ZoneId
    BY <1>2, JourneyFacts DEF WorldInv, Underway
  <2>3. m \in [actor : Actor, stage : {"in", "copied", "out"}, src : ZoneId, dst : ZoneId]
    BY <2>2
  <2>4. m # Nil
    <3> HIDE DEF m
    <3> QED  BY <2>3, WorldAssumption
  <2>5. /\ m.actor = serving.actor /\ m.stage = serving.stage
        /\ m.src = asked[serving.actor].src /\ m.dst = asked[serving.actor].dst
    OBVIOUS
  <2> HIDE DEF m
  <2> QED  BY <1>2, <2>1, <2>4, <2>5
<1> QED  BY <1>1, <1>2

LEMMA HandingInit == Init => Handing!Init
<1> SUFFICES ASSUME Init PROVE Handing!Init
  OBVIOUS
<1> DEFINE home == [a \in Actor |-> Land[Home[a]]]
<1>1. zone = [z \in ZoneId |-> Loaded(z)] /\ disk = zone /\ serving = Nil /\ dead = {}
  BY DEF Init
<1>2. home \in [Actor -> ZoneId]
  BY WorldAssumption
<1>3. ASSUME NEW z \in ZoneId
      PROVE  zone[z].actors = {a \in Actor : home[a] = z}
  <2>1. zone[z] = Loaded(z)
    BY <1>1
  <2>2. Loaded(z).actors = {a \in Actor : Home[a] \in {l \in Location : Land[l] = z}}
    BY DEF Loaded, EmptyZone
  <2>3. \A a \in Actor : Home[a] \in {l \in Location : Land[l] = z} <=> home[a] = z
    BY WorldAssumption
  <2> HIDE DEF home
  <2> QED  BY <2>1, <2>2, <2>3
<1> HIDE DEF home
<1>4. Present = [a \in Actor |-> {home[a]}]
  <2>1. \A a \in Actor : {z \in ZoneId : a \in zone[z].actors} = {home[a]}
    BY <1>2, <1>3
  <2> QED  BY <2>1 DEF Present
<1>5. Saved = Present
  BY <1>1 DEF Saved, Present
<1>6. Moving = Nil
  BY <1>1 DEF Moving
<1> QED  BY <1>1, <1>2, <1>4, <1>5, <1>6 DEF Handing!Init, Present, Saved, Moving

(* A command in one Zone changes only where it puts or takes somebody.     *)
LEMMA RunsPresent ==
  ASSUME WorldInv, NEW z \in ZoneId, NEW w, NEW A, Runs(z, w, A), NEW a \in Actor
  PROVE  /\ A = zone[z].actors => Present' = Present
         /\ A = zone[z].actors \cup {a} => Present' = [Present EXCEPT ![a] = @ \cup {z}]
         /\ A = zone[z].actors \ {a} => Present' = [Present EXCEPT ![a] = @ \ {z}]
<1>1. /\ zone'[z].actors = A
      /\ \A y \in ZoneId \ {z} : zone'[y].actors = zone[y].actors
  BY DEF Runs
<1> DEFINE P(b) == {y \in ZoneId : b \in zone[y].actors}
           Q(b) == {y \in ZoneId : b \in zone'[y].actors}
<1>2. A = zone[z].actors => \A b \in Actor : Q(b) = P(b)
  BY <1>1
<1>3. A = zone[z].actors \cup {a} => \A b \in Actor : Q(b) = IF b = a THEN P(b) \cup {z} ELSE P(b)
  BY <1>1
<1>4. A = zone[z].actors \ {a} => \A b \in Actor : Q(b) = IF b = a THEN P(b) \ {z} ELSE P(b)
  BY <1>1
<1>5. Present = [b \in Actor |-> P(b)] /\ Present' = [b \in Actor |-> Q(b)]
  BY DEF Present
<1> HIDE DEF P, Q
<1> QED  BY <1>2, <1>3, <1>4, <1>5

LEMMA SavedSame == disk' = disk => Saved' = Saved
BY DEF Saved

LEMMA PresentSame == zone' = zone => Present' = Present
BY DEF Present

LEMMA MovingSame ==
  (serving' = serving /\ (serving # Nil => asked'[serving.actor] = asked[serving.actor]))
      => Moving' = Moving
BY DEF Moving

LEMMA HandingStutter ==
  ASSUME Present' = Present, Saved' = Saved, Moving' = Moving, dead' = dead
  PROVE  UNCHANGED Handing!vars
BY DEF Handing!vars, Present, Saved, Moving

LEMMA HandingCopyIn ==
  ASSUME WorldInv, NEW a \in Actor, MigrateIn(a)
  PROVE  \E s, d \in ZoneId : Handing!CopyIn(a, s, d)
<1> DEFINE s == asked[a].src
           d == asked[a].dst
           m == [actor |-> a, src |-> s, dst |-> d, stage |-> "in"]
<1>1. /\ serving = Nil /\ asked[a] # Nil /\ serving' = [actor |-> a, stage |-> "in"]
      /\ UNCHANGED <<asked, dead>>
  BY DEF MigrateIn
<1>2. s \in ZoneId /\ d \in ZoneId /\ s # d
  BY <1>1, JourneyFacts DEF WorldInv, Underway
<1>3. (\E w : Runs(d, w, zone[d].actors \cup {a})) /\ disk' = disk
  BY MigrateInRuns DEF WorldInv
<1>4. Moving = Nil /\ Moving' = m
  <2>1. serving' # Nil /\ serving'.actor = a /\ serving'.stage = "in"
    <3> DEFINE e == [actor |-> a, stage |-> "in"]
    <3>1. e \in Errand /\ e.actor = a /\ e.stage = "in"
      BY DEF Errand
    <3>2. serving' = e
      BY <1>1
    <3> HIDE DEF e
    <3> QED  BY <3>1, <3>2, WorldAssumption
  <2> QED  BY <1>1, <2>1 DEF Moving
<1> HIDE DEF s, d, m
<1>5. Present' = [Present EXCEPT ![a] = @ \cup {d}]
  BY <1>2, <1>3, RunsPresent
<1>6. Saved' = Saved
  BY <1>3, SavedSame
<1>7. Handing!CopyIn(a, s, d)
  BY <1>1, <1>2, <1>4, <1>5, <1>6 DEF Handing!CopyIn, Present, Saved, Moving, m
<1> QED  BY <1>2, <1>7 DEF Handing!CopyIn

LEMMA HandingLeave ==
  ASSUME WorldInv, MigrateOut
  PROVE  Handing!Leave
<1> DEFINE a == serving.actor
           z == asked[a].src
<1>1. /\ serving # Nil /\ serving.stage = "copied" /\ serving' = [serving EXCEPT !.stage = "out"]
      /\ UNCHANGED <<asked, dead>>
  BY DEF MigrateOut
<1>2. (\E w : Runs(z, w, zone[z].actors \ {a})) /\ disk' = disk /\ a \in Actor /\ z \in ZoneId
  BY MigrateOutRuns DEF WorldInv
<1>3. serving' \in Errand /\ serving'.actor = a /\ serving'.stage = "out"
  BY <1>1 DEF WorldInv, TypeOK, Errand
<1>4. Moving # Nil /\ Moving.stage = "copied" /\ Moving.actor = a /\ Moving.src = z
  BY <1>1, MovingFacts
<1>5. Moving' = [Moving EXCEPT !.stage = "out"]
  <2>1. serving' # Nil
    BY <1>3, WorldAssumption
  <2>2. Moving = [actor |-> a, stage |-> serving.stage, src |-> z, dst |-> asked[a].dst]
    BY <1>1 DEF Moving
  <2>3. Moving' = [actor |-> a, stage |-> "out", src |-> z, dst |-> asked[a].dst]
    BY <1>1, <1>3, <2>1 DEF Moving
  <2> HIDE DEF a, z
  <2> QED  BY <2>2, <2>3
<1> HIDE DEF a, z
<1>6. Present' = [Present EXCEPT ![a] = @ \ {z}]
  BY <1>2, RunsPresent
<1>7. Present' = [Present EXCEPT ![Moving.actor] = @ \ {Moving.src}]
  BY <1>4, <1>6
<1>8. Saved' = Saved
  BY <1>2, SavedSame
<1> QED  BY <1>1, <1>4, <1>5, <1>7, <1>8 DEF Handing!Leave, Present, Saved, Moving

LEMMA HandingRefuse ==
  ASSUME WorldInv, MigrateOutFails
  PROVE  Handing!Refuse
<1>1. /\ serving # Nil /\ serving.stage = "copied" /\ serving' = Nil
      /\ UNCHANGED <<zone, disk, dead>>
  BY DEF MigrateOutFails
<1>2. Moving # Nil /\ Moving.stage = "copied" /\ Moving' = Nil
  BY <1>1, MovingFacts DEF Moving
<1>3. Present' = Present /\ Saved' = Saved /\ dead' = dead
  BY <1>1, PresentSame, SavedSame
<1> QED  BY <1>2, <1>3 DEF Handing!Refuse, Present, Saved, Moving

(* The event persisted is about somebody who has come or gone, as the      *)
(* memory has it by then, or about nobody.                                 *)
LEMMA HandingRecord ==
  ASSUME WorldInv, NEW z \in ZoneId, Persists(z)
  PROVE  Saved' = Saved \/ \E a \in Actor : Handing!Record(a, z)
<1> DEFINE e == Head(writing[z])
           a == e.actor
           P(b) == {y \in ZoneId : b \in disk[y].actors}
           Q(b) == {y \in ZoneId : b \in disk'[y].actors}
<1>1. Saved = [b \in Actor |-> P(b)] /\ Saved' = [b \in Actor |-> Q(b)]
  BY DEF Saved
<1>2. \A y \in ZoneId \ {z} : disk'[y].actors = disk[y].actors
  BY DEF Persists
<1>3. CASE Comes(e)
  <2>1. a \in Actor
    BY <1>3 DEF Persists, Comes, Event
  <2>2. a \in zone[z].actors /\ disk'[z].actors = disk[z].actors \cup {a}
    BY <1>3 DEF Persists
  <2> HIDE DEF a, e
  <2>3. \A b \in Actor : Q(b) = IF b = a THEN P(b) \cup {z} ELSE P(b)
    BY <1>2, <2>2
  <2>4. z \in Present[a]
    BY <2>1, <2>2 DEF Present
  <2>5. Saved' = [Saved EXCEPT ![a] = IF z \in Present[a] THEN @ \cup {z} ELSE @ \ {z}]
    <3> HIDE DEF P, Q
    <3> QED  BY <1>1, <2>1, <2>3, <2>4
  <2>6. Handing!Record(a, z)
    BY <2>5 DEF Handing!Record, Present, Saved
  <2> QED  BY <2>1, <2>6 DEF Handing!Record
<1>4. CASE Goes(e)
  <2>1. a \in Actor
    BY <1>4 DEF Persists, Goes, Event
  <2>2. a \notin zone[z].actors /\ disk'[z].actors = disk[z].actors \ {a}
    BY <1>4 DEF Persists
  <2> HIDE DEF a, e
  <2>3. \A b \in Actor : Q(b) = IF b = a THEN P(b) \ {z} ELSE P(b)
    BY <1>2, <2>2
  <2>4. z \notin Present[a]
    BY <2>1, <2>2 DEF Present
  <2>5. Saved' = [Saved EXCEPT ![a] = IF z \in Present[a] THEN @ \cup {z} ELSE @ \ {z}]
    <3> HIDE DEF P, Q
    <3> QED  BY <1>1, <2>1, <2>3, <2>4
  <2>6. Handing!Record(a, z)
    BY <2>5 DEF Handing!Record, Present, Saved
  <2> QED  BY <2>1, <2>6 DEF Handing!Record
<1>5. CASE ~Comes(e) /\ ~Goes(e)
  <2>1. disk'[z].actors = disk[z].actors
    BY <1>5 DEF Persists
  <2>2. \A b \in Actor : Q(b) = P(b)
    BY <1>2, <2>1
  <2> HIDE DEF P, Q
  <2> QED  BY <1>1, <2>2
<1> QED  BY <1>3, <1>4, <1>5

LEMMA HandingAnswer ==
  ASSUME WorldInv, NEW z \in ZoneId, Persist(z), Persists(z)
  PROVE  Moving' = Moving \/ (Moving # Nil /\ Handing!Answer)
<1> DEFINE a == serving.actor
           d == asked[a].dst
<1>1. CASE Unanswered
  BY <1>1, MovingSame DEF Unanswered
<1>2. CASE EntryAnswered(z)
  <2>1. /\ serving # Nil /\ serving.stage = "in" /\ z = d
        /\ serving' = [serving EXCEPT !.stage = "copied"] /\ asked' = asked
    BY <1>2 DEF EntryAnswered
  <2>2. Moving # Nil /\ Moving.stage = "in" /\ Moving.actor = a /\ Moving.dst = z
    BY <2>1, MovingFacts
  <2>3. serving' \in Errand /\ serving'.actor = a /\ serving'.stage = "copied"
    BY <2>1 DEF WorldInv, TypeOK, Errand
  <2>4. Moving' = [Moving EXCEPT !.stage = "copied"]
    <3>1. serving' # Nil
      BY <2>3, WorldAssumption
    <3>2. Moving = [actor |-> a, stage |-> serving.stage, src |-> asked[a].src, dst |-> d]
      BY <2>1 DEF Moving
    <3>3. Moving' = [actor |-> a, stage |-> "copied", src |-> asked[a].src, dst |-> d]
      BY <2>1, <2>3, <3>1 DEF Moving
    <3> HIDE DEF a, d
    <3> QED  BY <3>2, <3>3
  <2>5. a \in Actor
    BY <2>1, JourneyFacts DEF WorldInv
  <2>6. \/ a \in disk[z].actors
        \/ Comes(Head(writing[z])) /\ Head(writing[z]).actor = a
    BY <2>1 DEF WorldInv, Arriving
  <2>7. a \in zone[z].actors
    BY <2>1 DEF WorldInv, Arriving
  <2> HIDE DEF a, d
  <2>8. a \in disk'[z].actors
    BY <2>6, <2>7 DEF Persists, Comes, Goes
  <2>9. Moving.dst \in Saved'[Moving.actor]
    BY <2>2, <2>5, <2>8 DEF Saved
  <2>10. Handing!Answer
    BY <2>2, <2>4, <2>9 DEF Handing!Answer, Saved, Moving
  <2> QED  BY <2>2, <2>10
<1>3. CASE ExitAnswered(z)
  <2>1. serving # Nil /\ serving.stage = "out" /\ serving' = Nil
    BY <1>3 DEF ExitAnswered
  <2>2. Moving # Nil /\ Moving.stage = "out" /\ Moving' = Nil
    BY <2>1, MovingFacts DEF Moving
  <2>3. Handing!Answer
    BY <2>2 DEF Handing!Answer, Moving
  <2> QED  BY <2>2, <2>3
<1> QED  BY <1>1, <1>2, <1>3, PersistAnswers DEF WorldInv

LEMMA HandingSave ==
  ASSUME WorldInv, NEW z \in ZoneId, Persist(z)
  PROVE  Handing!Save
<1>1. Persists(z)
  BY PersistStep
<1>2. Saved' = Saved \/ \E a \in Actor : Handing!Record(a, z)
  BY <1>1, HandingRecord
<1>3. Moving' = Moving \/ (Moving # Nil /\ Handing!Answer)
  BY <1>1, HandingAnswer
<1>4. zone' = zone /\ dead' = dead
  BY DEF Persist
<1>5. Present' = Present
  BY <1>4, PresentSame
<1>6. Saved' = Saved \/ \E a \in Actor, y \in ZoneId : Handing!Record(a, y)
  BY <1>2
<1> QED  BY <1>3, <1>4, <1>5, <1>6 DEF Handing!Save, Present, Saved, Moving

LEMMA HandingDie ==
  ASSUME WorldInv, NEW z \in ZoneId, NEW a \in Actor, NEW k \in Corpse, Die(z, a, k)
  PROVE  Handing!Die(a, z)
<1>1. a \in zone[z].actors /\ dead' = dead \cup {a} /\ UNCHANGED <<asked, serving>>
  BY DEF Die
<1>2. (\E w : Runs(z, w, zone[z].actors \ {a})) /\ disk' = disk
  BY DieRuns DEF WorldInv
<1>3. Present' = [Present EXCEPT ![a] = @ \ {z}]
  BY <1>2, RunsPresent
<1>4. z \in Present[a]
  BY <1>1 DEF Present
<1>5. Saved' = Saved /\ Moving' = Moving
  BY <1>1, <1>2, SavedSame, MovingSame
<1> QED  BY <1>1, <1>3, <1>4, <1>5 DEF Handing!Die, Present, Saved, Moving

LEMMA HandingCrash ==
  ASSUME CrashAndRestart
  PROVE  Handing!Crash
<1>1. zone' = disk /\ disk' = disk /\ serving' = Nil /\ dead' = dead
  BY DEF CrashAndRestart
<1>2. Present' = Saved /\ Saved' = Saved /\ Moving' = Nil
  BY <1>1 DEF Present, Saved, Moving
<1> QED  BY <1>1, <1>2 DEF Handing!Crash, Present, Saved, Moving

LEMMA HandingStep == WorldInv /\ [Next]_vars => [Handing!Next]_(Handing!vars)
<1> SUFFICES ASSUME WorldInv, [Next]_vars PROVE [Handing!Next]_(Handing!vars)
  OBVIOUS
<1>1. ASSUME NEW a \in Actor, NEW z \in ZoneId, NEW l \in Location, Ask(a, z, l)
      PROVE  UNCHANGED Handing!vars
  <2>1. UNCHANGED <<zone, disk, serving, dead>>
    BY <1>1 DEF Ask
  <2>2. serving # Nil => asked'[serving.actor] = asked[serving.actor]
    BY <1>1, AskStep
  <2> QED  BY <2>1, <2>2, PresentSame, SavedSame, MovingSame, HandingStutter
<1>2. ASSUME NEW a \in Actor, MigrateIn(a)
      PROVE  Handing!Next
  BY <1>2, HandingCopyIn DEF Handing!Next
<1>3. CASE MigrateOut
  BY <1>3, HandingLeave DEF Handing!Next
<1>4. CASE MigrateOutFails
  BY <1>4, HandingRefuse DEF Handing!Next
<1>5. ASSUME NEW z \in ZoneId, Persist(z)
      PROVE  Handing!Next
  BY <1>5, HandingSave DEF Handing!Next
<1>6. ASSUME NEW z \in ZoneId, NEW who \in Actor, NEW from \in Container, NEW to \in Container,
             NEW o \in zone[z].holds[from], MoveObject(z, who, o, from, to)
      PROVE  UNCHANGED Handing!vars
  <2>1. UNCHANGED <<asked, serving, dead>>
    BY <1>6 DEF MoveObject
  <2>2. (\E w : Runs(z, w, zone[z].actors)) /\ disk' = disk
    BY <1>6, MoveRuns DEF WorldInv
  <2>3. Present' = Present
    BY <1>6, <2>2, RunsPresent
  <2> QED  BY <2>1, <2>2, <2>3, SavedSame, MovingSame, HandingStutter
<1>7. ASSUME NEW z \in ZoneId, NEW a \in Actor, NEW k \in Corpse, Die(z, a, k)
      PROVE  Handing!Next
  BY <1>7, HandingDie DEF Handing!Next
<1>8. CASE CrashAndRestart
  BY <1>8, HandingCrash DEF Handing!Next
<1>9. CASE UNCHANGED vars
  <2>1. UNCHANGED <<zone, disk, asked, serving, dead>>
    BY <1>9 DEF vars
  <2> QED  BY <2>1, PresentSame, SavedSame, MovingSame, HandingStutter
<1> QED
  BY <1>1, <1>2, <1>3, <1>4, <1>5, <1>6, <1>7, <1>8, <1>9 DEF Next

(* handleMigrateActorCommand implements Handover: the copy, the wait for   *)
(* its answer, the removal or the refusal; every event a Zone persists     *)
(* brings its log nearer to its memory; and no other command puts an Actor *)
(* into a Zone or takes a living one out.                                  *)
THEOREM HandoverIsKept == Spec => HandsOver
<1>1. Init => Handing!Init
  BY HandingInit
<1>2. WorldInv /\ [Next]_vars => [Handing!Next]_(Handing!vars)
  BY HandingStep
<1> QED  BY <1>1, <1>2, WorldInvariant, PTL DEF Spec, HandsOver, Handing!Spec

(* What is proved of Handover holds of the World. *)
Kept == INSTANCE HandoverProofs WITH present <- Present, saved <- Saved, moving <- Moving

(* An Actor that nobody has killed is in some Zone, and in the log of some *)
(* Zone, at every moment of a migration and after a crash at any moment    *)
(* (core/world.go, handleMigrateActorCommand).                             *)
THEOREM NobodyIsLost == Spec => []NobodyLost
<1>1. Handing!Init => Kept!Init
  BY DEF Handing!Init, Kept!Init, Present, Saved, Moving
<1>2. [Handing!Next]_(Handing!vars) => [Kept!Next]_(Kept!vars)
  BY DEF Handing!Next, Kept!Next, Handing!vars, Kept!vars, Handing!CopyIn, Kept!CopyIn,
         Handing!Save, Kept!Save, Handing!Record, Kept!Record, Handing!Answer, Kept!Answer,
         Handing!Leave, Kept!Leave, Handing!Refuse, Kept!Refuse, Handing!Die, Kept!Die,
         Handing!Crash, Kept!Crash, Present, Saved, Moving
<1>3. Kept!NobodyLost => NobodyLost
  BY DEF Kept!NobodyLost, NobodyLost, Handing!NobodyLost, Present, Saved
<1>4. Spec => Kept!Spec
  BY <1>1, <1>2, HandoverIsKept, PTL DEF HandsOver, Handing!Spec, Kept!Spec
<1>5. Kept!Spec => []Kept!NobodyLost
  BY Kept!NoneLost
<1> QED  BY <1>3, <1>4, <1>5, PTL

-----------------------------------------------------------------------------
(* Nobody is in two Zones.  OneZone made inductive: before the first crash *)
(* somebody whose session waits is in the Zone its session has read, or,   *)
(* once the World works on it, on its way from there to the new one.       *)

Served(a) == serving # Nil /\ serving.actor = a

Whereabouts ==
    \A a \in Actor : asked[a] # Nil =>
        \A z \in ZoneId : a \in zone[z].actors =>
            \/ ~Served(a) /\ z = asked[a].src
            \/ Served(a) /\ z = asked[a].dst
            \/ Served(a) /\ serving.stage # "out" /\ z = asked[a].src

AloneOrServed ==
    \A a \in Actor : \A y, z \in ZoneId :
        a \in zone[y].actors /\ a \in zone[z].actors => y = z \/ Served(a)

Single == crashed \/ (Whereabouts /\ AloneOrServed)

(* What neither asks nor answers, and brings nobody into a Zone, keeps it. *)
LEMMA SingleUndisturbed ==
  ASSUME WorldInv, Single,
         crashed' = crashed, asked' = asked, serving' = serving,
         \A z \in ZoneId : zone'[z].actors \subseteq zone[z].actors
  PROVE  Single'
<1>1. \A a \in Actor : Served(a)' <=> Served(a)
  BY DEF Served
<1>2. Whereabouts => Whereabouts'
  BY <1>1 DEF Whereabouts
<1>3. AloneOrServed => AloneOrServed'
  BY <1>1 DEF AloneOrServed
<1> QED  BY <1>2, <1>3 DEF Single

LEMMA RunsShrink ==
  ASSUME NEW z \in ZoneId, NEW w, NEW A, Runs(z, w, A), A \subseteq zone[z].actors
  PROVE  \A y \in ZoneId : zone'[y].actors \subseteq zone[y].actors
BY DEF Runs

LEMMA AskSingle ==
  ASSUME WorldInv, Single, NEW a \in Actor, NEW z \in ZoneId, NEW l \in Location, Ask(a, z, l)
  PROVE  Single'
<1> DEFINE j == [src |-> z, dst |-> Land[l], to |-> l]
<1>1. /\ asked[a] = Nil /\ asked' = [asked EXCEPT ![a] = j] /\ Unique(a, z)
      /\ UNCHANGED <<zone, serving, crashed>>
  BY DEF Ask
<1>2. j.src = z
  OBVIOUS
<1> HIDE DEF j
<1>3. \A b \in Actor : asked'[b] = IF b = a THEN j ELSE asked[b]
  BY <1>1 DEF WorldInv, TypeOK
<1>4. \A b \in Actor : Served(b)' <=> Served(b)
  BY <1>1 DEF Served
<1>5. ~Served(a)
  BY <1>1 DEF WorldInv, Underway, Served
<1>6. Whereabouts => Whereabouts'
  <2> SUFFICES ASSUME Whereabouts, NEW b \in Actor, asked'[b] # Nil,
                      NEW y \in ZoneId, b \in zone[y].actors
               PROVE  \/ ~Served(b) /\ y = asked'[b].src
                      \/ Served(b) /\ y = asked'[b].dst
                      \/ Served(b) /\ serving.stage # "out" /\ y = asked'[b].src
    BY <1>1, <1>4 DEF Whereabouts
  <2>1. CASE b = a
    <3>1. y = z
      BY <1>1, <2>1 DEF Unique
    <3> QED  BY <1>2, <1>3, <1>5, <2>1, <3>1
  <2>2. CASE b # a
    BY <1>3, <2>2 DEF Whereabouts
  <2> QED  BY <2>1, <2>2
<1>7. AloneOrServed => AloneOrServed'
  BY <1>1, <1>4 DEF AloneOrServed
<1> QED  BY <1>1, <1>6, <1>7 DEF Single

LEMMA MigrateInSingle ==
  ASSUME WorldInv, Single, NEW a \in Actor, MigrateIn(a)
  PROVE  Single'
<1> DEFINE d == asked[a].dst
           e == [actor |-> a, stage |-> "in"]
<1>1. /\ serving = Nil /\ asked[a] # Nil /\ serving' = e /\ UNCHANGED <<asked, crashed>>
  BY DEF MigrateIn
<1>2. e \in Errand /\ e.actor = a /\ e.stage = "in"
  BY DEF Errand
<1>3. d \in ZoneId
  BY <1>1, JourneyFacts DEF WorldInv
<1>4. PICK w : Runs(d, w, zone[d].actors \cup {a})
  BY MigrateInRuns DEF WorldInv
<1> HIDE DEF d, e
<1>5. \A y \in ZoneId : \A b \in Actor :
          b \in zone'[y].actors => b \in zone[y].actors \/ (b = a /\ y = d)
  BY <1>4 DEF Runs
<1>6. \A b \in Actor : ~Served(b) /\ (Served(b)' <=> b = a)
  BY <1>1, <1>2, WorldAssumption DEF Served
<1>7. Whereabouts => Whereabouts'
  <2> SUFFICES ASSUME Whereabouts, NEW b \in Actor, asked[b] # Nil,
                      NEW y \in ZoneId, b \in zone'[y].actors
               PROVE  \/ ~(Served(b)') /\ y = asked[b].src
                      \/ Served(b)' /\ y = asked[b].dst
                      \/ Served(b)' /\ serving'.stage # "out" /\ y = asked[b].src
    BY <1>1 DEF Whereabouts
  <2>1. b \in zone[y].actors => y = asked[b].src
    BY <1>6 DEF Whereabouts
  <2>2. serving'.stage # "out"
    BY <1>1, <1>2
  <2> QED  BY <1>5, <1>6, <2>1, <2>2 DEF d
<1>8. AloneOrServed => AloneOrServed'
  <2> SUFFICES ASSUME AloneOrServed, NEW b \in Actor, NEW y \in ZoneId, NEW z \in ZoneId,
                      b \in zone'[y].actors, b \in zone'[z].actors, b # a
               PROVE  y = z
    BY <1>6 DEF AloneOrServed
  <2> QED  BY <1>5, <1>6 DEF AloneOrServed
<1> QED  BY <1>1, <1>7, <1>8 DEF Single

LEMMA MigrateOutSingle ==
  ASSUME WorldInv, Single, MigrateOut
  PROVE  Single'
<1> DEFINE a == serving.actor
           z == asked[a].src
<1>1. /\ serving # Nil /\ serving' = [serving EXCEPT !.stage = "out"]
      /\ UNCHANGED <<asked, crashed>>
  BY DEF MigrateOut
<1>2. /\ \E w : Runs(z, w, zone[z].actors \ {a})
      /\ a \in Actor /\ z \in ZoneId
  BY MigrateOutRuns DEF WorldInv
<1>3. serving' \in Errand /\ serving'.actor = a /\ serving'.stage = "out"
  BY <1>1 DEF WorldInv, TypeOK, Errand
<1>4. \A b \in Actor : Served(b)' <=> Served(b)
  BY <1>1, <1>3, WorldAssumption DEF Served
<1> HIDE DEF z, a
<1>5. /\ \A y \in ZoneId : zone'[y].actors \subseteq zone[y].actors
      /\ a \notin zone'[z].actors
  BY <1>2, RunsShrink DEF Runs
<1>6. \A b \in Actor : Served(b) => b = a
  BY DEF Served, a
<1>7. Whereabouts => Whereabouts'
  <2> SUFFICES ASSUME Whereabouts, NEW b \in Actor, asked[b] # Nil,
                      NEW y \in ZoneId, b \in zone'[y].actors
               PROVE  \/ ~(Served(b)') /\ y = asked[b].src
                      \/ Served(b)' /\ y = asked[b].dst
                      \/ Served(b)' /\ serving'.stage # "out" /\ y = asked[b].src
    BY <1>1 DEF Whereabouts
  <2>1. \/ ~Served(b) /\ y = asked[b].src
        \/ Served(b) /\ y = asked[b].dst
        \/ Served(b) /\ y = asked[b].src
    BY <1>5 DEF Whereabouts
  <2>2. Served(b) => y # asked[b].src
    BY <1>5, <1>6 DEF z
  <2> QED  BY <1>4, <2>1, <2>2
<1>8. AloneOrServed => AloneOrServed'
  BY <1>4, <1>5 DEF AloneOrServed
<1> QED  BY <1>1, <1>7, <1>8 DEF Single

(* The World is done with an Actor that is in the new Zone only, if at all. *)
LEMMA DoneSingle ==
  ASSUME WorldInv, Single, NEW a \in Actor, Served(a),
         serving' = Nil, asked' = [asked EXCEPT ![a] = Nil], zone' = zone, crashed' = crashed,
         serving.stage = "out" \/ a \notin zone[asked[a].src].actors
  PROVE  Single'
<1>1. \A b \in Actor : asked'[b] = IF b = a THEN Nil ELSE asked[b]
  BY DEF WorldInv, TypeOK
<1>2. \A b \in Actor : ~(Served(b)') /\ (Served(b) <=> b = a)
  BY DEF Served
<1>3. asked[a] # Nil
  BY DEF Served, WorldInv, Underway
<1>4. Whereabouts => Whereabouts'
  BY <1>1, <1>2 DEF Whereabouts
<1>5. Whereabouts => \A z \in ZoneId : a \in zone[z].actors => z = asked[a].dst
  BY <1>2, <1>3 DEF Whereabouts
<1>6. Whereabouts /\ AloneOrServed => AloneOrServed'
  BY <1>2, <1>5 DEF AloneOrServed
<1> QED  BY <1>4, <1>6 DEF Single

LEMMA PersistSingle ==
  ASSUME WorldInv, Single, NEW z \in ZoneId, Persist(z)
  PROVE  Single'
<1>1. /\ Unanswered \/ EntryAnswered(z) \/ ExitAnswered(z)
      /\ UNCHANGED <<zone, crashed>>
  BY PersistAnswers DEF WorldInv
<1>2. CASE Unanswered
  BY <1>1, <1>2, SingleUndisturbed DEF Unanswered
<1>3. CASE EntryAnswered(z)
  <2>1. /\ serving # Nil /\ serving.stage = "in" /\ asked' = asked
        /\ serving' = [serving EXCEPT !.stage = "copied"]
    BY <1>3 DEF EntryAnswered
  <2>2. serving' \in Errand /\ serving'.actor = serving.actor /\ serving'.stage = "copied"
    BY <2>1 DEF WorldInv, TypeOK, Errand
  <2>3. \A b \in Actor : Served(b)' <=> Served(b)
    BY <2>1, <2>2, WorldAssumption DEF Served
  <2>4. Whereabouts => Whereabouts'
    BY <1>1, <2>1, <2>2, <2>3 DEF Whereabouts
  <2>5. AloneOrServed => AloneOrServed'
    BY <1>1, <2>3 DEF AloneOrServed
  <2> QED  BY <1>1, <2>4, <2>5 DEF Single
<1>4. CASE ExitAnswered(z)
  <2> DEFINE a == serving.actor
  <2>1. /\ serving # Nil /\ serving.stage = "out" /\ serving' = Nil
        /\ asked' = [asked EXCEPT ![a] = Nil]
    BY <1>4 DEF ExitAnswered
  <2>2. a \in Actor /\ Served(a)
    BY <2>1, JourneyFacts DEF WorldInv, Served
  <2> HIDE DEF a
  <2> QED  BY <1>1, <2>1, <2>2, DoneSingle
<1> QED  BY <1>1, <1>2, <1>3, <1>4

LEMMA SingleStep == WorldInv /\ Single /\ [Next]_vars => Single'
<1> SUFFICES ASSUME WorldInv, Single, [Next]_vars PROVE Single'
  OBVIOUS
<1>1. ASSUME NEW a \in Actor, NEW z \in ZoneId, NEW l \in Location, Ask(a, z, l)
      PROVE  Single'
  BY <1>1, AskSingle
<1>2. ASSUME NEW a \in Actor, MigrateIn(a) PROVE Single'
  BY <1>2, MigrateInSingle
<1>3. CASE MigrateOut
  BY <1>3, MigrateOutSingle
<1>4. CASE MigrateOutFails
  <2> DEFINE a == serving.actor
  <2>1. /\ serving # Nil /\ serving' = Nil /\ asked' = [asked EXCEPT ![a] = Nil]
        /\ a \notin zone[asked[a].src].actors /\ UNCHANGED <<zone, crashed>>
    BY <1>4 DEF MigrateOutFails
  <2>2. a \in Actor /\ Served(a)
    BY <2>1, JourneyFacts DEF WorldInv, Served
  <2> HIDE DEF a
  <2> QED  BY <2>1, <2>2, DoneSingle
<1>5. ASSUME NEW z \in ZoneId, Persist(z) PROVE Single'
  BY <1>5, PersistSingle
<1>6. ASSUME NEW z \in ZoneId, NEW who \in Actor, NEW from \in Container, NEW to \in Container,
             NEW o \in zone[z].holds[from], MoveObject(z, who, o, from, to)
      PROVE  Single'
  <2>1. UNCHANGED <<asked, serving, crashed>>
    BY <1>6 DEF MoveObject
  <2>2. \E w : Runs(z, w, zone[z].actors)
    BY <1>6, MoveRuns DEF WorldInv
  <2>3. \A y \in ZoneId : zone'[y].actors \subseteq zone[y].actors
    BY <2>2, RunsShrink
  <2> QED  BY <2>1, <2>3, SingleUndisturbed
<1>7. ASSUME NEW z \in ZoneId, NEW a \in Actor, NEW k \in Corpse, Die(z, a, k)
      PROVE  Single'
  <2>1. UNCHANGED <<asked, serving, crashed>>
    BY <1>7 DEF Die
  <2>2. \E w : Runs(z, w, zone[z].actors \ {a})
    BY <1>7, DieRuns DEF WorldInv
  <2>3. \A y \in ZoneId : zone'[y].actors \subseteq zone[y].actors
    BY <2>2, RunsShrink
  <2> QED  BY <2>1, <2>3, SingleUndisturbed
<1>8. CASE CrashAndRestart
  BY <1>8 DEF CrashAndRestart, Single
<1>9. CASE UNCHANGED vars
  BY <1>9, SingleUndisturbed DEF vars
<1> QED
  BY <1>1, <1>2, <1>3, <1>4, <1>5, <1>6, <1>7, <1>8, <1>9 DEF Next

LEMMA SingleInit == Init => Single
<1> SUFFICES ASSUME Init PROVE Single
  OBVIOUS
<1>1. \A a \in Actor : asked[a] = Nil
  BY DEF Init
<1>2. \A z \in ZoneId : zone[z].actors = {a \in Actor : Home[a] \in {l \in Location : Land[l] = z}}
  BY DEF Init, Loaded, EmptyZone
<1>3. \A a \in Actor, z \in ZoneId : a \in zone[z].actors => z = Land[Home[a]]
  BY <1>2
<1> QED  BY <1>1, <1>3 DEF Single, Whereabouts, AloneOrServed

(* Before the first crash an Actor is in two Zones only while the World    *)
(* works on its migration (core/world.go, handleMigrateActorCommand): the  *)
(* copy in the old Zone is removed, or was already gone, before the        *)
(* session has its answer and may ask for the next one.                    *)
THEOREM OneZoneAtATime == Spec => []OneZone
<1>1. Spec => []Single
  BY WorldInvariant, SingleInit, SingleStep, PTL DEF Spec
<1>2. Single => OneZone
  BY DEF Single, AloneOrServed, Served, OneZone
<1> QED  BY <1>1, <1>2, PTL

-----------------------------------------------------------------------------
(* What becomes of the Objects: an event makes an Object known, takes it   *)
(* away, or puts it into a list.                                           *)

Enters(e) == e.kind \in {"objectIn", "objectAdd"}
Lists(e)  == e.kind \in {"objectIn", "objectAdd", "objectMove", "relocate"}
Into(e, c) ==
    \/ e.kind = "objectIn" /\ c = e.in
    \/ e.kind = "objectAdd" /\ c = e.loc
    \/ e.kind \in {"objectMove", "relocate"} /\ c = e.to
Takes(e, o) == e.kind = "objectOut" /\ e.obj = o

LEMMA ApplyThings ==
  ASSUME NEW z \in ZoneType, NEW e \in Event
  PROVE  /\ Enters(e) => Apply(z, e).objs = z.objs \cup {e.obj}
         /\ ~Enters(e) => \A o \in z.objs : ~Takes(e, o) => o \in Apply(z, e).objs
         /\ ~Enters(e) => Apply(z, e).objs \subseteq z.objs
         /\ \A c \in Container : \A o \in Apply(z, e).holds[c] :
                o \in z.holds[c] \/ (Lists(e) /\ Into(e, c) /\ o = e.obj)
<1> USE DEF Enters, Lists, Into, Takes
<1>1. CASE e.kind = "actorIn"
  <2>1. Apply(z, e) = AfterActorMigrateIn(z, e.actor, e.hp, e.loc)
    BY <1>1 DEF Apply
  <2> QED  BY <1>1, <2>1 DEF AfterActorMigrateIn, ZoneType
<1>2. CASE e.kind = "objectIn"
  <2>1. Apply(z, e) = AfterObjectMigrateIn(z, e.obj, e.in, e.worn)
    BY <1>2 DEF Apply
  <2> QED  BY <1>2, <2>1 DEF AfterObjectMigrateIn, ZoneType
<1>3. CASE e.kind = "objectOut"
  <2>1. Apply(z, e) = AfterObjectRemove(z, e.obj)
    BY <1>3 DEF Apply, AfterObjectMigrateOut
  <2> QED  BY <1>3, <2>1 DEF AfterObjectRemove, ZoneType
<1>4. CASE e.kind = "actorOut"
  <2>1. Apply(z, e) = AfterActorMigrateOut(z, e.actor)
    BY <1>4 DEF Apply
  <2> QED  BY <1>4, <2>1 DEF AfterActorMigrateOut, ZoneType
<1>5. CASE e.kind = "death"
  <2>1. Apply(z, e) = [z EXCEPT !.hp[e.actor] = 0]
    BY <1>5 DEF Apply
  <2> QED  BY <1>5, <2>1 DEF ZoneType
<1>6. CASE e.kind = "actorRemove"
  <2>1. Apply(z, e) = AfterActorRemove(z, e.actor)
    BY <1>6 DEF Apply
  <2> QED  BY <1>6, <2>1 DEF AfterActorRemove, ZoneType
<1>7. CASE e.kind = "objectMove"
  <2>1. Apply(z, e) = AfterObjectMove(z, e.obj, e.from, e.to)
    BY <1>7 DEF Apply
  <2> QED  BY <1>7, <2>1 DEF AfterObjectMove, Relisted, ZoneType
<1>8. CASE e.kind = "objectAdd"
  <2>1. Apply(z, e) = AfterObjectAdd(z, e.obj, e.loc)
    BY <1>8 DEF Apply
  <2> QED  BY <1>8, <2>1 DEF AfterObjectAdd, ZoneType
<1>9. CASE e.kind = "relocate"
  <2>1. Apply(z, e) = AfterObjectsRelocate(z, {e.obj}, e.to)
    BY <1>9 DEF Apply
  <2> QED  BY <1>9, <2>1 DEF AfterObjectsRelocate, ZoneType
<1> QED
  BY <1>1, <1>2, <1>3, <1>4, <1>5, <1>6, <1>7, <1>8, <1>9, EventFacts

Members(s) == {s[i] : i \in 1..Len(s)}

LEMMA MembersOfTwo ==
  ASSUME NEW S, NEW p \in Seq(S), NEW q \in Seq(S)
  PROVE  Members(p \o q) = Members(p) \cup Members(q)
<1>1. Len(p) \in Nat /\ Len(q) \in Nat
  BY LenProperties
<1> DEFINE w == p \o q
<1>2. /\ Len(w) = Len(p) + Len(q)
      /\ \A n \in 1..(Len(p) + Len(q)) : w[n] = IF n <= Len(p) THEN p[n] ELSE q[n - Len(p)]
  BY ConcatProperties
<1> HIDE DEF w
<1>3. ASSUME NEW n \in 1..Len(w) PROVE w[n] \in Members(p) \cup Members(q)
  <2>1. CASE n <= Len(p)
    <3>1. n \in 1..Len(p)
      BY <1>1, <1>2, <2>1
    <3> QED  BY <1>2, <2>1, <3>1 DEF Members
  <2>2. CASE ~(n <= Len(p))
    <3>1. n - Len(p) \in 1..Len(q)
      BY <1>1, <1>2, <2>2
    <3> QED  BY <1>2, <2>2, <3>1 DEF Members
  <2> QED  BY <2>1, <2>2
<1>4. ASSUME NEW i \in 1..Len(p) PROVE p[i] \in Members(w)
  <2>1. i \in 1..Len(w) /\ i <= Len(p)
    BY <1>1, <1>2
  <2>2. w[i] = p[i]
    BY <1>2, <2>1
  <2> QED  BY <2>1, <2>2 DEF Members
<1>5. ASSUME NEW i \in 1..Len(q) PROVE q[i] \in Members(w)
  <2>1. i + Len(p) \in 1..Len(w) /\ ~(i + Len(p) <= Len(p)) /\ (i + Len(p)) - Len(p) = i
    BY <1>1, <1>2
  <2>2. w[i + Len(p)] = q[i]
    BY <1>2, <2>1
  <2> QED  BY <2>1, <2>2 DEF Members
<1>6. Members(w) = Members(p) \cup Members(q)
  <2>1. Members(w) \subseteq Members(p) \cup Members(q)
    BY <1>3 DEF Members
  <2>2. Members(p) \subseteq Members(w) /\ Members(q) \subseteq Members(w)
    BY <1>4, <1>5 DEF Members
  <2> QED  BY <2>1, <2>2
<1> QED  BY <1>6 DEF w

LEMMA MembersAndOne ==
  ASSUME NEW S, NEW e \in S, NEW q \in Seq(S)
  PROVE  /\ Members(<<e>> \o q) = {e} \cup Members(q)
         /\ Members(q \o <<e>>) = Members(q) \cup {e}
<1> DEFINE f == <<e>>
<1>1. f \in Seq(S) /\ Members(f) = {e}
  <2>1. f \in Seq(S) /\ Len(f) = 1 /\ f[1] = e
    OBVIOUS
  <2> HIDE DEF f
  <2>2. 1..Len(f) = {1}
    BY <2>1
  <2> QED  BY <2>1, <2>2 DEF Members
<1> HIDE DEF f
<1>2. Members(f \o q) = {e} \cup Members(q)
  BY <1>1, MembersOfTwo
<1>3. Members(q \o f) = Members(q) \cup {e}
  BY <1>1, MembersOfTwo
<1> QED  BY <1>2, <1>3 DEF f

(* The same of a list of events. *)
LEMMA AfterAllThings ==
  ASSUME NEW z \in ZoneType, NEW w \in Seq(Event)
  PROVE  /\ AfterAll(z, w) \in ZoneType
         /\ \A o \in AfterAll(z, w).objs :
                o \in z.objs \/ \E x \in Members(w) : Enters(x) /\ x.obj = o
         /\ \A c \in Container : \A o \in AfterAll(z, w).holds[c] :
                o \in z.holds[c] \/ \E x \in Members(w) : Lists(x) /\ Into(x, c) /\ x.obj = o
         /\ \A o \in z.objs :
                (\A x \in Members(w) : ~Takes(x, o)) => o \in AfterAll(z, w).objs
         /\ (\A x \in Members(w) : x.kind # "objectOut") =>
                \A x \in Members(w) : Enters(x) => x.obj \in AfterAll(z, w).objs
<1> DEFINE N == Len(w)
<1>1. N \in Nat /\ \A n \in 1..N : w[n] \in Event
  BY LenProperties, ElementOfSeq
<1>2. PICK h : Leads(z, w, h)
  BY AfterAllLeads
<1>3. /\ h[0] = z /\ AfterAll(z, w) = h[N]
      /\ \A n \in 1..N : h[n] = Apply(h[n-1], w[n])
      /\ \A n \in 0..N : h[n] \in ZoneType
  BY <1>2 DEF Leads
<1> DEFINE A(m) == \A o \in h[m].objs :
                       o \in z.objs \/ \E n \in 1..m : Enters(w[n]) /\ w[n].obj = o
           B(m) == \A c \in Container : \A o \in h[m].holds[c] :
                       \/ o \in z.holds[c]
                       \/ \E n \in 1..m : Lists(w[n]) /\ Into(w[n], c) /\ o = w[n].obj
           C(m) == \A o \in z.objs : (\A n \in 1..m : ~Takes(w[n], o)) => o \in h[m].objs
           D(m) == (\A n \in 1..m : w[n].kind # "objectOut") =>
                       \A n \in 1..m : Enters(w[n]) => w[n].obj \in h[m].objs
           T == {m \in 0..N : A(m) /\ B(m) /\ C(m) /\ D(m)}
<1>4. 0 \in T
  BY <1>1, <1>3
<1>5. ASSUME NEW m \in 1..N, m - 1 \in T PROVE m \in T
  <2>1. /\ h[m] = Apply(h[m-1], w[m]) /\ h[m-1] \in ZoneType /\ w[m] \in Event
        /\ m \in 0..N /\ 1..m = (1..(m-1)) \cup {m}
    BY <1>1, <1>3
  <2>2. A(m-1) /\ B(m-1) /\ C(m-1) /\ D(m-1)
    BY <1>5
  <2> HIDE DEF N
  <2>3. /\ Enters(w[m]) => h[m].objs = h[m-1].objs \cup {w[m].obj}
        /\ ~Enters(w[m]) => \A o \in h[m-1].objs : ~Takes(w[m], o) => o \in h[m].objs
        /\ ~Enters(w[m]) => h[m].objs \subseteq h[m-1].objs
        /\ \A c \in Container : \A o \in h[m].holds[c] :
               o \in h[m-1].holds[c] \/ (Lists(w[m]) /\ Into(w[m], c) /\ o = w[m].obj)
    BY <2>1, ApplyThings
  <2>4. A(m)
    BY <2>1, <2>2, <2>3
  <2>5. B(m)
    BY <2>1, <2>2, <2>3
  <2>6. C(m)
    <3> SUFFICES ASSUME NEW o \in z.objs, \A n \in 1..m : ~Takes(w[n], o)
                 PROVE  o \in h[m].objs
      OBVIOUS
    <3>1. o \in h[m-1].objs /\ ~Takes(w[m], o)
      BY <2>1, <2>2
    <3> QED  BY <2>3, <3>1
  <2>7. D(m)
    <3> SUFFICES ASSUME \A n \in 1..m : w[n].kind # "objectOut", NEW n \in 1..m, Enters(w[n])
                 PROVE  w[n].obj \in h[m].objs
      OBVIOUS
    <3>1. CASE n = m
      BY <2>3, <3>1
    <3>2. CASE n \in 1..(m-1)
      <4>1. w[n].obj \in h[m-1].objs
        BY <2>1, <2>2, <3>2
      <4>2. ~Takes(w[m], w[n].obj)
        BY <2>1 DEF Takes
      <4> QED  BY <2>3, <4>1, <4>2
    <3> QED  BY <2>1, <3>1, <3>2
  <2> QED  BY <2>1, <2>4, <2>5, <2>6, <2>7
<1>6. T = 0..N
  <2>1. T \subseteq 0..N
    OBVIOUS
  <2> HIDE DEF T
  <2> QED  BY <1>1, <1>4, <1>5, <2>1, Along
<1>7. N \in 0..N
  BY <1>1
<1>8. A(N) /\ B(N) /\ C(N) /\ D(N) /\ h[N] \in ZoneType
  BY <1>3, <1>6, <1>7
<1>9. Members(w) = {w[n] : n \in 1..N}
  BY DEF Members
<1> HIDE DEF N
<1> QED  BY <1>3, <1>8, <1>9

(* Nothing that an Actor carries is left out. *)
LEMMA CarriedAll ==
  ASSUME NEW z \in ZoneType, NEW a \in Actor, NEW o \in Contents(z, a)
  PROVE  \E i \in DOMAIN Carried(z, a) : Carried(z, a)[i] = o
<1> DEFINE S == Contents(z, a)
           D == 1..Cardinality(S)
           orders == SetToSeqs(S)
           BagsFirst(s) == \A i, j \in DOMAIN s : s[i] \in z.holds[s[j]] => j < i
<1>1. IsFiniteSet(S) /\ Cardinality(S) \in Nat /\ IsFiniteSet(D) /\ Cardinality(D) = Cardinality(S)
  <2>1. S \subseteq Object
    BY CarriedType
  <2>2. IsFiniteSet(S) /\ Cardinality(S) \in Nat
    BY <2>1, ConstantsAssumption, FS_Subset, FS_CardinalityType
  <2>3. IsFiniteSet(1..Cardinality(S)) /\ Cardinality(1..Cardinality(S)) = Cardinality(S)
    <3> DEFINE k == Cardinality(S)
    <3>1. k \in Nat
      BY <2>2
    <3> HIDE DEF k
    <3>2. IsFiniteSet(1..k) /\ Cardinality(1..k) = IF 1 > k THEN 0 ELSE k - 1 + 1
      BY <3>1, FS_Interval
    <3> QED  BY <3>1, <3>2 DEF k
  <2> QED  BY <2>2, <2>3
<1>2. PICK f : f \in Bijection(D, S)
  BY <1>1, FS_CardinalityType DEF ExistsBijection
<1>3. f \in orders
  BY <1>2 DEF Bijection, Injection, IsInjective, SetToSeqs
<1>4. Carried(z, a) \in orders
  BY <1>3 DEF Carried
<1> DEFINE s == Carried(z, a)
<1>5. s \in [D -> S] /\ \A i, j \in D : i # j => s[i] # s[j]
  BY <1>4 DEF SetToSeqs
<1> HIDE DEF s, S, D
<1>6. s \in Injection(D, S)
  BY <1>5 DEF Injection, IsInjective
<1>7. s \in Surjection(D, S)
  BY <1>1, <1>6, FS_Injection
<1>8. o \in S
  BY DEF S
<1>9. \E i \in D : s[i] = o
  BY <1>7, <1>8 DEF Surjection
<1>10. DOMAIN s = D
  BY <1>5
<1> QED  BY <1>9, <1>10 DEF s

Listed(z) == UNION {z.holds[c] : c \in Container}

LEMMA ContentsListed ==
  ASSUME NEW z \in ZoneType, NEW c \in Container
  PROVE  Contents(z, c) \subseteq Listed(z)
BY ContentsHeld DEF Listed

(* What an Actor carries does not grow when none of the lists does that    *)
(* lead to it.                                                             *)
LEMMA ContentsShrink ==
  ASSUME NEW z \in ZoneType, NEW y \in ZoneType, NEW a \in Actor,
         \A c \in Container :
             (c \in {a} \cup Contents(z, a) \/ (c \in Listed(z) /\ c \notin z.objs))
                 => y.holds[c] \subseteq z.holds[c],
         y.objs \cap Listed(z) \subseteq z.objs
  PROVE  Contents(y, a) \subseteq Contents(z, a)
<1> DEFINE N == Cardinality(Object)
           f == CHOOSE g : g = [n \in 0..N |-> LevelBody(z, a, g, n)]
           h == CHOOSE g : g = [n \in 0..N |-> LevelBody(y, a, g, n)]
<1>1. N \in Nat
  BY ObjectCount
<1>2. /\ f = [n \in 0..N |-> LevelBody(z, a, f, n)]
      /\ h = [n \in 0..N |-> LevelBody(y, a, h, n)]
  <2> HIDE DEF N
  <2> QED  BY <1>1, LevelExists
<1>3. /\ Contents(z, a) = z.holds[a] \cup {x \in z.objs : \E n \in 1..N : x \in f[n]}
      /\ Contents(y, a) = y.holds[a] \cup {x \in y.objs : \E n \in 1..N : x \in h[n]}
  BY DEF Contents, LevelBody
<1> HIDE DEF N, f, h
<1>4. a \in Container /\ y.holds[a] \subseteq z.holds[a] /\ z.holds[a] \subseteq Listed(z)
  BY DEF Container, Listed
<1>5. z.holds \in [Container -> SUBSET Object] /\ Object \subseteq Container
  BY DEF ZoneType, Container
<1> DEFINE T == {n \in 0..N : h[n] \subseteq f[n] /\ f[n] \subseteq Listed(z)}
<1>6. 0 \in T
  BY <1>1, <1>2, <1>4 DEF LevelBody
<1>7. ASSUME NEW n \in 1..N, n - 1 \in T PROVE n \in T
  <2>1. n \in 0..N /\ n # 0 /\ n - 1 \in 0..N /\ (n - 1 # 0 => n - 1 \in 1..N)
    BY <1>1
  <2>2. h[n-1] \subseteq f[n-1] /\ f[n-1] \subseteq Listed(z)
    BY <1>7
  <2>3. /\ f[n] = UNION {z.holds[x] : x \in f[n-1]}
        /\ h[n] = UNION {y.holds[x] : x \in h[n-1]}
    BY <1>2, <2>1 DEF LevelBody
  <2>4. Listed(z) \subseteq Container
    BY <1>5 DEF Listed
  <2>5. ASSUME NEW x \in f[n-1] PROVE y.holds[x] \subseteq z.holds[x]
    <3>1. x \in Container /\ x \in Listed(z)
      BY <2>2, <2>4
    <3>2. CASE x \in z.objs
      <4>1. CASE n - 1 = 0
        <5>1. x \in z.holds[a]
          BY <1>2, <2>1, <4>1 DEF LevelBody
        <5> QED  BY <1>3, <3>1, <5>1
      <4>2. CASE n - 1 # 0
        BY <1>3, <2>1, <3>1, <3>2, <4>2
      <4> QED  BY <4>1, <4>2
    <3> QED  BY <3>1, <3>2
  <2>6. h[n] \subseteq f[n]
    BY <2>2, <2>3, <2>5
  <2>7. f[n] \subseteq Listed(z)
    BY <2>2, <2>3, <2>4 DEF Listed
  <2> QED  BY <2>1, <2>6, <2>7
<1>8. T = 0..N
  <2>1. T \subseteq 0..N
    OBVIOUS
  <2> HIDE DEF T
  <2> QED  BY <1>1, <1>6, <1>7, <2>1, Along
<1> SUFFICES ASSUME NEW o \in Contents(y, a) PROVE o \in Contents(z, a)
  OBVIOUS
<1>9. CASE o \in y.holds[a]
  BY <1>3, <1>4, <1>9
<1>10. ASSUME o \in y.objs, NEW n \in 1..N, o \in h[n] PROVE o \in Contents(z, a)
  <2>1. n \in 0..N
    BY <1>1
  <2>2. o \in f[n] /\ o \in Listed(z)
    BY <1>8, <1>10, <2>1
  <2> QED  BY <1>3, <1>10, <2>2
<1> QED  BY <1>3, <1>9, <1>10

(* What events the commands make: each names what the Actor carries.       *)
LEMMA MigrateInThings ==
  ASSUME NEW z \in ZoneType, NEW a \in Actor, NEW l \in Location
  PROVE  LET w == MigrateInEvents(z, a, l) IN
         /\ w \in Seq(Event)
         /\ \A x \in Members(w) : /\ x.kind \in {"actorIn", "objectIn"}
                                  /\ x.kind = "objectIn" => x.obj \in Contents(z, a)
         /\ \A o \in Contents(z, a) : \E x \in Members(w) : Enters(x) /\ x.obj = o
<1> DEFINE w == MigrateInEvents(z, a, l)
           objs == Carried(z, a)
           e == [kind |-> "actorIn", actor |-> a, hp |-> z.hp[a], loc |-> l]
           q == [i \in DOMAIN objs |->
                   [kind |-> "objectIn", obj |-> objs[i], in |-> Holder(z, objs[i]),
                    worn |-> objs[i] \in z.worn]]
           S == {e} \cup {q[i] : i \in DOMAIN objs}
<1>1. w \in Seq(Event)
  <2>1. PICK c \in Event, r \in Seq(Event) : w = <<c>> \o r /\ Comes(c) /\ Quiet(r)
    BY MigrateInList
  <2> HIDE DEF w
  <2> QED  BY <2>1, EntryActors
<1>2. objs \in Seq(Contents(z, a)) /\ \A o \in Contents(z, a) : \E i \in DOMAIN objs : objs[i] = o
  BY CarriedType, CarriedAll
<1>3. \A i \in DOMAIN objs : objs[i] \in Contents(z, a)
  BY <1>2, LenProperties, ElementOfSeq
<1>4. w = <<e>> \o q
  BY DEF MigrateInEvents
<1> HIDE DEF objs
<1>5. /\ \A i \in DOMAIN objs : q[i] \in S /\ q[i].kind = "objectIn" /\ q[i].obj = objs[i]
      /\ q = [i \in DOMAIN objs |-> q[i]]
      /\ e \in S /\ e.kind = "actorIn"
  OBVIOUS
<1> HIDE DEF e, q, w, S
<1>6. q \in Seq(S) /\ DOMAIN objs = 1..Len(q)
  BY <1>2, <1>5, OneForOne
<1>7. Members(w) = {e} \cup Members(q)
  <2>1. e \in S /\ q \in Seq(S)
    BY <1>5, <1>6
  <2>2. Members(<<e>> \o q) = {e} \cup Members(q)
    BY <2>1, MembersAndOne
  <2> QED  BY <1>4, <2>2
<1>8. Members(q) = {q[i] : i \in DOMAIN objs}
  BY <1>6 DEF Members
<1>9. \A x \in Members(w) : /\ x.kind \in {"actorIn", "objectIn"}
                            /\ x.kind = "objectIn" => x.obj \in Contents(z, a)
  BY <1>3, <1>5, <1>7, <1>8
<1>10. ASSUME NEW o \in Contents(z, a) PROVE \E x \in Members(w) : Enters(x) /\ x.obj = o
  <2>1. PICK i \in DOMAIN objs : objs[i] = o
    BY <1>2
  <2> QED  BY <1>5, <1>7, <1>8, <2>1 DEF Enters
<1> QED  BY <1>1, <1>9, <1>10 DEF w

LEMMA MigrateOutThings ==
  ASSUME NEW z \in ZoneType, NEW a \in Actor
  PROVE  LET w == MigrateOutEvents(z, a) IN
         /\ w \in Seq(Event)
         /\ \A x \in Members(w) : /\ x.kind \in {"objectOut", "actorOut"}
                                  /\ x.kind = "objectOut" => x.obj \in Contents(z, a)
<1> DEFINE w == MigrateOutEvents(z, a)
           objs == Carried(z, a)
           e == [kind |-> "actorOut", actor |-> a]
           q == [i \in DOMAIN objs |-> [kind |-> "objectOut", obj |-> objs[i]]]
           S == {e} \cup {q[i] : i \in DOMAIN objs}
<1>1. w \in Seq(Event)
  <2>1. PICK c \in Event, r \in Seq(Event) : w = r \o <<c>> /\ Goes(c) /\ Quiet(r)
    BY MigrateOutList
  <2> HIDE DEF w
  <2> QED  BY <2>1, ExitActors
<1>2. objs \in Seq(Contents(z, a))
  BY CarriedType
<1>3. \A i \in DOMAIN objs : objs[i] \in Contents(z, a)
  BY <1>2, LenProperties, ElementOfSeq
<1>4. w = q \o <<e>>
  BY DEF MigrateOutEvents
<1> HIDE DEF objs
<1>5. /\ \A i \in DOMAIN objs : q[i] \in S /\ q[i].kind = "objectOut" /\ q[i].obj = objs[i]
      /\ q = [i \in DOMAIN objs |-> q[i]]
      /\ e \in S /\ e.kind = "actorOut"
  OBVIOUS
<1> HIDE DEF e, q, w, S
<1>6. q \in Seq(S) /\ DOMAIN objs = 1..Len(q)
  BY <1>2, <1>5, OneForOne
<1>7. Members(w) = Members(q) \cup {e}
  BY <1>4, <1>5, <1>6, MembersAndOne
<1>8. Members(q) = {q[i] : i \in DOMAIN objs}
  BY <1>6 DEF Members
<1> QED  BY <1>1, <1>3, <1>5, <1>7, <1>8 DEF w

LEMMA DeathThings ==
  ASSUME NEW z \in ZoneType, NEW a \in Actor, z.at[a] \in Location, NEW k \in Corpse
  PROVE  LET w == DeathEvents(z, a, k) IN
         /\ w \in Seq(Event)
         /\ \A x \in Members(w) :
                /\ x.kind \in {"death", "objectAdd", "relocate", "actorRemove"}
                /\ x.kind = "objectAdd" => x.obj = k /\ x.loc = z.at[a]
                /\ x.kind = "relocate" => x.obj \in Contents(z, a) /\ x.to = k
         /\ \E x \in Members(w) : Enters(x) /\ x.obj = k
<1> DEFINE w == DeathEvents(z, a, k)
           objs == Carried(z, a)
           d == [kind |-> "death", actor |-> a]
           c == [kind |-> "objectAdd", obj |-> k, loc |-> z.at[a]]
           p == <<d, c>>
           r == [i \in DOMAIN objs |-> [kind |-> "relocate", obj |-> objs[i], to |-> k]]
           e == [kind |-> "actorRemove", actor |-> a]
           S == {c, d, e} \cup {r[i] : i \in DOMAIN objs}
<1>1. w \in Seq(Event)
  <2>1. PICK x \in Event, q \in Seq(Event) : w = q \o <<x>> /\ Goes(x) /\ Quiet(q)
    BY DeathList
  <2> HIDE DEF w
  <2> QED  BY <2>1, ExitActors
<1>2. objs \in Seq(Contents(z, a))
  BY CarriedType
<1>3. \A i \in DOMAIN objs : objs[i] \in Contents(z, a)
  BY <1>2, LenProperties, ElementOfSeq
<1>4. w = (p \o r) \o <<e>>
  BY DEF DeathEvents
<1> HIDE DEF objs
<1>5. /\ \A i \in DOMAIN objs : /\ r[i] \in S /\ r[i].kind = "relocate"
                                /\ r[i].obj = objs[i] /\ r[i].to = k
      /\ r = [i \in DOMAIN objs |-> r[i]]
      /\ d \in S /\ d.kind = "death" /\ e \in S /\ e.kind = "actorRemove"
      /\ c \in S /\ c.kind = "objectAdd" /\ c.obj = k /\ c.loc = z.at[a]
  OBVIOUS
<1> HIDE DEF c, d, e, r, w, S
<1>6. r \in Seq(S) /\ DOMAIN objs = 1..Len(r)
  BY <1>2, <1>5, OneForOne
<1>7. p \in Seq(S) /\ Members(p) = {d, c}
  <2>1. p \in Seq(S) /\ Len(p) = 2 /\ p[1] = d /\ p[2] = c
    BY <1>5
  <2> HIDE DEF p
  <2>2. 1..Len(p) = {1, 2}
    BY <2>1
  <2> QED  BY <2>1, <2>2 DEF Members
<1> HIDE DEF p
<1>8. p \o r \in Seq(S) /\ Members(p \o r) = Members(p) \cup Members(r)
  BY <1>6, <1>7, ConcatProperties, MembersOfTwo
<1> DEFINE q == p \o r
<1> HIDE DEF q
<1>9. q \in Seq(S) /\ Members(q) = {d, c} \cup Members(r) /\ w = q \o <<e>>
  BY <1>4, <1>7, <1>8 DEF q
<1>10. Members(w) = Members(q) \cup {e}
  BY <1>5, <1>9, MembersAndOne
<1>11. Members(r) = {r[i] : i \in DOMAIN objs}
  BY <1>6 DEF Members
<1>12. \A x \in Members(w) : x \in {c, d, e} \/ \E i \in DOMAIN objs : x = r[i]
  BY <1>9, <1>10, <1>11
<1>13. \A x \in Members(w) :
          /\ x.kind \in {"death", "objectAdd", "relocate", "actorRemove"}
          /\ x.kind = "objectAdd" => x.obj = k /\ x.loc = z.at[a]
          /\ x.kind = "relocate" => x.obj \in Contents(z, a) /\ x.to = k
  BY <1>3, <1>5, <1>12
<1>14. \E x \in Members(w) : Enters(x) /\ x.obj = k
  BY <1>5, <1>9, <1>10 DEF Enters
<1> QED  BY <1>1, <1>13, <1>14 DEF w

-----------------------------------------------------------------------------
(* The invariant about Objects.  What is in a list is in the map of some   *)
(* Zone, in memory and in the log; an event to be persisted moves only     *)
(* what some log has; what a Zone knows of is in some log, or an event     *)
(* still to be persisted brings it there; what an Actor carries in the     *)
(* Zone it leaves is in the new Zone, and is in its log by the time it     *)
(* answers; and so an Object goes from a Zone's log only when it is in     *)
(* another's.                                                              *)

InMemory == UNION {zone[z].objs : z \in ZoneId}
OnDisk   == UNION {disk[z].objs : z \in ZoneId}

Pending(z, o) == \E x \in Members(writing[z]) : Enters(x) /\ x.obj = o

Remembered == \A z \in ZoneId : Listed(zone[z]) \subseteq InMemory
Logged     == \A z \in ZoneId : Listed(disk[z]) \subseteq OnDisk
Movable    ==
    \A z \in ZoneId : \A x \in Members(writing[z]) :
        Lists(x) /\ ~Enters(x) => x.obj \in OnDisk
Covered ==
    \A z \in ZoneId : \A o \in Listed(zone[z]) \cup zone[z].objs :
        o \in OnDisk \/ Pending(z, o)
Copied ==
    serving # Nil /\ serving.stage \in {"in", "copied"} =>
        \A o \in Contents(zone[asked[serving.actor].src], serving.actor) :
            /\ o \in zone[asked[serving.actor].dst].objs
            /\ \/ o \in disk[asked[serving.actor].dst].objs
               \/ serving.stage = "in" /\ Pending(asked[serving.actor].dst, o)
Outgoing ==
    \A z \in ZoneId : \A x \in Members(writing[z]) :
        x.kind = "objectOut" =>
            /\ serving # Nil /\ serving.stage = "out" /\ z = asked[serving.actor].src
            /\ x.obj \in zone[asked[serving.actor].dst].objs
            /\ x.obj \in disk[asked[serving.actor].dst].objs
Safe == Item \subseteq InMemory /\ Item \subseteq OnDisk

ThingInv ==
    /\ Remembered /\ Logged /\ Movable /\ Covered
    /\ Copied /\ Outgoing /\ Safe

LEMMA MembersNone == Members(<<>>) = {}
BY DEF Members

LEMMA EventMembers ==
  ASSUME NEW w \in Seq(Event)
  PROVE  Members(w) \subseteq Event
BY LenProperties, ElementOfSeq DEF Members

LEMMA HandleThings ==
  ASSUME TypeOK, NEW z \in ZoneId, NEW w \in Seq(Event), Handle(z, w)
  PROVE  /\ Members(writing[z]) = {} /\ Members(w) \subseteq Event
         /\ zone[z] \in ZoneType /\ zone'[z] \in ZoneType /\ disk' = disk
         /\ writing'[z] = w
         /\ \A y \in ZoneId \ {z} : zone'[y] = zone[y] /\ writing'[y] = writing[y]
         /\ \A o \in zone'[z].objs :
                o \in zone[z].objs \/ \E x \in Members(w) : Enters(x) /\ x.obj = o
         /\ \A c \in Container : \A o \in zone'[z].holds[c] :
                \/ o \in zone[z].holds[c]
                \/ \E x \in Members(w) : Lists(x) /\ Into(x, c) /\ x.obj = o
         /\ \A o \in zone[z].objs :
                (\A x \in Members(w) : ~Takes(x, o)) => o \in zone'[z].objs
         /\ (\A x \in Members(w) : x.kind # "objectOut") =>
                \A x \in Members(w) : Enters(x) => x.obj \in zone'[z].objs
<1>1. /\ zone \in [ZoneId -> ZoneType] /\ writing \in [ZoneId -> Seq(Event)]
      /\ zone' = [zone EXCEPT ![z] = AfterAll(zone[z], w)]
      /\ writing' = [writing EXCEPT ![z] = w] /\ writing[z] = <<>> /\ disk' = disk
  BY DEF TypeOK, Handle
<1>2. /\ zone'[z] = AfterAll(zone[z], w) /\ zone[z] \in ZoneType
      /\ writing'[z] = w /\ disk' = disk /\ Members(writing[z]) = {}
      /\ \A y \in ZoneId \ {z} : zone'[y] = zone[y] /\ writing'[y] = writing[y]
  BY <1>1, MembersNone
<1> QED  BY <1>2, AfterAllThings, EventMembers

(* A command loses no Object that is in a list or on its way to a log, if  *)
(* it loses none in memory and lists only what there is.                   *)
LEMMA RunKeeps ==
  ASSUME TypeOK, ThingInv, NEW z \in ZoneId, NEW w \in Seq(Event), Handle(z, w),
         InMemory \subseteq InMemory',
         \A x \in Members(w) : Lists(x) => x.obj \in InMemory' /\ (~Enters(x) => x.obj \in OnDisk)
  PROVE  Remembered' /\ Logged' /\ Movable' /\ Covered' /\ Safe' /\ OnDisk' = OnDisk
<1>1. /\ Members(writing[z]) = {} /\ Members(w) \subseteq Event
      /\ zone[z] \in ZoneType /\ zone'[z] \in ZoneType /\ disk' = disk
      /\ writing'[z] = w
      /\ \A y \in ZoneId \ {z} : zone'[y] = zone[y] /\ writing'[y] = writing[y]
      /\ \A o \in zone'[z].objs :
             o \in zone[z].objs \/ \E x \in Members(w) : Enters(x) /\ x.obj = o
      /\ \A c \in Container : \A o \in zone'[z].holds[c] :
             \/ o \in zone[z].holds[c]
             \/ \E x \in Members(w) : Lists(x) /\ Into(x, c) /\ x.obj = o
  BY HandleThings
<1>2. OnDisk' = OnDisk
  BY <1>1 DEF OnDisk
<1>3. Logged' /\ Safe'
  BY <1>1, <1>2 DEF ThingInv, Logged, Safe
<1>4. \A o \in Listed(zone'[z]) : o \in Listed(zone[z]) \/ \E x \in Members(w) : Lists(x) /\ x.obj = o
  BY <1>1 DEF Listed
<1>5. Remembered'
  <2> SUFFICES ASSUME NEW y \in ZoneId, NEW o \in Listed(zone'[y]) PROVE o \in InMemory'
    BY DEF Remembered
  <2>1. CASE y = z
    BY <1>4, <2>1 DEF ThingInv, Remembered
  <2>2. CASE y # z
    <3>1. o \in Listed(zone[y])
      BY <1>1, <2>2
    <3> QED  BY <3>1 DEF ThingInv, Remembered
  <2> QED  BY <2>1, <2>2
<1>6. Movable'
  <2> SUFFICES ASSUME NEW y \in ZoneId, NEW x \in Members(writing'[y]), Lists(x), ~Enters(x)
               PROVE  x.obj \in OnDisk'
    BY DEF Movable
  <2>1. CASE y = z
    BY <1>1, <1>2, <2>1
  <2>2. CASE y # z
    BY <1>1, <1>2, <2>2 DEF ThingInv, Movable
  <2> QED  BY <2>1, <2>2
<1>7. Covered'
  <2> SUFFICES ASSUME NEW y \in ZoneId, NEW o \in Listed(zone'[y]) \cup zone'[y].objs
               PROVE  o \in OnDisk' \/ \E x \in Members(writing'[y]) : Enters(x) /\ x.obj = o
    BY DEF Covered, Pending
  <2>1. CASE y = z
    <3>1. \/ o \in Listed(zone[z]) \cup zone[z].objs
          \/ \E x \in Members(w) : Lists(x) /\ x.obj = o
          \/ \E x \in Members(w) : Enters(x) /\ x.obj = o
      BY <1>1, <1>4, <2>1
    <3>2. ASSUME o \in Listed(zone[z]) \cup zone[z].objs PROVE o \in OnDisk
      <4>1. o \in OnDisk \/ Pending(z, o)
        BY <3>2 DEF ThingInv, Covered
      <4> QED  BY <1>1, <4>1 DEF Pending
    <3>3. ASSUME NEW x \in Members(w), Lists(x), x.obj = o
          PROVE  o \in OnDisk \/ Enters(x)
      BY <3>3
    <3> QED  BY <1>1, <1>2, <2>1, <3>1, <3>2, <3>3
  <2>2. CASE y # z
    <3>1. zone'[y] = zone[y] /\ writing'[y] = writing[y]
      BY <1>1, <2>2
    <3> QED  BY <1>2, <3>1 DEF ThingInv, Covered, Pending
  <2> QED  BY <2>1, <2>2
<1> QED  BY <1>2, <1>3, <1>5, <1>6, <1>7

LEMMA ThingsUndisturbed ==
  ASSUME ThingInv, UNCHANGED <<zone, disk, writing, serving>>,
         serving # Nil => asked'[serving.actor] = asked[serving.actor]
  PROVE  ThingInv'
<1>1. InMemory' = InMemory /\ OnDisk' = OnDisk
  BY DEF InMemory, OnDisk
<1>2. \A y, o : Pending(y, o)' <=> Pending(y, o)
  BY DEF Pending
<1>3. Remembered' /\ Logged' /\ Movable' /\ Covered' /\ Safe'
  BY <1>1, <1>2 DEF ThingInv, Remembered, Logged, Movable, Covered, Safe
<1>4. Copied'
  BY <1>2 DEF ThingInv, Copied
<1>5. Outgoing'
  BY DEF ThingInv, Outgoing
<1> QED  BY <1>3, <1>4, <1>5 DEF ThingInv

(* Everything that the new Zone copies is there, or about to be written.   *)
LEMMA MigrateInKeeps ==
  ASSUME WorldInv, ThingInv, NEW a \in Actor, MigrateIn(a)
  PROVE  ThingInv'
<1> DEFINE s == asked[a].src
           d == asked[a].dst
           l == asked[a].to
           w == MigrateInEvents(zone[s], a, l)
<1>1. /\ serving = Nil /\ asked[a] # Nil /\ serving' = [actor |-> a, stage |-> "in"]
      /\ asked' = asked /\ Handle(d, w)
  BY DEF MigrateIn
<1>2. s \in ZoneId /\ d \in ZoneId /\ l \in Location /\ s # d
  BY <1>1, JourneyFacts DEF WorldInv, Underway
<1>3. TypeOK /\ zone[s] \in ZoneType
  BY <1>2 DEF WorldInv, TypeOK
<1>4. serving' # Nil /\ serving'.actor = a /\ serving'.stage = "in"
  <2> DEFINE e == [actor |-> a, stage |-> "in"]
  <2>1. e \in Errand /\ e.actor = a /\ e.stage = "in" /\ serving' = e
    BY <1>1 DEF Errand
  <2> HIDE DEF e
  <2> QED  BY <2>1, WorldAssumption
<1> HIDE DEF s, d, l
<1>5. /\ w \in Seq(Event)
      /\ \A x \in Members(w) : /\ x.kind \in {"actorIn", "objectIn"}
                               /\ x.kind = "objectIn" => x.obj \in Contents(zone[s], a)
      /\ \A o \in Contents(zone[s], a) : \E x \in Members(w) : Enters(x) /\ x.obj = o
  BY <1>2, <1>3, MigrateInThings
<1> HIDE DEF w
<1>6. /\ disk' = disk /\ writing'[d] = w
      /\ \A y \in ZoneId \ {d} : zone'[y] = zone[y] /\ writing'[y] = writing[y]
      /\ \A o \in zone[d].objs :
             (\A x \in Members(w) : ~Takes(x, o)) => o \in zone'[d].objs
      /\ (\A x \in Members(w) : x.kind # "objectOut") =>
             \A x \in Members(w) : Enters(x) => x.obj \in zone'[d].objs
  BY <1>1, <1>2, <1>3, <1>5, HandleThings
<1>7. \A x \in Members(w) : x.kind # "objectOut" /\ (Lists(x) => Enters(x))
  BY <1>5 DEF Lists, Enters
<1>8. zone[d].objs \subseteq zone'[d].objs
  BY <1>6, <1>7 DEF Takes
<1>9. InMemory \subseteq InMemory'
  BY <1>6, <1>8 DEF InMemory
<1>10. \A x \in Members(w) : Enters(x) => x.obj \in zone'[d].objs
  BY <1>6, <1>7
<1>11. Remembered' /\ Logged' /\ Movable' /\ Covered' /\ Safe'
  <2>1. \A x \in Members(w) : Lists(x) => x.obj \in InMemory' /\ (~Enters(x) => x.obj \in OnDisk)
    BY <1>2, <1>7, <1>10 DEF InMemory
  <2> QED  BY <1>1, <1>2, <1>3, <1>5, <1>9, <2>1, RunKeeps
<1>12. Copied'
  <2> SUFFICES ASSUME NEW o \in Contents(zone'[s], a)
               PROVE  /\ o \in zone'[d].objs
                      /\ \E x \in Members(writing'[d]) : Enters(x) /\ x.obj = o
    BY <1>1, <1>4 DEF Copied, Pending, s, d
  <2>1. o \in Contents(zone[s], a)
    BY <1>2, <1>6
  <2> QED  BY <1>5, <1>6, <1>10, <2>1
<1>13. Outgoing'
  <2> SUFFICES ASSUME NEW y \in ZoneId, NEW x \in Members(writing'[y]), x.kind = "objectOut"
               PROVE  FALSE
    BY DEF Outgoing
  <2>1. CASE y = d
    BY <1>6, <1>7, <2>1
  <2>2. CASE y # d
    BY <1>1, <1>6, <2>2 DEF ThingInv, Outgoing
  <2> QED  BY <2>1, <2>2
<1> QED  BY <1>11, <1>12, <1>13 DEF ThingInv

(* Everything that the old Zone removes is in the new one and in its log.  *)
LEMMA MigrateOutKeeps ==
  ASSUME WorldInv, ThingInv, MigrateOut
  PROVE  ThingInv'
<1> DEFINE a == serving.actor
           s == asked[a].src
           d == asked[a].dst
           w == MigrateOutEvents(zone[s], a)
<1>1. /\ serving # Nil /\ serving.stage = "copied" /\ serving' = [serving EXCEPT !.stage = "out"]
      /\ asked' = asked /\ Handle(s, w)
  BY DEF MigrateOut
<1>2. a \in Actor /\ s \in ZoneId /\ d \in ZoneId /\ s # d
  BY <1>1, JourneyFacts DEF WorldInv, Underway
<1>3. TypeOK /\ zone[s] \in ZoneType
  BY <1>2 DEF WorldInv, TypeOK
<1>4. serving' # Nil /\ serving'.actor = a /\ serving'.stage = "out"
  <2>1. serving' \in Errand /\ serving'.actor = a /\ serving'.stage = "out"
    BY <1>1 DEF WorldInv, TypeOK, Errand
  <2> QED  BY <2>1, WorldAssumption
<1>5. \A o \in Contents(zone[s], a) : o \in zone[d].objs /\ o \in disk[d].objs
  BY <1>1 DEF ThingInv, Copied
<1> HIDE DEF a, s, d
<1>6. /\ w \in Seq(Event)
      /\ \A x \in Members(w) : /\ x.kind \in {"objectOut", "actorOut"}
                               /\ x.kind = "objectOut" => x.obj \in Contents(zone[s], a)
  BY <1>2, <1>3, MigrateOutThings
<1> HIDE DEF w
<1>7. /\ disk' = disk /\ writing'[s] = w
      /\ \A y \in ZoneId \ {s} : zone'[y] = zone[y] /\ writing'[y] = writing[y]
      /\ \A o \in zone[s].objs :
             (\A x \in Members(w) : ~Takes(x, o)) => o \in zone'[s].objs
  BY <1>1, <1>2, <1>3, <1>6, HandleThings
<1>8. InMemory \subseteq InMemory'
  <2> SUFFICES ASSUME NEW y \in ZoneId, NEW o \in zone[y].objs PROVE \E k \in ZoneId : o \in zone'[k].objs
    BY DEF InMemory
  <2>1. CASE y # s
    BY <1>7, <2>1
  <2>2. CASE y = s /\ \A x \in Members(w) : ~Takes(x, o)
    BY <1>7, <2>2
  <2>3. ASSUME NEW x \in Members(w), Takes(x, o) PROVE \E k \in ZoneId : o \in zone'[k].objs
    <3>1. o \in zone[d].objs
      BY <1>5, <1>6, <2>3 DEF Takes
    <3> QED  BY <1>2, <1>7, <3>1
  <2> QED  BY <2>1, <2>2, <2>3
<1>9. Remembered' /\ Logged' /\ Movable' /\ Covered' /\ Safe'
  <2>1. \A x \in Members(w) : ~Lists(x)
    BY <1>6 DEF Lists
  <2> QED  BY <1>1, <1>2, <1>3, <1>6, <1>8, <2>1, RunKeeps
<1>10. Copied'
  BY <1>4 DEF Copied
<1>11. Outgoing'
  <2> SUFFICES ASSUME NEW y \in ZoneId, NEW x \in Members(writing'[y]), x.kind = "objectOut"
               PROVE  y = s /\ x.obj \in zone'[d].objs /\ x.obj \in disk'[d].objs
    BY <1>1, <1>4 DEF Outgoing, a, s, d
  <2>1. CASE y = s
    <3>1. x.obj \in zone[d].objs /\ x.obj \in disk[d].objs
      BY <1>5, <1>6, <1>7, <2>1
    <3> QED  BY <1>2, <1>7, <2>1, <3>1
  <2>2. CASE y # s
    BY <1>1, <1>7, <2>2 DEF ThingInv, Outgoing
  <2> QED  BY <2>1, <2>2
<1> QED  BY <1>9, <1>10, <1>11 DEF ThingInv

LEMMA MigrateOutFailsKeeps ==
  ASSUME WorldInv, ThingInv, MigrateOutFails
  PROVE  ThingInv'
<1>1. /\ serving # Nil /\ serving.stage = "copied" /\ serving' = Nil
      /\ UNCHANGED <<zone, disk, writing>>
  BY DEF MigrateOutFails
<1>2. InMemory' = InMemory /\ OnDisk' = OnDisk
  BY <1>1 DEF InMemory, OnDisk
<1>3. \A y, o : Pending(y, o)' <=> Pending(y, o)
  BY <1>1 DEF Pending
<1>4. Remembered' /\ Logged' /\ Movable' /\ Covered' /\ Safe'
  BY <1>1, <1>2, <1>3 DEF ThingInv, Remembered, Logged, Movable, Covered, Safe
<1>5. Copied' /\ Outgoing'
  BY <1>1 DEF ThingInv, Copied, Outgoing
<1> QED  BY <1>4, <1>5 DEF ThingInv

(* A command of anybody else: it takes no Object from the Zone, moves only *)
(* what is in a list, and adds nothing to what a traveller carries that    *)
(* is copied and not yet removed.                                          *)
LEMMA OthersKeep ==
  ASSUME WorldInv, ThingInv, NEW z \in ZoneId, NEW w \in Seq(Event), Handle(z, w),
         UNCHANGED <<asked, serving>>,
         \A x \in Members(w) : x.kind # "objectOut",
         \A x \in Members(w) : Lists(x) /\ ~Enters(x) => x.obj \in Listed(zone[z]),
         \A b \in Actor : Leaving(z, b) => Contents(zone'[z], b) \subseteq Contents(zone[z], b)
  PROVE  ThingInv'
<1>1. TypeOK
  BY DEF WorldInv
<1>2. /\ Members(writing[z]) = {} /\ disk' = disk /\ writing'[z] = w
      /\ \A y \in ZoneId \ {z} : zone'[y] = zone[y] /\ writing'[y] = writing[y]
      /\ \A o \in zone[z].objs : o \in zone'[z].objs
      /\ \A x \in Members(w) : Enters(x) => x.obj \in zone'[z].objs
  <2>1. \A x \in Members(w) : \A o : ~Takes(x, o)
    BY DEF Takes
  <2> QED  BY <1>1, <2>1, HandleThings
<1>3. \A y \in ZoneId : zone[y].objs \subseteq zone'[y].objs
  BY <1>2
<1>4. InMemory \subseteq InMemory'
  BY <1>3 DEF InMemory
<1>5. Remembered' /\ Logged' /\ Movable' /\ Covered' /\ Safe'
  <2>1. ASSUME NEW x \in Members(w), Lists(x)
        PROVE  x.obj \in InMemory' /\ (~Enters(x) => x.obj \in OnDisk)
    <3>1. CASE Enters(x)
      BY <1>2, <3>1 DEF InMemory
    <3>2. CASE ~Enters(x)
      <4>1. x.obj \in Listed(zone[z])
        BY <2>1, <3>2
      <4>2. x.obj \in InMemory
        BY <4>1 DEF ThingInv, Remembered
      <4>3. x.obj \in OnDisk
        BY <1>2, <4>1 DEF ThingInv, Covered, Pending
      <4> QED  BY <1>4, <4>2, <4>3
    <3> QED  BY <3>1, <3>2
  <2> QED  BY <1>1, <1>4, <2>1, RunKeeps
<1>6. Copied'
  <2> SUFFICES ASSUME serving # Nil, serving.stage \in {"in", "copied"},
                      NEW o \in Contents(zone'[asked[serving.actor].src], serving.actor)
               PROVE  /\ o \in zone'[asked[serving.actor].dst].objs
                      /\ \/ o \in disk'[asked[serving.actor].dst].objs
                         \/ /\ serving.stage = "in"
                            /\ \E x \in Members(writing'[asked[serving.actor].dst]) :
                                   Enters(x) /\ x.obj = o
    BY DEF Copied, Pending
  <2> DEFINE a == serving.actor
             s == asked[a].src
             d == asked[a].dst
  <2>1. a \in Actor /\ s \in ZoneId /\ d \in ZoneId
    BY <1>1, JourneyFacts DEF WorldInv, Underway
  <2>2. o \in Contents(zone[s], a)
    <3>1. CASE s = z
      <4>1. Leaving(z, a)
        BY <3>1 DEF Leaving
      <4> HIDE DEF a, s, d
      <4>2. o \in Contents(zone'[s], a)
        BY DEF a, s
      <4> QED  BY <2>1, <3>1, <4>1, <4>2
    <3>2. CASE s # z
      BY <1>2, <2>1, <3>2
    <3> QED  BY <3>1, <3>2
  <2>3. o \in zone[d].objs /\ (o \in disk[d].objs \/ (serving.stage = "in" /\ Pending(d, o)))
    BY <2>2 DEF ThingInv, Copied
  <2> HIDE DEF a, s, d
  <2>4. Pending(d, o) => \E x \in Members(writing'[d]) : Enters(x) /\ x.obj = o
    <3>1. CASE d = z
      BY <1>2, <3>1 DEF Pending
    <3>2. CASE d # z
      BY <1>2, <2>1, <3>2 DEF Pending
    <3> QED  BY <3>1, <3>2
  <2>5. /\ o \in zone'[d].objs
        /\ \/ o \in disk'[d].objs
           \/ serving.stage = "in" /\ \E x \in Members(writing'[d]) : Enters(x) /\ x.obj = o
    BY <1>2, <1>3, <2>1, <2>3, <2>4
  <2> QED  BY <2>5 DEF a, d
<1>7. Outgoing'
  <2> SUFFICES ASSUME NEW y \in ZoneId, NEW x \in Members(writing'[y]), x.kind = "objectOut"
               PROVE  /\ serving # Nil /\ serving.stage = "out" /\ y = asked[serving.actor].src
                      /\ x.obj \in zone'[asked[serving.actor].dst].objs
                      /\ x.obj \in disk'[asked[serving.actor].dst].objs
    BY DEF Outgoing
  <2>1. y # z
    BY <1>2
  <2>2. writing'[y] = writing[y]
    BY <1>2, <2>1
  <2>3. /\ serving # Nil /\ serving.stage = "out" /\ y = asked[serving.actor].src
        /\ x.obj \in zone[asked[serving.actor].dst].objs
        /\ x.obj \in disk[asked[serving.actor].dst].objs
    BY <2>2 DEF ThingInv, Outgoing
  <2>4. asked[serving.actor].dst \in ZoneId
    BY <1>1, <2>3, JourneyFacts DEF WorldInv, Underway
  <2> QED  BY <1>2, <1>3, <2>3, <2>4
<1> QED  BY <1>5, <1>6, <1>7 DEF ThingInv

LEMMA MoveObjectKeeps ==
  ASSUME Gives = {}, WorldInv, ThingInv,
         NEW z \in ZoneId, NEW who \in Actor, NEW from \in Container, NEW to \in Container,
         NEW o \in zone[z].holds[from], MoveObject(z, who, o, from, to)
  PROVE  ThingInv'
<1> DEFINE e == [kind |-> "objectMove", obj |-> o, from |-> from, to |-> to]
           w == <<e>>
<1>1. /\ \A b \in Actor : Leaving(z, b) => to \notin {b} \cup Contents(zone[z], b)
      /\ CanMoveObject(zone[z], who, o, from, to) /\ Handle(z, w)
      /\ UNCHANGED <<asked, serving>>
  BY DEF MoveObject
<1>2. TypeOK /\ zone[z] \in ZoneType
  BY DEF WorldInv, TypeOK
<1>3. o \in Object /\ o \in Listed(zone[z])
  BY <1>2 DEF ZoneType, Listed
<1>4. /\ e \in Event /\ e.kind = "objectMove" /\ e.obj = o /\ e.to = to
  BY <1>3 DEF Event
<1> HIDE DEF e
<1>5. w \in Seq(Event) /\ Members(w) = {e}
  <2>1. w \in Seq(Event) /\ Len(w) = 1 /\ w[1] = e
    BY <1>4, OneEvent
  <2> HIDE DEF w
  <2>2. 1..Len(w) = {1}
    BY <2>1
  <2> QED  BY <2>1, <2>2 DEF Members
<1> HIDE DEF w
<1>6. ASSUME NEW b \in Actor, Leaving(z, b)
      PROVE  Contents(zone'[z], b) \subseteq Contents(zone[z], b)
  <2>1. /\ zone'[z] \in ZoneType
        /\ \A x \in zone'[z].objs :
               x \in zone[z].objs \/ \E m \in Members(w) : Enters(m) /\ m.obj = x
        /\ \A c \in Container : \A x \in zone'[z].holds[c] :
               \/ x \in zone[z].holds[c]
               \/ \E m \in Members(w) : Lists(m) /\ Into(m, c) /\ m.obj = x
    BY <1>1, <1>2, <1>5, HandleThings
  <2>2. zone'[z].objs \subseteq zone[z].objs
    BY <1>4, <1>5, <2>1 DEF Enters
  <2>3. ASSUME NEW c \in Container, c # to PROVE zone'[z].holds[c] \subseteq zone[z].holds[c]
    BY <1>4, <1>5, <2>1, <2>3 DEF Into
  <2>4. to \notin {b} \cup Contents(zone[z], b)
    BY <1>1, <1>6
  <2>5. to \in Listed(zone[z]) => to \in zone[z].objs
    <3>1. to \in zone[z].locs \cup zone[z].actors \cup zone[z].objs
      BY <1>1 DEF CanMoveObject, Known
    <3>2. zone[z].locs \subseteq Location /\ zone[z].actors \subseteq Actor
      BY <1>2 DEF ZoneType
    <3>3. Listed(zone[z]) \subseteq Object
      BY <1>2 DEF ZoneType, Listed
    <3> QED  BY <3>1, <3>2, <3>3, ConstantsAssumption
  <2> QED  BY <1>2, <2>1, <2>2, <2>3, <2>4, <2>5, ContentsShrink
<1>7. /\ \A x \in Members(w) : x.kind # "objectOut"
      /\ \A x \in Members(w) : x.obj \in Listed(zone[z])
  BY <1>3, <1>4, <1>5
<1> QED  BY <1>1, <1>5, <1>6, <1>7, OthersKeep

LEMMA DieKeeps ==
  ASSUME WorldInv, ThingInv, NEW z \in ZoneId, NEW a \in Actor, NEW k \in Corpse, Die(z, a, k)
  PROVE  ThingInv'
<1> DEFINE w == DeathEvents(zone[z], a, k)
<1>1. /\ zone[z].at[a] # Nil /\ \A y \in ZoneId : k \notin zone[y].objs
      /\ Handle(z, w) /\ UNCHANGED <<asked, serving>>
  BY DEF Die
<1>2. TypeOK /\ zone[z] \in ZoneType /\ zone[z].at[a] \in Location
  BY <1>1 DEF WorldInv, TypeOK, ZoneType
<1>3. /\ w \in Seq(Event)
      /\ \A x \in Members(w) :
             /\ x.kind \in {"death", "objectAdd", "relocate", "actorRemove"}
             /\ x.kind = "objectAdd" => x.obj = k /\ x.loc = zone[z].at[a]
             /\ x.kind = "relocate" => x.obj \in Contents(zone[z], a) /\ x.to = k
  BY <1>2, DeathThings
<1> HIDE DEF w
<1>4. k \notin Listed(zone[z])
  BY <1>1 DEF ThingInv, Remembered, InMemory
<1>5. Listed(zone[z]) \subseteq Object /\ k \in Object
  BY <1>2 DEF ZoneType, Listed, Object
<1>6. ASSUME NEW b \in Actor
      PROVE  Contents(zone'[z], b) \subseteq Contents(zone[z], b)
  <2>1. /\ zone'[z] \in ZoneType
        /\ \A x \in zone'[z].objs :
               x \in zone[z].objs \/ \E m \in Members(w) : Enters(m) /\ m.obj = x
        /\ \A c \in Container : \A x \in zone'[z].holds[c] :
               \/ x \in zone[z].holds[c]
               \/ \E m \in Members(w) : Lists(m) /\ Into(m, c) /\ m.obj = x
    BY <1>1, <1>2, <1>3, HandleThings
  <2>2. zone'[z].objs \subseteq zone[z].objs \cup {k}
    BY <1>3, <2>1 DEF Enters
  <2>3. ASSUME NEW c \in Container, c # k, c # zone[z].at[a]
        PROVE  zone'[z].holds[c] \subseteq zone[z].holds[c]
    BY <1>3, <2>1, <2>3 DEF Into
  <2>4. Contents(zone[z], b) \subseteq Listed(zone[z])
    BY <1>2, ContentsListed DEF Container
  <2>5. \A c \in {b} \cup Listed(zone[z]) : c # k /\ c # zone[z].at[a]
    BY <1>2, <1>4, <1>5, ConstantsAssumption
  <2> QED  BY <1>2, <1>4, <2>1, <2>2, <2>3, <2>4, <2>5, ContentsShrink
<1>7. \A x \in Members(w) : Lists(x) /\ ~Enters(x) => x.obj \in Listed(zone[z])
  <2>1. Contents(zone[z], a) \subseteq Listed(zone[z])
    BY <1>2, ContentsListed DEF Container
  <2> QED  BY <1>3, <2>1 DEF Lists, Enters
<1>8. \A x \in Members(w) : x.kind # "objectOut"
  BY <1>3
<1> QED  BY <1>1, <1>3, <1>6, <1>7, <1>8, OthersKeep

LEMMA HeadAndTail ==
  ASSUME NEW w \in Seq(Event), w # <<>>
  PROVE  Head(w) \in Event /\ Members(w) = {Head(w)} \cup Members(Tail(w))
<1>1. /\ Head(w) \in Event /\ Tail(w) \in Seq(Event) /\ Len(w) \in Nat \ {0}
      /\ Len(Tail(w)) = Len(w) - 1 /\ Head(w) = w[1]
      /\ \A i \in 1..Len(Tail(w)) : Tail(w)[i] = w[i + 1]
  BY HeadTailProperties, LenProperties, EmptySeq
<1> DEFINE t == Tail(w)
<1> HIDE DEF t
<1>2. ASSUME NEW i \in 1..Len(w) PROVE w[i] \in {w[1]} \cup Members(t)
  <2>1. CASE i = 1
    BY <2>1
  <2>2. CASE i # 1
    <3>1. i - 1 \in 1..Len(t) /\ (i - 1) + 1 = i
      BY <1>1, <2>2 DEF t
    <3>2. t[i - 1] = w[i]
      BY <1>1, <3>1 DEF t
    <3> QED  BY <3>1, <3>2 DEF Members
  <2> QED  BY <2>1, <2>2
<1>3. ASSUME NEW i \in 1..Len(t) PROVE t[i] \in Members(w)
  <2>1. i + 1 \in 1..Len(w) /\ t[i] = w[i + 1]
    BY <1>1 DEF t
  <2> QED  BY <2>1 DEF Members
<1>4. w[1] \in Members(w)
  <2>1. 1 \in 1..Len(w)
    BY <1>1
  <2> QED  BY <2>1 DEF Members
<1>5. Members(w) = {w[1]} \cup Members(t)
  <2>1. Members(w) \subseteq {w[1]} \cup Members(t)
    BY <1>2 DEF Members
  <2>2. Members(t) \subseteq Members(w)
    BY <1>3 DEF Members
  <2> QED  BY <1>4, <2>1, <2>2
<1> QED  BY <1>1, <1>5 DEF t

(* An event that takes an Object from a log is persisted when the Object   *)
(* is in the log of another Zone.                                          *)
LEMMA PersistKeeps ==
  ASSUME WorldInv, ThingInv, NEW z \in ZoneId, Persist(z)
  PROVE  ThingInv'
<1> DEFINE e == Head(writing[z])
           rest == Members(Tail(writing[z]))
<1>1. /\ writing[z] # <<>> /\ zone' = zone
      /\ disk' = [disk EXCEPT ![z] = Apply(disk[z], e)]
      /\ writing' = [writing EXCEPT ![z] = Tail(writing[z])]
  BY DEF Persist
<1>2. /\ TypeOK /\ disk \in [ZoneId -> ZoneType] /\ disk[z] \in ZoneType
      /\ writing \in [ZoneId -> Seq(Event)]
  BY DEF WorldInv, TypeOK
<1>3. e \in Event /\ Members(writing[z]) = {e} \cup rest
  BY <1>1, <1>2, HeadAndTail
<1> HIDE DEF e
<1>4. /\ disk'[z] = Apply(disk[z], e) /\ Members(writing'[z]) = rest
      /\ \A y \in ZoneId \ {z} : disk'[y] = disk[y] /\ writing'[y] = writing[y]
  BY <1>1, <1>2
<1> HIDE DEF rest
<1>5. /\ Enters(e) => disk'[z].objs = disk[z].objs \cup {e.obj}
      /\ ~Enters(e) => \A o \in disk[z].objs : ~Takes(e, o) => o \in disk'[z].objs
      /\ \A c \in Container : \A o \in disk'[z].holds[c] :
             o \in disk[z].holds[c] \/ (Lists(e) /\ o = e.obj)
  BY <1>2, <1>3, <1>4, ApplyThings
<1>6. ASSUME e.kind = "objectOut"
      PROVE  /\ serving # Nil /\ serving.stage = "out" /\ z = asked[serving.actor].src
             /\ e.obj \in disk[asked[serving.actor].dst].objs
  BY <1>3, <1>6 DEF ThingInv, Outgoing
<1>7. \A y \in ZoneId : e.kind # "objectOut" \/ y # z => disk[y].objs \subseteq disk'[y].objs
  BY <1>4, <1>5 DEF Takes
<1>8. \A y \in ZoneId : Members(writing'[y]) \subseteq Members(writing[y])
  BY <1>3, <1>4
<1>9. OnDisk \subseteq OnDisk'
  <2> SUFFICES ASSUME NEW y \in ZoneId, NEW o \in disk[y].objs PROVE \E k \in ZoneId : o \in disk'[k].objs
    BY DEF OnDisk
  <2>1. CASE e.kind # "objectOut" \/ y # z
    BY <1>7, <2>1
  <2>2. CASE e.kind = "objectOut" /\ y = z /\ o # e.obj
    <3>1. ~Takes(e, o) /\ ~Enters(e)
      BY <2>2 DEF Takes, Enters
    <3> QED  BY <1>5, <2>2, <3>1
  <2>3. CASE e.kind = "objectOut" /\ y = z /\ o = e.obj
    <3> DEFINE d == asked[serving.actor].dst
    <3>1. d \in ZoneId /\ d # z /\ o \in disk[d].objs
      BY <1>2, <1>6, <2>3, JourneyFacts DEF WorldInv, Underway
    <3> HIDE DEF d
    <3> QED  BY <1>7, <3>1
  <2> QED  BY <2>1, <2>2, <2>3
<1>10. InMemory' = InMemory
  BY <1>1 DEF InMemory
<1>11. Remembered' /\ Safe'
  BY <1>1, <1>9, <1>10 DEF ThingInv, Remembered, Safe
<1>12. Movable'
  BY <1>8, <1>9 DEF ThingInv, Movable
<1>13. Enters(e) => e.obj \in OnDisk'
  BY <1>5 DEF OnDisk
<1>14. Logged'
  <2> SUFFICES ASSUME NEW y \in ZoneId, NEW o \in Listed(disk'[y]) PROVE o \in OnDisk'
    BY DEF Logged
  <2>1. o \in Listed(disk[y]) \/ (y = z /\ Lists(e) /\ o = e.obj)
    BY <1>4, <1>5 DEF Listed
  <2>2. CASE o \in Listed(disk[y])
    BY <1>9, <2>2 DEF ThingInv, Logged
  <2>3. CASE Lists(e) /\ ~Enters(e) /\ o = e.obj
    BY <1>3, <1>9, <2>3 DEF ThingInv, Movable
  <2> QED  BY <1>13, <2>1, <2>2, <2>3
<1>15. \A y \in ZoneId : \A o : Pending(y, o) =>
           \/ y = z /\ Enters(e) /\ e.obj = o
           \/ \E x \in Members(writing'[y]) : Enters(x) /\ x.obj = o
  BY <1>3, <1>4 DEF Pending
<1>16. Covered'
  <2> SUFFICES ASSUME NEW y \in ZoneId, NEW o \in Listed(zone[y]) \cup zone[y].objs
               PROVE  o \in OnDisk' \/ \E x \in Members(writing'[y]) : Enters(x) /\ x.obj = o
    BY <1>1 DEF Covered, Pending
  <2>1. o \in OnDisk \/ Pending(y, o)
    BY DEF ThingInv, Covered
  <2> QED  BY <1>9, <1>13, <1>15, <2>1
<1>17. /\ Unanswered \/ EntryAnswered(z) \/ ExitAnswered(z)
       /\ ExitAnswered(z) => Tail(writing[z]) = <<>> /\ z = asked[serving.actor].src
  <2>1. Unanswered \/ EntryAnswered(z) \/ ExitAnswered(z)
    BY <1>2, PersistAnswers
  <2>2. ASSUME ExitAnswered(z) PROVE Tail(writing[z]) = <<>> /\ Awaited(z)
    <3>1. serving # Nil /\ serving' = Nil
      BY <2>2 DEF ExitAnswered
    <3> QED  BY <3>1 DEF Persist
  <2> QED  BY <2>1, <2>2 DEF Awaited, ExitAnswered
<1>18. serving # Nil =>
           /\ serving.actor \in Actor
           /\ asked[serving.actor].src \in ZoneId /\ asked[serving.actor].dst \in ZoneId
           /\ asked[serving.actor].src # asked[serving.actor].dst
  BY <1>2, JourneyFacts DEF WorldInv, Underway
<1>19. EntryAnswered(z) => /\ serving' # Nil /\ serving'.stage = "copied"
                           /\ serving'.actor = serving.actor
  <2> SUFFICES ASSUME EntryAnswered(z)
               PROVE  serving' # Nil /\ serving'.stage = "copied" /\ serving'.actor = serving.actor
    OBVIOUS
  <2>1. serving \in Errand /\ serving' = [serving EXCEPT !.stage = "copied"]
    BY <1>2 DEF TypeOK, EntryAnswered
  <2>2. serving' \in Errand /\ serving'.stage = "copied" /\ serving'.actor = serving.actor
    BY <2>1 DEF Errand
  <2> QED  BY <2>2, WorldAssumption
<1>20. Copied'
  <2>1. ASSUME serving # Nil, serving.stage \in {"in", "copied"},
               NEW o \in Contents(zone[asked[serving.actor].src], serving.actor)
        PROVE  /\ o \in zone[asked[serving.actor].dst].objs
               /\ \/ o \in disk'[asked[serving.actor].dst].objs
                  \/ /\ serving.stage = "in"
                     /\ \E x \in Members(writing'[asked[serving.actor].dst]) :
                            Enters(x) /\ x.obj = o
    <3> DEFINE d == asked[serving.actor].dst
    <3>1. /\ o \in zone[d].objs
          /\ o \in disk[d].objs \/ (serving.stage = "in" /\ Pending(d, o))
      BY <2>1 DEF ThingInv, Copied
    <3>2. d \in ZoneId /\ e.kind # "objectOut"
      BY <1>6, <1>18, <2>1
    <3> HIDE DEF d
    <3>3. /\ o \in zone[d].objs
          /\ \/ o \in disk'[d].objs
             \/ serving.stage = "in" /\ \E x \in Members(writing'[d]) : Enters(x) /\ x.obj = o
      BY <1>5, <1>7, <1>15, <3>1, <3>2
    <3> QED  BY <3>3 DEF d
  <2>2. CASE Unanswered
    BY <1>1, <2>1, <2>2 DEF Unanswered, Copied, Pending
  <2>3. CASE EntryAnswered(z)
    <3>1. /\ serving # Nil /\ serving.stage = "in" /\ z = asked[serving.actor].dst
          /\ asked' = asked /\ Tail(writing[z]) = <<>>
      BY <2>3 DEF EntryAnswered
    <3>2. Members(writing'[z]) = {}
      BY <1>4, <3>1, MembersNone DEF rest
    <3>3. /\ zone' = zone
          /\ \A o \in Contents(zone[asked[serving.actor].src], serving.actor) :
                 o \in zone[z].objs /\ o \in disk'[z].objs
      BY <1>1, <2>1, <3>1, <3>2
    <3> QED  BY <1>19, <2>3, <3>1, <3>3 DEF Copied
  <2>4. CASE ExitAnswered(z)
    BY <2>4 DEF ExitAnswered, Copied
  <2> QED  BY <1>17, <2>2, <2>3, <2>4
<1>21. Outgoing'
  <2> SUFFICES ASSUME NEW y \in ZoneId, NEW x \in Members(writing'[y]), x.kind = "objectOut"
               PROVE  /\ serving' # Nil /\ serving'.stage = "out" /\ y = asked'[serving'.actor].src
                      /\ x.obj \in zone'[asked'[serving'.actor].dst].objs
                      /\ x.obj \in disk'[asked'[serving'.actor].dst].objs
    BY DEF Outgoing
  <2> DEFINE d == asked[serving.actor].dst
  <2>1. /\ serving # Nil /\ serving.stage = "out" /\ y = asked[serving.actor].src
        /\ x.obj \in zone[d].objs /\ x.obj \in disk[d].objs
    BY <1>8 DEF ThingInv, Outgoing
  <2>2. d \in ZoneId /\ y # d
    BY <1>18, <2>1
  <2>3. CASE Unanswered
    <3>1. e.kind # "objectOut" \/ d # z
      BY <1>6, <1>18
    <3> HIDE DEF d
    <3>2. x.obj \in disk'[d].objs /\ x.obj \in zone'[d].objs
      BY <1>1, <1>7, <2>1, <2>2, <3>1
    <3> QED  BY <2>1, <2>3, <3>2 DEF Unanswered, d
  <2>4. CASE EntryAnswered(z)
    BY <2>1, <2>4 DEF EntryAnswered
  <2>5. CASE ExitAnswered(z)
    <3>1. Tail(writing[z]) = <<>> /\ y = z
      BY <1>17, <2>1, <2>5
    <3> QED  BY <1>4, <3>1, MembersNone DEF rest
  <2> QED  BY <1>17, <2>3, <2>4, <2>5
<1> QED  BY <1>11, <1>12, <1>14, <1>16, <1>20, <1>21 DEF ThingInv

LEMMA CrashKeeps ==
  ASSUME ThingInv, CrashAndRestart
  PROVE  ThingInv'
<1>1. /\ zone' = disk /\ disk' = disk /\ serving' = Nil
      /\ \A z \in ZoneId : writing'[z] = <<>>
  BY DEF CrashAndRestart
<1>2. InMemory' = OnDisk /\ OnDisk' = OnDisk
  BY <1>1 DEF InMemory, OnDisk
<1>3. \A z \in ZoneId : Members(writing'[z]) = {}
  BY <1>1, MembersNone
<1>4. Remembered' /\ Logged' /\ Safe'
  BY <1>1, <1>2 DEF ThingInv, Remembered, Logged, Safe
<1>5. Covered'
  <2>1. \A z \in ZoneId : Listed(disk[z]) \cup disk[z].objs \subseteq OnDisk
    BY DEF ThingInv, Logged, OnDisk
  <2> QED  BY <1>1, <1>2, <2>1 DEF Covered
<1>6. Movable' /\ Copied' /\ Outgoing'
  BY <1>1, <1>3 DEF Movable, Copied, Outgoing
<1> QED  BY <1>4, <1>5, <1>6 DEF ThingInv

LEMMA ThingsInit == Init => ThingInv
<1> SUFFICES ASSUME Init PROVE ThingInv
  OBVIOUS
<1>1. /\ zone = [z \in ZoneId |-> Loaded(z)] /\ disk = zone /\ serving = Nil
      /\ \A z \in ZoneId : writing[z] = <<>>
  BY DEF Init
<1> DEFINE place(o) == IF Lies[o] \in Item THEN Lies[Lies[o]] ELSE Lies[o]
<1>2. ASSUME NEW z \in ZoneId
      PROVE  /\ \A o \in Item : o \in zone[z].objs <=> Land[place(o)] = z
             /\ Listed(zone[z]) \subseteq zone[z].objs
  <2> DEFINE L == {l \in Location : Land[l] = z}
             O == {o \in Item : place(o) \in L}
  <2>1. zone[z].objs = O /\ zone[z].holds = [c \in Container |-> {o \in O : Lies[o] = c}]
    BY <1>1 DEF Loaded, EmptyZone
  <2>2. \A o \in Item : place(o) \in Location
    BY WorldAssumption
  <2> HIDE DEF place
  <2>3. \A o \in Item : o \in O <=> Land[place(o)] = z
    BY <2>2
  <2> HIDE DEF O
  <2> QED  BY <2>1, <2>3 DEF Listed
<1>3. \A o \in Item : place(o) \in Location /\ Land[place(o)] \in ZoneId
  BY WorldAssumption
<1> HIDE DEF place
<1>4. OnDisk = InMemory
  BY <1>1 DEF OnDisk, InMemory
<1>5. Remembered /\ Logged /\ Covered
  BY <1>1, <1>2 DEF Remembered, Logged, Covered, InMemory, OnDisk
<1>6. Safe
  BY <1>2, <1>3, <1>4 DEF Safe, InMemory
<1>7. Movable /\ Copied /\ Outgoing
  BY <1>1, MembersNone DEF Movable, Copied, Outgoing
<1> QED  BY <1>5, <1>6, <1>7 DEF ThingInv

LEMMA ThingsStep ==
  ASSUME Gives = {}
  PROVE  WorldInv /\ ThingInv /\ [Next]_vars => ThingInv'
<1> SUFFICES ASSUME WorldInv, ThingInv, [Next]_vars PROVE ThingInv'
  OBVIOUS
<1>1. ASSUME NEW a \in Actor, NEW z \in ZoneId, NEW l \in Location, Ask(a, z, l)
      PROVE  ThingInv'
  <2>1. UNCHANGED <<zone, disk, writing, serving>>
    BY <1>1 DEF Ask
  <2> QED  BY <1>1, <2>1, AskStep, ThingsUndisturbed
<1>2. ASSUME NEW a \in Actor, MigrateIn(a) PROVE ThingInv'
  BY <1>2, MigrateInKeeps
<1>3. CASE MigrateOut
  BY <1>3, MigrateOutKeeps
<1>4. CASE MigrateOutFails
  BY <1>4, MigrateOutFailsKeeps
<1>5. ASSUME NEW z \in ZoneId, Persist(z) PROVE ThingInv'
  BY <1>5, PersistKeeps
<1>6. ASSUME NEW z \in ZoneId, NEW who \in Actor, NEW from \in Container, NEW to \in Container,
             NEW o \in zone[z].holds[from], MoveObject(z, who, o, from, to)
      PROVE  ThingInv'
  BY <1>6, MoveObjectKeeps
<1>7. ASSUME NEW z \in ZoneId, NEW a \in Actor, NEW k \in Corpse, Die(z, a, k)
      PROVE  ThingInv'
  BY <1>7, DieKeeps
<1>8. CASE CrashAndRestart
  BY <1>8, CrashKeeps
<1>9. CASE UNCHANGED vars
  BY <1>9, ThingsUndisturbed DEF vars
<1> QED
  BY <1>1, <1>2, <1>3, <1>4, <1>5, <1>6, <1>7, <1>8, <1>9 DEF Next

(* If nobody hands an Object to a traveller between the two halves of its  *)
(* migration, or puts one into a bag it carries, no Object is lost: it is  *)
(* in some Zone, and in some Zone's log, at every moment and after a crash *)
(* at any moment (core/world.go, handleMigrateActorCommand; core/zone.go,  *)
(* processActorMigrateInCommand, processActorMigrateOutCommand).           *)
THEOREM NothingIsLost ==
  ASSUME Gives = {}
  PROVE  Spec => []NothingLost
<1>1. Spec => []ThingInv
  <2>1. WorldInv /\ ThingInv /\ [Next]_vars => ThingInv'
    BY ThingsStep
  <2> QED  BY <2>1, ThingsInit, WorldInvariant, PTL DEF Spec
<1>2. ThingInv => NothingLost
  BY DEF ThingInv, Safe, InMemory, OnDisk, NothingLost
<1> QED  BY <1>1, <1>2, PTL
===============================================================================
