------------------------------ MODULE BrainProofs ------------------------------
(***************************************************************************)
(* What a brain, its session and its Zones keep of each other in order,    *)
(* for any number of Actors, Things and Places and queues of any length;   *)
(* and that its path finders find a cheapest path, in graphs of any size.  *)
(***************************************************************************)
EXTENDS Brain, SequenceTheorems, FiniteSetTheorems, WellFoundedInduction, TLAPS

-----------------------------------------------------------------------------
(* Numbers.  What holds along a search is proved turn by turn; the library  *)
(* states that the natural numbers are well founded, and that the least and *)
(* the next number are enough follows.                                      *)

Less == {ss \in Nat \X Nat : ss[1] < ss[2]}

LEMMA Lowest ==
  ASSUME NEW T, T \subseteq Nat, T # {}
  PROVE  \E x \in T : \A y \in T : x <= y
<1>1. IsWellFoundedOn(Less, Nat)
  BY NatLessThanWellFounded DEF OpToRel, Less
<1>2. PICK x \in T : \A y \in T : <<y, x>> \notin Less
  BY <1>1, WFMin
<1>3. ASSUME NEW y \in T PROVE x <= y
  <2>1. x \in Nat /\ y \in Nat
    OBVIOUS
  <2>2. y < x => <<y, x>> \in Less
    BY <2>1 DEF Less
  <2> QED  BY <1>2, <2>1, <2>2
<1> QED  BY <1>3

LEMMA UpTo ==
  ASSUME NEW n \in Nat, NEW T, 0 \in T,
         \A k \in 0..(n-1) : k \in T => k + 1 \in T
  PROVE  \A k \in 0..n : k \in T
<1> DEFINE Bad == {k \in 0..n : k \notin T}
<1> SUFFICES ASSUME Bad # {} PROVE FALSE
  OBVIOUS
<1>1. Bad \subseteq Nat
  OBVIOUS
<1> HIDE DEF Bad
<1>2. PICK m \in Bad : \A y \in Bad : m <= y
  BY <1>1, Lowest
<1>3. m \in 1..n /\ m - 1 \in 0..(n-1) /\ ~(m <= m - 1) /\ (m - 1) + 1 = m /\ m \notin T
  BY DEF Bad
<1>4. m - 1 \notin Bad
  BY <1>2, <1>3
<1>5. m - 1 \in 0..n
  BY <1>3
<1>6. m - 1 \in T
  BY <1>4, <1>5 DEF Bad
<1> QED  BY <1>3, <1>6

(* A recursive function whose steps are the functions F[1], F[2], ... on S. *)
Steps(n, S, x, F, h) ==
    h \in [0..n -> S] /\ h[0] = x /\ \A k \in 1..n : h[k] = F[k][h[k-1]]

LEMMA StepByStep ==
  ASSUME NEW n \in Nat, NEW S, NEW x \in S, NEW F \in [1..n -> [S -> S]]
  PROVE  \E h : Steps(n, S, x, F, h)
<1> DEFINE T == {m \in 0..n : \E h \in [0..m -> S] :
                    h[0] = x /\ \A k \in 1..m : h[k] = F[k][h[k-1]]}
<1>1. 0 \in T
  <2> DEFINE h == [k \in 0..0 |-> x]
  <2>1. h \in [0..0 -> S] /\ h[0] = x /\ \A k \in 1..0 : h[k] = F[k][h[k-1]]
    OBVIOUS
  <2> HIDE DEF h
  <2>2. 0 \in 0..n
    OBVIOUS
  <2> QED  BY <2>1, <2>2
<1>2. ASSUME NEW m \in 0..(n-1), m \in T PROVE m + 1 \in T
  <2>1. PICK h \in [0..m -> S] : h[0] = x /\ \A k \in 1..m : h[k] = F[k][h[k-1]]
    BY <1>2
  <2>2. m \in Nat /\ m + 1 \in 1..n /\ m + 1 \in 0..n /\ m \in 0..m
    OBVIOUS
  <2> DEFINE g == [k \in 0..(m+1) |-> IF k = m + 1 THEN F[m+1][h[m]] ELSE h[k]]
  <2>3. F[m+1][h[m]] \in S
    BY <2>1, <2>2
  <2>4. g \in [0..(m+1) -> S]
    BY <2>1, <2>2, <2>3
  <2>5. g[0] = x /\ \A k \in 0..m : g[k] = h[k]
    BY <2>1, <2>2
  <2>6. g[m+1] = F[m+1][h[m]]
    BY <2>2
  <2> HIDE DEF g
  <2>7. ASSUME NEW k \in 1..(m+1) PROVE g[k] = F[k][g[k-1]]
    <3>1. CASE k = m + 1
      <4>1. k - 1 = m
        BY <2>2, <3>1
      <4> QED  BY <2>2, <2>5, <2>6, <3>1, <4>1
    <3>2. CASE k # m + 1
      <4>1. k \in 1..m /\ k \in 0..m /\ k - 1 \in 0..m
        BY <2>2, <3>2
      <4> QED  BY <2>1, <2>5, <4>1
    <3> QED  BY <3>1, <3>2
  <2> QED  BY <2>2, <2>4, <2>5, <2>7
<1>3. \A k \in 0..n : k \in T
  <2> HIDE DEF T
  <2> QED  BY <1>1, <1>2, UpTo
<1>4. n \in T
  BY <1>3
<1> QED  BY <1>4 DEF Steps

(* A greatest number of a finite set. *)
LEMMA Highest ==
  ASSUME NEW S \in SUBSET Nat, IsFiniteSet(S), S # {}
  PROVE  Max(S) \in S /\ \A y \in S : y <= Max(S)
<1> DEFINE Higher(x) == {y \in S : y > x}
           W == {Cardinality(Higher(x)) : x \in S}
<1>1. \A x \in S : IsFiniteSet(Higher(x)) /\ Cardinality(Higher(x)) \in Nat
  <2> SUFFICES ASSUME NEW x \in S PROVE IsFiniteSet(Higher(x)) /\ Cardinality(Higher(x)) \in Nat
    OBVIOUS
  <2>1. Higher(x) \in SUBSET S
    OBVIOUS
  <2> HIDE DEF Higher
  <2> QED  BY <2>1, FS_Subset, FS_CardinalityType
<1>2. W \subseteq Nat /\ W # {}
  <2> HIDE DEF Higher
  <2> QED  BY <1>1
<1>3. PICK least \in W : \A y \in W : least <= y
  <2> HIDE DEF W
  <2> QED  BY <1>2, Lowest
<1>4. PICK x \in S : Cardinality(Higher(x)) = least
  OBVIOUS
<1>5. ASSUME NEW y \in S, y > x PROVE FALSE
  <2>1. Higher(y) \in SUBSET (Higher(x) \ {y}) /\ y \in Higher(x)
    <3>1. \A z \in S : z > y => z > x /\ z # y
      BY <1>5
    <3> QED  BY <1>5, <3>1
  <2>2. Cardinality(Higher(y)) \in W
    OBVIOUS
  <2> HIDE DEF Higher, W
  <2>3. IsFiniteSet(Higher(x) \ {y}) /\ Cardinality(Higher(x) \ {y}) = Cardinality(Higher(x)) - 1
    BY <1>1, <2>1, FS_RemoveElement
  <2>4. Cardinality(Higher(y)) <= Cardinality(Higher(x)) - 1
    BY <2>1, <2>3, FS_Subset
  <2>5. least <= Cardinality(Higher(y)) /\ Cardinality(Higher(y)) \in Nat /\ least \in Nat
    BY <1>1, <1>2, <1>3, <2>2
  <2> QED  BY <1>4, <2>4, <2>5
<1>6. \A y \in S : x >= y
  BY <1>5
<1>7. Max(S) \in S /\ \A y \in S : Max(S) >= y
  BY <1>6 DEF Max
<1> QED  BY <1>7

(* What a function makes of finitely many is finite. *)
LEMMA FiniteImage ==
  ASSUME NEW S, IsFiniteSet(S), NEW f, DOMAIN f = S, f = [x \in S |-> f[x]]
  PROVE  IsFiniteSet({f[x] : x \in S})
<1> DEFINE T == {f[x] : x \in S}
<1>1. f \in [S -> T] /\ \A y \in T : \E x \in S : f[x] = y
  OBVIOUS
<1>2. f \in Surjection(S, T)
  BY <1>1 DEF Surjection
<1> HIDE DEF T
<1>3. IsFiniteSet(T)
  BY <1>2, FS_Surjection
<1> QED  BY <1>3 DEF T

(* A list of Things has so many entries. *)
LEMMA ManyType ==
  ASSUME NEW counts \in [Thing -> Nat]
  PROVE  Many(counts) \in Nat
<1> DEFINE f == [t \in Thing |-> {t} \X (1..counts[t])]
           All == {f[t] : t \in Thing}
<1>1. IsFiniteSet(Thing)
  BY BrainAssumption
<1>2. IsFiniteSet(All)
  <2>1. DOMAIN f = Thing /\ f = [x \in Thing |-> f[x]]
    OBVIOUS
  <2> HIDE DEF f
  <2> QED  BY <1>1, <2>1, FiniteImage
<1>3. \A t \in Thing : IsFiniteSet(f[t])
  <2> SUFFICES ASSUME NEW t \in Thing PROVE IsFiniteSet(f[t])
    OBVIOUS
  <2>1. counts[t] \in Nat /\ 1 \in Int
    OBVIOUS
  <2>2. IsFiniteSet(1..counts[t])
    BY <2>1, FS_Interval
  <2>3. IsFiniteSet({t} \X (1..counts[t]))
    BY <2>2, FS_Singleton, FS_Product
  <2> QED  BY <2>3
<1>4. IsFiniteSet(UNION All)
  <2>1. \A T \in All : IsFiniteSet(T)
    BY <1>3
  <2> HIDE DEF All
  <2> QED  BY <1>2, <2>1, FS_UNION
<1>5. All = {{t} \X (1..counts[t]) : t \in Thing}
  OBVIOUS
<1>6. Many(counts) = Cardinality(UNION All)
  <2>1. DOMAIN counts = Thing
    OBVIOUS
  <2> HIDE DEF All
  <2> QED  BY <1>5, <2>1 DEF Many
<1> HIDE DEF All
<1> QED  BY <1>4, <1>6, FS_CardinalityType

-----------------------------------------------------------------------------
(* What is in the memory, in a plan and on the way *)

Ones(S) == {{x} : x \in S}

LocInfos == [place : Place, who : [Actor -> Nat], things : [Thing -> Nat]]
ActInfos == [id : Actor, phys : 0..Health, hands : [Thing -> Nat]]

Memories ==
    {m \in [at : AtMostOne(Place), listing : [Place -> SUBSET LocInfos],
            attacker : AtMostOne(Other), met : [Actor -> SUBSET ActInfos],
            studied : SUBSET Thing] :
        /\ \A p \in Place : \A l \in m.listing[p] : l.place = p
        /\ \A a \in Actor : \A i \in m.met[a] : i.id = a}

Way == UNION {DOMAIN Exit[p] : p \in Place}

Query ==
    [kind : {"where"}, of : AtMostOne(Place), tag : 0..2]
        \cup [kind : {"actor"}, of : Actor, tag : 0..2]
        \cup [kind : {"thing"}, of : Thing, tag : 0..2]
        \cup [kind : {"move"}, of : Way, tag : 0..2]
        \cup [kind : {"take"}, of : Thing \X Place, tag : 0..2]
        \cup [kind : {"strike"}, of : Other, tag : 0..2]

News ==
    [kind : {"move", "in", "out", "relocate"}, who : Actor, from : Place, to : Place]
        \cup [kind : {"add"}, who : Actor, from : {Nowhere}, to : Place]
        \cup [kind : {"gone"}, who : Actor, from : Place, to : {Nowhere}]
        \cup [kind : {"death"}, who : Actor, from : {Nowhere}, to : {Nowhere}]
        \cup [kind : {"thing"}, who : Thing, from : Place \cup Actor, to : Place \cup Actor]
        \cup [kind : {"hurt"}, who : Other, from : {Nowhere}, to : {Me}]
        \cup [kind : {"hurt"}, who : {Me}, from : {Nowhere}, to : Other]

Replies ==
    [type : {"answer"}, tag : 0..2, kind : {"where"}, body : Ones(LocInfos)]
        \cup [type : {"answer"}, tag : 0..2, kind : {"actor"}, body : Ones(ActInfos)]
        \cup [type : {"answer"}, tag : 0..2, kind : {"thing"}, body : Ones(Thing)]
        \cup [type : {"refused", "complete"}, tag : 0..2, body : {{}},
              kind : {"where", "actor", "thing", "move", "take", "strike"}]

Messages ==
    Replies \cup [type : {"event"}, tag : {NoTag}, kind : {"event"}, body : Ones(News)]
            \cup [type : {"close"}, tag : {NoTag}, kind : {"event"}, body : {{}}]

Deeds ==
    [kind : {"move"}, of : Way, to : Place]
        \cup [kind : {"take"}, of : Thing \X Place, to : {Nowhere}]
        \cup [kind : {"strike"}, of : Other, to : {Nowhere}]

Plans ==
    [crowded : BOOLEAN, foe : SUBSET Other, phys : 0..Health, scene : SUBSET LocInfos,
     slash : Nat, bite : Nat, spare : Seq(Thing), refused : Nat, do : SUBSET Deeds]

-----------------------------------------------------------------------------
(* The memory *)

LEMMA CountedType ==
  ASSUME NEW n \in Nat, NEW by \in {-1, 1}
  PROVE  Counted(n, by) \in Nat
<1> DEFINE S == {0, n + by}
<1>1. \E x \in S : \A y \in S : x >= y
  <2>1. CASE n + by >= 0
    BY <2>1
  <2>2. CASE ~(n + by >= 0)
    BY <2>2
  <2> QED  BY <2>1, <2>2
<1>2. Max(S) \in S /\ \A y \in S : Max(S) >= y
  <2> HIDE DEF S
  <2> QED  BY <1>1 DEF Max
<1>3. Max(S) \in Int /\ Max(S) >= 0
  BY <1>2
<1> QED  BY <1>3 DEF Counted

LEMMA ListedType ==
  ASSUME NEW m \in Memories, NEW p \in Place, NEW by \in {-1, 1}
  PROVE  /\ \A a \in Actor : Listed(m, p, "who", a, by) \in Memories
         /\ \A t \in Thing : Listed(m, p, "things", t, by) \in Memories
         /\ \A field, x : Listed(m, p, field, x, by).attacker = m.attacker
<1>1. /\ m.at \in AtMostOne(Place) /\ m.listing \in [Place -> SUBSET LocInfos]
      /\ m.attacker \in AtMostOne(Other) /\ m.met \in [Actor -> SUBSET ActInfos]
      /\ m.studied \in SUBSET Thing
      /\ \A q \in Place : \A l \in m.listing[q] : l.place = q
      /\ \A a \in Actor : \A i \in m.met[a] : i.id = a
  BY DEF Memories
<1>2. ASSUME NEW a \in Actor, NEW l \in LocInfos
      PROVE  LET k == [l EXCEPT !["who"][a] = Counted(@, by)]
             IN  k \in LocInfos /\ k.place = l.place
  <2>1. l.who[a] \in Nat
    BY DEF LocInfos
  <2>2. Counted(l.who[a], by) \in Nat
    BY <2>1, CountedType
  <2> QED  BY <2>2 DEF LocInfos
<1>3. ASSUME NEW t \in Thing, NEW l \in LocInfos
      PROVE  LET k == [l EXCEPT !["things"][t] = Counted(@, by)]
             IN  k \in LocInfos /\ k.place = l.place
  <2>1. l.things[t] \in Nat
    BY DEF LocInfos
  <2>2. Counted(l.things[t], by) \in Nat
    BY <2>1, CountedType
  <2> QED  BY <2>2 DEF LocInfos
<1>4. ASSUME NEW L \in SUBSET LocInfos, \A l \in L : l.place = p
      PROVE  [m EXCEPT !.listing[p] = L] \in Memories
  <2> DEFINE n == [m EXCEPT !.listing[p] = L]
  <2>1. /\ n.at = m.at /\ n.attacker = m.attacker /\ n.met = m.met /\ n.studied = m.studied
        /\ n.listing = [m.listing EXCEPT ![p] = L]
    BY DEF Memories
  <2>2. n \in [at : AtMostOne(Place), listing : [Place -> SUBSET LocInfos],
               attacker : AtMostOne(Other), met : [Actor -> SUBSET ActInfos],
               studied : SUBSET Thing]
    BY <1>1 DEF Memories
  <2>3. \A q \in Place : \A l \in n.listing[q] : l.place = q
    BY <1>1, <1>4, <2>1
  <2> HIDE DEF n
  <2>4. \A a \in Actor : \A i \in n.met[a] : i.id = a
    BY <1>1, <2>1
  <2> QED  BY <2>2, <2>3, <2>4 DEF Memories, n
<1>5. ASSUME NEW a \in Actor PROVE Listed(m, p, "who", a, by) \in Memories
  <2> DEFINE L == {[l EXCEPT !["who"][a] = Counted(@, by)] : l \in m.listing[p]}
  <2>1. L \in SUBSET LocInfos /\ \A l \in L : l.place = p
    BY <1>1, <1>2
  <2>2. Listed(m, p, "who", a, by) = [m EXCEPT !.listing[p] = L]
    BY DEF Listed
  <2> HIDE DEF L
  <2> QED  BY <1>4, <2>1, <2>2
<1>6. ASSUME NEW t \in Thing PROVE Listed(m, p, "things", t, by) \in Memories
  <2> DEFINE L == {[l EXCEPT !["things"][t] = Counted(@, by)] : l \in m.listing[p]}
  <2>1. L \in SUBSET LocInfos /\ \A l \in L : l.place = p
    BY <1>1, <1>3
  <2>2. Listed(m, p, "things", t, by) = [m EXCEPT !.listing[p] = L]
    BY DEF Listed
  <2> HIDE DEF L
  <2> QED  BY <1>4, <2>1, <2>2
<1>7. \A field, x : Listed(m, p, field, x, by).attacker = m.attacker
  BY DEF Listed, Memories
<1> QED  BY <1>5, <1>6, <1>7

LEMMA MemoryParts ==
  ASSUME NEW m \in Memories
  PROVE  /\ \A p \in Place : [m EXCEPT !.at = {p}] \in Memories
         /\ \A p \in Place : CameTo(m, p) \in Memories
         /\ \A a \in Other : [m EXCEPT !.attacker = {a}] \in Memories
         /\ \A t \in Thing : [m EXCEPT !.studied = @ \cup {t}] \in Memories
         /\ \A l \in LocInfos : SetLocationInfo(m, l) \in Memories
         /\ \A i \in ActInfos : [m EXCEPT !.met[i.id] = {i}] \in Memories
<1>1. /\ m.at \in AtMostOne(Place) /\ m.listing \in [Place -> SUBSET LocInfos]
      /\ m.attacker \in AtMostOne(Other) /\ m.met \in [Actor -> SUBSET ActInfos]
      /\ m.studied \in SUBSET Thing
      /\ \A q \in Place : \A l \in m.listing[q] : l.place = q
      /\ \A a \in Actor : \A i \in m.met[a] : i.id = a
  BY DEF Memories
<1> DEFINE Made(at, listing, attacker, met, studied) ==
             [at |-> at, listing |-> listing, attacker |-> attacker, met |-> met,
              studied |-> studied]
<1>2. \A at \in AtMostOne(Place), attacker \in AtMostOne(Other), studied \in SUBSET Thing :
        \A listing \in [Place -> SUBSET LocInfos], met \in [Actor -> SUBSET ActInfos] :
          (/\ \A q \in Place : \A l \in listing[q] : l.place = q
           /\ \A a \in Actor : \A i \in met[a] : i.id = a)
            => Made(at, listing, attacker, met, studied) \in Memories
  BY DEF Memories
<1>3. m = Made(m.at, m.listing, m.attacker, m.met, m.studied)
  BY DEF Memories
<1> HIDE DEF Made
<1>4. \A x \in Place : {x} \in AtMostOne(Place)
  BY DEF AtMostOne
<1>5. \A x \in Other : {x} \in AtMostOne(Other)
  BY DEF AtMostOne
<1>6. ASSUME NEW p \in Place PROVE [m EXCEPT !.at = {p}] \in Memories
  <2>1. [m EXCEPT !.at = {p}] = Made({p}, m.listing, m.attacker, m.met, m.studied)
    BY <1>3 DEF Made
  <2>2. {p} \in AtMostOne(Place)
    BY <1>4
  <2> QED  BY <1>1, <1>2, <2>1, <2>2
<1>7. ASSUME NEW p \in Place PROVE CameTo(m, p) \in Memories
  <2> DEFINE L == [q \in Place |-> {}]
  <2>1. CameTo(m, p) = [m EXCEPT !.at = {p}, !.listing = L]
    BY DEF CameTo
  <2>2. L \in [Place -> SUBSET LocInfos] /\ \A q \in Place : \A l \in L[q] : l.place = q
    OBVIOUS
  <2> HIDE DEF L
  <2>3. CameTo(m, p) = Made({p}, L, m.attacker, m.met, m.studied)
    BY <1>3, <2>1 DEF Made
  <2>4. {p} \in AtMostOne(Place)
    BY <1>4
  <2> QED  BY <1>1, <1>2, <2>2, <2>3, <2>4
<1>8. ASSUME NEW a \in Other PROVE [m EXCEPT !.attacker = {a}] \in Memories
  <2>1. [m EXCEPT !.attacker = {a}] = Made(m.at, m.listing, {a}, m.met, m.studied)
    BY <1>3 DEF Made
  <2> QED  BY <1>1, <1>2, <1>5, <2>1
<1>9. ASSUME NEW t \in Thing PROVE [m EXCEPT !.studied = @ \cup {t}] \in Memories
  <2>1. [m EXCEPT !.studied = @ \cup {t}] = Made(m.at, m.listing, m.attacker, m.met, m.studied \cup {t})
    BY <1>3 DEF Made
  <2>2. m.studied \cup {t} \in SUBSET Thing
    BY <1>1
  <2> QED  BY <1>1, <1>2, <2>1, <2>2
<1>10. ASSUME NEW l \in LocInfos PROVE SetLocationInfo(m, l) \in Memories
  <2> DEFINE L == [m.listing EXCEPT ![l.place] = {l}]
  <2>1. SetLocationInfo(m, l) = [m EXCEPT !.at = {l.place}, !.listing = L]
    BY DEF SetLocationInfo
  <2>2. l.place \in Place
    BY DEF LocInfos
  <2>3. L \in [Place -> SUBSET LocInfos]
    BY <1>1, <2>2
  <2>4. \A q \in Place : \A k \in L[q] : k.place = q
    BY <1>1, <2>2
  <2> HIDE DEF L
  <2>5. SetLocationInfo(m, l) = Made({l.place}, L, m.attacker, m.met, m.studied)
    BY <1>3, <2>1 DEF Made
  <2>6. {l.place} \in AtMostOne(Place)
    BY <1>4, <2>2
  <2> QED  BY <1>1, <1>2, <2>3, <2>4, <2>5, <2>6
<1>11. ASSUME NEW i \in ActInfos PROVE [m EXCEPT !.met[i.id] = {i}] \in Memories
  <2> DEFINE M == [m.met EXCEPT ![i.id] = {i}]
  <2>1. [m EXCEPT !.met[i.id] = {i}] = [m EXCEPT !.met = M]
    OBVIOUS
  <2>2. i.id \in Actor
    BY DEF ActInfos
  <2>3. M \in [Actor -> SUBSET ActInfos]
    BY <1>1, <2>2
  <2>4. \A a \in Actor : \A k \in M[a] : k.id = a
    BY <1>1, <2>2
  <2> HIDE DEF M
  <2>5. [m EXCEPT !.met[i.id] = {i}] = Made(m.at, m.listing, m.attacker, M, m.studied)
    BY <1>3, <2>1 DEF Made
  <2> QED  BY <1>1, <1>2, <2>3, <2>4, <2>5
<1> QED  BY <1>6, <1>7, <1>8, <1>9, <1>10, <1>11

(* Nothing but an attacker of its own takes the place of the last one. *)
LEMMA AttackerStays ==
  ASSUME NEW m \in Memories
  PROVE  /\ \A p : [m EXCEPT !.at = {p}].attacker = m.attacker
         /\ \A p : CameTo(m, p).attacker = m.attacker
         /\ \A a : [m EXCEPT !.attacker = {a}].attacker = {a}
         /\ \A t : [m EXCEPT !.studied = @ \cup {t}].attacker = m.attacker
         /\ \A l : SetLocationInfo(m, l).attacker = m.attacker
         /\ \A i : [m EXCEPT !.met[i.id] = {i}].attacker = m.attacker
BY DEF Memories, CameTo, SetLocationInfo

LEMMA AtHomeType ==
  ASSUME NEW m \in Memories, NEW by \in {-1, 1}, NEW a \in Actor
  PROVE  /\ AtHome(m, "who", a, by) \in Memories
         /\ AtHome(m, "who", a, by).attacker = m.attacker
<1>1. CASE m.at = {}
  BY <1>1 DEF AtHome
<1>2. CASE m.at # {}
  <2>1. m.at \in AtMostOne(Place)
    BY DEF Memories
  <2>2. (CHOOSE p \in m.at : TRUE) \in Place
    BY <1>2, <2>1 DEF AtMostOne
  <2> QED  BY <1>2, <2>2, ListedType DEF AtHome
<1> QED  BY <1>1, <1>2

Keeps(m, n) == n \in Memories /\ (m.attacker # {} => n.attacker # {})

LEMMA WitnessKeeps ==
  ASSUME NEW m \in Memories, NEW e \in News
  PROVE  Keeps(m, Witness(m, e))
<1>1. CASE e.kind \in {"add", "gone"}
  <2>1. e.who \in Actor
    BY <1>1 DEF News
  <2> QED  BY <1>1, <2>1, AtHomeType DEF Witness, Keeps
<1>2. CASE e.kind = "death"
  <2>1. e.who \in Actor
    BY <1>2 DEF News
  <2> QED  BY <1>2, <2>1, AtHomeType DEF Witness, Keeps
<1>3. CASE e.kind = "move"
  <2>1. e.who \in Actor /\ e.to \in Place
    BY <1>3 DEF News
  <2>2. Keeps(m, WitnessMove(m, e))
    BY <2>1, ListedType, MemoryParts, AttackerStays DEF WitnessMove, Keeps
  <2> QED  BY <1>3, <2>2 DEF Witness
<1>4. CASE e.kind = "in"
  <2>1. e.who \in Actor /\ e.to \in Place
    BY <1>4 DEF News
  <2> QED  BY <1>4, <2>1, ListedType, MemoryParts, AttackerStays DEF Witness, Keeps
<1>5. CASE e.kind = "out"
  <2>1. e.who \in Actor /\ e.from \in Place
    BY <1>5 DEF News
  <2> QED  BY <1>5, <2>1, ListedType DEF Witness, Keeps
<1>6. CASE e.kind = "thing"
  <2>1. e.who \in Thing
    BY <1>6 DEF News
  <2> DEFINE left == IF e.from \in Place THEN Listed(m, e.from, "things", e.who, -1) ELSE m
  <2>2. left \in Memories /\ left.attacker = m.attacker
    BY <2>1, ListedType
  <2>3. WitnessThing(m, e) = IF e.to \in Place THEN Listed(left, e.to, "things", e.who, 1) ELSE left
    BY DEF WitnessThing
  <2> HIDE DEF left
  <2>4. Keeps(m, WitnessThing(m, e))
    BY <2>1, <2>2, <2>3, ListedType DEF Keeps
  <2> QED  BY <1>6, <2>4 DEF Witness
<1>7. CASE e.kind = "hurt"
  <2>1. e.to = Me => e.who \in Other
    BY <1>7, BrainAssumption DEF News
  <2> QED  BY <1>7, <2>1, MemoryParts, AttackerStays DEF Witness, Keeps
<1>8. CASE e.kind = "relocate"
  BY <1>8 DEF Witness, Keeps
<1>9. e.kind \in {"move", "in", "out", "relocate", "add", "gone", "death", "thing", "hurt"}
  BY DEF News
<1> QED  BY <1>1, <1>2, <1>3, <1>4, <1>5, <1>6, <1>7, <1>8, <1>9

LEMMA RememberKeeps ==
  ASSUME NEW m \in Memories, NEW msg \in Messages
  PROVE  Keeps(m, Remember(m, msg))
<1>1. CASE msg.type = "event"
  <2>1. msg.body \in Ones(News)
    BY <1>1 DEF Messages, Replies
  <2>2. (CHOOSE e \in msg.body : TRUE) \in News
    BY <2>1 DEF Ones
  <2> QED  BY <1>1, <2>2, WitnessKeeps DEF Remember
<1>2. CASE msg.type = "answer"
  <2>1. \/ msg.kind = "where" /\ msg.body \in Ones(LocInfos)
        \/ msg.kind = "actor" /\ msg.body \in Ones(ActInfos)
        \/ msg.kind = "thing" /\ msg.body \in Ones(Thing)
    BY <1>2 DEF Messages, Replies
  <2> DEFINE i == CHOOSE i \in msg.body : TRUE
  <2>2. \/ msg.kind = "where" /\ i \in LocInfos
        \/ msg.kind = "actor" /\ i \in ActInfos
        \/ msg.kind = "thing" /\ i \in Thing
    BY <2>1 DEF Ones
  <2> HIDE DEF i
  <2>3. Keeps(m, Learn(m, msg.kind, i))
    BY <2>2, MemoryParts, AttackerStays DEF Learn, Keeps
  <2> QED  BY <1>2, <2>3 DEF Remember, i
<1>3. CASE msg.type \notin {"event", "answer"}
  BY <1>3 DEF Remember, Keeps
<1> QED  BY <1>1, <1>2, <1>3

LEMMA RecallType ==
  ASSUME NEW m \in Memories, NEW q \in Query
  PROVE  /\ q.kind = "where" => Recall(m, q.kind, q.of) \subseteq LocInfos
         /\ q.kind = "actor" => Recall(m, q.kind, q.of) \subseteq ActInfos
<1>1. m.listing \in [Place -> SUBSET LocInfos] /\ m.met \in [Actor -> SUBSET ActInfos]
  BY DEF Memories
<1>2. CASE q.kind = "where"
  <2>1. q.of \in AtMostOne(Place)
    BY <1>2 DEF Query
  <2>2. q.of # {} => (CHOOSE p \in q.of : TRUE) \in Place
    BY <2>1 DEF AtMostOne
  <2> QED  BY <1>1, <1>2, <2>2 DEF Recall
<1>3. CASE q.kind = "actor"
  <2>1. q.of \in Actor
    BY <1>3 DEF Query
  <2> QED  BY <1>1, <1>3, <2>1 DEF Recall
<1> QED  BY <1>2, <1>3

-----------------------------------------------------------------------------
(* The invariant *)

ZonesTyped ==
    /\ place \in [Actor -> Place \cup {Nowhere}]
    /\ lies \in [Thing -> Place \cup Actor]
    /\ hp \in [Actor -> 0..Health]
    /\ ears \in 1..MostEars /\ strolls \in 0..Strolls /\ carried \in BOOLEAN

LinkTyped ==
    /\ session \in {"open", "closing", "closed"} /\ reading \in BOOLEAN
    /\ news \in Seq(News) /\ reply \in AtMostOne(Replies)
    /\ asks \in Seq(Query) /\ wire \in Seq(Messages)

EndsTyped ==
    /\ heard \in BOOLEAN /\ stopping \in BOOLEAN /\ shut \in BOOLEAN
    /\ conn \in BOOLEAN /\ crashed \in BOOLEAN

MindTyped == memory \in Memories /\ plan \in Plans

(* What the aiLoop asks at each place of its turn. *)
AskedAt(p) ==
    CASE p \in {"crowd", "threat", "walk", "scene"} -> {"where"}
      [] p \in {"enemy", "self"} -> {"actor"}
      [] p \in {"hands", "ground"} -> {"thing"}
      [] p = "act" -> {"move", "take", "strike"}
      [] OTHER -> {}

(* What a callback has found answers the question. *)
Fits(q, g) ==
    /\ q.kind = "where" => g.value \subseteq LocInfos
    /\ q.kind = "actor" => g.value \subseteq ActInfos

(* A callback runs for the question that is waited on, once, and its read  *)
(* lock is held until the question ends.                                   *)
Asked(q) ==
    /\ question = {q} /\ q \in Query /\ q.kind \in AskedAt(pc)
    /\ done \in {0, 1}
    /\ registered = {} \/ (registered = {q.tag} /\ done = 0)
    /\ rlocks = IF done = 1 /\ Lookup(q.kind) THEN 1 ELSE 0
    /\ done = 1 => \E g : got = {g} /\ Fits(q, g)

Asking ==
    /\ question = {} => registered = {} /\ done = 0 /\ rlocks = 0
    /\ \A q \in question : Asked(q)
    /\ question # {} /\ pc = "threat" => memory.attacker # {}

(* The close message is the last of a session that sends nothing more. *)
Farewell ==
    /\ heard => session = "closed"
    /\ \A i \in 1..Len(wire) : wire[i].type = "close" => session = "closed"
    /\ session = "closed" => reply = {}
    /\ session # "closed" => Len(wire) <= WireLen
    /\ Len(wire) <= WireLen + 1

(* A tag is under way in one place at most; but for the one the aiLoop     *)
(* waits for, it is that of the question that was given up on the way out. *)
InFlight(t) ==
    \/ \E i \in 1..Len(asks) : asks[i].tag = t
    \/ \E i \in 1..Len(wire) : wire[i].tag = t
    \/ \E r \in reply : r.tag = t

Flight ==
    /\ \A i, j \in 1..Len(asks) : asks[i].tag = asks[j].tag => i = j
    /\ \A i, j \in 1..Len(wire) : wire[i].tag = wire[j].tag /\ wire[i].tag # NoTag => i = j
    /\ \A i \in 1..Len(asks), j \in 1..Len(wire) : asks[i].tag # wire[j].tag
    /\ \A r \in reply : \A i \in 1..Len(asks) : asks[i].tag # r.tag
    /\ \A r \in reply : \A i \in 1..Len(wire) : wire[i].tag # r.tag
    /\ \E s \in 0..2 : \A t \in 0..2 : InFlight(t) => t \in registered \/ (stopping /\ t = s)

Thinking ==
    /\ pc \in {"enemy", "scene", "self", "hands", "ground", "fight"} => plan.foe # {}
    /\ pc \notin {"fight", "act"} => plan.spare = <<>>
    /\ plan.spare # <<>> => plan.scene # {}

BrainInv ==
    /\ ZonesTyped /\ LinkTyped /\ EndsTyped /\ MindTyped
    /\ Asking /\ Farewell /\ Flight /\ Thinking

-----------------------------------------------------------------------------
(* Consequences *)

LEMMA TagsKnown ==
  ASSUME BrainInv
  PROVE  /\ \A i \in 1..Len(asks) : asks[i] \in Query /\ asks[i].tag \in 0..2
         /\ \A i \in 1..Len(wire) : wire[i] \in Messages /\ wire[i].tag \in 0..NoTag
         /\ \A r \in reply : r \in Replies /\ r.tag \in 0..2
         /\ registered \subseteq 0..2
<1>1. asks \in Seq(Query) /\ wire \in Seq(Messages) /\ reply \in AtMostOne(Replies)
  BY DEF BrainInv, LinkTyped
<1>2. \A q \in Query : q.tag \in 0..2
  BY DEF Query
<1>3. \A r \in Replies : r.tag \in 0..2
  BY DEF Replies
<1>4. \A m \in Messages : m.tag \in 0..NoTag
  <2>1. \A m \in Messages : m \in Replies \/ m.tag = NoTag
    BY DEF Messages
  <2> QED  BY <1>3, <2>1 DEF NoTag
<1>5. registered \subseteq 0..2
  <2>1. CASE question = {}
    BY <2>1 DEF BrainInv, Asking
  <2>2. CASE question # {}
    <3>1. PICK q \in question : TRUE
      BY <2>2
    <3>2. q \in Query /\ registered \subseteq {q.tag}
      BY <3>1 DEF BrainInv, Asking, Asked
    <3> QED  BY <1>2, <3>2
  <2> QED  BY <2>1, <2>2
<1>6. \A i \in 1..Len(asks) : asks[i] \in Query
  BY <1>1
<1>7. \A i \in 1..Len(wire) : wire[i] \in Messages
  BY <1>1
<1>8. \A r \in reply : r \in Replies
  BY <1>1 DEF AtMostOne
<1> QED  BY <1>2, <1>3, <1>4, <1>5, <1>6, <1>7, <1>8

LEMMA FewAsks ==
  ASSUME BrainInv
  PROVE  Len(asks) <= 2
<1>1. asks \in Seq(Query)
  BY DEF BrainInv, LinkTyped
<1>2. \A i \in 1..Len(asks) : asks[i].tag \in 0..2
  BY TagsKnown
<1>3. \A i, j \in 1..Len(asks) : asks[i].tag = asks[j].tag => i = j
  BY DEF BrainInv, Flight
<1>4. PICK s \in 0..2 : \A t \in 0..2 : InFlight(t) => t \in registered \/ (stopping /\ t = s)
  BY DEF BrainInv, Flight
<1>5. PICK r : registered \subseteq {r}
  BY DEF BrainInv, Asking, Asked
<1>6. \A i \in 1..Len(asks) : asks[i].tag \in {r, s}
  BY <1>2, <1>4, <1>5 DEF InFlight
<1>7. SUFFICES ASSUME Len(asks) > 2 PROVE FALSE
  BY <1>1
<1>8. 1 \in 1..Len(asks) /\ 2 \in 1..Len(asks) /\ 3 \in 1..Len(asks)
  BY <1>1, <1>7
<1> QED  BY <1>3, <1>6, <1>8

LEMMA FreshTagIsFresh ==
  ASSUME BrainInv, question = {}
  PROVE  FreshTag \in 0..2 /\ ~InFlight(FreshTag)
<1>1. PICK s \in 0..2 : \A t \in 0..2 : InFlight(t) => t \in registered \/ (stopping /\ t = s)
  BY DEF BrainInv, Flight
<1>2. registered = {}
  BY DEF BrainInv, Asking
<1>3. \E t \in 0..2 : ~InFlight(t)
  BY <1>1, <1>2
<1>4. asks \in Seq(Query) /\ wire \in Seq(Messages)
  BY DEF BrainInv, LinkTyped
<1>5. DOMAIN asks = 1..Len(asks) /\ DOMAIN wire = 1..Len(wire)
  BY <1>4
<1>6. FreshTag = CHOOSE t \in 0..2 : ~InFlight(t)
  BY <1>5 DEF FreshTag, InFlight
<1> QED  BY <1>3, <1>6

LEMMA BrainInvImplies ==
  ASSUME BrainInv
  PROVE  TypeOK /\ AnsweredOnce
<1>1. Len(asks) <= 2 /\ Len(wire) <= WireLen + 1 /\ \A i \in 1..Len(wire) : wire[i].tag \in 0..NoTag
  BY FewAsks, TagsKnown DEF BrainInv, Farewell
<1>2. wire \in Seq(Messages) /\ reply \in AtMostOne(Replies)
  BY DEF BrainInv, LinkTyped
<1>3. DOMAIN wire = 1..Len(wire)
  BY <1>2
<1>4. /\ Cardinality({}) = 0 /\ \A x : Cardinality({x}) = 1
  BY FS_EmptySet, FS_Singleton
<1>5. Cardinality(reply) <= 1
  <2>1. reply = {} \/ \E x : reply = {x}
    BY <1>2 DEF AtMostOne
  <2>2. Cardinality(reply) = 0 \/ Cardinality(reply) = 1
    BY <1>4, <2>1, Zenon
  <2> QED  BY <2>2
<1>6. Cardinality(question) <= 1 /\ rlocks \in 0..1 /\ done <= 1
  <2>1. CASE question = {}
    BY <1>4, <2>1 DEF BrainInv, Asking
  <2>2. CASE question # {}
    <3>1. PICK q \in question : TRUE
      BY <2>2
    <3>2. Asked(q)
      BY <3>1 DEF BrainInv, Asking
    <3>3. question = {q} /\ done \in {0, 1} /\ rlocks \in {0, 1}
      BY <3>2 DEF Asked
    <3>4. Cardinality(question) = 1
      BY <1>4, <3>3, Zenon
    <3> QED  BY <3>3, <3>4
  <2> QED  BY <2>1, <2>2
<1>7. /\ memory.at \in AtMostOne(Place) /\ memory.attacker \in AtMostOne(Other)
      /\ memory.studied \subseteq Thing
      /\ \A p \in Place : \A l \in memory.listing[p] : l \in LocInfos /\ l.place = p
      /\ \A a \in Actor : \A i \in memory.met[a] : i \in ActInfos /\ i.id = a
  BY DEF BrainInv, MindTyped, Memories
<1>8. LocInfos \subseteq Info /\ ActInfos \subseteq Info
  BY DEF LocInfos, ActInfos, Info
<1>9. registered \subseteq 0..2
  BY TagsKnown
<1>10. ZonesTyped /\ LinkTyped /\ EndsTyped
  BY DEF BrainInv
<1>11. {heard, stopping, shut, conn, crashed} \subseteq BOOLEAN
  BY <1>10 DEF EndsTyped
<1>12. TypeOK
  BY <1>1, <1>3, <1>5, <1>6, <1>7, <1>8, <1>9, <1>10, <1>11 DEF TypeOK, ZonesTyped, LinkTyped
<1> QED  BY <1>6, <1>10, <1>12 DEF AnsweredOnce

-----------------------------------------------------------------------------
(* The Zones *)

LEMMA NewsAppends ==
  ASSUME news \in Seq(News), NEW es \in Seq(News), SendEvents(es)
  PROVE  news' \in Seq(News)
BY DEF SendEvents

LEMMA EventTypes ==
  /\ \A k \in {"move", "in", "out", "relocate"} : \A a \in Actor : \A p, q \in Place :
        Ev(k, a, p, q) \in News
  /\ \A a \in Actor : \A p \in Place : Ev("add", a, Nowhere, p) \in News
  /\ \A a \in Actor : \A p \in Place : Ev("gone", a, p, Nowhere) \in News
  /\ \A a \in Actor : Ev("death", a, Nowhere, Nowhere) \in News
  /\ \A t \in Thing : \A p, q \in Place \cup Actor : Ev("thing", t, p, q) \in News
  /\ \A a \in Other : Ev("hurt", a, Nowhere, Me) \in News
  /\ \A a \in Other : Ev("hurt", Me, Nowhere, a) \in News
BY DEF Ev, News

LEMMA SeriesTypes ==
  ASSUME NEW e \in News
  PROVE  /\ \A n \in Nat : Times(n, e) \in Seq(News)
         /\ <<e>> \in Seq(News)
         /\ \A c \in BOOLEAN : If(c, <<e>>) \in Seq(News)
         /\ \A c \in BOOLEAN : \A n \in Nat : If(c, Times(n, e)) \in Seq(News)
<1>1. \A n \in Nat : Times(n, e) \in Seq(News)
  BY DEF Times
<1>2. <<e>> \in Seq(News) /\ <<>> \in Seq(News)
  OBVIOUS
<1> QED  BY <1>1, <1>2 DEF If

LEMMA PassageType ==
  ASSUME NEW a \in Actor, NEW from \in Place, NEW to \in Place, ears \in Nat
  PROVE  Passage(a, from, to) \in Seq(News)
<1>1. CASE Land[from] = Land[to]
  <2>1. Ev("move", a, from, to) \in News
    BY EventTypes
  <2>2. If(place[Me] \in {from, to}, <<Ev("move", a, from, to)>>) \in Seq(News)
    <3> DEFINE e == Ev("move", a, from, to)
    <3> HIDE DEF e
    <3>1. e \in News
      BY <2>1 DEF e
    <3>2. If(place[Me] \in {from, to}, <<e>>) \in Seq(News)
      BY <3>1 DEF If
    <3> QED  BY <3>2 DEF e
  <2> QED  BY <1>1, <2>2 DEF Passage
<1>2. CASE Land[from] # Land[to]
  <2> DEFINE in == If(place[Me] = to \/ a = Me, Times(ears, Ev("in", a, from, to)))
             out == If(place[Me] = from /\ a # Me, Times(ears, Ev("out", a, from, to)))
  <2>1. in \in Seq(News)
    BY EventTypes, SeriesTypes
  <2>2. out \in Seq(News)
    BY EventTypes, SeriesTypes
  <2>3. Passage(a, from, to) = in \o out
    BY <1>2 DEF Passage
  <2> HIDE DEF in, out
  <2> QED  BY <2>1, <2>2, <2>3
<1> QED  BY <1>1, <1>2

(* What happens in the Zones is told to the session, and that is all. *)
LEMMA OutsideKeeps ==
  ASSUME BrainInv, ~crashed, ZonesTyped', news' \in Seq(News),
         UNCHANGED <<session, reading, reply, asks, wire, memory, mind, registered, ends, crashed>>
  PROVE  BrainInv'
<1>1. /\ session' = session /\ reading' = reading /\ reply' = reply /\ asks' = asks
      /\ wire' = wire /\ memory' = memory /\ registered' = registered /\ crashed' = crashed
      /\ pc' = pc /\ plan' = plan /\ question' = question /\ done' = done /\ got' = got
      /\ rlocks' = rlocks /\ heard' = heard /\ stopping' = stopping /\ shut' = shut /\ conn' = conn
  BY DEF mind, ends
<1>2. LinkTyped' /\ EndsTyped' /\ MindTyped'
  BY <1>1 DEF BrainInv, LinkTyped, EndsTyped, MindTyped
<1>3. Asking'
  BY <1>1 DEF BrainInv, Asking, Asked
<1>4. Farewell' /\ Thinking'
  BY <1>1 DEF BrainInv, Farewell, Thinking
<1>5. Flight'
  BY <1>1 DEF BrainInv, Flight, InFlight
<1> QED  BY <1>1, <1>2, <1>3, <1>4, <1>5 DEF BrainInv

LEMMA OtherKeeps ==
  ASSUME BrainInv, OtherStep
  PROVE  BrainInv'
<1>1. /\ place \in [Actor -> Place \cup {Nowhere}] /\ lies \in [Thing -> Place \cup Actor]
      /\ hp \in [Actor -> 0..Health] /\ ears \in 1..MostEars /\ strolls \in 0..Strolls
      /\ carried \in BOOLEAN /\ news \in Seq(News)
  BY DEF BrainInv, ZonesTyped, LinkTyped
<1>2. ears \in Nat /\ Me \in Actor /\ Other \subseteq Actor /\ 0 \in 0..Health
  BY <1>1, BrainAssumption DEF Actor
<1>3. Happens => strolls' \in 0..Strolls /\ ~crashed
  BY <1>1, BrainAssumption DEF Happens
<1>4. ASSUME NEW a \in Other, Stroll(a) PROVE BrainInv'
  <2>1. PICK d \in DOMAIN Exit[place[a]] :
          /\ place' = [place EXCEPT ![a] = Exit[place[a]][d]]
          /\ SendEvents(Passage(a, place[a], Exit[place[a]][d]))
    BY <1>4 DEF Stroll
  <2>2. /\ Happens /\ place[a] \in Place
        /\ UNCHANGED <<lies, hp, ears, carried, session, reading, reply, asks, wire,
                       memory, mind, registered, ends, crashed>>
    BY <1>4 DEF Stroll
  <2>3. Exit[place[a]][d] \in Place
    BY <2>1, <2>2, BrainAssumption
  <2>4. news' \in Seq(News)
    BY <1>1, <1>2, <2>1, <2>2, <2>3, PassageType, NewsAppends
  <2>5. ZonesTyped'
    BY <1>1, <1>3, <2>1, <2>2, <2>3 DEF ZonesTyped
  <2> QED  BY <1>3, <2>2, <2>4, <2>5, OutsideKeeps
<1>5. ASSUME NEW a \in Other, Arrive(a) PROVE BrainInv'
  <2>1. PICK p \in Place :
          /\ place' = [place EXCEPT ![a] = p]
          /\ SendEvents(If(place[Me] = p, Times(ears, Ev("add", a, Nowhere, p))))
    BY <1>5 DEF Arrive
  <2>2. /\ Happens
        /\ UNCHANGED <<lies, hp, ears, carried, session, reading, reply, asks, wire,
                       memory, mind, registered, ends, crashed>>
    BY <1>5 DEF Arrive
  <2>3. If(place[Me] = p, Times(ears, Ev("add", a, Nowhere, p))) \in Seq(News)
    BY <1>2, EventTypes, SeriesTypes
  <2>4. news' \in Seq(News)
    BY <1>1, <2>1, <2>3, NewsAppends
  <2>5. ZonesTyped'
    BY <1>1, <1>3, <2>1, <2>2 DEF ZonesTyped
  <2> QED  BY <1>3, <2>2, <2>4, <2>5, OutsideKeeps
<1>6. ASSUME NEW a \in Other, Attack(a) PROVE BrainInv'
  <2>1. PICK left \in {0, hp[Me]} :
          /\ hp' = [hp EXCEPT ![Me] = left]
          /\ SendEvents(<<Ev("hurt", a, Nowhere, Me)>>
                        \o If(left = 0, Times(ears, Ev("death", Me, Nowhere, Nowhere))))
    BY <1>6 DEF Attack
  <2>2. /\ Happens
        /\ UNCHANGED <<place, lies, ears, carried, session, reading, reply, asks, wire,
                       memory, mind, registered, ends, crashed>>
    BY <1>6 DEF Attack
  <2> DEFINE last == If(left = 0, Times(ears, Ev("death", Me, Nowhere, Nowhere)))
  <2>3. <<Ev("hurt", a, Nowhere, Me)>> \in Seq(News)
    BY EventTypes, SeriesTypes
  <2>4. last \in Seq(News)
    BY <1>2, EventTypes, SeriesTypes
  <2>5. news' \in Seq(News)
    <3> HIDE DEF last
    <3>1. <<Ev("hurt", a, Nowhere, Me)>> \o last \in Seq(News)
      BY <2>3, <2>4
    <3> QED  BY <1>1, <2>1, <3>1, NewsAppends DEF last
  <2>6. left \in 0..Health
    BY <1>1, <1>2
  <2>7. ZonesTyped'
    BY <1>1, <1>3, <2>1, <2>2, <2>6 DEF ZonesTyped
  <2> QED  BY <1>3, <2>2, <2>5, <2>7, OutsideKeeps
<1>7. ASSUME NEW a \in Other, NEW t \in Thing, Exchange(a, t) PROVE BrainInv'
  <2> DEFINE to == IF lies[t] = a THEN place[a] ELSE a
  <2>1. /\ lies' = [lies EXCEPT ![t] = to]
        /\ SendEvents(If(place[Me] = place[a], <<Ev("thing", t, lies[t], to)>>))
        /\ Happens /\ place[a] \in Place
        /\ UNCHANGED <<place, hp, ears, carried, session, reading, reply, asks, wire,
                       memory, mind, registered, ends, crashed>>
    BY <1>7 DEF Exchange
  <2>2. to \in Place \cup Actor /\ lies[t] \in Place \cup Actor
    BY <1>1, <1>2, <2>1
  <2> HIDE DEF to
  <2>3. If(place[Me] = place[a], <<Ev("thing", t, lies[t], to)>>) \in Seq(News)
    BY <2>2, EventTypes, SeriesTypes
  <2>4. news' \in Seq(News)
    BY <1>1, <2>1, <2>3, NewsAppends
  <2>5. ZonesTyped'
    BY <1>1, <1>3, <2>1, <2>2 DEF ZonesTyped
  <2> QED  BY <1>3, <2>1, <2>4, <2>5, OutsideKeeps
<1>8. ASSUME NEW a \in Actor, Relocate(a) PROVE BrainInv'
  <2>1. PICK p \in Place \ {place[a]} :
          /\ place' = [place EXCEPT ![a] = p]
          /\ SendEvents(If(a = Me \/ place[Me] \in {p, place[a]},
                           Times(ears, Ev("relocate", a, place[a], p))))
    BY <1>8 DEF Relocate
  <2>2. /\ Happens /\ place[a] \in Place /\ carried' = (carried \/ a = Me)
        /\ UNCHANGED <<lies, hp, ears, session, reading, reply, asks, wire,
                       memory, mind, registered, ends, crashed>>
    BY <1>8 DEF Relocate
  <2>3. If(a = Me \/ place[Me] \in {p, place[a]}, Times(ears, Ev("relocate", a, place[a], p))) \in Seq(News)
    BY <1>2, <2>2, EventTypes, SeriesTypes
  <2>4. news' \in Seq(News)
    BY <1>1, <2>1, <2>3, NewsAppends
  <2>5. ZonesTyped'
    BY <1>1, <1>3, <2>1, <2>2 DEF ZonesTyped
  <2> QED  BY <1>3, <2>2, <2>4, <2>5, OutsideKeeps
<1> QED  BY <1>4, <1>5, <1>6, <1>7, <1>8 DEF OtherStep

-----------------------------------------------------------------------------
(* The session *)

LEMMA AnsweredType ==
  ASSUME NEW q \in Query
  PROVE  /\ \A i \in LocInfos : q.kind = "where" =>
              [type |-> "answer", tag |-> q.tag, kind |-> q.kind, body |-> {i}] \in Replies
         /\ \A i \in ActInfos : q.kind = "actor" =>
              [type |-> "answer", tag |-> q.tag, kind |-> q.kind, body |-> {i}] \in Replies
         /\ \A i \in Thing : q.kind = "thing" =>
              [type |-> "answer", tag |-> q.tag, kind |-> q.kind, body |-> {i}] \in Replies
         /\ \A type \in {"refused", "complete"} :
              [type |-> type, tag |-> q.tag, kind |-> q.kind, body |-> {}] \in Replies
<1>1. q.tag \in 0..2 /\ q.kind \in {"where", "actor", "thing", "move", "take", "strike"}
  BY DEF Query
<1>2. \A i \in LocInfos : {i} \in Ones(LocInfos)
  BY DEF Ones
<1>3. \A i \in ActInfos : {i} \in Ones(ActInfos)
  BY DEF Ones
<1>4. \A i \in Thing : {i} \in Ones(Thing)
  BY DEF Ones
<1>5. \A i \in LocInfos : q.kind = "where" =>
         [type |-> "answer", tag |-> q.tag, kind |-> q.kind, body |-> {i}] \in Replies
  BY <1>1, <1>2 DEF Replies
<1>6. \A i \in ActInfos : q.kind = "actor" =>
         [type |-> "answer", tag |-> q.tag, kind |-> q.kind, body |-> {i}] \in Replies
  BY <1>1, <1>3 DEF Replies
<1>7. \A i \in Thing : q.kind = "thing" =>
         [type |-> "answer", tag |-> q.tag, kind |-> q.kind, body |-> {i}] \in Replies
  BY <1>1, <1>4 DEF Replies
<1>8. \A type \in {"refused", "complete"} :
         [type |-> type, tag |-> q.tag, kind |-> q.kind, body |-> {}] \in Replies
  BY <1>1 DEF Replies
<1> QED  BY <1>5, <1>6, <1>7, <1>8

(* A command is served: it is no longer under way, its answer may be. *)
LEMMA ServedKeeps ==
  ASSUME BrainInv, ~crashed, asks # <<>>, asks' = Tail(asks),
         ZonesTyped', news' \in Seq(News), reading' \in BOOLEAN, crashed' \in BOOLEAN,
         \/ reply' = reply
         \/ session = "open" /\ \E r \in Replies : reply' = {r} /\ r.tag = Head(asks).tag,
         session' = session \/ (session = "open" /\ session' = "closing"),
         UNCHANGED <<wire, memory, mind, registered, ends>>
  PROVE  BrainInv'
<1>1. /\ wire' = wire /\ memory' = memory /\ registered' = registered
      /\ pc' = pc /\ plan' = plan /\ question' = question /\ done' = done /\ got' = got
      /\ rlocks' = rlocks /\ heard' = heard /\ stopping' = stopping /\ shut' = shut /\ conn' = conn
  BY DEF mind, ends
<1>2. LinkTyped /\ EndsTyped /\ MindTyped
  BY DEF BrainInv
<1>3. /\ asks' \in Seq(Query) /\ Len(asks') = Len(asks) - 1
      /\ \A i \in 1..Len(asks') : asks'[i] = asks[i+1]
  BY <1>2 DEF LinkTyped
<1>4. LinkTyped'
  BY <1>1, <1>2, <1>3 DEF LinkTyped, AtMostOne
<1>5. EndsTyped' /\ MindTyped'
  BY <1>1, <1>2 DEF EndsTyped, MindTyped
<1>6. Asking'
  BY <1>1 DEF BrainInv, Asking, Asked
<1>7. Farewell' /\ Thinking'
  BY <1>1 DEF BrainInv, Farewell, Thinking
<1>8. Flight'
  <2>1. Len(asks) \in Nat /\ Len(asks) > 0 /\ asks[1] = Head(asks)
    BY <1>2, EmptySeq DEF LinkTyped
  <2>2. \A i \in 1..Len(asks') : i + 1 \in 1..Len(asks) /\ i + 1 # 1
    BY <1>3, <2>1
  <2>3. 1 \in 1..Len(asks)
    BY <2>1
  <2>4. \A i, j \in 1..Len(asks) : asks[i].tag = asks[j].tag => i = j
    BY DEF BrainInv, Flight
  <2>5. \A i, j \in 1..Len(asks') : asks'[i].tag = asks'[j].tag => i = j
    <3> SUFFICES ASSUME NEW i \in 1..Len(asks'), NEW j \in 1..Len(asks'), asks'[i].tag = asks'[j].tag
                 PROVE  i = j
      OBVIOUS
    <3>1. asks[i+1].tag = asks[j+1].tag
      BY <1>3
    <3>2. i + 1 = j + 1
      BY <2>2, <2>4, <3>1
    <3> QED  BY <1>3, <3>2
  <2>6. \A i, j \in 1..Len(wire') : wire'[i].tag = wire'[j].tag /\ wire'[i].tag # NoTag => i = j
    BY <1>1 DEF BrainInv, Flight
  <2>7. \A i \in 1..Len(asks'), j \in 1..Len(wire') : asks'[i].tag # wire'[j].tag
    BY <1>1, <1>3, <2>2 DEF BrainInv, Flight
  <2>8. \A r \in reply' : r \in reply \/ r.tag = asks[1].tag
    BY <2>1
  <2>9. \A r \in reply' : \A i \in 1..Len(asks') : asks'[i].tag # r.tag
    <3>1. \A r \in reply : \A i \in 1..Len(asks) : asks[i].tag # r.tag
      BY DEF BrainInv, Flight
    <3> QED  BY <1>3, <2>2, <2>3, <2>4, <2>8, <3>1
  <2>10. \A r \in reply' : \A i \in 1..Len(wire') : wire'[i].tag # r.tag
    <3>1. \A r \in reply : \A i \in 1..Len(wire) : wire[i].tag # r.tag
      BY DEF BrainInv, Flight
    <3>2. \A j \in 1..Len(wire) : asks[1].tag # wire[j].tag
      BY <2>3 DEF BrainInv, Flight
    <3> QED  BY <1>1, <2>8, <3>1, <3>2
  <2>11. \A t : InFlight(t)' => InFlight(t)
    BY <1>1, <1>3, <2>2, <2>3, <2>8 DEF InFlight
  <2>12. \E s \in 0..2 : \A t \in 0..2 : InFlight(t)' => t \in registered' \/ (stopping' /\ t = s)
    <3>1. PICK s \in 0..2 : \A t \in 0..2 : InFlight(t) => t \in registered \/ (stopping /\ t = s)
      BY DEF BrainInv, Flight
    <3> QED  BY <1>1, <2>11, <3>1
  <2> QED  BY <2>5, <2>6, <2>7, <2>9, <2>10, <2>12 DEF Flight
<1> QED  BY <1>4, <1>5, <1>6, <1>7, <1>8 DEF BrainInv

(* A set as a list: each of its elements, in some order. *)
LEMMA ListOfSet ==
  ASSUME NEW S, IsFiniteSet(S)
  PROVE  /\ SetToSeq(S) \in [1..Cardinality(S) -> S] /\ Cardinality(S) \in Nat
         /\ SetToSeq(S) \in Seq(S)
<1>1. Cardinality(S) \in Nat /\ ExistsBijection(1..Cardinality(S), S)
  BY FS_CardinalityType
<1>2. PICK f : f \in Bijection(1..Cardinality(S), S)
  BY <1>1 DEF ExistsBijection
<1>3. f \in [1..Cardinality(S) -> S] /\ IsInjective(f)
  BY <1>2 DEF Bijection, Injection, IsInjective
<1>4. SetToSeq(S) \in [1..Cardinality(S) -> S]
  BY <1>3 DEF SetToSeq
<1> QED  BY <1>1, <1>4, SeqDef

LEMMA ListOfOne ==
  ASSUME NEW x
  PROVE  Len(SetToSeq({x})) = 1 /\ SetToSeq({x})[1] = x
<1>1. IsFiniteSet({x}) /\ Cardinality({x}) = 1
  BY FS_Singleton
<1>2. SetToSeq({x}) \in [1..1 -> {x}] /\ SetToSeq({x}) \in Seq({x})
  BY <1>1, ListOfSet
<1>3. DOMAIN SetToSeq({x}) = 1..1
  BY <1>2
<1>4. Len(SetToSeq({x})) = 1
  BY <1>2, <1>3, LenProperties
<1> QED  BY <1>2, <1>4

LEMMA DeadType ==
  ASSUME ZonesTyped, NEW a \in Other, place[a] \in Place
  PROVE  Dead(a) \in Seq(News)
<1> DEFINE S == {t \in Thing : lies[t] = a}
           loot == SetToSeq(S)
           left == [i \in DOMAIN loot |-> Ev("thing", loot[i], a, place[a])]
           first == Times(ears, Ev("death", a, Nowhere, Nowhere))
           last == Times(ears, Ev("gone", a, place[a], Nowhere))
<1>1. ears \in Nat /\ a \in Actor
  BY BrainAssumption DEF ZonesTyped, Actor
<1>2. IsFiniteSet(S)
  BY BrainAssumption, FS_Subset
<1>3. S \subseteq Thing
  OBVIOUS
<1>4. Dead(a) = first \o left \o last
  BY DEF Dead
<1>5. first \in Seq(News)
  BY <1>1, EventTypes, SeriesTypes
<1>6. last \in Seq(News)
  BY <1>1, EventTypes, SeriesTypes
<1>7. left \in Seq(News)
  <2> HIDE DEF S
  <2>1. DOMAIN loot = 1..Cardinality(S) /\ Cardinality(S) \in Nat /\ loot \in [1..Cardinality(S) -> S]
    BY <1>2, ListOfSet
  <2> HIDE DEF loot
  <2>2. \A i \in 1..Cardinality(S) : left[i] \in News
    <3> TAKE i \in 1..Cardinality(S)
    <3>1. loot[i] \in Thing
      BY <1>3, <2>1
    <3>2. left[i] = Ev("thing", loot[i], a, place[a])
      BY <2>1
    <3> QED  BY <1>1, <3>1, <3>2, EventTypes
  <2>3. left = [i \in 1..Cardinality(S) |-> left[i]]
    BY <2>1
  <2> HIDE DEF left
  <2> QED  BY <2>1, <2>2, <2>3, SeqDef
<1> HIDE DEF left, first, last
<1> QED  BY <1>4, <1>5, <1>6, <1>7

LEMMA InfoTypes ==
  ASSUME ZonesTyped
  PROVE  /\ \A p \in Place : LocationInfo(p) \in LocInfos
         /\ \A a \in Actor : ActorInfo(a) \in ActInfos
BY DEF ZonesTyped, LocationInfo, ActorInfo, LocInfos, ActInfos

(* What has become of the Zones and of the session once q is served. *)
Served(q) ==
    /\ ZonesTyped' /\ news' \in Seq(News)
    /\ reply' = reply \/ \E r \in Replies : reply' = {r} /\ r.tag = q.tag
    /\ session' \in {session, "closing"}

LEMMA AnswerServes ==
  ASSUME NEW q, NEW type, NEW info, Answer(q, type, info),
         [type |-> type, tag |-> q.tag, kind |-> q.kind, body |-> info] \in Replies
  PROVE  \E r \in Replies : reply' = {r} /\ r.tag = q.tag
BY DEF Answer

LEMMA MoveActorServes ==
  ASSUME ZonesTyped, LinkTyped, NEW q \in Query, place[Me] \in Place, MoveActor(q)
  PROVE  Served(q)
<1> DEFINE here == place[Me]
           to == Exit[here][q.of]
<1>1. /\ place \in [Actor -> Place \cup {Nowhere}] /\ ears \in 1..MostEars /\ carried \in BOOLEAN
      /\ news \in Seq(News) /\ MostEars \in Nat /\ Me \in Actor
  BY BrainAssumption DEF ZonesTyped, LinkTyped, Actor
<1>2. UNCHANGED <<lies, hp, strolls, session>>
  BY DEF MoveActor
<1>3. CASE Answer(q, "refused", {}) /\ UNCHANGED <<place, ears, carried, news>>
  <2>1. \E r \in Replies : reply' = {r} /\ r.tag = q.tag
    BY <1>3, AnsweredType, AnswerServes
  <2> QED  BY <1>1, <1>2, <1>3, <2>1 DEF Served, ZonesTyped
<1>4. CASE /\ q.of \in DOMAIN Exit[here]
           /\ Land[to] = Land[here] \/ ears < MostEars
           /\ place' = [place EXCEPT ![Me] = to]
           /\ ears' = IF Land[to] = Land[here] THEN ears ELSE ears + 1
           /\ carried' = FALSE
           /\ SendEvents(Passage(Me, here, to))
           /\ Answer(q, "complete", {})
  <2>1. to \in Place
    BY <1>4, BrainAssumption
  <2>2. news' \in Seq(News)
    BY <1>1, <1>4, <2>1, PassageType, NewsAppends
  <2>3. \E r \in Replies : reply' = {r} /\ r.tag = q.tag
    BY <1>4, AnsweredType, AnswerServes
  <2>4. ears' \in 1..MostEars
    BY <1>1, <1>4
  <2>5. place' \in [Actor -> Place \cup {Nowhere}]
    BY <1>1, <1>4, <2>1
  <2>6. ZonesTyped'
    BY <1>2, <1>4, <2>4, <2>5 DEF ZonesTyped
  <2> QED  BY <1>2, <2>2, <2>3, <2>6 DEF Served
<1> HIDE DEF to, here
<1> QED  BY <1>3, <1>4 DEF MoveActor, here, to

LEMMA MoveObjectServes ==
  ASSUME ZonesTyped, LinkTyped, NEW q \in Query, q.kind = "take", place[Me] \in Place, MoveObject(q)
  PROVE  Served(q)
<1>1. lies \in [Thing -> Place \cup Actor] /\ news \in Seq(News) /\ Me \in Actor
  BY BrainAssumption DEF ZonesTyped, LinkTyped, Actor
<1>2. UNCHANGED <<place, hp, ears, strolls, carried>>
  BY DEF MoveObject
<1>3. CASE Answer(q, "refused", {}) /\ UNCHANGED <<lies, news, session>>
  <2>1. \E r \in Replies : reply' = {r} /\ r.tag = q.tag
    BY <1>3, AnsweredType, AnswerServes
  <2> QED  BY <1>1, <1>2, <1>3, <2>1 DEF Served, ZonesTyped
<1>4. CASE CloseSession /\ UNCHANGED <<lies, news>>
  BY <1>1, <1>2, <1>4 DEF Served, ZonesTyped, CloseSession
<1>5. CASE UNCHANGED <<lies, news, session, reply>>
  BY <1>1, <1>2, <1>5 DEF Served, ZonesTyped
<1>6. CASE /\ lies' = [lies EXCEPT ![q.of[1]] = Me]
           /\ SendEvents(<<Ev("thing", q.of[1], place[Me], Me)>>)
           /\ Answer(q, "complete", {})
           /\ UNCHANGED session
  <2>1. q.of[1] \in Thing
    <3>1. q.of \in Thing \X Place
      BY DEF Query
    <3> QED  BY <3>1
  <2>2. <<Ev("thing", q.of[1], place[Me], Me)>> \in Seq(News)
    BY <1>1, <2>1, EventTypes, SeriesTypes
  <2>3. news' \in Seq(News)
    BY <1>1, <1>6, <2>2, NewsAppends
  <2>4. \E r \in Replies : reply' = {r} /\ r.tag = q.tag
    BY <1>6, AnsweredType, AnswerServes
  <2>5. ZonesTyped'
    BY <1>1, <1>2, <1>6 DEF ZonesTyped
  <2> QED  BY <1>6, <2>3, <2>4, <2>5 DEF Served
<1> QED  BY <1>3, <1>4, <1>5, <1>6 DEF MoveObject

LEMMA MeleeServes ==
  ASSUME ZonesTyped, LinkTyped, NEW q \in Query, q.kind = "strike", place[Me] \in Place, MeleeCombat(q)
  PROVE  Served(q)
<1> DEFINE a == q.of
<1>1. /\ place \in [Actor -> Place \cup {Nowhere}] /\ lies \in [Thing -> Place \cup Actor]
      /\ hp \in [Actor -> 0..Health] /\ news \in Seq(News) /\ Me \in Actor
  BY BrainAssumption DEF ZonesTyped, LinkTyped, Actor
<1>2. UNCHANGED <<ears, strolls, carried>>
  BY DEF MeleeCombat
<1>3. a \in Other /\ a \in Actor
  BY DEF Query, Actor
<1>4. CASE Answer(q, "refused", {}) /\ UNCHANGED <<place, lies, hp, news, session>>
  <2>1. \E r \in Replies : reply' = {r} /\ r.tag = q.tag
    BY <1>4, AnsweredType, AnswerServes
  <2> QED  BY <1>1, <1>2, <1>4, <2>1 DEF Served, ZonesTyped
<1>5. CASE CloseSession /\ UNCHANGED <<place, lies, hp, news>>
  BY <1>1, <1>2, <1>5 DEF Served, ZonesTyped, CloseSession
<1>6. ASSUME place[a] = place[Me], UNCHANGED session, Answer(q, "complete", {}),
             NEW left \in 0..hp[a], hp' = [hp EXCEPT ![a] = left],
             \/ /\ SendEvents(If(left < hp[a], <<Ev("hurt", Me, Nowhere, a)>>))
                /\ UNCHANGED <<place, lies>>
             \/ /\ SendEvents(<<Ev("hurt", Me, Nowhere, a)>> \o Dead(a))
                /\ place' = [place EXCEPT ![a] = Nowhere]
                /\ lies' = [t \in Thing |-> IF lies[t] = a THEN place[a] ELSE lies[t]]
      PROVE  Served(q)
  <2>1. \E r \in Replies : reply' = {r} /\ r.tag = q.tag
    BY <1>6, AnsweredType, AnswerServes
  <2>2. <<Ev("hurt", Me, Nowhere, a)>> \in Seq(News)
    BY <1>3, EventTypes, SeriesTypes
  <2>3. <<Ev("hurt", Me, Nowhere, a)>> \o Dead(a) \in Seq(News)
    <3>1. Dead(a) \in Seq(News)
      BY <1>3, <1>6, DeadType
    <3> QED  BY <2>2, <3>1
  <2>4. If(left < hp[a], <<Ev("hurt", Me, Nowhere, a)>>) \in Seq(News)
    BY <2>2 DEF If
  <2>5. news' \in Seq(News)
    BY <1>1, <1>6, <2>3, <2>4, NewsAppends
  <2>6. left \in 0..Health
    <3>1. hp[a] \in 0..Health /\ Health \in Nat
      BY <1>1, <1>3, BrainAssumption
    <3> QED  BY <3>1
  <2>7. hp' \in [Actor -> 0..Health]
    BY <1>1, <1>6, <2>6
  <2>8. /\ place' \in [Actor -> Place \cup {Nowhere}]
        /\ lies' \in [Thing -> Place \cup Actor]
    BY <1>1, <1>6
  <2>9. ZonesTyped'
    BY <1>2, <2>7, <2>8 DEF ZonesTyped
  <2> QED  BY <1>6, <2>1, <2>5, <2>9 DEF Served
<1> HIDE DEF a
<1> QED  BY <1>4, <1>5, <1>6 DEF MeleeCombat, a

LEMMA ServeOpenServes ==
  ASSUME ZonesTyped, LinkTyped, NEW q \in Query, ServeOpen(q)
  PROVE  Served(q)
<1>1. place \in [Actor -> Place \cup {Nowhere}] /\ Me \in Actor
  BY DEF ZonesTyped, Actor
<1>2. place[Me] \in Place
  BY <1>1 DEF ServeOpen
<1>3. CASE q.kind = "where" /\ GetCurrentLocInfo(q)
  <2>1. LocationInfo(place[Me]) \in LocInfos
    BY <1>2, InfoTypes
  <2>2. \E r \in Replies : reply' = {r} /\ r.tag = q.tag
    BY <1>3, <2>1, AnsweredType, AnswerServes DEF GetCurrentLocInfo
  <2> QED  BY <1>3, <2>2 DEF GetCurrentLocInfo, Served, ZonesTyped, LinkTyped, zones
<1>4. CASE q.kind = "actor" /\ LookAtOtherActor(q)
  <2>1. q.of \in Actor
    BY <1>4 DEF Query
  <2>2. ActorInfo(q.of) \in ActInfos
    BY <2>1, InfoTypes
  <2>3. \E r \in Replies : reply' = {r} /\ r.tag = q.tag
    BY <1>4, <2>2, AnsweredType, AnswerServes DEF LookAtOtherActor
  <2> QED  BY <1>4, <2>3 DEF LookAtOtherActor, Served, ZonesTyped, LinkTyped, zones
<1>5. CASE q.kind = "thing" /\ LookAtObject(q)
  <2>1. q.of \in Thing
    BY <1>5 DEF Query
  <2>2. \E r \in Replies : reply' = {r} /\ r.tag = q.tag
    BY <1>5, <2>1, AnsweredType, AnswerServes DEF LookAtObject
  <2> QED  BY <1>5, <2>2 DEF LookAtObject, Served, ZonesTyped, LinkTyped, zones
<1>6. CASE q.kind = "move" /\ MoveActor(q)
  BY <1>2, <1>6, MoveActorServes
<1>7. CASE q.kind = "take" /\ MoveObject(q)
  BY <1>2, <1>7, MoveObjectServes
<1>8. CASE q.kind = "strike" /\ MeleeCombat(q)
  BY <1>2, <1>8, MeleeServes
<1> QED  BY <1>3, <1>4, <1>5, <1>6, <1>7, <1>8 DEF ServeOpen

LEMMA ServeKeeps ==
  ASSUME BrainInv, Serve
  PROVE  BrainInv'
<1> DEFINE q == Head(asks)
<1>1. /\ ~crashed /\ asks # <<>> /\ reading' = FALSE /\ asks' = Tail(asks)
      /\ ServeDetached(q) \/ ServeBuried \/ ServeOpen(q)
      /\ UNCHANGED <<wire, memory, mind, registered, ends>>
  BY DEF Serve
<1>2. ZonesTyped /\ LinkTyped /\ EndsTyped
  BY DEF BrainInv
<1>3. q \in Query
  <2>1. asks \in Seq(Query)
    BY <1>2 DEF LinkTyped
  <2> QED  BY <1>1, <2>1
<1> HIDE DEF q
<1>4. CASE ServeDetached(q)
  <2>1. /\ session # "open" /\ crashed' \in BOOLEAN
        /\ UNCHANGED <<zones, news, reply, session>>
    BY <1>4 DEF ServeDetached
  <2>2. ZonesTyped' /\ news' \in Seq(News)
    BY <1>2, <2>1 DEF ZonesTyped, LinkTyped, zones
  <2> QED  BY <1>1, <2>1, <2>2, ServedKeeps
<1>5. CASE ServeBuried
  <2>1. /\ place[Me] = Nowhere /\ crashed' = TRUE
        /\ UNCHANGED <<zones, news, reply, session>>
    BY <1>5 DEF ServeBuried
  <2>2. ZonesTyped' /\ news' \in Seq(News) /\ place' = place
    BY <1>2, <2>1 DEF ZonesTyped, LinkTyped, zones
  <2> QED  BY <1>1, <2>1, <2>2, ServedKeeps
<1>6. CASE ServeOpen(q)
  <2>1. session = "open" /\ crashed' = Astray(q)
    BY <1>6 DEF ServeOpen
  <2>2. Served(q)
    BY <1>2, <1>3, <1>6, ServeOpenServes
  <2>3. /\ ZonesTyped' /\ news' \in Seq(News) /\ session' \in {session, "closing"}
        /\ reply' = reply \/ \E r \in Replies : reply' = {r} /\ r.tag = Head(asks).tag
    BY <2>2 DEF Served, q
  <2>4. reading' \in BOOLEAN /\ crashed' \in BOOLEAN
    BY <1>1, <2>1 DEF Astray
  <2> QED  BY <1>1, <2>1, <2>3, <2>4, ServedKeeps
<1> QED  BY <1>1, <1>4, <1>5, <1>6

(* The answer that was pending is on the wire, and pending no longer. *)
LEMMA SendReplyKeeps ==
  ASSUME BrainInv, SendReply
  PROVE  BrainInv'
<1>1. PICK r \in reply : TRUE
  BY DEF SendReply
<1>2. LinkTyped /\ ZonesTyped /\ EndsTyped /\ MindTyped
  BY DEF BrainInv
<1>3. reply = {r} /\ r \in Replies
  BY <1>1, <1>2 DEF LinkTyped, AtMostOne
<1> DEFINE s == SetToSeq(reply)
<1>4. s \in Seq(Messages) /\ Len(s) = 1 /\ s[1] = r
  <2>1. Len(s) = 1 /\ s[1] = r /\ IsFiniteSet({r})
    BY <1>3, ListOfOne, FS_Singleton
  <2>2. s \in Seq({r})
    BY <1>3, <2>1, ListOfSet
  <2>3. r \in Messages
    BY <1>3 DEF Messages
  <2> HIDE DEF s
  <2> QED  BY <2>1, <2>2, <2>3
<1>5. /\ ~crashed /\ Len(wire) < WireLen /\ wire' = wire \o s /\ reply' = {}
      /\ reading' = (session = "open")
      /\ session' = session /\ news' = news /\ asks' = asks
      /\ UNCHANGED <<zones, memory, mind, registered, ends, crashed>>
  BY DEF SendReply
<1> HIDE DEF s
<1>6. /\ memory' = memory /\ registered' = registered /\ crashed' = crashed
      /\ pc' = pc /\ plan' = plan /\ question' = question /\ done' = done /\ got' = got
      /\ rlocks' = rlocks /\ heard' = heard /\ stopping' = stopping /\ shut' = shut /\ conn' = conn
  BY <1>5 DEF mind, ends
<1>7. wire \in Seq(Messages) /\ Len(wire) \in Nat /\ WireLen \in Nat
  BY <1>2, BrainAssumption DEF LinkTyped
<1>8. /\ wire' \in Seq(Messages) /\ Len(wire') = Len(wire) + 1
      /\ \A i \in 1..Len(wire) : wire'[i] = wire[i]
      /\ wire'[Len(wire) + 1] = r
  <2>1. /\ wire' \in Seq(Messages) /\ Len(wire') = Len(wire) + 1
        /\ \A i \in 1..Len(wire) + 1 : wire'[i] = IF i <= Len(wire) THEN wire[i] ELSE s[i - Len(wire)]
    <3>1. /\ wire \o s \in Seq(Messages) /\ Len(wire \o s) = Len(wire) + Len(s)
          /\ \A i \in 1..Len(wire) + Len(s) :
                (wire \o s)[i] = IF i <= Len(wire) THEN wire[i] ELSE s[i - Len(wire)]
      BY <1>4, <1>7, ConcatProperties, Zenon
    <3> QED  BY <1>4, <1>5, <3>1
  <2>2. Len(wire) + 1 \in 1..Len(wire) + 1 /\ Len(wire) + 1 - Len(wire) = 1
    BY <1>7
  <2>3. \A i \in 1..Len(wire) : i \in 1..Len(wire) + 1 /\ i <= Len(wire)
    BY <1>7
  <2> QED  BY <1>4, <1>7, <2>1, <2>2, <2>3
<1>9. LinkTyped'
  BY <1>2, <1>5, <1>8 DEF LinkTyped, AtMostOne
<1>10. ZonesTyped' /\ EndsTyped' /\ MindTyped'
  BY <1>2, <1>5, <1>6 DEF ZonesTyped, EndsTyped, MindTyped, zones
<1>11. Asking' /\ Thinking'
  BY <1>6 DEF BrainInv, Asking, Asked, Thinking
<1>12. session # "closed" /\ r.type # "close"
  <2>1. r.type # "close"
    BY <1>3 DEF Replies
  <2> QED  BY <1>3, <2>1 DEF BrainInv, Farewell
<1>13. \A i \in 1..Len(wire') : i \in 1..Len(wire) \/ i = Len(wire) + 1
  BY <1>7, <1>8
<1>14. Farewell'
  <2>1. \A i \in 1..Len(wire') : wire'[i].type = "close" => session = "closed"
    BY <1>8, <1>12, <1>13 DEF BrainInv, Farewell
  <2> QED  BY <1>5, <1>6, <1>7, <1>8, <1>12, <2>1 DEF BrainInv, Farewell
<1>15. Flight'
  <2>1. \A i \in 1..Len(wire) : wire[i].tag # r.tag
    BY <1>1 DEF BrainInv, Flight
  <2>2. \A i \in 1..Len(asks) : asks[i].tag # r.tag
    BY <1>1 DEF BrainInv, Flight
  <2>3. \A i, j \in 1..Len(wire') : wire'[i].tag = wire'[j].tag /\ wire'[i].tag # NoTag => i = j
    <3>1. \A i, j \in 1..Len(wire) : wire[i].tag = wire[j].tag /\ wire[i].tag # NoTag => i = j
      BY DEF BrainInv, Flight
    <3> QED  BY <1>8, <1>13, <2>1, <3>1
  <2>4. \A i, j \in 1..Len(asks') : asks'[i].tag = asks'[j].tag => i = j
    BY <1>5 DEF BrainInv, Flight
  <2>5. \A i \in 1..Len(asks'), j \in 1..Len(wire') : asks'[i].tag # wire'[j].tag
    <3>1. \A i \in 1..Len(asks), j \in 1..Len(wire) : asks[i].tag # wire[j].tag
      BY DEF BrainInv, Flight
    <3> QED  BY <1>5, <1>8, <1>13, <2>2, <3>1
  <2>6. \A t : InFlight(t)' => InFlight(t)
    BY <1>3, <1>5, <1>8, <1>13 DEF InFlight
  <2>7. \E q \in 0..2 : \A t \in 0..2 : InFlight(t)' => t \in registered' \/ (stopping' /\ t = q)
    <3>1. PICK q \in 0..2 : \A t \in 0..2 : InFlight(t) => t \in registered \/ (stopping /\ t = q)
      BY DEF BrainInv, Flight
    <3> QED  BY <1>6, <2>6, <3>1
  <2> QED  BY <1>5, <2>3, <2>4, <2>5, <2>7 DEF Flight
<1> QED  BY <1>9, <1>10, <1>11, <1>14, <1>15 DEF BrainInv

LEMMA ForwardEventKeeps ==
  ASSUME BrainInv, ForwardEvent
  PROVE  BrainInv'
<1> DEFINE m == [type |-> "event", tag |-> NoTag, kind |-> "event", body |-> {Head(news)}]
<1>1. LinkTyped /\ ZonesTyped /\ EndsTyped /\ MindTyped
  BY DEF BrainInv
<1>2. /\ ~crashed /\ session # "closed" /\ news # <<>> /\ Len(wire) < WireLen
      /\ wire' = Append(wire, m) /\ news' = Tail(news)
      /\ session' = session /\ reading' = reading /\ reply' = reply /\ asks' = asks
      /\ UNCHANGED <<zones, memory, mind, registered, ends, crashed>>
  BY DEF ForwardEvent
<1>3. m \in Messages /\ m.tag = NoTag /\ m.type # "close"
  <2>1. Head(news) \in News
    BY <1>1, <1>2 DEF LinkTyped
  <2>2. {Head(news)} \in Ones(News)
    BY <2>1 DEF Ones
  <2> QED  BY <2>2 DEF Messages
<1> HIDE DEF m
<1>4. /\ memory' = memory /\ registered' = registered /\ crashed' = crashed
      /\ pc' = pc /\ plan' = plan /\ question' = question /\ done' = done /\ got' = got
      /\ rlocks' = rlocks /\ heard' = heard /\ stopping' = stopping /\ shut' = shut /\ conn' = conn
  BY <1>2 DEF mind, ends
<1>5. wire \in Seq(Messages) /\ Len(wire) \in Nat /\ WireLen \in Nat
  BY <1>1, BrainAssumption DEF LinkTyped
<1>6. /\ wire' \in Seq(Messages) /\ Len(wire') = Len(wire) + 1
      /\ \A i \in 1..Len(wire) : wire'[i] = wire[i]
      /\ wire'[Len(wire) + 1] = m
  BY <1>2, <1>3, <1>5
<1>7. \A i \in 1..Len(wire') : i \in 1..Len(wire) \/ i = Len(wire) + 1
  BY <1>5, <1>6
<1>8. LinkTyped'
  <2>1. news' \in Seq(News)
    BY <1>1, <1>2 DEF LinkTyped
  <2> QED  BY <1>1, <1>2, <1>6, <2>1 DEF LinkTyped
<1>9. ZonesTyped' /\ EndsTyped' /\ MindTyped'
  BY <1>1, <1>2, <1>4 DEF ZonesTyped, EndsTyped, MindTyped, zones
<1>10. Asking' /\ Thinking'
  BY <1>4 DEF BrainInv, Asking, Asked, Thinking
<1>11. Farewell'
  <2>1. \A i \in 1..Len(wire') : wire'[i].type = "close" => session = "closed"
    BY <1>3, <1>6, <1>7 DEF BrainInv, Farewell
  <2> QED  BY <1>2, <1>4, <1>5, <1>6, <2>1 DEF BrainInv, Farewell
<1>12. Flight'
  <2>1. \A i \in 1..Len(asks) : asks[i].tag # NoTag
    BY TagsKnown DEF NoTag
  <2>2. \A r \in reply : r.tag # NoTag
    BY TagsKnown DEF NoTag
  <2>3. \A i, j \in 1..Len(wire') : wire'[i].tag = wire'[j].tag /\ wire'[i].tag # NoTag => i = j
    <3>1. \A i, j \in 1..Len(wire) : wire[i].tag = wire[j].tag /\ wire[i].tag # NoTag => i = j
      BY DEF BrainInv, Flight
    <3> QED  BY <1>3, <1>6, <1>7, <3>1
  <2>4. \A i, j \in 1..Len(asks') : asks'[i].tag = asks'[j].tag => i = j
    BY <1>2 DEF BrainInv, Flight
  <2>5. \A i \in 1..Len(asks'), j \in 1..Len(wire') : asks'[i].tag # wire'[j].tag
    <3>1. \A i \in 1..Len(asks), j \in 1..Len(wire) : asks[i].tag # wire[j].tag
      BY DEF BrainInv, Flight
    <3> QED  BY <1>2, <1>3, <1>6, <1>7, <2>1, <3>1
  <2>6. \A r \in reply' : \A i \in 1..Len(asks') : asks'[i].tag # r.tag
    BY <1>2 DEF BrainInv, Flight
  <2>7. \A r \in reply' : \A i \in 1..Len(wire') : wire'[i].tag # r.tag
    <3>1. \A r \in reply : \A i \in 1..Len(wire) : wire[i].tag # r.tag
      BY DEF BrainInv, Flight
    <3> QED  BY <1>2, <1>3, <1>6, <1>7, <2>2, <3>1
  <2>8. \A t \in 0..2 : InFlight(t)' => InFlight(t)
    BY <1>2, <1>3, <1>6, <1>7 DEF InFlight, NoTag
  <2>9. \E q \in 0..2 : \A t \in 0..2 : InFlight(t)' => t \in registered' \/ (stopping' /\ t = q)
    <3>1. PICK q \in 0..2 : \A t \in 0..2 : InFlight(t) => t \in registered \/ (stopping /\ t = q)
      BY DEF BrainInv, Flight
    <3> QED  BY <1>4, <2>8, <3>1
  <2> QED  BY <2>3, <2>4, <2>5, <2>6, <2>7, <2>9 DEF Flight
<1> QED  BY <1>8, <1>9, <1>10, <1>11, <1>12 DEF BrainInv

(* Some of what is queued is thrown away, and the close message follows. *)
LEMMA StopSendingKeeps ==
  ASSUME BrainInv, StopSending
  PROVE  BrainInv'
<1> DEFINE m == [type |-> "close", tag |-> NoTag, kind |-> "event", body |-> {}]
<1>1. LinkTyped /\ ZonesTyped /\ EndsTyped /\ MindTyped
  BY DEF BrainInv
<1>2. PICK n \in 0..Len(wire) : wire' = Append(SubSeq(wire, 1, n), m)
  BY DEF StopSending
<1>3. /\ ~crashed /\ session = "closing" /\ session' = "closed" /\ news' = <<>> /\ reply' = {}
      /\ reading' = reading /\ asks' = asks
      /\ UNCHANGED <<zones, memory, mind, registered, ends, crashed>>
  BY DEF StopSending
<1>4. m \in Messages /\ m.tag = NoTag
  BY DEF Messages
<1> HIDE DEF m
<1>5. /\ memory' = memory /\ registered' = registered /\ crashed' = crashed
      /\ pc' = pc /\ plan' = plan /\ question' = question /\ done' = done /\ got' = got
      /\ rlocks' = rlocks /\ heard' = heard /\ stopping' = stopping /\ shut' = shut /\ conn' = conn
  BY <1>3 DEF mind, ends
<1>6. wire \in Seq(Messages) /\ Len(wire) \in Nat /\ WireLen \in Nat
  BY <1>1, BrainAssumption DEF LinkTyped
<1>7. /\ wire' \in Seq(Messages) /\ Len(wire') = n + 1
      /\ \A i \in 1..n : wire'[i] = wire[i] /\ i \in 1..Len(wire)
      /\ wire'[n + 1] = m
  <2>1. SubSeq(wire, 1, n) \in Seq(Messages) /\ Len(SubSeq(wire, 1, n)) = n
    BY <1>6, SubSeqProperties
  <2>2. \A i \in 1..n : SubSeq(wire, 1, n)[i] = wire[i] /\ i \in 1..Len(wire)
    BY <1>6, SubSeqProperties
  <2> HIDE DEF m
  <2> QED  BY <1>2, <1>4, <2>1, <2>2
<1>8. \A i \in 1..Len(wire') : i \in 1..n \/ i = n + 1
  BY <1>6, <1>7
<1>9. LinkTyped'
  BY <1>1, <1>3, <1>7 DEF LinkTyped, AtMostOne
<1>10. ZonesTyped' /\ EndsTyped' /\ MindTyped'
  BY <1>1, <1>3, <1>5 DEF ZonesTyped, EndsTyped, MindTyped, zones
<1>11. Asking' /\ Thinking'
  BY <1>5 DEF BrainInv, Asking, Asked, Thinking
<1>12. Farewell'
  BY <1>3, <1>5, <1>6, <1>7 DEF BrainInv, Farewell
<1>13. Flight'
  <2>1. \A i \in 1..Len(asks) : asks[i].tag # NoTag
    BY TagsKnown DEF NoTag
  <2>2. \A i, j \in 1..Len(wire') : wire'[i].tag = wire'[j].tag /\ wire'[i].tag # NoTag => i = j
    <3>1. \A i, j \in 1..Len(wire) : wire[i].tag = wire[j].tag /\ wire[i].tag # NoTag => i = j
      BY DEF BrainInv, Flight
    <3> QED  BY <1>4, <1>7, <1>8, <3>1
  <2>3. \A i, j \in 1..Len(asks') : asks'[i].tag = asks'[j].tag => i = j
    BY <1>3 DEF BrainInv, Flight
  <2>4. \A i \in 1..Len(asks'), j \in 1..Len(wire') : asks'[i].tag # wire'[j].tag
    <3>1. \A i \in 1..Len(asks), j \in 1..Len(wire) : asks[i].tag # wire[j].tag
      BY DEF BrainInv, Flight
    <3> QED  BY <1>3, <1>4, <1>7, <1>8, <2>1, <3>1
  <2>5. \A t \in 0..2 : InFlight(t)' => InFlight(t)
    BY <1>3, <1>4, <1>7, <1>8 DEF InFlight, NoTag
  <2>6. \E q \in 0..2 : \A t \in 0..2 : InFlight(t)' => t \in registered' \/ (stopping' /\ t = q)
    <3>1. PICK q \in 0..2 : \A t \in 0..2 : InFlight(t) => t \in registered \/ (stopping /\ t = q)
      BY DEF BrainInv, Flight
    <3> QED  BY <1>5, <2>5, <3>1
  <2> QED  BY <1>3, <2>2, <2>3, <2>4, <2>6 DEF Flight
<1> QED  BY <1>9, <1>10, <1>11, <1>12, <1>13 DEF BrainInv

LEMMA ServerKeeps ==
  ASSUME BrainInv, ServerStep
  PROVE  BrainInv'
<1>1. ZonesTyped /\ LinkTyped /\ EndsTyped /\ MindTyped
  BY DEF BrainInv
<1>2. CASE Bury
  <2>1. /\ ~crashed /\ place' = [place EXCEPT ![Me] = Nowhere]
        /\ UNCHANGED <<lies, hp, ears, strolls, carried, link, asks, wire, memory,
                       mind, registered, ends, crashed>>
    BY <1>2 DEF Bury
  <2>2. ZonesTyped' /\ news' \in Seq(News)
    BY <1>1, <2>1 DEF ZonesTyped, LinkTyped, link
  <2> QED  BY <2>1, <2>2, OutsideKeeps DEF link
<1>3. CASE Evict
  <2>1. /\ ~crashed /\ session = "open" /\ session' = "closing"
        /\ UNCHANGED <<place, lies, hp, ears, carried, reading, news, reply, asks, wire,
                       memory, mind, registered, ends, crashed>>
    BY <1>3 DEF Evict
  <2>2. strolls' \in 0..Strolls
    BY <1>1, <1>3, BrainAssumption DEF Evict, Happens, ZonesTyped
  <2>3. /\ pc' = pc /\ plan' = plan /\ question' = question /\ done' = done /\ got' = got
        /\ rlocks' = rlocks /\ heard' = heard /\ stopping' = stopping /\ shut' = shut /\ conn' = conn
    BY <2>1 DEF mind, ends
  <2>4. ZonesTyped' /\ LinkTyped' /\ EndsTyped' /\ MindTyped'
    BY <1>1, <2>1, <2>2, <2>3 DEF ZonesTyped, LinkTyped, EndsTyped, MindTyped
  <2>5. Asking' /\ Thinking'
    BY <2>1, <2>3 DEF BrainInv, Asking, Asked, Thinking
  <2>6. Farewell'
    BY <2>1, <2>3 DEF BrainInv, Farewell
  <2>7. Flight'
    BY <2>1, <2>3 DEF BrainInv, Flight, InFlight
  <2> QED  BY <2>1, <2>4, <2>5, <2>6, <2>7 DEF BrainInv
<1> QED  BY <1>2, <1>3, ServeKeeps, SendReplyKeeps, ForwardEventKeeps, StopSendingKeeps DEF ServerStep

-----------------------------------------------------------------------------
(* The readLoop *)

(* A callback of the question that is waited on is run and forgotten. *)
LEMMA ReleaseKeeps ==
  ASSUME BrainInv, NEW answer, registered # {}, Release(answer), registered' = {},
         pc' = pc, question' = question, memory.attacker # {} => memory'.attacker # {},
         \A q \in question : \E g : answer = {g} /\ Fits(q, g)
  PROVE  Asking'
<1>1. question # {}
  BY DEF BrainInv, Asking
<1>2. PICK q \in question : TRUE
  BY <1>1
<1>3. /\ question = {q} /\ q \in Query /\ q.kind \in AskedAt(pc)
      /\ done = 0 /\ rlocks = 0
  BY <1>2 DEF BrainInv, Asking, Asked
<1>4. Cardinality(question) = 1 /\ got' = answer
  BY <1>3, FS_Singleton DEF Release
<1>5. done' = 1
  BY <1>3, <1>4 DEF Release
<1>6. rlocks' = IF Lookup(q.kind) THEN 1 ELSE 0
  <2> DEFINE L == {p \in question : Lookup(p.kind)}
  <2>1. rlocks' = Cardinality(L)
    <3>1. IsFiniteSet(L)
      BY <1>3, FS_Singleton, FS_Subset
    <3>2. Cardinality(L) \in Nat
      BY <3>1, FS_CardinalityType
    <3>3. rlocks' = rlocks + Cardinality(L)
      BY DEF Release
    <3> HIDE DEF L
    <3> QED  BY <1>3, <3>2, <3>3
  <2>2. CASE Lookup(q.kind)
    <3>1. L = {q}
      BY <1>3, <2>2
    <3> QED  BY <2>1, <2>2, <3>1, FS_Singleton
  <2>3. CASE ~Lookup(q.kind)
    <3>1. L = {}
      BY <1>3, <2>3
    <3> QED  BY <2>1, <2>3, <3>1, FS_EmptySet
  <2> QED  BY <2>2, <2>3
<1>7. question' # {} /\ pc' = "threat" => memory'.attacker # {}
  BY DEF BrainInv, Asking
<1>8. Asked(q)'
  <2>1. PICK g : answer = {g} /\ Fits(q, g)
    BY <1>2
  <2>2. done' = 1 => \E h : got' = {h} /\ Fits(q, h)
    BY <1>4, <2>1
  <2>3. q.kind \in AskedAt(pc')
    BY <1>3
  <2>4. rlocks' = IF done' = 1 /\ Lookup(q.kind) THEN 1 ELSE 0
    BY <1>5, <1>6
  <2> QED  BY <1>3, <1>5, <2>2, <2>3, <2>4 DEF Asked
<1> QED  BY <1>3, <1>7, <1>8 DEF Asking

LEMMA StopIntellectKeeps ==
  ASSUME BrainInv, StopIntellect, pc' = pc, question' = question,
         memory.attacker # {} => memory'.attacker # {}
  PROVE  /\ Asking' /\ stopping' = TRUE /\ registered' \subseteq registered
         /\ \A s \in registered : stopping => s \in registered'
<1>1. CASE stopping \/ registered = {}
  <2>1. UNCHANGED <<registered, done, got, rlocks>> /\ stopping' = TRUE
    BY <1>1 DEF StopIntellect
  <2>2. Asking'
    BY <2>1 DEF BrainInv, Asking, Asked
  <2> QED  BY <2>1, <2>2
<1>2. CASE ~(stopping \/ registered = {})
  <2>1. Release({Error}) /\ registered' = {} /\ stopping' = TRUE
    BY <1>2 DEF StopIntellect
  <2>2. Error.value \subseteq LocInfos /\ Error.value \subseteq ActInfos
    BY DEF Error
  <2>3. \A q : Fits(q, Error)
    BY <2>2 DEF Fits
  <2>4. Asking'
    BY <1>2, <2>1, <2>3, ReleaseKeeps
  <2> QED  BY <1>2, <2>1, <2>4
<1> QED  BY <1>1, <1>2

(* A message is off the wire; its tag is forgotten with it. *)
LEMMA ReadKeeps ==
  ASSUME BrainInv, ~crashed, wire # <<>>, wire' = Tail(wire), Asking', memory' \in Memories,
         UNCHANGED <<zones, link, asks, pc, plan, crashed>>,
         heard' => session = "closed", EndsTyped',
         registered' \subseteq registered,
         \/ stopping' = stopping /\ registered \ {Head(wire).tag} \subseteq registered'
         \/ stopping' = TRUE /\ (stopping => registered \subseteq registered')
  PROVE  BrainInv'
<1>1. LinkTyped /\ ZonesTyped /\ EndsTyped /\ MindTyped
  BY DEF BrainInv
<1>2. /\ session' = session /\ reading' = reading /\ news' = news /\ reply' = reply
      /\ asks' = asks /\ pc' = pc /\ plan' = plan /\ crashed' = crashed
      /\ place' = place /\ lies' = lies /\ hp' = hp /\ ears' = ears /\ strolls' = strolls
      /\ carried' = carried
  BY DEF zones, link
<1>3. wire \in Seq(Messages) /\ Len(wire) \in Nat /\ Len(wire) > 0
  BY <1>1, EmptySeq DEF LinkTyped
<1>4. /\ wire' \in Seq(Messages) /\ Len(wire') = Len(wire) - 1 /\ wire[1] = Head(wire)
      /\ \A i \in 1..Len(wire') : wire'[i] = wire[i+1]
  BY <1>3
<1>5. \A i \in 1..Len(wire') : i + 1 \in 1..Len(wire) /\ i + 1 # 1
  BY <1>3, <1>4
<1>6. 1 \in 1..Len(wire)
  BY <1>3
<1>7. ZonesTyped' /\ LinkTyped' /\ MindTyped'
  BY <1>1, <1>2, <1>4 DEF ZonesTyped, LinkTyped, MindTyped
<1>8. Farewell'
  <2>1. \A i \in 1..Len(wire') : wire'[i].type = "close" => session = "closed"
    BY <1>4, <1>5 DEF BrainInv, Farewell
  <2>2. /\ session = "closed" => reply = {}
        /\ session # "closed" => Len(wire) <= WireLen
        /\ Len(wire) <= WireLen + 1 /\ WireLen \in Nat
    BY BrainAssumption DEF BrainInv, Farewell
  <2>3. /\ session # "closed" => Len(wire') <= WireLen
        /\ Len(wire') <= WireLen + 1
    BY <1>3, <1>4, <2>2
  <2> QED  BY <1>2, <2>1, <2>2, <2>3 DEF Farewell
<1>9. Thinking'
  BY <1>2 DEF BrainInv, Thinking
<1>10. Flight'
  <2>1. \A i, j \in 1..Len(wire) : wire[i].tag = wire[j].tag /\ wire[i].tag # NoTag => i = j
    BY DEF BrainInv, Flight
  <2>2. \A i, j \in 1..Len(wire') : wire'[i].tag = wire'[j].tag /\ wire'[i].tag # NoTag => i = j
    <3> SUFFICES ASSUME NEW i \in 1..Len(wire'), NEW j \in 1..Len(wire'),
                        wire'[i].tag = wire'[j].tag, wire'[i].tag # NoTag
                 PROVE  i = j
      OBVIOUS
    <3>1. wire[i+1].tag = wire[j+1].tag /\ wire[i+1].tag # NoTag
      BY <1>4
    <3>2. i + 1 = j + 1
      BY <1>5, <2>1, <3>1
    <3> QED  BY <1>4, <3>2
  <2>3. \A i, j \in 1..Len(asks') : asks'[i].tag = asks'[j].tag => i = j
    BY <1>2 DEF BrainInv, Flight
  <2>4. \A i \in 1..Len(asks'), j \in 1..Len(wire') : asks'[i].tag # wire'[j].tag
    BY <1>2, <1>4, <1>5 DEF BrainInv, Flight
  <2>5. \A r \in reply' : \A i \in 1..Len(asks') : asks'[i].tag # r.tag
    BY <1>2 DEF BrainInv, Flight
  <2>6. \A r \in reply' : \A i \in 1..Len(wire') : wire'[i].tag # r.tag
    BY <1>2, <1>4, <1>5 DEF BrainInv, Flight
  <2>7. \A t : InFlight(t)' => InFlight(t)
    BY <1>2, <1>4, <1>5 DEF InFlight
  <2>8. \A t \in 0..2 : InFlight(t)' => t # Head(wire).tag
    <3>1. \A i \in 1..Len(asks) : asks[i].tag # wire[1].tag
      BY <1>6 DEF BrainInv, Flight
    <3>2. \A r \in reply : r.tag # wire[1].tag
      BY <1>6 DEF BrainInv, Flight
    <3>3. \A i \in 1..Len(wire') : wire'[i].tag \in 0..2 => wire'[i].tag # wire[1].tag
      BY <1>4, <1>5, <1>6, <2>1 DEF NoTag
    <3> QED  BY <1>2, <1>4, <3>1, <3>2, <3>3 DEF InFlight
  <2>9. \E q \in 0..2 : \A t \in 0..2 : InFlight(t)' => t \in registered' \/ (stopping' /\ t = q)
    <3>1. PICK s \in 0..2 : \A t \in 0..2 : InFlight(t) => t \in registered \/ (stopping /\ t = s)
      BY DEF BrainInv, Flight
    <3>2. CASE stopping' = stopping /\ registered \ {Head(wire).tag} \subseteq registered'
      BY <2>7, <2>8, <3>1, <3>2
    <3>3. CASE stopping' = TRUE /\ (stopping => registered \subseteq registered')
      <4>1. CASE stopping
        BY <2>7, <3>1, <3>3, <4>1
      <4>2. CASE ~stopping
        <5>1. \E q \in 0..2 : registered \subseteq {q}
          BY DEF BrainInv, Asking, Asked, Query
        <5>2. PICK q \in 0..2 : registered \subseteq {q}
          BY <5>1
        <5>3. \A t \in 0..2 : InFlight(t)' => t = q
          BY <2>7, <3>1, <4>2, <5>2
        <5> QED  BY <3>3, <5>3
      <4> QED  BY <4>1, <4>2
    <3> QED  BY <3>2, <3>3
  <2> QED  BY <2>2, <2>3, <2>4, <2>5, <2>6, <2>9 DEF Flight
<1> QED  BY <1>7, <1>8, <1>9, <1>10 DEF BrainInv

LEMMA HandleMessageKeeps ==
  ASSUME BrainInv, HandleMessage
  PROVE  BrainInv'
<1> DEFINE m == Head(wire)
<1>1. /\ ~crashed /\ wire # <<>> /\ wire' = Tail(wire) /\ memory' = Remember(memory, m)
      /\ IF OwnDeath(m) THEN StopIntellect ELSE CallBack(memory', m) /\ UNCHANGED stopping
      /\ UNCHANGED <<zones, link, asks, pc, plan, question, heard, shut, conn, crashed>>
  BY DEF HandleMessage
<1>2. LinkTyped /\ EndsTyped /\ MindTyped
  BY DEF BrainInv
<1>3. m \in Messages
  BY <1>1, <1>2 DEF LinkTyped
<1> HIDE DEF m
<1>4. memory' \in Memories /\ (memory.attacker # {} => memory'.attacker # {})
  BY <1>1, <1>2, <1>3, RememberKeeps DEF Keeps, MindTyped
<1>5. heard' => session = "closed"
  BY <1>1 DEF BrainInv, Farewell
<1>6. CASE OwnDeath(m)
  <2>1. StopIntellect
    BY <1>1, <1>6
  <2>2. /\ Asking' /\ stopping' = TRUE /\ registered' \subseteq registered
        /\ stopping => registered \subseteq registered'
    BY <1>1, <1>4, <2>1, StopIntellectKeeps
  <2>3. EndsTyped'
    BY <1>1, <1>2, <2>2 DEF EndsTyped
  <2> QED  BY <1>1, <1>4, <1>5, <2>2, <2>3, ReadKeeps
<1>7. CASE ~OwnDeath(m)
  <2>1. CallBack(memory', m) /\ stopping' = stopping
    BY <1>1, <1>7
  <2>2. EndsTyped'
    BY <1>1, <1>2, <2>1 DEF EndsTyped
  <2>3. CASE m.tag \in registered
    <3>1. Release(Found(memory', m)) /\ registered' = registered \ {m.tag}
      BY <2>1, <2>3 DEF CallBack
    <3>2. registered' = {}
      BY <2>3, <3>1 DEF BrainInv, Asking, Asked
    <3>3. \A q \in question : \E g : Found(memory', m) = {g} /\ Fits(q, g)
      <4> TAKE q \in question
      <4> DEFINE g == IF m.type = "refused" THEN Error
                      ELSE [ok |-> TRUE, value |-> Recall(memory', q.kind, q.of)]
      <4>1. question = {q} /\ q \in Query
        BY DEF BrainInv, Asking, Asked
      <4>2. Found(memory', m) = {g}
        BY <4>1 DEF Found
      <4>3. g.value = {} \/ g.value = Recall(memory', q.kind, q.of)
        BY DEF Error
      <4> HIDE DEF g
      <4>4. Fits(q, g)
        BY <1>4, <4>1, <4>3, RecallType DEF Fits
      <4> QED  BY <4>2, <4>4
    <3>4. Asking'
      <4>1. question # {} /\ registered # {} /\ question' = question /\ pc' = pc
        BY <1>1, <2>3 DEF BrainInv, Asking
      <4>2. PICK found : Found(memory', m) = {found}
        BY <3>3, <4>1
      <4>3. Release({found})
        BY <3>1, <4>2
      <4>4. \A q \in question : \E g : {found} = {g} /\ Fits(q, g)
        BY <3>3, <4>2
      <4> QED  BY <1>4, <3>2, <4>1, <4>3, <4>4, ReleaseKeeps
    <3> QED  BY <1>1, <1>4, <1>5, <2>1, <2>2, <3>1, <3>4, ReadKeeps DEF m
  <2>4. CASE m.tag \notin registered
    <3>1. UNCHANGED <<registered, done, got, rlocks>>
      BY <2>1, <2>4 DEF CallBack
    <3>2. Asking'
      BY <1>1, <1>4, <3>1 DEF BrainInv, Asking, Asked
    <3> QED  BY <1>1, <1>4, <1>5, <2>1, <2>2, <3>1, <3>2, ReadKeeps
  <2> QED  BY <2>3, <2>4
<1> QED  BY <1>6, <1>7

LEMMA ReaderKeeps ==
  ASSUME BrainInv, ReaderStep
  PROVE  BrainInv'
<1>1. LinkTyped /\ EndsTyped /\ MindTyped /\ ZonesTyped
  BY DEF BrainInv
<1>2. CASE ReadClose
  <2>1. /\ ~crashed /\ wire # <<>> /\ Head(wire).type = "close" /\ wire' = Tail(wire)
        /\ heard' = TRUE /\ shut' = TRUE /\ StopIntellect
        /\ UNCHANGED <<zones, link, asks, memory, pc, plan, question, conn, crashed>>
    BY <1>2 DEF ReadClose
  <2>2. /\ Asking' /\ stopping' = TRUE /\ registered' \subseteq registered
        /\ stopping => registered \subseteq registered'
    BY <2>1, StopIntellectKeeps
  <2>3. session = "closed"
    <3>1. wire \in Seq(Messages)
      BY <1>1 DEF LinkTyped
    <3>2. 1 \in 1..Len(wire) /\ Head(wire) = wire[1]
      BY <2>1, <3>1, EmptySeq
    <3> QED  BY <2>1, <3>2 DEF BrainInv, Farewell
  <2>4. EndsTyped' /\ memory' \in Memories
    BY <1>1, <2>1, <2>2 DEF EndsTyped, MindTyped
  <2> QED  BY <2>1, <2>2, <2>3, <2>4, ReadKeeps
<1>3. CASE FinalShutdown
  <2>1. /\ ~crashed /\ conn' = FALSE
        /\ UNCHANGED <<zones, link, asks, wire, memory, mind, registered, heard, stopping,
                       shut, crashed>>
    BY <1>3 DEF FinalShutdown
  <2>2. /\ session' = session /\ reading' = reading /\ news' = news /\ reply' = reply
        /\ asks' = asks /\ wire' = wire /\ memory' = memory /\ pc' = pc /\ plan' = plan
        /\ question' = question /\ done' = done /\ got' = got /\ rlocks' = rlocks
        /\ registered' = registered /\ heard' = heard /\ stopping' = stopping
        /\ shut' = shut /\ crashed' = crashed
    BY <2>1 DEF mind, link
  <2>3. ZonesTyped' /\ LinkTyped' /\ EndsTyped' /\ MindTyped'
    BY <1>1, <2>1, <2>2 DEF ZonesTyped, LinkTyped, EndsTyped, MindTyped, zones
  <2>4. Asking' /\ Thinking'
    BY <2>2 DEF BrainInv, Asking, Asked, Thinking
  <2>5. Farewell'
    BY <2>2 DEF BrainInv, Farewell
  <2>6. Flight'
    BY <2>2 DEF BrainInv, Flight, InFlight
  <2> QED  BY <2>1, <2>2, <2>3, <2>4, <2>5, <2>6 DEF BrainInv
<1> QED  BY <1>2, <1>3, HandleMessageKeeps DEF ReaderStep

-----------------------------------------------------------------------------
(* The plan of a fight                                                     *)

FightOptions == [kind : {"slash", "bite", "take"}, nth : Nat, next : FightState]

(* A series of options, each of the state that the one before leads to. *)
IsSeries(s, way) ==
    /\ way \in Seq(FightOptions)
    /\ \A k \in 1..Len(way) : way[k] \in Options(IF k = 1 THEN s ELSE way[k-1].next)

LEMMA StruckType ==
  ASSUME NEW s \in FightState, NEW damage \in Nat, NEW room \in 0..2
  PROVE  Struck(s, damage, room) \in FightState
<1>1. s.phys \in 0..Health /\ Health \in Nat
  BY BrainAssumption DEF FightState
<1>2. Greater(0, s.phys - damage) \in 0..Health
  BY <1>1 DEF Greater
<1> DEFINE p == Greater(0, s.phys - damage)
<1>3. Struck(s, damage, room) = [s EXCEPT !.phys = p, !.room = room]
  BY DEF Struck
<1> HIDE DEF p
<1>4. [s EXCEPT !.phys = p, !.room = room] \in FightState
  BY <1>2 DEF FightState, p
<1> QED  BY <1>3, <1>4

LEMMA PickedUpType ==
  ASSUME NEW s \in FightState, NEW t \in Thing
  PROVE  PickedUp(s, t) \in FightState
<1>1. s.slash \in Nat /\ Keen[t] \in Nat
  BY BrainAssumption DEF FightState
<1>2. Greater(s.slash, Keen[t]) \in Nat
  BY <1>1 DEF Greater
<1> DEFINE n == Greater(s.slash, Keen[t])
<1>3. PickedUp(s, t) = [s EXCEPT !.slash = n, !.room = 0]
  BY DEF PickedUp
<1>4. n \in Nat /\ 0 \in 0..2
  BY <1>2
<1> HIDE DEF n
<1>5. [s EXCEPT !.slash = n, !.room = 0] \in FightState
  <2>1. \A room \in 0..2 : [s EXCEPT !.slash = n, !.room = room] \in FightState
    BY <1>4 DEF FightState
  <2> QED  BY <1>4, <2>1
<1> QED  BY <1>3, <1>5

LEMMA OptionsAre ==
  ASSUME NEW s \in FightState
  PROVE  /\ Options(s) \subseteq FightOptions /\ IsFiniteSet(Options(s)) /\ Options(s) # {}
         /\ \A o \in Options(s) : o.kind = "take" => o.nth \in 1..Len(s.spare)
<1>1. /\ s.spare \in Seq(Thing) /\ Len(s.spare) \in Nat /\ DOMAIN s.spare = 1..Len(s.spare)
      /\ s.slash \in Nat /\ s.bite \in Nat /\ s.room \in 0..2
  BY DEF FightState
<1> DEFINE N == IF s.room > 0 THEN DOMAIN s.spare ELSE {}
           room == Greater(0, s.room - Len(s.spare))
           slash == [kind |-> "slash", nth |-> 0, next |-> Struck(s, s.slash, room)]
           bite == [kind |-> "bite", nth |-> 0, next |-> Struck(s, s.bite, 0)]
           take == [n \in N |-> [kind |-> "take", nth |-> n, next |-> PickedUp(s, s.spare[n])]]
           A == {slash}
           B == {bite : b \in {Bite} \ {0}}
           C == {take[n] : n \in N}
<1>2. Options(s) = (A \cup B) \cup C
  BY DEF Options
<1>3. N \subseteq 1..Len(s.spare) /\ \A n \in N : s.spare[n] \in Thing
  BY <1>1
<1>4. room \in 0..2
  BY <1>1 DEF Greater
<1> HIDE DEF N, room
<1>5. slash \in FightOptions
  BY <1>1, <1>4, StruckType DEF FightOptions
<1>6. bite \in FightOptions
  BY <1>1, StruckType DEF FightOptions
<1>7. \A n \in N : take[n] \in FightOptions
  BY <1>3, PickedUpType DEF FightOptions
<1>8. /\ slash.kind = "slash" /\ bite.kind = "bite"
      /\ \A n \in N : take[n].nth = n
  OBVIOUS
<1>9. IsFiniteSet(N)
  <2>1. IsFiniteSet(1..Len(s.spare))
    BY <1>1, FS_Interval
  <2> QED  BY <1>3, <2>1, FS_Subset
<1>10. DOMAIN take = N /\ take = [n \in N |-> take[n]]
  OBVIOUS
<1> HIDE DEF take, slash, bite
<1>11. IsFiniteSet(C)
  BY <1>9, <1>10, FiniteImage
<1>12. IsFiniteSet(A) /\ IsFiniteSet(B)
  <2>1. IsFiniteSet({bite}) /\ B \in SUBSET {bite}
    BY FS_Singleton
  <2>2. IsFiniteSet(B)
    BY <2>1, FS_Subset
  <2> QED  BY <2>2, FS_Singleton
<1>13. IsFiniteSet((A \cup B) \cup C)
  <2> HIDE DEF A, B, C
  <2>1. IsFiniteSet(A \cup B)
    BY <1>12, FS_Union
  <2> QED  BY <1>11, <2>1, FS_Union
<1>14. (A \cup B) \cup C \subseteq FightOptions /\ (A \cup B) \cup C # {}
  BY <1>5, <1>6, <1>7
<1>15. \A o \in (A \cup B) \cup C : o.kind = "take" => o.nth \in 1..Len(s.spare)
  BY <1>3, <1>8
<1> QED  BY <1>2, <1>13, <1>14, <1>15

(* A series leads from one state of a fight to another. *)
LEMMA OutcomeType ==
  ASSUME NEW s \in FightState, NEW way \in Seq(FightOptions)
  PROVE  Outcome(s, way) \in FightState
<1>1. CASE way = <<>>
  BY <1>1 DEF Outcome
<1>2. CASE way # <<>>
  <2>1. way[Len(way)] \in FightOptions
    BY <1>2
  <2> QED  BY <1>2, <2>1 DEF Outcome, FightOptions
<1> QED  BY <1>1, <1>2

(* The nodes of depth d. *)
Series(s, d) == {way \in Seq(FightOptions) : IsSeries(s, way) /\ Len(way) = d}

LEMMA SeriesGrow ==
  ASSUME NEW s \in FightState, NEW d \in Nat
  PROVE  Further(s, Series(s, d)) = Series(s, d + 1)
<1>1. ASSUME NEW way \in Series(s, d), NEW o \in Options(Outcome(s, way))
      PROVE  Append(way, o) \in Series(s, d + 1)
  <2>1. way \in Seq(FightOptions) /\ Len(way) = d /\ IsSeries(s, way)
    BY DEF Series
  <2>2. o \in FightOptions
    BY <2>1, OutcomeType, OptionsAre
  <2> DEFINE more == Append(way, o)
  <2>3. /\ more \in Seq(FightOptions) /\ Len(more) = d + 1 /\ more[d+1] = o
        /\ \A k \in 1..d : more[k] = way[k]
    BY <2>1, <2>2
  <2> HIDE DEF more
  <2>4. ASSUME NEW k \in 1..(d+1)
        PROVE  more[k] \in Options(IF k = 1 THEN s ELSE more[k-1].next)
    <3>1. CASE k = d + 1
      <4>1. CASE d = 0
        BY <2>1, <2>3, <3>1, <4>1, EmptySeq DEF Outcome
      <4>2. CASE d # 0
        <5>1. k # 1 /\ k - 1 = d /\ d \in 1..d /\ way # <<>>
          BY <2>1, <3>1, <4>2
        <5>2. Outcome(s, way) = more[k-1].next
          BY <2>1, <2>3, <5>1 DEF Outcome
        <5> QED  BY <2>3, <3>1, <5>1, <5>2
      <4> QED  BY <4>1, <4>2
    <3>2. CASE k # d + 1
      <4>1. k \in 1..d /\ (k # 1 => k - 1 \in 1..d)
        BY <3>2
      <4>2. way[k] \in Options(IF k = 1 THEN s ELSE way[k-1].next)
        BY <2>1, <4>1 DEF IsSeries
      <4> QED  BY <2>3, <4>1, <4>2
    <3> QED  BY <3>1, <3>2
  <2>5. IsSeries(s, more)
    BY <2>3, <2>4 DEF IsSeries
  <2>6. more \in Series(s, d + 1)
    BY <2>3, <2>5 DEF Series
  <2> QED  BY <2>6 DEF more
<1>2. ASSUME NEW more \in Series(s, d + 1)
      PROVE  \E way \in Series(s, d) : \E o \in Options(Outcome(s, way)) : more = Append(way, o)
  <2>1. more \in Seq(FightOptions) /\ Len(more) = d + 1 /\ IsSeries(s, more)
    BY DEF Series
  <2> DEFINE way == [k \in 1..d |-> more[k]]
             o == more[d+1]
  <2>2. way \in Seq(FightOptions) /\ Len(way) = d /\ \A k \in 1..d : way[k] = more[k]
    <3>1. \A k \in 1..d : more[k] \in FightOptions
      BY <2>1
    <3>2. way \in [1..d -> FightOptions]
      BY <3>1
    <3>3. way \in Seq(FightOptions) /\ DOMAIN way = 1..d
      BY <3>2, SeqDef
    <3>4. Len(way) = d
      BY <3>3
    <3> QED  BY <3>3, <3>4
  <2>3. d + 1 \in 1..Len(more)
    BY <2>1
  <2>4. o \in Options(IF d + 1 = 1 THEN s ELSE more[(d+1)-1].next)
    BY <2>1, <2>3 DEF IsSeries
  <2> HIDE DEF way
  <2>5. o \in Options(Outcome(s, way))
    <3>1. CASE d = 0
      <4>1. way = <<>>
        BY <2>2, <3>1, EmptySeq
      <4> QED  BY <2>4, <3>1, <4>1 DEF Outcome
    <3>2. CASE d # 0
      <4>1. way # <<>> /\ d \in 1..d /\ (d + 1) - 1 = d /\ d + 1 # 1
        BY <2>2, <3>2
      <4>2. Outcome(s, way) = more[d].next
        BY <2>2, <4>1 DEF Outcome
      <4> QED  BY <2>4, <4>1, <4>2
    <3> QED  BY <3>1, <3>2
  <2>6. IsSeries(s, way)
    <3> SUFFICES ASSUME NEW k \in 1..d
                 PROVE  way[k] \in Options(IF k = 1 THEN s ELSE way[k-1].next)
      BY <2>2 DEF IsSeries
    <3>1. k \in 1..Len(more) /\ (k # 1 => k - 1 \in 1..d)
      BY <2>1
    <3>2. more[k] \in Options(IF k = 1 THEN s ELSE more[k-1].next)
      BY <2>1, <3>1 DEF IsSeries
    <3> QED  BY <2>2, <3>1, <3>2
  <2>7. more = Append(way, o)
    <3>1. o \in FightOptions
      BY <2>1, <2>3
    <3> HIDE DEF o
    <3>2. /\ Append(way, o) \in Seq(FightOptions) /\ Len(Append(way, o)) = d + 1
          /\ Append(way, o)[d+1] = o /\ \A k \in 1..d : Append(way, o)[k] = way[k]
      BY <2>2, <3>1
    <3>3. \A k \in 1..(d+1) : more[k] = Append(way, o)[k]
      <4> SUFFICES ASSUME NEW k \in 1..(d+1) PROVE more[k] = Append(way, o)[k]
        OBVIOUS
      <4>1. CASE k = d + 1
        BY <3>2, <4>1 DEF o
      <4>2. CASE k # d + 1
        <5>1. k \in 1..d
          BY <4>2
        <5> QED  BY <2>2, <3>2, <5>1
      <4> QED  BY <4>1, <4>2
    <3> QED  BY <2>1, <3>2, <3>3, SeqEqual
  <2>8. way \in Series(s, d)
    BY <2>2, <2>6 DEF Series
  <2> QED  BY <2>5, <2>7, <2>8
<1>3. \A more : more \in Further(s, Series(s, d)) <=>
         \E way \in Series(s, d) : \E o \in Options(Outcome(s, way)) : more = Append(way, o)
  BY DEF Further
<1>4. \A more : more \in Further(s, Series(s, d)) <=> more \in Series(s, d + 1)
  BY <1>1, <1>2, <1>3
<1> QED  BY <1>4

LEMMA SeriesFinite ==
  ASSUME NEW s \in FightState, NEW d \in Nat, IsFiniteSet(Series(s, d)), Series(s, d) # {}
  PROVE  IsFiniteSet(Series(s, d + 1)) /\ Series(s, d + 1) # {}
<1> DEFINE W == Series(s, d)
           next == [way \in W |-> {Append(way, o) : o \in Options(Outcome(s, way))}]
           All == {next[way] : way \in W}
<1>1. \A way \in W : way \in Seq(FightOptions)
  BY DEF Series
<1>2. \A way \in W : IsFiniteSet(Options(Outcome(s, way))) /\ Options(Outcome(s, way)) # {}
  BY <1>1, OutcomeType, OptionsAre
<1> HIDE DEF W
<1>3. ASSUME NEW way \in W PROVE IsFiniteSet(next[way]) /\ next[way] # {}
  <2> DEFINE O == Options(Outcome(s, way))
             f == [o \in O |-> Append(way, o)]
  <2>1. DOMAIN f = O /\ f = [o \in O |-> f[o]] /\ next[way] = {f[o] : o \in O}
    OBVIOUS
  <2>2. IsFiniteSet(O) /\ O # {}
    BY <1>2
  <2> HIDE DEF O, f, next
  <2>3. IsFiniteSet({f[o] : o \in O})
    BY <2>1, <2>2, FiniteImage
  <2> QED  BY <2>1, <2>2, <2>3
<1>4. DOMAIN next = W /\ next = [way \in W |-> next[way]]
  OBVIOUS
<1>5. Further(s, W) = UNION All
  BY DEF Further
<1> HIDE DEF next
<1>6. IsFiniteSet(W) /\ W # {}
  BY DEF W
<1>7. IsFiniteSet(All)
  BY <1>4, <1>6, FiniteImage
<1>8. IsFiniteSet(UNION All) /\ UNION All # {}
  <2>1. \A T \in All : IsFiniteSet(T)
    BY <1>3
  <2>2. PICK way \in W : TRUE
    BY <1>6
  <2>3. next[way] \in All /\ next[way] # {}
    BY <1>3
  <2> HIDE DEF All
  <2>4. IsFiniteSet(UNION All)
    BY <1>7, <2>1, FS_UNION
  <2> QED  BY <2>3, <2>4
<1>9. UNION All = Series(s, d + 1)
  BY <1>5, SeriesGrow DEF W
<1> HIDE DEF All
<1> QED  BY <1>8, <1>9

LEMMA SeriesAtFirst ==
  ASSUME NEW s
  PROVE  Series(s, 0) = {<<>>}
<1>1. \A way \in Series(s, 0) : way = <<>>
  BY EmptySeq DEF Series
<1>2. <<>> \in Series(s, 0)
  BY DEF Series, IsSeries
<1> QED  BY <1>1, <1>2

(* The search has come to depth d: it has looked at all nodes above, none   *)
(* of which is a goal.                                                     *)
AtDepth(s, r, d) ==
    /\ r.ways = Series(s, d) /\ IsFiniteSet(r.ways) /\ r.ways # {}
    /\ r.spent \in Nat /\ d <= r.spent
    /\ \A e \in 0..(d-1) : Winning(s, Series(s, e)) = {}

Decided(s, r) == Winning(s, r.ways) # {} \/ r.spent + Cardinality(r.ways) >= Expansions

LEMMA FightSearchEnds ==
  ASSUME NEW s \in FightState
  PROVE  \E d \in Nat : AtDepth(s, FightSearch(s), d) /\ Decided(s, FightSearch(s))
<1> DEFINE S == {r \in [ways : SUBSET Seq(FightOptions), spent : Nat] : \E d \in Nat : AtDepth(s, r, d)}
           first == [ways |-> {<<>>}, spent |-> 0]
           Go(last) == LET all == last.spent + Cardinality(last.ways)
                       IN  IF Winning(s, last.ways) # {} \/ all >= Expansions THEN last
                           ELSE [ways |-> Further(s, last.ways), spent |-> all]
           All(h) == [k \in 0..Expansions |->
                         IF k = 0 THEN [ways |-> {<<>>}, spent |-> 0]
                         ELSE LET last == h[k-1]
                                  all  == last.spent + Cardinality(last.ways)
                              IN  IF Winning(s, last.ways) # {} \/ all >= Expansions THEN last
                                  ELSE [ways |-> Further(s, last.ways), spent |-> all]]
           F == [k \in 1..Expansions |-> [r \in S |-> Go(r)]]
<1>0. Expansions \in Nat /\ Expansions # 0
  BY BrainAssumption
<1>1. first \in S /\ AtDepth(s, first, 0)
  <2>1. AtDepth(s, first, 0)
    BY SeriesAtFirst, FS_Singleton DEF AtDepth
  <2>2. first \in [ways : SUBSET Seq(FightOptions), spent : Nat]
    OBVIOUS
  <2> HIDE DEF first
  <2> QED  BY <2>1, <2>2
<1>2. ASSUME NEW r \in S PROVE Decided(s, r) => Go(r) = r
  BY DEF Decided
<1>3. ASSUME NEW r \in S, NEW d \in Nat, AtDepth(s, r, d), ~Decided(s, r)
      PROVE  Go(r) \in S /\ AtDepth(s, Go(r), d + 1)
  <2> DEFINE all == r.spent + Cardinality(r.ways)
             n == [ways |-> Further(s, r.ways), spent |-> all]
  <2>1. Go(r) = n
    BY <1>3 DEF Decided
  <2>2. n.ways = Series(s, d + 1) /\ n.spent = all
    BY <1>3, SeriesGrow DEF AtDepth
  <2>3. IsFiniteSet(n.ways) /\ n.ways # {}
    BY <1>3, <2>2, SeriesFinite DEF AtDepth
  <2>4. all \in Nat /\ d + 1 <= all
    <3>1. Cardinality(r.ways) \in Nat /\ Cardinality(r.ways) # 0 /\ r.spent \in Nat /\ d <= r.spent
      BY <1>3, FS_CardinalityType, FS_EmptySet DEF AtDepth
    <3> QED  BY <3>1
  <2>5. ASSUME NEW e \in 0..d PROVE Winning(s, Series(s, e)) = {}
    <3>1. CASE e = d
      BY <1>3, <3>1 DEF AtDepth, Decided
    <3>2. CASE e # d
      <4>1. e \in 0..(d-1)
        BY <3>2
      <4> QED  BY <1>3, <4>1 DEF AtDepth
    <3> QED  BY <3>1, <3>2
  <2>6. n \in [ways : SUBSET Seq(FightOptions), spent : Nat]
    <3>1. Series(s, d + 1) \subseteq Seq(FightOptions)
      BY DEF Series
    <3>2. Further(s, r.ways) \in SUBSET Seq(FightOptions)
      BY <2>2, <3>1
    <3> QED  BY <2>4, <3>2
  <2> HIDE DEF all, n
  <2>7. \A e \in 0..((d+1)-1) : Winning(s, Series(s, e)) = {}
    <3>1. (d + 1) - 1 = d
      OBVIOUS
    <3> QED  BY <2>5, <3>1
  <2>8. AtDepth(s, n, d + 1)
    BY <2>2, <2>3, <2>4, <2>7 DEF AtDepth
  <2> QED  BY <2>1, <2>6, <2>8
<1>4. ASSUME NEW r \in S PROVE Go(r) \in S
  <2>1. PICK d \in Nat : AtDepth(s, r, d)
    OBVIOUS
  <2> HIDE DEF S, Go
  <2> QED  BY <1>2, <1>3, <2>1
<1>5. \A r \in S : \E d \in Nat : AtDepth(s, r, d)
  OBVIOUS
<1> HIDE DEF S
<1>6. \E h : h = All(h)
  <2>1. F \in [1..Expansions -> [S -> S]]
    <3> HIDE DEF Go
    <3> QED  BY <1>4
  <2>2. \A k \in 1..Expansions : \A r \in S : F[k][r] = Go(r)
    OBVIOUS
  <2> HIDE DEF F
  <2>3. PICK h : Steps(Expansions, S, first, F, h)
    BY <1>0, <1>1, <2>1, StepByStep
  <2>4. \A k \in 0..Expansions : h[k] = IF k = 0 THEN first ELSE Go(h[k-1])
    <3> SUFFICES ASSUME NEW k \in 0..Expansions, k # 0 PROVE h[k] = Go(h[k-1])
      BY <2>3 DEF Steps
    <3>1. k \in 1..Expansions /\ k - 1 \in 0..Expansions
      BY <1>0
    <3>2. h[k-1] \in S /\ h[k] = F[k][h[k-1]]
      BY <2>3, <3>1 DEF Steps
    <3> QED  BY <2>2, <3>1, <3>2
  <2>5. h = [k \in 0..Expansions |-> h[k]]
    BY <2>3 DEF Steps
  <2>6. h = All(h)
    BY <2>4, <2>5
  <2> QED  BY <2>6
<1> DEFINE after == CHOOSE h : h = All(h)
<1>7. after = All(after)
  BY <1>6
<1>8. FightSearch(s) = after[Expansions]
  BY DEF FightSearch
<1> HIDE DEF after
<1>9. after[0] = first /\ \A k \in 1..Expansions : after[k] = Go(after[k-1])
  <2>1. after = [k \in 0..Expansions |-> IF k = 0 THEN first ELSE Go(after[k-1])]
    BY <1>7
  <2>2. 0 \in 0..Expansions /\ \A k \in 1..Expansions : k \in 0..Expansions /\ k # 0
    BY <1>0
  <2> HIDE DEF first, Go
  <2> QED  BY <2>1, <2>2
<1> HIDE DEF Go, first
<1> DEFINE T == {k \in 0..Expansions : /\ after[k] \in S
                                       /\ Decided(s, after[k]) \/ AtDepth(s, after[k], k)}
<1>10. 0 \in T
  BY <1>0, <1>1, <1>9
<1>11. ASSUME NEW k \in 0..(Expansions-1), k \in T PROVE k + 1 \in T
  <2>1. k + 1 \in 1..Expansions /\ k + 1 \in 0..Expansions /\ (k + 1) - 1 = k /\ k \in Nat
    BY <1>0
  <2>2. after[k+1] = Go(after[k]) /\ after[k] \in S
    BY <1>9, <1>11, <2>1
  <2>3. CASE Decided(s, after[k])
    BY <1>2, <2>1, <2>2, <2>3
  <2>4. CASE ~Decided(s, after[k])
    <3>1. AtDepth(s, after[k], k)
      BY <1>11, <2>4
    <3> QED  BY <1>3, <2>1, <2>2, <2>4, <3>1
  <2> QED  BY <2>3, <2>4
<1>12. \A k \in 0..Expansions : k \in T
  <2> HIDE DEF T
  <2> QED  BY <1>0, <1>10, <1>11, UpTo
<1> DEFINE r == after[Expansions]
<1>13. r \in S /\ (Decided(s, r) \/ AtDepth(s, r, Expansions))
  <2>1. Expansions \in 0..Expansions
    BY <1>0
  <2> QED  BY <1>12, <2>1
<1> HIDE DEF r, T
<1>14. Decided(s, r)
  <2> SUFFICES ASSUME AtDepth(s, r, Expansions) PROVE Decided(s, r)
    BY <1>13
  <2>1. r.spent \in Nat /\ Expansions <= r.spent /\ Cardinality(r.ways) \in Nat
    BY FS_CardinalityType DEF AtDepth
  <2> QED  BY <1>0, <2>1 DEF Decided
<1>15. FightSearch(s) = r
  BY <1>8 DEF r
<1> QED  BY <1>5, <1>13, <1>14, <1>15

(* What combatPlan.plan may come to is a series of actions each of which    *)
(* is open to it after the one before, that beats the foe, and no series   *)
(* does in fewer, whatever it has read off the ground and whatever the     *)
(* foe's health; and it comes to nothing only at the bound on its          *)
(* expansions, with no goal among the nodes it has looked at.              *)
THEOREM FightPlanIsShortest ==
  ASSUME NEW s \in FightState
  PROVE  /\ \A way \in FightPlans(s) :
                /\ IsSeries(s, way) /\ Outcome(s, way).phys = 0
                /\ \A other : IsSeries(s, other) /\ Outcome(s, other).phys = 0
                                  => Len(way) <= Len(other)
         /\ FightPlans(s) = {} => MayFail(s)
<1> DEFINE r == FightSearch(s)
<1>1. PICK d \in Nat : AtDepth(s, r, d) /\ Decided(s, r)
  BY FightSearchEnds
<1>2. FightPlans(s) = Winning(s, r.ways)
  BY DEF FightPlans
<1>3. MayFail(s) <=> r.spent + Cardinality(r.ways \ FightPlans(s)) >= Expansions
  BY DEF MayFail
<1> HIDE DEF r
<1>4. ASSUME NEW way \in FightPlans(s)
      PROVE  IsSeries(s, way) /\ Outcome(s, way).phys = 0 /\ Len(way) = d
  BY <1>1, <1>2, <1>4 DEF AtDepth, Winning, Series
<1>5. ASSUME NEW other, IsSeries(s, other), Outcome(s, other).phys = 0
      PROVE  d <= Len(other)
  <2>1. other \in Seq(FightOptions) /\ Len(other) \in Nat
    BY <1>5 DEF IsSeries
  <2>2. other \in Series(s, Len(other))
    BY <1>5, <2>1 DEF Series
  <2>3. other \in Winning(s, Series(s, Len(other)))
    BY <1>5, <2>2 DEF Winning
  <2>4. Len(other) \notin 0..(d-1)
    BY <1>1, <2>3 DEF AtDepth
  <2> QED  BY <2>1, <2>4
<1>6. ASSUME FightPlans(s) = {} PROVE MayFail(s)
  <2>1. r.ways \ FightPlans(s) = r.ways
    BY <1>6
  <2>2. r.spent + Cardinality(r.ways) >= Expansions
    BY <1>1, <1>2, <1>6 DEF Decided
  <2> QED  BY <1>3, <2>1, <2>2
<1> QED  BY <1>4, <1>5, <1>6

-----------------------------------------------------------------------------
(* The aiLoop *)

(* The end of a question, and what the turn goes on with. *)
LEMMA GoOnKeeps ==
  ASSUME BrainInv, ~crashed, question = {} \/ done > 0, EndQuestion,
         memory' \in Memories, plan' \in Plans, Thinking',
         UNCHANGED <<zones, link, wire, ends>>
  PROVE  BrainInv'
<1>1. ZonesTyped /\ LinkTyped /\ EndsTyped /\ MindTyped
  BY DEF BrainInv
<1> DEFINE locked == {q \in question : Lookup(q.kind)}
<1>2. /\ crashed' = (locked # {} /\ rlocks = 0)
      /\ rlocks' = IF locked # {} /\ rlocks > 0 THEN rlocks - 1 ELSE rlocks
      /\ question' = {} /\ done' = 0 /\ got' = {} /\ asks' = asks /\ registered' = registered
  BY DEF EndQuestion
<1>3. crashed' = FALSE /\ rlocks' = 0 /\ registered' = {}
  <2>1. CASE question = {}
    BY <1>2, <2>1 DEF BrainInv, Asking
  <2>2. CASE question # {}
    <3>1. PICK q \in question : TRUE
      BY <2>2
    <3>2. /\ question = {q} /\ done = 1 /\ registered = {}
          /\ rlocks = IF Lookup(q.kind) THEN 1 ELSE 0
      BY <2>2, <3>1 DEF BrainInv, Asking, Asked
    <3>3. locked # {} <=> Lookup(q.kind)
      BY <3>2
    <3> HIDE DEF locked
    <3>4. ~(locked # {} /\ rlocks = 0)
      BY <3>2, <3>3
    <3>5. rlocks' = 0
      BY <1>2, <3>2, <3>3
    <3> QED  BY <1>2, <3>2, <3>4, <3>5
  <2> QED  BY <2>1, <2>2
<1> HIDE DEF locked
<1>4. /\ session' = session /\ reading' = reading /\ news' = news /\ reply' = reply
      /\ wire' = wire /\ heard' = heard /\ stopping' = stopping /\ shut' = shut /\ conn' = conn
  BY DEF link, ends
<1>5. ZonesTyped' /\ LinkTyped' /\ EndsTyped' /\ MindTyped'
  BY <1>1, <1>2, <1>3, <1>4 DEF ZonesTyped, LinkTyped, EndsTyped, MindTyped, zones
<1>6. Asking'
  BY <1>2, <1>3 DEF Asking
<1>7. Farewell'
  BY <1>4 DEF BrainInv, Farewell
<1>8. Flight'
  <2>1. registered = {}
    BY <1>2, <1>3
  <2> QED  BY <1>2, <1>4 DEF BrainInv, Flight, InFlight
<1> QED  BY <1>3, <1>5, <1>6, <1>7, <1>8 DEF BrainInv

LEMMA AskKeeps ==
  ASSUME BrainInv, ~crashed, NEW kind, NEW x, Ask(kind, x), kind \in AskedAt(pc),
         \A t \in 0..2 : [kind |-> kind, of |-> x, tag |-> t] \in Query,
         pc = "threat" => memory.attacker # {},
         UNCHANGED <<zones, link, wire, ends>>
  PROVE  BrainInv'
<1>1. ZonesTyped /\ LinkTyped /\ EndsTyped /\ MindTyped
  BY DEF BrainInv
<1>2. /\ session' = session /\ reading' = reading /\ news' = news /\ reply' = reply
      /\ wire' = wire /\ heard' = heard /\ stopping' = stopping /\ shut' = shut /\ conn' = conn
  BY DEF link, ends
<1>3. /\ question = {} /\ registered = {} /\ done = 0 /\ rlocks = 0
      /\ memory' = memory /\ done' = done /\ got' = got /\ rlocks' = rlocks
  BY DEF Ask, BrainInv, Asking
<1>4. Farewell'
  BY <1>2 DEF BrainInv, Farewell
<1>5. ZonesTyped'
  BY <1>1 DEF ZonesTyped, zones
<1>6. CASE heard
  <2>1. /\ crashed' = Lookup(kind) /\ pc' = "rest" /\ plan' = NoPlan
        /\ question' = question /\ registered' = registered /\ asks' = asks
    BY <1>6 DEF Ask
  <2>2. session = "closed"
    BY <1>6 DEF BrainInv, Farewell
  <2>3. NoPlan \in Plans /\ NoPlan.spare = <<>>
    BY BrainAssumption DEF NoPlan, Plans
  <2>4. LinkTyped' /\ EndsTyped' /\ MindTyped'
    BY <1>1, <1>2, <1>3, <2>1, <2>3 DEF LinkTyped, EndsTyped, MindTyped, Lookup
  <2>5. Asking' /\ Thinking'
    BY <1>3, <2>1, <2>3 DEF Asking, Thinking
  <2>6. Flight'
    BY <1>2, <2>1 DEF BrainInv, Flight, InFlight
  <2> QED  BY <1>4, <1>5, <2>4, <2>5, <2>6 DEF BrainInv
<1>7. CASE ~heard
  <2>0. PICK f : f = FreshTag
    OBVIOUS
  <2> DEFINE q == [kind |-> kind, of |-> x, tag |-> f]
  <2>1. /\ question' = {q} /\ registered' = {q.tag} /\ asks' = Append(asks, q)
        /\ crashed' = crashed /\ pc' = pc /\ plan' = plan
    BY <1>7, <2>0 DEF Ask
  <2>2. q.tag = f /\ f \in 0..2 /\ ~InFlight(f) /\ q.kind = kind
    BY <1>3, <2>0, FreshTagIsFresh
  <2>3. q \in Query
    BY <2>2
  <2> HIDE DEF q
  <2>4. /\ asks \in Seq(Query) /\ Len(asks) \in Nat /\ asks' \in Seq(Query)
        /\ Len(asks') = Len(asks) + 1 /\ asks'[Len(asks) + 1] = q
        /\ \A i \in 1..Len(asks) : asks'[i] = asks[i]
    BY <1>1, <2>1, <2>3 DEF LinkTyped
  <2>5. \A i \in 1..Len(asks') : i \in 1..Len(asks) \/ i = Len(asks) + 1
    BY <2>4
  <2>6. LinkTyped' /\ EndsTyped' /\ MindTyped'
    BY <1>1, <1>2, <1>3, <2>1, <2>4 DEF LinkTyped, EndsTyped, MindTyped
  <2>7. Asking'
    <3>1. Asked(q)'
      BY <1>3, <2>1, <2>2, <2>3 DEF Asked
    <3> QED  BY <1>3, <2>1, <3>1 DEF Asking
  <2>8. Thinking'
    BY <2>1 DEF BrainInv, Thinking
  <2>9. Flight'
    <3>1. \A i \in 1..Len(asks) : asks[i].tag # q.tag
      BY <2>2 DEF InFlight
    <3>2. \A i \in 1..Len(wire) : wire[i].tag # q.tag
      BY <2>2 DEF InFlight
    <3>3. \A r \in reply : r.tag # q.tag
      BY <2>2 DEF InFlight
    <3>4. \A i, j \in 1..Len(asks') : asks'[i].tag = asks'[j].tag => i = j
      <4>1. \A i, j \in 1..Len(asks) : asks[i].tag = asks[j].tag => i = j
        BY DEF BrainInv, Flight
      <4> QED  BY <2>4, <2>5, <3>1, <4>1
    <3>5. \A i, j \in 1..Len(wire') : wire'[i].tag = wire'[j].tag /\ wire'[i].tag # NoTag => i = j
      BY <1>2 DEF BrainInv, Flight
    <3>6. \A i \in 1..Len(asks'), j \in 1..Len(wire') : asks'[i].tag # wire'[j].tag
      <4>1. \A i \in 1..Len(asks), j \in 1..Len(wire) : asks[i].tag # wire[j].tag
        BY DEF BrainInv, Flight
      <4> QED  BY <1>2, <2>4, <2>5, <3>2, <4>1
    <3>7. \A r \in reply' : \A i \in 1..Len(asks') : asks'[i].tag # r.tag
      <4>1. \A r \in reply : \A i \in 1..Len(asks) : asks[i].tag # r.tag
        BY DEF BrainInv, Flight
      <4> QED  BY <1>2, <2>4, <2>5, <3>3, <4>1
    <3>8. \A r \in reply' : \A i \in 1..Len(wire') : wire'[i].tag # r.tag
      BY <1>2 DEF BrainInv, Flight
    <3>9. \A t : InFlight(t)' => InFlight(t) \/ t = q.tag
      BY <1>2, <2>4, <2>5 DEF InFlight
    <3>10. \E s \in 0..2 : \A t \in 0..2 : InFlight(t)' => t \in registered' \/ (stopping' /\ t = s)
      <4>1. PICK s \in 0..2 : \A t \in 0..2 : InFlight(t) => t \in registered \/ (stopping /\ t = s)
        BY DEF BrainInv, Flight
      <4> QED  BY <1>2, <1>3, <2>1, <3>9, <4>1
    <3> QED  BY <3>4, <3>5, <3>6, <3>7, <3>8, <3>10 DEF Flight
  <2> QED  BY <1>4, <1>5, <2>6, <2>7, <2>8, <2>9 DEF BrainInv
<1> QED  BY <1>6, <1>7

LEMMA GoOnStep ==
  ASSUME BrainInv, ~crashed, question = {} \/ done > 0,
         NEW next, NEW p \in Plans, GoOn(next, p), memory' \in Memories,
         next \in {"enemy", "scene", "self", "hands", "ground", "fight"} => p.foe # {},
         next \notin {"fight", "act"} => p.spare = <<>>,
         p.spare # <<>> => p.scene # {},
         UNCHANGED <<zones, link, wire, ends>>
  PROVE  BrainInv'
<1>1. EndQuestion /\ pc' = next /\ plan' = p
  BY DEF GoOn
<1>2. plan' \in Plans /\ Thinking'
  BY <1>1 DEF Thinking
<1> QED  BY <1>1, <1>2, GoOnKeeps

LEMMA GiveUpKeeps ==
  ASSUME BrainInv, ~crashed, question = {} \/ done > 0, GiveUp, memory' \in Memories,
         UNCHANGED <<zones, link, wire, ends>>
  PROVE  BrainInv'
<1>1. NoPlan \in Plans /\ NoPlan.spare = <<>>
  BY BrainAssumption DEF NoPlan, Plans
<1> QED  BY <1>1, GoOnStep DEF GiveUp

(* A fact is what was asked for, be it remembered or found by a callback. *)
LEMMA FactType ==
  ASSUME BrainInv, NEW kind, NEW x, Known(kind, x), AskedAt(pc) = {kind},
         [kind |-> kind, of |-> x, tag |-> 0] \in Query
  PROVE  /\ question = {} \/ done > 0
         /\ kind = "where" => Fact(kind, x).value \subseteq LocInfos
         /\ kind = "actor" => Fact(kind, x).value \subseteq ActInfos
<1>1. question = {} \/ done > 0
  BY DEF Known
<1>2. CASE question = {}
  <2> DEFINE q == [kind |-> kind, of |-> x, tag |-> 0]
  <2>1. Fact(kind, x).value = Recall(memory, kind, x) /\ q.kind = kind /\ q.of = x
    BY <1>2 DEF Fact
  <2>2. /\ q.kind = "where" => Recall(memory, q.kind, q.of) \subseteq LocInfos
        /\ q.kind = "actor" => Recall(memory, q.kind, q.of) \subseteq ActInfos
    <3> HIDE DEF q
    <3>1. q \in Query
      BY DEF q
    <3> QED  BY <3>1, RecallType DEF BrainInv, MindTyped
  <2> QED  BY <1>1, <2>1, <2>2
<1>3. CASE question # {}
  <2>1. PICK q \in question : TRUE
    BY <1>3
  <2>2. q.kind = kind /\ done = 1
    BY <1>1, <1>3, <2>1 DEF BrainInv, Asking, Asked
  <2>3. PICK g : got = {g} /\ Fits(q, g)
    BY <2>1, <2>2 DEF BrainInv, Asking, Asked
  <2>4. Fact(kind, x) = g
    BY <1>3, <2>3 DEF Fact
  <2> QED  BY <1>1, <2>2, <2>3, <2>4 DEF Fits
<1> QED  BY <1>2, <1>3

LEMMA PlanParts ==
  ASSUME NEW p \in Plans
  PROVE  /\ \A b \in BOOLEAN : [p EXCEPT !.crowded = b] \in Plans
         /\ \A f \in SUBSET Other : [p EXCEPT !.foe = f] \in Plans
         /\ \A n \in 0..Health : [p EXCEPT !.phys = n] \in Plans
         /\ \A s \in SUBSET LocInfos : [p EXCEPT !.scene = s] \in Plans
         /\ \A s \in Seq(Thing) : [p EXCEPT !.spare = s] \in Plans
         /\ \A n \in Nat : [p EXCEPT !.refused = n] \in Plans
         /\ \A d \in SUBSET Deeds : [p EXCEPT !.do = d] \in Plans
BY DEF Plans

LEMMA TurnsKeeps ==
  ASSUME BrainInv, ~crashed, Turns, UNCHANGED <<zones, link, wire, ends>>
  PROVE  BrainInv'
<1>1. /\ pc = "rest" /\ pc' \in {"end", "crowd"}
      /\ UNCHANGED <<memory, plan, question, done, got, rlocks, asks, registered, crashed>>
  BY DEF Turns
<1>2. /\ session' = session /\ reading' = reading /\ news' = news /\ reply' = reply
      /\ wire' = wire /\ heard' = heard /\ stopping' = stopping /\ shut' = shut /\ conn' = conn
  BY DEF link, ends
<1>3. ZonesTyped /\ LinkTyped /\ EndsTyped /\ MindTyped
  BY DEF BrainInv
<1>4. ZonesTyped' /\ LinkTyped' /\ EndsTyped' /\ MindTyped'
  BY <1>1, <1>2, <1>3 DEF ZonesTyped, LinkTyped, EndsTyped, MindTyped, zones
<1>5. question = {}
  BY <1>1 DEF BrainInv, Asking, Asked, AskedAt
<1>6. Asking'
  BY <1>1, <1>5 DEF BrainInv, Asking
<1>7. Thinking'
  BY <1>1 DEF BrainInv, Thinking
<1>8. Farewell'
  BY <1>2 DEF BrainInv, Farewell
<1>9. Flight'
  BY <1>1, <1>2 DEF BrainInv, Flight, InFlight
<1> QED  BY <1>1, <1>4, <1>6, <1>7, <1>8, <1>9 DEF BrainInv

(* What the aiLoop asks when it asks where it is. *)
LEMMA WhereKeeps ==
  ASSUME BrainInv, ~crashed, Ask("where", memory.at), pc \in {"crowd", "threat", "walk", "scene"},
         pc = "threat" => memory.attacker # {}, UNCHANGED <<zones, link, wire, ends>>
  PROVE  BrainInv'
<1>1. memory.at \in AtMostOne(Place)
  BY DEF BrainInv, MindTyped, Memories
<1>2. \A t \in 0..2 : [kind |-> "where", of |-> memory.at, tag |-> t] \in Query
  BY <1>1 DEF Query
<1>3. "where" \in AskedAt(pc)
  BY DEF AskedAt
<1> QED  BY <1>2, <1>3, AskKeeps

LEMMA WhereFact ==
  ASSUME BrainInv, Known("where", memory.at), pc \in {"crowd", "threat", "walk", "scene"}
  PROVE  /\ question = {} \/ done > 0
         /\ Fact("where", memory.at).value \subseteq LocInfos
<1>1. memory.at \in AtMostOne(Place)
  BY DEF BrainInv, MindTyped, Memories
<1>2. [kind |-> "where", of |-> memory.at, tag |-> 0] \in Query
  BY <1>1 DEF Query
<1>3. AskedAt(pc) = {"where"}
  BY DEF AskedAt
<1> QED  BY <1>2, <1>3, FactType

LEMMA ActorKeeps ==
  ASSUME BrainInv, ~crashed, NEW a \in Actor, Ask("actor", a), pc \in {"enemy", "self"},
         UNCHANGED <<zones, link, wire, ends>>
  PROVE  BrainInv'
<1>1. \A t \in 0..2 : [kind |-> "actor", of |-> a, tag |-> t] \in Query
  BY DEF Query
<1>2. "actor" \in AskedAt(pc) /\ pc # "threat"
  BY DEF AskedAt
<1> QED  BY <1>1, <1>2, AskKeeps

LEMMA ActorFact ==
  ASSUME BrainInv, NEW a \in Actor, Known("actor", a), pc \in {"enemy", "self"}
  PROVE  /\ question = {} \/ done > 0
         /\ Fact("actor", a).value \subseteq ActInfos
<1>1. [kind |-> "actor", of |-> a, tag |-> 0] \in Query
  BY DEF Query
<1>2. AskedAt(pc) = {"actor"}
  BY DEF AskedAt
<1> QED  BY <1>1, <1>2, FactType

LEMMA ThingKeeps ==
  ASSUME BrainInv, ~crashed, NEW t \in Thing, Ask("thing", t), pc \in {"hands", "ground"},
         UNCHANGED <<zones, link, wire, ends>>
  PROVE  BrainInv'
<1>1. \A i \in 0..2 : [kind |-> "thing", of |-> t, tag |-> i] \in Query
  BY DEF Query
<1>2. "thing" \in AskedAt(pc) /\ pc # "threat"
  BY DEF AskedAt
<1> QED  BY <1>1, <1>2, AskKeeps

LEMMA LookKeeps ==
  ASSUME BrainInv, ~crashed, Look, UNCHANGED <<zones, link, wire, ends>>
  PROVE  BrainInv'
<1>1. plan \in Plans /\ memory \in Memories
  BY DEF BrainInv, MindTyped
<1>2. pc \in {"crowd", "threat"} => plan.spare = <<>>
  BY DEF BrainInv, Thinking
<1>3. ASSUME pc = "crowd", Consult("where", memory.at, Crowded(Fact("where", memory.at)))
      PROVE  BrainInv'
  <2>1. CASE Ask("where", memory.at)
    BY <1>3, <2>1, WhereKeeps
  <2>2. CASE Known("where", memory.at) /\ Crowded(Fact("where", memory.at)) /\ UNCHANGED memory
    <3> DEFINE b == \E l \in Fact("where", memory.at).value : Many(l.who) - 1 >= Crowd
               p == [plan EXCEPT !.crowded = b]
    <3>1. GoOn("threat", p)
      BY <2>2 DEF Crowded
    <3>2. b \in BOOLEAN
      OBVIOUS
    <3> HIDE DEF b
    <3>3. p \in Plans /\ p.spare = <<>>
      BY <1>1, <1>2, <1>3, <3>2, PlanParts DEF Plans
    <3>4. question = {} \/ done > 0
      BY <1>3, <2>2, WhereFact
    <3> HIDE DEF p
    <3> QED  BY <1>1, <2>2, <3>1, <3>3, <3>4, GoOnStep
  <2> QED  BY <1>3, <2>1, <2>2 DEF Consult
<1>4. ASSUME pc = "threat", memory.attacker # {},
             Consult("where", memory.at, Threatened(Fact("where", memory.at)))
      PROVE  BrainInv'
  <2>1. CASE Ask("where", memory.at)
    BY <1>4, <2>1, WhereKeeps
  <2>2. CASE Known("where", memory.at) /\ Threatened(Fact("where", memory.at)) /\ UNCHANGED memory
    <3> DEFINE f == {a \in memory.attacker : \E l \in Fact("where", memory.at).value : l.who[a] > 0}
               p == [plan EXCEPT !.foe = f]
    <3>1. GoOn("choose", p)
      BY <2>2 DEF Threatened
    <3>2. f \subseteq Other
      BY <1>1 DEF Memories, AtMostOne
    <3> HIDE DEF f
    <3>3. p \in Plans /\ p.spare = <<>>
      BY <1>1, <1>2, <1>4, <3>2, PlanParts DEF Plans
    <3>4. question = {} \/ done > 0
      BY <1>4, <2>2, WhereFact
    <3> HIDE DEF p
    <3> QED  BY <1>1, <2>2, <3>1, <3>3, <3>4, GoOnStep
  <2> QED  BY <1>4, <2>1, <2>2 DEF Consult
<1>5. ASSUME pc = "threat", memory.attacker = {}, GoOn("choose", plan), UNCHANGED memory
      PROVE  BrainInv'
  <2>1. question = {}
    BY <1>5 DEF BrainInv, Asking
  <2> QED  BY <1>1, <1>2, <1>5, <2>1, GoOnStep
<1> QED  BY <1>3, <1>4, <1>5 DEF Look

LEMMA ChooseKeeps ==
  ASSUME BrainInv, ~crashed, Choose, UNCHANGED <<zones, link, wire, ends>>
  PROVE  BrainInv'
<1>1. plan \in Plans /\ memory' \in Memories /\ pc = "choose"
  BY DEF BrainInv, MindTyped, Choose
<1>2. plan.spare = <<>> /\ question = {}
  BY <1>1 DEF BrainInv, Thinking, Asking, Asked, AskedAt
<1>3. CASE GiveUp
  BY <1>1, <1>2, <1>3, GiveUpKeeps
<1>4. CASE GoOn("walk", plan)
  BY <1>1, <1>2, <1>4, GoOnStep
<1>5. CASE plan.foe # {} /\ GoOn("enemy", plan)
  BY <1>1, <1>2, <1>5, GoOnStep
<1> QED  BY <1>3, <1>4, <1>5 DEF Choose

LEMMA WalkKeeps ==
  ASSUME BrainInv, ~crashed, pc = "walk", UNCHANGED <<zones, link, wire, ends>>,
         Consult("where", memory.at, PickExit(Fact("where", memory.at)))
  PROVE  BrainInv'
<1> DEFINE fact == Fact("where", memory.at)
<1>1. plan \in Plans /\ memory \in Memories /\ plan.spare = <<>>
  BY DEF BrainInv, MindTyped, Thinking
<1>2. CASE Ask("where", memory.at)
  BY <1>2, WhereKeeps
<1>3. CASE Known("where", memory.at) /\ PickExit(fact) /\ UNCHANGED memory
  <2>1. (question = {} \/ done > 0) /\ fact.value \subseteq LocInfos
    BY <1>3, WhereFact
  <2>2. PickExit(fact)
    BY <1>3
  <2> HIDE DEF fact
  <2>3. CASE GiveUp
    BY <1>1, <1>3, <2>1, <2>3, GiveUpKeeps
  <2>4. ASSUME NEW l \in fact.value, NEW d \in DOMAIN Exit[l.place],
               GoOn("act", [plan EXCEPT !.do = {[kind |-> "move", of |-> d, to |-> Exit[l.place][d]]}])
        PROVE  BrainInv'
    <3> DEFINE do == [kind |-> "move", of |-> d, to |-> Exit[l.place][d]]
               p == [plan EXCEPT !.do = {do}]
    <3>1. l.place \in Place
      BY <2>1 DEF LocInfos
    <3>2. d \in Way /\ Exit[l.place][d] \in Place
      BY <3>1, BrainAssumption DEF Way
    <3>3. do \in Deeds
      BY <3>2 DEF Deeds
    <3> HIDE DEF do
    <3>4. {do} \in SUBSET Deeds
      BY <3>3
    <3>5. p \in Plans /\ p.spare = <<>>
      BY <1>1, <3>4, PlanParts DEF Plans
    <3>6. GoOn("act", p)
      BY <2>4 DEF do
    <3> HIDE DEF p
    <3> QED  BY <1>1, <1>3, <2>1, <3>5, <3>6, GoOnStep
  <2> QED  BY <2>2, <2>3, <2>4 DEF PickExit
<1> QED  BY <1>2, <1>3 DEF Consult

LEMMA EnemyIs ==
  ASSUME BrainInv, pc \in {"enemy", "fight"}
  PROVE  Enemy \in Other
<1>1. plan.foe # {} /\ plan.foe \subseteq Other
  BY DEF BrainInv, Thinking, MindTyped, Plans
<1> QED  BY <1>1 DEF Enemy

LEMMA EnemyKeeps ==
  ASSUME BrainInv, ~crashed, pc = "enemy", UNCHANGED <<zones, link, wire, ends>>,
         Consult("actor", Enemy, SeeEnemy(Fact("actor", Enemy)))
  PROVE  BrainInv'
<1>1. PICK a : a = Enemy
  OBVIOUS
<1>2. a \in Actor
  BY <1>1, EnemyIs DEF Actor
<1>3. plan \in Plans /\ memory \in Memories /\ plan.spare = <<>> /\ plan.foe # {}
  BY DEF BrainInv, MindTyped, Thinking
<1>4. CASE Ask("actor", a)
  BY <1>2, <1>4, ActorKeeps
<1>5. CASE Known("actor", a) /\ SeeEnemy(Fact("actor", a)) /\ UNCHANGED memory
  <2> DEFINE fact == Fact("actor", a)
             n == IF fact.value = {} THEN 0 ELSE (CHOOSE i \in fact.value : TRUE).phys
             p == [plan EXCEPT !.phys = n]
  <2>1. (question = {} \/ done > 0) /\ fact.value \subseteq ActInfos
    BY <1>2, <1>5, ActorFact
  <2>2. GoOn("scene", p)
    BY <1>5 DEF SeeEnemy
  <2> HIDE DEF fact
  <2>3. n \in 0..Health
    <3>1. CASE fact.value = {}
      BY <3>1, BrainAssumption
    <3>2. CASE fact.value # {}
      <4>1. (CHOOSE i \in fact.value : TRUE) \in ActInfos
        BY <2>1, <3>2
      <4>2. (CHOOSE i \in fact.value : TRUE).phys \in 0..Health
        BY <4>1 DEF ActInfos
      <4> QED  BY <3>2, <4>2
    <3> QED  BY <3>1, <3>2
  <2> HIDE DEF n
  <2>4. p \in Plans /\ p.spare = <<>> /\ p.foe # {}
    BY <1>3, <2>3, PlanParts DEF Plans
  <2> HIDE DEF p
  <2> QED  BY <1>3, <1>5, <2>1, <2>2, <2>4, GoOnStep
<1> QED  BY <1>1, <1>4, <1>5 DEF Consult

LEMMA SceneKeeps ==
  ASSUME BrainInv, ~crashed, pc = "scene", UNCHANGED <<zones, link, wire, ends>>,
         Consult("where", memory.at, SeeScene(Fact("where", memory.at)))
  PROVE  BrainInv'
<1> DEFINE fact == Fact("where", memory.at)
<1>1. plan \in Plans /\ memory \in Memories /\ plan.spare = <<>> /\ plan.foe # {}
  BY DEF BrainInv, MindTyped, Thinking
<1>2. CASE Ask("where", memory.at)
  BY <1>2, WhereKeeps
<1>3. CASE Known("where", memory.at) /\ SeeScene(fact) /\ UNCHANGED memory
  <2> DEFINE p == [plan EXCEPT !.scene = fact.value]
  <2>1. (question = {} \/ done > 0) /\ fact.value \subseteq LocInfos
    BY <1>3, WhereFact
  <2>2. SeeScene(fact)
    BY <1>3
  <2> HIDE DEF fact
  <2>3. p \in Plans /\ p.spare = <<>> /\ p.foe # {}
    BY <1>1, <2>1, PlanParts DEF Plans
  <2>4. GiveUp \/ GoOn("self", p)
    BY <2>2 DEF SeeScene
  <2> HIDE DEF p
  <2> QED  BY <1>1, <1>3, <2>1, <2>3, <2>4, GoOnStep, GiveUpKeeps
<1> QED  BY <1>2, <1>3 DEF Consult

LEMMA SelfKeeps ==
  ASSUME BrainInv, ~crashed, pc = "self", UNCHANGED <<zones, link, wire, ends>>,
         Consult("actor", Me, SeeSelf(Fact("actor", Me)))
  PROVE  BrainInv'
<1>1. plan \in Plans /\ memory \in Memories /\ plan.spare = <<>> /\ plan.foe # {} /\ Me \in Actor
  BY DEF BrainInv, MindTyped, Thinking, Actor
<1>2. CASE Ask("actor", Me)
  BY <1>1, <1>2, ActorKeeps
<1>3. CASE Known("actor", Me) /\ SeeSelf(Fact("actor", Me)) /\ UNCHANGED memory
  <2>1. question = {} \/ done > 0
    BY <1>1, <1>3, ActorFact
  <2>2. GiveUp \/ GoOn("hands", plan)
    BY <1>3 DEF SeeSelf
  <2> QED  BY <1>1, <1>3, <2>1, <2>2, GoOnStep, GiveUpKeeps
<1> QED  BY <1>2, <1>3 DEF Consult

(* What the brain believes it holds. *)
LEMMA HandsType ==
  ASSUME BrainInv
  PROVE  InHands \in SUBSET Thing /\ Room \in 0..2
<1>1. memory.met[Me] \subseteq ActInfos
  BY DEF BrainInv, MindTyped, Memories, Actor
<1>2. InHands \in SUBSET Thing
  BY DEF InHands
<1>3. CASE memory.met[Me] = {}
  BY <1>2, <1>3 DEF Room
<1>4. CASE memory.met[Me] # {}
  <2> DEFINE n == Many((CHOOSE i \in memory.met[Me] : TRUE).hands)
  <2>1. (CHOOSE i \in memory.met[Me] : TRUE) \in ActInfos
    BY <1>1, <1>4
  <2>2. (CHOOSE i \in memory.met[Me] : TRUE).hands \in [Thing -> Nat]
    BY <2>1 DEF ActInfos
  <2>3. n \in Nat
    BY <2>2, ManyType
  <2>4. Room = Greater(0, 2 - n)
    BY <1>4 DEF Room
  <2> HIDE DEF n
  <2> QED  BY <1>2, <2>3, <2>4 DEF Greater
<1> QED  BY <1>3, <1>4

LEMMA HandsKeeps ==
  ASSUME BrainInv, ~crashed, pc = "hands", UNCHANGED <<zones, link, wire, ends>>,
         \/ question = {} /\ SeeHands /\ UNCHANGED memory
         \/ \E t \in Thing : Consult("thing", t, SeeHand(Fact("thing", t)))
  PROVE  BrainInv'
<1>1. plan \in Plans /\ memory \in Memories /\ plan.spare = <<>> /\ plan.foe # {}
  BY DEF BrainInv, MindTyped, Thinking
<1>2. CASE question = {} /\ SeeHands /\ UNCHANGED memory
  <2> DEFINE s == Max({Keen[t] : t \in InHands} \cup {0})
             p == [plan EXCEPT !.slash = s, !.bite = Bite]
  <2>1. GoOn("ground", p)
    BY <1>2 DEF SeeHands
  <2>2. InHands \in SUBSET Thing
    BY HandsType
  <2>3. s \in Nat
    <3> DEFINE f == [t \in InHands |-> Keen[t]]
               S == {Keen[t] : t \in InHands}
    <3>1. IsFiniteSet(InHands)
      BY <2>2, BrainAssumption, FS_Subset
    <3>2. DOMAIN f = InHands /\ f = [t \in InHands |-> f[t]] /\ S = {f[t] : t \in InHands}
      OBVIOUS
    <3>3. S \subseteq Nat
      BY <2>2, BrainAssumption
    <3> HIDE DEF f, S
    <3>4. IsFiniteSet(S)
      BY <3>1, <3>2, FiniteImage
    <3>5. IsFiniteSet(S \cup {0})
      BY <3>4, FS_Singleton, FS_Union
    <3>6. Max(S \cup {0}) \in S \cup {0}
      BY <3>3, <3>5, Highest
    <3>7. s = Max(S \cup {0})
      BY DEF S
    <3> HIDE DEF s
    <3>8. \A x \in S \cup {0} : x \in Nat
      BY <3>3
    <3> QED  BY <3>6, <3>7, <3>8, Zenon
  <2> HIDE DEF s
  <2>4. p \in Plans /\ p.spare = <<>> /\ p.foe # {}
    BY <1>1, <2>3, BrainAssumption DEF Plans
  <2> HIDE DEF p
  <2> QED  BY <1>1, <1>2, <2>1, <2>4, GoOnStep
<1>3. ASSUME NEW t \in Thing, Consult("thing", t, SeeHand(Fact("thing", t))) PROVE BrainInv'
  <2>1. CASE Ask("thing", t)
    BY <2>1, ThingKeeps
  <2>2. CASE Known("thing", t) /\ SeeHand(Fact("thing", t)) /\ UNCHANGED memory
    <3>1. question = {} \/ done > 0
      BY <2>2 DEF Known
    <3>2. GoOn("hands", plan) \/ GoOn("ground", plan)
      BY <2>2 DEF SeeHand
    <3> QED  BY <1>1, <2>2, <3>1, <3>2, GoOnStep
  <2> QED  BY <1>3, <2>1, <2>2 DEF Consult
<1> QED  BY <1>2, <1>3

(* What the planner reads off a list, of as many entries as that has. *)
LEMMA ReadingsType ==
  ASSUME BrainInv, NEW read \in Readings
  PROVE  read \in Seq(Thing) /\ (read # <<>> => plan.scene # {})
<1>1. memory.studied \subseteq Thing /\ plan.scene \subseteq LocInfos
  BY DEF BrainInv, MindTyped, Memories, Plans
<1>2. CASE OnGround = {}
  <2>1. read = <<>>
    BY <1>2 DEF Readings
  <2> QED  BY <2>1
<1>3. CASE OnGround # {}
  <2>1. PICK l \in plan.scene : read \in [1..Laid(l) -> OnGround \cap memory.studied]
    BY <1>3 DEF Readings
  <2>2. l.things \in [Thing -> Nat]
    BY <1>1 DEF LocInfos
  <2>3. Laid(l) \in Nat
    BY <2>2, ManyType DEF Laid
  <2>4. read \in [1..Laid(l) -> Thing]
    BY <1>1, <2>1
  <2> QED  BY <2>3, <2>4, SeqDef
<1> QED  BY <1>2, <1>3

LEMMA GroundKeeps ==
  ASSUME BrainInv, ~crashed, pc = "ground", UNCHANGED <<zones, link, wire, ends>>,
         \/ question = {} /\ SeeGround /\ UNCHANGED memory
         \/ \E t \in Thing : Consult("thing", t, SeeThing(Fact("thing", t)))
  PROVE  BrainInv'
<1>1. plan \in Plans /\ memory \in Memories /\ plan.spare = <<>> /\ plan.foe # {}
  BY DEF BrainInv, MindTyped, Thinking
<1>2. CASE question = {} /\ SeeGround /\ UNCHANGED memory
  <2>1. PICK read \in Readings : GoOn("fight", [plan EXCEPT !.spare = read])
    BY <1>2 DEF SeeGround
  <2>2. read \in Seq(Thing) /\ (read # <<>> => plan.scene # {})
    BY ReadingsType
  <2> DEFINE p == [plan EXCEPT !.spare = read]
  <2>3. p \in Plans
    BY <1>1, <2>2, PlanParts
  <2>4. p.spare = read /\ p.foe # {} /\ p.scene = plan.scene
    BY <1>1 DEF Plans
  <2>5. GoOn("fight", p)
    BY <2>1
  <2> HIDE DEF p
  <2> QED  BY <1>1, <1>2, <2>2, <2>3, <2>4, <2>5, GoOnStep
<1>3. ASSUME NEW t \in Thing, Consult("thing", t, SeeThing(Fact("thing", t))) PROVE BrainInv'
  <2>1. CASE Ask("thing", t)
    BY <2>1, ThingKeeps
  <2>2. CASE Known("thing", t) /\ SeeThing(Fact("thing", t)) /\ UNCHANGED memory
    <3> DEFINE less == [plan EXCEPT !.refused = @ + 1]
    <3>1. question = {} \/ done > 0
      BY <2>2 DEF Known
    <3>2. GoOn("ground", plan) \/ GoOn("fight", less) \/ GoOn("ground", less)
      BY <2>2 DEF SeeThing
    <3>3. less \in Plans /\ less.spare = <<>> /\ less.foe # {}
      BY <1>1 DEF Plans
    <3> HIDE DEF less
    <3> QED  BY <1>1, <2>2, <3>1, <3>2, <3>3, GoOnStep
  <2> QED  BY <1>3, <2>1, <2>2 DEF Consult
<1> QED  BY <1>2, <1>3

LEMMA GatherKeeps ==
  ASSUME BrainInv, ~crashed, Gather, UNCHANGED <<zones, link, wire, ends>>
  PROVE  BrainInv'
<1>1. CASE pc = "walk" /\ Consult("where", memory.at, PickExit(Fact("where", memory.at)))
  BY <1>1, WalkKeeps
<1>2. CASE pc = "enemy" /\ Consult("actor", Enemy, SeeEnemy(Fact("actor", Enemy)))
  BY <1>2, EnemyKeeps
<1>3. CASE pc = "scene" /\ Consult("where", memory.at, SeeScene(Fact("where", memory.at)))
  BY <1>3, SceneKeeps
<1>4. CASE pc = "self" /\ Consult("actor", Me, SeeSelf(Fact("actor", Me)))
  BY <1>4, SelfKeeps
<1>5. CASE /\ pc = "hands"
           /\ \/ question = {} /\ SeeHands /\ UNCHANGED memory
              \/ \E t \in Thing : Consult("thing", t, SeeHand(Fact("thing", t)))
  BY <1>5, HandsKeeps
<1>6. CASE /\ pc = "ground"
           /\ \/ question = {} /\ SeeGround /\ UNCHANGED memory
              \/ \E t \in Thing : Consult("thing", t, SeeThing(Fact("thing", t)))
  BY <1>6, GroundKeeps
<1> QED  BY <1>1, <1>2, <1>3, <1>4, <1>5, <1>6 DEF Gather

(* What the planner leaves in the memory it shares with the readLoop: some  *)
(* more things in the hands, and lists of things that name others.         *)
LEMMA GripsType ==
  ASSUME BrainInv, NEW s \in FightState, NEW more \in Grips(s)
  PROVE  more \in [Thing -> Nat]
<1>1. Gripped(s) \in [Thing -> Nat]
  <2> DEFINE places(t) == {i \in DOMAIN s.spare : s.spare[i] = t}
             once == [t \in Thing |-> Cardinality({i \in DOMAIN s.spare : s.spare[i] = t})]
             again == s.room > Len(s.spare) /\ s.phys > s.slash /\ Expansions > 1
  <2>1. Gripped(s) = [t \in Thing |-> IF again THEN once[t] + once[t] ELSE once[t]]
    BY DEF Gripped
  <2>2. DOMAIN s.spare = 1..Len(s.spare) /\ Len(s.spare) \in Nat
    BY DEF FightState
  <2>3. ASSUME NEW t \in Thing PROVE once[t] \in Nat
    <3>1. IsFiniteSet(DOMAIN s.spare)
      BY <2>2, FS_Interval
    <3>2. places(t) \in SUBSET DOMAIN s.spare
      OBVIOUS
    <3>3. once[t] = Cardinality(places(t))
      OBVIOUS
    <3> HIDE DEF places, once
    <3> QED  BY <3>1, <3>2, <3>3, FS_Subset, FS_CardinalityType
  <2> HIDE DEF once, again
  <2> QED  BY <2>1, <2>3
<1>2. CASE more = Gripped(s)
  BY <1>1, <1>2
<1>3. ASSUME NEW l \in plan.scene, more \in [Thing -> 0..(1 + Laid(l))] PROVE more \in [Thing -> Nat]
  <2>1. l.things \in [Thing -> Nat]
    BY DEF BrainInv, MindTyped, Plans, LocInfos
  <2>2. Laid(l) \in Nat
    BY <2>1, ManyType DEF Laid
  <2>3. 0..(1 + Laid(l)) \subseteq Nat
    BY <2>2
  <2> QED  BY <1>3, <2>3
<1> QED  BY <1>2, <1>3 DEF Grips

LEMMA MuddlesType ==
  ASSUME BrainInv, NEW left \in Muddles, NEW l \in Scenery
  PROVE  left[l] \in LocInfos /\ left[l].place = l.place
<1>1. l \in LocInfos
  <2>1. PICK k \in plan.scene : l \in memory.listing[k.place]
    BY DEF Scenery
  <2>2. k.place \in Place
    BY DEF BrainInv, MindTyped, Plans, LocInfos
  <2> QED  BY <2>1, <2>2 DEF BrainInv, MindTyped, Memories
<1>2. left[l] \in Muddled(l)
  BY DEF Muddles
<1>3. CASE left[l] = l
  BY <1>1, <1>3
<1>4. ASSUME NEW c \in [Thing -> 0..Laid(l)], left[l] = [l EXCEPT !.things = c]
      PROVE  left[l] \in LocInfos /\ left[l].place = l.place
  <2>1. l.things \in [Thing -> Nat]
    BY <1>1 DEF LocInfos
  <2>2. Laid(l) \in Nat
    BY <2>1, ManyType DEF Laid
  <2>3. 0..Laid(l) \subseteq Nat
    BY <2>2
  <2>4. c \in [Thing -> Nat]
    BY <2>3
  <2> QED  BY <1>1, <1>4, <2>4 DEF LocInfos
<1> QED  BY <1>2, <1>3, <1>4 DEF Muddled

LEMMA ImaginedType ==
  ASSUME BrainInv, NEW more \in [Thing -> Nat], NEW left \in Muddles
  PROVE  Imagined(memory, more, left) \in Memories
<1> DEFINE Holding(i) == [i EXCEPT !.hands = [t \in Thing |-> @[t] + more[t]]]
           Left(l) == IF l \in Scenery THEN left[l] ELSE l
           L == {Holding(i) : i \in memory.met[Me]}
           met == [memory.met EXCEPT ![Me] = L]
           listing == [p \in Place |-> {Left(l) : l \in memory.listing[p]}]
           n == [memory EXCEPT !.met[Me] = L, !.listing = listing]
<1>1. memory \in Memories /\ Me \in Actor
  BY DEF BrainInv, MindTyped, Actor
<1>2. Imagined(memory, more, left) = n
  BY DEF Imagined
<1>3. ASSUME NEW i \in ActInfos PROVE Holding(i) \in ActInfos /\ Holding(i).id = i.id
  <2>1. i.hands \in [Thing -> Nat]
    BY DEF ActInfos
  <2>2. \A t \in Thing : i.hands[t] + more[t] \in Nat
    BY <2>1
  <2> QED  BY <2>2 DEF ActInfos
<1>4. ASSUME NEW l \in LocInfos PROVE Left(l) \in LocInfos /\ Left(l).place = l.place
  BY MuddlesType
<1> HIDE DEF Holding, Left
<1>5. L \in SUBSET ActInfos /\ \A i \in L : i.id = Me
  BY <1>1, <1>3 DEF Memories
<1>6. ASSUME NEW p \in Place
      PROVE  /\ {Left(l) : l \in memory.listing[p]} \in SUBSET LocInfos
             /\ \A k \in {Left(l) : l \in memory.listing[p]} : k.place = p
  BY <1>1, <1>4 DEF Memories
<1>7. listing \in [Place -> SUBSET LocInfos] /\ \A p \in Place : \A l \in listing[p] : l.place = p
  BY <1>6
<1> HIDE DEF L, listing
<1>8. met \in [Actor -> SUBSET ActInfos] /\ \A a \in Actor : \A i \in met[a] : i.id = a
  BY <1>1, <1>5 DEF Memories
<1>9. n = [memory EXCEPT !.met = met, !.listing = listing]
  BY <1>1 DEF Memories
<1> HIDE DEF met, n
<1>10. n \in Memories
  BY <1>1, <1>7, <1>8, <1>9 DEF Memories
<1> QED  BY <1>2, <1>10

LEMMA PlanFightKeeps ==
  ASSUME BrainInv, ~crashed, PlanFight, UNCHANGED <<zones, link, wire, ends>>
  PROVE  BrainInv'
<1> DEFINE s == [phys |-> plan.phys, slash |-> plan.slash, bite |-> plan.bite,
                 room |-> Room, spare |-> plan.spare]
<1>1. /\ pc = "fight" /\ plan \in Plans
      /\ plan.spare # <<>> => plan.scene # {}
  BY DEF BrainInv, MindTyped, Thinking, PlanFight
<1>2. question = {}
  BY <1>1 DEF BrainInv, Asking, Asked, AskedAt
<1>3. s \in FightState /\ s.spare = plan.spare
  BY <1>1, HandsType DEF Plans, FightState
<1>4. /\ \/ GiveUp
         \/ \E way \in FightPlans(s) : StartPlan(way)
         \/ Fight(Strike)
      /\ \E more \in Grips(s), left \in Muddles : memory' = Imagined(memory, more, left)
  BY DEF PlanFight
<1> HIDE DEF s
<1>5. memory' \in Memories
  <2>1. PICK more \in Grips(s), left \in Muddles : memory' = Imagined(memory, more, left)
    BY <1>4
  <2>2. more \in [Thing -> Nat]
    BY <1>3, GripsType
  <2> QED  BY <2>1, <2>2, ImaginedType
<1>6. CASE GiveUp
  BY <1>2, <1>5, <1>6, GiveUpKeeps
<1>7. ASSUME NEW do \in Deeds, Fight(do) PROVE BrainInv'
  <2> DEFINE p == [plan EXCEPT !.do = {do}]
  <2>1. {do} \in SUBSET Deeds
    OBVIOUS
  <2>2. p \in Plans
    BY <1>1, <2>1, PlanParts
  <2>3. p.spare = plan.spare /\ p.scene = plan.scene
    BY <1>1 DEF Plans
  <2>4. GoOn("act", p)
    BY <1>7 DEF Fight
  <2> HIDE DEF p
  <2> QED  BY <1>1, <1>2, <1>5, <2>2, <2>3, <2>4, GoOnStep
<1>8. Strike \in Deeds
  <2>1. Enemy \in Other
    BY <1>1, EnemyIs
  <2> QED  BY <2>1 DEF Strike, Deeds
<1>9. ASSUME NEW way \in FightPlans(s), StartPlan(way) PROVE BrainInv'
  <2>1. CASE way = <<>>
    BY <1>6, <1>9, <2>1 DEF StartPlan
  <2>2. CASE way # <<>> /\ way[1].kind # "take"
    BY <1>7, <1>8, <1>9, <2>2 DEF StartPlan
  <2>3. CASE way # <<>> /\ way[1].kind = "take"
    <3> DEFINE t == plan.spare[way[1].nth]
               l == CHOOSE k \in plan.scene : TRUE
    <3>1. IsSeries(s, way)
      BY <1>3, FightPlanIsShortest
    <3>2. 1 \in 1..Len(way)
      BY <2>3, <3>1 DEF IsSeries
    <3>3. way[1] \in Options(s)
      BY <3>1, <3>2 DEF IsSeries
    <3>4. way[1].nth \in 1..Len(plan.spare)
      BY <1>3, <2>3, <3>3, OptionsAre
    <3>5. t \in Thing /\ plan.spare # <<>>
      BY <1>1, <3>4 DEF Plans
    <3>6. l \in LocInfos
      BY <1>1, <3>5 DEF Plans
    <3>7. l.place \in Place
      BY <3>6 DEF LocInfos
    <3>8. Take(t) = [kind |-> "take", of |-> <<t, l.place>>, to |-> Nowhere]
      BY DEF Take
    <3>9. Fight(Take(t))
      BY <1>9, <2>3 DEF StartPlan
    <3> HIDE DEF t, l
    <3>10. <<t, l.place>> \in Thing \X Place
      BY <3>5, <3>7
    <3>11. Take(t) \in Deeds
      BY <3>8, <3>10 DEF Deeds
    <3> QED  BY <1>7, <3>9, <3>11
  <2> QED  BY <2>1, <2>2, <2>3
<1> QED  BY <1>4, <1>6, <1>7, <1>8, <1>9

LEMMA ActKeeps ==
  ASSUME BrainInv, ~crashed, Act, UNCHANGED <<zones, link, wire, ends>>
  PROVE  BrainInv'
<1>1. plan \in Plans /\ memory \in Memories /\ pc = "act"
  BY DEF BrainInv, MindTyped, Act
<1>2. PICK do \in plan.do :
        \/ question = {} /\ Ask(do.kind, do.of)
        \/ /\ question # {} /\ done > 0
           /\ memory' = IF do.kind = "move" THEN [memory EXCEPT !.at = {do.to}] ELSE memory
           /\ GiveUp
  BY DEF Act
<1>3. do \in Deeds
  BY <1>1 DEF Plans
<1>4. CASE Ask(do.kind, do.of)
  <2>1. do.kind \in AskedAt(pc)
    BY <1>1, <1>3 DEF Deeds, AskedAt
  <2>2. \A t \in 0..2 : [kind |-> do.kind, of |-> do.of, tag |-> t] \in Query
    BY <1>3 DEF Deeds, Query
  <2> QED  BY <1>1, <1>4, <2>1, <2>2, AskKeeps
<1>5. CASE /\ done > 0
           /\ memory' = IF do.kind = "move" THEN [memory EXCEPT !.at = {do.to}] ELSE memory
           /\ GiveUp
  <2>1. do.kind = "move" => do.to \in Place
    BY <1>3 DEF Deeds
  <2>2. memory' \in Memories
    BY <1>1, <1>5, <2>1, MemoryParts
  <2> QED  BY <1>5, <2>2, GiveUpKeeps
<1> QED  BY <1>2, <1>4, <1>5

LEMMA ThinkKeeps ==
  ASSUME BrainInv, Think
  PROVE  BrainInv'
BY TurnsKeeps, LookKeeps, ChooseKeeps, GatherKeeps, PlanFightKeeps, ActKeeps DEF Think

-----------------------------------------------------------------------------
(* The theorems *)

LEMMA BrainInvInit ==
  ASSUME Init
  PROVE  BrainInv
<1>1. ZonesTyped
  <2>1. /\ place \in [Actor -> Place \cup {Nowhere}] /\ lies \in [Thing -> Place \cup Actor]
        /\ Health \in Nat /\ MostEars \in Nat \ {0} /\ Strolls \in Nat
    BY BrainAssumption DEF Init
  <2>2. /\ hp = [a \in Actor |-> Health] /\ ears = 1 /\ strolls = 0 /\ carried = FALSE
    BY DEF Init
  <2>3. Health \in 0..Health /\ 1 \in 1..MostEars /\ 0 \in 0..Strolls
    BY <2>1
  <2> QED  BY <2>1, <2>2, <2>3 DEF ZonesTyped
<1>2. LinkTyped
  BY DEF Init, LinkTyped, AtMostOne
<1>3. EndsTyped
  BY DEF Init, EndsTyped
<1>4. MindTyped
  <2>1. NewMemory \in Memories
    BY DEF NewMemory, Memories, AtMostOne
  <2>2. NoPlan \in Plans
    BY BrainAssumption DEF NoPlan, Plans
  <2> QED  BY <2>1, <2>2 DEF Init, MindTyped
<1>5. Asking
  BY DEF Init, Asking
<1>6. Farewell
  <2>1. wire = <<>> /\ heard = FALSE /\ reply = {} /\ WireLen \in Nat
    BY BrainAssumption DEF Init
  <2> QED  BY <2>1 DEF Farewell
<1>7. Flight
  <2>1. wire = <<>> /\ asks = <<>> /\ reply = {}
    BY DEF Init
  <2> QED  BY <2>1 DEF Flight, InFlight
<1>8. Thinking
  BY DEF Init, Thinking, NoPlan
<1> QED  BY <1>1, <1>2, <1>3, <1>4, <1>5, <1>6, <1>7, <1>8 DEF BrainInv

LEMMA BrainInvStep ==
  ASSUME BrainInv, [Next]_vars
  PROVE  BrainInv'
<1>1. CASE UNCHANGED vars
  <2>1. /\ place' = place /\ lies' = lies /\ hp' = hp /\ ears' = ears /\ strolls' = strolls
        /\ carried' = carried /\ session' = session /\ reading' = reading /\ news' = news
        /\ reply' = reply /\ asks' = asks /\ wire' = wire /\ memory' = memory /\ pc' = pc
        /\ plan' = plan /\ question' = question /\ done' = done /\ got' = got
        /\ rlocks' = rlocks /\ registered' = registered /\ heard' = heard
        /\ stopping' = stopping /\ shut' = shut /\ conn' = conn /\ crashed' = crashed
    BY <1>1 DEF vars, zones, link, mind, ends
  <2>2. ZonesTyped' /\ LinkTyped' /\ EndsTyped' /\ MindTyped'
    BY <2>1 DEF BrainInv, ZonesTyped, LinkTyped, EndsTyped, MindTyped
  <2>3. Asking' /\ Thinking'
    BY <2>1 DEF BrainInv, Asking, Asked, Thinking
  <2>4. Farewell'
    BY <2>1 DEF BrainInv, Farewell
  <2>5. Flight'
    BY <2>1 DEF BrainInv, Flight, InFlight
  <2> QED  BY <2>2, <2>3, <2>4, <2>5 DEF BrainInv
<1> QED  BY <1>1, OtherKeeps, ServerKeeps, ReaderKeeps, ThinkKeeps DEF Next

LEMMA BrainInvAlways == Spec => []BrainInv
BY BrainInvInit, BrainInvStep, PTL DEF Spec

(* Every variable keeps its type: the memory lists Places, Actors and      *)
(* Things under their own names, two commands at most are on the way, and  *)
(* the wire never holds more than it has room for and the close message.   *)
THEOREM BrainTyped == Spec => []TypeOK
BY BrainInvImplies, BrainInvAlways, PTL

(* Whoever waits for an answer is released once, be it by the answer, by   *)
(* an error, by Intellect.Stop or by one racing the other.                 *)
THEOREM ReleasedOnce == Spec => []AnsweredOnce
BY BrainInvImplies, BrainInvAlways, PTL

(* What fails when there is no sending any more, the session is closed. *)
LEMMA DiesAsked ==
  ASSUME BrainInv, ~crashed, NEW kind, NEW x, Ask(kind, x), crashed'
  PROVE  session # "open"
BY DEF Ask, BrainInv, Farewell

(* Whoever ends a question holds the lock its callback has taken. *)
LEMMA EndsAlive ==
  ASSUME BrainInv, ~crashed, question = {} \/ done > 0, EndQuestion
  PROVE  ~crashed'
<1> DEFINE locked == {q \in question : Lookup(q.kind)}
<1>1. crashed' = (locked # {} /\ rlocks = 0)
  BY DEF EndQuestion
<1>2. CASE question = {}
  BY <1>1, <1>2
<1>3. CASE question # {}
  <2>1. PICK q \in question : TRUE
    BY <1>3
  <2>2. question = {q} /\ done = 1 /\ rlocks = IF Lookup(q.kind) THEN 1 ELSE 0
    BY <1>3, <2>1 DEF BrainInv, Asking, Asked
  <2>3. locked # {} <=> Lookup(q.kind)
    BY <2>2
  <2> HIDE DEF locked
  <2>4. ~(locked # {} /\ rlocks = 0)
    BY <2>2, <2>3
  <2> QED  BY <1>1, <2>4
<1> QED  BY <1>2, <1>3

LEMMA ThinksAlive ==
  ASSUME BrainInv, Think, crashed'
  PROVE  session # "open"
<1>1. ~crashed
  BY DEF Think
<1>2. question # {} => pc \notin {"rest", "choose", "fight", "end"} /\ (pc = "threat" => memory.attacker # {})
  BY DEF BrainInv, Asking, Asked, AskedAt
<1>3. ASSUME NEW kind, NEW x, Ask(kind, x) PROVE session # "open"
  BY <1>1, <1>3, DiesAsked
<1>4. ~(EndQuestion /\ (question = {} \/ done > 0))
  BY <1>1, EndsAlive
<1>5. ~Turns
  BY <1>1 DEF Turns
<1>6. ~Choose
  BY <1>2, <1>4 DEF Choose, GiveUp, GoOn
<1>7. ~PlanFight
  BY <1>2, <1>4 DEF PlanFight, StartPlan, Fight, GiveUp, GoOn
<1>8. CASE Act
  <2>1. ASSUME done > 0, GiveUp PROVE FALSE
    BY <1>4, <2>1 DEF GiveUp, GoOn
  <2>2. PICK do \in plan.do : Ask(do.kind, do.of)
    BY <1>8, <2>1 DEF Act
  <2> QED  BY <1>3, <2>2
<1>9. ASSUME NEW kind, NEW x, Known(kind, x), EndQuestion PROVE FALSE
  BY <1>4, <1>9 DEF Known
<1>10. CASE Look
  <2>1. ASSUME NEW fact PROVE (Crowded(fact) => EndQuestion) /\ (Threatened(fact) => EndQuestion)
    BY DEF Crowded, Threatened, GoOn
  <2>2. ~(pc = "threat" /\ memory.attacker = {} /\ GoOn("choose", plan))
    BY <1>2, <1>4 DEF GoOn
  <2> QED  BY <1>3, <1>9, <1>10, <2>1, <2>2 DEF Look, Consult
<1>11. CASE Gather
  <2>1. ASSUME NEW fact
        PROVE  /\ PickExit(fact) => EndQuestion
               /\ SeeEnemy(fact) => EndQuestion
               /\ SeeScene(fact) => EndQuestion
               /\ SeeSelf(fact) => EndQuestion
               /\ SeeHand(fact) => EndQuestion
               /\ SeeThing(fact) => EndQuestion
    BY DEF PickExit, SeeEnemy, SeeScene, SeeSelf, SeeHand, SeeThing, GiveUp, GoOn
  <2>2. ~(question = {} /\ SeeHands) /\ ~(question = {} /\ SeeGround)
    BY <1>4 DEF SeeHands, SeeGround, GoOn
  <2>3. ASSUME NEW kind, NEW x, NEW fact,
               \/ Consult(kind, x, PickExit(fact)) \/ Consult(kind, x, SeeEnemy(fact))
               \/ Consult(kind, x, SeeScene(fact)) \/ Consult(kind, x, SeeSelf(fact))
               \/ Consult(kind, x, SeeHand(fact)) \/ Consult(kind, x, SeeThing(fact))
        PROVE  session # "open"
    BY <1>3, <1>9, <2>1, <2>3 DEF Consult
  <2> QED  BY <1>11, <2>2, <2>3 DEF Gather
<1> QED  BY <1>5, <1>6, <1>7, <1>8, <1>10, <1>11 DEF Think

LEMMA ServesAlive ==
  ASSUME BrainInv, Serve, crashed'
  PROVE  session # "open" \/ place[Me] = Nowhere \/ (asks # asks' /\ Astray(Head(asks)))
<1>1. asks # <<>> /\ asks \in Seq(Query) /\ asks' = Tail(asks)
  BY DEF Serve, BrainInv, LinkTyped
<1>2. asks # asks'
  <2>1. Len(asks) \in Nat /\ Len(asks') = Len(asks) - 1
    BY <1>1
  <2> QED  BY <2>1
<1>3. ServeDetached(Head(asks)) \/ ServeBuried \/ ServeOpen(Head(asks))
  BY DEF Serve
<1> QED  BY <1>2, <1>3 DEF ServeDetached, ServeBuried, ServeOpen

(* A brain brings the daemon down only when its session is detached, when  *)
(* its Actor is gone, or when it takes something that is here out of a     *)
(* Location of another Zone.  The daemon's other goroutines never do: not  *)
(* a callback that has run, nor a question that ends or cannot be asked    *)
(* any more, while the session is open.                                    *)
THEOREM DiesOnlyDetached == Spec => DiesDetached
<1> DEFINE Dies == crashed' /\ ~crashed =>
                     \/ session # "open" \/ place[Me] = Nowhere
                     \/ asks # asks' /\ Astray(Head(asks))
<1>1. ASSUME BrainInv, [Next]_vars PROVE [Dies]_vars
  <2> SUFFICES ASSUME crashed', ~crashed, Next
               PROVE  \/ session # "open" \/ place[Me] = Nowhere
                      \/ asks # asks' /\ Astray(Head(asks))
    BY <1>1
  <2>1. ~OtherStep
    BY DEF OtherStep, Stroll, Arrive, Attack, Exchange, Relocate
  <2>2. ~ReaderStep
    BY DEF ReaderStep, HandleMessage, ReadClose, FinalShutdown
  <2>3. ServerStep => Serve
    BY DEF ServerStep, Bury, Evict, SendReply, ForwardEvent, StopSending
  <2> QED  BY <1>1, <2>1, <2>2, <2>3, ThinksAlive, ServesAlive DEF Next
<1> QED  BY <1>1, BrainInvAlways, PTL DEF Spec, DiesDetached

-----------------------------------------------------------------------------
(* Graphs whose costs are natural numbers, and walks in them: w[i] is where *)
(* the walk is after i edges, c[i] what it has cost so far.                 *)

IsWalk(graph, k, w, c) ==
    /\ k \in Nat /\ w \in [0..k -> DOMAIN graph] /\ c \in [0..k -> Int] /\ c[0] = 0
    /\ \A i \in 1..k : /\ w[i] \in DOMAIN graph[w[i-1]]
                       /\ c[i] = c[i-1] + graph[w[i-1]][w[i]]

(* The rest of a walk is a walk. *)
LEMMA RestOfWalk ==
  ASSUME NEW graph, IsGraph(graph), NEW k, NEW w, NEW c, IsWalk(graph, k, w, c), NEW i \in 0..k
  PROVE  IsWalk(graph, k - i, [j \in 0..(k-i) |-> w[i+j]], [j \in 0..(k-i) |-> c[i+j] - c[i]])
<1> DEFINE u == [j \in 0..(k-i) |-> w[i+j]]
           d == [j \in 0..(k-i) |-> c[i+j] - c[i]]
<1>1. /\ k \in Nat /\ w \in [0..k -> DOMAIN graph] /\ c \in [0..k -> Int]
      /\ \A j \in 1..k : /\ w[j] \in DOMAIN graph[w[j-1]]
                         /\ c[j] = c[j-1] + graph[w[j-1]][w[j]]
  BY DEF IsWalk
<1>2. k - i \in Nat /\ i \in Nat /\ 0 \in 0..(k-i) /\ i + 0 = i
  BY <1>1
<1>3. \A j \in 0..(k-i) : i + j \in 0..k
  BY <1>1, <1>2
<1>4. u \in [0..(k-i) -> DOMAIN graph] /\ d \in [0..(k-i) -> Int]
  BY <1>1, <1>2, <1>3
<1>5. \A j \in 0..(k-i) : u[j] = w[i+j] /\ d[j] = c[i+j] - c[i]
  OBVIOUS
<1> HIDE DEF u, d
<1>6. d[0] = 0
  BY <1>1, <1>2, <1>5
<1>7. ASSUME NEW j \in 1..(k-i)
      PROVE u[j] \in DOMAIN graph[u[j-1]] /\ d[j] = d[j-1] + graph[u[j-1]][u[j]]
  <2>1. j \in 0..(k-i) /\ j - 1 \in 0..(k-i) /\ i + j \in 1..k /\ (i + j) - 1 = i + (j - 1)
        /\ i + j \in 0..k /\ i + (j - 1) \in 0..k
    BY <1>1, <1>2
  <2>2. u[j] = w[i+j] /\ u[j-1] = w[i+(j-1)] /\ d[j] = c[i+j] - c[i] /\ d[j-1] = c[i+(j-1)] - c[i]
    BY <1>5, <2>1
  <2>3. w[i+j] \in DOMAIN graph[w[i+(j-1)]] /\ c[i+j] = c[i+(j-1)] + graph[w[i+(j-1)]][w[i+j]]
    BY <1>1, <2>1
  <2>4. graph[w[i+(j-1)]][w[i+j]] \in Nat
    BY <1>1, <2>1, <2>3 DEF IsGraph
  <2>5. c[i+j] \in Int /\ c[i+(j-1)] \in Int /\ c[i] \in Int
    BY <1>1, <2>1
  <2> QED  BY <2>2, <2>3, <2>4, <2>5
<1>8. IsWalk(graph, k - i, u, d)
  BY <1>2, <1>4, <1>6, <1>7 DEF IsWalk
<1> QED  BY <1>8 DEF u, d

(* What PathCost computes. *)
LEMMA PathCostIs ==
  ASSUME NEW graph, IsGraph(graph), NEW start \in DOMAIN graph, NEW path, IsPath(graph, start, path)
  PROVE  \E c : /\ IsWalk(graph, Len(path), [i \in 0..Len(path) |-> IF i = 0 THEN start ELSE path[i]], c)
                /\ PathCost(graph, start, path) = c[Len(path)]
<1> DEFINE n == Len(path)
           w == [i \in 0..n |-> IF i = 0 THEN start ELSE path[i]]
           Cost(h) == [k \in 0..n |-> IF k = 0 THEN 0
                                       ELSE h[k-1] + graph[Before(start, path, k)][path[k]]]
<1>1. n \in Nat /\ DOMAIN path = 1..n /\ \A k \in 1..n : path[k] \in DOMAIN graph
  BY LenProperties, ElementOfSeq DEF IsPath
<1>2. \A k \in 1..n : path[k] \in DOMAIN graph[Before(start, path, k)]
  BY <1>1 DEF IsPath, NeighborsOf
<1> HIDE DEF n
<1>3. w \in [0..n -> DOMAIN graph]
  BY <1>1
<1>4. \A k \in 1..n : w[k] = path[k] /\ w[k-1] = Before(start, path, k)
  BY <1>1 DEF Before
<1> HIDE DEF w
<1>5. \A k \in 1..n : /\ w[k-1] \in DOMAIN graph /\ w[k] \in DOMAIN graph[w[k-1]]
                       /\ graph[w[k-1]][w[k]] \in Nat
  <2> SUFFICES ASSUME NEW k \in 1..n
               PROVE  /\ w[k-1] \in DOMAIN graph /\ w[k] \in DOMAIN graph[w[k-1]]
                      /\ graph[w[k-1]][w[k]] \in Nat
    OBVIOUS
  <2>1. k - 1 \in 0..n
    BY <1>1
  <2> QED  BY <1>2, <1>3, <1>4, <2>1 DEF IsGraph
<1>6. \E h : h = Cost(h)
  <2> DEFINE F == [k \in 1..n |-> [x \in Int |-> x + graph[w[k-1]][w[k]]]]
  <2>1. F \in [1..n -> [Int -> Int]]
    BY <1>5
  <2>2. \A k \in 1..n : \A x \in Int : F[k][x] = x + graph[w[k-1]][w[k]]
    OBVIOUS
  <2> HIDE DEF F
  <2>3. \E h : Steps(n, Int, 0, F, h)
    <3>1. n \in Nat /\ 0 \in Int
      BY <1>1
    <3> QED  BY <2>1, <3>1, StepByStep, Zenon
  <2> PICK h : Steps(n, Int, 0, F, h)
    BY <2>3
  <2>4. \A k \in 0..n : h[k] = IF k = 0 THEN 0 ELSE h[k-1] + graph[Before(start, path, k)][path[k]]
    <3> SUFFICES ASSUME NEW k \in 0..n, k # 0
                 PROVE  h[k] = h[k-1] + graph[Before(start, path, k)][path[k]]
      BY <2>3 DEF Steps
    <3>1. k \in 1..n /\ k - 1 \in 0..n
      BY <1>1
    <3> QED  BY <1>4, <1>5, <2>2, <2>3, <3>1 DEF Steps
  <2>5. h = Cost(h)
    BY <2>3, <2>4 DEF Steps
  <2> QED  BY <2>5
<1> DEFINE c == CHOOSE h : h = Cost(h)
<1>7. c = Cost(c)
  BY <1>6
<1>8. PathCost(graph, start, path) = c[n]
  BY DEF PathCost, n
<1> HIDE DEF c
<1>9. c[0] = 0 /\ DOMAIN c = 0..n /\ c = [k \in 0..n |-> c[k]]
  BY <1>1, <1>7
<1>10. \A k \in 1..n : c[k] = c[k-1] + graph[w[k-1]][w[k]]
  BY <1>1, <1>4, <1>7
<1>11. \A k \in 0..n : c[k] \in Int
  <2> DEFINE T == {k \in 0..n : c[k] \in Int}
  <2>1. 0 \in T
    BY <1>1, <1>9
  <2>2. ASSUME NEW k \in 0..(n-1), k \in T PROVE k + 1 \in T
    <3>1. k + 1 \in 1..n /\ k + 1 \in 0..n /\ (k + 1) - 1 = k
      BY <1>1
    <3>2. c[k+1] = c[k] + graph[w[k]][w[k+1]] /\ graph[w[k]][w[k+1]] \in Nat
      BY <1>5, <1>10, <3>1
    <3>3. c[k] \in Int
      BY <2>2
    <3>4. c[k+1] \in Int
      BY <3>2, <3>3
    <3> QED  BY <3>1, <3>4
  <2> HIDE DEF T
  <2>3. \A k \in 0..n : k \in T
    BY <1>1, <2>1, <2>2, UpTo
  <2> QED  BY <2>3 DEF T
<1>12. c \in [0..n -> Int]
  BY <1>9, <1>11
<1>13. IsWalk(graph, n, w, c)
  BY <1>1, <1>3, <1>5, <1>9, <1>10, <1>12 DEF IsWalk
<1> QED  BY <1>8, <1>13 DEF w, n

(* Two walks along the same nodes cost the same. *)
LEMMA CostOfWalk ==
  ASSUME NEW graph, NEW k, NEW w, NEW c, NEW d, IsWalk(graph, k, w, c), IsWalk(graph, k, w, d)
  PROVE  c[k] = d[k]
<1> DEFINE T == {i \in 0..k : c[i] = d[i]}
<1>1. k \in Nat /\ c[0] = 0 /\ d[0] = 0
  BY DEF IsWalk
<1>2. 0 \in T
  BY <1>1
<1>3. ASSUME NEW i \in 0..(k-1), i \in T PROVE i + 1 \in T
  <2>1. i + 1 \in 1..k /\ i + 1 \in 0..k /\ (i + 1) - 1 = i
    BY <1>1
  <2>2. c[i+1] = c[i] + graph[w[i]][w[i+1]] /\ d[i+1] = d[i] + graph[w[i]][w[i+1]]
    BY <2>1 DEF IsWalk
  <2> QED  BY <1>3, <2>1, <2>2
<1>4. \A i \in 0..k : i \in T
  <2> HIDE DEF T
  <2> QED  BY <1>1, <1>2, <1>3, UpTo
<1> QED  BY <1>1, <1>4

LEMMA WalkCostsNoLess ==
  ASSUME NEW graph, IsGraph(graph), NEW k, NEW w, NEW c, IsWalk(graph, k, w, c)
  PROVE  0 <= c[k]
<1> DEFINE T == {i \in 0..k : 0 <= c[i]}
<1>1. k \in Nat /\ w \in [0..k -> DOMAIN graph] /\ c \in [0..k -> Int] /\ c[0] = 0
  BY DEF IsWalk
<1>2. 0 \in T
  BY <1>1
<1>3. ASSUME NEW i \in 0..(k-1), i \in T PROVE i + 1 \in T
  <2>1. i + 1 \in 1..k /\ i \in 0..k /\ i + 1 \in 0..k /\ (i + 1) - 1 = i
    BY <1>1
  <2>2. w[i+1] \in DOMAIN graph[w[i]] /\ c[i+1] = c[i] + graph[w[i]][w[i+1]]
    BY <2>1 DEF IsWalk
  <2>3. graph[w[i]][w[i+1]] \in Nat
    BY <1>1, <2>1, <2>2 DEF IsGraph
  <2>4. c[i] \in Int /\ 0 <= c[i]
    BY <1>1, <1>3, <2>1
  <2>5. 0 <= c[i+1]
    BY <2>2, <2>3, <2>4
  <2> QED  BY <2>1, <2>5
<1>4. \A i \in 0..k : i \in T
  <2> HIDE DEF T
  <2> QED  BY <1>1, <1>2, <1>3, UpTo
<1> QED  BY <1>1, <1>4

(* A path is a walk that leaves out its start, and the other way round. *)
LEMMA PathIsWalk ==
  ASSUME NEW graph, IsGraph(graph), NEW start \in DOMAIN graph, NEW path, IsPath(graph, start, path)
  PROVE  \E w, c : /\ IsWalk(graph, Len(path), w, c) /\ w[0] = start
                   /\ w[Len(path)] = End(start, path) /\ c[Len(path)] = PathCost(graph, start, path)
<1> DEFINE n == Len(path)
           w == [i \in 0..n |-> IF i = 0 THEN start ELSE path[i]]
<1>1. PICK c : IsWalk(graph, n, w, c) /\ PathCost(graph, start, path) = c[n]
  BY PathCostIs
<1>2. n \in Nat /\ (path = <<>> <=> n = 0)
  BY EmptySeq DEF IsPath
<1>3. w[0] = start /\ w[n] = End(start, path)
  BY <1>2 DEF End
<1> HIDE DEF w, n
<1>4. IsWalk(graph, n, w, c) /\ w[0] = start /\ w[n] = End(start, path) /\ c[n] = PathCost(graph, start, path)
  BY <1>1, <1>3
<1> QED  BY <1>4 DEF n

LEMMA WalkIsPath ==
  ASSUME NEW graph, IsGraph(graph), NEW k, NEW w, NEW c, IsWalk(graph, k, w, c)
  PROVE  LET path == [i \in 1..k |-> w[i]]
         IN  IsPath(graph, w[0], path) /\ End(w[0], path) = w[k] /\ PathCost(graph, w[0], path) = c[k]
<1> DEFINE path == [i \in 1..k |-> w[i]]
<1>1. k \in Nat /\ w \in [0..k -> DOMAIN graph] /\ \A i \in 1..k : w[i] \in DOMAIN graph[w[i-1]]
  BY DEF IsWalk
<1>2. path \in Seq(DOMAIN graph) /\ Len(path) = k /\ DOMAIN path = 1..k /\ \A i \in 1..k : path[i] = w[i]
  <2>1. path \in [1..k -> DOMAIN graph]
    BY <1>1
  <2>2. \A i \in 1..k : path[i] = w[i]
    OBVIOUS
  <2> HIDE DEF path
  <2>3. path \in Seq(DOMAIN graph)
    BY <1>1, <2>1
  <2> QED  BY <1>1, <2>1, <2>2, <2>3
<1> HIDE DEF path
<1>3. \A i \in 1..k : Before(w[0], path, i) = w[i-1]
  <2> SUFFICES ASSUME NEW i \in 1..k PROVE Before(w[0], path, i) = w[i-1]
    OBVIOUS
  <2>1. i # 1 => i - 1 \in 1..k
    BY <1>1
  <2> QED  BY <1>1, <1>2, <2>1 DEF Before
<1>4. IsPath(graph, w[0], path)
  BY <1>1, <1>2, <1>3 DEF IsPath, NeighborsOf
<1>5. path = <<>> <=> k = 0
  BY <1>2, EmptySeq
<1>6. End(w[0], path) = w[k]
  <2>1. k # 0 => k \in 1..k
    BY <1>1
  <2> QED  BY <1>2, <1>5, <2>1 DEF End
<1>7. w[0] \in DOMAIN graph
  BY <1>1
<1>8. PICK d : /\ IsWalk(graph, Len(path), [i \in 0..Len(path) |-> IF i = 0 THEN w[0] ELSE path[i]], d)
               /\ PathCost(graph, w[0], path) = d[Len(path)]
  BY <1>4, <1>7, PathCostIs
<1>9. [i \in 0..Len(path) |-> IF i = 0 THEN w[0] ELSE path[i]] = w
  <2>1. \A i \in 0..k : w[i] = IF i = 0 THEN w[0] ELSE path[i]
    BY <1>1, <1>2
  <2>2. w = [i \in 0..k |-> w[i]]
    BY <1>1
  <2> QED  BY <1>2, <2>1, <2>2
<1>10. IsWalk(graph, k, w, d) /\ PathCost(graph, w[0], path) = d[k]
  BY <1>2, <1>8, <1>9
<1>11. c[k] = d[k]
  BY <1>10, CostOfWalk
<1> QED  BY <1>4, <1>6, <1>10, <1>11 DEF path

-----------------------------------------------------------------------------
(* Searches.  An estimate must not exceed what is left of any way to a     *)
(* goal; it need not be consistent along the edges.                        *)

Admissible(graph, goals, estimate) ==
    \A n \in DOMAIN graph : \A path :
        IsPath(graph, n, path) /\ End(n, path) \in goals => estimate[n] <= PathCost(graph, n, path)

LEMMA AdmissibleAlong ==
  ASSUME NEW graph, IsGraph(graph), NEW goals, NEW estimate, Admissible(graph, goals, estimate),
         NEW k, NEW w, NEW c, IsWalk(graph, k, w, c), w[k] \in goals, NEW i \in 0..k
  PROVE  estimate[w[i]] <= c[k] - c[i]
<1> DEFINE u == [j \in 0..(k-i) |-> w[i+j]]
           d == [j \in 0..(k-i) |-> c[i+j] - c[i]]
           path == [j \in 1..(k-i) |-> u[j]]
<1>1. IsWalk(graph, k - i, u, d)
  BY RestOfWalk
<1>2. k \in Nat /\ w \in [0..k -> DOMAIN graph] /\ c \in [0..k -> Int]
  BY DEF IsWalk
<1>3. u[0] = w[i] /\ u[k-i] = w[k] /\ d[k-i] = c[k] - c[i]
  <2>1. 0 \in 0..(k-i) /\ k - i \in 0..(k-i) /\ i + 0 = i /\ i + (k - i) = k
    BY <1>2
  <2> QED  BY <2>1
<1> HIDE DEF u, d
<1>4. IsPath(graph, u[0], path) /\ End(u[0], path) = u[k-i] /\ PathCost(graph, u[0], path) = d[k-i]
  BY <1>1, WalkIsPath
<1> HIDE DEF path
<1>5. w[i] \in DOMAIN graph
  BY <1>2
<1> QED  BY <1>3, <1>4, <1>5 DEF Admissible

(* w leads back along "from", seen from the start. *)
Leads(s, start, k, w) ==
    /\ k \in Nat /\ w \in [0..k -> DOMAIN s.cost] /\ w[0] = start
    /\ \A i \in 1..k : s.from[w[i]] = {w[i-1]}

SearchState(graph) ==
    [queue : SUBSET ((DOMAIN graph) \X Nat), cost : UNION {[D -> Nat] : D \in SUBSET DOMAIN graph},
     from : UNION {[D -> SUBSET DOMAIN graph] : D \in SUBSET DOMAIN graph}, final : SUBSET DOMAIN graph]

(* Either n is queued with what is known to be its cost, or all its         *)
(* neighbours are known to be as near as they are by way of n.             *)
Queued(s, estimate, n) ==
    \E p \in Nat : <<n, p>> \in s.queue /\ p <= s.cost[n] + estimate[n]
Expanded(graph, s, n) ==
    \A m \in DOMAIN graph[n] : m \in DOMAIN s.cost /\ s.cost[m] <= s.cost[n] + graph[n][m]

(* No walk to a goal is cheaper than what n has cost. *)
Cheapest(graph, start, goals, s, n) ==
    \A k, w, c : IsWalk(graph, k, w, c) /\ w[0] = start /\ w[k] \in goals => s.cost[n] <= c[k]

SearchInv(graph, start, goals, estimate, s) ==
    /\ s \in SearchState(graph) /\ DOMAIN s.from = DOMAIN s.cost
    /\ start \in DOMAIN s.cost /\ s.cost[start] = 0 /\ s.from[start] = {}
    /\ \A q \in s.queue : q[1] \in DOMAIN s.cost /\ s.cost[q[1]] <= q[2]
    /\ s.final = {} => \A n \in DOMAIN s.cost :
           Queued(s, estimate, n) \/ (n \notin goals /\ Expanded(graph, s, n))
    /\ \A n \in DOMAIN s.cost \ {start} : \E x \in DOMAIN s.cost :
           s.from[n] = {x} /\ n \in DOMAIN graph[x] /\ s.cost[x] + graph[x][n] <= s.cost[n]
    /\ \A n \in DOMAIN s.cost : \E k, w : Leads(s, start, k, w) /\ w[k] = n
    /\ s.final # {} => \E n \in goals \cap DOMAIN s.cost :
           s.final = {n} /\ Cheapest(graph, start, goals, s, n)

LEMMA SearchFields ==
  ASSUME NEW graph, NEW s \in SearchState(graph)
  PROVE  /\ s.queue \subseteq (DOMAIN graph) \X Nat /\ s.final \subseteq DOMAIN graph
         /\ DOMAIN s.cost \subseteq DOMAIN graph /\ s.cost \in [DOMAIN s.cost -> Nat]
         /\ DOMAIN s.from \subseteq DOMAIN graph /\ s.from \in [DOMAIN s.from -> SUBSET DOMAIN graph]
<1>1. PICK D \in SUBSET DOMAIN graph : s.cost \in [D -> Nat]
  BY DEF SearchState
<1>2. PICK E \in SUBSET DOMAIN graph : s.from \in [E -> SUBSET DOMAIN graph]
  BY DEF SearchState
<1>3. s.queue \subseteq (DOMAIN graph) \X Nat /\ s.final \subseteq DOMAIN graph
  BY DEF SearchState
<1> QED  BY <1>1, <1>2, <1>3

LEMMA SearchBegins ==
  ASSUME NEW graph, NEW start \in DOMAIN graph, NEW goals, NEW estimate \in [DOMAIN graph -> Nat]
  PROVE  SearchInv(graph, start, goals, estimate, Begin(start))
<1> DEFINE s == Begin(start)
<1>1. /\ s.queue = {<<start, 0>>} /\ DOMAIN s.cost = {start} /\ s.cost[start] = 0
      /\ DOMAIN s.from = {start} /\ s.from[start] = {} /\ s.final = {}
      /\ s = [queue |-> s.queue, cost |-> s.cost, from |-> s.from, final |-> s.final]
      /\ s.cost \in [{start} -> Nat] /\ s.from \in [{start} -> SUBSET DOMAIN graph]
  BY DEF Begin
<1> HIDE DEF s
<1>2. s \in SearchState(graph)
  <2>1. {start} \in SUBSET DOMAIN graph /\ s.queue \subseteq (DOMAIN graph) \X Nat
    <3>1. <<start, 0>> \in (DOMAIN graph) \X Nat
      <4>1. start \in DOMAIN graph /\ 0 \in Nat
        OBVIOUS
      <4> QED  BY <4>1, Zenon
    <3>2. {start} \in SUBSET DOMAIN graph
      OBVIOUS
    <3> QED  BY <1>1, <3>1, <3>2
  <2>2. s.cost \in UNION {[D -> Nat] : D \in SUBSET DOMAIN graph}
    BY <1>1, <2>1
  <2>3. s.from \in UNION {[D -> SUBSET DOMAIN graph] : D \in SUBSET DOMAIN graph}
    BY <1>1, <2>1
  <2> QED  BY <1>1, <2>1, <2>2, <2>3 DEF SearchState
<1>3. Queued(s, estimate, start)
  <2>1. 0 <= 0 + estimate[start]
    OBVIOUS
  <2> QED  BY <1>1, <2>1 DEF Queued
<1>4. Leads(s, start, 0, [i \in 0..0 |-> start]) /\ [i \in 0..0 |-> start][0] = start
  BY <1>1 DEF Leads
<1>5. \A q \in s.queue : q[1] \in DOMAIN s.cost /\ s.cost[q[1]] <= q[2]
  BY <1>1
<1>6. \A n \in DOMAIN s.cost : n = start
  BY <1>1
<1>7. \A n \in DOMAIN s.cost : \E k, w : Leads(s, start, k, w) /\ w[k] = n
  BY <1>4, <1>6
<1>8. /\ \A n \in DOMAIN s.cost : Queued(s, estimate, n)
      /\ DOMAIN s.cost \ {start} = {}
  BY <1>1, <1>3, <1>6
<1>9. SearchInv(graph, start, goals, estimate, s)
  BY <1>1, <1>2, <1>5, <1>7, <1>8 DEF SearchInv
<1> QED  BY <1>9 DEF s

(* Along a walk from the start there is a node that waits in the queue with *)
(* what is known of it no dearer than the walk, unless no goal is reached. *)
LEMMA SomeWaits ==
  ASSUME NEW graph, IsGraph(graph), NEW start, NEW goals, NEW estimate, NEW s,
         SearchInv(graph, start, goals, estimate, s), s.final = {},
         NEW k, NEW w, NEW c, IsWalk(graph, k, w, c), w[0] = start, w[k] \in goals
  PROVE  \E i \in 0..k : /\ w[i] \in DOMAIN s.cost /\ s.cost[w[i]] <= c[i]
                         /\ Queued(s, estimate, w[i])
<1> SUFFICES ASSUME \A i \in 0..k : w[i] \in DOMAIN s.cost /\ s.cost[w[i]] <= c[i] =>
                        w[i] \notin goals /\ Expanded(graph, s, w[i])
             PROVE  FALSE
  BY DEF SearchInv
<1>1. k \in Nat /\ w \in [0..k -> DOMAIN graph] /\ c \in [0..k -> Int] /\ c[0] = 0
  BY DEF IsWalk
<1>2. s.cost \in [DOMAIN s.cost -> Nat] /\ start \in DOMAIN s.cost /\ s.cost[start] = 0
  BY SearchFields DEF SearchInv
<1> DEFINE T == {i \in 0..k : w[i] \in DOMAIN s.cost /\ s.cost[w[i]] <= c[i]}
<1>3. 0 \in T
  BY <1>1, <1>2
<1>4. ASSUME NEW i \in 0..(k-1), i \in T PROVE i + 1 \in T
  <2>1. i \in 0..k /\ i + 1 \in 1..k /\ i + 1 \in 0..k /\ (i + 1) - 1 = i
    BY <1>1
  <2>2. w[i+1] \in DOMAIN graph[w[i]] /\ c[i+1] = c[i] + graph[w[i]][w[i+1]]
    BY <2>1 DEF IsWalk
  <2>3. graph[w[i]][w[i+1]] \in Nat
    BY <1>1, <2>1, <2>2 DEF IsGraph
  <2>4. w[i+1] \in DOMAIN s.cost /\ s.cost[w[i+1]] <= s.cost[w[i]] + graph[w[i]][w[i+1]]
    BY <1>4, <2>1, <2>2 DEF Expanded
  <2>5. /\ s.cost[w[i]] \in Nat /\ s.cost[w[i+1]] \in Nat /\ c[i] \in Int /\ c[i+1] \in Int
        /\ s.cost[w[i]] <= c[i]
    BY <1>1, <1>2, <1>4, <2>1, <2>4
  <2>6. s.cost[w[i+1]] <= c[i+1]
    BY <2>2, <2>3, <2>4, <2>5
  <2> QED  BY <2>1, <2>4, <2>6
<1>5. \A i \in 0..k : i \in T
  <2> HIDE DEF T
  <2> QED  BY <1>1, <1>3, <1>4, UpTo
<1>6. k \in T
  BY <1>1, <1>5
<1> QED  BY <1>6

LEMMA PoppedIsLeast ==
  ASSUME NEW graph, NEW s \in SearchState(graph), s.queue # {}
  PROVE  Popped(s) \in s.queue /\ \A r \in s.queue : Popped(s)[2] <= r[2]
<1> DEFINE T == {r[2] : r \in s.queue}
<1>1. s.queue \subseteq (DOMAIN graph) \X Nat
  BY SearchFields
<1>2. T \subseteq Nat /\ T # {}
  BY <1>1
<1>3. PICK x \in T : \A y \in T : x <= y
  <2> HIDE DEF T
  <2> QED  BY <1>2, Lowest
<1>4. \E q \in s.queue : \A r \in s.queue : q[2] <= r[2]
  BY <1>3
<1> QED  BY <1>4 DEF Popped

LEMMA LeadsOn ==
  ASSUME NEW s, NEW start, NEW k, NEW w, Leads(s, start, k, w),
         NEW y \in DOMAIN s.cost, s.from[y] = {w[k]}
  PROVE  \E l, u : Leads(s, start, l, u) /\ u[l] = y
<1> DEFINE u == [i \in 0..(k+1) |-> IF i = k + 1 THEN y ELSE w[i]]
<1>1. /\ k \in Nat /\ w \in [0..k -> DOMAIN s.cost] /\ w[0] = start
      /\ \A i \in 1..k : s.from[w[i]] = {w[i-1]}
  BY DEF Leads
<1>2. /\ u \in [0..(k+1) -> DOMAIN s.cost] /\ u[k+1] = y /\ u[0] = start
      /\ \A i \in 0..k : u[i] = w[i]
  BY <1>1
<1> HIDE DEF u
<1>3. ASSUME NEW i \in 1..(k+1) PROVE s.from[u[i]] = {u[i-1]}
  <2>1. CASE i = k + 1
    <3>1. i - 1 = k /\ k \in 0..k
      BY <1>1, <2>1
    <3> QED  BY <1>2, <2>1, <3>1
  <2>2. CASE i # k + 1
    <3>1. i \in 1..k /\ i \in 0..k /\ i - 1 \in 0..k
      BY <1>1, <2>2
    <3> QED  BY <1>1, <1>2, <3>1
  <2> QED  BY <2>1, <2>2
<1>4. Leads(s, start, k + 1, u)
  BY <1>1, <1>2, <1>3 DEF Leads
<1> QED  BY <1>2, <1>4

(* Costs do not fall along "from". *)
LEMMA LeadsUp ==
  ASSUME NEW graph, IsGraph(graph), NEW start, NEW goals, NEW estimate, NEW s,
         SearchInv(graph, start, goals, estimate, s), NEW k, NEW w, Leads(s, start, k, w)
  PROVE  /\ \A i \in 1..k : /\ w[i] \in DOMAIN graph[w[i-1]] /\ graph[w[i-1]][w[i]] \in Nat
                            /\ s.cost[w[i-1]] + graph[w[i-1]][w[i]] <= s.cost[w[i]]
         /\ \A i \in 0..k : s.cost[w[i]] <= s.cost[w[k]]
<1>1. /\ k \in Nat /\ w \in [0..k -> DOMAIN s.cost] /\ w[0] = start
      /\ \A i \in 1..k : s.from[w[i]] = {w[i-1]}
  BY DEF Leads
<1>2. s.cost \in [DOMAIN s.cost -> Nat] /\ DOMAIN s.cost \subseteq DOMAIN graph
  BY SearchFields DEF SearchInv
<1>3. ASSUME NEW i \in 1..k
      PROVE  /\ w[i] \in DOMAIN graph[w[i-1]] /\ graph[w[i-1]][w[i]] \in Nat
             /\ s.cost[w[i-1]] + graph[w[i-1]][w[i]] <= s.cost[w[i]]
  <2>1. i \in 0..k /\ i - 1 \in 0..k
    BY <1>1
  <2>2. w[i] \in DOMAIN s.cost /\ w[i-1] \in DOMAIN s.cost /\ s.from[w[i]] = {w[i-1]}
    BY <1>1, <2>1
  <2>3. s.from[start] = {}
    BY DEF SearchInv
  <2>4. w[i] # start
    BY <2>2, <2>3
  <2>5. PICK x \in DOMAIN s.cost : s.from[w[i]] = {x} /\ w[i] \in DOMAIN graph[x]
                                   /\ s.cost[x] + graph[x][w[i]] <= s.cost[w[i]]
    BY <2>2, <2>4 DEF SearchInv
  <2>6. x = w[i-1]
    BY <2>2, <2>5
  <2>7. graph[x][w[i]] \in Nat
    BY <1>2, <2>5 DEF IsGraph
  <2> QED  BY <2>5, <2>6, <2>7
<1> DEFINE T == {j \in 0..k : s.cost[w[k-j]] <= s.cost[w[k]]}
<1>4. 0 \in T
  <2>1. k - 0 = k /\ k \in 0..k
    BY <1>1
  <2>2. s.cost[w[k]] \in Nat
    BY <1>1, <1>2, <2>1
  <2> QED  BY <1>1, <2>1, <2>2
<1>5. ASSUME NEW j \in 0..(k-1), j \in T PROVE j + 1 \in T
  <2>1. k - j \in 1..k /\ k - (j + 1) = (k - j) - 1 /\ k - j \in 0..k /\ (k - j) - 1 \in 0..k
        /\ j + 1 \in 0..k /\ k \in 0..k
    BY <1>1
  <2> DEFINE b == w[k-j]
             a == w[(k-j)-1]
  <2>2. s.cost[a] + graph[a][b] <= s.cost[b] /\ graph[a][b] \in Nat
    BY <1>3, <2>1
  <2>3. s.cost[a] \in Nat /\ s.cost[b] \in Nat /\ s.cost[w[k]] \in Nat /\ s.cost[b] <= s.cost[w[k]]
    BY <1>1, <1>2, <1>5, <2>1
  <2> HIDE DEF a, b
  <2>4. s.cost[a] <= s.cost[w[k]]
    BY <2>2, <2>3
  <2> QED  BY <2>1, <2>4 DEF a
<1>6. \A j \in 0..k : j \in T
  <2> HIDE DEF T
  <2> QED  BY <1>1, <1>4, <1>5, UpTo
<1>7. ASSUME NEW i \in 0..k PROVE s.cost[w[i]] <= s.cost[w[k]]
  <2>1. k - i \in 0..k /\ k - (k - i) = i
    BY <1>1
  <2> QED  BY <1>6, <2>1
<1> QED  BY <1>3, <1>7

LEMMA GoalTurn ==
  ASSUME NEW graph, IsGraph(graph), NEW start \in DOMAIN graph, NEW goals,
         NEW estimate \in [DOMAIN graph -> Nat], Admissible(graph, goals, estimate),
         NEW s, SearchInv(graph, start, goals, estimate, s), s.queue # {}, s.final = {},
         Popped(s)[1] \in goals
  PROVE  SearchInv(graph, start, goals, estimate, Turn(graph, s, goals, estimate))
<1> DEFINE q == Popped(s)
           n == q[1]
           t == [s EXCEPT !.queue = @ \ {q}, !.final = {n}]
<1>1. s \in SearchState(graph)
  BY DEF SearchInv
<1>2. q \in s.queue /\ \A r \in s.queue : q[2] <= r[2]
  BY <1>1, PoppedIsLeast
<1>3. /\ s.queue \subseteq (DOMAIN graph) \X Nat /\ s.cost \in [DOMAIN s.cost -> Nat]
      /\ DOMAIN s.cost \subseteq DOMAIN graph
  BY <1>1, SearchFields
<1>4. n \in DOMAIN s.cost /\ s.cost[n] <= q[2] /\ n \in goals /\ q[2] \in Nat
  BY <1>2, <1>3 DEF SearchInv
<1>5. Turn(graph, s, goals, estimate) = t
  BY DEF Turn
<1>6. /\ t.queue = s.queue \ {q} /\ t.cost = s.cost /\ t.from = s.from /\ t.final = {n}
      /\ t \in SearchState(graph)
  BY <1>1, <1>3, <1>4 DEF SearchState
<1> HIDE DEF q, n, t
<1>7. Cheapest(graph, start, goals, t, n)
  <2> SUFFICES ASSUME NEW k, NEW w, NEW c, IsWalk(graph, k, w, c), w[0] = start, w[k] \in goals
               PROVE  s.cost[n] <= c[k]
    BY <1>6 DEF Cheapest
  <2>1. PICK i \in 0..k : w[i] \in DOMAIN s.cost /\ s.cost[w[i]] <= c[i] /\ Queued(s, estimate, w[i])
    BY SomeWaits
  <2>2. estimate[w[i]] <= c[k] - c[i]
    BY AdmissibleAlong
  <2>3. PICK p \in Nat : <<w[i], p>> \in s.queue /\ p <= s.cost[w[i]] + estimate[w[i]]
    BY <2>1 DEF Queued
  <2>4. q[2] <= p
    <3>1. <<w[i], p>>[2] = p
      OBVIOUS
    <3> QED  BY <1>2, <2>3, <3>1
  <2>5. k \in Nat /\ w \in [0..k -> DOMAIN graph] /\ c \in [0..k -> Int]
    BY DEF IsWalk
  <2>6. c[i] \in Int /\ c[k] \in Int /\ estimate[w[i]] \in Nat /\ s.cost[w[i]] \in Nat /\ s.cost[n] \in Nat
    BY <1>3, <1>4, <2>1, <2>5
  <2> QED  BY <1>4, <2>1, <2>2, <2>3, <2>4, <2>6
<1>8. \A k, w : Leads(t, start, k, w) <=> Leads(s, start, k, w)
  BY <1>6 DEF Leads
<1>9. SearchInv(graph, start, goals, estimate, t)
  <2>1. \A r \in t.queue : r[1] \in DOMAIN t.cost /\ t.cost[r[1]] <= r[2]
    BY <1>6 DEF SearchInv
  <2>2. t.final # {} /\ \E m \in goals \cap DOMAIN t.cost :
            t.final = {m} /\ Cheapest(graph, start, goals, t, m)
    BY <1>4, <1>6, <1>7
  <2>3. \A m \in DOMAIN t.cost : \E k, w : Leads(t, start, k, w) /\ w[k] = m
    BY <1>6, <1>8 DEF SearchInv
  <2> QED  BY <1>6, <2>1, <2>2, <2>3 DEF SearchInv
<1> QED  BY <1>5, <1>9

(* A turn that meets no goal: what it settles of the neighbours of the node *)
(* it takes out, and what becomes of the search.                            *)
TurnMade(graph, estimate, s, q, n, near, t) ==
    /\ s \in SearchState(graph) /\ q \in s.queue
    /\ s.queue \subseteq (DOMAIN graph) \X Nat /\ s.cost \in [DOMAIN s.cost -> Nat]
    /\ DOMAIN s.cost \subseteq DOMAIN graph /\ DOMAIN s.from = DOMAIN s.cost
    /\ s.from \in [DOMAIN s.cost -> SUBSET DOMAIN graph]
    /\ n \in DOMAIN s.cost /\ n \in DOMAIN graph /\ s.cost[n] \in Nat
    /\ near \subseteq DOMAIN graph[n] /\ near \subseteq DOMAIN graph
    /\ \A m \in DOMAIN graph[n] :
           /\ graph[n][m] \in Nat
           /\ m \notin near => m \in DOMAIN s.cost /\ s.cost[m] <= s.cost[n] + graph[n][m]
           /\ m \in near /\ m \in DOMAIN s.cost => s.cost[n] + graph[n][m] < s.cost[m]
    /\ t.final = s.final
    /\ t = [queue |-> t.queue, cost |-> t.cost, from |-> t.from, final |-> t.final]
    /\ DOMAIN t.cost = DOMAIN s.cost \cup near
    /\ \A m \in near : t.cost[m] = s.cost[n] + graph[n][m]
    /\ \A m \in DOMAIN s.cost \ near : t.cost[m] = s.cost[m]
    /\ t.cost \in [DOMAIN s.cost \cup near -> Nat]
    /\ DOMAIN t.from = DOMAIN s.cost \cup near
    /\ \A m \in near : t.from[m] = {n}
    /\ \A m \in DOMAIN s.cost \ near : t.from[m] = s.from[m]
    /\ t.from \in [DOMAIN s.cost \cup near -> SUBSET DOMAIN graph]
    /\ t.queue = (s.queue \ {q}) \cup {<<m, t.cost[m] + estimate[m]>> : m \in near}
    /\ \A m \in DOMAIN s.cost : t.cost[m] <= s.cost[m] /\ t.cost[m] \in Nat /\ s.cost[m] \in Nat

LEMMA TurnMakes ==
  ASSUME NEW graph, IsGraph(graph), NEW start \in DOMAIN graph, NEW goals,
         NEW estimate \in [DOMAIN graph -> Nat],
         NEW s, SearchInv(graph, start, goals, estimate, s), s.queue # {}, s.final = {},
         Popped(s)[1] \notin goals
  PROVE  TurnMade(graph, estimate, s, Popped(s), Popped(s)[1], Nearer(graph, s, Popped(s)[1]),
                  Turn(graph, s, goals, estimate))
<1> DEFINE q == Popped(s)
           n == q[1]
           near == Nearer(graph, s, n)
           t == Turn(graph, s, goals, estimate)
           cost == [m \in near |-> s.cost[n] + graph[n][m]]
           a == (s.queue \ {q}) \cup {<<m, cost[m] + estimate[m]>> : m \in near}
           b == Assigned(cost, s.cost)
           c == Assigned([m \in near |-> {n}], s.from)
<1>1. s \in SearchState(graph)
  BY DEF SearchInv
<1>2. q \in s.queue
  BY <1>1, PoppedIsLeast
<1>3. /\ s.queue \subseteq (DOMAIN graph) \X Nat /\ s.cost \in [DOMAIN s.cost -> Nat]
      /\ DOMAIN s.cost \subseteq DOMAIN graph /\ DOMAIN s.from = DOMAIN s.cost
      /\ s.from \in [DOMAIN s.cost -> SUBSET DOMAIN graph]
  BY <1>1, SearchFields DEF SearchInv
<1>4. n \in DOMAIN s.cost /\ n \in DOMAIN graph /\ s.cost[n] \in Nat
  BY <1>2, <1>3 DEF SearchInv
<1>5. t = [s EXCEPT !.queue = a, !.cost = b, !.from = c]
  BY DEF Turn
<1>6. /\ t.queue = a /\ t.cost = b /\ t.from = c /\ t.final = s.final
      /\ t = [queue |-> t.queue, cost |-> t.cost, from |-> t.from, final |-> t.final]
  <2>1. s \in [queue : SUBSET ((DOMAIN graph) \X Nat),
               cost : UNION {[D -> Nat] : D \in SUBSET DOMAIN graph},
               from : UNION {[D -> SUBSET DOMAIN graph] : D \in SUBSET DOMAIN graph},
               final : SUBSET DOMAIN graph]
    BY <1>1 DEF SearchState
  <2> HIDE DEF a, b, c, t
  <2> QED  BY <1>5, <2>1
<1> HIDE DEF t
<1>7. near \subseteq DOMAIN graph[n] /\ near \subseteq DOMAIN graph
  BY <1>4 DEF Nearer, NeighborsOf, IsGraph
<1>8. \A m \in DOMAIN graph[n] :
          /\ graph[n][m] \in Nat
          /\ m \notin near => m \in DOMAIN s.cost /\ s.cost[m] <= s.cost[n] + graph[n][m]
          /\ m \in near /\ m \in DOMAIN s.cost => s.cost[n] + graph[n][m] < s.cost[m]
  <2> SUFFICES ASSUME NEW m \in DOMAIN graph[n]
               PROVE  /\ graph[n][m] \in Nat
                      /\ m \notin near => m \in DOMAIN s.cost /\ s.cost[m] <= s.cost[n] + graph[n][m]
                      /\ m \in near /\ m \in DOMAIN s.cost => s.cost[n] + graph[n][m] < s.cost[m]
    OBVIOUS
  <2>1. graph[n][m] \in Nat
    BY <1>4 DEF IsGraph
  <2>2. m \in near <=> (m \in DOMAIN s.cost => s.cost[n] + graph[n][m] < s.cost[m])
    BY DEF Nearer, NeighborsOf
  <2>3. m \in DOMAIN s.cost => s.cost[m] \in Nat
    BY <1>3
  <2> HIDE DEF q, n, near
  <2> QED  BY <1>4, <2>1, <2>2, <2>3
<1> HIDE DEF near, n, q
<1>9. \A m \in near : cost[m] = s.cost[n] + graph[n][m] /\ cost[m] \in Nat
  BY <1>4, <1>7, <1>8
<1>10. cost \in [near -> Nat]
  BY <1>9
<1> HIDE DEF cost
<1>11. /\ DOMAIN t.cost = DOMAIN s.cost \cup near
       /\ \A m \in near : t.cost[m] = s.cost[n] + graph[n][m]
       /\ \A m \in DOMAIN s.cost \ near : t.cost[m] = s.cost[m]
       /\ t.cost \in [DOMAIN s.cost \cup near -> Nat]
  <2>1. t.cost = [m \in near \cup DOMAIN s.cost |-> IF m \in near THEN cost[m] ELSE s.cost[m]]
    BY <1>6, <1>10 DEF Assigned
  <2> QED  BY <1>3, <1>9, <2>1
<1>12. /\ DOMAIN t.from = DOMAIN s.cost \cup near
       /\ \A m \in near : t.from[m] = {n}
       /\ \A m \in DOMAIN s.cost \ near : t.from[m] = s.from[m]
       /\ t.from \in [DOMAIN s.cost \cup near -> SUBSET DOMAIN graph]
  <2>1. t.from = [m \in near \cup DOMAIN s.from |-> IF m \in near THEN {n} ELSE s.from[m]]
    BY <1>6 DEF Assigned
  <2> QED  BY <1>3, <1>4, <2>1
<1>13. t.queue = (s.queue \ {q}) \cup {<<m, t.cost[m] + estimate[m]>> : m \in near}
  BY <1>6, <1>9, <1>11
<1>14. \A m \in DOMAIN s.cost : t.cost[m] <= s.cost[m] /\ t.cost[m] \in Nat /\ s.cost[m] \in Nat
  <2> SUFFICES ASSUME NEW m \in DOMAIN s.cost
               PROVE  t.cost[m] <= s.cost[m] /\ t.cost[m] \in Nat /\ s.cost[m] \in Nat
    OBVIOUS
  <2>1. t.cost[m] \in Nat /\ s.cost[m] \in Nat
    BY <1>3, <1>11
  <2>2. CASE m \in near
    BY <1>7, <1>8, <1>11, <2>1, <2>2
  <2>3. CASE m \notin near
    BY <1>11, <2>1, <2>3
  <2> QED  BY <2>1, <2>2, <2>3
<1>15. TurnMade(graph, estimate, s, q, n, near, t)
  BY <1>1, <1>2, <1>3, <1>4, <1>6, <1>7, <1>8, <1>11, <1>12, <1>13, <1>14 DEF TurnMade
<1> QED  BY <1>15 DEF q, n, near, t

LEMMA OtherTurn ==
  ASSUME NEW graph, IsGraph(graph), NEW start \in DOMAIN graph, NEW goals,
         NEW estimate \in [DOMAIN graph -> Nat],
         NEW s, SearchInv(graph, start, goals, estimate, s), s.queue # {}, s.final = {},
         Popped(s)[1] \notin goals
  PROVE  SearchInv(graph, start, goals, estimate, Turn(graph, s, goals, estimate))
<1> DEFINE q == Popped(s)
           n == q[1]
           near == Nearer(graph, s, n)
           t == Turn(graph, s, goals, estimate)
<1>0. n \notin goals
  OBVIOUS
<1>2. TurnMade(graph, estimate, s, q, n, near, t)
  BY TurnMakes
<1> HIDE DEF q, n, near, t
<1>1. s \in SearchState(graph)
  BY <1>2 DEF TurnMade
<1>3. /\ s.queue \subseteq (DOMAIN graph) \X Nat /\ s.cost \in [DOMAIN s.cost -> Nat]
      /\ DOMAIN s.cost \subseteq DOMAIN graph /\ DOMAIN s.from = DOMAIN s.cost
      /\ s.from \in [DOMAIN s.cost -> SUBSET DOMAIN graph]
  BY <1>2 DEF TurnMade
<1>4. n \in DOMAIN s.cost /\ n \in DOMAIN graph /\ s.cost[n] \in Nat
  BY <1>2 DEF TurnMade
<1>6. t.final = s.final /\ t = [queue |-> t.queue, cost |-> t.cost, from |-> t.from, final |-> t.final]
  BY <1>2 DEF TurnMade
<1>7. near \subseteq DOMAIN graph[n] /\ near \subseteq DOMAIN graph
  BY <1>2 DEF TurnMade
<1>8. \A m \in DOMAIN graph[n] :
          /\ graph[n][m] \in Nat
          /\ m \notin near => m \in DOMAIN s.cost /\ s.cost[m] <= s.cost[n] + graph[n][m]
          /\ m \in near /\ m \in DOMAIN s.cost => s.cost[n] + graph[n][m] < s.cost[m]
  BY <1>2 DEF TurnMade
<1>11. /\ DOMAIN t.cost = DOMAIN s.cost \cup near
       /\ \A m \in near : t.cost[m] = s.cost[n] + graph[n][m]
       /\ \A m \in DOMAIN s.cost \ near : t.cost[m] = s.cost[m]
       /\ t.cost \in [DOMAIN s.cost \cup near -> Nat]
  BY <1>2 DEF TurnMade
<1>12. /\ DOMAIN t.from = DOMAIN s.cost \cup near
       /\ \A m \in near : t.from[m] = {n}
       /\ \A m \in DOMAIN s.cost \ near : t.from[m] = s.from[m]
       /\ t.from \in [DOMAIN s.cost \cup near -> SUBSET DOMAIN graph]
  BY <1>2 DEF TurnMade
<1>13. t.queue = (s.queue \ {q}) \cup {<<m, t.cost[m] + estimate[m]>> : m \in near}
  BY <1>2 DEF TurnMade
<1>14. n \notin near /\ start \notin near
  <2>1. start \in DOMAIN s.cost /\ s.cost[start] = 0
    BY DEF SearchInv
  <2>2. ASSUME n \in near PROVE FALSE
    <3>1. s.cost[n] + graph[n][n] < s.cost[n] /\ graph[n][n] \in Nat
      BY <1>4, <1>7, <1>8, <2>2
    <3> QED  BY <1>4, <3>1
  <2>3. ASSUME start \in near PROVE FALSE
    <3>1. s.cost[n] + graph[n][start] < 0 /\ graph[n][start] \in Nat
      BY <1>7, <1>8, <2>1, <2>3
    <3> QED  BY <1>4, <3>1
  <2> QED  BY <2>2, <2>3
<1>15. \A m \in DOMAIN s.cost : t.cost[m] <= s.cost[m] /\ t.cost[m] \in Nat /\ s.cost[m] \in Nat
  BY <1>2 DEF TurnMade
<1>16. t.cost[n] = s.cost[n] /\ n \in DOMAIN t.cost
  BY <1>4, <1>11, <1>14
<1>17. t \in SearchState(graph)
  <2>1. DOMAIN s.cost \cup near \in SUBSET DOMAIN graph
    BY <1>3, <1>7
  <2>2. {<<m, t.cost[m] + estimate[m]>> : m \in near} \subseteq (DOMAIN graph) \X Nat
    <3> SUFFICES ASSUME NEW m \in near PROVE <<m, t.cost[m] + estimate[m]>> \in (DOMAIN graph) \X Nat
      OBVIOUS
    <3>1. m \in DOMAIN graph
      BY <1>7
    <3>2. t.cost[m] \in Nat /\ estimate[m] \in Nat
      BY <1>11, <3>1
    <3>3. t.cost[m] + estimate[m] \in Nat
      BY <3>2
    <3> QED  BY <3>1, <3>3
  <2>3. t.queue \subseteq (DOMAIN graph) \X Nat /\ t.final \subseteq DOMAIN graph
    BY <1>3, <1>6, <1>13, <2>2
  <2>4. t.cost \in UNION {[D -> Nat] : D \in SUBSET DOMAIN graph}
    BY <1>11, <2>1
  <2>5. t.from \in UNION {[D -> SUBSET DOMAIN graph] : D \in SUBSET DOMAIN graph}
    BY <1>12, <2>1
  <2> QED  BY <1>6, <2>3, <2>4, <2>5 DEF SearchState
<1>18. start \in DOMAIN t.cost /\ t.cost[start] = 0 /\ t.from[start] = {} /\ DOMAIN t.from = DOMAIN t.cost
  <2>1. start \in DOMAIN s.cost /\ s.cost[start] = 0 /\ s.from[start] = {}
    BY DEF SearchInv
  <2> QED  BY <1>11, <1>12, <1>14, <2>1
<1>19. ASSUME NEW r \in t.queue PROVE r[1] \in DOMAIN t.cost /\ t.cost[r[1]] <= r[2]
  <2>1. CASE r \in s.queue
    <3>1. r[1] \in DOMAIN s.cost /\ s.cost[r[1]] <= r[2] /\ r[2] \in Nat
      BY <1>3, <2>1 DEF SearchInv
    <3>2. t.cost[r[1]] <= s.cost[r[1]] /\ t.cost[r[1]] \in Nat /\ s.cost[r[1]] \in Nat
      BY <1>15, <3>1
    <3>3. t.cost[r[1]] <= r[2]
      BY <3>1, <3>2
    <3> QED  BY <1>11, <3>1, <3>3
  <2>2. CASE r \notin s.queue
    <3>1. PICK m \in near : r = <<m, t.cost[m] + estimate[m]>>
      BY <1>13, <2>2
    <3>2. t.cost[m] \in Nat /\ estimate[m] \in Nat
      BY <1>7, <1>11
    <3>3. t.cost[m] <= t.cost[m] + estimate[m]
      BY <3>2
    <3> QED  BY <1>11, <3>1, <3>3
  <2> QED  BY <2>1, <2>2
<1>20. ASSUME NEW x \in DOMAIN t.cost
       PROVE  Queued(t, estimate, x) \/ (x \notin goals /\ Expanded(graph, t, x))
  <2>1. CASE x \in near
    <3>1. t.cost[x] \in Nat /\ estimate[x] \in Nat
      BY <1>7, <1>11, <2>1
    <3>2. t.cost[x] + estimate[x] \in Nat /\ t.cost[x] + estimate[x] <= t.cost[x] + estimate[x]
      BY <3>1
    <3>3. <<x, t.cost[x] + estimate[x]>> \in t.queue
      BY <1>13, <2>1
    <3> QED  BY <3>2, <3>3 DEF Queued
  <2>2. CASE x = n
    <3>1. \A m \in DOMAIN graph[n] : m \in DOMAIN t.cost /\ t.cost[m] <= t.cost[n] + graph[n][m]
      <4> SUFFICES ASSUME NEW m \in DOMAIN graph[n]
                   PROVE  m \in DOMAIN t.cost /\ t.cost[m] <= t.cost[n] + graph[n][m]
        OBVIOUS
      <4>1. graph[n][m] \in Nat
        BY <1>8
      <4>2. CASE m \in near
        BY <1>4, <1>11, <1>16, <4>1, <4>2
      <4>3. CASE m \notin near
        BY <1>8, <1>11, <1>16, <4>3
      <4> QED  BY <4>2, <4>3
    <3> QED  BY <1>0, <2>2, <3>1 DEF Expanded
  <2>3. CASE x \notin near /\ x # n
    <3>1. x \in DOMAIN s.cost /\ t.cost[x] = s.cost[x]
      BY <1>11, <2>3
    <3>2. Queued(s, estimate, x) \/ (x \notin goals /\ Expanded(graph, s, x))
      BY <3>1 DEF SearchInv
    <3>3. CASE Queued(s, estimate, x)
      <4>1. PICK p \in Nat : <<x, p>> \in s.queue /\ p <= s.cost[x] + estimate[x]
        BY <3>3 DEF Queued
      <4>2. <<x, p>> # q
        BY <2>3 DEF n
      <4>3. <<x, p>> \in t.queue
        BY <1>13, <4>1, <4>2
      <4> QED  BY <3>1, <4>1, <4>3 DEF Queued
    <3>4. CASE x \notin goals /\ Expanded(graph, s, x)
      <4>1. \A m \in DOMAIN graph[x] : m \in DOMAIN t.cost /\ t.cost[m] <= t.cost[x] + graph[x][m]
        <5> SUFFICES ASSUME NEW m \in DOMAIN graph[x]
                     PROVE  m \in DOMAIN t.cost /\ t.cost[m] <= t.cost[x] + graph[x][m]
          OBVIOUS
        <5>1. m \in DOMAIN s.cost /\ s.cost[m] <= s.cost[x] + graph[x][m]
          BY <3>4 DEF Expanded
        <5>2. t.cost[m] <= s.cost[m] /\ t.cost[m] \in Nat /\ s.cost[m] \in Nat /\ s.cost[x] \in Nat
          BY <1>15, <3>1, <5>1
        <5>3. graph[x][m] \in Nat
          BY <1>3, <3>1 DEF IsGraph
        <5>4. t.cost[m] <= t.cost[x] + graph[x][m]
          BY <3>1, <5>1, <5>2, <5>3
        <5> QED  BY <1>11, <5>1, <5>4
      <4> QED  BY <3>4, <4>1 DEF Expanded
    <3> QED  BY <3>2, <3>3, <3>4
  <2> QED  BY <2>1, <2>2, <2>3
<1>21. ASSUME NEW m \in DOMAIN t.cost \ {start}
       PROVE  \E x \in DOMAIN t.cost :
                  t.from[m] = {x} /\ m \in DOMAIN graph[x] /\ t.cost[x] + graph[x][m] <= t.cost[m]
  <2>1. CASE m \in near
    <3>1. graph[n][m] \in Nat /\ m \in DOMAIN graph[n] /\ t.from[m] = {n}
      BY <1>7, <1>8, <1>12, <2>1
    <3>2. t.cost[n] + graph[n][m] <= t.cost[m]
      BY <1>4, <1>11, <1>16, <2>1, <3>1
    <3> QED  BY <1>16, <3>1, <3>2
  <2>2. CASE m \notin near
    <3>1. m \in DOMAIN s.cost \ {start} /\ t.cost[m] = s.cost[m] /\ t.from[m] = s.from[m]
      BY <1>11, <1>12, <2>2
    <3>2. PICK x \in DOMAIN s.cost :
              s.from[m] = {x} /\ m \in DOMAIN graph[x] /\ s.cost[x] + graph[x][m] <= s.cost[m]
      BY <3>1 DEF SearchInv
    <3>3. t.cost[x] <= s.cost[x] /\ t.cost[x] \in Nat /\ s.cost[x] \in Nat /\ s.cost[m] \in Nat
      BY <1>15, <3>1
    <3>4. graph[x][m] \in Nat
      BY <1>3, <3>2 DEF IsGraph
    <3>5. t.cost[x] + graph[x][m] <= t.cost[m]
      BY <3>1, <3>2, <3>3, <3>4
    <3> QED  BY <1>11, <3>1, <3>2, <3>5
  <2> QED  BY <2>1, <2>2
<1>22. PICK l, u : Leads(t, start, l, u) /\ u[l] = n
  <2>1. PICK l, u : Leads(s, start, l, u) /\ u[l] = n
    BY <1>4 DEF SearchInv
  <2>2. l \in Nat /\ u \in [0..l -> DOMAIN s.cost] /\ u[0] = start /\ \A i \in 1..l : s.from[u[i]] = {u[i-1]}
    BY <2>1 DEF Leads
  <2>3. ASSUME NEW i \in 0..l PROVE u[i] \notin near
    <3> SUFFICES ASSUME u[i] \in near PROVE FALSE
      OBVIOUS
    <3>1. s.cost[u[i]] <= s.cost[n]
      BY <2>1, LeadsUp
    <3>2. u[i] \in DOMAIN s.cost
      BY <2>2
    <3>3. s.cost[n] + graph[n][u[i]] < s.cost[u[i]] /\ graph[n][u[i]] \in Nat /\ s.cost[u[i]] \in Nat
      BY <1>3, <1>7, <1>8, <3>2
    <3> QED  BY <1>4, <3>1, <3>3
  <2>4. \A i \in 1..l : t.from[u[i]] = {u[i-1]}
    <3> SUFFICES ASSUME NEW i \in 1..l PROVE t.from[u[i]] = {u[i-1]}
      OBVIOUS
    <3>1. i \in 0..l
      BY <2>2
    <3> QED  BY <1>12, <2>2, <2>3, <3>1
  <2>5. u \in [0..l -> DOMAIN t.cost]
    BY <1>11, <2>2
  <2> QED  BY <2>1, <2>2, <2>4, <2>5 DEF Leads
<1>23. ASSUME NEW m \in near PROVE \E k, w : Leads(t, start, k, w) /\ w[k] = m
  <2>1. m \in DOMAIN t.cost /\ t.from[m] = {u[l]}
    BY <1>11, <1>12, <1>22
  <2> QED  BY <1>22, <2>1, LeadsOn
<1>24. ASSUME NEW m \in DOMAIN s.cost PROVE \E k, w : Leads(t, start, k, w) /\ w[k] = m
  <2>1. PICK k, w : Leads(s, start, k, w) /\ w[k] = m
    BY DEF SearchInv
  <2>2. k \in Nat /\ w \in [0..k -> DOMAIN s.cost] /\ w[0] = start /\ \A i \in 1..k : s.from[w[i]] = {w[i-1]}
    BY <2>1 DEF Leads
  <2> DEFINE T == {i \in 0..k : \E j, v : Leads(t, start, j, v) /\ v[j] = w[i]}
  <2>3. 0 \in T
    <3> DEFINE v == [i \in 0..0 |-> start]
    <3>1. Leads(t, start, 0, v) /\ v[0] = start
      BY <1>18 DEF Leads
    <3> HIDE DEF v
    <3> QED  BY <2>2, <3>1
  <2>4. ASSUME NEW i \in 0..(k-1), i \in T PROVE i + 1 \in T
    <3>1. i + 1 \in 1..k /\ i + 1 \in 0..k /\ (i + 1) - 1 = i
      BY <2>2
    <3>2. w[i+1] \in DOMAIN s.cost /\ s.from[w[i+1]] = {w[i]}
      BY <2>2, <3>1
    <3>3. CASE w[i+1] \in near
      BY <1>23, <3>1, <3>3
    <3>4. CASE w[i+1] \notin near
      <4>1. PICK j, v : Leads(t, start, j, v) /\ v[j] = w[i]
        BY <2>4
      <4>2. w[i+1] \in DOMAIN t.cost /\ t.from[w[i+1]] = {v[j]}
        BY <1>11, <1>12, <3>2, <3>4, <4>1
      <4>3. \E j2, v2 : Leads(t, start, j2, v2) /\ v2[j2] = w[i+1]
        BY <4>1, <4>2, LeadsOn
      <4> QED  BY <3>1, <4>3
    <3> QED  BY <3>3, <3>4
  <2>5. \A i \in 0..k : i \in T
    <3> HIDE DEF T
    <3> QED  BY <2>2, <2>3, <2>4, UpTo
  <2>6. k \in T
    BY <2>2, <2>5
  <2> QED  BY <2>1, <2>6
<1>25. \A m \in DOMAIN t.cost : \E k, w : Leads(t, start, k, w) /\ w[k] = m
  BY <1>11, <1>23, <1>24
<1>26. SearchInv(graph, start, goals, estimate, t)
  BY <1>6, <1>17, <1>18, <1>19, <1>20, <1>21, <1>25 DEF SearchInv
<1> QED  BY <1>26 DEF t

(* What a search makes of one state after another until it is over. *)
Onward(graph, goals, estimate, s) ==
    IF Over(s) THEN s ELSE Turn(graph, s, goals, estimate)

LEMMA SearchRuns ==
  ASSUME NEW graph, IsGraph(graph), NEW start \in DOMAIN graph, NEW goals,
         NEW estimate \in [DOMAIN graph -> Nat], Admissible(graph, goals, estimate), NEW turns \in Nat
  PROVE  \E after : /\ after[0] = Begin(start) /\ after[turns] = Search(graph, start, goals, estimate, turns)
                    /\ \A k \in 1..turns : after[k] = Onward(graph, goals, estimate, after[k-1])
                    /\ \A k \in 0..turns : SearchInv(graph, start, goals, estimate, after[k])
<1> DEFINE S == {s \in SearchState(graph) : SearchInv(graph, start, goals, estimate, s)}
           Do(s) == IF Over(s) THEN s ELSE Turn(graph, s, goals, estimate)
           All(h) == [k \in 0..turns |->
                         IF k = 0 THEN Begin(start)
                         ELSE LET before == h[k-1]
                              IN  IF Over(before) THEN before ELSE Turn(graph, before, goals, estimate)]
           F == [k \in 1..turns |-> [s \in S |-> Do(s)]]
<1>1. Begin(start) \in S
  <2>1. SearchInv(graph, start, goals, estimate, Begin(start))
    BY SearchBegins
  <2> QED  BY <2>1 DEF SearchInv
<1>2. ASSUME NEW s \in S PROVE Do(s) \in S
  <2>1. CASE Over(s)
    BY <2>1
  <2>2. CASE ~Over(s)
    <3>1. s.queue # {} /\ s.final = {} /\ SearchInv(graph, start, goals, estimate, s)
      BY <2>2 DEF Over
    <3>2. SearchInv(graph, start, goals, estimate, Turn(graph, s, goals, estimate))
      BY <3>1, GoalTurn, OtherTurn
    <3> QED  BY <2>2, <3>2 DEF SearchInv
  <2> QED  BY <2>1, <2>2
<1> HIDE DEF S
<1>3. \E h : h = All(h)
  <2>1. F \in [1..turns -> [S -> S]]
    <3> HIDE DEF Do
    <3> QED  BY <1>2
  <2>2. \A k \in 1..turns : \A s \in S : F[k][s] = Do(s)
    OBVIOUS
  <2> HIDE DEF F
  <2>3. \E h : Steps(turns, S, Begin(start), F, h)
    BY <1>1, <2>1, StepByStep
  <2>4. PICK h : Steps(turns, S, Begin(start), F, h)
    BY <2>3
  <2>5. \A k \in 0..turns : h[k] = IF k = 0 THEN Begin(start) ELSE Do(h[k-1])
    <3> SUFFICES ASSUME NEW k \in 0..turns, k # 0 PROVE h[k] = Do(h[k-1])
      BY <2>4 DEF Steps
    <3>1. k \in 1..turns /\ k - 1 \in 0..turns
      OBVIOUS
    <3>2. h[k-1] \in S /\ h[k] = F[k][h[k-1]]
      BY <2>4, <3>1 DEF Steps
    <3> QED  BY <2>2, <3>1, <3>2
  <2>6. h = [k \in 0..turns |-> h[k]]
    BY <2>4 DEF Steps
  <2>7. h = All(h)
    BY <2>5, <2>6
  <2> QED  BY <2>7
<1> DEFINE after == CHOOSE h : h = All(h)
<1>4. after = All(after)
  BY <1>3
<1>5. Search(graph, start, goals, estimate, turns) = after[turns]
  BY DEF Search
<1> HIDE DEF after
<1>6. after[0] = Begin(start) /\ \A k \in 1..turns : after[k] = Do(after[k-1])
  BY <1>4
<1> HIDE DEF Do
<1> DEFINE T == {k \in 0..turns : after[k] \in S}
<1>7. 0 \in T
  BY <1>1, <1>6
<1>8. ASSUME NEW k \in 0..(turns-1), k \in T PROVE k + 1 \in T
  <2>1. k + 1 \in 1..turns /\ k + 1 \in 0..turns /\ (k + 1) - 1 = k
    OBVIOUS
  <2>2. after[k+1] = Do(after[k]) /\ after[k] \in S
    BY <1>6, <1>8, <2>1
  <2> QED  BY <1>2, <2>1, <2>2
<1>9. \A k \in 0..turns : k \in T
  <2> HIDE DEF T
  <2> QED  BY <1>7, <1>8, UpTo
<1>10. \A k \in 0..turns : SearchInv(graph, start, goals, estimate, after[k])
  BY <1>9 DEF S
<1>11. \A s : Do(s) = Onward(graph, goals, estimate, s)
  BY DEF Do, Onward
<1> QED  BY <1>5, <1>6, <1>10, <1>11

LEMMA SearchKeeps ==
  ASSUME NEW graph, IsGraph(graph), NEW start \in DOMAIN graph, NEW goals,
         NEW estimate \in [DOMAIN graph -> Nat], Admissible(graph, goals, estimate), NEW turns \in Nat
  PROVE  SearchInv(graph, start, goals, estimate, Search(graph, start, goals, estimate, turns))
<1>1. turns \in 0..turns
  OBVIOUS
<1> QED  BY <1>1, SearchRuns

(* With a turn more the search goes on from where it was. *)
LEMMA SearchGoesOn ==
  ASSUME NEW graph, IsGraph(graph), NEW start \in DOMAIN graph, NEW goals,
         NEW estimate \in [DOMAIN graph -> Nat], Admissible(graph, goals, estimate), NEW turns \in Nat
  PROVE  /\ Search(graph, start, goals, estimate, 0) = Begin(start)
         /\ Search(graph, start, goals, estimate, turns + 1)
                = Onward(graph, goals, estimate, Search(graph, start, goals, estimate, turns))
<1> DEFINE R(k) == Search(graph, start, goals, estimate, k)
           D(s) == Onward(graph, goals, estimate, s)
<1>1. turns + 1 \in Nat /\ turns + 1 \in 1..(turns + 1) /\ (turns + 1) - 1 = turns
  OBVIOUS
<1>2. PICK f : f[0] = Begin(start) /\ f[turns] = R(turns) /\ \A k \in 1..turns : f[k] = D(f[k-1])
  BY SearchRuns
<1>3. PICK g : g[0] = Begin(start) /\ g[turns+1] = R(turns + 1) /\ \A k \in 1..(turns+1) : g[k] = D(g[k-1])
  BY <1>1, SearchRuns
<1>4. R(0) = Begin(start)
  <2>1. 0 \in Nat
    OBVIOUS
  <2>2. PICK h : h[0] = Begin(start) /\ h[0] = R(0)
    BY <2>1, SearchRuns
  <2> QED  BY <2>2
<1> HIDE DEF R, D
<1> DEFINE T == {k \in 0..turns : f[k] = g[k]}
<1>5. 0 \in T
  BY <1>2, <1>3
<1>6. ASSUME NEW k \in 0..(turns-1), k \in T PROVE k + 1 \in T
  <2>1. k + 1 \in 1..turns /\ k + 1 \in 1..(turns+1) /\ k + 1 \in 0..turns /\ (k + 1) - 1 = k
    OBVIOUS
  <2>2. f[k+1] = D(f[k]) /\ g[k+1] = D(g[k]) /\ f[k] = g[k]
    BY <1>2, <1>3, <1>6, <2>1
  <2> QED  BY <2>1, <2>2
<1>7. \A k \in 0..turns : k \in T
  <2> HIDE DEF T
  <2> QED  BY <1>5, <1>6, UpTo
<1>8. f[turns] = g[turns]
  <2>1. turns \in 0..turns
    OBVIOUS
  <2>2. turns \in T
    BY <1>7, <2>1
  <2> QED  BY <2>2
<1>9. R(turns + 1) = D(R(turns))
  BY <1>1, <1>2, <1>3, <1>8
<1> QED  BY <1>4, <1>9 DEF R, D


LEMMA TimesMore ==
  ASSUME NEW a \in Nat, NEW b \in Nat, NEW c \in Nat, a <= b
  PROVE  a * c \in Nat /\ b * c \in Nat /\ a * c <= b * c /\ (a + 1) * c = a * c + c
<1>1. a * c \in Nat /\ b * c \in Nat /\ (a + 1) * c = a * c + c
  OBVIOUS
<1>2. b - a \in Nat /\ (b - a) * c \in Nat /\ b * c = a * c + (b - a) * c
  OBVIOUS
<1> QED  BY <1>1, <1>2

(* No edge is dearer than the dearest. *)
LEMMA DearestIs ==
  ASSUME NEW graph, IsGraph(graph), IsFiniteSet(DOMAIN graph)
  PROVE  /\ Dearest(graph) \in Nat
         /\ \A n \in DOMAIN graph : \A m \in DOMAIN graph[n] : graph[n][m] <= Dearest(graph)
<1> DEFINE E == Edges(graph)
           f == [e \in E |-> graph[e[1]][e[2]]]
           C == {graph[e[1]][e[2]] : e \in E}
           S == {0} \cup C
<1>1. E \in SUBSET ((DOMAIN graph) \X (DOMAIN graph)) /\ \A e \in E : e[2] \in DOMAIN graph[e[1]] /\ e[1] \in DOMAIN graph
  BY DEF Edges, NeighborsOf
<1>2. IsFiniteSet(E)
  BY <1>1, FS_Product, FS_Subset
<1>3. C \subseteq Nat
  BY <1>1 DEF IsGraph
<1>4. f \in Surjection(E, C)
  BY DEF Surjection
<1> HIDE DEF E, f
<1>5. IsFiniteSet(C)
  <2> HIDE DEF C
  <2> QED  BY <1>2, <1>4, FS_Surjection
<1>6. IsFiniteSet(S) /\ S \in SUBSET Nat /\ S # {}
  <2>1. IsFiniteSet({0})
    BY FS_Singleton
  <2>2. 0 \in S /\ S \subseteq Nat
    BY <1>3
  <2> HIDE DEF C
  <2>3. IsFiniteSet(S)
    BY <1>5, <2>1, FS_Union
  <2> QED  BY <2>2, <2>3
<1>7. Dearest(graph) = Max(S)
  BY DEF Dearest, E
<1>8. Max(S) \in S /\ \A y \in S : y <= Max(S)
  <2> HIDE DEF S
  <2> QED  BY <1>6, Highest
<1>9. ASSUME NEW n \in DOMAIN graph, NEW m \in DOMAIN graph[n] PROVE graph[n][m] \in S
  <2> DEFINE e == <<n, m>>
  <2>1. m \in DOMAIN graph /\ e \in E
    BY DEF IsGraph, Edges, NeighborsOf, E
  <2> QED  BY <2>1
<1> HIDE DEF S
<1> QED  BY <1>6, <1>7, <1>8, <1>9

(* What no cost found exceeds, and the costs that may still be found; with  *)
(* the queue they are used up.                                              *)
Most(graph) == (Cardinality(DOMAIN graph) - 1) * Dearest(graph)

Unspent(graph, s) ==
    {p \in (DOMAIN graph) \X (0..Most(graph)) : p[1] \in DOMAIN s.cost => p[2] < s.cost[p[1]]}

Spent(graph, s) ==
    /\ \A n \in DOMAIN s.cost : s.cost[n] + Dearest(graph) <= Cardinality(DOMAIN s.cost) * Dearest(graph)
    /\ IsFiniteSet(s.queue) /\ IsFiniteSet(Unspent(graph, s))

Left(graph, s) == Cardinality(Unspent(graph, s)) + Cardinality(s.queue)

LEMMA SizesAre ==
  ASSUME NEW graph, IsGraph(graph), IsFiniteSet(DOMAIN graph), NEW start \in DOMAIN graph
  PROVE  /\ Cardinality(DOMAIN graph) \in Nat /\ Cardinality(DOMAIN graph) - 1 \in Nat
         /\ Dearest(graph) \in Nat /\ Most(graph) \in Nat
         /\ EnoughTurns(graph) = (Cardinality(DOMAIN graph) - 1) * (Most(graph) + 1) + 1
         /\ EnoughTurns(graph) \in Nat
<1> DEFINE others == Cardinality(DOMAIN graph) - 1
           most   == Most(graph)
<1>1. IsFiniteSet((DOMAIN graph) \ {start}) /\ Cardinality((DOMAIN graph) \ {start}) = others
  BY FS_RemoveElement
<1>2. others \in Nat /\ Cardinality(DOMAIN graph) \in Nat
  BY <1>1, FS_CardinalityType
<1>3. Dearest(graph) \in Nat
  BY DearestIs
<1>4. EnoughTurns(graph) = others * (most + 1) + 1 /\ most = others * Dearest(graph)
  BY DEF EnoughTurns, Most
<1> HIDE DEF others, most
<1>5. most \in Nat
  BY <1>2, <1>3, <1>4, TimesMore
<1>6. others * (most + 1) \in Nat
  BY <1>2, <1>5, TimesMore
<1> QED  BY <1>2, <1>3, <1>4, <1>5, <1>6 DEF others, most

LEMMA SpentAtFirst ==
  ASSUME NEW graph, IsGraph(graph), IsFiniteSet(DOMAIN graph), NEW start \in DOMAIN graph
  PROVE  /\ Spent(graph, Begin(start))
         /\ Left(graph, Begin(start)) = EnoughTurns(graph)
<1> DEFINE s == Begin(start)
           B == 0..Most(graph)
<1>1. s.queue = {<<start, 0>>} /\ DOMAIN s.cost = {start} /\ s.cost[start] = 0
  BY DEF Begin
<1>2. /\ Dearest(graph) \in Nat /\ Most(graph) \in Nat
      /\ EnoughTurns(graph) = (Cardinality(DOMAIN graph) - 1) * (Most(graph) + 1) + 1
      /\ Cardinality(DOMAIN graph) - 1 \in Nat
  BY SizesAre
<1>3. IsFiniteSet(s.queue) /\ Cardinality(s.queue) = 1
  <2> DEFINE e == <<start, 0>>
  <2>1. s.queue = {e}
    BY <1>1
  <2> HIDE DEF e, s
  <2> QED  BY <2>1, FS_Singleton
<1>4. Unspent(graph, s) = ((DOMAIN graph) \ {start}) \X B
  <2> HIDE DEF s
  <2>1. ASSUME NEW p \in (DOMAIN graph) \X B PROVE p \in Unspent(graph, s) <=> p[1] # start
    <3>1. p[2] \in Nat /\ p \in (DOMAIN graph) \X (0..Most(graph))
      BY <1>2
    <3>2. p \in Unspent(graph, s) <=> (p[1] \in DOMAIN s.cost => p[2] < s.cost[p[1]])
      BY <3>1 DEF Unspent
    <3> QED  BY <1>1, <3>1, <3>2
  <2>2. Unspent(graph, s) \subseteq (DOMAIN graph) \X B
    BY DEF Unspent
  <2> HIDE DEF B
  <2> QED  BY <2>1, <2>2
<1>5. /\ IsFiniteSet((DOMAIN graph) \ {start}) /\ IsFiniteSet(B)
      /\ Cardinality((DOMAIN graph) \ {start}) = Cardinality(DOMAIN graph) - 1
      /\ Cardinality(B) = Most(graph) + 1
  <2>1. 0 \in Int /\ Most(graph) \in Int /\ ~(0 > Most(graph)) /\ Most(graph) - 0 + 1 = Most(graph) + 1
    BY <1>2
  <2> QED  BY <2>1, FS_RemoveElement, FS_Interval
<1> HIDE DEF s, B
<1>6. IsFiniteSet(Unspent(graph, s)) /\ Cardinality(Unspent(graph, s)) = (Cardinality(DOMAIN graph) - 1) * (Most(graph) + 1)
  BY <1>4, <1>5, FS_Product
<1>7. s.cost[start] + Dearest(graph) <= Cardinality(DOMAIN s.cost) * Dearest(graph)
  <2>1. Cardinality(DOMAIN s.cost) = 1
    BY <1>1, FS_Singleton
  <2> QED  BY <1>1, <1>2, <2>1
<1> QED  BY <1>1, <1>2, <1>3, <1>6, <1>7 DEF Spent, Left, s

(* A turn takes an entry from the queue, and for each it puts in there is  *)
(* a cost less that may still be found.                                     *)
LEMMA TurnSpends ==
  ASSUME NEW graph, IsGraph(graph), IsFiniteSet(DOMAIN graph), NEW start \in DOMAIN graph,
         NEW estimate \in [DOMAIN graph -> Nat],
         NEW s, NEW t, NEW q, NEW n, NEW near, TurnMade(graph, estimate, s, q, n, near, t), Spent(graph, s)
  PROVE  /\ Spent(graph, t)
         /\ Left(graph, s) \in Nat /\ Left(graph, t) \in Nat /\ Left(graph, t) + 1 <= Left(graph, s)
<1> DEFINE w == Dearest(graph)
           I == {<<m, t.cost[m] + estimate[m]>> : m \in near}
           J == {<<m, t.cost[m]>> : m \in near}
           R == Unspent(graph, s)
           Q == s.queue \ {q}
<1>1. /\ q \in s.queue /\ n \in DOMAIN s.cost /\ n \in DOMAIN graph
      /\ near \subseteq DOMAIN graph[n] /\ near \subseteq DOMAIN graph
      /\ \A m \in near : graph[n][m] \in Nat /\ t.cost[m] = s.cost[n] + graph[n][m]
      /\ \A m \in near : m \in DOMAIN s.cost => t.cost[m] < s.cost[m]
      /\ \A m \in DOMAIN s.cost \ near : t.cost[m] = s.cost[m]
      /\ DOMAIN t.cost = DOMAIN s.cost \cup near /\ DOMAIN s.cost \subseteq DOMAIN graph
      /\ t.cost \in [DOMAIN t.cost -> Nat] /\ s.cost \in [DOMAIN s.cost -> Nat]
      /\ t.queue = Q \cup I
  BY DEF TurnMade
<1>2. /\ w \in Nat /\ Most(graph) \in Nat /\ Most(graph) = (Cardinality(DOMAIN graph) - 1) * w
      /\ Cardinality(DOMAIN graph) \in Nat /\ \A m \in near : graph[n][m] <= w
  BY <1>1, SizesAre, DearestIs DEF Most
<1>3. /\ \A m \in DOMAIN s.cost : s.cost[m] + w <= Cardinality(DOMAIN s.cost) * w
      /\ IsFiniteSet(s.queue) /\ IsFiniteSet(R)
  BY DEF Spent
<1> HIDE DEF w
<1>4. /\ IsFiniteSet(DOMAIN s.cost) /\ IsFiniteSet(DOMAIN t.cost) /\ IsFiniteSet(near)
      /\ Cardinality(DOMAIN s.cost) \in Nat /\ Cardinality(DOMAIN t.cost) \in Nat
      /\ Cardinality(DOMAIN s.cost) <= Cardinality(DOMAIN t.cost)
      /\ Cardinality(DOMAIN t.cost) <= Cardinality(DOMAIN graph)
  <2>1. DOMAIN t.cost \in SUBSET DOMAIN graph /\ DOMAIN s.cost \in SUBSET DOMAIN t.cost /\ near \in SUBSET DOMAIN graph
    BY <1>1
  <2> QED  BY <2>1, FS_Subset, FS_CardinalityType
<1>5. ASSUME NEW m \in DOMAIN t.cost
      PROVE  t.cost[m] + w <= Cardinality(DOMAIN t.cost) * w
  <2> DEFINE a == Cardinality(DOMAIN s.cost)
             b == Cardinality(DOMAIN t.cost)
  <2>1. a \in Nat /\ b \in Nat /\ a * w \in Nat /\ b * w \in Nat /\ a * w <= b * w /\ (a + 1) * w = a * w + w
    BY <1>2, <1>4, TimesMore
  <2> HIDE DEF a, b
  <2>2. CASE m \in DOMAIN s.cost
    <3>1. t.cost[m] <= s.cost[m]
      BY <1>1, <2>2
    <3>2. s.cost[m] + w <= a * w /\ s.cost[m] \in Nat /\ t.cost[m] \in Nat
      BY <1>1, <1>3, <2>2 DEF a
    <3>3. t.cost[m] + w <= b * w
      BY <1>2, <2>1, <3>1, <3>2
    <3> QED  BY <3>3 DEF b
  <2>3. CASE m \notin DOMAIN s.cost
    <3>1. m \in near /\ t.cost[m] = s.cost[n] + graph[n][m] /\ graph[n][m] \in Nat /\ graph[n][m] <= w
      BY <1>1, <1>2, <2>3
    <3>2. s.cost[n] + w <= a * w /\ s.cost[n] \in Nat
      BY <1>1, <1>3 DEF a
    <3>3. a + 1 <= b
      <4>1. DOMAIN s.cost \in SUBSET DOMAIN t.cost /\ DOMAIN s.cost # DOMAIN t.cost
        BY <1>1, <2>3
      <4>2. a <= b /\ a # b
        BY <1>4, <4>1, FS_Subset DEF a, b
      <4> QED  BY <2>1, <4>2
    <3>4. (a + 1) * w <= b * w
      BY <1>2, <2>1, <3>3, TimesMore
    <3>5. t.cost[m] + w <= b * w
      <4>1. t.cost[m] <= a * w
        BY <1>2, <2>1, <3>1, <3>2
      <4>2. t.cost[m] \in Nat
        BY <3>1, <3>2
      <4> DEFINE x == a * w
                 y == b * w
                 z == (a + 1) * w
      <4>3. x \in Nat /\ y \in Nat /\ z = x + w /\ z <= y /\ t.cost[m] <= x
        BY <2>1, <3>4, <4>1
      <4> HIDE DEF x, y, z
      <4>4. t.cost[m] + w <= y
        BY <1>2, <4>2, <4>3
      <4> QED  BY <4>4 DEF y
    <3> QED  BY <3>5 DEF b
  <2> QED  BY <2>2, <2>3
<1>6. ASSUME NEW m \in near PROVE t.cost[m] \in 0..Most(graph)
  <2> DEFINE b == Cardinality(DOMAIN t.cost)
             c == Cardinality(DOMAIN graph)
  <2>1. m \in DOMAIN t.cost /\ t.cost[m] \in Nat
    BY <1>1
  <2>2. t.cost[m] + w <= b * w
    BY <1>5, <2>1
  <2>3. b * w <= c * w /\ b * w \in Nat /\ c * w \in Nat
    BY <1>2, <1>4, TimesMore
  <2>4. Most(graph) + w = c * w
    <3>1. c - 1 \in Nat
      BY SizesAre
    <3>2. ((c - 1) + 1) * w = (c - 1) * w + w /\ (c - 1) + 1 = c
      BY <1>2, <3>1, TimesMore
    <3> QED  BY <1>2, <3>2
  <2> DEFINE x == b * w
             y == c * w
  <2>5. x \in Nat /\ y \in Nat /\ x <= y /\ t.cost[m] + w <= x /\ Most(graph) + w = y
    BY <2>2, <2>3, <2>4
  <2> HIDE DEF x, y
  <2> QED  BY <1>2, <2>1, <2>5
<1>7. J \subseteq R /\ Unspent(graph, t) \subseteq R \ J
  <2>1. ASSUME NEW m \in near PROVE <<m, t.cost[m]>> \in R
    <3> DEFINE p == <<m, t.cost[m]>>
    <3>1. p \in (DOMAIN graph) \X (0..Most(graph)) /\ p[1] = m /\ p[2] = t.cost[m]
      BY <1>1, <1>6
    <3> HIDE DEF p
    <3>2. p \in R
      BY <1>1, <3>1 DEF Unspent
    <3> QED  BY <3>2 DEF p
  <2>2. ASSUME NEW p \in Unspent(graph, t) PROVE p \in R /\ p \notin J
    <3>1. p \in (DOMAIN graph) \X (0..Most(graph)) /\ (p[1] \in DOMAIN t.cost => p[2] < t.cost[p[1]])
      BY DEF Unspent
    <3>2. p[2] \in Nat
      BY <1>2, <3>1
    <3>3. ASSUME p[1] \in DOMAIN s.cost PROVE p[2] < s.cost[p[1]]
      <4>1. p[2] < t.cost[p[1]] /\ t.cost[p[1]] <= s.cost[p[1]] /\ t.cost[p[1]] \in Nat /\ s.cost[p[1]] \in Nat
        BY <1>1, <3>1, <3>3
      <4> QED  BY <3>2, <4>1
    <3>4. p \in R
      BY <3>1, <3>3 DEF Unspent
    <3>5. ASSUME NEW m \in near, p = <<m, t.cost[m]>> PROVE FALSE
      <4>1. p[1] = m /\ p[2] = t.cost[m] /\ m \in DOMAIN t.cost
        BY <1>1, <3>5
      <4> QED  BY <3>1, <3>2, <4>1
    <3> QED  BY <3>4, <3>5
  <2> HIDE DEF R
  <2> QED  BY <2>1, <2>2
<1>8. /\ IsFiniteSet(I) /\ Cardinality(I) <= Cardinality(near) /\ Cardinality(near) \in Nat
      /\ Cardinality(I) \in Nat
  <2> DEFINE f == [m \in near |-> <<m, t.cost[m] + estimate[m]>>]
  <2>1. f \in Surjection(near, I)
    BY DEF Surjection
  <2> HIDE DEF f, I
  <2> QED  BY <1>4, <2>1, FS_Surjection, FS_CardinalityType
<1>9. IsFiniteSet(J) /\ Cardinality(near) <= Cardinality(J) /\ Cardinality(J) \in Nat
  <2> DEFINE f == [m \in near |-> <<m, t.cost[m]>>]
  <2>1. f \in Injection(near, J)
    BY DEF Injection, IsInjective
  <2>2. IsFiniteSet(J)
    <3> HIDE DEF J, R
    <3>1. J \in SUBSET R
      BY <1>7
    <3> QED  BY <1>3, <3>1, FS_Subset
  <2> HIDE DEF f, J
  <2> QED  BY <2>1, <2>2, FS_Injection, FS_CardinalityType
<1>10. /\ IsFiniteSet(Unspent(graph, t)) /\ Cardinality(Unspent(graph, t)) \in Nat /\ Cardinality(R) \in Nat
       /\ Cardinality(Unspent(graph, t)) <= Cardinality(R) - Cardinality(J)
  <2> HIDE DEF R, J
  <2>1. IsFiniteSet(R \ J) /\ Cardinality(R \ J) = Cardinality(R) - Cardinality(R \cap J)
    BY <1>3, FS_Difference
  <2>2. R \cap J = J /\ Unspent(graph, t) \in SUBSET (R \ J)
    BY <1>7
  <2> QED  BY <1>3, <2>1, <2>2, FS_Subset, FS_CardinalityType
<1>11. /\ IsFiniteSet(t.queue) /\ Cardinality(t.queue) \in Nat /\ Cardinality(s.queue) \in Nat
       /\ Cardinality(t.queue) <= Cardinality(s.queue) - 1 + Cardinality(I)
  <2>1. IsFiniteSet(Q) /\ Cardinality(Q) = Cardinality(s.queue) - 1
    BY <1>1, <1>3, FS_RemoveElement
  <2> HIDE DEF Q, I
  <2>2. /\ IsFiniteSet(Q \cup I)
        /\ Cardinality(Q \cup I) = Cardinality(Q) + Cardinality(I) - Cardinality(Q \cap I)
    BY <1>8, <2>1, FS_Union
  <2>3. Cardinality(Q \cap I) \in Nat /\ Cardinality(Q) \in Nat
    BY <2>1, FS_Intersection, FS_CardinalityType
  <2>4. Cardinality(t.queue) \in Nat /\ Cardinality(s.queue) \in Nat
    BY <1>1, <1>3, <2>2, FS_CardinalityType
  <2> QED  BY <1>1, <1>8, <2>1, <2>2, <2>3, <2>4
<1> HIDE DEF I, J, Q, R
<1>12. Spent(graph, t)
  BY <1>5, <1>10, <1>11 DEF Spent, w
<1> QED  BY <1>8, <1>9, <1>10, <1>11, <1>12 DEF Left, R

(* A search comes to its end within EnoughTurns. *)
LEMMA SearchEnds ==
  ASSUME NEW graph, IsGraph(graph), IsFiniteSet(DOMAIN graph), NEW start \in DOMAIN graph, NEW goals,
         NEW estimate \in [DOMAIN graph -> Nat], Admissible(graph, goals, estimate)
  PROVE  /\ EnoughTurns(graph) \in Nat
         /\ Over(Search(graph, start, goals, estimate, EnoughTurns(graph)))
<1> DEFINE R(k) == Search(graph, start, goals, estimate, k)
           n == EnoughTurns(graph)
           SoFar(k) == Over(R(k)) \/ (Spent(graph, R(k)) /\ Left(graph, R(k)) \in Nat /\ Left(graph, R(k)) + k <= n)
           T == {k \in 0..n : SoFar(k)}
<1>1. n \in Nat
  BY SizesAre
<1>2. \A k \in Nat : SearchInv(graph, start, goals, estimate, R(k))
  BY SearchKeeps
<1>3. R(0) = Begin(start) /\ \A k \in Nat : R(k + 1) = Onward(graph, goals, estimate, R(k))
  <2>1. 0 \in Nat
    OBVIOUS
  <2> QED  BY <2>1, SearchGoesOn
<1> HIDE DEF R, n
<1>4. 0 \in T
  <2>1. Spent(graph, R(0)) /\ Left(graph, R(0)) = n
    BY <1>3, SpentAtFirst DEF n
  <2> QED  BY <1>1, <2>1
<1>5. ASSUME NEW k \in 0..(n-1), k \in T PROVE k + 1 \in T
  <2> DEFINE s == R(k)
             t == R(k+1)
             q == Popped(s)
             near == Nearer(graph, s, q[1])
  <2>1. k \in Nat /\ k + 1 \in 0..n /\ t = Onward(graph, goals, estimate, s) /\ SearchInv(graph, start, goals, estimate, s)
    BY <1>1, <1>2, <1>3
  <2> HIDE DEF R
  <2>2. CASE Over(s)
    BY <2>1, <2>2 DEF Onward
  <2>3. CASE ~Over(s)
    <3>1. /\ Spent(graph, s) /\ Left(graph, s) \in Nat /\ Left(graph, s) + k <= n
          /\ t = Turn(graph, s, goals, estimate) /\ s.queue # {} /\ s.final = {}
      BY <1>5, <2>1, <2>3 DEF Onward, Over
    <3> HIDE DEF s, t
    <3>2. CASE q[1] \in goals
      <4>1. t = [s EXCEPT !.queue = @ \ {q}, !.final = {q[1]}]
        BY <3>1, <3>2 DEF Turn
      <4>2. t.final = {q[1]}
        BY <2>1, <4>1 DEF SearchInv, SearchState
      <4>3. Over(t)
        BY <4>2 DEF Over
      <4> QED  BY <2>1, <4>3 DEF t
    <3>3. CASE q[1] \notin goals
      <4>1. TurnMade(graph, estimate, s, q, q[1], near, t)
        BY <2>1, <3>1, <3>3, TurnMakes
      <4> HIDE DEF q, near
      <4>2. Spent(graph, t) /\ Left(graph, t) \in Nat /\ Left(graph, t) + 1 <= Left(graph, s)
        BY <3>1, <4>1, TurnSpends
      <4>3. Left(graph, t) + (k + 1) <= n
        BY <1>1, <2>1, <3>1, <4>2
      <4> QED  BY <2>1, <4>2, <4>3 DEF t
    <3> QED  BY <3>2, <3>3
  <2> QED  BY <2>2, <2>3
<1>6. SoFar(n)
  <2>1. \A k \in 0..n : k \in T
    <3> HIDE DEF T
    <3> QED  BY <1>1, <1>4, <1>5, UpTo
  <2>2. n \in 0..n
    BY <1>1
  <2> QED  BY <2>1, <2>2
<1>7. ASSUME ~Over(R(n)) PROVE FALSE
  <2> DEFINE s == R(n)
  <2>1. Spent(graph, s) /\ Left(graph, s) \in Nat /\ Left(graph, s) + n <= n
    BY <1>6, <1>7
  <2> HIDE DEF s
  <2>2. /\ IsFiniteSet(s.queue) /\ Cardinality(s.queue) \in Nat /\ Cardinality(Unspent(graph, s)) \in Nat
        /\ Cardinality(Unspent(graph, s)) + Cardinality(s.queue) + n <= n
    BY <2>1, FS_CardinalityType DEF Spent, Left
  <2>3. Cardinality(s.queue) = 0
    BY <1>1, <2>2
  <2>4. s.queue = {}
    BY <2>2, <2>3, FS_EmptySet
  <2> QED  BY <1>7, <2>4 DEF Over, s
<1> QED  BY <1>1, <1>7 DEF R, n

LEMMA SearchStaysOver ==
  ASSUME NEW graph, IsGraph(graph), NEW start \in DOMAIN graph, NEW goals,
         NEW estimate \in [DOMAIN graph -> Nat], Admissible(graph, goals, estimate),
         NEW enough \in Nat, Over(Search(graph, start, goals, estimate, enough)),
         NEW turns \in Nat, turns >= enough
  PROVE  Over(Search(graph, start, goals, estimate, turns))
<1> DEFINE R(k) == Search(graph, start, goals, estimate, k)
           n == turns - enough
           T == {i \in 0..n : Over(R(enough + i))}
<1>1. n \in Nat /\ n \in 0..n /\ enough + n = turns /\ enough + 0 = enough
  OBVIOUS
<1>2. \A k \in Nat : R(k + 1) = Onward(graph, goals, estimate, R(k))
  BY SearchGoesOn
<1>3. Over(R(enough))
  OBVIOUS
<1> HIDE DEF R, n
<1>4. 0 \in T
  BY <1>1, <1>3
<1>5. ASSUME NEW i \in 0..(n-1), i \in T PROVE i + 1 \in T
  <2>1. i + 1 \in 0..n /\ enough + i \in Nat /\ (enough + i) + 1 = enough + (i + 1)
    BY <1>1
  <2>2. R(enough + (i + 1)) = R(enough + i)
    BY <1>2, <1>5, <2>1 DEF Onward
  <2> QED  BY <1>5, <2>1, <2>2
<1>6. \A i \in 0..n : i \in T
  <2> HIDE DEF T
  <2> QED  BY <1>1, <1>4, <1>5, UpTo
<1>7. Over(R(turns))
  BY <1>1, <1>6
<1> QED  BY <1>7 DEF R

-----------------------------------------------------------------------------
(* What PathTo makes of the result. *)

LEMMA SeqOfOne ==
  /\ SetToSeq({}) = <<>>
  /\ \A x : SetToSeq({x}) = <<x>>
<1>1. SetToSeq({}) = <<>>
  <2>1. Cardinality({}) = 0 /\ 1..0 = {}
    BY FS_EmptySet
  <2>2. \A f \in [{} -> {}] : f = <<>>
    OBVIOUS
  <2>3. <<>> \in [{} -> {}] /\ IsInjective(<<>>)
    BY DEF IsInjective
  <2> DEFINE P(f) == f \in [{} -> {}] /\ IsInjective(f)
  <2>4. \E f \in [{} -> {}] : IsInjective(f)
    BY <2>3
  <2>5. (CHOOSE f \in [{} -> {}] : IsInjective(f)) \in [{} -> {}]
    BY <2>4
  <2>6. SetToSeq({}) = CHOOSE f \in [{} -> {}] : IsInjective(f)
    BY <2>1 DEF SetToSeq
  <2> QED  BY <2>2, <2>5, <2>6
<1>2. ASSUME NEW x PROVE SetToSeq({x}) = <<x>>
  <2>1. Cardinality({x}) = 1 /\ 1..1 = {1}
    BY FS_Singleton
  <2>2. \A f \in [{1} -> {x}] : f = <<x>>
    <3> SUFFICES ASSUME NEW f \in [{1} -> {x}] PROVE f = <<x>>
      OBVIOUS
    <3>1. DOMAIN <<x>> = {1} /\ <<x>>[1] = x /\ <<x>> = [i \in {1} |-> <<x>>[i]]
      OBVIOUS
    <3> QED  BY <3>1
  <2>3. [i \in {1} |-> x] \in [{1} -> {x}] /\ IsInjective([i \in {1} |-> x])
    BY DEF IsInjective
  <2>4. \E f \in [{1} -> {x}] : IsInjective(f)
    BY <2>3
  <2>5. (CHOOSE f \in [{1} -> {x}] : IsInjective(f)) \in [{1} -> {x}]
    BY <2>4
  <2>6. SetToSeq({x}) = CHOOSE f \in [{1} -> {x}] : IsInjective(f)
    BY <2>1 DEF SetToSeq
  <2> QED  BY <2>2, <2>5, <2>6
<1> QED  BY <1>1, <1>2

LEMMA OneIsSeq ==
  ASSUME NEW S, NEW x \in S
  PROVE  <<x>> \in Seq(S) /\ Len(<<x>>) = 1 /\ <<x>>[1] = x
OBVIOUS

LEMMA FunctionIsSeq ==
  ASSUME NEW S, NEW n \in Nat, NEW f \in [1..n -> S]
  PROVE  f \in Seq(S) /\ Len(f) = n
OBVIOUS

(* Going back along "from" never comes to a node twice. *)
LEMMA LeadsShort ==
  ASSUME NEW s, IsFiniteSet(DOMAIN s.cost), NEW start, s.from[start] = {},
         NEW k, NEW w, Leads(s, start, k, w)
  PROVE  k < Cardinality(DOMAIN s.cost) /\ Cardinality(DOMAIN s.cost) \in Nat
<1>1. k \in Nat /\ w \in [0..k -> DOMAIN s.cost] /\ w[0] = start /\ \A i \in 1..k : s.from[w[i]] = {w[i-1]}
  BY DEF Leads
<1>2. ASSUME NEW i \in 0..k, NEW j \in 0..k, i < j, w[i] = w[j] PROVE FALSE
  <2> DEFINE T == {d \in 0..i : w[i-d] = w[j-d]}
  <2>1. i \in Nat /\ j \in Nat /\ i - 0 = i /\ j - 0 = j
    BY <1>1
  <2>2. 0 \in T
    BY <1>2, <2>1
  <2>3. ASSUME NEW d \in 0..(i-1), d \in T PROVE d + 1 \in T
    <3>1. /\ i - d \in 1..k /\ j - d \in 1..k /\ i - (d + 1) = (i - d) - 1 /\ j - (d + 1) = (j - d) - 1
          /\ d + 1 \in 0..i
      BY <1>1, <1>2, <2>1
    <3>2. s.from[w[i-d]] = {w[(i-d)-1]} /\ s.from[w[j-d]] = {w[(j-d)-1]} /\ w[i-d] = w[j-d]
      BY <1>1, <2>3, <3>1
    <3>3. w[(i-d)-1] = w[(j-d)-1]
      BY <3>2
    <3> QED  BY <3>1, <3>3
  <2>4. \A d \in 0..i : d \in T
    <3> HIDE DEF T
    <3> QED  BY <2>1, <2>2, <2>3, UpTo
  <2>5. i \in 0..i /\ i - i = 0 /\ j - i \in 1..k
    BY <1>1, <1>2, <2>1
  <2>6. w[j-i] = start
    BY <1>1, <2>4, <2>5
  <2> QED  BY <1>1, <2>5, <2>6
<1>3. w \in Injection(0..k, DOMAIN s.cost)
  <2>1. \A i, j \in 0..k : w[i] = w[j] => i = j
    <3> SUFFICES ASSUME NEW i \in 0..k, NEW j \in 0..k, w[i] = w[j], i # j PROVE FALSE
      OBVIOUS
    <3>1. i < j \/ j < i
      BY <1>1
    <3> QED  BY <1>2, <3>1
  <2> QED  BY <1>1, <2>1 DEF Injection, IsInjective
<1>4. Cardinality(0..k) <= Cardinality(DOMAIN s.cost)
  BY <1>3, FS_Injection
<1>5. Cardinality(0..k) = k + 1
  <2>1. 0 \in Int /\ k \in Int /\ ~(0 > k) /\ k - 0 + 1 = k + 1
    BY <1>1
  <2> QED  BY <2>1, FS_Interval
<1>6. Cardinality(DOMAIN s.cost) \in Nat
  BY FS_CardinalityType
<1> QED  BY <1>1, <1>4, <1>5, <1>6

(* The path runs along w, without the start. *)
LEMMA PathToIs ==
  ASSUME NEW s, IsFiniteSet(DOMAIN s.cost), DOMAIN s.from = DOMAIN s.cost,
         NEW start, s.from[start] = {}, NEW k, NEW w, Leads(s, start, k, w), s.final = {w[k]}
  PROVE  PathTo(s) = [i \in 1..k |-> w[i]]
<1> DEFINE N == Cardinality(DOMAIN s.from)
           Longer(p) == IF p = <<>> THEN p ELSE SetToSeq(s.from[p[1]]) \o p
           Back(h) == [j \in 0..N |->
                          IF j = 0 THEN SetToSeq(s.final)
                          ELSE LET path == h[j-1]
                               IN  IF path = <<>> THEN path ELSE SetToSeq(s.from[path[1]]) \o path]
           m(j) == IF j < k THEN j ELSE k
           Tip(j) == [i \in 1..(m(j)+1) |-> w[(k - m(j)) + i - 1]]
<1>1. /\ k \in Nat /\ w \in [0..k -> DOMAIN s.cost] /\ w[0] = start
      /\ \A i \in 1..k : s.from[w[i]] = {w[i-1]}
  BY DEF Leads
<1>2. N \in Nat /\ k < N
  BY LeadsShort
<1>3. \A j \in 0..N : /\ m(j) \in 0..k /\ Tip(j) \in Seq(DOMAIN s.cost) /\ Len(Tip(j)) = m(j) + 1
                      /\ \A i \in 1..(m(j)+1) : Tip(j)[i] = w[(k - m(j)) + i - 1]
  <2> SUFFICES ASSUME NEW j \in 0..N
               PROVE  /\ m(j) \in 0..k /\ Tip(j) \in Seq(DOMAIN s.cost) /\ Len(Tip(j)) = m(j) + 1
                      /\ \A i \in 1..(m(j)+1) : Tip(j)[i] = w[(k - m(j)) + i - 1]
    OBVIOUS
  <2>1. m(j) \in 0..k
    BY <1>1, <1>2
  <2> DEFINE b == m(j)
             l == [i \in 1..(b+1) |-> w[(k - b) + i - 1]]
  <2> HIDE DEF m, b
  <2>2. b \in 0..k
    BY <2>1 DEF b
  <2>3. \A i \in 1..(b+1) : (k - b) + i - 1 \in 0..k
    BY <1>1, <2>2
  <2>4. l \in [1..(b+1) -> DOMAIN s.cost] /\ b + 1 \in Nat /\ \A i \in 1..(b+1) : l[i] = w[(k - b) + i - 1]
    BY <1>1, <2>2, <2>3
  <2> HIDE DEF l
  <2>5. l \in Seq(DOMAIN s.cost) /\ Len(l) = b + 1
    BY <2>4, FunctionIsSeq
  <2> QED  BY <2>1, <2>4, <2>5 DEF l, b
<1>4. Tip(0) = SetToSeq(s.final)
  <2>1. m(0) = 0
    BY <1>1
  <2>2. 0 \in 0..N /\ 1 \in 1..(0 + 1) /\ (k - 0) + 1 - 1 = k
    BY <1>1, <1>2
  <2> DEFINE l == Tip(0)
  <2>3. l \in Seq(DOMAIN s.cost) /\ Len(l) = 1 /\ l[1] = w[k]
    <3> HIDE DEF m, Tip
    <3>1. /\ l \in Seq(DOMAIN s.cost) /\ Len(l) = 0 + 1
          /\ \A i \in 1..(0+1) : l[i] = w[(k - 0) + i - 1]
      BY <1>3, <2>1, <2>2
    <3> QED  BY <2>2, <3>1
  <2> HIDE DEF l
  <2>4. l = <<w[k]>>
    BY <2>3
  <2> QED  BY <2>4, SeqOfOne DEF l
<1>5. ASSUME NEW j \in 1..N PROVE Tip(j) = Longer(Tip(j-1))
  <2>1. j \in 0..N /\ j - 1 \in 0..N
    BY <1>2
  <2> DEFINE l == Tip(j)
             p == Tip(j-1)
  <2>2. /\ m(j) \in 0..k /\ l \in Seq(DOMAIN s.cost) /\ Len(l) = m(j) + 1
        /\ \A i \in 1..(m(j)+1) : l[i] = w[(k - m(j)) + i - 1]
    BY <1>3, <2>1
  <2>3. /\ m(j-1) \in 0..k /\ p \in Seq(DOMAIN s.cost) /\ Len(p) = m(j-1) + 1
        /\ \A i \in 1..(m(j-1)+1) : p[i] = w[(k - m(j-1)) + i - 1]
    BY <1>3, <2>1
  <2>4. \/ j <= k /\ m(j) = j /\ m(j-1) = j - 1
        \/ j > k /\ m(j) = k /\ m(j-1) = k
    BY <1>1
  <2> HIDE DEF m, l, p
  <2>5. p # <<>> /\ p[1] = w[k - m(j-1)]
    <3>1. 1 \in 1..(m(j-1)+1) /\ (k - m(j-1)) + 1 - 1 = k - m(j-1) /\ m(j-1) + 1 # 0
      BY <1>1, <2>3
    <3> QED  BY <2>3, <3>1, EmptySeq
  <2>6. CASE j <= k /\ m(j) = j /\ m(j-1) = j - 1
    <3>1. k - (j - 1) \in 1..k /\ (k - (j - 1)) - 1 = k - j /\ k - j \in 0..k
      BY <1>1, <2>6
    <3>2. s.from[p[1]] = {w[k-j]}
      BY <1>1, <2>5, <2>6, <3>1
    <3> DEFINE x == w[k-j]
    <3>3. x \in DOMAIN s.cost /\ SetToSeq(s.from[p[1]]) = <<x>>
      BY <1>1, <3>1, <3>2, SeqOfOne
    <3>4. <<x>> \o p \in Seq(DOMAIN s.cost) /\ Len(<<x>> \o p) = j + 1
          /\ (<<x>> \o p)[1] = x /\ \A i \in 2..(j+1) : (<<x>> \o p)[i] = p[i-1]
      <4>1. <<x>> \in Seq(DOMAIN s.cost) /\ Len(<<x>>) = 1 /\ <<x>>[1] = x
        BY <3>3, OneIsSeq
      <4>2. Len(p) = j /\ j \in Nat
        BY <2>3, <2>6
      <4> HIDE DEF x
      <4>3. /\ <<x>> \o p \in Seq(DOMAIN s.cost) /\ Len(<<x>> \o p) = 1 + j
            /\ \A i \in 1..(1+j) : (<<x>> \o p)[i] = IF i <= 1 THEN <<x>>[i] ELSE p[i-1]
        BY <2>3, <4>1, <4>2, ConcatProperties
      <4>4. 1 \in 1..(1+j) /\ \A i \in 2..(j+1) : i \in 1..(1+j) /\ ~(i <= 1)
        BY <4>2
      <4> QED  BY <4>1, <4>2, <4>3, <4>4
    <3>5. \A i \in 1..(j+1) : l[i] = (<<x>> \o p)[i]
      <4> SUFFICES ASSUME NEW i \in 1..(j+1) PROVE l[i] = (<<x>> \o p)[i]
        OBVIOUS
      <4>1. CASE i = 1
        <5>1. (k - j) + 1 - 1 = k - j
          BY <1>1
        <5> QED  BY <2>2, <2>6, <3>4, <4>1, <5>1
      <4>2. CASE i # 1
        <5>1. i \in 2..(j+1) /\ i - 1 \in 1..((j-1)+1) /\ (k - (j - 1)) + (i - 1) - 1 = (k - j) + i - 1
          BY <1>1, <4>2
        <5>2. p[i-1] = w[(k - (j - 1)) + (i - 1) - 1] /\ l[i] = w[(k - j) + i - 1]
          BY <2>2, <2>3, <2>6, <5>1
        <5>3. p[i-1] = l[i]
          BY <5>1, <5>2
        <5> QED  BY <3>4, <5>1, <5>3
      <4> QED  BY <4>1, <4>2
    <3> HIDE DEF x
    <3>6. l = <<x>> \o p
      BY <2>2, <2>6, <3>4, <3>5, SeqEqual
    <3> QED  BY <2>5, <3>3, <3>6 DEF l, p
  <2>7. CASE j > k /\ m(j) = k /\ m(j-1) = k
    <3>1. p[1] = start
      BY <1>1, <2>5, <2>7
    <3>2. SetToSeq(s.from[p[1]]) \o p = p
      BY <2>3, <3>1, SeqOfOne, ConcatEmptySeq
    <3>3. l = p
      BY <2>2, <2>3, <2>7, SeqEqual
    <3> QED  BY <2>5, <3>2, <3>3 DEF l, p
  <2> QED  BY <2>4, <2>6, <2>7
<1> HIDE DEF Tip, m
<1>6. \E h : h = Back(h)
  <2> DEFINE h == [j \in 0..N |-> Tip(j)]
  <2>1. \A j \in 0..N : h[j] = Tip(j)
    OBVIOUS
  <2>2. h = [j \in 0..N |-> h[j]]
    OBVIOUS
  <2> HIDE DEF h
  <2>3. \A j \in 0..N : h[j] = IF j = 0 THEN SetToSeq(s.final) ELSE Longer(h[j-1])
    <3> SUFFICES ASSUME NEW j \in 0..N
                 PROVE  h[j] = IF j = 0 THEN SetToSeq(s.final) ELSE Longer(h[j-1])
      OBVIOUS
    <3>1. j # 0 => j \in 1..N /\ j - 1 \in 0..N
      BY <1>2
    <3> HIDE DEF Longer
    <3> QED  BY <1>4, <1>5, <2>1, <3>1
  <2>4. h = Back(h)
    BY <2>2, <2>3
  <2> QED  BY <2>4
<1> DEFINE back == CHOOSE h : h = Back(h)
<1>7. back = Back(back)
  BY <1>6
<1>8. PathTo(s) = Tail(back[N])
  BY DEF PathTo
<1> HIDE DEF back, N
<1>9. back[0] = SetToSeq(s.final) /\ \A j \in 1..N : back[j] = Longer(back[j-1])
  <2>1. back = [j \in 0..N |-> IF j = 0 THEN SetToSeq(s.final) ELSE Longer(back[j-1])]
    BY <1>7, Zenon
  <2> HIDE DEF Longer
  <2>2. \A j \in 0..N : back[j] = IF j = 0 THEN SetToSeq(s.final) ELSE Longer(back[j-1])
    BY <2>1
  <2> QED  BY <1>2, <2>2
<1> HIDE DEF Longer, N
<1> DEFINE T == {j \in 0..N : back[j] = Tip(j)}
<1>10. 0 \in T
  BY <1>2, <1>4, <1>9
<1>11. ASSUME NEW j \in 0..(N-1), j \in T PROVE j + 1 \in T
  <2>1. j + 1 \in 1..N /\ j + 1 \in 0..N /\ (j + 1) - 1 = j
    BY <1>2
  <2> QED  BY <1>5, <1>9, <1>11, <2>1
<1>12. \A j \in 0..N : j \in T
  <2> HIDE DEF T
  <2> QED  BY <1>2, <1>10, <1>11, UpTo
<1>13. back[N] = Tip(N)
  BY <1>2, <1>12
<1>14. m(N) = k
  BY <1>1, <1>2 DEF m
<1> DEFINE l == Tip(N)
<1>15. l \in Seq(DOMAIN s.cost) /\ Len(l) = k + 1 /\ \A i \in 1..(k+1) : l[i] = w[i-1]
  <2>1. N \in 0..N /\ \A i \in 1..(k+1) : (k - k) + i - 1 = i - 1
    BY <1>1, <1>2
  <2> QED  BY <1>3, <1>14, <2>1
<1> HIDE DEF l
<1>16. Tail(l) = [i \in 1..k |-> w[i]]
  <2>1. l # <<>> /\ (k + 1) - 1 = k
    BY <1>1, <1>15, EmptySeq
  <2>2. Tail(l) \in Seq(DOMAIN s.cost) /\ Len(Tail(l)) = k /\ \A i \in 1..k : Tail(l)[i] = l[i+1]
    BY <1>1, <1>15, <2>1, HeadTailProperties
  <2>3. \A i \in 1..k : Tail(l)[i] = w[i]
    <3> SUFFICES ASSUME NEW i \in 1..k PROVE Tail(l)[i] = w[i]
      OBVIOUS
    <3>1. i + 1 \in 1..(k+1) /\ (i + 1) - 1 = i
      BY <1>1
    <3> QED  BY <1>15, <2>2, <3>1
  <2>4. Tail(l) = [i \in 1..k |-> Tail(l)[i]]
    <3> DEFINE u == Tail(l)
    <3> HIDE DEF u
    <3>1. u \in [1..Len(u) -> DOMAIN s.cost]
      BY <2>2, LenProperties DEF u
    <3>2. u = [i \in 1..k |-> u[i]]
      BY <2>2, <3>1 DEF u
    <3> QED  BY <3>2 DEF u
  <2> QED  BY <2>3, <2>4
<1> QED  BY <1>8, <1>13, <1>16 DEF l

(* A path from the start to a goal than which none is cheaper. *)
IsLeastPath(graph, start, goals, path) ==
    /\ IsPath(graph, start, path) /\ End(start, path) \in goals
    /\ \A other : IsPath(graph, start, other) /\ End(start, other) \in goals =>
           PathCost(graph, start, path) <= PathCost(graph, start, other)

LEMMA SearchFindsLeast ==
  ASSUME NEW graph, IsGraph(graph), IsFiniteSet(DOMAIN graph), NEW start \in DOMAIN graph, NEW goals,
         NEW estimate \in [DOMAIN graph -> Nat], Admissible(graph, goals, estimate), NEW turns \in Nat,
         NEW s, s = Search(graph, start, goals, estimate, turns)
  PROVE  /\ s.final # {} => IsLeastPath(graph, start, goals, PathTo(s)) /\ s.final = {End(start, PathTo(s))}
         /\ Over(s) /\ s.final = {} =>
                ~\E path : IsPath(graph, start, path) /\ End(start, path) \in goals
<1>1. SearchInv(graph, start, goals, estimate, s)
  BY SearchKeeps
<1>2. /\ s.cost \in [DOMAIN s.cost -> Nat] /\ DOMAIN s.cost \subseteq DOMAIN graph
      /\ DOMAIN s.from = DOMAIN s.cost /\ s.from[start] = {} /\ s.cost[start] = 0
  BY <1>1, SearchFields DEF SearchInv
<1>3. ASSUME s.final # {}
      PROVE  IsLeastPath(graph, start, goals, PathTo(s)) /\ s.final = {End(start, PathTo(s))}
  <2>1. PICK y \in goals \cap DOMAIN s.cost : s.final = {y} /\ Cheapest(graph, start, goals, s, y)
    BY <1>1, <1>3 DEF SearchInv
  <2>2. PICK k, w : Leads(s, start, k, w) /\ w[k] = y
    BY <1>1, <2>1 DEF SearchInv
  <2>3. IsFiniteSet(DOMAIN s.cost)
    BY <1>2, FS_Subset
  <2> DEFINE p == [i \in 1..k |-> w[i]]
  <2>4. PathTo(s) = p
    BY <1>2, <2>1, <2>2, <2>3, PathToIs
  <2>5. /\ k \in Nat /\ w \in [0..k -> DOMAIN s.cost] /\ w[0] = start /\ w \in [0..k -> DOMAIN graph]
    BY <1>2, <2>2 DEF Leads
  <2>6. \A i \in 1..k : /\ w[i] \in DOMAIN graph[w[i-1]] /\ graph[w[i-1]][w[i]] \in Nat
                        /\ s.cost[w[i-1]] + graph[w[i-1]][w[i]] <= s.cost[w[i]]
    BY <1>1, <2>2, LeadsUp
  <2>7. /\ p \in Seq(DOMAIN graph) /\ Len(p) = k /\ DOMAIN p = 1..k /\ \A i \in 1..k : p[i] = w[i]
    <3>1. p \in [1..k -> DOMAIN graph]
      BY <2>5
    <3>2. \A i \in 1..k : p[i] = w[i]
      OBVIOUS
    <3> HIDE DEF p
    <3> QED  BY <2>5, <3>1, <3>2, FunctionIsSeq
  <2> HIDE DEF p
  <2>8. \A i \in 1..k : Before(start, p, i) = w[i-1]
    <3> SUFFICES ASSUME NEW i \in 1..k PROVE Before(start, p, i) = w[i-1]
      OBVIOUS
    <3>1. i # 1 => i - 1 \in 1..k
      BY <2>5
    <3> QED  BY <2>5, <2>7, <3>1 DEF Before
  <2>9. IsPath(graph, start, p)
    BY <2>6, <2>7, <2>8 DEF IsPath, NeighborsOf
  <2>10. PICK c : /\ IsWalk(graph, Len(p), [i \in 0..Len(p) |-> IF i = 0 THEN start ELSE p[i]], c)
                  /\ PathCost(graph, start, p) = c[Len(p)]
    BY <2>9, PathCostIs
  <2>11. [i \in 0..Len(p) |-> IF i = 0 THEN start ELSE p[i]] = w
    <3>1. \A i \in 0..k : w[i] = IF i = 0 THEN start ELSE p[i]
      BY <2>5, <2>7
    <3>2. w = [i \in 0..k |-> w[i]]
      BY <2>5
    <3> QED  BY <2>7, <3>1, <3>2
  <2>12. IsWalk(graph, k, w, c) /\ PathCost(graph, start, p) = c[k]
    BY <2>7, <2>10, <2>11
  <2>13. c \in [0..k -> Int] /\ c[0] = 0 /\ \A i \in 1..k : c[i] = c[i-1] + graph[w[i-1]][w[i]]
    BY <2>12 DEF IsWalk
  <2> DEFINE T == {i \in 0..k : c[i] <= s.cost[w[i]]}
  <2>14. 0 \in T
    BY <1>2, <2>5, <2>13
  <2>15. ASSUME NEW i \in 0..(k-1), i \in T PROVE i + 1 \in T
    <3>1. i + 1 \in 1..k /\ i \in 0..k /\ i + 1 \in 0..k /\ (i + 1) - 1 = i
      BY <2>5
    <3>2. c[i+1] = c[i] + graph[w[i]][w[i+1]] /\ graph[w[i]][w[i+1]] \in Nat
          /\ s.cost[w[i]] + graph[w[i]][w[i+1]] <= s.cost[w[i+1]]
      BY <2>6, <2>13, <3>1
    <3>3. c[i] \in Int /\ s.cost[w[i]] \in Nat /\ s.cost[w[i+1]] \in Nat /\ c[i] <= s.cost[w[i]]
      BY <1>2, <2>5, <2>13, <2>15, <3>1
    <3>4. c[i+1] <= s.cost[w[i+1]]
      BY <3>2, <3>3
    <3> QED  BY <3>1, <3>4
  <2>16. \A i \in 0..k : i \in T
    <3> HIDE DEF T
    <3> QED  BY <2>5, <2>14, <2>15, UpTo
  <2>17. c[k] <= s.cost[y] /\ c[k] \in Int /\ s.cost[y] \in Nat
    <3>1. k \in 0..k
      BY <2>5
    <3> QED  BY <1>2, <2>1, <2>2, <2>13, <2>16, <3>1
  <2>18. p = <<>> <=> k = 0
    BY <2>5, <2>7, EmptySeq
  <2>19. End(start, p) = y
    <3>1. k # 0 => k \in 1..k
      BY <2>5
    <3> QED  BY <2>2, <2>5, <2>7, <2>18, <3>1 DEF End
  <2>20. ASSUME NEW other, IsPath(graph, start, other), End(start, other) \in goals
         PROVE  PathCost(graph, start, p) <= PathCost(graph, start, other)
    <3> DEFINE n == Len(other)
    <3>1. PICK v, d : /\ IsWalk(graph, n, v, d) /\ v[0] = start /\ v[n] = End(start, other)
                      /\ d[n] = PathCost(graph, start, other)
      BY <2>20, PathIsWalk
    <3> HIDE DEF n
    <3>2. s.cost[y] <= d[n]
      BY <2>1, <2>20, <3>1 DEF Cheapest
    <3>3. d[n] \in Int
      BY <3>1 DEF IsWalk
    <3> QED  BY <2>12, <2>17, <3>1, <3>2, <3>3
  <2>21. IsLeastPath(graph, start, goals, p)
    BY <2>1, <2>9, <2>19, <2>20 DEF IsLeastPath
  <2> QED  BY <2>1, <2>4, <2>19, <2>21
<1>4. ASSUME Over(s), s.final = {}, NEW path, IsPath(graph, start, path), End(start, path) \in goals
      PROVE  FALSE
  <2> DEFINE n == Len(path)
  <2>1. PICK w, c : IsWalk(graph, n, w, c) /\ w[0] = start /\ w[n] = End(start, path)
    BY <1>4, PathIsWalk
  <2> HIDE DEF n
  <2>2. \E i \in 0..n : Queued(s, estimate, w[i])
    BY <1>1, <1>4, <2>1, SomeWaits
  <2>3. s.queue = {}
    BY <1>4 DEF Over
  <2> QED  BY <2>2, <2>3 DEF Queued
<1> QED  BY <1>3, <1>4

-----------------------------------------------------------------------------
(* What a search with enough turns says: where there is a path to a goal it *)
(* has found one, and with any number of turns what it has found is a       *)
(* cheapest path.                                                           *)
LEMMA SearchDecides ==
  ASSUME NEW graph, IsGraph(graph), IsFiniteSet(DOMAIN graph), NEW start \in DOMAIN graph, NEW goals,
         NEW estimate \in [DOMAIN graph -> Nat], Admissible(graph, goals, estimate), NEW turns \in Nat,
         NEW s, s = Search(graph, start, goals, estimate, turns)
  PROVE  /\ s.final # {} => IsLeastPath(graph, start, goals, PathTo(s)) /\ s.final = {End(start, PathTo(s))}
         /\ turns >= EnoughTurns(graph) =>
                (s.final = {} <=> ~\E path : IsPath(graph, start, path) /\ End(start, path) \in goals)
<1>1. EnoughTurns(graph) \in Nat /\ Over(Search(graph, start, goals, estimate, EnoughTurns(graph)))
  BY SearchEnds
<1>2. /\ s.final # {} => IsLeastPath(graph, start, goals, PathTo(s)) /\ s.final = {End(start, PathTo(s))}
      /\ Over(s) /\ s.final = {} => ~\E path : IsPath(graph, start, path) /\ End(start, path) \in goals
  BY SearchFindsLeast
<1>3. turns >= EnoughTurns(graph) => Over(s)
  BY <1>1, SearchStaysOver
<1> QED  BY <1>2, <1>3 DEF IsLeastPath

(* AStarFindPath finds a path to a goal exactly if there is one, and the    *)
(* one it finds is a cheapest, for any finite graph and any estimate that   *)
(* never exceeds what is left of the way, consistent or not: a node that    *)
(* turns out nearer is looked at again, entries left behind in the queue do *)
(* no harm, "from" never runs in a circle, be there edges that cost         *)
(* nothing, and the queue is empty after EnoughTurns.                       *)
THEOREM AStarFindsLeast ==
  ASSUME NEW graph, IsGraph(graph), IsFiniteSet(DOMAIN graph), NEW start \in DOMAIN graph, NEW goals,
         NEW estimate \in [DOMAIN graph -> Nat], Admissible(graph, goals, estimate)
  PROVE  LET s == AStarFindPath(graph, start, goals, estimate)
         IN  /\ s.final # {} => IsLeastPath(graph, start, goals, PathTo(s)) /\ s.final = {End(start, PathTo(s))}
             /\ s.final = {} <=> ~\E path : IsPath(graph, start, path) /\ End(start, path) \in goals
<1>1. EnoughTurns(graph) \in Nat /\ EnoughTurns(graph) >= EnoughTurns(graph)
  BY SizesAre
<1> QED  BY <1>1, SearchDecides DEF AStarFindPath

(* DijkstraFindPath does so too; with a bound on its expansions that is too *)
(* low it finds a cheapest path or none.                                    *)
THEOREM DijkstraFindsLeast ==
  ASSUME NEW graph, IsGraph(graph), IsFiniteSet(DOMAIN graph), NEW start \in DOMAIN graph, NEW goals,
         NEW maxExpansions \in Nat
  PROVE  LET s == DijkstraFindPath(graph, start, goals, maxExpansions)
         IN  /\ s.final # {} => IsLeastPath(graph, start, goals, PathTo(s)) /\ s.final = {End(start, PathTo(s))}
             /\ maxExpansions >= EnoughTurns(graph) =>
                    (s.final = {} <=> ~\E path : IsPath(graph, start, path) /\ End(start, path) \in goals)
<1> DEFINE estimate == [n \in DOMAIN graph |-> 0]
<1>1. estimate \in [DOMAIN graph -> Nat] /\ \A n \in DOMAIN graph : estimate[n] = 0
  OBVIOUS
<1>2. DijkstraFindPath(graph, start, goals, maxExpansions) = Search(graph, start, goals, estimate, maxExpansions)
  BY DEF DijkstraFindPath
<1> HIDE DEF estimate
<1>3. Admissible(graph, goals, estimate)
  <2> SUFFICES ASSUME NEW n \in DOMAIN graph, NEW path, IsPath(graph, n, path)
               PROVE  0 <= PathCost(graph, n, path)
    BY <1>1 DEF Admissible
  <2>1. PICK w, c : IsWalk(graph, Len(path), w, c) /\ c[Len(path)] = PathCost(graph, n, path)
    BY PathIsWalk
  <2> QED  BY <2>1, WalkCostsNoLess
<1> QED  BY <1>1, <1>2, <1>3, SearchDecides

-----------------------------------------------------------------------------
(* A way round can be left out: the paths of Ways, which have no more edges *)
(* than there are other nodes, stand for all.                               *)

LEMMA CostsRise ==
  ASSUME NEW graph, IsGraph(graph), NEW k, NEW w, NEW c, IsWalk(graph, k, w, c),
         NEW a \in 0..k, NEW b \in 0..k, a < b
  PROVE  c[a] <= c[b]
<1> DEFINE n == b - a
           T == {i \in 0..n : c[a] <= c[a+i]}
<1>1. /\ k \in Nat /\ w \in [0..k -> DOMAIN graph] /\ c \in [0..k -> Int]
      /\ \A i \in 1..k : w[i] \in DOMAIN graph[w[i-1]] /\ c[i] = c[i-1] + graph[w[i-1]][w[i]]
  BY DEF IsWalk
<1>2. n \in Nat /\ a + 0 = a /\ a + n = b /\ n \in 0..n /\ 0 \in 0..n /\ a \in Nat /\ c[a] \in Int
  BY <1>1
<1>3. 0 \in T
  BY <1>2
<1>4. ASSUME NEW i \in 0..(n-1), i \in T PROVE i + 1 \in T
  <2>1. /\ i + 1 \in 0..n /\ a + (i + 1) \in 1..k /\ (a + (i + 1)) - 1 = a + i /\ a + i \in 0..k
    BY <1>1, <1>2
  <2>2. /\ c[a+(i+1)] = c[a+i] + graph[w[a+i]][w[a+(i+1)]]
        /\ w[a+i] \in DOMAIN graph /\ w[a+(i+1)] \in DOMAIN graph[w[a+i]]
    BY <1>1, <2>1
  <2>3. graph[w[a+i]][w[a+(i+1)]] \in Nat /\ c[a+i] \in Int
    BY <1>1, <2>1, <2>2 DEF IsGraph
  <2>4. c[a] <= c[a+i]
    BY <1>4
  <2>5. c[a] <= c[a+(i+1)]
    BY <1>2, <2>2, <2>3, <2>4
  <2> QED  BY <2>1, <2>5
<1>5. \A i \in 0..n : i \in T
  <2> HIDE DEF T, n
  <2> QED  BY <1>2, <1>3, <1>4, UpTo
<1> QED  BY <1>2, <1>5

LEMMA WayRoundLeftOut ==
  ASSUME NEW graph, IsGraph(graph), NEW k, NEW w, NEW c, IsWalk(graph, k, w, c),
         NEW a \in 0..k, NEW b \in 0..k, a < b, w[a] = w[b]
  PROVE  \E j \in Nat : \E v, d : /\ j < k /\ IsWalk(graph, j, v, d)
                                  /\ v[0] = w[0] /\ v[j] = w[k] /\ d[j] <= c[k]
<1> DEFINE r == b - a
           j == k - r
           x == c[b] - c[a]
           v == [i \in 0..j |-> IF i <= a THEN w[i] ELSE w[i+r]]
           d == [i \in 0..j |-> IF i <= a THEN c[i] ELSE c[i+r] - x]
<1>1. /\ k \in Nat /\ w \in [0..k -> DOMAIN graph] /\ c \in [0..k -> Int] /\ c[0] = 0
      /\ \A i \in 1..k : w[i] \in DOMAIN graph[w[i-1]] /\ c[i] = c[i-1] + graph[w[i-1]][w[i]]
  BY DEF IsWalk
<1>2. c[a] <= c[b] /\ c[a] \in Int /\ c[b] \in Int
  BY <1>1, CostsRise
<1>3. /\ r \in Nat /\ r > 0 /\ j \in Nat /\ j < k /\ a \in 0..j /\ a \in Nat /\ b = a + r /\ j + r = k
      /\ b \in Nat /\ 0 \in 0..j /\ j \in 0..j
  BY <1>1
<1>4. x \in Int /\ x >= 0
  BY <1>2
<1>5. \A i \in 0..j : i \in 0..k /\ i + r \in 0..k
  BY <1>1, <1>3
<1> HIDE DEF r, j, x
<1>6. \A i \in 0..j : /\ v[i] = (IF i <= a THEN w[i] ELSE w[i+r])
                      /\ d[i] = (IF i <= a THEN c[i] ELSE c[i+r] - x)
  OBVIOUS
<1>7. v \in [0..j -> DOMAIN graph] /\ d \in [0..j -> Int]
  <2>1. v \in [0..j -> DOMAIN graph]
    BY <1>1, <1>5
  <2>2. \A i \in 0..j : c[i] \in Int /\ c[i+r] - x \in Int
    BY <1>1, <1>4, <1>5
  <2>3. d \in [0..j -> Int]
    BY <2>2
  <2> QED  BY <2>1, <2>3
<1> HIDE DEF v, d
<1>8. v[0] = w[0] /\ d[0] = 0
  BY <1>1, <1>3, <1>6
<1>9. ASSUME NEW i \in 1..j
      PROVE  v[i] \in DOMAIN graph[v[i-1]] /\ d[i] = d[i-1] + graph[v[i-1]][v[i]]
  <2>1. i \in 0..j /\ i - 1 \in 0..j /\ i \in 1..k /\ i + r \in 1..k /\ (i + r) - 1 = (i - 1) + r
    BY <1>1, <1>3
  <2>2. CASE i <= a
    <3>1. v[i] = w[i] /\ v[i-1] = w[i-1] /\ d[i] = c[i] /\ d[i-1] = c[i-1]
      BY <1>3, <1>6, <2>1, <2>2
    <3> QED  BY <1>1, <2>1, <3>1
  <2>3. CASE i = a + 1
    <3>1. i - 1 = a /\ (i + r) - 1 = b
      BY <1>3, <2>3
    <3>2. v[i] = w[i+r] /\ v[i-1] = w[b] /\ d[i] = c[i+r] - x /\ d[i-1] = c[a]
      BY <1>3, <1>6, <2>1, <2>3, <3>1
    <3>3. w[i+r] \in DOMAIN graph[w[b]] /\ c[i+r] = c[b] + graph[w[b]][w[i+r]]
      BY <1>1, <2>1, <3>1
    <3>4. graph[w[b]][w[i+r]] \in Nat
      BY <1>1, <3>3 DEF IsGraph
    <3>5. (c[b] + graph[w[b]][w[i+r]]) - x = c[a] + graph[w[b]][w[i+r]]
      BY <1>2, <3>4 DEF x
    <3> QED  BY <3>2, <3>3, <3>5
  <2>4. CASE i > a + 1
    <3>1. ~(i <= a) /\ ~(i - 1 <= a)
      BY <1>3, <2>4
    <3>2. v[i] = w[i+r] /\ v[i-1] = w[(i+r)-1] /\ d[i] = c[i+r] - x /\ d[i-1] = c[(i+r)-1] - x
      BY <1>6, <2>1, <3>1
    <3>3. w[i+r] \in DOMAIN graph[w[(i+r)-1]] /\ c[i+r] = c[(i+r)-1] + graph[w[(i+r)-1]][w[i+r]]
      BY <1>1, <2>1
    <3>4. graph[w[(i+r)-1]][w[i+r]] \in Nat /\ c[(i+r)-1] \in Int
      <4>1. (i + r) - 1 \in 0..k
        BY <1>5, <2>1
      <4> QED  BY <1>1, <3>3, <4>1 DEF IsGraph
    <3> QED  BY <1>4, <3>2, <3>3, <3>4
  <2> QED  BY <1>3, <2>2, <2>3, <2>4
<1>10. IsWalk(graph, j, v, d)
  BY <1>3, <1>7, <1>8, <1>9 DEF IsWalk
<1>11. v[j] = w[k] /\ d[j] <= c[k]
  <2>1. CASE j = a
    <3>1. k = b
      BY <1>3, <2>1
    <3> QED  BY <1>2, <1>3, <1>6, <2>1, <3>1
  <2>2. CASE j # a
    <3>1. ~(j <= a) /\ k \in 0..k
      BY <1>1, <1>3, <2>2
    <3>2. v[j] = w[k] /\ d[j] = c[k] - x /\ c[k] \in Int
      BY <1>1, <1>3, <1>6, <3>1
    <3> QED  BY <1>4, <3>2
  <2> QED  BY <2>1, <2>2
<1> QED  BY <1>3, <1>8, <1>10, <1>11

LEMMA Shortened ==
  ASSUME NEW graph, IsGraph(graph), IsFiniteSet(DOMAIN graph), NEW k, NEW w, NEW c, IsWalk(graph, k, w, c)
  PROVE  \E j \in 0..(Cardinality(DOMAIN graph) - 1) : \E v, d :
             IsWalk(graph, j, v, d) /\ v[0] = w[0] /\ v[j] = w[k] /\ d[j] <= c[k]
<1> DEFINE L == {j \in Nat : \E v, d : IsWalk(graph, j, v, d) /\ v[0] = w[0] /\ v[j] = w[k] /\ d[j] <= c[k]}
           N == Cardinality(DOMAIN graph)
<1>1. k \in Nat /\ c[k] \in Int /\ N \in Nat
  BY FS_CardinalityType DEF IsWalk
<1>2. k \in L
  <2>1. c[k] <= c[k]
    BY <1>1
  <2> QED  BY <1>1, <2>1
<1>3. PICK j \in L : \A i \in L : j <= i
  <2>1. L \subseteq Nat /\ L # {}
    BY <1>2
  <2> HIDE DEF L
  <2> QED  BY <2>1, Lowest
<1>4. PICK v, d : j \in Nat /\ IsWalk(graph, j, v, d) /\ v[0] = w[0] /\ v[j] = w[k] /\ d[j] <= c[k]
  OBVIOUS
<1>5. v \in [0..j -> DOMAIN graph] /\ d[j] \in Int
  BY <1>4 DEF IsWalk
<1>6. ASSUME NEW a \in 0..j, NEW b \in 0..j, a < b, v[a] = v[b] PROVE FALSE
  <2>1. PICK i \in Nat : \E u, e : /\ i < j /\ IsWalk(graph, i, u, e)
                                   /\ u[0] = v[0] /\ u[i] = v[j] /\ e[i] <= d[j]
    BY <1>4, <1>6, WayRoundLeftOut
  <2>2. PICK u, e : /\ i < j /\ IsWalk(graph, i, u, e)
                    /\ u[0] = v[0] /\ u[i] = v[j] /\ e[i] <= d[j]
    BY <2>1
  <2>3. e[i] \in Int
    BY <2>2 DEF IsWalk
  <2>4. e[i] <= c[k]
    BY <1>1, <1>4, <1>5, <2>2, <2>3
  <2>5. i \in L
    BY <1>4, <2>2, <2>4
  <2>6. j <= i
    BY <1>3, <2>5
  <2> QED  BY <1>4, <2>2, <2>6
<1> HIDE DEF L, N
<1>7. ASSUME j >= N PROVE FALSE
  <2>1. IsFiniteSet(0..j) /\ Cardinality(0..j) = j + 1
    <3>1. 0 \in Int /\ j \in Int /\ ~(0 > j) /\ j - 0 + 1 = j + 1
      BY <1>4
    <3> QED  BY <3>1, FS_Interval
  <2>2. Cardinality(DOMAIN graph) < Cardinality(0..j)
    BY <1>1, <1>4, <1>7, <2>1 DEF N
  <2>3. PICK a \in 0..j, b \in 0..j : a # b /\ v[a] = v[b]
    BY <1>5, <2>1, <2>2, FS_PigeonHole
  <2>4. a < b \/ b < a
    BY <1>4, <2>3
  <2> QED  BY <1>6, <2>3, <2>4
<1>8. j \in 0..(N - 1)
  BY <1>1, <1>4, <1>7
<1> QED  BY <1>4, <1>8 DEF N

LEMMA WaysEnough ==
  ASSUME NEW graph, IsGraph(graph), IsFiniteSet(DOMAIN graph), NEW start \in DOMAIN graph, NEW goals,
         NEW path, IsPath(graph, start, path), End(start, path) \in goals
  PROVE  \E way \in Ways(graph, start, goals) :
             PathCost(graph, start, way) \in Int /\ PathCost(graph, start, path) \in Int
             /\ PathCost(graph, start, way) <= PathCost(graph, start, path)
<1> DEFINE n == Len(path)
<1>1. PICK w, c : /\ IsWalk(graph, n, w, c) /\ w[0] = start /\ w[n] = End(start, path)
                  /\ c[n] = PathCost(graph, start, path)
  BY PathIsWalk
<1> HIDE DEF n
<1>2. PICK j \in 0..(Cardinality(DOMAIN graph) - 1) : \E v, d :
              IsWalk(graph, j, v, d) /\ v[0] = w[0] /\ v[j] = w[n] /\ d[j] <= c[n]
  BY <1>1, Shortened
<1>3. PICK v, d : IsWalk(graph, j, v, d) /\ v[0] = w[0] /\ v[j] = w[n] /\ d[j] <= c[n]
  BY <1>2
<1> DEFINE way == [i \in 1..j |-> v[i]]
<1>4. IsPath(graph, start, way) /\ End(start, way) = End(start, path) /\ PathCost(graph, start, way) = d[j]
  BY <1>1, <1>3, WalkIsPath
<1>5. way \in [1..j -> DOMAIN graph]
  BY <1>3 DEF IsWalk
<1>6. d[j] \in Int /\ c[n] \in Int
  BY <1>1, <1>3 DEF IsWalk
<1> HIDE DEF way
<1>7. way \in Ways(graph, start, goals)
  BY <1>4, <1>5 DEF Ways
<1> QED  BY <1>1, <1>3, <1>4, <1>6, <1>7

LEMMA ModestAdmissible ==
  ASSUME NEW graph, IsGraph(graph), IsFiniteSet(DOMAIN graph), NEW goals,
         NEW estimate \in [DOMAIN graph -> Nat], Modest(graph, goals, estimate)
  PROVE  Admissible(graph, goals, estimate)
<1> SUFFICES ASSUME NEW n \in DOMAIN graph, NEW path, IsPath(graph, n, path), End(n, path) \in goals
             PROVE  estimate[n] <= PathCost(graph, n, path)
  BY DEF Admissible
<1>1. PICK way \in Ways(graph, n, goals) :
          PathCost(graph, n, way) \in Int /\ PathCost(graph, n, path) \in Int
          /\ PathCost(graph, n, way) <= PathCost(graph, n, path)
  BY WaysEnough
<1>2. estimate[n] <= PathCost(graph, n, way) /\ estimate[n] \in Nat
  BY DEF Modest
<1> QED  BY <1>1, <1>2

LEMMA FoundIsShortest ==
  ASSUME NEW graph, IsGraph(graph), IsFiniteSet(DOMAIN graph), NEW start \in DOMAIN graph, NEW goals,
         NEW s, s.final # {} => IsLeastPath(graph, start, goals, PathTo(s)) /\ s.final = {End(start, PathTo(s))},
         s.final = {} => ~\E path : IsPath(graph, start, path) /\ End(start, path) \in goals
  PROVE  IsShortest(graph, start, goals, s)
<1>1. \A path \in Ways(graph, start, goals) : IsPath(graph, start, path) /\ End(start, path) \in goals
  BY DEF Ways
<1>2. CASE s.final = {}
  BY <1>1, <1>2 DEF IsShortest
<1>3. CASE s.final # {}
  <2>1. IsPath(graph, start, PathTo(s)) /\ End(start, PathTo(s)) \in goals
    BY <1>3 DEF IsLeastPath
  <2>2. Ways(graph, start, goals) # {}
    BY <2>1, WaysEnough
  <2>3. \A path \in Ways(graph, start, goals) : PathCost(graph, start, PathTo(s)) <= PathCost(graph, start, path)
    BY <1>1, <1>3 DEF IsLeastPath
  <2> QED  BY <1>3, <2>1, <2>2, <2>3 DEF IsShortest
<1> QED  BY <1>2, <1>3

(* What the run tries on small graphs holds for all graphs there are:       *)
(* DijkstraFindPath, stopped after any number of expansions, has found a    *)
(* cheapest path or none, and has found one, if there is a path, once they  *)
(* are enough.                                                              *)
THEOREM DijkstraShortest == Spec => []DijkstraIsShortest
<1>1. DijkstraIsShortest
  <2> SUFFICES ASSUME NEW t \in Trial, NEW goals \in SUBSET DOMAIN t.graph, NEW most \in 0..EnoughTurns(t.graph),
                      NEW search, search = DijkstraFindPath(t.graph, t.start, goals, most)
               PROVE  \/ IsShortest(t.graph, t.start, goals, search)
                      \/ most < EnoughTurns(t.graph) /\ search.final = {}
    BY DEF DijkstraIsShortest
  <2>1. IsGraph(t.graph) /\ IsFiniteSet(DOMAIN t.graph) /\ t.start \in DOMAIN t.graph
    BY TrialAssumption
  <2>2. EnoughTurns(t.graph) \in Nat
    BY <2>1, SizesAre
  <2>3. most \in Nat
    BY <2>2
  <2>4. /\ search.final # {} => /\ IsLeastPath(t.graph, t.start, goals, PathTo(search))
                                /\ search.final = {End(t.start, PathTo(search))}
        /\ most >= EnoughTurns(t.graph) =>
               (search.final = {} <=> ~\E path : IsPath(t.graph, t.start, path) /\ End(t.start, path) \in goals)
    BY <2>1, <2>3, DijkstraFindsLeast
  <2>5. CASE search.final = {} /\ most < EnoughTurns(t.graph)
    BY <2>5
  <2>6. CASE search.final # {} \/ most >= EnoughTurns(t.graph)
    BY <2>1, <2>4, <2>6, FoundIsShortest
  <2> QED  BY <2>2, <2>3, <2>5, <2>6
<1> QED  BY <1>1, PTL

(* AStarFindPath has found a cheapest path, exactly if there is a path, for *)
(* every estimate that never exceeds what is left of the way.               *)
THEOREM AStarShortest == Spec => []AStarIsShortest
<1>1. AStarIsShortest
  <2> SUFFICES ASSUME NEW t \in Trial, NEW goal \in DOMAIN t.graph, NEW estimate \in [DOMAIN t.graph -> Guess],
                      Modest(t.graph, {goal}, estimate)
               PROVE  IsShortest(t.graph, t.start, {goal}, AStarFindPath(t.graph, t.start, {goal}, estimate))
    BY DEF AStarIsShortest
  <2>1. IsGraph(t.graph) /\ IsFiniteSet(DOMAIN t.graph) /\ t.start \in DOMAIN t.graph
    BY TrialAssumption
  <2>2. estimate \in [DOMAIN t.graph -> Nat]
    BY TrialAssumption
  <2>3. Admissible(t.graph, {goal}, estimate)
    BY <2>1, <2>2, ModestAdmissible
  <2> DEFINE search == AStarFindPath(t.graph, t.start, {goal}, estimate)
  <2>4. /\ search.final # {} => /\ IsLeastPath(t.graph, t.start, {goal}, PathTo(search))
                                /\ search.final = {End(t.start, PathTo(search))}
        /\ search.final = {} <=> ~\E path : IsPath(t.graph, t.start, path) /\ End(t.start, path) \in {goal}
    BY <2>1, <2>2, <2>3, AStarFindsLeast
  <2> HIDE DEF search
  <2>5. IsShortest(t.graph, t.start, {goal}, search)
    BY <2>1, <2>4, FoundIsShortest
  <2> QED  BY <2>5 DEF search
<1> QED  BY <1>1, PTL

=============================================================================
