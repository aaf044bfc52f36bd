------------------------------ MODULE StoreProofs ------------------------------
(***************************************************************************)
(* What the operators of module EventStore do, for any files and events.    *)
(* Whole events are read of a file, and those of a Zone picked, in order,   *)
(* as they were written; a snapshot is a file of its own, and replays to    *)
(* what the Zone held; and from the last snapshot and the events after it   *)
(* a Zone becomes what all its events make of it (Reloaded).                *)
(*                                                                         *)
(* Recursive functions are shown to exist first, by the least argument at   *)
(* which they would not: the library states that Nat is well founded.       *)
(***************************************************************************)
EXTENDS EventStore, SequenceTheorems, FiniteSetTheorems, WellFoundedInduction, TLAPS

-----------------------------------------------------------------------------
(* What is said of a log is proved from its end.  The library states that  *)
(* the natural numbers are well founded; the rest follows.                 *)

Less == {ss \in Nat \X Nat : ss[1] < ss[2]}

LEMMA Lowest ==
  ASSUME NEW T, T \subseteq Nat, T # {}
  PROVE  \E x \in T : \A y \in T : x <= y
<1>1. IsWellFoundedOn(Less, Nat)
  BY NatLessThanWellFounded DEF OpToRel, Less
<1>2. PICK x \in T : \A y \in T : <<y, x>> \notin Less
  BY <1>1, WFMin
<1>3. ASSUME NEW y \in T PROVE x <= y
  <2>1. x \in Nat /\ y \in Nat
    OBVIOUS
  <2>2. y < x => <<y, x>> \in Less
    BY <2>1 DEF Less
  <2> QED  BY <1>2, <2>1, <2>2
<1> QED  BY <1>3

LEMMA Highest ==
  ASSUME NEW n \in Nat, NEW T, T \subseteq 1..n, T # {}
  PROVE  \E x \in T : \A y \in T : y <= x
<1> DEFINE U == {n - x : x \in T}
<1>1. U \subseteq Nat /\ U # {}
  <2>1. \A x \in T : n - x \in Nat
    <3> SUFFICES ASSUME NEW x \in T PROVE n - x \in Nat
      OBVIOUS
    <3>1. x \in Int /\ x <= n
      OBVIOUS
    <3> QED  BY <3>1
  <2> QED  BY <2>1
<1> HIDE DEF U
<1>2. PICK u \in U : \A v \in U : u <= v
  BY <1>1, Lowest
<1>3. PICK x \in T : u = n - x
  BY DEF U
<1>4. ASSUME NEW y \in T PROVE y <= x
  <2>1. n - y \in U  BY DEF U
  <2>2. u <= n - y  BY <1>2, <2>1
  <2> QED  BY <1>3, <2>2
<1> QED  BY <1>4

-----------------------------------------------------------------------------
(* The event files *)

LEMMA Along ==
  ASSUME NEW N \in Nat, NEW T, T \subseteq 0..N, 0 \in T,
         \A n \in 0..(N-1) : n \in T => n + 1 \in T
  PROVE  T = 0..N
<1> DEFINE Bad == (0..N) \ T
<1> SUFFICES ASSUME Bad # {} PROVE FALSE
  OBVIOUS
<1>1. Bad \subseteq Nat
  OBVIOUS
<1> HIDE DEF Bad
<1>2. PICK m \in Bad : \A y \in Bad : m <= y
  BY <1>1, Lowest
<1>3. m \in 1..N /\ m - 1 \in 0..(N-1) /\ m - 1 < m /\ ~(m <= m - 1) /\ (m - 1) + 1 = m
  BY DEF Bad
<1>4. m - 1 \notin Bad /\ m \notin T
  BY <1>2, <1>3 DEF Bad
<1>5. m - 1 \in T
  BY <1>3, <1>4 DEF Bad
<1> QED  BY <1>3, <1>4, <1>5

EventType ==
    {e \in [zone : Zone, num : Number, kind : {"add", "remove", "default", "dodge"}, item : Item] :
        e.kind = "default" => e.item \in Location}

Piece == [part : {"header", "body", "torn"}, of : EventType]

LEMMA EventFacts ==
  ASSUME NEW e \in EventType
  PROVE  /\ e.zone \in Zone /\ e.num \in Number /\ e.item \in Item
         /\ e.kind \in {"add", "remove", "default", "dodge"}
         /\ e.kind = "default" => e.item \in Location
         /\ Header(e) \in Piece /\ Body(e) \in Piece
         /\ Header(e).part = "header" /\ Body(e).part = "body"
         /\ Header(e).of = e /\ Body(e).of = e
BY DEF EventType, Piece, Header, Body

LEMMA PieceFacts ==
  ASSUME NEW p \in Piece
  PROVE  /\ p.of \in EventType /\ Torn(p) \in Piece
         /\ Torn(p).part = "torn"
BY DEF Piece, Torn

(* A file that begins with some events, and reading it.                    *)
Begins(file, s) ==
    /\ 2 * Len(s) <= Len(file)
    /\ \A i \in 1..Len(s) : file[2*i - 1] = Header(s[i]) /\ file[2*i] = Body(s[i])

IsEventAt(file, i) ==
    /\ file[2*i - 1].part = "header"
    /\ file[2*i] = Body(file[2*i - 1].of)

GoodParts(file) == {i \in 1..(Len(file) \div 2) : \A j \in 1..i : IsEventAt(file, j)}

LEMMA ReadEventsIs ==
  ASSUME NEW file
  PROVE  ReadEvents(file) = [events |-> [i \in GoodParts(file) |-> file[2*i].of],
                             ok |-> 2 * Cardinality(GoodParts(file)) = Len(file)]
BY DEF ReadEvents, GoodParts, IsEventAt

LEMMA Halves ==
  ASSUME NEW n \in Nat
  PROVE  /\ n \div 2 \in Nat
         /\ \A i \in Nat : i <= n \div 2 <=> 2 * i <= n
OBVIOUS

LEMMA CountTo ==
  ASSUME NEW m \in Nat
  PROVE  Cardinality(1..m) = m
<1>1. 1 \in Int /\ m \in Int
  OBVIOUS
<1>2. Cardinality(1..m) = IF 1 > m THEN 0 ELSE m - 1 + 1
  BY ONLY <1>1, FS_Interval, Zenon
<1>3. (IF 1 > m THEN 0 ELSE m - 1 + 1) = m
  OBVIOUS
<1> QED  BY <1>2, <1>3

(* What is read is what the file begins with, and nothing but whole events. *)
LEMMA ReadIs ==
  ASSUME NEW file \in Seq(Piece), NEW s \in Seq(EventType), Begins(file, s),
         2 * (Len(s) + 1) <= Len(file) => ~IsEventAt(file, Len(s) + 1)
  PROVE  /\ ReadEvents(file).events = s
         /\ ReadEvents(file).ok <=> Len(file) = 2 * Len(s)
<1> DEFINE n == Len(file)
           m == Len(s)
<1>1. n \in Nat /\ m \in Nat /\ 2 * m <= n
  BY LenProperties DEF Begins
<1>2. \A i \in 1..m : /\ IsEventAt(file, i) /\ file[2*i].of = s[i]
  <2> SUFFICES ASSUME NEW i \in 1..m PROVE IsEventAt(file, i) /\ file[2*i].of = s[i]
    OBVIOUS
  <2>1. s[i] \in EventType
    BY ElementOfSeq
  <2>2. file[2*i - 1] = Header(s[i]) /\ file[2*i] = Body(s[i])
    BY DEF Begins
  <2> QED  BY <2>1, <2>2, EventFacts DEF IsEventAt
<1>3. GoodParts(file) = 1..m
  <2>1. ASSUME NEW i \in 1..m PROVE i \in GoodParts(file)
    <3>1. i \in 1..(n \div 2)
      <4>1. i \in Nat /\ 2 * i <= n /\ 1 <= i
        BY <1>1
      <4> HIDE DEF n
      <4> QED  BY <1>1, <4>1, Halves
    <3>2. \A j \in 1..i : j \in 1..m
      BY <1>1
    <3> QED  BY <1>2, <3>1, <3>2 DEF GoodParts
  <2>2. ASSUME NEW i \in GoodParts(file), i \notin 1..m PROVE FALSE
    <3>1. i \in 1..(n \div 2) /\ \A j \in 1..i : IsEventAt(file, j)
      BY <2>2 DEF GoodParts
    <3>2. i \in Nat /\ 2 * i <= n /\ m + 1 <= i /\ m + 1 \in 1..i
      <4> HIDE DEF n, m
      <4>1. i \in Nat /\ i <= n \div 2
        BY <1>1, <3>1, Halves
      <4> QED  BY <1>1, <2>2, <3>1, <4>1, Halves
    <3>3. 2 * (m + 1) <= n
      BY <1>1, <3>2
    <3> QED  BY <3>1, <3>2, <3>3
  <2> QED  BY <2>1, <2>2
<1>4. Cardinality(1..m) = m
  BY <1>1, CountTo
<1>5. s = [i \in 1..m |-> s[i]]
  BY LenProperties
<1>6. [i \in 1..m |-> file[2*i].of] = s
  BY <1>2, <1>5
<1> QED  BY <1>3, <1>4, <1>6, ReadEventsIs

(* Whatever is in a file, some events are read. *)
LEMMA ReadTyped ==
  ASSUME NEW file \in Seq(Piece)
  PROVE  /\ ReadEvents(file).events \in Seq(EventType)
         /\ ReadEvents(file).ok \in BOOLEAN
         /\ Begins(file, ReadEvents(file).events)
         /\ ReadEvents(file).ok => Len(file) = 2 * Len(ReadEvents(file).events)
         /\ 2 * (Len(ReadEvents(file).events) + 1) <= Len(file)
               => ~IsEventAt(file, Len(ReadEvents(file).events) + 1)
<1> DEFINE n == Len(file)
           good == GoodParts(file)
<1>1. n \in Nat
  BY LenProperties
<1>2. PICK m \in Nat : good = 1..m /\ 2 * m <= n
  <2>1. CASE good = {}
    <3>1. good = 1..0 /\ 2 * 0 <= n
      BY <1>1, <2>1
    <3> QED  BY <3>1
  <2>2. CASE good # {}
    <3>1. good \subseteq 1..(n \div 2) /\ n \div 2 \in Nat
      <4> HIDE DEF n
      <4>1. n \div 2 \in Nat
        BY <1>1, Halves
      <4> QED  BY <4>1 DEF GoodParts, n
    <3> HIDE DEF good, n
    <3>2. PICK m \in good : \A i \in good : i <= m
      BY <2>2, <3>1, Highest
    <3>3. m \in Nat /\ m \in 1..(n \div 2) /\ 2 * m <= n
      BY <1>1, <3>1, Halves
    <3>4. \A j \in 1..m : j \in good
      <4> SUFFICES ASSUME NEW j \in 1..m PROVE j \in good
        OBVIOUS
      <4>1. \A k \in 1..m : IsEventAt(file, k)
        BY DEF good, GoodParts
      <4>2. j \in 1..(n \div 2) /\ \A k \in 1..j : k \in 1..m
        BY <3>1, <3>3
      <4> QED  BY <4>1, <4>2 DEF good, GoodParts, n
    <3>5. \A j \in good : j \in 1..m
      BY <3>1, <3>2, <3>3
    <3> QED  BY <3>3, <3>4, <3>5
  <2> QED  BY <2>1, <2>2
<1> DEFINE s == ReadEvents(file).events
<1>3. s = [i \in 1..m |-> file[2*i].of]
  BY <1>2, ReadEventsIs
<1>4. \A i \in 1..m : IsEventAt(file, i)
  <2> SUFFICES ASSUME NEW i \in 1..m PROVE IsEventAt(file, i)
    OBVIOUS
  <2>1. i \in good /\ i \in 1..i
    BY <1>2
  <2> QED  BY <2>1 DEF GoodParts
<1>5. \A i \in 1..m : 2*i \in 1..n /\ 2*i - 1 \in 1..n
  BY <1>1, <1>2
<1>6. \A i \in 1..m : /\ file[2*i].of \in EventType
                      /\ file[2*i - 1] = Header(file[2*i].of)
                      /\ file[2*i] = Body(file[2*i].of)
  <2> SUFFICES ASSUME NEW i \in 1..m PROVE /\ file[2*i].of \in EventType
                                           /\ file[2*i - 1] = Header(file[2*i].of)
                                           /\ file[2*i] = Body(file[2*i].of)
    OBVIOUS
  <2>1. file[2*i] \in Piece /\ file[2*i - 1] \in Piece
    BY <1>5, ElementOfSeq
  <2> DEFINE p == file[2*i - 1]
             q == file[2*i]
  <2>2. p \in Piece /\ q \in Piece /\ p.part = "header" /\ q = Body(p.of)
    BY <1>4, <2>1 DEF IsEventAt
  <2> HIDE DEF p, q
  <2>3. q.of = p.of /\ p = Header(p.of)
    BY <2>2 DEF Piece, Header, Body
  <2>4. q.of \in EventType /\ p = Header(q.of) /\ q = Body(q.of)
    BY <2>2, <2>3, PieceFacts
  <2> QED  BY <2>4 DEF p, q
<1>7. s \in Seq(EventType) /\ Len(s) = m
  <2> DEFINE g == [i \in 1..m |-> file[2*i].of]
  <2>1. g \in Seq(EventType)
    BY <1>6, IsASeq
  <2>2. DOMAIN g = 1..m
    OBVIOUS
  <2> HIDE DEF g
  <2>3. Len(g) = m
    BY <1>2, <2>1, <2>2, LenProperties
  <2> QED  BY <1>3, <2>1, <2>3 DEF g
<1>8. \A i \in 1..m : s[i] = file[2*i].of
  BY <1>3
<1>9. Begins(file, s)
  BY <1>2, <1>6, <1>7, <1>8 DEF Begins
<1>10. Cardinality(1..m) = m
  BY <1>2, CountTo
<1>11. ReadEvents(file).ok = (2 * m = n)
  BY <1>2, <1>10, ReadEventsIs
<1>12. 2 * (m + 1) <= n => ~IsEventAt(file, m + 1)
  <2> SUFFICES ASSUME 2 * (m + 1) <= n, IsEventAt(file, m + 1) PROVE FALSE
    OBVIOUS
  <2>1. m + 1 \in 1..(n \div 2)
    <3> HIDE DEF n
    <3>1. m + 1 \in Nat /\ 1 <= m + 1
      BY <1>2
    <3> QED  BY <1>1, <3>1, Halves
  <2>2. \A j \in 1..(m + 1) : IsEventAt(file, j)
    BY <1>2, <1>4
  <2>3. m + 1 \in good
    BY <2>1, <2>2 DEF GoodParts
  <2> QED  BY <1>2, <2>3
<1> HIDE DEF s
<1> QED  BY <1>7, <1>9, <1>11, <1>12 DEF s

LEMMA PartAfterEvents ==
  ASSUME NEW file \in Seq(Piece), NEW p \in Piece,
         Len(file) = 2 * Len(ReadEvents(file).events)
  PROVE  /\ ReadEvents(Append(file, p)).events = ReadEvents(file).events
         /\ Len(Append(file, p)) = 2 * Len(ReadEvents(file).events) + 1
         /\ Append(file, p)[Len(Append(file, p))] = p
<1> DEFINE s == ReadEvents(file).events
           f == Append(file, p)
<1>1. s \in Seq(EventType) /\ Begins(file, s) /\ Len(file) = 2 * Len(s)
  BY ReadTyped
<1>2. /\ f \in Seq(Piece) /\ Len(f) = Len(file) + 1
      /\ \A i \in 1..Len(file) : f[i] = file[i]
      /\ f[Len(file) + 1] = p
  BY AppendProperties
<1>3. Len(s) \in Nat /\ Len(file) \in Nat
  BY <1>1, LenProperties
<1> HIDE DEF s, f
<1>4. Begins(f, s)
  <2>1. \A i \in 1..Len(s) : 2*i \in 1..Len(file) /\ 2*i - 1 \in 1..Len(file)
    BY <1>1, <1>3
  <2>2. 2 * Len(s) <= Len(f)
    BY <1>1, <1>2, <1>3
  <2> QED  BY <1>1, <1>2, <2>1, <2>2 DEF Begins
<1>5. ~(2 * (Len(s) + 1) <= Len(f)) /\ Len(f) = 2 * Len(s) + 1
  BY <1>1, <1>2, <1>3
<1>6. ReadEvents(f).events = s
  BY <1>1, <1>2, <1>4, <1>5, ReadIs
<1> QED  BY <1>1, <1>2, <1>5, <1>6 DEF s, f

LEMMA PartAfterHeader ==
  ASSUME NEW file \in Seq(Piece), NEW p \in Piece, NEW e \in EventType,
         Len(file) = 2 * Len(ReadEvents(file).events) + 1,
         file[Len(file)] = Header(e)
  PROVE  /\ p = Body(e) => /\ ReadEvents(Append(file, p)).events = Append(ReadEvents(file).events, e)
                           /\ Len(Append(file, p)) = 2 * Len(Append(ReadEvents(file).events, e))
         /\ p.part = "torn" => ReadEvents(Append(file, p)).events = ReadEvents(file).events
<1> DEFINE s == ReadEvents(file).events
           f == Append(file, p)
           m == Len(s)
<1>1. s \in Seq(EventType) /\ Begins(file, s) /\ Len(file) = 2 * m + 1
  BY ReadTyped
<1>2. /\ f \in Seq(Piece) /\ Len(f) = Len(file) + 1
      /\ \A i \in 1..Len(file) : f[i] = file[i]
      /\ f[Len(file) + 1] = p
  BY AppendProperties
<1>3. m \in Nat /\ Len(file) \in Nat
  BY <1>1, LenProperties
<1> HIDE DEF s, f, m
<1>4. Begins(file, s) /\ m = Len(s)
  BY <1>1 DEF m
<1>5. \A i \in 1..m : f[2*i - 1] = Header(s[i]) /\ f[2*i] = Body(s[i])
  <2>1. \A i \in 1..m : 2*i \in 1..Len(file) /\ 2*i - 1 \in 1..Len(file)
    BY <1>1, <1>3
  <2> QED  BY <1>2, <1>4, <2>1 DEF Begins
<1>6. f[2*(m+1) - 1] = Header(e) /\ f[2*(m+1)] = p /\ Len(f) = 2*(m+1)
  <2>1. 2*(m+1) - 1 = Len(file) /\ 2*(m+1) = Len(file) + 1 /\ Len(file) \in 1..Len(file)
    BY <1>1, <1>3
  <2> QED  BY <1>2, <2>1
<1>7. ASSUME p = Body(e)
      PROVE  ReadEvents(f).events = Append(s, e) /\ Len(f) = 2 * Len(Append(s, e))
  <2> DEFINE t == Append(s, e)
  <2>1. /\ t \in Seq(EventType) /\ Len(t) = m + 1
        /\ \A i \in 1..m : t[i] = s[i]
        /\ t[m + 1] = e
    BY <1>1, <1>4, AppendProperties
  <2> HIDE DEF t
  <2>2. ASSUME NEW i \in 1..Len(t) PROVE f[2*i - 1] = Header(t[i]) /\ f[2*i] = Body(t[i])
    <3>1. CASE i = m + 1
      BY <1>6, <1>7, <2>1, <3>1
    <3>2. CASE i # m + 1
      <4>1. i \in 1..m
        BY <1>3, <2>1, <3>2
      <4> QED  BY <1>5, <2>1, <4>1
    <3> QED  BY <3>1, <3>2
  <2>3. Begins(f, t) /\ Len(f) = 2 * Len(t)
    BY <1>3, <1>6, <2>1, <2>2 DEF Begins
  <2>4. ~(2 * (Len(t) + 1) <= Len(f))
    BY <1>3, <2>1, <2>3
  <2> QED  BY <1>2, <2>1, <2>3, <2>4, ReadIs DEF t
<1>8. ASSUME p.part = "torn" PROVE ReadEvents(f).events = s
  <2>1. Begins(f, s)
    <3>1. 2 * Len(s) <= Len(f)
      BY <1>3, <1>4, <1>6
    <3> QED  BY <1>4, <1>5, <3>1 DEF Begins
  <2>2. ~IsEventAt(f, m + 1)
    <3>1. Body(f[2*(m+1) - 1].of).part = "body"
      BY DEF Body
    <3> QED  BY <1>6, <1>8, <3>1 DEF IsEventAt
  <2> QED  BY <1>1, <1>2, <1>4, <2>1, <2>2, ReadIs
<1> QED  BY <1>7, <1>8 DEF s, f

(* Parts of sequences. *)
LEMMA PrefixStep ==
  ASSUME NEW S, NEW s \in Seq(S), NEW k \in 0..(Len(s) - 1)
  PROVE  /\ SubSeq(s, 1, k) \in Seq(S) /\ s[k + 1] \in S
         /\ SubSeq(s, 1, k + 1) = Append(SubSeq(s, 1, k), s[k + 1])
<1> DEFINE n == Len(s)
<1>1. n \in Nat
  BY LenProperties
<1>2. k + 1 \in 1..n /\ (k + 1) - 1 = k /\ k \in 0..n /\ 1 \in 1..n /\ k + 1 \in 1..n
  BY <1>1
<1>3. SubSeq(s, 1, k + 1) = SubSeq(s, 1, k) \o <<s[k + 1]>>
  BY <1>2, SubSeqRecursiveSecond
<1>4. SubSeq(s, 1, k) \in Seq(S)
  <2>1. \A i \in 1..k : s[i] \in S
    BY <1>2, ElementOfSeq
  <2>2. 1 \in Int /\ k \in Int
    BY <1>2
  <2> QED  BY <2>1, <2>2, SubSeqProperties
<1>5. s[k + 1] \in S
  BY <1>2, ElementOfSeq
<1> QED  BY <1>3, <1>4, <1>5, AppendIsConcat

LEMMA PartOf ==
  ASSUME NEW S, NEW s \in Seq(S), NEW p \in 0..Len(s), NEW q \in p..Len(s)
  PROVE  /\ SubSeq(s, p + 1, q) \in Seq(S)
         /\ Len(SubSeq(s, p + 1, q)) = q - p
         /\ \A i \in 1..(q - p) : SubSeq(s, p + 1, q)[i] = s[p + i]
<1> DEFINE t == SubSeq(s, p + 1, q)
<1>1. Len(s) \in Nat /\ p \in Nat /\ q \in Nat /\ p + 1 \in Int /\ q \in Int
  BY LenProperties
<1>2. \A i \in (p+1)..q : s[i] \in S
  <2>1. \A i \in (p+1)..q : i \in 1..Len(s)
    BY <1>1
  <2> QED  BY <2>1, ElementOfSeq
<1>3. /\ t \in Seq(S)
      /\ Len(t) = IF p + 1 <= q THEN q - (p + 1) + 1 ELSE 0
      /\ \A i \in 1..(q - (p + 1) + 1) : t[i] = s[(p + 1) + i - 1]
  BY <1>1, <1>2, SubSeqProperties
<1> HIDE DEF t
<1>4. Len(t) = q - p /\ q - (p + 1) + 1 = q - p
  BY <1>1, <1>3
<1>5. \A i \in 1..(q - p) : (p + 1) + i - 1 = p + i
  BY <1>1
<1>6. \A i \in 1..(q - p) : t[i] = s[p + i]
  BY <1>3, <1>4, <1>5
<1> QED  BY <1>3, <1>4, <1>6 DEF t

LEMMA PartsMeet ==
  ASSUME NEW S, NEW s \in Seq(S), NEW p \in 0..Len(s), NEW q \in p..Len(s)
  PROVE  /\ SubSeq(s, 1, p) \in Seq(S) /\ Len(SubSeq(s, 1, p)) = p
         /\ \A i \in 1..p : SubSeq(s, 1, p)[i] = s[i]
         /\ SubSeq(s, 1, p) \o SubSeq(s, p + 1, q) = SubSeq(s, 1, q)
<1>1. Len(s) \in Nat /\ p \in Nat /\ q \in Nat
  BY LenProperties
<1>2. SubSeq(s, 1, p) \o SubSeq(s, p + 1, q) = SubSeq(s, 1, q)
  <2>1. 1 \in 1..(Len(s) + 1) /\ p \in (1 - 1)..Len(s) /\ q \in p..Len(s)
    BY <1>1
  <2> QED  BY <2>1, ConcatAdjacentSubSeq
<1>3. /\ SubSeq(s, 0 + 1, p) \in Seq(S) /\ Len(SubSeq(s, 0 + 1, p)) = p - 0
      /\ \A i \in 1..(p - 0) : SubSeq(s, 0 + 1, p)[i] = s[0 + i]
  <2>1. 0 \in 0..Len(s) /\ p \in 0..Len(s)
    BY <1>1
  <2> QED  BY <2>1, PartOf
<1>4. 0 + 1 = 1 /\ p - 0 = p /\ \A i \in 1..p : 0 + i = i
  BY <1>1
<1> QED  BY <1>2, <1>3, <1>4

LEMMA PartOfAppend ==
  ASSUME NEW S, NEW s \in Seq(S), NEW e \in S, NEW p \in 0..Len(s)
  PROVE  SubSeq(Append(s, e), 1, p) = SubSeq(s, 1, p)
<1> DEFINE u == Append(s, e)
<1>1. /\ u \in Seq(S) /\ Len(u) = Len(s) + 1 /\ Len(s) \in Nat
      /\ \A i \in 1..Len(s) : u[i] = s[i]
  BY AppendProperties, LenProperties
<1> HIDE DEF u
<1>2. /\ SubSeq(s, 1, p) \in Seq(S) /\ Len(SubSeq(s, 1, p)) = p
      /\ \A i \in 1..p : SubSeq(s, 1, p)[i] = s[i]
  <2>1. Len(s) \in p..Len(s)
    BY <1>1
  <2> QED  BY <2>1, PartsMeet
<1>3. /\ SubSeq(u, 1, p) \in Seq(S) /\ Len(SubSeq(u, 1, p)) = p
      /\ \A i \in 1..p : SubSeq(u, 1, p)[i] = u[i]
  <2>1. p \in 0..Len(u) /\ Len(u) \in p..Len(u)
    BY <1>1
  <2> QED  BY <1>1, <2>1, PartsMeet
<1>4. \A i \in 1..p : i \in 1..Len(s)
  BY <1>1
<1>5. \A i \in 1..p : SubSeq(u, 1, p)[i] = SubSeq(s, 1, p)[i]
  BY <1>1, <1>2, <1>3, <1>4
<1>6. SubSeq(u, 1, p) = SubSeq(s, 1, p)
  BY <1>2, <1>3, <1>5, SeqEqual
<1> QED  BY <1>6 DEF u

LEMMA ConcatAppend ==
  ASSUME NEW S, NEW s \in Seq(S), NEW t \in Seq(S), NEW e \in S
  PROVE  s \o Append(t, e) = Append(s \o t, e)
<1>1. <<e>> \in Seq(S) /\ s \o t \in Seq(S)
  BY ConcatProperties
<1>2. Append(t, e) = t \o <<e>> /\ Append(s \o t, e) = (s \o t) \o <<e>>
  BY <1>1, AppendIsConcat
<1> QED  BY <1>1, <1>2, ConcatAssociative

(* What holds of the empty sequence, and of a sequence with one more at the *)
(* end of it, holds of all.                                                 *)
LEMMA ByAppending ==
  ASSUME NEW S, NEW T, <<>> \in T, \A s \in Seq(S), e \in S : s \in T => Append(s, e) \in T
  PROVE  Seq(S) \subseteq T
<1> SUFFICES ASSUME NEW s \in Seq(S) PROVE s \in T
  OBVIOUS
<1> DEFINE n == Len(s)
           P(k) == SubSeq(s, 1, k) \in T
           U == {k \in 0..n : P(k)}
<1>1. n \in Nat
  BY LenProperties
<1>2. 0 \in U
  <2>1. SubSeq(s, 1, 0) = <<>>
    BY SubSeqEmpty
  <2>2. P(0)
    BY <2>1, Zenon
  <2> HIDE DEF P, n
  <2> QED  BY <1>1, <2>2
<1>3. ASSUME NEW k \in 0..(n-1), k \in U PROVE k + 1 \in U
  <2>1. /\ SubSeq(s, 1, k) \in Seq(S) /\ s[k + 1] \in S
        /\ SubSeq(s, 1, k + 1) = Append(SubSeq(s, 1, k), s[k + 1])
    BY PrefixStep
  <2>2. SubSeq(s, 1, k) \in T
    BY <1>3
  <2>3. Append(SubSeq(s, 1, k), s[k + 1]) \in T
    BY <2>1, <2>2
  <2>4. P(k + 1)
    BY <2>1, <2>3
  <2> HIDE DEF P, n
  <2> QED  BY <1>1, <2>4
<1>4. U = 0..n
  <2> HIDE DEF n
  <2>1. U \subseteq 0..n
    OBVIOUS
  <2> HIDE DEF U
  <2> QED  BY <1>1, <1>2, <1>3, <2>1, Along
<1>5. n \in U
  <2> HIDE DEF U, n
  <2> QED  BY <1>1, <1>4
<1>6. SubSeq(s, 1, n) = s
  BY SubSeqFull
<1> QED  BY <1>5, <1>6

-----------------------------------------------------------------------------
(* The events of one Zone *)

KeptBody(s, z, first, h, k) ==
    IF k = 0 THEN <<>>
    ELSE IF s[k].zone = z /\ s[k].num >= first THEN Append(h[k-1], s[k]) ELSE h[k-1]

LEMMA KeptExists ==
  ASSUME NEW z, NEW first, NEW s \in Seq(EventType)
  PROVE  \E h : h = [k \in 0..Len(s) |-> KeptBody(s, z, first, h, k)]
<1> DEFINE T == {t \in Seq(EventType) : \E h : h = [k \in 0..Len(t) |-> KeptBody(t, z, first, h, k)]}
<1>1. <<>> \in T
  <2> DEFINE h == [k \in 0..0 |-> <<>>]
  <2>1. h = [k \in 0..0 |-> KeptBody(<<>>, z, first, h, k)]
    BY DEF KeptBody
  <2>2. Len(<<>>) = 0 /\ <<>> \in Seq(EventType)
    OBVIOUS
  <2> HIDE DEF h
  <2> QED  BY <2>1, <2>2
<1>2. ASSUME NEW t \in Seq(EventType), NEW e \in EventType, t \in T PROVE Append(t, e) \in T
  <2> DEFINE u == Append(t, e)
             n == Len(t)
  <2>1. PICK h : h = [k \in 0..n |-> KeptBody(t, z, first, h, k)]
    BY <1>2
  <2>2. /\ u \in Seq(EventType) /\ Len(u) = n + 1 /\ n \in Nat
        /\ \A i \in 1..n : u[i] = t[i]
    BY AppendProperties, LenProperties
  <2> HIDE DEF u, n
  <2> DEFINE g == [k \in 0..(n+1) |-> IF k = n + 1 THEN KeptBody(u, z, first, h, k) ELSE h[k]]
  <2>3. \A k \in 0..n : g[k] = h[k]
    BY <2>2
  <2>4. g[n+1] = KeptBody(u, z, first, h, n + 1)
    BY <2>2
  <2>5. DOMAIN g = 0..(n+1) /\ g = [k \in 0..(n+1) |-> g[k]]
    OBVIOUS
  <2> HIDE DEF g
  <2>6. ASSUME NEW k \in 0..(n+1) PROVE g[k] = KeptBody(u, z, first, g, k)
    <3>1. CASE k = n + 1
      <4>1. k # 0 /\ k - 1 \in 0..n
        BY <2>2, <3>1
      <4> QED  BY <2>3, <2>4, <3>1, <4>1 DEF KeptBody
    <3>2. CASE k # n + 1
      <4>1. k \in 0..n /\ (k # 0 => k \in 1..n /\ k - 1 \in 0..n)
        BY <2>2, <3>2
      <4>2. g[k] = KeptBody(t, z, first, h, k)
        BY <2>1, <2>3, <4>1
      <4> QED  BY <2>2, <2>3, <4>1, <4>2 DEF KeptBody
    <3> QED  BY <3>1, <3>2
  <2>7. g = [k \in 0..Len(u) |-> KeptBody(u, z, first, g, k)]
    BY <2>2, <2>5, <2>6
  <2> QED  BY <2>2, <2>7 DEF u
<1> HIDE DEF T
<1>3. s \in T
  BY <1>1, <1>2, ByAppending
<1> QED  BY <1>3 DEF T

LEMMA KeptEquation ==
  ASSUME NEW z, NEW first, NEW s \in Seq(EventType)
  PROVE  \E h : /\ EventsOf(s, z, first) = h[Len(s)]
                /\ \A k \in 0..Len(s) : h[k] = KeptBody(s, z, first, h, k)
<1> DEFINE h == CHOOSE f : f = [k \in 0..Len(s) |-> KeptBody(s, z, first, f, k)]
<1>1. h = [k \in 0..Len(s) |-> KeptBody(s, z, first, h, k)]
  BY KeptExists
<1>2. EventsOf(s, z, first) = h[Len(s)]
  BY DEF EventsOf, KeptBody
<1> HIDE DEF h
<1> QED  BY <1>1, <1>2

LEMMA EventsOfEmpty ==
  ASSUME NEW z, NEW first
  PROVE  EventsOf(<<>>, z, first) = <<>>
<1>1. <<>> \in Seq(EventType) /\ Len(<<>>) = 0
  OBVIOUS
<1>2. PICK h : /\ EventsOf(<<>>, z, first) = h[Len(<<>>)]
               /\ \A k \in 0..Len(<<>>) : h[k] = KeptBody(<<>>, z, first, h, k)
  BY <1>1, KeptEquation
<1>3. 0 \in 0..Len(<<>>)
  BY <1>1
<1> QED  BY <1>1, <1>2, <1>3 DEF KeptBody

LEMMA EventsOfAppend ==
  ASSUME NEW z, NEW first, NEW s \in Seq(EventType), NEW e \in EventType
  PROVE  EventsOf(Append(s, e), z, first) =
            IF e.zone = z /\ e.num >= first THEN Append(EventsOf(s, z, first), e)
                                            ELSE EventsOf(s, z, first)
<1> DEFINE u == Append(s, e)
           n == Len(s)
<1>1. /\ u \in Seq(EventType) /\ Len(u) = n + 1 /\ n \in Nat
      /\ \A i \in 1..n : u[i] = s[i]
      /\ u[n + 1] = e
  BY AppendProperties, LenProperties
<1>2. PICK h : /\ EventsOf(s, z, first) = h[n]
               /\ \A k \in 0..n : h[k] = KeptBody(s, z, first, h, k)
  BY KeptEquation
<1> HIDE DEF u
<1>3. PICK g : /\ EventsOf(u, z, first) = g[Len(u)]
               /\ \A k \in 0..Len(u) : g[k] = KeptBody(u, z, first, g, k)
  BY <1>1, KeptEquation
<1> HIDE DEF n
<1> DEFINE T == {k \in 0..n : g[k] = h[k]}
<1>4. 0 \in T
  <2>1. 0 \in 0..n /\ 0 \in 0..Len(u)
    BY <1>1
  <2>2. h[0] = <<>> /\ g[0] = <<>>
    BY <1>2, <1>3, <2>1 DEF KeptBody
  <2> QED  BY <2>1, <2>2
<1>5. ASSUME NEW k \in 0..(n-1), k \in T PROVE k + 1 \in T
  <2>1. k + 1 \in 0..n /\ k + 1 \in 0..Len(u) /\ (k + 1) - 1 = k /\ k + 1 # 0 /\ k + 1 \in 1..n
    BY <1>1
  <2>2. g[k] = h[k] /\ u[k+1] = s[k+1]
    BY <1>1, <1>5, <2>1
  <2>3. h[k+1] = KeptBody(s, z, first, h, k+1) /\ g[k+1] = KeptBody(u, z, first, g, k+1)
    BY <1>2, <1>3, <2>1
  <2>4. h[k+1] = g[k+1]
    BY <2>1, <2>2, <2>3 DEF KeptBody
  <2> QED  BY <2>1, <2>4
<1>6. T = 0..n
  <2>1. T \subseteq 0..n
    OBVIOUS
  <2> HIDE DEF T
  <2> QED  BY <1>1, <1>4, <1>5, <2>1, Along
<1>7. g[n] = h[n]
  <2>1. n \in T
    BY <1>1, <1>6
  <2> QED  BY <2>1
<1>8. g[n+1] = KeptBody(u, z, first, g, n+1) /\ (n + 1) - 1 = n /\ n + 1 # 0
  BY <1>1, <1>3
<1>9. EventsOf(u, z, first) = IF e.zone = z /\ e.num >= first THEN Append(h[n], e) ELSE h[n]
  BY <1>1, <1>3, <1>7, <1>8 DEF KeptBody
<1> QED  BY <1>2, <1>9 DEF u

LEMMA EventsOfTyped ==
  ASSUME NEW z, NEW first, NEW s \in Seq(EventType)
  PROVE  EventsOf(s, z, first) \in Seq(EventType)
<1> DEFINE T == {t \in Seq(EventType) : EventsOf(t, z, first) \in Seq(EventType)}
<1>1. <<>> \in T
  <2>1. <<>> \in Seq(EventType)
    OBVIOUS
  <2>2. EventsOf(<<>>, z, first) = <<>>
    BY EventsOfEmpty
  <2> QED  BY <2>1, <2>2
<1>2. ASSUME NEW t \in Seq(EventType), NEW e \in EventType, t \in T PROVE Append(t, e) \in T
  <2>1. EventsOf(t, z, first) \in Seq(EventType) /\ Append(t, e) \in Seq(EventType)
    BY <1>2, AppendProperties
  <2>2. Append(EventsOf(t, z, first), e) \in Seq(EventType)
    BY <2>1, AppendProperties
  <2> QED  BY <2>1, <2>2, EventsOfAppend
<1> HIDE DEF T
<1>3. s \in T
  BY <1>1, <1>2, ByAppending
<1> QED  BY <1>3 DEF T

-----------------------------------------------------------------------------
(* Numbers *)

LEMMA Modulo ==
  ASSUME NEW m \in Nat \ {0}, NEW n \in Nat
  PROVE  /\ n % m \in 0..(m-1)
         /\ n < m => n % m = n
         /\ m <= n /\ n < 2 * m => n % m = n - m
OBVIOUS

LEMMA PlusFacts ==
  ASSUME NEW n \in Nat, NEW k \in Nat
  PROVE  /\ Plus(n, k) \in Number
         /\ n + k <= MaxUint => Plus(n, k) = n + k
         /\ MaxUint < n + k /\ n + k <= 2 * MaxUint => Plus(n, k) = n + k - (MaxUint + 1)
<1> DEFINE m == MaxUint + 1
           t == n + k
<1>1. m \in Nat \ {0} /\ MaxUint \in Nat /\ t \in Nat
  BY StoreAssumption
<1>2. Plus(n, k) = t % m
  BY DEF Plus
<1>3. m = MaxUint + 1 /\ t = n + k
  OBVIOUS
<1> HIDE DEF m
<1>4. /\ t % m \in 0..(m-1)
      /\ t < m => t % m = t
      /\ m <= t /\ t < 2 * m => t % m = t - m
  BY <1>1, Modulo
<1> HIDE DEF t
<1>5. /\ t % m \in Number
      /\ t <= MaxUint => t % m = t
      /\ MaxUint < t /\ t <= 2 * MaxUint => t % m = t - (MaxUint + 1)
  BY <1>1, <1>3, <1>4 DEF Number
<1> QED  BY <1>2, <1>3, <1>5

LEMMA LastSequenceNumFacts ==
  ASSUME NEW c, c.next \in Number
  PROVE  /\ LastSequenceNum(c) \in Number
         /\ LastSequenceNum(c) = IF c.next = 0 THEN MaxUint ELSE c.next - 1
<1>1. c.next \in Nat /\ MaxUint \in Nat \ {0} /\ c.next <= MaxUint
  BY StoreAssumption DEF Number
<1>2. /\ LastSequenceNum(c) = Plus(c.next, MaxUint) /\ Plus(c.next, MaxUint) \in Number
      /\ c.next + MaxUint <= MaxUint => Plus(c.next, MaxUint) = c.next + MaxUint
      /\ MaxUint < c.next + MaxUint /\ c.next + MaxUint <= 2 * MaxUint
            => Plus(c.next, MaxUint) = c.next + MaxUint - (MaxUint + 1)
  BY <1>1, PlusFacts DEF LastSequenceNum
<1>3. CASE c.next = 0
  BY <1>1, <1>2, <1>3
<1>4. CASE c.next # 0
  BY <1>1, <1>2, <1>4
<1> QED  BY <1>3, <1>4

-----------------------------------------------------------------------------
(* Replaying events *)

FiniteContent == {c \in Content : IsFiniteSet(c.has)}

Replayed == [ok : BOOLEAN, zone : FiniteContent]

R(s) == Replay([events |-> s, ok |-> TRUE])

OneEvent(before, e) ==
    IF before.ok /\ Applicable(before.zone, e)
    THEN [ok |-> TRUE, zone |-> Applied(before.zone, e)]
    ELSE [before EXCEPT !.ok = FALSE]

AfterBody(s, h, k) ==
    IF k = 0 THEN [ok |-> TRUE, zone |-> NewZone] ELSE OneEvent(h[k-1], s[k])

LEMMA NewZoneTyped == NewZone \in FiniteContent
<1>1. 0 \in Number
  BY StoreAssumption DEF Number
<1> QED  BY <1>1, FS_EmptySet DEF NewZone, FiniteContent, Content

LEMMA AppliedFields ==
  ASSUME NEW c, NEW e
  PROVE  /\ Applied(c, e).has = (c.has \ (IF e.kind = "remove" THEN {e.item} ELSE {}))
                                   \cup (IF e.kind = "add" THEN {e.item} ELSE {})
         /\ Applied(c, e).astray = c.astray \cup
               {i \in (IF e.kind = "add" THEN {e.item} ELSE {}) :
                    i \in c.has \/ ~(Container[i] \subseteq c.has)}
         /\ Applied(c, e).default = IF e.kind = "default" THEN {e.item} ELSE c.default
         /\ Applied(c, e).next = Plus(e.num, 1)
BY DEF Applied

LEMMA AppliedTyped ==
  ASSUME NEW c \in FiniteContent, NEW e \in EventType
  PROVE  Applied(c, e) \in FiniteContent
<1>1. /\ c.has \subseteq Item /\ c.astray \subseteq Item /\ c.default \subseteq Location
      /\ IsFiniteSet(c.has)
  BY DEF FiniteContent, Content
<1>2. /\ e.item \in Item /\ e.num \in Nat
      /\ e.kind = "default" => e.item \in Location
  BY EventFacts DEF Number
<1>3. Plus(e.num, 1) \in Number
  BY <1>2, PlusFacts
<1> DEFINE less == c.has \ (IF e.kind = "remove" THEN {e.item} ELSE {})
           more == less \cup (IF e.kind = "add" THEN {e.item} ELSE {})
<1>4. IsFiniteSet(less)
  BY <1>1, FS_Subset
<1>5. IsFiniteSet(more)
  <2>1. CASE e.kind = "add"
    <3> HIDE DEF less
    <3>1. IsFiniteSet(less \cup {e.item})
      BY <1>4, FS_AddElement
    <3> QED  BY <2>1, <3>1
  <2>2. CASE e.kind # "add"
    <3> HIDE DEF less
    <3>1. more = less
      BY <2>2
    <3> QED  BY <1>4, <3>1
  <2> QED  BY <2>1, <2>2
<1> DEFINE d == Applied(c, e)
<1>6. d = [has |-> d.has, astray |-> d.astray, default |-> d.default, next |-> d.next]
  BY DEF Applied
<1>7. /\ d.has = more /\ d.astray \subseteq Item /\ more \subseteq Item
      /\ d.default \subseteq Location /\ d.next \in Number
  <2>1. d.has = more /\ d.next \in Number
    BY <1>3, AppliedFields
  <2>2. more \subseteq Item
    BY <1>1, <1>2
  <2>3. d.astray \subseteq Item
    <3>1. d.astray = c.astray \cup
               {i \in (IF e.kind = "add" THEN {e.item} ELSE {}) :
                    i \in c.has \/ ~(Container[i] \subseteq c.has)}
      BY AppliedFields
    <3> QED  BY <1>1, <1>2, <3>1
  <2>4. d.default \subseteq Location
    <3>1. d.default = IF e.kind = "default" THEN {e.item} ELSE c.default
      BY AppliedFields
    <3> HIDE DEF d
    <3> QED  BY <1>1, <1>2, <3>1
  <2> QED  BY <2>1, <2>2, <2>3, <2>4
<1> HIDE DEF d, more
<1>8. d \in Content
  BY <1>6, <1>7 DEF Content
<1> QED  BY <1>5, <1>7, <1>8 DEF d, FiniteContent

LEMMA OneEventTyped ==
  ASSUME NEW r \in Replayed, NEW e \in EventType
  PROVE  OneEvent(r, e) \in Replayed
<1>1. r.zone \in FiniteContent
  BY DEF Replayed
<1>2. Applied(r.zone, e) \in FiniteContent
  BY <1>1, AppliedTyped
<1> QED  BY <1>2 DEF OneEvent, Replayed

LEMMA AfterExists ==
  ASSUME NEW s \in Seq(EventType)
  PROVE  \E h : h = [k \in 0..Len(s) |-> AfterBody(s, h, k)]
<1> DEFINE T == {t \in Seq(EventType) : \E h : h = [k \in 0..Len(t) |-> AfterBody(t, h, k)]}
<1>1. <<>> \in T
  <2> DEFINE h == [k \in 0..0 |-> [ok |-> TRUE, zone |-> NewZone]]
  <2>1. h = [k \in 0..0 |-> AfterBody(<<>>, h, k)]
    BY DEF AfterBody
  <2>2. Len(<<>>) = 0 /\ <<>> \in Seq(EventType)
    OBVIOUS
  <2> HIDE DEF h
  <2> QED  BY <2>1, <2>2
<1>2. ASSUME NEW t \in Seq(EventType), NEW e \in EventType, t \in T PROVE Append(t, e) \in T
  <2> DEFINE u == Append(t, e)
             n == Len(t)
  <2>1. PICK h : h = [k \in 0..n |-> AfterBody(t, h, k)]
    BY <1>2
  <2>2. /\ u \in Seq(EventType) /\ Len(u) = n + 1 /\ n \in Nat
        /\ \A i \in 1..n : u[i] = t[i]
    BY AppendProperties, LenProperties
  <2> HIDE DEF u, n
  <2> DEFINE g == [k \in 0..(n+1) |-> IF k = n + 1 THEN AfterBody(u, h, k) ELSE h[k]]
  <2>3. \A k \in 0..n : g[k] = h[k]
    BY <2>2
  <2>4. g[n+1] = AfterBody(u, h, n + 1)
    BY <2>2
  <2>5. DOMAIN g = 0..(n+1) /\ g = [k \in 0..(n+1) |-> g[k]]
    OBVIOUS
  <2> HIDE DEF g
  <2>6. ASSUME NEW k \in 0..(n+1) PROVE g[k] = AfterBody(u, g, k)
    <3>1. CASE k = n + 1
      <4>1. k # 0 /\ k - 1 \in 0..n
        BY <2>2, <3>1
      <4> QED  BY <2>3, <2>4, <3>1, <4>1 DEF AfterBody
    <3>2. CASE k # n + 1
      <4>1. k \in 0..n /\ (k # 0 => k \in 1..n /\ k - 1 \in 0..n)
        BY <2>2, <3>2
      <4>2. g[k] = AfterBody(t, h, k)
        BY <2>1, <2>3, <4>1
      <4> QED  BY <2>2, <2>3, <4>1, <4>2 DEF AfterBody
    <3> QED  BY <3>1, <3>2
  <2>7. g = [k \in 0..Len(u) |-> AfterBody(u, g, k)]
    BY <2>2, <2>5, <2>6
  <2> QED  BY <2>2, <2>7 DEF u
<1> HIDE DEF T
<1>3. s \in T
  BY <1>1, <1>2, ByAppending
<1> QED  BY <1>3 DEF T

LEMMA AfterEquation ==
  ASSUME NEW s \in Seq(EventType)
  PROVE  \E h : /\ \A b : Replay([events |-> s, ok |-> b]) = [h[Len(s)] EXCEPT !.ok = @ /\ b]
                /\ \A k \in 0..Len(s) : h[k] = AfterBody(s, h, k) /\ h[k] \in Replayed
<1> DEFINE h == CHOOSE f : f = [k \in 0..Len(s) |-> AfterBody(s, f, k)]
<1>1. h = [k \in 0..Len(s) |-> AfterBody(s, h, k)]
  BY AfterExists
<1>2. ASSUME NEW b PROVE Replay([events |-> s, ok |-> b]) = [h[Len(s)] EXCEPT !.ok = @ /\ b]
  BY DEF Replay, AfterBody, OneEvent
<1> HIDE DEF h
<1> DEFINE n == Len(s)
           T == {k \in 0..n : h[k] \in Replayed}
<1>3. n \in Nat
  BY LenProperties
<1>4. \A k \in 0..n : h[k] = AfterBody(s, h, k)
  BY <1>1
<1>6. \A k \in 1..n : s[k] \in EventType
  BY ElementOfSeq
<1> HIDE DEF n
<1>7. 0 \in T
  <2>1. 0 \in 0..n
    BY <1>3
  <2>2. h[0] = [ok |-> TRUE, zone |-> NewZone]
    BY <1>4, <2>1 DEF AfterBody
  <2>3. h[0] \in Replayed
    BY <2>2, NewZoneTyped DEF Replayed
  <2> QED  BY <2>1, <2>3
<1>8. ASSUME NEW k \in 0..(n-1), k \in T PROVE k + 1 \in T
  <2>1. k + 1 \in 0..n /\ (k + 1) - 1 = k /\ k + 1 # 0 /\ k + 1 \in 1..n
    BY <1>3
  <2>2. h[k+1] = OneEvent(h[k], s[k+1])
    BY <1>4, <2>1 DEF AfterBody
  <2>3. h[k+1] \in Replayed
    BY <1>6, <1>8, <2>1, <2>2, OneEventTyped
  <2> QED  BY <2>1, <2>3
<1>9. T = 0..n
  <2>1. T \subseteq 0..n
    OBVIOUS
  <2> HIDE DEF T
  <2> QED  BY <1>3, <1>7, <1>8, <2>1, Along
<1>10. \A k \in 0..n : h[k] = AfterBody(s, h, k) /\ h[k] \in Replayed
  BY <1>4, <1>9
<1> QED  BY <1>2, <1>10 DEF n

LEMMA ReplayFacts ==
  ASSUME NEW s \in Seq(EventType)
  PROVE  /\ R(s) \in Replayed
         /\ \A b \in BOOLEAN : Replay([events |-> s, ok |-> b])
                                  = [ok |-> R(s).ok /\ b, zone |-> R(s).zone]
<1>1. PICK h : /\ \A b : Replay([events |-> s, ok |-> b]) = [h[Len(s)] EXCEPT !.ok = @ /\ b]
               /\ \A k \in 0..Len(s) : h[k] = AfterBody(s, h, k) /\ h[k] \in Replayed
  BY AfterEquation
<1> DEFINE l == h[Len(s)]
<1>2. l \in Replayed
  <2>1. Len(s) \in 0..Len(s)
    BY LenProperties
  <2> QED  BY <1>1, <2>1
<1>3. \A b : Replay([events |-> s, ok |-> b]) = [l EXCEPT !.ok = @ /\ b]
  BY <1>1
<1> HIDE DEF l
<1>4. R(s) = [l EXCEPT !.ok = @ /\ TRUE]
  BY <1>3 DEF R
<1>5. R(s) = l
  <2>1. l.ok \in BOOLEAN /\ l = [ok |-> l.ok, zone |-> l.zone]
    BY <1>2 DEF Replayed
  <2>2. (l.ok /\ TRUE) = l.ok
    BY <2>1
  <2> QED  BY <1>4, <2>1, <2>2
<1>6. ASSUME NEW b \in BOOLEAN
      PROVE  Replay([events |-> s, ok |-> b]) = [ok |-> R(s).ok /\ b, zone |-> R(s).zone]
  <2>1. [l EXCEPT !.ok = @ /\ b] = [ok |-> l.ok /\ b, zone |-> l.zone]
    BY <1>2 DEF Replayed
  <2> QED  BY <1>3, <1>5, <2>1
<1> QED  BY <1>2, <1>5, <1>6

LEMMA ReplayEmpty == R(<<>>) = [ok |-> TRUE, zone |-> NewZone]
<1>1. <<>> \in Seq(EventType) /\ Len(<<>>) = 0
  OBVIOUS
<1>2. PICK h : /\ \A b : Replay([events |-> <<>>, ok |-> b]) = [h[Len(<<>>)] EXCEPT !.ok = @ /\ b]
               /\ \A k \in 0..Len(<<>>) : h[k] = AfterBody(<<>>, h, k) /\ h[k] \in Replayed
  BY <1>1, AfterEquation
<1>3. 0 \in 0..Len(<<>>)
  BY <1>1
<1>4. h[0] = [ok |-> TRUE, zone |-> NewZone]
  BY <1>2, <1>3 DEF AfterBody
<1>5. R(<<>>) = [h[0] EXCEPT !.ok = @ /\ TRUE]
  BY <1>1, <1>2 DEF R
<1> DEFINE l == [ok |-> TRUE, zone |-> NewZone]
<1>6. l.ok = TRUE /\ l.zone = NewZone
  OBVIOUS
<1>7. [l EXCEPT !.ok = @ /\ TRUE] = [ok |-> l.ok /\ TRUE, zone |-> l.zone]
  OBVIOUS
<1>8. (l.ok /\ TRUE) = TRUE
  BY <1>6
<1>9. R(<<>>) = [ok |-> l.ok /\ TRUE, zone |-> l.zone]
  BY <1>4, <1>5, <1>7
<1> HIDE DEF l
<1> QED  BY <1>6, <1>8, <1>9

LEMMA ReplayAppend ==
  ASSUME NEW s \in Seq(EventType), NEW e \in EventType
  PROVE  R(Append(s, e)) = OneEvent(R(s), e)
<1> DEFINE u == Append(s, e)
           n == Len(s)
<1>1. /\ u \in Seq(EventType) /\ Len(u) = n + 1 /\ n \in Nat
      /\ \A i \in 1..n : u[i] = s[i]
      /\ u[n + 1] = e
  BY AppendProperties, LenProperties
<1>2. PICK h : /\ \A b : Replay([events |-> s, ok |-> b]) = [h[n] EXCEPT !.ok = @ /\ b]
               /\ \A k \in 0..n : h[k] = AfterBody(s, h, k) /\ h[k] \in Replayed
  BY AfterEquation
<1> HIDE DEF u
<1>3. PICK g : /\ \A b : Replay([events |-> u, ok |-> b]) = [g[Len(u)] EXCEPT !.ok = @ /\ b]
               /\ \A k \in 0..Len(u) : g[k] = AfterBody(u, g, k) /\ g[k] \in Replayed
  BY <1>1, AfterEquation
<1> HIDE DEF n
<1> DEFINE T == {k \in 0..n : g[k] = h[k]}
<1>4. 0 \in T
  <2>1. 0 \in 0..n /\ 0 \in 0..Len(u)
    BY <1>1
  <2>2. h[0] = g[0]
    BY <1>2, <1>3, <2>1 DEF AfterBody
  <2> QED  BY <2>1, <2>2
<1>5. ASSUME NEW k \in 0..(n-1), k \in T PROVE k + 1 \in T
  <2>1. k + 1 \in 0..n /\ k + 1 \in 0..Len(u) /\ (k + 1) - 1 = k /\ k + 1 # 0 /\ k + 1 \in 1..n
    BY <1>1
  <2>2. g[k] = h[k] /\ u[k+1] = s[k+1]
    BY <1>1, <1>5, <2>1
  <2>3. h[k+1] = AfterBody(s, h, k+1) /\ g[k+1] = AfterBody(u, g, k+1)
    BY <1>2, <1>3, <2>1
  <2>4. h[k+1] = g[k+1]
    BY <2>1, <2>2, <2>3 DEF AfterBody
  <2> QED  BY <2>1, <2>4
<1>6. T = 0..n
  <2>1. T \subseteq 0..n
    OBVIOUS
  <2> HIDE DEF T
  <2> QED  BY <1>1, <1>4, <1>5, <2>1, Along
<1>7. g[n] = h[n]
  <2>1. n \in T
    BY <1>1, <1>6
  <2> QED  BY <2>1
<1>8. g[n+1] = AfterBody(u, g, n+1) /\ (n + 1) - 1 = n /\ n + 1 # 0 /\ g[n+1] \in Replayed
  BY <1>1, <1>3
<1>9. g[n+1] = OneEvent(h[n], e) /\ h[n] \in Replayed
  <2>1. n \in 0..n
    BY <1>1
  <2> QED  BY <1>1, <1>2, <1>7, <1>8, <2>1 DEF AfterBody
<1>10. \A x \in Replayed : [x EXCEPT !.ok = @ /\ TRUE] = x
  <2> SUFFICES ASSUME NEW x \in Replayed PROVE [x EXCEPT !.ok = @ /\ TRUE] = x
    OBVIOUS
  <2>1. x.ok \in BOOLEAN /\ x = [ok |-> x.ok, zone |-> x.zone]
    BY DEF Replayed
  <2>2. (x.ok /\ TRUE) = x.ok
    BY <2>1
  <2> QED  BY <2>1, <2>2
<1>11. R(u) = g[n+1] /\ R(s) = h[n]
  <2>1. R(u) = [g[n+1] EXCEPT !.ok = @ /\ TRUE]
    BY <1>1, <1>3 DEF R
  <2>2. R(s) = [h[n] EXCEPT !.ok = @ /\ TRUE]
    BY <1>2 DEF R
  <2> QED  BY <1>8, <1>9, <1>10, <2>1, <2>2
<1> QED  BY <1>9, <1>11 DEF u

-----------------------------------------------------------------------------
(* What is in a snapshot and what rebuilds it *)

LEMMA Injective ==
  ASSUME NEW S, IsFiniteSet(S), NEW s \in SetToSeqs(S)
  PROVE  /\ s \in Seq(S) /\ Len(s) = Cardinality(S) /\ Cardinality(S) \in Nat
         /\ \A x \in S : \E i \in 1..Len(s) : s[i] = x
         /\ \A i, j \in 1..Len(s) : i # j => s[i] # s[j]
<1> DEFINE n == Cardinality(S)
<1>1. n \in Nat
  BY FS_CardinalityType
<1>2. s \in [1..n -> S] /\ \A i, j \in 1..n : i # j => s[i] # s[j]
  BY DEF SetToSeqs
<1>3. IsFiniteSet(1..n) /\ Cardinality(1..n) = n
  <2>1. 1 \in Int /\ n \in Int
    BY <1>1
  <2> HIDE DEF n
  <2> QED  BY <1>1, <2>1, CountTo, FS_Interval
<1>4. s \in Injection(1..n, S)
  BY <1>2 DEF Injection, IsInjective
<1>5. s \in Surjection(1..n, S)
  BY <1>3, <1>4, FS_Injection
<1>6. \A x \in S : \E i \in 1..n : s[i] = x
  BY <1>5 DEF Surjection
<1>7. s \in Seq(S) /\ Len(s) = n
  <2> HIDE DEF n
  <2>1. DOMAIN s = 1..n
    BY <1>2
  <2>2. s \in Seq(S)
    BY <1>1, <1>2
  <2> QED  BY <1>1, <2>1, <2>2, LenProperties
<1> QED  BY <1>1, <1>2, <1>6, <1>7

LEMMA SnapshotRebuilds ==
  ASSUME NEW z \in Zone, NEW n \in Number, NEW c \in FiniteContent, NEW d \in Snapshot(z, c, n)
  PROVE  /\ d \in Seq(EventType)
         /\ R(d).ok /\ R(d).zone.has = c.has
         /\ R(d).zone.astray = {} /\ R(d).zone.default = {}
         /\ d # <<>> => R(d).zone.next = Plus(n, 1)
<1>1. IsFiniteSet(c.has) /\ c.has \subseteq Item
  BY DEF FiniteContent, Content
<1>2. PICK s \in SetToSeqs(c.has) :
         /\ \A i \in DOMAIN s : Container[s[i]] \subseteq {s[j] : j \in 1..(i-1)}
         /\ d = [i \in DOMAIN s |-> Event(z, n, "add", s[i])]
  BY DEF Snapshot
<1> DEFINE m == Len(s)
<1>3. /\ s \in Seq(c.has) /\ m \in Nat /\ DOMAIN s = 1..m
      /\ \A x \in c.has : \E i \in 1..m : s[i] = x
      /\ \A i, j \in 1..m : i # j => s[i] # s[j]
      /\ \A i \in 1..m : s[i] \in c.has
  <2>1. /\ s \in Seq(c.has) /\ Len(s) \in Nat
        /\ \A x \in c.has : \E i \in 1..Len(s) : s[i] = x
        /\ \A i, j \in 1..Len(s) : i # j => s[i] # s[j]
    BY <1>1, Injective
  <2>2. DOMAIN s = 1..Len(s)
    BY <2>1, LenProperties
  <2>3. \A i \in 1..Len(s) : s[i] \in c.has
    BY <2>1, ElementOfSeq
  <2> QED  BY <2>1, <2>2, <2>3
<1> HIDE DEF m
<1>4. \A i \in 1..m : /\ d[i] \in EventType
                      /\ d[i].kind = "add" /\ d[i].item = s[i] /\ d[i].num = n
  <2> SUFFICES ASSUME NEW i \in 1..m
               PROVE  /\ d[i] \in EventType
                      /\ d[i].kind = "add" /\ d[i].item = s[i] /\ d[i].num = n
    OBVIOUS
  <2>1. d[i] = Event(z, n, "add", s[i]) /\ s[i] \in Item
    BY <1>1, <1>2, <1>3
  <2>2. Event(z, n, "add", s[i]) \in EventType
    BY <2>1 DEF Event, EventType
  <2> QED  BY <2>1, <2>2 DEF Event
<1>5. d = [i \in 1..m |-> d[i]]
  BY <1>2, <1>3
<1>6. d \in Seq(EventType) /\ Len(d) = m
  <2>1. d \in Seq(EventType)
    BY <1>3, <1>4, <1>5, IsASeq
  <2>2. DOMAIN d = 1..m
    BY <1>5
  <2> QED  BY <1>3, <2>1, <2>2, LenProperties
<1> DEFINE Upto(k) == R(SubSeq(d, 1, k))
           P(k) == /\ Upto(k).ok /\ Upto(k).zone.has = {s[j] : j \in 1..k}
                   /\ Upto(k).zone.astray = {} /\ Upto(k).zone.default = {}
                   /\ k # 0 => Upto(k).zone.next = Plus(n, 1)
           T == {k \in 0..m : P(k)}
<1>7. P(0)
  <2>1. SubSeq(d, 1, 0) = <<>>
    BY SubSeqEmpty
  <2>2. Upto(0) = [ok |-> TRUE, zone |-> NewZone]
    BY <2>1, ReplayEmpty, Zenon
  <2>3. {s[j] : j \in 1..0} = {}
    OBVIOUS
  <2> HIDE DEF Upto
  <2> QED  BY <2>2, <2>3 DEF NewZone
<1>8. ASSUME NEW k \in 0..(m-1), P(k) PROVE P(k+1)
  <2>1. /\ SubSeq(d, 1, k) \in Seq(EventType) /\ d[k+1] \in EventType
        /\ SubSeq(d, 1, k+1) = Append(SubSeq(d, 1, k), d[k+1])
    BY <1>6, PrefixStep
  <2>2. k + 1 \in 1..m /\ k \in 0..m /\ (k + 1) - 1 = k /\ k + 1 # 0 /\ \A j \in 1..k : j \in 1..m /\ j # k + 1
    BY <1>3
  <2>3. d[k+1].kind = "add" /\ d[k+1].item = s[k+1] /\ d[k+1].num = n
    BY <1>4, <2>2
  <2>4. Upto(k+1) = OneEvent(Upto(k), d[k+1])
    BY <2>1, ReplayAppend
  <2>5. Upto(k) \in Replayed /\ Upto(k).ok /\ Upto(k).zone.has = {s[j] : j \in 1..k}
        /\ Upto(k).zone.astray = {} /\ Upto(k).zone.default = {}
    BY <1>8, <2>1, ReplayFacts
  <2> HIDE DEF Upto
  <2>6. Applicable(Upto(k).zone, d[k+1])
    BY <2>3 DEF Applicable
  <2> DEFINE b == Upto(k).zone
             a == Applied(b, d[k+1])
  <2>7. Upto(k+1) = [ok |-> TRUE, zone |-> a]
    BY <2>4, <2>5, <2>6 DEF OneEvent
  <2>8. /\ a.has = b.has \cup {s[k+1]}
        /\ a.astray = b.astray \cup {i \in {s[k+1]} : i \in b.has \/ ~(Container[i] \subseteq b.has)}
        /\ a.default = b.default /\ a.next = Plus(n, 1)
    <3> DEFINE e == d[k+1]
    <3>1. e.kind = "add" /\ e.item = s[k+1] /\ e.num = n
      BY <2>3
    <3> HIDE DEF e, b
    <3> DEFINE x == Applied(b, e)
    <3>2. /\ x.has = (b.has \ (IF e.kind = "remove" THEN {e.item} ELSE {}))
                                   \cup (IF e.kind = "add" THEN {e.item} ELSE {})
          /\ x.astray = b.astray \cup
               {i \in (IF e.kind = "add" THEN {e.item} ELSE {}) :
                    i \in b.has \/ ~(Container[i] \subseteq b.has)}
          /\ x.default = IF e.kind = "default" THEN {e.item} ELSE b.default
          /\ x.next = Plus(e.num, 1)
      BY AppliedFields
    <3> HIDE DEF x
    <3>3. x.has = b.has \cup {s[k+1]}
      BY <3>1, <3>2
    <3>4. x.astray = b.astray \cup {i \in {s[k+1]} : i \in b.has \/ ~(Container[i] \subseteq b.has)}
      BY <3>1, <3>2
    <3>5. x.default = b.default /\ x.next = Plus(n, 1)
      BY <3>1, <3>2
    <3> QED  BY <3>3, <3>4, <3>5 DEF x, e
  <2>9. s[k+1] \notin b.has /\ Container[s[k+1]] \subseteq b.has
    <3>1. s[k+1] \notin {s[j] : j \in 1..k}
      BY <1>3, <2>2
    <3>2. Container[s[k+1]] \subseteq {s[j] : j \in 1..k}
      BY <1>2, <1>3, <2>2
    <3> QED  BY <2>5, <3>1, <3>2
  <2>10. {s[j] : j \in 1..(k+1)} = {s[j] : j \in 1..k} \cup {s[k+1]}
    <3>1. 1..(k+1) = (1..k) \cup {k+1}
      BY <2>2
    <3> QED  BY <3>1
  <2>11. a.astray = {} /\ a.default = {} /\ a.has = {s[j] : j \in 1..(k+1)} /\ a.next = Plus(n, 1)
    BY <2>5, <2>8, <2>9, <2>10
  <2> HIDE DEF a
  <2> QED  BY <2>7, <2>11
<1>9. T = 0..m
  <2>1. T \subseteq 0..m
    OBVIOUS
  <2>2. 0 \in T
    <3> HIDE DEF P
    <3> QED  BY <1>3, <1>7
  <2>3. \A k \in 0..(m-1) : k \in T => k + 1 \in T
    <3> HIDE DEF P
    <3> QED  BY <1>3, <1>8
  <2> HIDE DEF T
  <2> QED  BY <1>3, <2>1, <2>2, <2>3, Along
<1>10. P(m)
  <2> HIDE DEF P
  <2>1. m \in T
    BY <1>3, <1>9
  <2> QED  BY <2>1
<1>11. Upto(m) = R(d)
  <2>1. SubSeq(d, 1, m) = d
    BY <1>6, SubSeqFull
  <2> QED  BY <2>1
<1>12. {s[j] : j \in 1..m} = c.has
  BY <1>3
<1>13. d # <<>> => m # 0
  BY <1>6, EmptySeq
<1> HIDE DEF Upto
<1> QED  BY <1>6, <1>10, <1>11, <1>12, <1>13

FlatBody(seqs, h, i) == IF i = 1 THEN seqs[i] ELSE h[i-1] \o seqs[i]

LEMMA FlatExists ==
  ASSUME NEW seqs, NEW n \in Nat
  PROVE  \E h : h = [i \in 1..n |-> FlatBody(seqs, h, i)]
<1> DEFINE P(m) == \E h : h = [i \in 1..m |-> FlatBody(seqs, h, i)]
           T == {m \in 0..n : P(m)}
<1>1. P(0)
  <2>1. <<>> = [i \in 1..0 |-> FlatBody(seqs, <<>>, i)]
    OBVIOUS
  <2> QED  BY <2>1
<1>2. ASSUME NEW m \in 0..(n-1), P(m) PROVE P(m+1)
  <2>1. PICK h : h = [i \in 1..m |-> FlatBody(seqs, h, i)]
    BY <1>2
  <2> DEFINE g == [i \in 1..(m+1) |-> IF i = m + 1 THEN FlatBody(seqs, h, i) ELSE h[i]]
  <2>2. \A i \in 1..m : g[i] = h[i]
    OBVIOUS
  <2>3. g[m+1] = FlatBody(seqs, h, m+1)
    OBVIOUS
  <2>4. DOMAIN g = 1..(m+1) /\ g = [i \in 1..(m+1) |-> g[i]]
    OBVIOUS
  <2> HIDE DEF g
  <2>5. ASSUME NEW i \in 1..(m+1) PROVE g[i] = FlatBody(seqs, g, i)
    <3>1. i # 1 => i - 1 \in 1..m
      OBVIOUS
    <3>2. CASE i = m + 1
      BY <2>2, <2>3, <3>1, <3>2 DEF FlatBody
    <3>3. CASE i # m + 1
      <4>1. i \in 1..m
        BY <3>3
      <4> QED  BY <2>1, <2>2, <3>1, <4>1 DEF FlatBody
    <3> QED  BY <3>2, <3>3
  <2>6. g = [i \in 1..(m+1) |-> FlatBody(seqs, g, i)]
    BY <2>4, <2>5
  <2> QED  BY <2>6
<1> HIDE DEF P
<1>3. T \subseteq 0..n /\ 0 \in T /\ \A m \in 0..(n-1) : m \in T => m + 1 \in T
  BY <1>1, <1>2
<1> HIDE DEF T
<1>4. T = 0..n
  BY <1>3, Along
<1>5. n \in T
  BY <1>4
<1> QED  BY <1>5 DEF T, P

WrittenAll(d) == [i \in DOMAIN d |-> Written(d[i])]

LEMMA WrittenFile ==
  ASSUME NEW d \in Seq(EventType)
  PROVE  LET file == FlattenSeq(WrittenAll(d))
         IN  /\ file \in Seq(Piece) /\ Begins(file, d) /\ Len(file) = 2 * Len(d)
<1> DEFINE file == FlattenSeq(WrittenAll(d))
           seqs == WrittenAll(d)
           n == Len(d)
<1>1. n \in Nat /\ DOMAIN d = 1..n /\ \A i \in 1..n : d[i] \in EventType
  BY LenProperties, ElementOfSeq
<1>2. /\ DOMAIN seqs = 1..n
      /\ \A i \in 1..n : seqs[i] = Written(d[i])
  BY <1>1 DEF WrittenAll
<1>3. \A i \in 1..n : /\ seqs[i] \in Seq(Piece) /\ Len(seqs[i]) = 2
                      /\ seqs[i][1] = Header(d[i]) /\ seqs[i][2] = Body(d[i])
  <2> SUFFICES ASSUME NEW i \in 1..n
               PROVE  /\ seqs[i] \in Seq(Piece) /\ Len(seqs[i]) = 2
                      /\ seqs[i][1] = Header(d[i]) /\ seqs[i][2] = Body(d[i])
    OBVIOUS
  <2>1. Header(d[i]) \in Piece /\ Body(d[i]) \in Piece
    BY <1>1, EventFacts
  <2>2. seqs[i] = <<Header(d[i]), Body(d[i])>>
    BY <1>2 DEF Written
  <2> HIDE DEF seqs
  <2> QED  BY <2>1, <2>2
<1>4. seqs \in Seq(Seq(Piece)) /\ Len(seqs) = n
  <2>1. seqs = [i \in 1..n |-> seqs[i]]
    BY <1>2 DEF WrittenAll
  <2> HIDE DEF seqs, n
  <2>2. seqs \in Seq(Seq(Piece))
    BY <1>1, <1>3, <2>1, IsASeq
  <2> QED  BY <1>1, <1>2, <2>2, LenProperties
<1> HIDE DEF seqs, n
<1>5. CASE n = 0
  <2>1. file = seqs /\ seqs = <<>> /\ Len(seqs) = 0
    <3>1. seqs = <<>>
      BY <1>4, <1>5, EmptySeq
    <3> QED  BY <1>4, <1>5, <3>1 DEF FlattenSeq, seqs
  <2>2. file \in Seq(Piece) /\ Len(file) = 0
    BY <2>1
  <2> HIDE DEF file
  <2>3. Begins(file, d)
    BY <1>5, <2>2 DEF Begins, n
  <2> QED  BY <1>5, <2>2, <2>3 DEF file, n
<1>6. CASE n # 0
  <2> DEFINE h == CHOOSE f : f = [i \in 1..Len(seqs) |-> FlatBody(seqs, f, i)]
  <2>1. h = [i \in 1..n |-> FlatBody(seqs, h, i)]
    BY <1>1, <1>4, FlatExists
  <2>2. file = h[n]
    BY <1>4, <1>6 DEF FlattenSeq, FlatBody, seqs
  <2> HIDE DEF h
  <2> DEFINE P(k) == k # 0 => /\ h[k] \in Seq(Piece) /\ Len(h[k]) = 2 * k
                              /\ \A i \in 1..k : h[k][2*i - 1] = Header(d[i]) /\ h[k][2*i] = Body(d[i])
             T == {k \in 0..n : P(k)}
  <2>3. ASSUME NEW k \in 0..(n-1), P(k) PROVE P(k+1)
    <3>1. k + 1 \in 1..n /\ (k + 1) - 1 = k /\ k \in Nat
      BY <1>1
    <3>2. h[k+1] = FlatBody(seqs, h, k+1)
      BY <2>1, <3>1
    <3>3. /\ seqs[k+1] \in Seq(Piece) /\ Len(seqs[k+1]) = 2
          /\ seqs[k+1][1] = Header(d[k+1]) /\ seqs[k+1][2] = Body(d[k+1])
      BY <1>3, <3>1
    <3>4. CASE k = 0
      <4>1. h[k+1] = seqs[k+1] /\ k + 1 = 1
        BY <3>2, <3>4 DEF FlatBody
      <4>2. Len(h[k+1]) = 2 * (k+1) /\ \A i \in 1..(k+1) : i = 1 /\ 2*i - 1 = 1 /\ 2*i = 2
        BY <3>3, <3>4, <4>1
      <4> QED  BY <3>3, <4>1, <4>2
    <3>5. CASE k # 0
      <4>1. h[k+1] = h[k] \o seqs[k+1]
        <5>1. k + 1 # 1
          BY <3>1, <3>5
        <5>2. FlatBody(seqs, h, k+1) = h[(k+1) - 1] \o seqs[k+1]
          BY <5>1 DEF FlatBody
        <5> QED  BY <3>1, <3>2, <5>2
      <4> DEFINE a == h[k]
                 b == seqs[k+1]
                 c == h[k+1]
      <4>2. /\ a \in Seq(Piece) /\ Len(a) = 2 * k /\ b \in Seq(Piece) /\ Len(b) = 2
            /\ \A i \in 1..k : a[2*i - 1] = Header(d[i]) /\ a[2*i] = Body(d[i])
            /\ b[1] = Header(d[k+1]) /\ b[2] = Body(d[k+1]) /\ c = a \o b
        BY <2>3, <3>3, <3>5, <4>1
      <4> HIDE DEF a, b, c
      <4>6. Len(a) = 2 * k /\ Len(b) = 2 /\ k \in Nat
        BY <3>1, <4>2
      <4>3. /\ c \in Seq(Piece) /\ Len(c) = 2 * k + 2
            /\ \A j \in 1..(Len(a) + Len(b)) : c[j] = IF j <= Len(a) THEN a[j] ELSE b[j - Len(a)]
        <5>1. c = a \o b /\ a \in Seq(Piece) /\ b \in Seq(Piece)
          BY <4>2
        <5>2. /\ a \o b \in Seq(Piece) /\ Len(a \o b) = Len(a) + Len(b)
              /\ \A j \in 1..(Len(a) + Len(b)) : (a \o b)[j] = IF j <= Len(a) THEN a[j] ELSE b[j - Len(a)]
          BY <5>1, ConcatProperties
        <5> QED  BY <4>6, <5>1, <5>2
      <4>4. ASSUME NEW i \in 1..(k+1) PROVE c[2*i - 1] = Header(d[i]) /\ c[2*i] = Body(d[i])
        <5>1. CASE i = k + 1
          <6>1. /\ 2*i - 1 \in 1..(Len(a) + Len(b)) /\ ~(2*i - 1 <= Len(a)) /\ (2*i - 1) - Len(a) = 1
                /\ 2*i \in 1..(Len(a) + Len(b)) /\ ~(2*i <= Len(a)) /\ 2*i - Len(a) = 2
            BY <4>6, <5>1
          <6> QED  BY <4>2, <4>3, <5>1, <6>1
        <5>2. CASE i # k + 1
          <6>1. /\ 2*i - 1 \in 1..(Len(a) + Len(b)) /\ 2*i - 1 <= Len(a)
                /\ 2*i \in 1..(Len(a) + Len(b)) /\ 2*i <= Len(a) /\ i \in 1..k
            BY <4>6, <5>2
          <6> QED  BY <4>2, <4>3, <6>1
        <5> QED  BY <5>1, <5>2
      <4>5. Len(c) = 2 * (k + 1)
        BY <3>1, <4>3
      <4> QED  BY <4>3, <4>4, <4>5 DEF c
    <3> QED  BY <3>4, <3>5
  <2>4. P(0)
    OBVIOUS
  <2> HIDE DEF P
  <2>5. T \subseteq 0..n /\ 0 \in T /\ \A m \in 0..(n-1) : m \in T => m + 1 \in T
    BY <1>1, <2>3, <2>4
  <2> HIDE DEF T
  <2>6. T = 0..n
    BY <1>1, <2>5, Along
  <2>7. P(n)
    <3>1. n \in T
      BY <1>1, <2>6
    <3> QED  BY <3>1 DEF T
  <2> HIDE DEF file
  <2>8. /\ file \in Seq(Piece) /\ Len(file) = 2 * n
        /\ \A i \in 1..n : file[2*i - 1] = Header(d[i]) /\ file[2*i] = Body(d[i])
    BY <1>6, <2>2, <2>7 DEF P
  <2>9. Begins(file, d)
    BY <1>1, <2>8 DEF Begins, n
  <2> QED  BY <2>8, <2>9 DEF file, n
<1> QED  BY <1>5, <1>6 DEF n

(* A part moves from what is to be written to what is. *)
LEMMA OneMoves ==
  ASSUME NEW S, NEW p \in Seq(S), NEW seq \in Seq(S), seq # <<>>
  PROVE  /\ Head(seq) \in S /\ Tail(seq) \in Seq(S)
         /\ Append(p, Head(seq)) \in Seq(S)
         /\ Append(p, Head(seq)) \o Tail(seq) = p \o seq
<1> DEFINE x == Head(seq)
           rest == Tail(seq)
<1>1. x \in S /\ rest \in Seq(S)
  BY HeadTailProperties
<1>2. 1 \in 1..Len(seq) /\ Len(seq) \in 1..Len(seq)
  BY LenProperties, EmptySeq
<1>3. seq = <<x>> \o rest
  <2>1. Head(SubSeq(seq, 1, Len(seq))) = seq[1]
    BY <1>2, HeadTailOfSubSeq
  <2>2. SubSeq(seq, 1, Len(seq)) = seq /\ Tail(seq) = SubSeq(seq, 2, Len(seq))
    BY SubSeqFull, TailIsSubSeq
  <2>3. SubSeq(seq, 1, Len(seq)) = <<seq[1]>> \o SubSeq(seq, 1 + 1, Len(seq))
    BY <1>2, SubSeqRecursiveFirst
  <2> QED  BY <2>1, <2>2, <2>3
<1> HIDE DEF x, rest
<1> DEFINE one == <<x>>
<1>4. one \in Seq(S) /\ seq = one \o rest /\ Append(p, x) = p \o one
  BY <1>1, <1>3, AppendIsConcat
<1> HIDE DEF one
<1>5. (p \o one) \o rest = p \o (one \o rest) /\ p \o one \in Seq(S)
  BY <1>1, <1>4, ConcatAssociative, ConcatProperties
<1> QED  BY <1>1, <1>4, <1>5 DEF x, rest

-----------------------------------------------------------------------------
(* The events up to a number *)

Rises(h) == \A i, j \in 1..Len(h) : i < j => h[i].num < h[j].num

IsCut(h, n, p) == p \in 0..Len(h) /\ \A i \in 1..Len(h) : i <= p <=> h[i].num <= n

LEMMA Numbered ==
  ASSUME NEW h \in Seq(EventType)
  PROVE  Len(h) \in Nat /\ \A i \in 1..Len(h) : h[i] \in EventType /\ h[i].num \in Nat /\ h[i].num <= MaxUint
<1>1. \A e \in EventType : e.num \in Nat /\ e.num <= MaxUint
  BY EventFacts, StoreAssumption DEF Number
<1>2. \A i \in 1..Len(h) : h[i] \in EventType
  BY ElementOfSeq
<1> QED  BY <1>1, <1>2, LenProperties

LEMMA RisesAppend ==
  ASSUME NEW h \in Seq(EventType), NEW e \in EventType
  PROVE  Rises(Append(h, e)) <=> Rises(h) /\ \A i \in 1..Len(h) : h[i].num < e.num
<1> DEFINE u == Append(h, e)
           n == Len(h)
<1>1. /\ Len(u) = n + 1 /\ n \in Nat /\ \A i \in 1..n : u[i] = h[i]
      /\ u[n + 1] = e
  BY AppendProperties, LenProperties
<1> HIDE DEF u
<1>2. ASSUME Rises(u) PROVE Rises(h) /\ \A i \in 1..n : h[i].num < e.num
  <2>1. \A i \in 1..n : i \in 1..Len(u) /\ n + 1 \in 1..Len(u) /\ i < n + 1
    BY <1>1
  <2>2. \A i \in 1..n : u[i].num < u[n+1].num
    BY <1>2, <2>1 DEF Rises
  <2>3. \A i, j \in 1..n : i < j => u[i].num < u[j].num
    BY <1>2, <2>1 DEF Rises
  <2> QED  BY <1>1, <2>2, <2>3 DEF Rises
<1>3. ASSUME Rises(h), \A i \in 1..n : h[i].num < e.num PROVE Rises(u)
  <2> SUFFICES ASSUME NEW i \in 1..Len(u), NEW j \in 1..Len(u), i < j PROVE u[i].num < u[j].num
    BY DEF Rises
  <2>1. i \in 1..n
    BY <1>1
  <2>2. CASE j = n + 1
    BY <1>1, <1>3, <2>1, <2>2
  <2>3. CASE j # n + 1
    <3>1. j \in 1..n
      BY <1>1, <2>3
    <3> QED  BY <1>1, <1>3, <2>1, <3>1 DEF Rises
  <2> QED  BY <2>2, <2>3
<1> QED  BY <1>2, <1>3 DEF u

LEMMA CutExists ==
  ASSUME NEW h \in Seq(EventType), Rises(h), NEW n \in Nat
  PROVE  \E p : IsCut(h, n, p)
<1> DEFINE T == {i \in 1..Len(h) : h[i].num <= n}
<1>1. Len(h) \in Nat /\ \A i \in 1..Len(h) : h[i].num \in Nat
  BY Numbered
<1>2. CASE T = {}
  <2>1. IsCut(h, n, 0)
    BY <1>1, <1>2 DEF IsCut
  <2> QED  BY <2>1
<1>3. CASE T # {}
  <2>1. T \subseteq 1..Len(h)
    OBVIOUS
  <2>2. PICK p \in T : \A i \in T : i <= p
    <3> HIDE DEF T
    <3> QED  BY <1>1, <1>3, <2>1, Highest
  <2>3. p \in 1..Len(h) /\ h[p].num <= n
    OBVIOUS
  <2>4. ASSUME NEW i \in 1..Len(h) PROVE i <= p <=> h[i].num <= n
    <3>1. ASSUME i <= p PROVE h[i].num <= n
      <4>1. CASE i = p
        BY <2>3, <4>1
      <4>2. CASE i # p
        <5>1. i < p
          BY <1>1, <2>3, <3>1, <4>2
        <5>2. h[i].num < h[p].num
          BY <2>3, <5>1 DEF Rises
        <5> QED  BY <1>1, <2>3, <5>2
      <4> QED  BY <4>1, <4>2
    <3>2. ASSUME h[i].num <= n PROVE i <= p
      BY <2>2, <3>2
    <3> QED  BY <3>1, <3>2
  <2>5. p \in 0..Len(h)
    BY <1>1, <2>3
  <2>6. IsCut(h, n, p)
    BY <2>4, <2>5 DEF IsCut
  <2> QED  BY <2>6
<1> QED  BY <1>2, <1>3

LEMMA CutUnique ==
  ASSUME NEW h \in Seq(EventType), NEW n, NEW p, NEW q, IsCut(h, n, p), IsCut(h, n, q)
  PROVE  p = q
<1>1. /\ Len(h) \in Nat /\ p \in 0..Len(h) /\ q \in 0..Len(h)
      /\ \A i \in 1..Len(h) : i <= p <=> i <= q
  BY LenProperties DEF IsCut
<1>2. p \in 1..Len(h) => p <= q
  BY <1>1
<1>3. q \in 1..Len(h) => q <= p
  BY <1>1
<1> QED  BY <1>1, <1>2, <1>3

LEMMA CutOrder ==
  ASSUME NEW h \in Seq(EventType), NEW m \in Nat, NEW n \in Nat, m <= n,
         NEW p, NEW q, IsCut(h, m, p), IsCut(h, n, q)
  PROVE  p <= q
<1>1. /\ Len(h) \in Nat /\ p \in 0..Len(h) /\ q \in 0..Len(h)
      /\ \A i \in 1..Len(h) : h[i].num \in Nat
  BY Numbered DEF IsCut
<1>2. p \in 1..Len(h) => p <= q
  <2> SUFFICES ASSUME p \in 1..Len(h) PROVE p <= q
    OBVIOUS
  <2>1. h[p].num <= m
    BY <1>1 DEF IsCut
  <2>2. h[p].num <= n
    BY <1>1, <2>1
  <2> QED  BY <2>2 DEF IsCut
<1> QED  BY <1>1, <1>2

(* A cut stays where it is when a later event comes. *)
LEMMA CutAppend ==
  ASSUME NEW h \in Seq(EventType), NEW e \in EventType, NEW n, NEW p
  PROVE  /\ IsCut(h, n, p) /\ n \in Nat /\ n < e.num => IsCut(Append(h, e), n, p)
         /\ IsCut(Append(h, e), n, p) /\ n \in Nat /\ n < e.num => IsCut(h, n, p)
<1> DEFINE u == Append(h, e)
           m == Len(h)
<1>1. /\ Len(u) = m + 1 /\ m \in Nat /\ \A i \in 1..m : u[i] = h[i]
      /\ u[m + 1] = e
  BY AppendProperties, LenProperties
<1>2. e.num \in Nat
  BY EventFacts DEF Number
<1> HIDE DEF u
<1>3. ASSUME IsCut(h, n, p), n \in Nat, n < e.num PROVE IsCut(u, n, p)
  <2>1. p \in 0..m /\ \A i \in 1..m : i <= p <=> h[i].num <= n
    BY <1>3 DEF IsCut
  <2>2. ASSUME NEW i \in 1..Len(u) PROVE i <= p <=> u[i].num <= n
    <3>1. CASE i = m + 1
      <4>1. ~(i <= p) /\ ~(e.num <= n)
        BY <1>1, <1>2, <1>3, <2>1, <3>1
      <4> QED  BY <1>1, <3>1, <4>1
    <3>2. CASE i # m + 1
      <4>1. i \in 1..m
        BY <1>1, <3>2
      <4> QED  BY <1>1, <2>1, <4>1
    <3> QED  BY <3>1, <3>2
  <2>3. p \in 0..Len(u)
    BY <1>1, <2>1
  <2> QED  BY <2>2, <2>3 DEF IsCut
<1>4. ASSUME IsCut(u, n, p), n \in Nat, n < e.num PROVE IsCut(h, n, p)
  <2>1. p \in 0..(m+1) /\ \A i \in 1..(m+1) : i <= p <=> u[i].num <= n
    BY <1>1, <1>4 DEF IsCut
  <2>2. ~(m + 1 <= p)
    <3>1. m + 1 \in 1..(m+1) /\ ~(u[m+1].num <= n)
      BY <1>1, <1>2, <1>4
    <3> QED  BY <2>1, <3>1
  <2>3. p \in 0..m /\ \A i \in 1..m : i \in 1..(m+1)
    BY <1>1, <2>1, <2>2
  <2> QED  BY <1>1, <2>1, <2>3 DEF IsCut
<1> QED  BY <1>3, <1>4 DEF u

(* Those above a number are a rest of all. *)
LEMMA EventsAbove ==
  ASSUME NEW z, NEW n \in Nat, NEW s \in Seq(EventType), Rises(EventsOf(s, z, 0))
  PROVE  \E p : /\ IsCut(EventsOf(s, z, 0), n, p)
                /\ EventsOf(s, z, n + 1) = SubSeq(EventsOf(s, z, 0), p + 1, Len(EventsOf(s, z, 0)))
<1> DEFINE H(t) == EventsOf(t, z, 0)
           P(t) == Rises(H(t)) => \E p : /\ IsCut(H(t), n, p)
                                         /\ EventsOf(t, z, n + 1) = SubSeq(H(t), p + 1, Len(H(t)))
           T == {t \in Seq(EventType) : P(t)}
<1>1. P(<<>>)
  <2>1. H(<<>>) = <<>> /\ EventsOf(<<>>, z, n + 1) = <<>>
    BY EventsOfEmpty
  <2>2. IsCut(<<>>, n, 0)
    BY DEF IsCut
  <2>3. SubSeq(<<>>, 0 + 1, Len(<<>>)) = <<>>
    BY SubSeqEmpty
  <2> QED  BY <2>1, <2>2, <2>3
<1>2. ASSUME NEW t \in Seq(EventType), NEW e \in EventType, P(t) PROVE P(Append(t, e))
  <2> SUFFICES ASSUME Rises(H(Append(t, e)))
               PROVE  \E p : /\ IsCut(H(Append(t, e)), n, p)
                             /\ EventsOf(Append(t, e), z, n + 1)
                                    = SubSeq(H(Append(t, e)), p + 1, Len(H(Append(t, e))))
    OBVIOUS
  <2> DEFINE h == H(t)
             g == H(Append(t, e))
             above == EventsOf(t, z, n + 1)
             now == EventsOf(Append(t, e), z, n + 1)
  <2>1. h \in Seq(EventType) /\ e.num \in Nat
    BY EventsOfTyped, EventFacts DEF Number
  <2>2. /\ g = IF e.zone = z /\ e.num >= 0 THEN Append(h, e) ELSE h
        /\ now = IF e.zone = z /\ e.num >= n + 1 THEN Append(above, e) ELSE above
    BY EventsOfAppend
  <2>3. Rises(g) /\ (Rises(h) => \E p : IsCut(h, n, p) /\ above = SubSeq(h, p + 1, Len(h)))
    BY <1>2
  <2> HIDE DEF h, g, above, now
  <2>4. CASE e.zone # z
    BY <2>2, <2>3, <2>4 DEF g, now
  <2>5. CASE e.zone = z
    <3>1. g = Append(h, e) /\ e.num >= 0
      BY <2>1, <2>2, <2>5
    <3>2. Rises(h) /\ \A i \in 1..Len(h) : h[i].num < e.num
      BY <2>1, <2>3, <3>1, RisesAppend
    <3>3. PICK p : IsCut(h, n, p) /\ above = SubSeq(h, p + 1, Len(h))
      BY <2>3, <3>2
    <3> DEFINE m == Len(h)
    <3>4. /\ m \in Nat /\ p \in 0..m /\ g \in Seq(EventType) /\ Len(g) = m + 1
          /\ \A i \in 1..m : g[i] = h[i]
          /\ g[m+1] = e
      BY <2>1, <3>1, <3>3, AppendProperties, LenProperties DEF IsCut
    <3>5. \A i \in 1..m : h[i].num \in Nat
      BY <2>1, Numbered
    <3>6. CASE e.num >= n + 1
      <4>1. n < e.num
        BY <2>1, <3>6
      <4>2. IsCut(g, n, p)
        BY <2>1, <3>1, <3>3, <4>1, CutAppend
      <4>3. now = Append(above, e)
        BY <2>2, <2>5, <3>6
      <4>4. SubSeq(g, p + 1, m + 1) = Append(above, e)
        <5> DEFINE a == SubSeq(g, p + 1, m + 1)
                   b == Append(above, e)
        <5>1. /\ above \in Seq(EventType) /\ Len(above) = m - p
              /\ \A i \in 1..(m - p) : above[i] = h[p + i]
          <6>1. m \in p..Len(h) /\ p \in 0..Len(h)
            BY <3>4
          <6> QED  BY <2>1, <3>3, <6>1, PartOf
        <5>2. /\ a \in Seq(EventType) /\ Len(a) = m + 1 - p
              /\ \A i \in 1..(m + 1 - p) : a[i] = g[p + i]
          <6>1. m + 1 \in p..Len(g) /\ p \in 0..Len(g)
            BY <3>4
          <6> QED  BY <3>4, <6>1, PartOf
        <5>3. /\ b \in Seq(EventType) /\ Len(b) = Len(above) + 1
              /\ \A i \in 1..Len(above) : b[i] = above[i]
              /\ b[Len(above) + 1] = e
          BY <5>1, AppendProperties
        <5> HIDE DEF a, b, m
        <5>4. Len(a) = Len(b) /\ Len(a) = m - p + 1
          BY <3>4, <5>1, <5>2, <5>3
        <5>5. ASSUME NEW i \in 1..Len(a) PROVE a[i] = b[i]
          <6>1. CASE i = m - p + 1
            <7>1. p + i = m + 1 /\ i \in 1..(m + 1 - p) /\ i = Len(above) + 1
              BY <3>4, <5>1, <5>4, <6>1
            <7> QED  BY <3>4, <5>2, <5>3, <7>1
          <6>2. CASE i # m - p + 1
            <7>1. p + i \in 1..m /\ i \in 1..(m + 1 - p) /\ i \in 1..(m - p) /\ i \in 1..Len(above)
              BY <3>4, <5>1, <5>4, <6>2
            <7> QED  BY <3>4, <5>1, <5>2, <5>3, <7>1
          <6> QED  BY <6>1, <6>2
        <5>6. a = b
          BY <5>2, <5>3, <5>4, <5>5, SeqEqual
        <5> QED  BY <5>6 DEF a, b, m
      <4>5. now = SubSeq(g, p + 1, Len(g))
        BY <3>4, <4>3, <4>4
      <4> QED  BY <4>2, <4>5 DEF g, now
    <3>7. CASE ~(e.num >= n + 1)
      <4>1. e.num <= n
        BY <2>1, <3>7
      <4>2. p = m
        <5>1. m \in 1..m => m <= p
          <6> SUFFICES ASSUME m \in 1..m PROVE m <= p
            OBVIOUS
          <6>1. h[m].num <= n
            BY <2>1, <3>2, <3>5, <4>1
          <6> QED  BY <3>3, <6>1 DEF IsCut
        <5> QED  BY <3>4, <5>1
      <4>3. now = above /\ above = <<>>
        <5>1. now = above
          BY <2>2, <3>7
        <5>2. above = SubSeq(h, m + 1, m) /\ m + 1 \in Int /\ m \in Int /\ m < m + 1
          BY <3>3, <3>4, <4>2
        <5> QED  BY <5>1, <5>2, SubSeqEmpty
      <4>4. IsCut(g, n, m + 1)
        <5> HIDE DEF m
        <5>1. ASSUME NEW i \in 1..(m+1) PROVE g[i].num <= n
          <6>1. CASE i = m + 1
            BY <3>4, <4>1, <6>1
          <6>2. CASE i # m + 1
            <7>1. i \in 1..m
              BY <3>4, <6>2
            <7>2. h[i].num < e.num
              BY <3>2, <7>1 DEF m
            <7> QED  BY <2>1, <3>4, <3>5, <4>1, <7>1, <7>2
          <6> QED  BY <6>1, <6>2
        <5> QED  BY <3>4, <5>1 DEF IsCut
      <4>5. SubSeq(g, (m + 1) + 1, Len(g)) = <<>>
        <5>1. (m + 1) + 1 \in Int /\ Len(g) \in Int /\ Len(g) < (m + 1) + 1
          BY <3>4
        <5> QED  BY <5>1, SubSeqEmpty
      <4> QED  BY <4>3, <4>4, <4>5 DEF g, now
    <3> QED  BY <3>6, <3>7
  <2> QED  BY <2>4, <2>5
<1> HIDE DEF P
<1>3. <<>> \in T /\ \A t \in Seq(EventType), e \in EventType : t \in T => Append(t, e) \in T
  <2>1. <<>> \in Seq(EventType)
    OBVIOUS
  <2>2. ASSUME NEW t \in Seq(EventType), NEW e \in EventType, t \in T PROVE Append(t, e) \in T
    <3>1. Append(t, e) \in Seq(EventType)
      BY AppendProperties
    <3> QED  BY <1>2, <2>2, <3>1
  <2> QED  BY <1>1, <2>1, <2>2
<1> HIDE DEF T
<1>4. s \in T
  BY <1>3, ByAppending
<1> QED  BY <1>4 DEF T, P

(* What a part of the log has of one Zone, of its history.                 *)
FromLogSays(h, file, z, first, upTo, p) ==
    \E q \in p..Len(h), ok \in BOOLEAN :
        /\ FromLog(file, z, first, upTo) = [events |-> SubSeq(h, p + 1, q), ok |-> ok]
        /\ \A i \in (p+1)..q : h[i].num <= upTo
        /\ Rises(h) => \A i \in (q+1)..Len(h) : ~(h[i].num <= upTo)
        /\ ReadEvents(file).ok => ok
        /\ (\A i \in 1..Len(h) : h[i].num <= upTo) /\ ok => ReadEvents(file).ok

Onwards(h, file, z, n) ==
    \E p : /\ IsCut(h, n, p)
           /\ EventsOf(ReadEvents(file).events, z, n + 1) = SubSeq(h, p + 1, Len(h))

(* What comes out of the log for a Zone. *)
LEMMA FromLogIs ==
  ASSUME NEW file \in Seq(Piece), NEW z, NEW first, NEW upTo \in Nat, NEW p,
         p \in 0..Len(EventsOf(ReadEvents(file).events, z, 0)),
         EventsOf(ReadEvents(file).events, z, first)
            = SubSeq(EventsOf(ReadEvents(file).events, z, 0), p + 1,
                     Len(EventsOf(ReadEvents(file).events, z, 0)))
  PROVE  FromLogSays(EventsOf(ReadEvents(file).events, z, 0), file, z, first, upTo, p)
<1> SUFFICES
         LET h == EventsOf(ReadEvents(file).events, z, 0)
         IN  \E q \in p..Len(h), ok \in BOOLEAN :
                /\ FromLog(file, z, first, upTo) = [events |-> SubSeq(h, p + 1, q), ok |-> ok]
                /\ \A i \in (p+1)..q : h[i].num <= upTo
                /\ Rises(h) => \A i \in (q+1)..Len(h) : ~(h[i].num <= upTo)
                /\ ReadEvents(file).ok => ok
                /\ (\A i \in 1..Len(h) : h[i].num <= upTo) /\ ok => ReadEvents(file).ok
  BY DEF FromLogSays
<1> DEFINE read == ReadEvents(file)
           h == EventsOf(read.events, z, 0)
           mine == EventsOf(read.events, z, first)
           n == Len(h)
           above == {i \in DOMAIN mine : mine[i].num > upTo}
<1>1. read.events \in Seq(EventType) /\ read.ok \in BOOLEAN
  BY ReadTyped
<1>2. h \in Seq(EventType) /\ mine \in Seq(EventType) /\ mine = SubSeq(h, p + 1, n) /\ p \in 0..n
  BY <1>1, EventsOfTyped
<1>3. n \in Nat /\ \A i \in 1..n : h[i].num \in Nat
  BY <1>2, Numbered
<1>4. /\ Len(mine) = n - p /\ DOMAIN mine = 1..(n - p)
      /\ \A i \in 1..(n - p) : mine[i] = h[p + i]
  <2> HIDE DEF h, mine
  <2>1. n \in p..Len(h) /\ p \in 0..Len(h)
    BY <1>2, <1>3
  <2>2. Len(mine) = n - p /\ \A i \in 1..(n - p) : mine[i] = h[p + i]
    BY <1>2, <2>1, PartOf
  <2> QED  BY <1>2, <2>2, LenProperties
<1>5. FromLog(file, z, first, upTo) =
         IF above = {} THEN [events |-> mine, ok |-> read.ok]
         ELSE [events |-> SubSeq(mine, 1, (CHOOSE i \in above : \A j \in above : i <= j) - 1),
               ok |-> TRUE]
  BY DEF FromLog
<1> HIDE DEF h, mine, n, read
<1>6. CASE above = {}
  <2>1. FromLog(file, z, first, upTo) = [events |-> SubSeq(h, p + 1, n), ok |-> read.ok]
    BY <1>2, <1>5, <1>6
  <2>2. \A i \in (p+1)..n : h[i].num <= upTo
    <3> SUFFICES ASSUME NEW i \in (p+1)..n PROVE h[i].num <= upTo
      OBVIOUS
    <3>1. i - p \in 1..(n - p) /\ p + (i - p) = i /\ i \in 1..n
      BY <1>2, <1>3
    <3>2. ~(mine[i - p].num > upTo) /\ mine[i - p] = h[i]
      BY <1>4, <1>6, <3>1
    <3> QED  BY <1>3, <3>1, <3>2
  <2>3. n \in p..n /\ ~\E i \in (n+1)..n : TRUE
    BY <1>2, <1>3
  <2> QED  BY <1>1, <2>1, <2>2, <2>3 DEF h, n, read
<1>7. CASE above # {}
  <2>1. above \subseteq Nat
    BY <1>4
  <2> DEFINE k == CHOOSE i \in above : \A j \in above : i <= j
  <2>2. k \in above /\ \A j \in above : k <= j
    <3> HIDE DEF above
    <3> QED  BY <1>7, <2>1, Lowest
  <2>3. FromLog(file, z, first, upTo) = [events |-> SubSeq(mine, 1, k - 1), ok |-> TRUE]
    BY <1>5, <1>7
  <2> HIDE DEF k
  <2>4. k \in 1..(n - p) /\ mine[k].num > upTo
    BY <1>4, <2>2
  <2> DEFINE q == p + k - 1
  <2>5. q \in p..n /\ k - 1 \in 0..(n - p) /\ q - p = k - 1 /\ q + 1 = p + k /\ q + 1 \in 1..n
    BY <1>2, <1>3, <2>4
  <2> HIDE DEF q
  <2>6. SubSeq(mine, 1, k - 1) = SubSeq(h, p + 1, q)
    <3> DEFINE a == SubSeq(mine, 1, k - 1)
               b == SubSeq(h, p + 1, q)
    <3>1. /\ a \in Seq(EventType) /\ Len(a) = k - 1
          /\ \A i \in 1..(k - 1) : a[i] = mine[i]
      <4>1. k - 1 \in 0..Len(mine) /\ Len(mine) \in (k-1)..Len(mine)
        BY <1>3, <1>4, <2>5
      <4> QED  BY <1>2, <4>1, PartsMeet
    <3>2. /\ b \in Seq(EventType) /\ Len(b) = k - 1
          /\ \A i \in 1..(k - 1) : b[i] = h[p + i]
      <4>1. p \in 0..Len(h) /\ q \in p..Len(h)
        BY <1>2, <2>5 DEF n
      <4>2. /\ b \in Seq(EventType) /\ Len(b) = q - p
            /\ \A i \in 1..(q - p) : b[i] = h[p + i]
        BY <1>2, <4>1, PartOf
      <4> QED  BY <2>5, <4>2
    <3> HIDE DEF a, b
    <3>3. \A i \in 1..(k - 1) : i \in 1..(n - p)
      BY <1>2, <1>3, <2>5
    <3>4. \A i \in 1..(k - 1) : a[i] = b[i]
      BY <1>4, <3>1, <3>2, <3>3
    <3>5. \A i \in 1..Len(a) : a[i] = b[i]
      BY <3>1, <3>4
    <3>6. a = b
      BY <3>1, <3>2, <3>5, SeqEqual
    <3> QED  BY <3>6 DEF a, b
  <2>7. \A i \in (p+1)..q : h[i].num <= upTo
    <3> SUFFICES ASSUME NEW i \in (p+1)..q PROVE h[i].num <= upTo
      OBVIOUS
    <3>1. i - p \in 1..(n - p) /\ p + (i - p) = i /\ i \in 1..n /\ ~(k <= i - p)
      BY <1>2, <1>3, <2>4, <2>5
    <3>2. i - p \notin above
      BY <2>2, <3>1
    <3>3. ~(mine[i - p].num > upTo) /\ mine[i - p] = h[i]
      BY <1>4, <3>1, <3>2
    <3> QED  BY <1>3, <3>1, <3>3
  <2>8. ~(h[q+1].num <= upTo)
    <3>1. mine[k] = h[q+1]
      BY <1>4, <2>4, <2>5
    <3> QED  BY <1>3, <2>4, <2>5, <3>1
  <2>9. ASSUME Rises(h), NEW i \in (q+1)..n PROVE ~(h[i].num <= upTo)
    <3>1. CASE i = q + 1
      BY <2>8, <3>1
    <3>2. CASE i # q + 1
      <4>1. i \in 1..n /\ q + 1 < i
        BY <1>2, <1>3, <2>5, <3>2
      <4>2. h[q+1].num < h[i].num
        BY <2>5, <2>9, <4>1 DEF Rises, n
      <4> QED  BY <1>3, <2>5, <2>8, <4>1, <4>2
    <3> QED  BY <3>1, <3>2
  <2>10. ~(\A i \in 1..n : h[i].num <= upTo)
    BY <2>5, <2>8
  <2>11. FromLog(file, z, first, upTo) = [events |-> SubSeq(h, p + 1, q), ok |-> TRUE]
    BY <2>3, <2>6
  <2> QED  BY <2>5, <2>7, <2>9, <2>10, <2>11 DEF h, n, read
<1> QED  BY <1>6, <1>7

(* Two contents with the same in them remain so under the same events. *)
LEMMA AlikeRemain ==
  ASSUME NEW a \in Seq(EventType), NEW b \in Seq(EventType), NEW t \in Seq(EventType),
         R(a).ok = R(b).ok, R(a).zone.has = R(b).zone.has, R(a).zone.astray = R(b).zone.astray
  PROVE  LET x == R(a \o t)
             y == R(b \o t)
         IN  /\ x.ok = y.ok /\ x.zone.has = y.zone.has /\ x.zone.astray = y.zone.astray
             /\ y.ok /\ (\A i \in 1..Len(t) : t[i].kind # "default")
                   => x.zone.default = R(a).zone.default /\ y.zone.default = R(b).zone.default
             /\ y.ok /\ (\E i \in 1..Len(t) : t[i].kind = "default")
                   => x.zone.default = y.zone.default
             /\ y.ok /\ t # <<>> => x.zone.next = Plus(t[Len(t)].num, 1)
<1> DEFINE X(u) == R(a \o u)
           Y(u) == R(b \o u)
           Still(u) == \A i \in 1..Len(u) : u[i].kind # "default"
           P(u) == /\ X(u).ok = Y(u).ok /\ X(u).zone.has = Y(u).zone.has /\ X(u).zone.astray = Y(u).zone.astray
                   /\ Y(u).ok /\ Still(u) => /\ X(u).zone.default = R(a).zone.default
                                             /\ Y(u).zone.default = R(b).zone.default
                   /\ Y(u).ok /\ ~Still(u) => X(u).zone.default = Y(u).zone.default
                   /\ Y(u).ok /\ u # <<>> => X(u).zone.next = Plus(u[Len(u)].num, 1)
           T == {u \in Seq(EventType) : P(u)}
<1>1. P(<<>>)
  <2>1. a \o <<>> = a /\ b \o <<>> = b
    BY ConcatEmptySeq
  <2>2. X(<<>>) = R(a) /\ Y(<<>>) = R(b)
    BY <2>1
  <2>3. Still(<<>>)
    OBVIOUS
  <2> HIDE DEF X, Y, Still
  <2> QED  BY <2>2, <2>3
<1>2. ASSUME NEW u \in Seq(EventType), NEW e \in EventType, P(u) PROVE P(Append(u, e))
  <2> DEFINE v == Append(u, e)
  <2>1. /\ v \in Seq(EventType) /\ Len(v) = Len(u) + 1 /\ Len(u) \in Nat /\ v # <<>>
        /\ \A i \in 1..Len(u) : v[i] = u[i]
        /\ v[Len(u) + 1] = e
    BY AppendProperties, LenProperties
  <2>2. X(v) = OneEvent(X(u), e) /\ Y(v) = OneEvent(Y(u), e)
    <3>1. a \o u \in Seq(EventType) /\ b \o u \in Seq(EventType)
      BY ConcatProperties
    <3>2. a \o v = Append(a \o u, e) /\ b \o v = Append(b \o u, e)
      BY ConcatAppend
    <3> HIDE DEF v
    <3> QED  BY <3>1, <3>2, ReplayAppend
  <2>3. X(u) \in Replayed /\ Y(u) \in Replayed
    <3>1. a \o u \in Seq(EventType) /\ b \o u \in Seq(EventType)
      BY ConcatProperties
    <3> QED  BY <3>1, ReplayFacts
  <2>4. Still(v) <=> Still(u) /\ e.kind # "default"
    <3> HIDE DEF v
    <3>1. 1..Len(v) = (1..Len(u)) \cup {Len(u) + 1}
      BY <2>1
    <3> QED  BY <2>1, <3>1
  <2> SUFFICES P(v)
    OBVIOUS
  <2> HIDE DEF v, X, Y, Still
  <2> DEFINE x == X(u)
             y == Y(u)
  <2>5. /\ x \in Replayed /\ y \in Replayed
        /\ x.ok = y.ok /\ x.zone.has = y.zone.has /\ x.zone.astray = y.zone.astray
        /\ y.ok /\ Still(u) => /\ x.zone.default = R(a).zone.default
                               /\ y.zone.default = R(b).zone.default
        /\ y.ok /\ ~Still(u) => x.zone.default = y.zone.default
        /\ X(v) = OneEvent(x, e) /\ Y(v) = OneEvent(y, e)
    BY <1>2, <2>2, <2>3
  <2> HIDE DEF x, y
  <2>6. Applicable(x.zone, e) <=> Applicable(y.zone, e)
    BY <2>5 DEF Applicable
  <2>7. CASE ~(y.ok /\ Applicable(y.zone, e))
    <3>1. X(v) = [x EXCEPT !.ok = FALSE] /\ Y(v) = [y EXCEPT !.ok = FALSE]
      BY <2>5, <2>6, <2>7 DEF OneEvent
    <3>2. /\ X(v).ok = FALSE /\ Y(v).ok = FALSE
          /\ X(v).zone = x.zone /\ Y(v).zone = y.zone
      BY <2>5, <3>1 DEF Replayed
    <3> QED  BY <2>5, <3>2
  <2>8. CASE y.ok /\ Applicable(y.zone, e)
    <3> DEFINE m == Applied(x.zone, e)
               n == Applied(y.zone, e)
    <3>1. X(v) = [ok |-> TRUE, zone |-> m] /\ Y(v) = [ok |-> TRUE, zone |-> n]
      BY <2>5, <2>6, <2>8 DEF OneEvent
    <3>2. m.has = n.has /\ m.astray = n.astray
      <4>1. x.zone.has = y.zone.has /\ x.zone.astray = y.zone.astray
        BY <2>5
      <4>2. m.has = n.has
        BY <4>1 DEF Applied
      <4>3. m.astray = n.astray
        BY <4>1 DEF Applied
      <4> QED  BY <4>2, <4>3
    <3>3. /\ m.default = (IF e.kind = "default" THEN {e.item} ELSE x.zone.default)
          /\ n.default = (IF e.kind = "default" THEN {e.item} ELSE y.zone.default)
          /\ m.next = Plus(e.num, 1)
      BY AppliedFields
    <3> HIDE DEF m, n
    <3>4. /\ X(v).ok = TRUE /\ Y(v).ok = TRUE /\ X(v).zone = m /\ Y(v).zone = n
      BY <3>1
    <3>5. X(v).zone.next = Plus(v[Len(v)].num, 1)
      BY <2>1, <3>3, <3>4
    <3>6. Still(v) => /\ X(v).zone.default = R(a).zone.default
                      /\ Y(v).zone.default = R(b).zone.default
      BY <2>4, <2>5, <2>8, <3>3, <3>4
    <3>7. ~Still(v) => X(v).zone.default = Y(v).zone.default
      BY <2>4, <2>5, <2>8, <3>3, <3>4
    <3> QED  BY <3>2, <3>4, <3>5, <3>6, <3>7
  <2> QED  BY <2>7, <2>8
<1>3. <<>> \in T /\ \A u \in Seq(EventType), e \in EventType : u \in T => Append(u, e) \in T
  <2> HIDE DEF P
  <2>1. <<>> \in Seq(EventType)
    OBVIOUS
  <2>2. ASSUME NEW u \in Seq(EventType), NEW e \in EventType, u \in T PROVE Append(u, e) \in T
    <3>1. Append(u, e) \in Seq(EventType)
      BY AppendProperties
    <3> QED  BY <1>2, <2>2, <3>1
  <2> QED  BY <1>1, <2>1, <2>2
<1> HIDE DEF T
<1>4. t \in T
  BY <1>3, ByAppending
<1>5. P(t)
  BY <1>4 DEF T
<1> HIDE DEF X, Y
<1> QED  BY <1>5 DEF X, Y

(* What replays to its end did so before its last events, too. *)
LEMMA BeginningReplays ==
  ASSUME NEW s \in Seq(EventType), NEW t \in Seq(EventType), R(s \o t).ok
  PROVE  R(s).ok /\ R(s).zone.astray \subseteq R(s \o t).zone.astray
<1> DEFINE P(u) == R(s \o u).ok => R(s).ok /\ R(s).zone.astray \subseteq R(s \o u).zone.astray
           T == {u \in Seq(EventType) : P(u)}
<1>1. P(<<>>)
  <2>1. s \o <<>> = s
    BY ConcatEmptySeq
  <2> QED  BY <2>1
<1>2. ASSUME NEW u \in Seq(EventType), NEW e \in EventType, P(u) PROVE P(Append(u, e))
  <2>1. s \o u \in Seq(EventType) /\ s \o Append(u, e) = Append(s \o u, e)
    BY ConcatProperties, ConcatAppend
  <2>2. R(s \o Append(u, e)) = OneEvent(R(s \o u), e)
    BY <2>1, ReplayAppend
  <2> DEFINE x == R(s \o u)
             y == R(s \o Append(u, e))
  <2>3. x \in Replayed /\ y = OneEvent(x, e)
    BY <2>1, <2>2, ReplayFacts
  <2>4. x.ok => R(s).ok /\ R(s).zone.astray \subseteq x.zone.astray
    BY <1>2
  <2>5. SUFFICES y.ok => R(s).ok /\ R(s).zone.astray \subseteq y.zone.astray
    OBVIOUS
  <2> HIDE DEF x, y
  <2>6. ASSUME y.ok PROVE x.ok /\ y.zone = Applied(x.zone, e)
    BY <2>3, <2>6 DEF OneEvent, Replayed
  <2>7. x.zone.astray \subseteq Applied(x.zone, e).astray
    BY DEF Applied
  <2> QED  BY <2>4, <2>6, <2>7
<1>3. <<>> \in T /\ \A u \in Seq(EventType), e \in EventType : u \in T => Append(u, e) \in T
  <2> HIDE DEF P
  <2>1. <<>> \in Seq(EventType)
    OBVIOUS
  <2>2. ASSUME NEW u \in Seq(EventType), NEW e \in EventType, u \in T PROVE Append(u, e) \in T
    <3>1. Append(u, e) \in Seq(EventType)
      BY AppendProperties
    <3> QED  BY <1>2, <2>2, <3>1
  <2> QED  BY <1>1, <2>1, <2>2
<1> HIDE DEF T
<1>4. t \in T
  BY <1>3, ByAppending
<1> QED  BY <1>4 DEF T

LEMMA AllPrefixesReplay ==
  ASSUME NEW h \in Seq(EventType), R(h).ok, R(h).zone.astray = {}, NEW q \in 0..Len(h)
  PROVE  /\ SubSeq(h, 1, q) \in Seq(EventType)
         /\ R(SubSeq(h, 1, q)) \in Replayed
         /\ R(SubSeq(h, 1, q)).ok /\ R(SubSeq(h, 1, q)).zone.astray = {}
<1> DEFINE n == Len(h)
           a == SubSeq(h, 1, q)
           b == SubSeq(h, q + 1, n)
<1>1. n \in Nat /\ n \in q..Len(h)
  BY LenProperties
<1>2. a \in Seq(EventType) /\ a \o b = SubSeq(h, 1, n)
  BY <1>1, PartsMeet
<1>3. b \in Seq(EventType)
  BY <1>1, PartOf
<1>4. a \o b = h
  BY <1>2, SubSeqFull
<1> HIDE DEF a, b
<1>5. R(a).ok /\ R(a).zone.astray \subseteq R(h).zone.astray
  BY <1>2, <1>3, <1>4, BeginningReplays
<1>6. R(a) \in Replayed
  BY <1>2, ReplayFacts
<1> QED  BY <1>2, <1>5, <1>6 DEF a

(* The same state from d and what comes after p, as from all before q.     *)
SameFrom(h, p, q, d) ==
    LET t == SubSeq(h, p + 1, q)
        x == R(d \o t)
        y == R(SubSeq(h, 1, q))
    IN  /\ d \o t \in Seq(EventType)
        /\ x \in Replayed /\ x.ok /\ x.zone.has = y.zone.has /\ x.zone.astray = {}
        /\ (\A i \in (p+1)..q : h[i].kind # "default")
              => /\ x.zone.default = R(d).zone.default
                 /\ y.zone.default = R(SubSeq(h, 1, p)).zone.default
        /\ (\E i \in (p+1)..q : h[i].kind = "default") => x.zone.default = y.zone.default
        /\ q = p => x.zone.next = R(d).zone.next
        /\ p < q => x.zone.next = Plus(h[q].num, 1)

LEMMA Rebuilt ==
  ASSUME NEW h \in Seq(EventType), R(h).ok, R(h).zone.astray = {},
         NEW p \in 0..Len(h), NEW q \in p..Len(h),
         NEW d \in Seq(EventType), R(d).ok, R(d).zone.astray = {},
         R(d).zone.has = R(SubSeq(h, 1, p)).zone.has
  PROVE  SameFrom(h, p, q, d)
<1> SUFFICES
         LET t == SubSeq(h, p + 1, q)
             x == R(d \o t)
             y == R(SubSeq(h, 1, q))
         IN  /\ d \o t \in Seq(EventType)
             /\ x \in Replayed /\ x.ok /\ x.zone.has = y.zone.has /\ x.zone.astray = {}
             /\ (\A i \in (p+1)..q : h[i].kind # "default")
                   => /\ x.zone.default = R(d).zone.default
                      /\ y.zone.default = R(SubSeq(h, 1, p)).zone.default
             /\ (\E i \in (p+1)..q : h[i].kind = "default") => x.zone.default = y.zone.default
             /\ q = p => x.zone.next = R(d).zone.next
             /\ p < q => x.zone.next = Plus(h[q].num, 1)
  BY DEF SameFrom
<1> DEFINE t == SubSeq(h, p + 1, q)
           b == SubSeq(h, 1, p)
           x == R(d \o t)
           y == R(SubSeq(h, 1, q))
<1>1. Len(h) \in Nat /\ p \in Nat /\ q \in Nat /\ q \in 0..Len(h) /\ p <= q
  BY LenProperties
<1>2. /\ t \in Seq(EventType) /\ Len(t) = q - p
      /\ \A i \in 1..(q - p) : t[i] = h[p + i]
  BY PartOf
<1>3. b \in Seq(EventType) /\ R(b).ok /\ R(b).zone.astray = {}
  BY AllPrefixesReplay
<1>4. b \o t = SubSeq(h, 1, q)
  BY PartsMeet
<1>5. y \in Replayed /\ y.ok /\ y.zone.astray = {}
  BY <1>1, AllPrefixesReplay
<1>6. y = R(b \o t)
  BY <1>4
<1> HIDE DEF t, b, y
<1>7. d \o t \in Seq(EventType)
  BY <1>2, ConcatProperties
<1>8. x \in Replayed
  BY <1>7, ReplayFacts
<1>9. R(d) \in Replayed /\ R(b) \in Replayed
  BY <1>3, ReplayFacts
<1>10. R(d).ok = R(b).ok /\ R(d).zone.has = R(b).zone.has /\ R(d).zone.astray = R(b).zone.astray
  <2>1. R(d).zone.has = R(b).zone.has /\ R(d).zone.astray = R(b).zone.astray
    BY <1>3 DEF b
  <2>2. R(d).ok = R(b).ok
    BY <1>3, <1>9 DEF Replayed
  <2> QED  BY <2>1, <2>2
<1>11. /\ x.ok = y.ok /\ x.zone.has = y.zone.has /\ x.zone.astray = y.zone.astray
       /\ y.ok /\ (\A i \in 1..Len(t) : t[i].kind # "default")
             => x.zone.default = R(d).zone.default /\ y.zone.default = R(b).zone.default
       /\ y.ok /\ (\E i \in 1..Len(t) : t[i].kind = "default")
             => x.zone.default = y.zone.default
       /\ y.ok /\ t # <<>> => x.zone.next = Plus(t[Len(t)].num, 1)
  <2>1. LET xx == R(d \o t)
            yy == R(b \o t)
        IN  /\ xx.ok = yy.ok /\ xx.zone.has = yy.zone.has /\ xx.zone.astray = yy.zone.astray
            /\ yy.ok /\ (\A i \in 1..Len(t) : t[i].kind # "default")
                  => xx.zone.default = R(d).zone.default /\ yy.zone.default = R(b).zone.default
            /\ yy.ok /\ (\E i \in 1..Len(t) : t[i].kind = "default")
                  => xx.zone.default = yy.zone.default
            /\ yy.ok /\ t # <<>> => xx.zone.next = Plus(t[Len(t)].num, 1)
    BY <1>2, <1>3, <1>10, AlikeRemain
  <2> QED  BY <1>6, <2>1
<1>12. q = p => x = R(d)
  <2>1. q = p => t = <<>>
    BY <1>1, <1>2, EmptySeq
  <2>2. d \o <<>> = d
    BY ConcatEmptySeq
  <2> QED  BY <2>1, <2>2
<1> HIDE DEF x
<1>13. (\A i \in (p+1)..q : h[i].kind # "default") => \A i \in 1..Len(t) : t[i].kind # "default"
  <2>1. \A i \in 1..(q - p) : p + i \in (p+1)..q
    BY <1>1
  <2> QED  BY <1>2, <2>1
<1>14. (\E i \in (p+1)..q : h[i].kind = "default") => \E i \in 1..Len(t) : t[i].kind = "default"
  <2> SUFFICES ASSUME NEW i \in (p+1)..q, h[i].kind = "default"
               PROVE  \E j \in 1..Len(t) : t[j].kind = "default"
    OBVIOUS
  <2>1. i - p \in 1..(q - p) /\ p + (i - p) = i
    BY <1>1
  <2>2. t[i - p] = h[i] /\ i - p \in 1..Len(t)
    BY <1>2, <2>1
  <2> QED  BY <2>2
<1>15. p < q => t # <<>> /\ t[Len(t)] = h[q]
  <2>1. p < q => q - p \in 1..(q - p) /\ p + (q - p) = q /\ q - p # 0
    BY <1>1
  <2>2. Len(<<>>) = 0
    OBVIOUS
  <2> QED  BY <1>2, <2>1, <2>2
<1>16. x.ok /\ x.zone.has = y.zone.has /\ x.zone.astray = {}
  BY <1>5, <1>11
<1>17. (\A i \in (p+1)..q : h[i].kind # "default")
         => x.zone.default = R(d).zone.default /\ y.zone.default = R(b).zone.default
  BY <1>5, <1>11, <1>13
<1>18. (\E i \in (p+1)..q : h[i].kind = "default") => x.zone.default = y.zone.default
  BY <1>5, <1>11, <1>14
<1>19. p < q => x.zone.next = Plus(h[q].num, 1)
  BY <1>5, <1>11, <1>15
<1> QED  BY <1>7, <1>8, <1>12, <1>16, <1>17, <1>18, <1>19 DEF t, b, x, y

Latest(sn, upTo, n) == n \in DOMAIN sn /\ n <= upTo /\ \A m \in DOMAIN sn : m <= upTo => m <= n

LEMMA FindsLatest ==
  ASSUME NEW sn, DOMAIN sn \subseteq Number, NEW upTo \in Number
  PROVE  \/ FindPreviousSnapshot(sn, upTo) = {} /\ \A n \in DOMAIN sn : ~(n <= upTo)
         \/ \E n : FindPreviousSnapshot(sn, upTo) = {n} /\ Latest(sn, upTo, n)
<1> DEFINE old == {n \in DOMAIN sn : n <= upTo}
<1>1. MaxUint \in Nat /\ upTo \in Nat /\ \A n \in DOMAIN sn : n \in Nat /\ n <= MaxUint
  BY StoreAssumption DEF Number
<1>2. CASE old = {}
  BY <1>2 DEF FindPreviousSnapshot
<1>3. CASE old # {}
  <2> DEFINE U == {upTo - n : n \in old}
  <2>1. U \subseteq Nat /\ U # {}
    <3>1. \A n \in old : upTo - n \in Nat
      BY <1>1
    <3> HIDE DEF old
    <3> QED  BY <1>3, <3>1
  <2> HIDE DEF U
  <2>2. PICK u \in U : \A v \in U : u <= v
    BY <2>1, Lowest
  <2>3. PICK n \in old : u = upTo - n
    BY DEF U
  <2>4. \A m \in old : m <= n
    <3> SUFFICES ASSUME NEW m \in old PROVE m <= n
      OBVIOUS
    <3>1. u <= upTo - m
      BY <2>2 DEF U
    <3>2. m \in Nat /\ n \in Nat
      BY <1>1
    <3> QED  BY <1>1, <2>3, <3>1, <3>2
  <2> DEFINE c == CHOOSE k \in old : \A m \in old : m <= k
  <2>5. c \in old /\ \A m \in old : m <= c
    <3> HIDE DEF old
    <3> QED  BY <2>4
  <2>6. FindPreviousSnapshot(sn, upTo) = {c}
    BY <1>3 DEF FindPreviousSnapshot
  <2> HIDE DEF c
  <2>7. Latest(sn, upTo, c)
    BY <2>5 DEF Latest
  <2> QED  BY <2>6, <2>7
<1> QED  BY <1>2, <1>3

(* What a snapshot file has in it, with a history that goes on after it.   *)
Restores(h, z, n, file) ==
    \E p, d : /\ IsCut(h, n, p)
              /\ d \in Snapshot(z, R(SubSeq(h, 1, p)).zone, n)
              /\ Begins(file, d) /\ Len(file) = 2 * Len(d)

HistoryOf(file, z) == EventsOf(ReadEvents(file).events, z, 0)

LEMMA FromLogOf ==
  ASSUME NEW file \in Seq(Piece), NEW z, NEW first, NEW upTo \in Nat,
         NEW h, h = HistoryOf(file, z), NEW p \in 0..Len(h),
         EventsOf(ReadEvents(file).events, z, first) = SubSeq(h, p + 1, Len(h))
  PROVE  FromLogSays(h, file, z, first, upTo, p)
<1> DEFINE g == EventsOf(ReadEvents(file).events, z, 0)
<1>1. h = g
  BY DEF HistoryOf
<1>2. p \in 0..Len(g) /\ EventsOf(ReadEvents(file).events, z, first) = SubSeq(g, p + 1, Len(g))
  BY <1>1, Zenon
<1>3. FromLogSays(g, file, z, first, upTo, p)
  BY <1>2, FromLogIs
<1> HIDE DEF g
<1> QED  BY <1>1, <1>3, Zenon

LEMMA AboveOf ==
  ASSUME NEW file \in Seq(Piece), NEW z, NEW n \in Nat,
         NEW h, h = HistoryOf(file, z), Rises(h)
  PROVE  Onwards(h, file, z, n)
<1> DEFINE s == ReadEvents(file).events
           g == EventsOf(s, z, 0)
<1>1. h = g
  BY DEF HistoryOf
<1>2. s \in Seq(EventType)
  BY ReadTyped
<1> HIDE DEF s
<1>3. Rises(EventsOf(s, z, 0))
  BY <1>1, Zenon
<1>4. \E p : /\ IsCut(EventsOf(s, z, 0), n, p)
             /\ EventsOf(s, z, n + 1) = SubSeq(EventsOf(s, z, 0), p + 1, Len(EventsOf(s, z, 0)))
  BY <1>2, <1>3, EventsAbove
<1> QED  BY <1>1, <1>4, Zenon DEF s, Onwards

(* A snapshot or nothing, and the rest of the history up to a number.      *)
SnapshotAndRest(h, file, sn, z, upTo) ==
    \E p \in 0..Len(h) : \E q \in p..Len(h), d \in Seq(EventType), ok \in BOOLEAN :
        /\ RetrieveEvents(file, sn, z, upTo) = [events |-> d \o SubSeq(h, p + 1, q), ok |-> ok]
        /\ IsCut(h, upTo, q)
        /\ ReadEvents(file).ok => ok
        /\ (\A i \in 1..Len(h) : h[i].num <= upTo) /\ ok => ReadEvents(file).ok
        /\ R(d).ok /\ R(d).zone.has = R(SubSeq(h, 1, p)).zone.has
        /\ R(d).zone.astray = {} /\ R(d).zone.default = {}
        /\ \/ p = 0 /\ d = <<>> /\ \A n \in DOMAIN sn : ~(n <= upTo)
           \/ \E n : /\ Latest(sn, upTo, n) /\ IsCut(h, n, p)
                     /\ sn[n] # <<>> => R(d).zone.next = Plus(n, 1)

LEMMA Retrieved ==
  ASSUME NEW file \in Seq(Piece), file # <<>>, NEW z \in Zone, NEW upTo \in Number,
         NEW sn, DOMAIN sn \subseteq Number, MaxUint \notin DOMAIN sn,
         \A n \in DOMAIN sn : sn[n] \in Seq(Piece),
         NEW h, h = HistoryOf(file, z), Rises(h), R(h).ok, R(h).zone.astray = {},
         \A n : Latest(sn, upTo, n) => Restores(h, z, n, sn[n])
  PROVE  SnapshotAndRest(h, file, sn, z, upTo)
<1> SUFFICES
         \E p \in 0..Len(h) : \E q \in p..Len(h), d \in Seq(EventType), ok \in BOOLEAN :
            /\ RetrieveEvents(file, sn, z, upTo) = [events |-> d \o SubSeq(h, p + 1, q), ok |-> ok]
            /\ IsCut(h, upTo, q)
            /\ ReadEvents(file).ok => ok
            /\ (\A i \in 1..Len(h) : h[i].num <= upTo) /\ ok => ReadEvents(file).ok
            /\ R(d).ok /\ R(d).zone.has = R(SubSeq(h, 1, p)).zone.has
            /\ R(d).zone.astray = {} /\ R(d).zone.default = {}
            /\ \/ p = 0 /\ d = <<>> /\ \A n \in DOMAIN sn : ~(n <= upTo)
               \/ \E n : /\ Latest(sn, upTo, n) /\ IsCut(h, n, p)
                         /\ sn[n] # <<>> => R(d).zone.next = Plus(n, 1)
  BY DEF SnapshotAndRest
<1> DEFINE read == ReadEvents(file)
           snap == FindPreviousSnapshot(sn, upTo)
           after == FromLog(file, z, FirstAfter(snap), upTo)
<1>1. read.events \in Seq(EventType) /\ h \in Seq(EventType) /\ h = EventsOf(read.events, z, 0)
  BY ReadTyped, EventsOfTyped DEF HistoryOf
<1>2. Len(h) \in Nat /\ upTo \in Nat /\ \A i \in 1..Len(h) : h[i].num \in Nat
  BY <1>1, Numbered DEF Number
<1> HIDE DEF snap, read
<1>3. ASSUME snap = {}, \A n \in DOMAIN sn : ~(n <= upTo)
      PROVE  \E q \in 0..Len(h), ok \in BOOLEAN :
                /\ RetrieveEvents(file, sn, z, upTo) = [events |-> SubSeq(h, 1, q), ok |-> ok]
                /\ IsCut(h, upTo, q)
                /\ read.ok => ok
                /\ (\A i \in 1..Len(h) : h[i].num <= upTo) /\ ok => read.ok
  <2>1. RetrieveEvents(file, sn, z, upTo) = FromLog(file, z, 0, upTo)
    BY <1>3 DEF RetrieveEvents, FirstAfter, snap
  <2>2. EventsOf(ReadEvents(file).events, z, 0) = SubSeq(h, 0 + 1, Len(h))
    <3>1. EventsOf(read.events, z, 0) = SubSeq(h, 1, Len(h)) /\ 0 + 1 = 1
      BY <1>1, SubSeqFull
    <3> QED  BY <3>1 DEF read
  <2>3. \E q \in 0..Len(h), ok \in BOOLEAN :
                /\ FromLog(file, z, 0, upTo) = [events |-> SubSeq(h, 0 + 1, q), ok |-> ok]
                /\ \A i \in (0+1)..q : h[i].num <= upTo
                /\ Rises(h) => \A i \in (q+1)..Len(h) : ~(h[i].num <= upTo)
                /\ read.ok => ok
                /\ (\A i \in 1..Len(h) : h[i].num <= upTo) /\ ok => read.ok
    <3>1. 0 \in 0..Len(h)
      BY <1>2
    <3>2. FromLogSays(h, file, z, 0, upTo, 0)
      BY <1>2, <2>2, <3>1, FromLogOf
    <3> QED  BY <3>2 DEF FromLogSays, read
  <2>4. PICK q \in 0..Len(h), ok \in BOOLEAN :
                /\ FromLog(file, z, 0, upTo) = [events |-> SubSeq(h, 0 + 1, q), ok |-> ok]
                /\ \A i \in (0+1)..q : h[i].num <= upTo
                /\ Rises(h) => \A i \in (q+1)..Len(h) : ~(h[i].num <= upTo)
                /\ read.ok => ok
                /\ (\A i \in 1..Len(h) : h[i].num <= upTo) /\ ok => read.ok
    BY <2>3
  <2>5. IsCut(h, upTo, q)
    <3>1. \A i \in 1..Len(h) : i <= q => i \in (0+1)..q
      BY <1>2
    <3>2. \A i \in 1..Len(h) : ~(i <= q) => i \in (q+1)..Len(h)
      BY <1>2
    <3> QED  BY <2>4, <3>1, <3>2 DEF IsCut
  <2>6. 0 + 1 = 1
    OBVIOUS
  <2> QED  BY <2>1, <2>4, <2>5, <2>6
<1>4. ASSUME NEW n, snap = {n}, Latest(sn, upTo, n)
      PROVE  \E p \in 0..Len(h) : \E q \in p..Len(h), d \in Seq(EventType), ok \in BOOLEAN :
                /\ RetrieveEvents(file, sn, z, upTo) = [events |-> d \o SubSeq(h, p + 1, q), ok |-> ok]
                /\ IsCut(h, n, p) /\ IsCut(h, upTo, q)
                /\ read.ok => ok
                /\ (\A i \in 1..Len(h) : h[i].num <= upTo) /\ ok => read.ok
                /\ R(d).ok /\ R(d).zone.has = R(SubSeq(h, 1, p)).zone.has
                /\ R(d).zone.astray = {} /\ R(d).zone.default = {}
                /\ sn[n] # <<>> => R(d).zone.next = Plus(n, 1)
  <2>1. (CHOOSE k \in snap : TRUE) = n
    BY <1>4
  <2>2. n \in DOMAIN sn /\ n \in Number /\ n \in Nat /\ n <= upTo /\ n # MaxUint /\ MaxUint \in Nat
    BY <1>4, StoreAssumption DEF Latest, Number
  <2>3. FirstAfter(snap) = n + 1
    <3>1. 1 \in Nat /\ n + 1 <= MaxUint
      BY <2>2 DEF Number
    <3>2. Plus(n, 1) = n + 1
      BY <2>2, <3>1, PlusFacts
    <3> QED  BY <1>4, <2>1, <3>2 DEF FirstAfter
  <2>4. PICK p : /\ IsCut(h, n, p)
                 /\ EventsOf(ReadEvents(file).events, z, n + 1) = SubSeq(h, p + 1, Len(h))
    <3>1. Onwards(h, file, z, n)
      BY <2>2, AboveOf
    <3> QED  BY <3>1 DEF Onwards
  <2>5. p \in 0..Len(h)
    BY <2>4 DEF IsCut
  <2>6. PICK q \in p..Len(h), ok \in BOOLEAN :
                /\ FromLog(file, z, n + 1, upTo) = [events |-> SubSeq(h, p + 1, q), ok |-> ok]
                /\ \A i \in (p+1)..q : h[i].num <= upTo
                /\ Rises(h) => \A i \in (q+1)..Len(h) : ~(h[i].num <= upTo)
                /\ read.ok => ok
                /\ (\A i \in 1..Len(h) : h[i].num <= upTo) /\ ok => read.ok
    <3>1. FromLogSays(h, file, z, n + 1, upTo, p)
      BY <1>2, <2>4, <2>5, FromLogOf
    <3> QED  BY <3>1 DEF FromLogSays, read
  <2>7. IsCut(h, upTo, q)
    <3>1. q \in 0..Len(h) /\ p \in Nat /\ q \in Nat
      BY <1>2, <2>5
    <3>2. ASSUME NEW i \in 1..Len(h), i <= q PROVE h[i].num <= upTo
      <4>1. CASE i <= p
        <5>1. h[i].num <= n
          BY <2>4, <4>1 DEF IsCut
        <5> QED  BY <1>2, <2>2, <5>1
      <4>2. CASE ~(i <= p)
        <5>1. i \in (p+1)..q
          BY <1>2, <3>1, <3>2, <4>2
        <5> QED  BY <2>6, <5>1
      <4> QED  BY <4>1, <4>2
    <3>3. ASSUME NEW i \in 1..Len(h), ~(i <= q) PROVE ~(h[i].num <= upTo)
      <4>1. i \in (q+1)..Len(h)
        BY <1>2, <3>1, <3>3
      <4> QED  BY <2>6, <4>1
    <3> QED  BY <3>1, <3>2, <3>3 DEF IsCut
  <2>8. Restores(h, z, n, sn[n])
    BY <1>4
  <2>9. PICK pp, d : /\ IsCut(h, n, pp)
                     /\ d \in Snapshot(z, R(SubSeq(h, 1, pp)).zone, n)
                     /\ Begins(sn[n], d) /\ Len(sn[n]) = 2 * Len(d)
    BY <2>8 DEF Restores
  <2>10. pp = p
    BY <1>1, <2>4, <2>9, CutUnique
  <2> DEFINE c == R(SubSeq(h, 1, p)).zone
  <2>11. c \in FiniteContent
    BY <1>1, <2>5, AllPrefixesReplay DEF Replayed
  <2>12. d \in Snapshot(z, c, n)
    BY <2>9, <2>10
  <2> HIDE DEF c
  <2>13. /\ d \in Seq(EventType)
         /\ R(d).ok /\ R(d).zone.has = c.has
         /\ R(d).zone.astray = {} /\ R(d).zone.default = {}
         /\ d # <<>> => R(d).zone.next = Plus(n, 1)
    BY <2>2, <2>11, <2>12, SnapshotRebuilds
  <2>14. ReadEvents(sn[n]).events = d /\ ReadEvents(sn[n]).ok
    <3>1. sn[n] \in Seq(Piece) /\ Len(sn[n]) = 2 * Len(d) /\ Begins(sn[n], d) /\ Len(d) \in Nat
      BY <2>2, <2>9, <2>13, LenProperties
    <3>2. ~(2 * (Len(d) + 1) <= Len(sn[n]))
      BY <3>1
    <3> QED  BY <2>13, <3>1, <3>2, ReadIs
  <2>15. sn[n] # <<>> => d # <<>>
    <3>1. sn[n] \in Seq(Piece) /\ Len(sn[n]) = 2 * Len(d)
      BY <2>2, <2>9
    <3>2. d = <<>> => Len(sn[n]) = 0
      BY <3>1
    <3> QED  BY <3>1, <3>2, EmptySeq
  <2>16. RetrieveEvents(file, sn, z, upTo) = [events |-> d \o SubSeq(h, p + 1, q), ok |-> ok]
    <3> DEFINE rd == ReadEvents(sn[n])
               af == FromLog(file, z, n + 1, upTo)
    <3>1. snap # {}
      BY <1>4
    <3>2. RetrieveEvents(file, sn, z, upTo) = IF rd.ok THEN [af EXCEPT !.events = rd.events \o @] ELSE rd
      BY <2>1, <2>3, <3>1 DEF RetrieveEvents, snap
    <3>3. rd.ok /\ rd.events = d /\ af = [events |-> SubSeq(h, p + 1, q), ok |-> ok]
      BY <2>6, <2>14
    <3> HIDE DEF rd, af
    <3>4. RetrieveEvents(file, sn, z, upTo) = [af EXCEPT !.events = d \o @]
      BY <3>2, <3>3
    <3> QED  BY <3>3, <3>4
  <2> QED  BY <2>4, <2>5, <2>6, <2>7, <2>13, <2>15, <2>16 DEF c
<1>5. CASE snap = {} /\ \A n \in DOMAIN sn : ~(n <= upTo)
  <2>1. PICK q \in 0..Len(h), ok \in BOOLEAN :
                /\ RetrieveEvents(file, sn, z, upTo) = [events |-> SubSeq(h, 1, q), ok |-> ok]
                /\ IsCut(h, upTo, q)
                /\ read.ok => ok
                /\ (\A i \in 1..Len(h) : h[i].num <= upTo) /\ ok => read.ok
    BY <1>3, <1>5
  <2>2. /\ SubSeq(h, 1, q) \in Seq(EventType) /\ 0 \in 0..Len(h) /\ 0 + 1 = 1
        /\ <<>> \in Seq(EventType)
    BY <1>1, <1>2, AllPrefixesReplay
  <2>3. <<>> \o SubSeq(h, 0 + 1, q) = SubSeq(h, 1, q)
    BY <2>2, ConcatEmptySeq
  <2>4. SubSeq(h, 1, 0) = <<>>
    BY SubSeqEmpty
  <2>5. R(<<>>).ok /\ R(<<>>).zone.astray = {} /\ R(<<>>).zone.default = {}
    BY ReplayEmpty DEF NewZone
  <2>6. R(<<>>).zone.has = R(SubSeq(h, 1, 0)).zone.has
    BY <2>4, Zenon
  <2>7. RetrieveEvents(file, sn, z, upTo) = [events |-> <<>> \o SubSeq(h, 0 + 1, q), ok |-> ok]
    BY <2>1, <2>3, Zenon
  <2>8. \E d \in Seq(EventType) :
            /\ RetrieveEvents(file, sn, z, upTo) = [events |-> d \o SubSeq(h, 0 + 1, q), ok |-> ok]
            /\ R(d).ok /\ R(d).zone.has = R(SubSeq(h, 1, 0)).zone.has
            /\ R(d).zone.astray = {} /\ R(d).zone.default = {}
            /\ d = <<>>
    BY <2>2, <2>5, <2>6, <2>7, Zenon
  <2> QED  BY <1>5, <2>1, <2>2, <2>8 DEF read
<1>6. CASE \E n : snap = {n} /\ Latest(sn, upTo, n)
  <2>1. PICK n : snap = {n} /\ Latest(sn, upTo, n)
    BY <1>6
  <2>2. PICK p \in 0..Len(h) : \E q \in p..Len(h), d \in Seq(EventType), ok \in BOOLEAN :
                /\ RetrieveEvents(file, sn, z, upTo) = [events |-> d \o SubSeq(h, p + 1, q), ok |-> ok]
                /\ IsCut(h, n, p) /\ IsCut(h, upTo, q)
                /\ read.ok => ok
                /\ (\A i \in 1..Len(h) : h[i].num <= upTo) /\ ok => read.ok
                /\ R(d).ok /\ R(d).zone.has = R(SubSeq(h, 1, p)).zone.has
                /\ R(d).zone.astray = {} /\ R(d).zone.default = {}
                /\ sn[n] # <<>> => R(d).zone.next = Plus(n, 1)
    BY <1>4, <2>1
  <2>3. PICK q \in p..Len(h), d \in Seq(EventType), ok \in BOOLEAN :
                /\ RetrieveEvents(file, sn, z, upTo) = [events |-> d \o SubSeq(h, p + 1, q), ok |-> ok]
                /\ IsCut(h, n, p) /\ IsCut(h, upTo, q)
                /\ read.ok => ok
                /\ (\A i \in 1..Len(h) : h[i].num <= upTo) /\ ok => read.ok
                /\ R(d).ok /\ R(d).zone.has = R(SubSeq(h, 1, p)).zone.has
                /\ R(d).zone.astray = {} /\ R(d).zone.default = {}
                /\ sn[n] # <<>> => R(d).zone.next = Plus(n, 1)
    BY <2>2
  <2>4. \E m : Latest(sn, upTo, m) /\ IsCut(h, m, p) /\ (sn[m] # <<>> => R(d).zone.next = Plus(m, 1))
    BY <2>1, <2>3
  <2> QED  BY <2>3, <2>4 DEF read
<1> QED  BY <1>5, <1>6, FindsLatest DEF snap

(* What a start or a snapshot replays is what the whole history makes.     *)
ReloadedAs(h, file, sn, z, upTo) ==
    LET r == Replay(RetrieveEvents(file, sn, z, upTo))
    IN  \E q \in 0..Len(h) :
           /\ IsCut(h, upTo, q) /\ r \in Replayed
           /\ ReadEvents(file).ok => r.ok
           /\ (\A i \in 1..Len(h) : h[i].num <= upTo) /\ r.ok => ReadEvents(file).ok
           /\ r.zone.has = R(SubSeq(h, 1, q)).zone.has /\ r.zone.astray = {}
           /\ \/ r.zone.default = R(SubSeq(h, 1, q)).zone.default
              \/ /\ r.zone.default = {}
                 /\ \E n \in DOMAIN sn : \A i \in 1..q : h[i].kind = "default" => h[i].num <= n
           /\ \A n \in DOMAIN sn :
                 n <= upTo /\ (\A i \in 1..q : h[i].kind = "default" => h[i].num <= n)
                    => r.zone.default = {}
           /\ \A b \in Nat :
                 /\ b <= MaxUint
                 /\ \A i \in 1..q : h[i].num < b
                 /\ \A n \in DOMAIN sn : n < b
                 /\ \A n : Latest(sn, upTo, n) => sn[n] # <<>>
                 => /\ r.zone.next <= b
                    /\ \A i \in 1..q : h[i].num < r.zone.next
                    /\ \A n \in DOMAIN sn : n <= upTo => n < r.zone.next

LEMMA Reloaded ==
  ASSUME NEW file \in Seq(Piece), file # <<>>, NEW z \in Zone, NEW upTo \in Number,
         NEW sn, DOMAIN sn \subseteq Number, MaxUint \notin DOMAIN sn,
         \A n \in DOMAIN sn : sn[n] \in Seq(Piece),
         NEW h, h = HistoryOf(file, z), Rises(h), R(h).ok, R(h).zone.astray = {},
         \A n : Latest(sn, upTo, n) => Restores(h, z, n, sn[n])
  PROVE  ReloadedAs(h, file, sn, z, upTo)
<1> SUFFICES
         LET r == Replay(RetrieveEvents(file, sn, z, upTo))
         IN  \E q \in 0..Len(h) :
                /\ IsCut(h, upTo, q) /\ r \in Replayed
                /\ ReadEvents(file).ok => r.ok
                /\ (\A i \in 1..Len(h) : h[i].num <= upTo) /\ r.ok => ReadEvents(file).ok
                /\ r.zone.has = R(SubSeq(h, 1, q)).zone.has /\ r.zone.astray = {}
                /\ \/ r.zone.default = R(SubSeq(h, 1, q)).zone.default
                   \/ /\ r.zone.default = {}
                      /\ \E n \in DOMAIN sn : \A i \in 1..q : h[i].kind = "default" => h[i].num <= n
                /\ \A n \in DOMAIN sn :
                      n <= upTo /\ (\A i \in 1..q : h[i].kind = "default" => h[i].num <= n)
                         => r.zone.default = {}
                /\ \A b \in Nat :
                      /\ b <= MaxUint
                      /\ \A i \in 1..q : h[i].num < b
                      /\ \A n \in DOMAIN sn : n < b
                      /\ \A n : Latest(sn, upTo, n) => sn[n] # <<>>
                      => /\ r.zone.next <= b
                         /\ \A i \in 1..q : h[i].num < r.zone.next
                         /\ \A n \in DOMAIN sn : n <= upTo => n < r.zone.next
  BY DEF ReloadedAs
<1> DEFINE r == Replay(RetrieveEvents(file, sn, z, upTo))
<1>1. PICK p \in 0..Len(h) : \E q \in p..Len(h), d \in Seq(EventType), ok \in BOOLEAN :
            /\ RetrieveEvents(file, sn, z, upTo) = [events |-> d \o SubSeq(h, p + 1, q), ok |-> ok]
            /\ IsCut(h, upTo, q)
            /\ ReadEvents(file).ok => ok
            /\ (\A i \in 1..Len(h) : h[i].num <= upTo) /\ ok => ReadEvents(file).ok
            /\ R(d).ok /\ R(d).zone.has = R(SubSeq(h, 1, p)).zone.has
            /\ R(d).zone.astray = {} /\ R(d).zone.default = {}
            /\ \/ p = 0 /\ d = <<>> /\ \A n \in DOMAIN sn : ~(n <= upTo)
               \/ \E n : /\ Latest(sn, upTo, n) /\ IsCut(h, n, p)
                         /\ sn[n] # <<>> => R(d).zone.next = Plus(n, 1)
  <2>1. SnapshotAndRest(h, file, sn, z, upTo)
    BY Retrieved
  <2> QED  BY <2>1 DEF SnapshotAndRest
<1>2. PICK q \in p..Len(h), d \in Seq(EventType), ok \in BOOLEAN :
            /\ RetrieveEvents(file, sn, z, upTo) = [events |-> d \o SubSeq(h, p + 1, q), ok |-> ok]
            /\ IsCut(h, upTo, q)
            /\ ReadEvents(file).ok => ok
            /\ (\A i \in 1..Len(h) : h[i].num <= upTo) /\ ok => ReadEvents(file).ok
            /\ R(d).ok /\ R(d).zone.has = R(SubSeq(h, 1, p)).zone.has
            /\ R(d).zone.astray = {} /\ R(d).zone.default = {}
            /\ \/ p = 0 /\ d = <<>> /\ \A n \in DOMAIN sn : ~(n <= upTo)
               \/ \E n : /\ Latest(sn, upTo, n) /\ IsCut(h, n, p)
                         /\ sn[n] # <<>> => R(d).zone.next = Plus(n, 1)
  BY <1>1
<1> DEFINE t == SubSeq(h, p + 1, q)
           x == R(d \o t)
           y == R(SubSeq(h, 1, q))
<1>3. h \in Seq(EventType) /\ ReadEvents(file).ok \in BOOLEAN
  BY ReadTyped, EventsOfTyped DEF HistoryOf
<1>4. /\ d \o t \in Seq(EventType)
      /\ x \in Replayed /\ x.ok /\ x.zone.has = y.zone.has /\ x.zone.astray = {}
      /\ (\A i \in (p+1)..q : h[i].kind # "default")
             => /\ x.zone.default = R(d).zone.default
                /\ y.zone.default = R(SubSeq(h, 1, p)).zone.default
      /\ (\E i \in (p+1)..q : h[i].kind = "default") => x.zone.default = y.zone.default
      /\ q = p => x.zone.next = R(d).zone.next
      /\ p < q => x.zone.next = Plus(h[q].num, 1)
  <2>1. LET tt == SubSeq(h, p + 1, q)
            xx == R(d \o tt)
            yy == R(SubSeq(h, 1, q))
        IN  /\ d \o tt \in Seq(EventType)
            /\ xx \in Replayed /\ xx.ok /\ xx.zone.has = yy.zone.has /\ xx.zone.astray = {}
            /\ (\A i \in (p+1)..q : h[i].kind # "default")
                  => /\ xx.zone.default = R(d).zone.default
                     /\ yy.zone.default = R(SubSeq(h, 1, p)).zone.default
            /\ (\E i \in (p+1)..q : h[i].kind = "default") => xx.zone.default = yy.zone.default
            /\ q = p => xx.zone.next = R(d).zone.next
            /\ p < q => xx.zone.next = Plus(h[q].num, 1)
    <3>1. R(d).ok /\ R(d).zone.astray = {} /\ R(d).zone.has = R(SubSeq(h, 1, p)).zone.has
      BY <1>2
    <3>2. q \in p..Len(h) /\ d \in Seq(EventType) /\ p \in 0..Len(h)
      OBVIOUS
    <3>3. SameFrom(h, p, q, d)
      BY <1>3, <3>1, <3>2, Rebuilt
    <3> QED  BY <3>3 DEF SameFrom
  <2> QED  BY <2>1
<1>5. r = [ok |-> x.ok /\ ok, zone |-> x.zone]
  BY <1>2, <1>4, ReplayFacts
<1> HIDE DEF r, x, y, t
<1>6. r \in Replayed /\ r.zone = x.zone /\ r.ok = ok
  <2>1. (x.ok /\ ok) = ok
    BY <1>4
  <2> QED  BY <1>4, <1>5, <2>1 DEF Replayed
<1>7. /\ Len(h) \in Nat /\ p \in Nat /\ q \in Nat /\ p <= q /\ q <= Len(h) /\ q \in 0..Len(h)
      /\ upTo \in Nat /\ MaxUint \in Nat
      /\ \A i \in 1..q : i \in 1..Len(h) /\ h[i].num \in Nat
      /\ \A i \in 1..Len(h) : h[i].num \in Nat
      /\ \A n \in DOMAIN sn : n \in Nat
  BY <1>3, Numbered, StoreAssumption DEF Number
<1> DEFINE No == p = 0 /\ d = <<>> /\ \A n \in DOMAIN sn : ~(n <= upTo)
           Yes(n) == /\ Latest(sn, upTo, n) /\ IsCut(h, n, p)
                     /\ sn[n] # <<>> => R(d).zone.next = Plus(n, 1)
<1>8. No \/ \E n : Yes(n)
  BY <1>2
<1>9. No => R(SubSeq(h, 1, p)).zone.default = {}
  <2>1. SubSeq(h, 1, 0) = <<>>
    BY SubSeqEmpty
  <2>2. R(<<>>).zone.default = {}
    BY ReplayEmpty DEF NewZone
  <2>3. p = 0 => SubSeq(h, 1, p) = <<>>
    BY <2>1
  <2> QED  BY <2>2, <2>3
<1>10. \/ r.zone.default = y.zone.default
       \/ /\ r.zone.default = {}
          /\ \E n \in DOMAIN sn : \A i \in 1..q : h[i].kind = "default" => h[i].num <= n
  <2>1. CASE \E i \in (p+1)..q : h[i].kind = "default"
    BY <1>4, <1>6, <2>1
  <2>2. CASE \A i \in (p+1)..q : h[i].kind # "default"
    <3>1. r.zone.default = {} /\ y.zone.default = R(SubSeq(h, 1, p)).zone.default
      BY <1>2, <1>4, <1>6, <2>2
    <3>2. CASE No
      BY <1>9, <3>1, <3>2
    <3>3. CASE \E n : Yes(n)
      <4>1. PICK n : Yes(n)
        BY <3>3
      <4>2. \A i \in 1..q : h[i].kind = "default" => h[i].num <= n
        <5> SUFFICES ASSUME NEW i \in 1..q, h[i].kind = "default" PROVE h[i].num <= n
          OBVIOUS
        <5>1. i \notin (p+1)..q
          BY <2>2
        <5>2. i <= p /\ i \in 1..Len(h)
          BY <1>7, <5>1
        <5> QED  BY <4>1, <5>2 DEF IsCut
      <4>3. n \in DOMAIN sn
        BY <4>1 DEF Latest
      <4> QED  BY <3>1, <4>2, <4>3
    <3> HIDE DEF No, Yes
    <3> QED  BY <1>8, <3>2, <3>3
  <2> QED  BY <2>1, <2>2
<1>11. ASSUME NEW n \in DOMAIN sn, n <= upTo, \A i \in 1..q : h[i].kind = "default" => h[i].num <= n
       PROVE  r.zone.default = {}
  <2>1. ~No
    BY <1>11
  <2> HIDE DEF No
  <2>2. PICK m : Yes(m)
    BY <1>8, <2>1
  <2>3. IsCut(h, m, p) /\ n <= m /\ m \in DOMAIN sn /\ n \in Nat /\ m \in Nat
    <3>1. Latest(sn, upTo, m) /\ IsCut(h, m, p)
      BY <2>2
    <3> QED  BY <1>7, <1>11, <3>1 DEF Latest
  <2>4. \A i \in (p+1)..q : h[i].kind # "default"
    <3> SUFFICES ASSUME NEW i \in (p+1)..q, h[i].kind = "default" PROVE FALSE
      OBVIOUS
    <3>1. i \in 1..q /\ i \in 1..Len(h) /\ ~(i <= p)
      BY <1>7
    <3>2. h[i].num <= n /\ ~(h[i].num <= m) /\ h[i].num \in Nat
      BY <1>7, <1>11, <2>3, <3>1 DEF IsCut
    <3> QED  BY <2>3, <3>2
  <2> QED  BY <1>2, <1>4, <1>6, <2>4
<1>12. ASSUME NEW b \in Nat, b <= MaxUint, \A i \in 1..q : h[i].num < b,
              \A n \in DOMAIN sn : n < b, \A n : Latest(sn, upTo, n) => sn[n] # <<>>
       PROVE  /\ r.zone.next <= b
              /\ \A i \in 1..q : h[i].num < r.zone.next
              /\ \A n \in DOMAIN sn : n <= upTo => n < r.zone.next
  <2>1. \A k \in Nat : k < b => Plus(k, 1) = k + 1
    <3> SUFFICES ASSUME NEW k \in Nat, k < b PROVE Plus(k, 1) = k + 1
      OBVIOUS
    <3>1. k + 1 <= MaxUint /\ 1 \in Nat
      BY <1>7, <1>12
    <3> QED  BY <3>1, PlusFacts
  <2>2. CASE p < q
    <3>1. q \in 1..q /\ q \in 1..Len(h) /\ h[q].num \in Nat /\ h[q].num < b
      BY <1>7, <1>12, <2>2
    <3>2. r.zone.next = h[q].num + 1
      BY <1>4, <1>6, <2>1, <2>2, <3>1
    <3>3. \A i \in 1..q : h[i].num <= h[q].num
      <4> SUFFICES ASSUME NEW i \in 1..q PROVE h[i].num <= h[q].num
        OBVIOUS
      <4>1. CASE i = q
        BY <3>1, <4>1
      <4>2. CASE i # q
        <5>1. i < q /\ i \in 1..Len(h)
          BY <1>7, <4>2
        <5>2. h[i].num < h[q].num
          BY <3>1, <5>1 DEF Rises
        <5> QED  BY <1>7, <3>1, <5>1, <5>2
      <4> QED  BY <4>1, <4>2
    <3>4. ASSUME NEW n \in DOMAIN sn, n <= upTo PROVE n <= h[q].num
      <4>1. ~No
        BY <3>4
      <4> HIDE DEF No
      <4>2. PICK m : Yes(m)
        BY <1>8, <4>1
      <4>3. IsCut(h, m, p) /\ n <= m /\ m \in Nat /\ n \in Nat
        <5>1. Latest(sn, upTo, m) /\ IsCut(h, m, p)
          BY <4>2
        <5> QED  BY <1>7, <3>4, <5>1 DEF Latest
      <4>4. ~(q <= p)
        BY <1>7, <2>2
      <4>5. ~(h[q].num <= m)
        BY <3>1, <4>3, <4>4 DEF IsCut
      <4> QED  BY <3>1, <4>3, <4>5
    <3>5. \A i \in 1..q : h[i].num < h[q].num + 1
      BY <1>7, <3>1, <3>3
    <3>6. \A n \in DOMAIN sn : n <= upTo => n < h[q].num + 1
      BY <1>7, <3>1, <3>4
    <3> QED  BY <3>1, <3>2, <3>5, <3>6
  <2>3. CASE q = p
    <3>1. r.zone.next = R(d).zone.next
      BY <1>4, <1>6, <2>3
    <3>2. CASE No
      <4>1. q = 0 /\ d = <<>>
        BY <2>3, <3>2
      <4>2. R(<<>>).zone.next = 0
        BY ReplayEmpty DEF NewZone
      <4>3. r.zone.next = 0
        BY <3>1, <4>1, <4>2
      <4>4. \A i \in 1..q : FALSE
        BY <4>1
      <4> QED  BY <3>2, <4>3, <4>4
    <3>3. CASE \E n : Yes(n)
      <4>1. PICK n : Yes(n)
        BY <3>3
      <4>2. Latest(sn, upTo, n) /\ IsCut(h, n, p) /\ R(d).zone.next = Plus(n, 1)
        BY <1>12, <4>1
      <4>3. n \in Nat /\ n < b /\ r.zone.next = n + 1
        <5>1. n \in Nat /\ n < b
          BY <1>7, <1>12, <4>2 DEF Latest
        <5> QED  BY <2>1, <3>1, <4>2, <5>1
      <4>4. \A i \in 1..q : h[i].num <= n
        BY <1>7, <2>3, <4>2 DEF IsCut
      <4>5. \A m \in DOMAIN sn : m <= upTo => m <= n
        BY <4>2 DEF Latest
      <4>6. \A i \in 1..q : h[i].num < n + 1
        BY <1>7, <4>3, <4>4
      <4>7. \A m \in DOMAIN sn : m <= upTo => m < n + 1
        BY <1>7, <4>3, <4>5
      <4> QED  BY <4>3, <4>6, <4>7
    <3> HIDE DEF No, Yes
    <3> QED  BY <1>8, <3>2, <3>3
  <2> QED  BY <1>7, <2>2, <2>3
<1>13. r.zone.has = y.zone.has /\ r.zone.astray = {}
  BY <1>4, <1>6
<1> HIDE DEF No, Yes
<1>14. /\ IsCut(h, upTo, q) /\ r \in Replayed
       /\ ReadEvents(file).ok => r.ok
       /\ (\A i \in 1..Len(h) : h[i].num <= upTo) /\ r.ok => ReadEvents(file).ok
  BY <1>2, <1>6
<1> QED
  <2>1. q \in 0..Len(h)
    BY <1>7
  <2> QED  BY <1>10, <1>11, <1>12, <1>13, <1>14, <2>1 DEF r, y
=============================================================================
