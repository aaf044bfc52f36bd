----------------------------- MODULE RestartProofs -----------------------------
(***************************************************************************)
(* The lives of the daemon, for any number of Zones and transactions.  In  *)
(* this order: the intent log keeps the promise of module IntentPromise    *)
(* through every crash; the numbers of a snapshot are those of one         *)
(* instant; types; and what a start loads is what was in memory (GoodInv). *)
(***************************************************************************)
EXTENDS Restart, StoreProofs

-----------------------------------------------------------------------------
(* The intent log as a file *)

Holds == {<<>>, <<"undo">>, <<"redo", "undo">>}

HeaderType ==
    [part : {"header"}, id : Transaction, completed : BOOLEAN, holds : Holds]

Part == HeaderType \cup [part : {"redo", "undo", "torn"}, id : Transaction]

LEMMA PartFacts ==
  ASSUME NEW x \in Part
  PROVE  /\ x.id \in Transaction
         /\ x.part = "header" => /\ x \in HeaderType /\ x.completed \in BOOLEAN
                                 /\ x.holds \in Holds /\ Len(x.holds) \in Nat
BY DEF Part, HeaderType, Holds

ScanBody(file, h, k) ==
    IF EntryAt(file, k)
    THEN LET rest == h[k + 1 + Len(file[k].holds)]
         IN  [entries |-> <<file[k]>> \o rest.entries, length |-> rest.length]
    ELSE [entries |-> <<>>, length |-> k - 1]

LEMMA EntryAtFacts ==
  ASSUME NEW file \in Seq(Part), NEW k \in 1..(Len(file) + 1), EntryAt(file, k)
  PROVE  /\ k \in 1..Len(file) /\ file[k] \in HeaderType
         /\ Len(file[k].holds) \in Nat
         /\ k + 1 + Len(file[k].holds) \in (k+1)..(Len(file) + 1)
<1>1. k \in 1..Len(file)
  BY DEF EntryAt
<1>2. file[k] \in Part /\ file[k].part = "header"
  BY <1>1 DEF EntryAt
<1>3. file[k] \in HeaderType /\ Len(file[k].holds) \in Nat
  BY <1>2, PartFacts
<1>4. k + Len(file[k].holds) <= Len(file)
  BY DEF EntryAt
<1> DEFINE m == Len(file[k].holds)
           n == Len(file)
<1>5. n \in Nat /\ k \in 1..n /\ m \in Nat /\ k + m <= n
  BY <1>1, <1>3, <1>4, LenProperties
<1> HIDE DEF m, n
<1>6. k + 1 + m \in (k+1)..(n + 1)
  BY <1>5
<1> QED  BY <1>1, <1>3, <1>6 DEF m, n

(* Reading to the end of the file is defined. *)
LEMMA ScanExists ==
  ASSUME NEW file \in Seq(Part)
  PROVE  \E h : h = [k \in 1..(Len(file) + 1) |-> ScanBody(file, h, k)]
<1> DEFINE n == Len(file) + 1
           From(lo) == \E h : h = [k \in lo..n |-> ScanBody(file, h, k)]
           Bad == {lo \in 1..n : ~From(lo)}
<1>1. n \in Nat /\ n >= 1 /\ ~(n <= Len(file))
  BY LenProperties
<1>2. From(n)
  <2> DEFINE h == [k \in n..n |-> [entries |-> <<>>, length |-> k - 1]]
  <2>1. ~EntryAt(file, n)
    BY <1>1 DEF EntryAt
  <2>2. \A k \in n..n : h[k] = ScanBody(file, h, k)
    BY <2>1 DEF ScanBody
  <2>3. h = [k \in n..n |-> ScanBody(file, h, k)]
    BY <2>2
  <2> QED  BY <2>3
<1>3. ASSUME NEW lo \in 1..(n-1), From(lo + 1) PROVE From(lo)
  <2>1. PICK h : h = [k \in (lo+1)..n |-> ScanBody(file, h, k)]
    BY <1>3
  <2> DEFINE g == [k \in lo..n |-> IF k = lo THEN ScanBody(file, h, lo) ELSE h[k]]
  <2>2. \A j \in (lo+1)..n : g[j] = h[j]
    OBVIOUS
  <2>3. ASSUME NEW k \in lo..n PROVE g[k] = ScanBody(file, h, k)
    <3>1. CASE k = lo
      BY <3>1
    <3>2. CASE k # lo
      <4>1. k \in (lo+1)..n /\ g[k] = h[k]
        BY <3>2
      <4> HIDE DEF g
      <4> QED  BY <2>1, <4>1
    <3> QED  BY <3>1, <3>2
  <2> HIDE DEF g
  <2>4. ASSUME NEW k \in lo..n PROVE ScanBody(file, h, k) = ScanBody(file, g, k)
    <3>1. CASE EntryAt(file, k)
      <4>1. k + 1 + Len(file[k].holds) \in (lo+1)..n
        <5>1. k \in 1..(Len(file) + 1) /\ k \in lo..n /\ lo \in Nat
          BY <1>1
        <5>2. k + 1 + Len(file[k].holds) \in (k+1)..n
          BY <3>1, <5>1, EntryAtFacts
        <5> DEFINE j == k + 1 + Len(file[k].holds)
        <5>3. j \in (k+1)..n  BY <5>2
        <5> HIDE DEF n, j
        <5>4. j \in (lo+1)..n  BY <1>1, <5>1, <5>3
        <5> QED  BY <5>4 DEF j
      <4> QED  BY <2>2, <4>1 DEF ScanBody
    <3>2. CASE ~EntryAt(file, k)
      BY <3>2 DEF ScanBody
    <3> QED  BY <3>1, <3>2
  <2>5. DOMAIN g = lo..n /\ g = [k \in lo..n |-> g[k]]
    BY DEF g
  <2>6. g = [k \in lo..n |-> ScanBody(file, g, k)]
    BY <2>3, <2>4, <2>5
  <2> QED  BY <2>6
<1> HIDE DEF From, n
<1>4. Bad = {}
  <2> SUFFICES ASSUME Bad # {} PROVE FALSE
    OBVIOUS
  <2>1. PICK lo \in Bad : \A y \in Bad : y <= lo
    BY <1>1, Highest
  <2>2. lo \in 1..n /\ ~From(lo) /\ lo # n
    BY <1>2
  <2>3. lo \in 1..(n-1) /\ lo + 1 \in 1..n /\ ~(lo + 1 <= lo)
    BY <1>1, <2>2
  <2>4. From(lo + 1)
    BY <2>1, <2>3
  <2> QED  BY <1>3, <2>2, <2>3, <2>4
<1> QED  BY <1>1, <1>4 DEF From, n

LEMMA ScanEquation ==
  ASSUME NEW file \in Seq(Part)
  PROVE  \E h : /\ Scan(file) = h[1]
                /\ \A k \in 1..(Len(file) + 1) : h[k] = ScanBody(file, h, k)
<1> DEFINE h == CHOOSE f : f = [k \in 1..(Len(file) + 1) |-> ScanBody(file, f, k)]
<1>1. h = [k \in 1..(Len(file) + 1) |-> ScanBody(file, h, k)]
  BY ScanExists
<1>2. Scan(file) = h[1]
  BY DEF Scan, ScanBody
<1> HIDE DEF h
<1> QED  BY <1>1, <1>2

(* A file that is entries and nothing else. *)
Clean(file) ==
    /\ file \in Seq(Part)
    /\ Scan(file).length = Len(file)
    /\ Scan(file).entries \in Seq(HeaderType)

EmptyScan == [entries |-> <<>>, length |-> 0]

LEMMA CleanEmpty ==
  Clean(<<>>) /\ Scan(<<>>) = EmptyScan
<1>1. <<>> \in Seq(Part) /\ Len(<<>>) = 0
  OBVIOUS
<1>2. PICK h : /\ Scan(<<>>) = h[1]
               /\ \A k \in 1..(Len(<<>>) + 1) : h[k] = ScanBody(<<>>, h, k)
  BY <1>1, ScanEquation
<1>5. h[1] = ScanBody(<<>>, h, 1)
  BY <1>1, <1>2
<1>3. ~EntryAt(<<>>, 1)
  BY DEF EntryAt
<1>4. Scan(<<>>) = EmptyScan
  BY <1>2, <1>3, <1>5 DEF ScanBody, EmptyScan
<1>6. <<>> \in Seq(HeaderType) /\ EmptyScan.entries = <<>> /\ EmptyScan.length = 0
  BY DEF EmptyScan
<1> QED  BY <1>1, <1>4, <1>6 DEF Clean

(* What follows entries is read by itself. *)
LEMMA EntryAfter ==
  ASSUME NEW w \in Seq(Part), NEW p \in Seq(Part)
  PROVE  /\ EntryAt(w \o p, Len(w) + 1) <=> EntryAt(p, 1)
         /\ \A k \in 1..Len(w) : EntryAt(w, k) => EntryAt(w \o p, k)
<1> DEFINE n == Len(w)
           m == Len(p)
           f == w \o p
<1>1. n \in Nat /\ m \in Nat
  BY LenProperties
<1>2. Len(f) = n + m /\ (\A i \in 1..n : f[i] = w[i]) /\ \A i \in 1..m : f[n + i] = p[i]
  <2>1. /\ Len(f) = n + m
        /\ \A i \in 1..Len(f) : f[i] = IF i <= n THEN w[i] ELSE p[i - n]
    BY ConcatProperties
  <2> HIDE DEF f
  <2>2. ASSUME NEW i \in 1..n PROVE f[i] = w[i]
    <3>1. i \in 1..Len(f) /\ i <= n  BY <1>1, <2>1
    <3> QED  BY <2>1, <3>1
  <2>3. ASSUME NEW i \in 1..m PROVE f[n + i] = p[i]
    <3>1. n + i \in 1..Len(f) /\ ~(n + i <= n) /\ (n + i) - n = i  BY <1>1, <2>1
    <3> QED  BY <2>1, <3>1
  <2> QED  BY <2>1, <2>2, <2>3
<1>3. EntryAt(f, n + 1) <=> EntryAt(p, 1)
  <2>1. CASE m = 0
    <3>1. ~(n + 1 <= Len(f)) /\ ~(1 <= m)  BY <1>1, <1>2, <2>1
    <3> QED  BY <3>1 DEF EntryAt
  <2>2. CASE m # 0
    <3>1. f[n + 1] = p[1] /\ n + 1 <= Len(f) /\ 1 <= m /\ 1 \in 1..m
      BY <1>1, <1>2, <2>2
    <3>2. CASE p[1].part # "header"
      BY <3>1, <3>2 DEF EntryAt
    <3>3. CASE p[1].part = "header"
      <4> DEFINE l == Len(p[1].holds)
      <4>1. l \in Nat
        BY <3>1, <3>3, PartFacts
      <4> HIDE DEF f, n, m, l
      <4>2. n + 1 + l <= Len(f) <=> 1 + l <= m
        BY <1>1, <1>2, <4>1
      <4>3. 1 + l <= m => \A i \in 1..l : f[n + 1 + i] = p[1 + i]
        <5> SUFFICES ASSUME 1 + l <= m, NEW i \in 1..l PROVE f[n + 1 + i] = p[1 + i]
          OBVIOUS
        <5>1. 1 + i \in 1..m /\ n + (1 + i) = n + 1 + i  BY <1>1, <4>1
        <5>2. f[n + (1 + i)] = p[1 + i]  BY <1>2, <5>1
        <5> QED  BY <5>1, <5>2
      <4>4. EntryAt(f, n + 1) <=> n + 1 + l <= Len(f) /\ \A i \in 1..l : f[n + 1 + i].part # "torn"
        BY <3>1, <3>3 DEF EntryAt, l
      <4>5. EntryAt(p, 1) <=> 1 + l <= m /\ \A i \in 1..l : p[1 + i].part # "torn"
        BY <3>1, <3>3 DEF EntryAt, l, m
      <4> QED  BY <4>2, <4>3, <4>4, <4>5
    <3> QED  BY <3>2, <3>3
  <2> QED  BY <2>1, <2>2
<1>4. ASSUME NEW k \in 1..n, EntryAt(w, k) PROVE EntryAt(f, k)
  <2> DEFINE l == Len(w[k].holds)
  <2>1. l \in Nat /\ k + l <= n
    BY <1>4, EntryAtFacts DEF EntryAt
  <2>2. f[k] = w[k] /\ k <= Len(f) /\ k + l <= Len(f)
    BY <1>1, <1>2, <2>1
  <2>3. \A i \in 1..l : k + i \in 1..n /\ f[k + i] = w[k + i]
    BY <1>1, <1>2, <2>1
  <2> QED  BY <1>4, <2>1, <2>2, <2>3 DEF EntryAt
<1> QED  BY <1>3, <1>4

(* Entries followed by something: the entries, and what that reads as.     *)
LEMMA ScanConcat ==
  ASSUME NEW w, Clean(w), NEW p \in Seq(Part), NEW tail \in Seq(HeaderType), NEW length,
         \A h : (\A k \in 1..(Len(w \o p) + 1) : h[k] = ScanBody(w \o p, h, k))
                   => h[Len(w) + 1] = [entries |-> tail, length |-> length]
  PROVE  Scan(w \o p) = [entries |-> Scan(w).entries \o tail, length |-> length]
<1> DEFINE n == Len(w)
           f == w \o p
<1>1. /\ w \in Seq(Part) /\ f \in Seq(Part) /\ n \in Nat
      /\ Len(f) \in Nat /\ n <= Len(f)
      /\ \A i \in 1..n : f[i] = w[i]
  <2>1. w \in Seq(Part)  BY DEF Clean
  <2>2. /\ f \in Seq(Part) /\ Len(f) = n + Len(p)
        /\ \A i \in 1..Len(f) : f[i] = IF i <= n THEN w[i] ELSE p[i - n]
    BY <2>1, ConcatProperties
  <2>3. n \in Nat /\ Len(p) \in Nat
    BY <2>1, LenProperties
  <2> HIDE DEF f, n
  <2> QED  BY <2>1, <2>2, <2>3
<1>2. PICK g : /\ Scan(w) = g[1]
               /\ \A k \in 1..(n + 1) : g[k] = ScanBody(w, g, k)
  BY <1>1, ScanEquation
<1>3. PICK h : /\ Scan(f) = h[1]
               /\ \A k \in 1..(Len(f) + 1) : h[k] = ScanBody(f, h, k)
  BY <1>1, ScanEquation
<1>4. h[n + 1] = [entries |-> tail, length |-> length]
  BY <1>3
<1> DEFINE Good(k) == g[k].length = n =>
                        /\ g[k].entries \in Seq(HeaderType)
                        /\ h[k] = [entries |-> g[k].entries \o tail, length |-> length]
           Bad == {k \in 1..(n + 1) : ~Good(k)}
<1> HIDE DEF f, n
<1>5. Good(n + 1)
  <2>5. ~(n + 1 <= n) /\ (n + 1) - 1 = n
    BY <1>1
  <2>1. ~EntryAt(w, n + 1)
    BY <2>5 DEF EntryAt, n
  <2>2. n + 1 \in 1..(n + 1)
    BY <1>1
  <2>3. g[n + 1] = [entries |-> <<>>, length |-> n]
    BY <1>2, <2>1, <2>2, <2>5 DEF ScanBody
  <2>4. <<>> \in Seq(HeaderType) /\ <<>> \o tail = tail
    BY ConcatEmptySeq
  <2> QED  BY <1>4, <2>3, <2>4
<1>6. ASSUME NEW k \in 1..n, \A j \in (k+1)..(n + 1) : Good(j) PROVE Good(k)
  <2>1. g[k] = ScanBody(w, g, k) /\ h[k] = ScanBody(f, h, k) /\ f[k] = w[k]
    BY <1>1, <1>2, <1>3
  <2>2. CASE ~EntryAt(w, k)
    <3>1. g[k].length = k - 1
      BY <2>1, <2>2 DEF ScanBody
    <3>2. k - 1 # n
      BY <1>1
    <3> QED  BY <3>1, <3>2
  <2>3. CASE EntryAt(w, k)
    <3> DEFINE j == k + 1 + Len(w[k].holds)
    <3>0. k \in 1..(Len(w) + 1)
      BY <1>1 DEF n
    <3>1. w[k] \in HeaderType /\ j \in (k+1)..(n + 1)
      BY <1>1, <2>3, <3>0, EntryAtFacts DEF n
    <3>2. EntryAt(f, k)
      BY <1>1, <2>3, EntryAfter DEF f, n
    <3>3. Good(j)
      BY <1>6, <3>1
    <3>4. /\ g[k] = [entries |-> <<w[k]>> \o g[j].entries, length |-> g[j].length]
          /\ h[k] = [entries |-> <<w[k]>> \o h[j].entries, length |-> h[j].length]
      BY <2>1, <2>3, <3>2 DEF ScanBody
    <3> HIDE DEF j
    <3>5. CASE g[k].length # n
      BY <3>5
    <3>6. CASE g[k].length = n
      <4>1. g[j].length = n
        BY <3>4, <3>6
      <4>2. /\ g[j].entries \in Seq(HeaderType)
            /\ h[j] = [entries |-> g[j].entries \o tail, length |-> length]
        BY <3>3, <4>1
      <4>3. <<w[k]>> \in Seq(HeaderType)
        BY <3>1
      <4>4. <<w[k]>> \o g[j].entries \in Seq(HeaderType)
        BY <4>2, <4>3, ConcatProperties
      <4> DEFINE a == <<w[k]>>
                 b == g[j].entries
      <4>7. a \in Seq(HeaderType) /\ b \in Seq(HeaderType)
        BY <4>2, <4>3
      <4> HIDE DEF a, b
      <4>8. a \o (b \o tail) = (a \o b) \o tail
        BY <4>7, ConcatAssociative
      <4>5. <<w[k]>> \o (g[j].entries \o tail) = (<<w[k]>> \o g[j].entries) \o tail
        BY <4>8 DEF a, b
      <4>6. h[k] = [entries |-> (<<w[k]>> \o g[j].entries) \o tail, length |-> length]
        <5>1. h[j].entries = g[j].entries \o tail /\ h[j].length = length
          BY <4>2
        <5>2. h[k] = [entries |-> <<w[k]>> \o h[j].entries, length |-> h[j].length]
          BY <3>4
        <5>3. h[k] = [entries |-> <<w[k]>> \o (g[j].entries \o tail), length |-> length]
          BY <5>1, <5>2
        <5> QED  BY <4>5, <5>3
      <4> QED  BY <3>4, <4>4, <4>6
    <3> QED  BY <3>5, <3>6
  <2> QED  BY <2>2, <2>3
<1>7. Good(1)
  <2> HIDE DEF Good
  <2>1. Bad = {}
    <3> SUFFICES ASSUME Bad # {} PROVE FALSE
      OBVIOUS
    <3>1. n + 1 \in Nat /\ Bad \subseteq 1..(n + 1)
      BY <1>1
    <3>2. PICK k \in Bad : \A y \in Bad : y <= k
      BY <3>1, Highest
    <3>3. k \in 1..(n + 1) /\ ~Good(k) /\ k # n + 1
      BY <1>5
    <3>4. k \in 1..n
      BY <1>1, <3>3
    <3>5. \A j \in (k+1)..(n + 1) : j \in 1..(n + 1) /\ ~(j <= k)
      BY <1>1, <3>4
    <3>6. \A j \in (k+1)..(n + 1) : Good(j)
      BY <3>2, <3>5
    <3> QED  BY <1>6, <3>3, <3>4, <3>6
  <2>2. 1 \in 1..(n + 1)
    BY <1>1
  <2> QED  BY <2>1, <2>2
<1>8. g[1].length = n
  BY <1>2 DEF Clean, n
<1> QED  BY <1>2, <1>3, <1>7, <1>8 DEF f

LEMMA StubScan ==
  ASSUME NEW w, Clean(w), NEW p \in Seq(Part), ~EntryAt(p, 1)
  PROVE  Scan(w \o p).entries = Scan(w).entries /\ Scan(w \o p).length = Len(w)
<1> DEFINE f == w \o p
           n == Len(w)
<1>1. /\ w \in Seq(Part) /\ n \in Nat /\ f \in Seq(Part)
      /\ Len(f) \in Nat /\ n <= Len(f)
  <2>1. w \in Seq(Part)  BY DEF Clean
  <2>2. f \in Seq(Part) /\ Len(f) = n + Len(p) /\ n \in Nat /\ Len(p) \in Nat
    BY <2>1, ConcatProperties, LenProperties
  <2> HIDE DEF f, n
  <2> QED  BY <2>1, <2>2
<1>2. ~EntryAt(f, n + 1)
  BY <1>1, EntryAfter
<1> HIDE DEF f, n
<1>3. n + 1 \in 1..(Len(f) + 1) /\ (n + 1) - 1 = n
  BY <1>1
<1>4. ASSUME NEW h, \A k \in 1..(Len(f) + 1) : h[k] = ScanBody(f, h, k)
      PROVE  h[n + 1] = [entries |-> <<>>, length |-> n]
  BY <1>2, <1>3, <1>4 DEF ScanBody
<1>5. <<>> \in Seq(HeaderType)
  OBVIOUS
<1> DEFINE tail == <<>>
<1>8. /\ tail \in Seq(HeaderType)
      /\ \A h : (\A k \in 1..(Len(f) + 1) : h[k] = ScanBody(f, h, k))
                  => h[n + 1] = [entries |-> tail, length |-> n]
  BY <1>4, <1>5
<1> HIDE DEF tail
<1>6. Scan(f) = [entries |-> Scan(w).entries \o tail, length |-> n]
  BY <1>8, ScanConcat DEF f, n
<1>7. Scan(w).entries \o tail = Scan(w).entries
  BY ConcatEmptySeq DEF Clean, tail
<1> QED  BY <1>6, <1>7 DEF f, n

LEMMA EntryScan ==
  ASSUME NEW w, Clean(w), NEW p \in Seq(Part), EntryAt(p, 1), Len(p) = 1 + Len(p[1].holds)
  PROVE  /\ Scan(w \o p).entries = Append(Scan(w).entries, p[1])
         /\ Clean(w \o p) /\ p[1] \in HeaderType
<1> DEFINE f == w \o p
           n == Len(w)
           l == Len(p[1].holds)
<1>1. /\ w \in Seq(Part) /\ n \in Nat /\ f \in Seq(Part)
      /\ p[1] \in HeaderType /\ l \in Nat
      /\ Len(f) = n + (1 + l) /\ f[n + 1] = p[1]
  <2>1. w \in Seq(Part)  BY DEF Clean
  <2>2. /\ f \in Seq(Part) /\ Len(f) = n + Len(p) /\ n \in Nat /\ Len(p) \in Nat
        /\ \A i \in 1..(n + Len(p)) : f[i] = IF i <= n THEN w[i] ELSE p[i - n]
    BY <2>1, ConcatProperties, LenProperties
  <2>3. 1 \in 1..(Len(p) + 1)
    BY <2>2
  <2>4. p[1] \in HeaderType /\ l \in Nat
    BY <2>3, EntryAtFacts
  <2> HIDE DEF f, n
  <2>5. n + 1 \in 1..(n + Len(p)) /\ ~(n + 1 <= n) /\ (n + 1) - n = 1
    BY <2>2, <2>4
  <2> QED  BY <2>1, <2>2, <2>4, <2>5
<1>2. EntryAt(f, n + 1)
  BY <1>1, EntryAfter
<1> HIDE DEF f, n, l
<1>3. ~EntryAt(f, n + 1 + 1 + l)
  <2>1. ~(n + 1 + 1 + l <= Len(f))  BY <1>1
  <2> QED  BY <2>1 DEF EntryAt
<1>4. /\ n + 1 \in 1..(Len(f) + 1) /\ n + 1 + 1 + l \in 1..(Len(f) + 1)
      /\ (n + 1 + 1 + l) - 1 = Len(f)
  BY <1>1
<1> DEFINE tail == <<p[1]>>
<1>5. ASSUME NEW h, \A k \in 1..(Len(f) + 1) : h[k] = ScanBody(f, h, k)
      PROVE  h[n + 1] = [entries |-> tail, length |-> Len(f)]
  <2>1. h[n + 1 + 1 + l] = [entries |-> <<>>, length |-> Len(f)]
    BY <1>3, <1>4, <1>5 DEF ScanBody
  <2>2. h[n + 1] = [entries |-> <<p[1]>> \o h[n + 1 + 1 + l].entries,
                    length  |-> h[n + 1 + 1 + l].length]
    BY <1>1, <1>2, <1>4, <1>5 DEF ScanBody, l
  <2>3. <<p[1]>> \o <<>> = <<p[1]>>
    <3>1. <<p[1]>> \in Seq(HeaderType)  BY <1>1
    <3> QED  BY <3>1, ConcatEmptySeq
  <2> QED  BY <2>1, <2>2, <2>3
<1>6. tail \in Seq(HeaderType)
  BY <1>1
<1> HIDE DEF tail
<1>7. Scan(f) = [entries |-> Scan(w).entries \o tail, length |-> Len(f)]
  BY <1>5, <1>6, ScanConcat DEF f, n
<1>8. Scan(w).entries \o tail = Append(Scan(w).entries, p[1])
  BY <1>1, AppendIsConcat DEF Clean, tail
<1>9. Append(Scan(w).entries, p[1]) \in Seq(HeaderType)
  BY <1>1, AppendProperties DEF Clean
<1>10. Clean(f)
  BY <1>1, <1>7, <1>8, <1>9 DEF Clean
<1> QED  BY <1>1, <1>7, <1>8, <1>10 DEF f

-----------------------------------------------------------------------------
(* Entries *)

DoneIn(entries) == {entries[i].id : i \in {j \in DOMAIN entries : entries[j].completed}}

MeantIn(entries) == {entries[i].id : i \in {j \in DOMAIN entries : ~entries[j].completed}}

(* A transaction is written down once. *)
OnceIn(entries) ==
    \A i, j \in DOMAIN entries :
        ~entries[i].completed /\ ~entries[j].completed /\ entries[i].id = entries[j].id => i = j

LEMMA FileHas ==
  ASSUME NEW file
  PROVE  /\ Completed(file) = DoneIn(Scan(file).entries)
         /\ Intended(file) = MeantIn(Scan(file).entries)
BY DEF Completed, Intended, DoneIn, MeantIn

LEMMA OneMore ==
  ASSUME NEW entries \in Seq(HeaderType), NEW x \in HeaderType
  PROVE  /\ DoneIn(Append(entries, x)) =
                DoneIn(entries) \cup (IF x.completed THEN {x.id} ELSE {})
         /\ MeantIn(Append(entries, x)) =
                MeantIn(entries) \cup (IF x.completed THEN {} ELSE {x.id})
         /\ OnceIn(entries) /\ (x.completed \/ x.id \notin MeantIn(entries))
                => OnceIn(Append(entries, x))
<1> DEFINE more == Append(entries, x)
           n == Len(entries)
<1>1. /\ n \in Nat /\ DOMAIN entries = 1..n /\ DOMAIN more = 1..(n + 1)
      /\ \A i \in 1..n : more[i] = entries[i]
      /\ more[n + 1] = x
  BY AppendProperties, LenProperties
<1>2. DOMAIN more = DOMAIN entries \cup {n + 1} /\ n + 1 \notin DOMAIN entries
  BY <1>1
<1>3. x.completed \in BOOLEAN
  BY DEF HeaderType
<1> HIDE DEF more
<1>4. DoneIn(more) = DoneIn(entries) \cup (IF x.completed THEN {x.id} ELSE {})
  BY <1>1, <1>2, <1>3 DEF DoneIn
<1>5. MeantIn(more) = MeantIn(entries) \cup (IF x.completed THEN {} ELSE {x.id})
  BY <1>1, <1>2, <1>3 DEF MeantIn
<1>6. ASSUME OnceIn(entries), x.completed \/ x.id \notin MeantIn(entries) PROVE OnceIn(more)
  BY <1>1, <1>2, <1>6 DEF OnceIn, MeantIn
<1> QED  BY <1>4, <1>5, <1>6 DEF more

-----------------------------------------------------------------------------
(* What a start has to handle *)

RestBody(entries, done, h, k) ==
    IF k > Len(entries) THEN <<>>
    ELSE (IF entries[k].id \in done THEN <<>> ELSE <<entries[k]>>) \o h[k+1]

LEMMA RestExists ==
  ASSUME NEW entries \in Seq(HeaderType), NEW done
  PROVE  \E h : h = [k \in 1..(Len(entries) + 1) |-> RestBody(entries, done, h, k)]
<1> DEFINE n == Len(entries) + 1
           From(lo) == \E h : h = [k \in lo..n |-> RestBody(entries, done, h, k)]
           Bad == {lo \in 1..n : ~From(lo)}
<1>1. n \in Nat /\ n >= 1 /\ n > Len(entries)
  BY LenProperties
<1>2. From(n)
  <2> DEFINE h == [k \in n..n |-> <<>>]
  <2>1. \A k \in n..n : h[k] = RestBody(entries, done, h, k)
    BY <1>1 DEF RestBody
  <2>2. h = [k \in n..n |-> RestBody(entries, done, h, k)]
    BY <2>1
  <2> QED  BY <2>2
<1>3. ASSUME NEW lo \in 1..(n-1), From(lo + 1) PROVE From(lo)
  <2>1. PICK h : h = [k \in (lo+1)..n |-> RestBody(entries, done, h, k)]
    BY <1>3
  <2> DEFINE g == [k \in lo..n |-> IF k = lo THEN RestBody(entries, done, h, lo) ELSE h[k]]
  <2>2. \A j \in (lo+1)..n : g[j] = h[j]
    OBVIOUS
  <2>3. ASSUME NEW k \in lo..n PROVE g[k] = RestBody(entries, done, h, k)
    <3>1. CASE k = lo
      BY <3>1
    <3>2. CASE k # lo
      <4>1. k \in (lo+1)..n /\ g[k] = h[k]
        BY <3>2
      <4> HIDE DEF g
      <4> QED  BY <2>1, <4>1
    <3> QED  BY <3>1, <3>2
  <2>5. DOMAIN g = lo..n /\ g = [k \in lo..n |-> g[k]]
    OBVIOUS
  <2> HIDE DEF g
  <2>4. ASSUME NEW k \in lo..n PROVE RestBody(entries, done, h, k) = RestBody(entries, done, g, k)
    <3>1. CASE k > Len(entries)
      BY <3>1 DEF RestBody
    <3>2. CASE ~(k > Len(entries))
      <4>1. Len(entries) \in Nat /\ n = Len(entries) + 1 /\ k \in Nat /\ lo \in Nat /\ lo <= k
        BY LenProperties
      <4> HIDE DEF n
      <4>2. k + 1 \in (lo+1)..n
        BY <3>2, <4>1
      <4> QED  BY <2>2, <4>2 DEF RestBody
    <3> QED  BY <3>1, <3>2
  <2>6. g = [k \in lo..n |-> RestBody(entries, done, g, k)]
    BY <2>3, <2>4, <2>5
  <2> QED  BY <2>6
<1> HIDE DEF From, n
<1>4. Bad = {}
  <2> SUFFICES ASSUME Bad # {} PROVE FALSE
    OBVIOUS
  <2>1. PICK lo \in Bad : \A y \in Bad : y <= lo
    BY <1>1, Highest
  <2>2. lo \in 1..n /\ ~From(lo) /\ lo # n
    BY <1>2
  <2>3. lo \in 1..(n-1) /\ lo + 1 \in 1..n /\ ~(lo + 1 <= lo)
    BY <1>1, <2>2
  <2>4. From(lo + 1)
    BY <2>1, <2>3
  <2> QED  BY <1>3, <2>2, <2>3, <2>4
<1> QED  BY <1>1, <1>4 DEF From, n

IdsOf(entries) == {entries[i].id : i \in DOMAIN entries}

Distinct(entries) == \A i, j \in DOMAIN entries : entries[i].id = entries[j].id => i = j

LEMMA ConsFacts ==
  ASSUME NEW x \in HeaderType, NEW rest \in Seq(HeaderType)
  PROVE  /\ <<x>> \o rest \in Seq(HeaderType)
         /\ IdsOf(<<x>> \o rest) = {x.id} \cup IdsOf(rest)
         /\ Distinct(rest) /\ x.id \notin IdsOf(rest) => Distinct(<<x>> \o rest)
<1> DEFINE all == <<x>> \o rest
           n == Len(rest)
<1>1. <<x>> \in Seq(HeaderType) /\ Len(<<x>>) = 1 /\ n \in Nat /\ <<x>>[1] = x
  BY LenProperties
<1>2. /\ all \in Seq(HeaderType) /\ Len(all) = 1 + n
      /\ \A i \in 1..(1 + n) : all[i] = IF i <= 1 THEN <<x>>[i] ELSE rest[i - 1]
  BY <1>1, ConcatProperties
<1>3. DOMAIN all = 1..(n + 1) /\ DOMAIN rest = 1..n
  BY <1>1, <1>2, LenProperties
<1> HIDE DEF all, n
<1>4. all[1] = x /\ 1 \in DOMAIN all
  BY <1>1, <1>2, <1>3
<1>5. \A i \in DOMAIN rest : i + 1 \in DOMAIN all /\ all[i + 1] = rest[i]
  <2> SUFFICES ASSUME NEW i \in 1..n PROVE i + 1 \in 1..(n + 1) /\ all[i + 1] = rest[i]
    BY <1>3
  <2>1. i + 1 \in 1..(1 + n) /\ ~(i + 1 <= 1) /\ (i + 1) - 1 = i /\ 1 + n = n + 1
    BY <1>1
  <2> QED  BY <1>2, <2>1
<1>6. \A i \in DOMAIN all : i = 1 \/ (i - 1 \in DOMAIN rest /\ all[i] = rest[i - 1] /\ i \in Int)
  <2> SUFFICES ASSUME NEW i \in 1..(n + 1), i # 1 PROVE i - 1 \in 1..n /\ all[i] = rest[i - 1]
    BY <1>3
  <2>1. i \in 1..(1 + n) /\ ~(i <= 1) /\ i - 1 \in 1..n
    BY <1>1
  <2> QED  BY <1>2, <2>1
<1>7. IdsOf(all) = {x.id} \cup IdsOf(rest)
  BY <1>4, <1>5, <1>6 DEF IdsOf
<1>8. ASSUME Distinct(rest), x.id \notin IdsOf(rest) PROVE Distinct(all)
  <2> SUFFICES ASSUME NEW i \in DOMAIN all, NEW j \in DOMAIN all, all[i].id = all[j].id
               PROVE  i = j
    BY DEF Distinct
  <2>1. CASE i = 1 \/ j = 1
    BY <1>4, <1>6, <1>8, <2>1 DEF IdsOf
  <2>2. CASE i # 1 /\ j # 1
    <3>1. /\ i - 1 \in DOMAIN rest /\ j - 1 \in DOMAIN rest /\ i \in Int /\ j \in Int
          /\ rest[i - 1].id = rest[j - 1].id
      BY <1>6, <2>2
    <3>2. i - 1 = j - 1
      BY <1>8, <3>1 DEF Distinct
    <3> QED  BY <3>1, <3>2
  <2> QED  BY <2>1, <2>2
<1> QED  BY <1>2, <1>7, <1>8 DEF all

(* The intents that nothing says are complete, each once. *)
LEMMA UnfinishedFacts ==
  ASSUME NEW file, Scan(file).entries \in Seq(HeaderType), OnceIn(Scan(file).entries)
  PROVE  /\ Unfinished(file) \in Seq(HeaderType)
         /\ IdsOf(Unfinished(file)) = Intended(file) \ Completed(file)
         /\ Distinct(Unfinished(file))
<1> DEFINE entries == Scan(file).entries
           done == DoneIn(entries)
           n == Len(entries)
           h == CHOOSE f : f = [k \in 1..(n + 1) |-> RestBody(entries, done, f, k)]
<1>1. h = [k \in 1..(n + 1) |-> RestBody(entries, done, h, k)]
  BY RestExists
<1>2. Unfinished(file) = h[1]
  <2>1. Completed(file) = DoneIn(Scan(file).entries)
    BY FileHas
  <2> QED  BY <2>1 DEF Unfinished, RestBody
<1> HIDE DEF h
<1>3. entries \in Seq(HeaderType) /\ n \in Nat /\ DOMAIN entries = 1..n /\ OnceIn(entries)
  BY LenProperties
<1>4. \A k \in 1..(n + 1) : h[k] = RestBody(entries, done, h, k)
  BY <1>1
<1>5. Intended(file) \ Completed(file) = MeantIn(entries) \ done
  BY FileHas
<1> HIDE DEF entries, n, done
<1>6. \A i \in 1..n : entries[i] \in HeaderType /\ (entries[i].id \notin done => ~entries[i].completed)
  BY <1>3 DEF done, DoneIn
<1> DEFINE Ids(k) == {entries[j].id : j \in {i \in k..n : entries[i].id \notin done}}
           Good(k) == h[k] \in Seq(HeaderType) /\ IdsOf(h[k]) = Ids(k) /\ Distinct(h[k])
           Bad == {k \in 1..(n + 1) : ~Good(k)}
<1>7. Good(n + 1)
  <2>1. n + 1 > Len(entries) /\ n + 1 \in 1..(n + 1) /\ (n + 1)..n = {}
    BY <1>3 DEF n
  <2>2. h[n + 1] = <<>>
    BY <1>4, <2>1 DEF RestBody
  <2>3. Ids(n + 1) = {}
    BY <2>1
  <2>4. <<>> \in Seq(HeaderType) /\ DOMAIN <<>> = {}
    BY EmptySeq
  <2>5. IdsOf(<<>>) = {} /\ Distinct(<<>>)
    BY <2>4 DEF IdsOf, Distinct
  <2> QED  BY <2>2, <2>3, <2>4, <2>5
<1>8. ASSUME NEW k \in 1..n, Good(k + 1) PROVE Good(k)
  <2>1. k \in 1..(n + 1) /\ ~(k > Len(entries)) /\ k..n = {k} \cup (k+1)..n /\ k \notin (k+1)..n
    BY <1>3 DEF n
  <2>2. h[k] = (IF entries[k].id \in done THEN <<>> ELSE <<entries[k]>>) \o h[k + 1]
    BY <1>4, <2>1 DEF RestBody
  <2>3. CASE entries[k].id \in done
    <3>1. h[k] = h[k + 1]
      <4>1. <<>> \o h[k + 1] = h[k + 1]  BY <1>8, ConcatEmptySeq
      <4> QED  BY <2>2, <2>3, <4>1
    <3>2. Ids(k) = Ids(k + 1)
      BY <2>1, <2>3
    <3> QED  BY <1>8, <3>1, <3>2
  <2>4. CASE entries[k].id \notin done
    <3>1. h[k] = <<entries[k]>> \o h[k + 1]
      BY <2>2, <2>4
    <3>2. Ids(k) = {entries[k].id} \cup Ids(k + 1)
      BY <2>1, <2>4
    <3>3. entries[k].id \notin Ids(k + 1)
      <4> SUFFICES ASSUME NEW j \in (k+1)..n, entries[j].id \notin done, entries[j].id = entries[k].id
                   PROVE  FALSE
        OBVIOUS
      <4>1. j \in 1..n /\ j # k
        BY <1>3
      <4> QED  BY <1>3, <1>6, <2>4, <4>1 DEF OnceIn
    <3>4. entries[k] \in HeaderType
      BY <1>6
    <3> DEFINE x == entries[k]
               rest == h[k + 1]
    <3>5. x \in HeaderType /\ rest \in Seq(HeaderType) /\ Distinct(rest) /\ x.id \notin IdsOf(rest)
      BY <1>8, <3>3, <3>4
    <3> HIDE DEF x, rest
    <3>6. /\ <<x>> \o rest \in Seq(HeaderType)
          /\ IdsOf(<<x>> \o rest) = {x.id} \cup IdsOf(rest)
          /\ Distinct(<<x>> \o rest)
      BY <3>5, ConsFacts
    <3> QED  BY <1>8, <3>1, <3>2, <3>6 DEF x, rest
  <2> QED  BY <2>3, <2>4
<1>9. Good(1)
  <2> HIDE DEF Good
  <2>1. Bad = {}
    <3> SUFFICES ASSUME Bad # {} PROVE FALSE
      OBVIOUS
    <3>1. n + 1 \in Nat /\ Bad \subseteq 1..(n + 1)
      BY <1>3
    <3>2. PICK k \in Bad : \A y \in Bad : y <= k
      BY <3>1, Highest
    <3>3. k \in 1..(n + 1) /\ ~Good(k) /\ k # n + 1
      BY <1>7
    <3>4. k \in 1..n /\ k + 1 \in 1..(n + 1) /\ ~(k + 1 <= k)
      BY <1>3, <3>3
    <3> QED  BY <1>8, <3>2, <3>3, <3>4
  <2>2. 1 \in 1..(n + 1)
    BY <1>3
  <2> QED  BY <2>1, <2>2
<1>10. Ids(1) = MeantIn(entries) \ done
  <2>1. \A i \in 1..n : entries[i].completed \in BOOLEAN
    BY <1>6 DEF HeaderType
  <2>2. DOMAIN entries = 1..n
    BY <1>3
  <2> QED  BY <1>6, <2>1, <2>2 DEF MeantIn
<1> QED  BY <1>2, <1>5, <1>9, <1>10

-----------------------------------------------------------------------------
(* What is being written to the intent log *)

HoldsOfIntent == {<<"undo">>, <<"redo", "undo">>}

LEMMA IntentFacts ==
  ASSUME NEW t \in Transaction, NEW holds \in HoldsOfIntent
  PROVE  /\ Intent(t, holds) \in Seq(Part)
         /\ Len(Intent(t, holds)) = 1 + Len(holds) /\ Len(holds) \in Nat
         /\ Intent(t, holds)[1] = EntryHeader(t, FALSE, holds)
         /\ EntryHeader(t, FALSE, holds) \in HeaderType
         /\ \A i \in 1..Len(holds) : Intent(t, holds)[1 + i].part \in {"redo", "undo"}
         /\ \A i \in 1..(1 + Len(holds)) : Intent(t, holds)[i].id = t
<1> DEFINE x == EntryHeader(t, FALSE, holds)
           a == <<x>>
           b == [i \in DOMAIN holds |-> [part |-> holds[i], id |-> t]]
           n == Len(holds)
<1>1. /\ n \in Nat /\ DOMAIN holds = 1..n
      /\ \A i \in 1..n : holds[i] \in {"redo", "undo"}
  BY DEF HoldsOfIntent
<1>2. x \in HeaderType /\ x.id = t
  BY DEF EntryHeader, HeaderType, HoldsOfIntent, Holds
<1>3. a \in Seq(Part) /\ Len(a) = 1 /\ a[1] = x
  <2>1. x \in Part  BY <1>2 DEF Part
  <2> HIDE DEF x
  <2> QED  BY <2>1
<1> HIDE DEF n
<1>4. /\ b \in Seq(Part) /\ Len(b) = n
      /\ \A i \in 1..n : b[i].part \in {"redo", "undo"} /\ b[i].id = t
  <2>1. b \in [1..n -> Part]
    BY <1>1 DEF Part
  <2>2. b \in Seq(Part)
    BY <1>1, <2>1, SeqDef
  <2>3. Len(b) = n
    BY <1>1, <2>2, LenProperties
  <2>4. \A i \in 1..n : b[i].part \in {"redo", "undo"} /\ b[i].id = t
    BY <1>1
  <2> HIDE DEF b
  <2> QED  BY <2>2, <2>3, <2>4
<1>5. Intent(t, holds) = a \o b
  BY DEF Intent
<1> HIDE DEF a, b, x
<1>6. /\ a \o b \in Seq(Part) /\ Len(a \o b) = 1 + n
      /\ \A i \in 1..(1 + n) : (a \o b)[i] = IF i <= 1 THEN a[i] ELSE b[i - 1]
  BY <1>3, <1>4, ConcatProperties
<1>7. (a \o b)[1] = x
  BY <1>1, <1>3, <1>6
<1>8. ASSUME NEW i \in 1..n PROVE (a \o b)[1 + i] = b[i]
  <2>1. 1 + i \in 1..(1 + n) /\ ~(1 + i <= 1) /\ (1 + i) - 1 = i
    BY <1>1
  <2> QED  BY <1>6, <2>1
<1>9. ASSUME NEW i \in 1..(1 + n) PROVE (a \o b)[i].id = t
  <2>1. CASE i = 1
    BY <1>2, <1>7, <2>1
  <2>2. CASE i # 1
    <3>1. i - 1 \in 1..n /\ ~(i <= 1)
      BY <1>1, <2>2
    <3> QED  BY <1>4, <1>6, <3>1
  <2> QED  BY <2>1, <2>2
<1> QED  BY <1>1, <1>2, <1>4, <1>5, <1>6, <1>7, <1>8, <1>9 DEF n, x

LEMMA CompletionFacts ==
  ASSUME NEW t \in Transaction
  PROVE  /\ Completion(t) \in Seq(Part) /\ Completion(t) # <<>> /\ Len(Completion(t)) = 1
         /\ Completion(t)[1] = EntryHeader(t, TRUE, <<>>)
         /\ EntryHeader(t, TRUE, <<>>) \in HeaderType
<1> DEFINE x == EntryHeader(t, TRUE, <<>>)
<1>1. x \in HeaderType /\ x \in Part
  BY DEF EntryHeader, HeaderType, Holds, Part
<1>2. Completion(t) = <<x>>
  BY DEF Completion
<1> HIDE DEF x
<1>3. <<x>> \in Seq(Part) /\ <<x>> # <<>> /\ Len(<<x>>) = 1 /\ <<x>>[1] = x
  BY <1>1
<1> QED  BY <1>1, <1>2, <1>3 DEF x

LEMMA OneWrite ==
  ASSUME NEW seq \in Seq(Part), seq # <<>>
  PROVE  /\ Head(seq) \in Part /\ Head(seq) = seq[1]
         /\ Tail(seq) \in Seq(Part)
         /\ Tail(seq) = <<>> <=> Len(seq) = 1
<1>1. /\ Head(seq) \in Part /\ Tail(seq) \in Seq(Part)
      /\ Len(Tail(seq)) = Len(seq) - 1 /\ Len(seq) \in Nat
  BY HeadTailProperties, LenProperties
<1>2. Head(seq) = seq[1]
  BY DEF Head
<1>3. Tail(seq) = <<>> <=> Len(Tail(seq)) = 0
  BY <1>1, EmptySeq
<1>4. Len(seq) - 1 = 0 <=> Len(seq) = 1
  BY <1>1
<1> QED  BY <1>1, <1>2, <1>3, <1>4

LEMMA MoveOne ==
  ASSUME NEW p \in Seq(Part), NEW seq \in Seq(Part), seq # <<>>
  PROVE  /\ Append(p, Head(seq)) \in Seq(Part)
         /\ Append(p, Head(seq)) \o Tail(seq) = p \o seq
<1> DEFINE x == Head(seq)
           rest == Tail(seq)
<1>1. x \in Part /\ rest \in Seq(Part)
  BY OneWrite
<1>2. seq = <<x>> \o rest
  <2>1. 1 \in 1..Len(seq) /\ Len(seq) \in 1..Len(seq)
    BY LenProperties, EmptySeq
  <2>2. SubSeq(seq, 1, Len(seq)) = seq /\ Tail(seq) = SubSeq(seq, 2, Len(seq)) /\ seq[1] = x
    BY SubSeqFull, TailIsSubSeq, OneWrite
  <2>3. SubSeq(seq, 1, Len(seq)) = <<seq[1]>> \o SubSeq(seq, 1 + 1, Len(seq))
    BY <2>1, SubSeqRecursiveFirst
  <2> QED  BY <2>2, <2>3
<1> HIDE DEF x, rest
<1>3. <<x>> \in Seq(Part)
  BY <1>1
<1> DEFINE one == <<x>>
<1>4. one \in Seq(Part) /\ seq = one \o rest /\ Append(p, x) = p \o one
  BY <1>1, <1>2, <1>3, AppendIsConcat
<1> HIDE DEF one
<1>5. (p \o one) \o rest = p \o (one \o rest) /\ p \o one \in Seq(Part)
  BY <1>1, <1>4, ConcatAssociative, ConcatProperties
<1> QED  BY <1>4, <1>5 DEF x, rest

LEMMA AppendAfter ==
  ASSUME NEW w \in Seq(Part), NEW p \in Seq(Part), NEW x \in Part
  PROVE  Append(w \o p, x) = w \o Append(p, x) /\ Append(p, x) \in Seq(Part)
<1> DEFINE one == <<x>>
<1>1. one \in Seq(Part) /\ w \o p \in Seq(Part)
  BY ConcatProperties
<1>2. Append(w \o p, x) = (w \o p) \o one /\ Append(p, x) = p \o one
  BY <1>1, AppendIsConcat
<1> HIDE DEF one
<1>3. (w \o p) \o one = w \o (p \o one) /\ p \o one \in Seq(Part)
  BY <1>1, ConcatAssociative, ConcatProperties
<1> QED  BY <1>2, <1>3

(* The beginning of an intent is no entry, nor with a torn part after it.   *)
LEMMA BeginningIsStub ==
  ASSUME NEW t \in Transaction, NEW holds \in HoldsOfIntent,
         NEW p \in Seq(Part), NEW rest \in Seq(Part), rest # <<>>,
         p \o rest = Intent(t, holds)
  PROVE  /\ ~EntryAt(p, 1)
         /\ \A x \in Part : x.part = "torn" => ~EntryAt(Append(p, x), 1)
<1> DEFINE m == Len(p)
           l == Len(holds)
           r == Len(rest)
           file == p \o rest
<1>1. m \in Nat /\ r \in Nat \ {0} /\ l \in Nat
  BY LenProperties, EmptySeq, IntentFacts
<1>2. m + r = 1 + l
  <2>1. Len(file) = m + r
    BY ConcatProperties
  <2>2. Len(file) = 1 + l
    BY IntentFacts
  <2> QED  BY <2>1, <2>2
<1>3. m >= 1 => p[1] = EntryHeader(t, FALSE, holds)
  <2> SUFFICES ASSUME m >= 1 PROVE p[1] = EntryHeader(t, FALSE, holds)
    OBVIOUS
  <2>1. file[1] = EntryHeader(t, FALSE, holds)
    BY IntentFacts
  <2>2. \A i \in 1..(m + r) : file[i] = IF i <= m THEN p[i] ELSE rest[i - m]
    BY ConcatProperties
  <2> HIDE DEF file, m, r
  <2>3. 1 \in 1..(m + r) /\ 1 <= m
    BY <1>1
  <2> QED  BY <2>1, <2>2, <2>3
<1>4. ~EntryAt(p, 1)
  <2> SUFFICES ASSUME EntryAt(p, 1) PROVE FALSE
    OBVIOUS
  <2>1. 1 <= m /\ 1 + Len(p[1].holds) <= m
    BY DEF EntryAt
  <2>2. p[1].holds = holds
    BY <1>1, <1>3, <2>1 DEF EntryHeader
  <2> HIDE DEF m, l, r
  <2>3. 1 + l <= m
    BY <2>1, <2>2 DEF l
  <2> QED  BY <1>1, <1>2, <2>3
<1>5. ASSUME NEW x \in Part, x.part = "torn", EntryAt(Append(p, x), 1) PROVE FALSE
  <2> DEFINE q == Append(p, x)
  <2>1. /\ Len(q) = m + 1 /\ q[m + 1] = x
        /\ \A i \in 1..m : q[i] = p[i]
    BY AppendProperties
  <2> HIDE DEF q, m, l, r
  <2>2. CASE m = 0
    <3>1. q[1] = x  BY <2>1, <2>2
    <3> QED  BY <1>5, <3>1 DEF EntryAt, q
  <2>3. CASE m # 0
    <3>1. 1 \in 1..m  BY <1>1, <2>3
    <3>2. q[1].holds = holds
      BY <1>1, <1>3, <2>1, <3>1 DEF EntryHeader
    <3>3. 1 + l <= m + 1 /\ \A i \in 1..l : q[1 + i].part # "torn"
      BY <1>5, <2>1, <3>2 DEF EntryAt, q, l
    <3>4. l = m /\ m \in 1..l /\ 1 + m = m + 1
      BY <1>1, <1>2, <3>1, <3>3
    <3>5. q[1 + m].part # "torn"
      BY <3>3, <3>4
    <3> QED  BY <1>5, <2>1, <3>4, <3>5
  <2> QED  BY <2>2, <2>3
<1> QED  BY <1>4, <1>5

LEMMA IntentIsEntry ==
  ASSUME NEW t \in Transaction, NEW holds \in HoldsOfIntent
  PROVE  /\ EntryAt(Intent(t, holds), 1)
         /\ Len(Intent(t, holds)) = 1 + Len(Intent(t, holds)[1].holds)
<1>1. Intent(t, holds)[1].holds = holds /\ Intent(t, holds)[1].part = "header"
  <2>1. Intent(t, holds)[1] = EntryHeader(t, FALSE, holds)
    BY IntentFacts
  <2>2. EntryHeader(t, FALSE, holds).holds = holds /\ EntryHeader(t, FALSE, holds).part = "header"
    BY DEF EntryHeader
  <2> QED  BY <2>1, <2>2
<1>2. Len(Intent(t, holds)) = 1 + Len(holds) /\ Len(holds) \in Nat
  BY IntentFacts
<1>3. \A i \in 1..Len(holds) : Intent(t, holds)[1 + i].part # "torn"
  BY IntentFacts
<1> QED  BY <1>1, <1>2, <1>3 DEF EntryAt

LEMMA CompletionIsEntry ==
  ASSUME NEW t \in Transaction
  PROVE  /\ EntryAt(Completion(t), 1)
         /\ Len(Completion(t)) = 1 + Len(Completion(t)[1].holds)
<1>1. Completion(t)[1].holds = <<>> /\ Completion(t)[1].part = "header"
  <2>1. Completion(t)[1] = EntryHeader(t, TRUE, <<>>)
    BY CompletionFacts
  <2>2. EntryHeader(t, TRUE, <<>>).holds = <<>> /\ EntryHeader(t, TRUE, <<>>).part = "header"
    BY DEF EntryHeader
  <2> QED  BY <2>1, <2>2
<1>2. Len(Completion(t)) = 1 /\ Len(<<>>) = 0
  BY CompletionFacts, EmptySeq
<1> QED  BY <1>1, <1>2 DEF EntryAt

LEMMA NothingIsStub ==
  /\ ~EntryAt(<<>>, 1) /\ <<>> \in Seq(Part)
  /\ \A x \in Part : x.part = "torn" => ~EntryAt(<<x>>, 1) /\ <<x>> \in Seq(Part)
<1>1. <<>> \in Seq(Part) /\ Len(<<>>) = 0
  BY EmptySeq
<1>2. ASSUME NEW x \in Part, x.part = "torn" PROVE ~EntryAt(<<x>>, 1) /\ <<x>> \in Seq(Part)
  BY <1>2 DEF EntryAt
<1> QED  BY <1>1, <1>2 DEF EntryAt

(* What Open leaves of a file. *)
LEMMA TruncatedFacts ==
  ASSUME NEW w, Clean(w), NEW p \in Seq(Part), ~EntryAt(p, 1)
  PROVE  Truncated(w \o p) = w
<1> DEFINE f == w \o p
           n == Len(w)
<1>1. Scan(f).length = n
  BY StubScan
<1>2. /\ w \in Seq(Part) /\ n \in Nat /\ Len(p) \in Nat /\ f \in Seq(Part)
      /\ \A i \in 1..(n + Len(p)) : f[i] = IF i <= n THEN w[i] ELSE p[i - n]
  <2>1. w \in Seq(Part)  BY DEF Clean
  <2> QED  BY <2>1, ConcatProperties, LenProperties
<1>3. Truncated(f) = SubSeq(f, 1, n)
  BY <1>1 DEF Truncated
<1> HIDE DEF f
<1>4. \A i \in 1..n : f[i] = w[i] /\ w[i] \in Part
  <2> SUFFICES ASSUME NEW i \in 1..n PROVE f[i] = w[i] /\ w[i] \in Part
    OBVIOUS
  <2>1. w[i] \in Part
    BY <1>2, ElementOfSeq
  <2> DEFINE m == Len(p)
  <2> HIDE DEF n, m
  <2>2. i \in 1..(n + m) /\ i <= n
    BY <1>2 DEF m
  <2> QED  BY <1>2, <2>1, <2>2 DEF m
<1> DEFINE t == SubSeq(f, 1, n)
<1>5. /\ t \in Seq(Part)
      /\ Len(t) = IF 1 <= n THEN n - 1 + 1 ELSE 0
      /\ \A i \in 1..(n - 1 + 1) : t[i] = f[1 + i - 1]
  <2>1. 1 \in Int /\ n \in Int /\ \A i \in 1..n : f[i] \in Part
    BY <1>2, <1>4
  <2> HIDE DEF n
  <2> QED  BY <2>1, SubSeqProperties
<1> HIDE DEF t
<1>6. Len(t) = n /\ \A i \in 1..n : t[i] = w[i]
  <2> HIDE DEF n
  <2>1. n - 1 + 1 = n /\ \A i \in 1..n : 1 + i - 1 = i
    BY <1>2
  <2> QED  BY <1>2, <1>4, <1>5, <2>1
<1>7. t = w
  BY <1>2, <1>5, <1>6, SeqEqual
<1> QED  BY <1>3, <1>7 DEF f, t

LEMMA OneDone ==
  ASSUME NEW seq \in Seq(HeaderType), seq # <<>>, Distinct(seq)
  PROVE  /\ Head(seq) \in HeaderType /\ Head(seq).id \in IdsOf(seq)
         /\ Tail(seq) \in Seq(HeaderType) /\ Distinct(Tail(seq))
         /\ IdsOf(Tail(seq)) = IdsOf(seq) \ {Head(seq).id}
<1> DEFINE n == Len(seq)
           rest == Tail(seq)
<1>1. /\ n \in Nat \ {0} /\ DOMAIN seq = 1..n
      /\ Head(seq) \in HeaderType /\ rest \in Seq(HeaderType)
      /\ Len(rest) = n - 1 /\ DOMAIN rest = 1..Len(rest)
  BY HeadTailProperties, LenProperties, EmptySeq
<1>2. Head(seq) = seq[1]
  BY DEF Head
<1>3. \A i \in 1..(n - 1) : rest[i] = seq[i + 1]
  <2>1. rest = SubSeq(seq, 2, n)
    BY TailIsSubSeq
  <2>2. \A i \in 2..n : seq[i] \in HeaderType
    <3> SUFFICES ASSUME NEW i \in 2..n PROVE seq[i] \in HeaderType
      OBVIOUS
    <3>1. i \in 1..Len(seq)
      BY <1>1
    <3> QED  BY <3>1, ElementOfSeq
  <2> HIDE DEF rest, n
  <2>3. \A i \in 1..(n - 2 + 1) : SubSeq(seq, 2, n)[i] = seq[2 + i - 1]
    BY <1>1, <2>2, SubSeqProperties
  <2>4. n - 2 + 1 = n - 1 /\ \A i \in 1..(n - 1) : 2 + i - 1 = i + 1
    BY <1>1
  <2> QED  BY <2>1, <2>3, <2>4
<1> HIDE DEF n, rest
<1>4. \A i \in DOMAIN rest : /\ i \in Int /\ i + 1 \in DOMAIN seq /\ i + 1 # 1
                             /\ rest[i] = seq[i + 1]
  BY <1>1, <1>3
<1>5. \A i \in DOMAIN seq : i # 1 => i \in Int /\ i - 1 \in DOMAIN rest /\ rest[i - 1] = seq[i]
  <2> SUFFICES ASSUME NEW i \in 1..n, i # 1
               PROVE  i \in Int /\ i - 1 \in 1..(n - 1) /\ rest[i - 1] = seq[i]
    BY <1>1
  <2>1. i - 1 \in 1..(n - 1) /\ (i - 1) + 1 = i
    BY <1>1
  <2> QED  BY <1>3, <2>1
<1>6. 1 \in DOMAIN seq
  BY <1>1
<1>7. Head(seq).id \in IdsOf(seq)
  BY <1>2, <1>6 DEF IdsOf
<1>8. Distinct(rest)
  <2> SUFFICES ASSUME NEW i \in DOMAIN rest, NEW j \in DOMAIN rest, rest[i].id = rest[j].id
               PROVE  i = j
    BY DEF Distinct
  <2>1. i + 1 = j + 1 /\ i \in Int /\ j \in Int
    BY <1>4 DEF Distinct
  <2> QED  BY <2>1
<1>9. IdsOf(rest) \subseteq IdsOf(seq) \ {Head(seq).id}
  <2> SUFFICES ASSUME NEW i \in DOMAIN rest
               PROVE  rest[i].id \in IdsOf(seq) /\ rest[i].id # Head(seq).id
    BY DEF IdsOf
  <2>1. i + 1 \in DOMAIN seq /\ i + 1 # 1 /\ rest[i] = seq[i + 1]
    BY <1>4
  <2> QED  BY <1>2, <1>6, <2>1 DEF IdsOf, Distinct
<1>10. IdsOf(seq) \ {Head(seq).id} \subseteq IdsOf(rest)
  <2> SUFFICES ASSUME NEW i \in DOMAIN seq, seq[i].id # Head(seq).id
               PROVE  seq[i].id \in IdsOf(rest)
    BY DEF IdsOf
  <2>1. i - 1 \in DOMAIN rest /\ rest[i - 1] = seq[i]
    BY <1>2, <1>5
  <2> QED  BY <2>1 DEF IdsOf
<1> QED  BY <1>1, <1>7, <1>8, <1>9, <1>10 DEF rest

-----------------------------------------------------------------------------
(* The intent log of a running daemon *)

(* The log is whole entries, w, and then a stub, p: the beginning of the    *)
(* intent that is being written or what a crash has left of it.             *)
Filing(w, p) ==
    /\ Clean(w) /\ p \in Seq(Part) /\ ~EntryAt(p, 1)
    /\ intents = w \o p
    /\ owed = <<>> /\ life # "down" => p = <<>>
    /\ owed # <<>> /\ life = "up" =>
         \/ /\ world \notin promised \cup Intended(intents)
            /\ \E holds \in HoldsOfIntent : p \o owed = Intent(world, holds)
         \/ /\ world \in promised \ Completed(intents)
            /\ p = <<>> /\ owed = Completion(world)
    /\ owed # <<>> /\ life = "starting" =>
         /\ p = <<>> /\ owed = Completion(Head(recovering).id)
         /\ Head(recovering).id \in undone

(* Who writes to it: World, which is at a transaction then, or a start.     *)
Owing ==
    /\ life \in {"up", "down", "starting"}
    /\ life # "up" => world = "idle"
    /\ saving # <<>> => world = "saving"
    /\ owed \in Seq(Part)
    /\ owed # <<>> => /\ life # "down"
                      /\ life = "up" => world \in Transaction
                      /\ life = "starting" => recovering # <<>>

(* What is in it is what was promised, once each, and what a start has yet  *)
(* to handle is what it says is not complete.                               *)
Lists ==
    /\ OnceIn(Scan(intents).entries)
    /\ promised \subseteq Intended(intents)
    /\ Completed(intents) \subseteq Intended(intents)
    /\ life = "up" /\ world \in Transaction =>
         \/ world \in promised \ Completed(intents)
         \/ owed # <<>> /\ world \notin promised \cup Intended(intents)
    /\ life = "starting" =>
         /\ recovering \in Seq(HeaderType) /\ Distinct(recovering)
         /\ IdsOf(recovering) = Intended(intents) \ Completed(intents)

IntentInv == Owing /\ Lists /\ \E w, p : Filing(w, p)

LEMMA IntentInit == Init => IntentInv
<1> SUFFICES ASSUME Init PROVE IntentInv
  OBVIOUS
<1>1. /\ life = "up" /\ world = "idle" /\ saving = <<>> /\ owed = <<>>
      /\ intents = <<>> /\ promised = {}
  BY DEF Init
<1>2. <<>> \in Seq(Part) /\ <<>> \o <<>> = <<>>
  BY EmptySeq, ConcatEmptySeq
<1>3. Owing
  BY <1>1, <1>2 DEF Owing
<1>4. Filing(<<>>, <<>>)
  BY <1>1, <1>2, CleanEmpty, NothingIsStub DEF Filing
<1>5. Scan(intents).entries = <<>> /\ DOMAIN <<>> = {}
  BY <1>1, CleanEmpty DEF EmptyScan
<1>6. Completed(intents) = {} /\ Intended(intents) = {} /\ OnceIn(Scan(intents).entries)
  BY <1>5 DEF Completed, Intended, OnceIn
<1>7. "idle" \notin Transaction
  BY TransactionAssumption
<1>8. Lists
  BY <1>1, <1>6, <1>7 DEF Lists
<1> QED  BY <1>3, <1>4, <1>8 DEF IntentInv

(* Whoever is not at the log leaves it as it is. *)
LEMMA ElsewhereIntents ==
  ASSUME IntentInv, UNCHANGED <<life, intents, owed, recovering, promised, undone>>,
         saving' # <<>> => world' = "saving",
         \/ UNCHANGED world
         \/ life = "up" /\ world \notin Transaction /\ world' \notin Transaction
  PROVE  IntentInv'
<1>1. Owing'
  BY DEF IntentInv, Owing
<1>2. Completed(intents)' = Completed(intents) /\ Intended(intents)' = Intended(intents)
  OBVIOUS
<1>3. Scan(intents)' = Scan(intents)
  OBVIOUS
<1>4. Lists'
  BY <1>2, <1>3 DEF IntentInv, Lists
<1>5. PICK w, p : Filing(w, p)
  BY DEF IntentInv
<1>6. CASE UNCHANGED world
  <2>1. Filing(w, p)'
    BY <1>2, <1>5, <1>6 DEF Filing
  <2> QED  BY <1>1, <1>4, <2>1 DEF IntentInv
<1>7. CASE life = "up" /\ world \notin Transaction
  <2>1. owed = <<>>
    BY <1>7 DEF IntentInv, Owing
  <2>2. Filing(w, p)'
    BY <1>5, <2>1 DEF Filing
  <2> QED  BY <1>1, <1>4, <2>2 DEF IntentInv
<1> QED  BY <1>6, <1>7

(* The next part of an intent. *)
LEMMA NextPart ==
  ASSUME NEW t \in Transaction, NEW holds \in HoldsOfIntent,
         NEW p \in Seq(Part), NEW rest \in Seq(Part), rest # <<>>,
         p \o rest = Intent(t, holds)
  PROVE  /\ Head(rest).id = t
         /\ ~(Head(rest).part = "header" /\ Head(rest).completed)
<1> DEFINE m == Len(p)
           r == Len(rest)
           l == Len(holds)
           file == p \o rest
<1>1. m \in Nat /\ r \in Nat \ {0} /\ l \in Nat
  BY LenProperties, EmptySeq, IntentFacts
<1>2. m + r = 1 + l
  <2>1. Len(file) = m + r
    BY ConcatProperties
  <2>2. Len(file) = 1 + l
    BY IntentFacts
  <2> QED  BY <2>1, <2>2
<1>3. Head(rest) = file[1 + m]
  <2>1. \A i \in 1..(m + r) : file[i] = IF i <= m THEN p[i] ELSE rest[i - m]
    BY ConcatProperties
  <2>2. Head(rest) = rest[1]
    BY DEF Head
  <2> HIDE DEF file, m, r
  <2>3. 1 + m \in 1..(m + r) /\ ~(1 + m <= m) /\ (1 + m) - m = 1
    BY <1>1
  <2> QED  BY <2>1, <2>2, <2>3
<1> DEFINE intent == Intent(t, holds)
           header == EntryHeader(t, FALSE, holds)
<1>8. /\ intent[1] = header
      /\ \A i \in 1..l : intent[1 + i].part \in {"redo", "undo"}
      /\ \A i \in 1..(1 + l) : intent[i].id = t
  BY IntentFacts
<1>9. file = intent
  OBVIOUS
<1> HIDE DEF file, m, r, l, intent
<1>4. /\ file[1] = header
      /\ \A i \in 1..l : file[1 + i].part \in {"redo", "undo"}
      /\ \A i \in 1..(1 + l) : file[i].id = t
  BY <1>8, <1>9
<1>5. Head(rest).id = t
  <2>1. 1 + m \in 1..(1 + l)
    BY <1>1, <1>2
  <2> QED  BY <1>3, <1>4, <2>1
<1>6. CASE m = 0
  <2>1. Head(rest) = header
    <3> HIDE DEF header
    <3>1. 1 + m = 1
      BY <1>6
    <3> QED  BY <1>3, <1>4, <3>1
  <2>2. header.completed = FALSE
    BY DEF EntryHeader
  <2> QED  BY <1>5, <2>1, <2>2
<1>7. CASE m # 0
  <2>1. m \in 1..l
    BY <1>1, <1>2, <1>7
  <2>2. Head(rest).part \in {"redo", "undo"}
    BY <1>3, <1>4, <2>1
  <2> QED  BY <1>5, <2>2
<1> QED  BY <1>6, <1>7

LEMMA Whole ==
  ASSUME NEW file, Clean(file), intents' = file, owed' = <<>>
  PROVE  Filing(file, <<>>)'
<1>1. file \in Seq(Part)
  BY DEF Clean
<1>2. file \o <<>> = file
  BY <1>1, ConcatEmptySeq
<1> QED  BY <1>2, NothingIsStub DEF Filing

(* What a step does to the promise. *)
Same == UNCHANGED <<Intended(intents), Completed(intents), promised>>

Means(t) ==
    /\ life = "up" /\ t \notin Intended(intents)
    /\ Intended(intents)' = Intended(intents) \cup {t}
    /\ Completed(intents)' = Completed(intents)

Settles(t) ==
    /\ life = "up" \/ t \in undone
    /\ t \in Intended(intents) \ Completed(intents)
    /\ Completed(intents)' = Completed(intents) \cup {t}
    /\ UNCHANGED <<Intended(intents), promised>>

LEMMA WriteOfIntent ==
  ASSUME IntentInv, WriteEntry, life = "up", NEW w, NEW p, Filing(w, p),
         world \notin promised \cup Intended(intents),
         NEW holds \in HoldsOfIntent, p \o owed = Intent(world, holds)
  PROVE  /\ IntentInv'
         /\ Same \/ \E t \in Transaction : Means(t)
<1> PICK t : t = world
  OBVIOUS
<1> PICK q : q = Append(p, Head(owed))
  OBVIOUS
<1> DEFINE E == Scan(w).entries
<1>1. /\ owed # <<>> /\ owed \in Seq(Part) /\ p \in Seq(Part) /\ w \in Seq(Part)
      /\ Clean(w) /\ ~EntryAt(p, 1) /\ intents = w \o p
      /\ t \in Transaction /\ p \o owed = Intent(t, holds)
  BY DEF IntentInv, Owing, Filing, WriteEntry, Clean
<1>2. /\ Head(owed) \in Part /\ Tail(owed) \in Seq(Part)
      /\ Tail(owed) = <<>> <=> Len(owed) = 1
  BY <1>1, OneWrite
<1>3. q \in Seq(Part) /\ q \o Tail(owed) = Intent(t, holds)
  BY <1>1, MoveOne
<1>4. intents' = w \o q /\ owed' = Tail(owed)
  BY <1>1, <1>2, AppendAfter DEF WriteEntry
<1>5. Head(owed).id = t /\ ~(Head(owed).part = "header" /\ Head(owed).completed)
  BY <1>1, NextPart
<1>6. /\ UNCHANGED <<life, saving, undone, recovering, world>>
      /\ promised' = IF Len(owed) = 1 THEN promised \cup {t} ELSE promised
  BY <1>5 DEF WriteEntry, snapVars
<1>7. E \in Seq(HeaderType) /\ Scan(intents).entries = E
  BY <1>1, StubScan DEF Clean
<1>8. OnceIn(E) /\ Completed(intents) = DoneIn(E) /\ Intended(intents) = MeantIn(E)
  BY <1>7, FileHas DEF IntentInv, Lists
<1>9. Owing'
  BY <1>1, <1>2, <1>4, <1>6 DEF IntentInv, Owing
<1>10. ASSUME Len(owed) # 1 PROVE IntentInv' /\ Same
  <2>1. ~EntryAt(q, 1)
    BY <1>1, <1>2, <1>3, <1>10, BeginningIsStub
  <2>2. Scan(intents').entries = E
    BY <1>1, <1>3, <1>4, <2>1, StubScan
  <2>3. Same /\ Completed(intents)' = Completed(intents) /\ Intended(intents)' = Intended(intents)
    BY <1>6, <1>7, <1>10, <2>2 DEF Same, Completed, Intended
  <2>4. owed' # <<>> /\ q \o owed' = Intent(world', holds)
    BY <1>2, <1>3, <1>4, <1>6, <1>10
  <2>5. world' \notin promised' \cup Intended(intents)'
    BY <1>6, <1>10, <2>3
  <2>6. Filing(w, q)'
    BY <1>1, <1>3, <1>4, <1>6, <2>1, <2>4, <2>5 DEF Filing
  <2>7. OnceIn(Scan(intents)'.entries)
    BY <1>8, <2>2
  <2>8. /\ promised' \subseteq Intended(intents)' /\ Completed(intents)' \subseteq Intended(intents)'
        /\ life' = "up"
    BY <1>6, <1>10, <2>3 DEF IntentInv, Lists
  <2>9. Lists'
    BY <2>4, <2>5, <2>7, <2>8 DEF Lists
  <2> QED  BY <1>9, <2>3, <2>6, <2>9 DEF IntentInv
<1>11. ASSUME Len(owed) = 1 PROVE IntentInv' /\ Means(t)
  <2>1. owed' = <<>> /\ q = Intent(t, holds)
    <3>1. q \o <<>> = q  BY <1>3, ConcatEmptySeq
    <3> QED  BY <1>2, <1>3, <1>4, <1>11, <3>1
  <2>2. EntryAt(q, 1) /\ Len(q) = 1 + Len(q[1].holds)
    BY <1>1, <2>1, IntentIsEntry
  <2>3. Scan(intents').entries = Append(E, q[1]) /\ Clean(w \o q) /\ q[1] \in HeaderType
    BY <1>1, <1>3, <1>4, <2>2, EntryScan
  <2>4. ~q[1].completed /\ q[1].id = t
    <3>1. q[1] = EntryHeader(t, FALSE, holds)
      BY <1>1, <2>1, IntentFacts
    <3> QED  BY <3>1 DEF EntryHeader
  <2>5. /\ DoneIn(Append(E, q[1])) = DoneIn(E)
        /\ MeantIn(Append(E, q[1])) = MeantIn(E) \cup {t}
        /\ OnceIn(Append(E, q[1]))
    <3> PICK x : x = q[1]
      OBVIOUS
    <3> HIDE DEF E
    <3>1. E \in Seq(HeaderType) /\ x \in HeaderType /\ ~x.completed /\ x.id = t
      BY <1>7, <2>3, <2>4
    <3>2. t \notin MeantIn(E) /\ OnceIn(E)
      BY <1>8 DEF IntentInv, Lists
    <3>3. /\ DoneIn(Append(E, x)) = DoneIn(E) \cup (IF x.completed THEN {x.id} ELSE {})
          /\ MeantIn(Append(E, x)) = MeantIn(E) \cup (IF x.completed THEN {} ELSE {x.id})
          /\ OnceIn(Append(E, x))
      BY <3>1, <3>2, OneMore
    <3> QED  BY <3>1, <3>3
  <2>6. /\ Completed(intents)' = Completed(intents)
        /\ Intended(intents)' = Intended(intents) \cup {t}
        /\ OnceIn(Scan(intents)'.entries)
    <3>1. Completed(intents') = DoneIn(Scan(intents').entries) /\ Intended(intents') = MeantIn(Scan(intents').entries)
      BY FileHas
    <3> QED  BY <1>8, <2>3, <2>5, <3>1
  <2>7. promised' = promised \cup {t} /\ world' = t /\ life' = "up"
    BY <1>6, <1>11
  <2>8. /\ promised \subseteq Intended(intents) /\ Completed(intents) \subseteq Intended(intents)
        /\ t \notin Intended(intents)
    BY DEF IntentInv, Lists
  <2>9. Lists'
    BY <2>6, <2>7, <2>8 DEF Lists
  <2>10. \A file : file = w \o q => Filing(file, <<>>)'
    BY <1>4, <2>1, <2>3, Whole
  <2> QED  BY <1>9, <2>6, <2>8, <2>9, <2>10 DEF IntentInv, Means
<1> QED  BY <1>1, <1>10, <1>11

LEMMA WriteOfCompletion ==
  ASSUME IntentInv, WriteEntry, NEW w, Filing(w, <<>>),
         NEW t \in Transaction, owed = Completion(t),
         t \in Intended(intents) \ Completed(intents),
         life = "up" \/ (life = "starting" /\ t = Head(recovering).id /\ t \in undone)
  PROVE  IntentInv' /\ Settles(t)
<1> PICK x : x = EntryHeader(t, TRUE, <<>>)
  OBVIOUS
<1> PICK q : q = Completion(t)
  OBVIOUS
<1> DEFINE E == Scan(w).entries
<1>1. /\ owed # <<>> /\ owed \in Seq(Part) /\ w \in Seq(Part)
      /\ Clean(w) /\ intents = w \o <<>> /\ w \o <<>> = w
      /\ <<>> \in Seq(Part) /\ ~EntryAt(<<>>, 1)
  BY ConcatEmptySeq, NothingIsStub DEF IntentInv, Owing, Filing, WriteEntry, Clean
<1>2. /\ Len(owed) = 1 /\ Head(owed) = x /\ Head(owed) \in Part /\ Tail(owed) = <<>>
      /\ q \in Seq(Part) /\ q = owed /\ q[1] = x /\ x \in HeaderType
  BY <1>1, CompletionFacts, OneWrite
<1>3. x.part = "header" /\ x.completed /\ x.id = t
  BY DEF EntryHeader
<1>4. intents' = w \o q /\ owed' = <<>>
  <2> PICK none : none = <<>>
    OBVIOUS
  <2>4. none \in Seq(Part) /\ x \in Part /\ w \in Seq(Part)
    BY <1>1, <1>2
  <2>5. Append(w \o none, x) = w \o Append(none, x)
    BY <2>4, AppendAfter
  <2>1. Append(w \o <<>>, x) = w \o Append(<<>>, x)
    BY <2>5
  <2>2. Append(<<>>, Head(owed)) \o <<>> = <<>> \o owed /\ Append(<<>>, Head(owed)) \in Seq(Part)
    BY <1>1, <1>2, MoveOne
  <2>3. Append(<<>>, x) = q
    <3>1. <<>> \o owed = owed  BY <1>1, ConcatEmptySeq
    <3>2. Append(<<>>, x) \o <<>> = Append(<<>>, x)  BY <1>2, <2>2, ConcatEmptySeq
    <3> QED  BY <1>2, <2>2, <3>1, <3>2
  <2> QED  BY <1>1, <1>2, <2>1, <2>3 DEF WriteEntry
<1>5. /\ UNCHANGED <<life, saving, undone, promised>> /\ world' = "idle"
      /\ recovering' = IF life = "starting" THEN Tail(recovering) ELSE recovering
  BY <1>2, <1>3 DEF WriteEntry, snapVars
<1>6. /\ E \in Seq(HeaderType) /\ OnceIn(E)
      /\ Completed(intents) = DoneIn(E) /\ Intended(intents) = MeantIn(E)
  <2>1. E \in Seq(HeaderType) /\ Scan(intents).entries = E
    BY <1>1 DEF Clean
  <2> QED  BY <2>1, FileHas DEF IntentInv, Lists
<1>7. Scan(intents').entries = Append(E, x) /\ Clean(w \o q)
  <2>1. EntryAt(q, 1) /\ Len(q) = 1 + Len(q[1].holds)
    BY CompletionIsEntry
  <2>2. Scan(w \o q).entries = Append(Scan(w).entries, q[1]) /\ Clean(w \o q)
    BY <1>1, <1>2, <2>1, EntryScan
  <2> QED  BY <1>2, <1>4, <2>2
<1>8. /\ DoneIn(Append(E, x)) = DoneIn(E) \cup {t}
      /\ MeantIn(Append(E, x)) = MeantIn(E)
      /\ OnceIn(Append(E, x))
  <2> HIDE DEF E
  <2>1. /\ DoneIn(Append(E, x)) = DoneIn(E) \cup (IF x.completed THEN {x.id} ELSE {})
        /\ MeantIn(Append(E, x)) = MeantIn(E) \cup (IF x.completed THEN {} ELSE {x.id})
        /\ OnceIn(Append(E, x))
    BY <1>2, <1>3, <1>6, OneMore
  <2> QED  BY <1>3, <2>1
<1>9. /\ Completed(intents)' = Completed(intents) \cup {t}
      /\ Intended(intents)' = Intended(intents)
      /\ OnceIn(Scan(intents)'.entries)
  <2>1. /\ Completed(intents') = DoneIn(Scan(intents').entries)
        /\ Intended(intents') = MeantIn(Scan(intents').entries)
    BY FileHas
  <2> QED  BY <1>6, <1>7, <1>8, <2>1
<1>10. life = "starting" =>
          /\ recovering' \in Seq(HeaderType) /\ Distinct(recovering')
          /\ IdsOf(recovering') = IdsOf(recovering) \ {t}
  <2> SUFFICES ASSUME life = "starting"
               PROVE  /\ recovering' \in Seq(HeaderType) /\ Distinct(recovering')
                      /\ IdsOf(recovering') = IdsOf(recovering) \ {t}
    OBVIOUS
  <2>1. recovering \in Seq(HeaderType) /\ Distinct(recovering) /\ recovering # <<>>
    BY <1>1 DEF IntentInv, Lists, Owing
  <2> QED  BY <1>5, <2>1, OneDone
<1>11. Owing'
  <2>1. saving = <<>>
    BY <1>1, TransactionAssumption DEF IntentInv, Owing
  <2> QED  BY <1>1, <1>4, <1>5, <2>1 DEF IntentInv, Owing
<1>12. Lists'
  <2>1. promised' \subseteq Intended(intents)' /\ Completed(intents)' \subseteq Intended(intents)'
    BY <1>5, <1>9 DEF IntentInv, Lists
  <2>2. world' \notin Transaction
    BY <1>5, TransactionAssumption
  <2>3. life' = "starting" =>
          /\ recovering' \in Seq(HeaderType) /\ Distinct(recovering')
          /\ IdsOf(recovering') = Intended(intents)' \ Completed(intents)'
    BY <1>5, <1>9, <1>10 DEF IntentInv, Lists
  <2> QED  BY <1>9, <2>1, <2>2, <2>3 DEF Lists
<1>13. \A file : file = w \o q => Filing(file, <<>>)'
  BY <1>4, <1>7, Whole
<1>14. Settles(t)
  BY <1>5, <1>9 DEF Settles
<1> QED  BY <1>11, <1>12, <1>13, <1>14 DEF IntentInv

LEMMA WriteEntryKeeps ==
  ASSUME IntentInv, WriteEntry
  PROVE  /\ IntentInv'
         /\ UNCHANGED <<life, undone>>
         /\ Same \/ \E t \in Transaction : Means(t) \/ Settles(t)
<1>1. PICK w, p : Filing(w, p)
  BY DEF IntentInv
<1>2. owed # <<>> /\ UNCHANGED <<life, undone>>
  BY DEF WriteEntry
<1>3. (life = "up" /\ world \in Transaction) \/ (life = "starting" /\ recovering # <<>>)
  <2>1. Owing
    BY DEF IntentInv
  <2>2. life \in {"up", "starting"}
    BY <1>2, <2>1 DEF Owing
  <2> QED  BY <1>2, <2>1, <2>2 DEF Owing
<1>4. CASE life = "up" /\ world \notin promised \cup Intended(intents)
  <2>1. PICK holds \in HoldsOfIntent : p \o owed = Intent(world, holds)
    BY <1>1, <1>2, <1>4 DEF Filing, IntentInv, Lists
  <2> QED  BY <1>1, <1>2, <1>4, <2>1, WriteOfIntent
<1>5. CASE life = "up" /\ world \in promised \cup Intended(intents)
  <2>1. p = <<>> /\ owed = Completion(world) /\ world \in Intended(intents) \ Completed(intents)
    BY <1>1, <1>2, <1>5 DEF Filing, IntentInv, Lists
  <2> PICK t : t = world
    OBVIOUS
  <2>2. IntentInv' /\ Settles(t)
    BY <1>1, <1>3, <1>5, <2>1, WriteOfCompletion
  <2> QED  BY <1>2, <1>3, <1>5, <2>2
<1>6. CASE life = "starting"
  <2> PICK t : t = Head(recovering).id
    OBVIOUS
  <2>1. p = <<>> /\ owed = Completion(t) /\ t \in undone /\ recovering # <<>>
    BY <1>1, <1>2, <1>3, <1>6 DEF Filing
  <2>2. t \in Transaction /\ t \in Intended(intents) \ Completed(intents)
    <3>1. /\ recovering \in Seq(HeaderType) /\ Distinct(recovering)
          /\ IdsOf(recovering) = Intended(intents) \ Completed(intents)
      BY <1>6 DEF IntentInv, Lists
    <3>2. Head(recovering) \in HeaderType /\ t \in IdsOf(recovering)
      BY <2>1, <3>1, OneDone
    <3> QED  BY <3>1, <3>2 DEF HeaderType
  <2>3. IntentInv' /\ Settles(t)
    BY <1>1, <1>6, <2>1, <2>2, WriteOfCompletion
  <2> QED  BY <1>2, <2>2, <2>3
<1> QED  BY <1>3, <1>4, <1>5, <1>6

LEMMA GoneIntents ==
  ASSUME IntentInv, Gone,
         \/ UNCHANGED intents
         \/ owed # <<>> /\ intents' = Append(intents, CutShort(Head(owed)))
  PROVE  IntentInv' /\ Same /\ UNCHANGED undone
<1>1. PICK w, p : Filing(w, p)
  BY DEF IntentInv
<1>2. /\ Clean(w) /\ w \in Seq(Part) /\ p \in Seq(Part) /\ ~EntryAt(p, 1) /\ intents = w \o p
      /\ owed \in Seq(Part)
  BY <1>1 DEF Filing, Clean, IntentInv, Owing
<1>3. PICK q : q \in Seq(Part) /\ ~EntryAt(q, 1) /\ intents' = w \o q
  <2>1. CASE UNCHANGED intents
    BY <1>2, <2>1
  <2>2. CASE owed # <<>> /\ intents' = Append(intents, CutShort(Head(owed)))
    <3> PICK x : x = CutShort(Head(owed))
      OBVIOUS
    <3>1. x \in Part /\ x.part = "torn"
      <4>1. Head(owed) \in Part
        BY <1>2, <2>2, OneWrite
      <4>2. Head(owed).id \in Transaction
        BY <4>1, PartFacts
      <4> QED  BY <4>2 DEF CutShort, Part
    <3>2. intents' = w \o Append(p, x) /\ Append(p, x) \in Seq(Part)
      BY <1>2, <2>2, <3>1, AppendAfter
    <3>3. Owing
      BY DEF IntentInv
    <3>4. life \in {"up", "starting"} /\ (life = "up" => world \in Transaction)
      BY <2>2, <3>3 DEF Owing
    <3>5. CASE p = <<>>
      <4>1. Append(p, x) = <<x>>
        BY <1>2, <3>1, <3>5, AppendIsConcat, ConcatEmptySeq
      <4> QED  BY <3>1, <3>2, <4>1, NothingIsStub
    <3>6. CASE p # <<>>
      <4>1. life = "up" /\ \E holds \in HoldsOfIntent : p \o owed = Intent(world, holds)
        BY <1>1, <2>2, <3>4, <3>6 DEF Filing
      <4>2. ~EntryAt(Append(p, x), 1)
        BY <1>2, <2>2, <3>1, <3>4, <4>1, BeginningIsStub
      <4> QED  BY <3>2, <4>2
    <3> QED  BY <3>5, <3>6
  <2> QED  BY <2>1, <2>2
<1>4. Scan(intents').entries = Scan(intents).entries
  BY <1>2, <1>3, StubScan
<1>5. Completed(intents)' = Completed(intents) /\ Intended(intents)' = Intended(intents)
  BY <1>4 DEF Completed, Intended
<1>6. /\ life' = "down" /\ world' = "idle" /\ owed' = <<>> /\ saving' = <<>>
      /\ UNCHANGED <<promised, undone>>
  BY DEF Gone
<1>7. Owing'
  BY <1>6, EmptySeq DEF Owing
<1>8. OnceIn(Scan(intents)'.entries)
  BY <1>4 DEF IntentInv, Lists
<1>9. Lists'
  BY <1>5, <1>6, <1>8 DEF IntentInv, Lists
<1>10. Filing(w, q)'
  BY <1>2, <1>3, <1>6 DEF Filing
<1> QED  BY <1>5, <1>6, <1>7, <1>9, <1>10 DEF IntentInv, Same

LEMMA StartIntents ==
  ASSUME IntentInv, Start
  PROVE  IntentInv' /\ Same /\ UNCHANGED undone /\ life = "down" /\ life' = "starting"
<1>1. PICK w, p : Filing(w, p)
  BY DEF IntentInv
<1>2. /\ Clean(w) /\ p \in Seq(Part) /\ ~EntryAt(p, 1) /\ intents = w \o p
  BY <1>1 DEF Filing
<1>3. /\ life = "down" /\ life' = "starting" /\ intents' = Truncated(intents)
      /\ recovering' = Unfinished(intents)
      /\ UNCHANGED <<owed, world, saving, promised, undone>>
  BY DEF Start, snapVars
<1>4. owed = <<>> /\ owed \in Seq(Part) /\ world = "idle" /\ saving = <<>>
  BY <1>3 DEF IntentInv, Owing
<1>5. intents' = w
  BY <1>2, <1>3, TruncatedFacts
<1>6. Scan(intents').entries = Scan(intents).entries
  BY <1>2, <1>5, StubScan
<1>7. Completed(intents)' = Completed(intents) /\ Intended(intents)' = Intended(intents)
  BY <1>6 DEF Completed, Intended
<1>8. Scan(intents).entries \in Seq(HeaderType) /\ OnceIn(Scan(intents).entries)
  BY <1>2, StubScan DEF Clean, IntentInv, Lists
<1>9. /\ recovering' \in Seq(HeaderType) /\ Distinct(recovering')
      /\ IdsOf(recovering') = Intended(intents) \ Completed(intents)
  BY <1>3, <1>8, UnfinishedFacts
<1>10. Owing'
  BY <1>3, <1>4 DEF Owing
<1>11. OnceIn(Scan(intents)'.entries)
  BY <1>6, <1>8
<1>12. Lists'
  BY <1>3, <1>7, <1>9, <1>11 DEF IntentInv, Lists
<1>13. Filing(w, <<>>)'
  BY <1>2, <1>3, <1>4, <1>5, Whole
<1> QED  BY <1>3, <1>7, <1>10, <1>12, <1>13 DEF IntentInv, Same

LEMMA HandleIntents ==
  ASSUME IntentInv, Handle
  PROVE  /\ IntentInv' /\ Same /\ life = "starting" /\ UNCHANGED life
         /\ \E t \in Intended(intents) \ Completed(intents) :
                t \in Transaction /\ undone' = undone \cup {t}
<1> PICK t : t = Head(recovering).id
  OBVIOUS
<1>1. /\ life = "starting" /\ recovering # <<>> /\ owed = <<>> /\ owed' = Completion(t)
      /\ undone' = undone \cup {t}
      /\ UNCHANGED <<life, intents, recovering, promised, world, saving>>
  BY DEF Handle, snapVars
<1>2. /\ recovering \in Seq(HeaderType) /\ Distinct(recovering)
      /\ IdsOf(recovering) = Intended(intents) \ Completed(intents)
  BY <1>1 DEF IntentInv, Lists
<1>3. t \in Transaction /\ t \in Intended(intents) \ Completed(intents)
  <2>1. Head(recovering) \in HeaderType /\ t \in IdsOf(recovering)
    BY <1>1, <1>2, OneDone
  <2> QED  BY <1>2, <2>1 DEF HeaderType
<1>4. owed' \in Seq(Part)
  BY <1>1, <1>3, CompletionFacts
<1>5. PICK w, p : Filing(w, p)
  BY DEF IntentInv
<1>6. p = <<>>
  BY <1>1, <1>5 DEF Filing
<1>7. Owing'
  BY <1>1, <1>4 DEF IntentInv, Owing
<1>8. Scan(intents)' = Scan(intents) /\ Same
  BY <1>1 DEF Same
<1>9. Lists'
  BY <1>1, <1>8 DEF IntentInv, Lists, Same
<1>10. Filing(w, <<>>)'
  <2>1. life' = "starting" /\ owed' = Completion(Head(recovering').id) /\ Head(recovering').id \in undone'
    BY <1>1
  <2>2. owed' # <<>>
    BY <1>1, <1>3, CompletionFacts
  <2> QED  BY <1>1, <1>5, <1>6, <2>1, <2>2 DEF Filing
<1> QED  BY <1>1, <1>3, <1>7, <1>8, <1>9, <1>10 DEF IntentInv

LEMMA BeginIntents ==
  ASSUME IntentInv, NEW t \in Transaction, NEW holds \in HoldsOfIntent, BeginTransaction(t, holds)
  PROVE  IntentInv' /\ Same /\ UNCHANGED <<life, undone>>
<1>1. /\ life = "up" /\ world = "idle" /\ t \notin promised \cup Intended(intents)
      /\ world' = t /\ owed' = Intent(t, holds)
      /\ UNCHANGED <<life, intents, recovering, promised, undone, saving>>
  BY DEF BeginTransaction, snapVars
<1>2. owed = <<>> /\ saving = <<>>
  BY <1>1, TransactionAssumption DEF IntentInv, Owing
<1>3. PICK w, p : Filing(w, p)
  BY DEF IntentInv
<1>4. p = <<>>
  BY <1>1, <1>2, <1>3 DEF Filing
<1>5. owed' \in Seq(Part) /\ owed' # <<>> /\ <<>> \o owed' = owed'
  <2>1. Intent(t, holds) \in Seq(Part) /\ Len(Intent(t, holds)) = 1 + Len(holds) /\ Len(holds) \in Nat
    BY IntentFacts
  <2>2. Intent(t, holds) # <<>>
    <3>1. 1 + Len(holds) # 0
      BY <2>1
    <3> QED  BY <2>1, <3>1, EmptySeq
  <2> QED  BY <1>1, <2>1, <2>2, ConcatEmptySeq
<1>6. Owing'
  BY <1>1, <1>2, <1>5 DEF Owing
<1>7. Scan(intents)' = Scan(intents) /\ Same
  BY <1>1 DEF Same
<1>8. Lists'
  BY <1>1, <1>5, <1>7 DEF IntentInv, Lists, Same
<1>9. Filing(w, <<>>)'
  <2>1. life' = "up" /\ world' \notin promised' \cup Intended(intents)'
    BY <1>1, <1>7 DEF Same
  <2>2. <<>> \o owed' = Intent(world', holds)
    BY <1>1, <1>5
  <2> QED  BY <1>1, <1>3, <1>4, <1>5, <2>1, <2>2 DEF Filing
<1> QED  BY <1>1, <1>6, <1>7, <1>8, <1>9 DEF IntentInv

LEMMA EndIntents ==
  ASSUME IntentInv, NEW t \in Transaction, EndTransaction(t)
  PROVE  IntentInv' /\ Same /\ UNCHANGED <<life, undone>>
<1>1. /\ world = t /\ owed = <<>>
      /\ \/ owed' = Completion(t) /\ world' = t
         \/ owed' = <<>> /\ world' = "idle"
      /\ UNCHANGED <<life, intents, recovering, promised, undone, saving>>
  BY DEF EndTransaction, snapVars
<1>2. life = "up" /\ saving = <<>> /\ "idle" \notin Transaction
  BY <1>1, TransactionAssumption DEF IntentInv, Owing
<1>3. t \in promised \ Completed(intents)
  BY <1>1, <1>2 DEF IntentInv, Lists
<1>4. PICK w, p : Filing(w, p)
  BY DEF IntentInv
<1>5. p = <<>>
  BY <1>1, <1>2, <1>4 DEF Filing
<1>6. Scan(intents)' = Scan(intents) /\ Same
  BY <1>1 DEF Same
<1>7. Owing'
  BY <1>1, <1>2, CompletionFacts, EmptySeq DEF Owing
<1>8. Lists'
  BY <1>1, <1>2, <1>3, <1>6 DEF IntentInv, Lists, Same
<1>9. Filing(w, <<>>)'
  <2>1. life' = "up"
    BY <1>1, <1>2
  <2>2. owed' # <<>> => world' \in promised' \ Completed(intents)' /\ owed' = Completion(world')
    BY <1>1, <1>3, <1>6 DEF Same
  <2> QED  BY <1>1, <1>4, <1>5, <2>1, <2>2 DEF Filing
<1> QED  BY <1>1, <1>6, <1>7, <1>8, <1>9 DEF IntentInv

LEMMA ServeIntents ==
  ASSUME IntentInv, Serve
  PROVE  /\ IntentInv' /\ Same /\ UNCHANGED undone /\ life' = "up"
         /\ Intended(intents) \ Completed(intents) = {}
<1>1. /\ life = "starting" /\ recovering = <<>> /\ life' = "up"
      /\ UNCHANGED <<world, intents, owed, recovering, promised, undone, saving>>
  BY DEF Serve, snapVars, intentVars
<1>2. owed = <<>> /\ world = "idle" /\ owed \in Seq(Part) /\ saving = <<>>
  BY <1>1 DEF IntentInv, Owing
<1>3. Intended(intents) \ Completed(intents) = {}
  <2>1. IdsOf(<<>>) = {}
    <3>1. DOMAIN <<>> = {}  OBVIOUS
    <3> QED  BY <3>1 DEF IdsOf
  <2> QED  BY <1>1, <2>1 DEF IntentInv, Lists
<1>4. Owing'
  BY <1>1, <1>2 DEF Owing
<1>5. Scan(intents)' = Scan(intents) /\ Same
  BY <1>1 DEF Same
<1>6. Lists'
  <2>1. "idle" \notin Transaction
    BY TransactionAssumption
  <2> QED  BY <1>1, <1>2, <1>5, <2>1 DEF IntentInv, Lists, Same
<1>7. PICK w, p : Filing(w, p)
  BY DEF IntentInv
<1>8. p = <<>>
  BY <1>1, <1>2, <1>7 DEF Filing
<1>9. Filing(w, <<>>)'
  BY <1>1, <1>2, <1>7, <1>8 DEF Filing
<1> QED  BY <1>1, <1>3, <1>4, <1>5, <1>6, <1>9 DEF IntentInv

(* What a step of the daemon is to the promise. *)
Outcome ==
    \/ Same /\ UNCHANGED undone /\ life # "up" /\ life' # "up"
    \/ Same /\ UNCHANGED <<undone, life>>
    \/ Same /\ UNCHANGED undone /\ life' = "down"
    \/ /\ \E t \in Transaction : Means(t) \/ Settles(t)
       /\ UNCHANGED <<undone, life>>
    \/ /\ Same /\ life # "up" /\ UNCHANGED life
       /\ \E t \in Intended(intents) \ Completed(intents) :
              t \in Transaction /\ undone' = undone \cup {t}
    \/ /\ Same /\ UNCHANGED undone /\ life' = "up"
       /\ Intended(intents) \ Completed(intents) = {}

LEMMA IntentNext ==
  ASSUME IntentInv, [Next]_vars
  PROVE  IntentInv' /\ Outcome
<1>1. Owing
  BY DEF IntentInv
<1>2. ASSUME UNCHANGED intentVars, UNCHANGED life, saving' # <<>> => world' = "saving",
             \/ UNCHANGED world
             \/ life = "up" /\ world \notin Transaction /\ world' \notin Transaction
      PROVE  IntentInv' /\ Outcome
  <2>1. UNCHANGED <<life, intents, owed, recovering, promised, undone>>
    BY <1>2 DEF intentVars
  <2>2. Same
    BY <2>1 DEF Same
  <2>3. IntentInv'
    BY <1>2, <2>1, ElsewhereIntents
  <2> QED  BY <2>1, <2>2, <2>3 DEF Outcome
<1>3. \A s \in {"idle", "stopping", "reading", "saving"} : s \notin Transaction
  BY TransactionAssumption
<1>4. ASSUME NEW z \in Zone, NEW kind, NEW i, Command(z, kind, i) PROVE IntentInv' /\ Outcome
  BY <1>1, <1>2, <1>4 DEF Command, Owing, snapVars
<1>5. ASSUME NEW z \in Zone, Persist(z) PROVE IntentInv' /\ Outcome
  BY <1>1, <1>2, <1>5 DEF Persist, Owing, snapVars
<1>6. ASSUME NEW z \in Zone, Stop(z) PROVE IntentInv' /\ Outcome
  <2>1. /\ world = "stopping" /\ world' \in {"stopping", "reading"}
        /\ UNCHANGED <<intentVars, saving, life>>
    BY <1>6 DEF Stop
  <2>2. life = "up" /\ saving = <<>>
    BY <1>1, <2>1 DEF Owing
  <2> QED  BY <1>2, <1>3, <2>1, <2>2
<1>7. ASSUME NEW z \in Zone, ReadNumber(z) PROVE IntentInv' /\ Outcome
  <2>1. /\ world = "reading" /\ world' \in {"reading", "saving"}
        /\ UNCHANGED <<intentVars, saving, life>>
    BY <1>7 DEF ReadNumber
  <2>2. life = "up" /\ saving = <<>>
    BY <1>1, <2>1 DEF Owing
  <2> QED  BY <1>2, <1>3, <2>1, <2>2
<1>8. ASSUME NEW z \in Zone, OpenSnapshot(z) PROVE IntentInv' /\ Outcome
  BY <1>2, <1>8 DEF OpenSnapshot
<1>9. ASSUME NEW z \in Zone, SnapshotFails(z) PROVE IntentInv' /\ Outcome
  <2>1. /\ world = "saving" /\ world' = "idle" /\ saving = <<>>
        /\ UNCHANGED <<intentVars, saving, life>>
    BY <1>9 DEF SnapshotFails, SnapshotEnds
  <2>2. life = "up"
    BY <1>1, <2>1 DEF Owing
  <2> QED  BY <1>2, <1>3, <2>1, <2>2
<1>10. CASE AskSnapshot
  <2>1. /\ world = "idle" /\ world' = "stopping" /\ life = "up"
        /\ UNCHANGED <<intentVars, saving, life>>
    BY <1>10 DEF AskSnapshot, snapVars
  <2>2. saving = <<>>
    BY <1>1, <2>1 DEF Owing
  <2> QED  BY <1>2, <1>3, <2>1, <2>2
<1>11. CASE SaveSnapshot
  <2>1. /\ saving # <<>> /\ UNCHANGED <<intentVars, life>>
        /\ world' \in {world, "idle"} /\ (world' # world => saving' = <<>>)
    BY <1>11 DEF SaveSnapshot
  <2>2. life = "up" /\ world = "saving"
    BY <1>1, <2>1 DEF Owing
  <2> QED  BY <1>2, <1>3, <2>1, <2>2
<1>12. ASSUME NEW t \in Transaction, NEW holds \in HoldsOfIntent, BeginTransaction(t, holds)
       PROVE  IntentInv' /\ Outcome
  BY <1>12, BeginIntents DEF Outcome
<1>13. ASSUME NEW t \in Transaction, EndTransaction(t) PROVE IntentInv' /\ Outcome
  BY <1>13, EndIntents DEF Outcome
<1>14. CASE WriteEntry
  BY <1>14, WriteEntryKeeps DEF Outcome
<1>15. CASE Gone /\ (\/ UNCHANGED intents
                     \/ owed # <<>> /\ intents' = Append(intents, CutShort(Head(owed))))
  <2>1. IntentInv' /\ Same /\ UNCHANGED undone
    BY <1>15, GoneIntents
  <2>2. life' = "down"
    BY <1>15 DEF Gone
  <2> QED  BY <2>1, <2>2 DEF Outcome
<1>16. CASE Start
  BY <1>16, StartIntents DEF Outcome
<1>17. CASE Handle
  BY <1>17, HandleIntents DEF Outcome
<1>18. CASE Serve
  BY <1>18, ServeIntents DEF Outcome
<1>19. CASE UNCHANGED vars
  BY <1>1, <1>2, <1>19 DEF vars, snapVars, Owing
<1> QED
  <2>1. Crash \/ HandlerFails \/ (\E z \in Zone : SnapshotKills(z)) =>
            /\ Gone
            /\ \/ UNCHANGED intents
               \/ owed # <<>> /\ intents' = Append(intents, CutShort(Head(owed)))
    BY DEF Crash, HandlerFails, SnapshotKills
  <2> QED  BY <1>4, <1>5, <1>6, <1>7, <1>8, <1>9, <1>10, <1>11, <1>12, <1>13, <1>14, <1>15,
              <1>16, <1>17, <1>18, <1>19, <2>1 DEF Next, HoldsOfIntent

Standing == [t \in Transaction |->
                IF t \in Completed(intents) THEN "settled"
                ELSE IF t \in promised \cup Intended(intents) THEN "open" ELSE "none"]

LEMMA PromiseInit == Init => Promise!Init
<1> SUFFICES ASSUME Init PROVE Promise!Init
  OBVIOUS
<1>1. IntentInv
  BY IntentInit
<1>2. intents = <<>> /\ promised = {} /\ undone = {} /\ life = "up"
  BY DEF Init
<1>3. Scan(<<>>).entries = <<>> /\ DOMAIN <<>> = {}
  BY CleanEmpty DEF EmptyScan
<1>4. Completed(intents) = {} /\ Intended(intents) = {}
  BY <1>2, <1>3 DEF Completed, Intended
<1> QED  BY <1>2, <1>4 DEF Promise!Init

LEMMA PromiseNext ==
  ASSUME IntentInv, IntentInv', Outcome
  PROVE  [Promise!Next]_(Promise!vars)
<1>1. promised \subseteq Intended(intents) /\ promised' \subseteq Intended(intents)'
  BY DEF IntentInv, Lists
<1>2. Completed(intents) \subseteq Intended(intents)
  BY DEF IntentInv, Lists
<1> DEFINE serving == life = "up"
<1>3. Same => UNCHANGED Standing
  BY DEF Same, Standing
<1>4. CASE Same /\ UNCHANGED undone /\ (serving <=> serving')
  <2>1. UNCHANGED <<Standing, undone>> /\ serving' = serving
    BY <1>3, <1>4
  <2> QED  BY <2>1 DEF Promise!vars, Standing
<1>5. CASE Same /\ UNCHANGED undone /\ life' = "down"
  <2>1. Promise!Die
    BY <1>3, <1>5 DEF Promise!Die, Standing
  <2> QED  BY <2>1 DEF Promise!Next
<1>6. ASSUME NEW t \in Transaction, Means(t), UNCHANGED <<undone, life>>
      PROVE  Promise!WriteIntent(t)
  <2>1. Standing[t] = "none" /\ Standing' = [Standing EXCEPT ![t] = "open"]
    BY <1>1, <1>2, <1>6 DEF Standing, Means
  <2> QED  BY <1>6, <2>1 DEF Promise!WriteIntent, Standing, Means
<1>7. ASSUME NEW t \in Transaction, Settles(t), UNCHANGED <<undone, life>>
      PROVE  Promise!Settle(t)
  <2>1. Standing[t] = "open" /\ Standing' = [Standing EXCEPT ![t] = "settled"]
    BY <1>1, <1>7 DEF Standing, Settles
  <2> QED  BY <1>7, <2>1 DEF Promise!Settle, Standing, Settles
<1>8. ASSUME NEW t \in Transaction, t \in Intended(intents) \ Completed(intents),
             Same, life # "up", UNCHANGED life, undone' = undone \cup {t}
      PROVE  Promise!Handle(t)
  <2>1. Standing[t] = "open"
    BY <1>8 DEF Standing
  <2> QED  BY <1>3, <1>8, <2>1 DEF Promise!Handle, Standing
<1>9. CASE /\ Same /\ UNCHANGED undone /\ life' = "up"
           /\ Intended(intents) \ Completed(intents) = {}
  <2>1. \A t \in Transaction : Standing[t] # "open"
    BY <1>1, <1>9 DEF Standing
  <2>2. Promise!Serve
    BY <1>3, <1>9, <2>1 DEF Promise!Serve, Standing
  <2> QED  BY <2>2 DEF Promise!Next
<1> QED  BY <1>4, <1>5, <1>6, <1>7, <1>8, <1>9 DEF Outcome, Promise!Next

(* Through every crash, torn write and restart, an intent is forgotten by  *)
(* nobody: what is promised is confirmed, or handed to the handler and      *)
(* settled before anybody is served, and never handed to it again.         *)
THEOREM PromiseIsKept == Spec => IntentsKept
<1>1. Spec => []IntentInv
  BY IntentInit, IntentNext, PTL DEF Spec
<1>2. IntentInv /\ IntentInv' /\ [Next]_vars => [Promise!Next]_(Promise!vars)
  BY IntentNext, PromiseNext
<1> QED  BY <1>1, <1>2, PromiseInit, PTL DEF Spec, IntentsKept, Promise!Spec

-----------------------------------------------------------------------------
(* The snapshot *)

Snapshotting == {"stopping", "reading", "saving"}

(* A Zone that is stopped is where it was when all were, and its number is  *)
(* yet to be read.  That nobody else uses World while a snapshot is being   *)
(* taken is in IntentInv.                                                   *)
SnapshotInv ==
    /\ DOMAIN zone = Zone
    /\ halted # {} => world \in {"stopping", "reading"}
    /\ world \notin {"reading", "saving"} => numbers = <<>>
    /\ world = "reading" => \A z \in halted : /\ z \in Zone \ DOMAIN numbers
                                              /\ instant[z] = LastSequenceNum(zone[z])
    /\ OneInstant

LEMMA SnapshotInit == Init => SnapshotInv
<1> SUFFICES ASSUME Init PROVE SnapshotInv
  OBVIOUS
<1> QED  BY DEF Init, SnapshotInv, OneInstant, Snapshotting

LEMMA GoneSnapshot ==
  ASSUME SnapshotInv, Gone PROVE SnapshotInv'
BY DEF Gone, SnapshotInv, OneInstant, Snapshotting

LEMMA SnapshotNext == IntentInv /\ SnapshotInv /\ [Next]_vars => SnapshotInv'
<1> SUFFICES ASSUME IntentInv, SnapshotInv, [Next]_vars PROVE SnapshotInv'
  OBVIOUS
<1>17. Owing
  BY DEF IntentInv
<1>18. owed # <<>> => world \notin Snapshotting
  BY <1>17, TransactionAssumption DEF Owing, Snapshotting
<1>1. ASSUME NEW z \in Zone, NEW kind, NEW i, Command(z, kind, i) PROVE SnapshotInv'
  <2>1. /\ DOMAIN zone' = Zone /\ z \notin halted
        /\ \A y \in Zone : y # z => zone'[y] = zone[y]
        /\ life = "up" /\ UNCHANGED <<snapVars, life, world, owed>>
    BY <1>1 DEF Command, SnapshotInv, intentVars
  <2> QED  BY <2>1 DEF SnapshotInv, OneInstant, snapVars
<1>2. ASSUME NEW z \in Zone, Persist(z) PROVE SnapshotInv'
  BY <1>2 DEF Persist, SnapshotInv, OneInstant, snapVars, intentVars
<1>3. ASSUME NEW z \in Zone, Stop(z) PROVE SnapshotInv'
  <2>1. /\ world = "stopping" /\ halted' = halted \cup {z} /\ numbers = <<>> /\ saving = <<>>
        /\ owed = <<>> /\ life = "up" /\ DOMAIN numbers' = {}
        /\ UNCHANGED <<zone, owed, numbers, saving, life>>
    BY <1>3, <1>17, <1>18 DEF Stop, Owing, SnapshotInv, Snapshotting, zoneVars, intentVars
  <2>2. CASE halted' = Zone
    <3>1. world' = "reading" /\ instant' = [y \in Zone |-> LastSequenceNum(zone[y])]
      BY <1>3, <2>2 DEF Stop
    <3>2. \A y \in halted' : /\ y \in Zone \ DOMAIN numbers'
                             /\ instant'[y] = LastSequenceNum(zone[y])
      BY <2>1, <2>2, <3>1
    <3>3. \A y \in halted' : instant'[y] = LastSequenceNum(zone'[y])
      BY <2>1, <3>2
    <3> QED  BY <2>1, <3>1, <3>2, <3>3 DEF SnapshotInv, OneInstant, Snapshotting
  <2>3. CASE halted' # Zone
    <3>1. world' = "stopping"
      BY <1>3, <2>1, <2>3 DEF Stop
    <3> QED  BY <2>1, <3>1 DEF SnapshotInv, OneInstant, Snapshotting
  <2> QED  BY <2>2, <2>3
<1>4. ASSUME NEW z \in Zone, ReadNumber(z) PROVE SnapshotInv'
  <2>1. /\ world = "reading" /\ z \in halted /\ halted' = halted \ {z} /\ saving = <<>>
        /\ owed = <<>> /\ life = "up" /\ world' \in {"reading", "saving"}
        /\ (halted' # {} => world' = "reading")
        /\ UNCHANGED <<zone, owed, saving, life, instant>>
    BY <1>4, <1>17, <1>18 DEF ReadNumber, Owing, SnapshotInv, Snapshotting, zoneVars, intentVars
  <2>2. numbers' = [y \in DOMAIN numbers \cup {z} |->
                      IF y = z THEN LastSequenceNum(zone[z]) ELSE numbers[y]]
    BY <1>4 DEF ReadNumber
  <2>3. /\ DOMAIN numbers' = DOMAIN numbers \cup {z}
        /\ \A y \in DOMAIN numbers \ {z} : numbers'[y] = numbers[y]
        /\ numbers'[z] = LastSequenceNum(zone[z])
    BY <2>2
  <2>4. /\ z \notin DOMAIN numbers /\ instant[z] = LastSequenceNum(zone[z])
        /\ \A y \in halted : /\ y \in Zone \ DOMAIN numbers
                             /\ instant[y] = LastSequenceNum(zone[y])
        /\ \A y \in DOMAIN numbers : numbers[y] = instant[y]
    BY <2>1 DEF SnapshotInv, OneInstant
  <2>5. \A y \in DOMAIN numbers' : numbers'[y] = instant'[y]
    BY <2>1, <2>3, <2>4
  <2>6. \A y \in halted' : /\ y \in Zone \ DOMAIN numbers'
                           /\ instant'[y] = LastSequenceNum(zone[y])
    BY <2>1, <2>3, <2>4
  <2>7. \A y \in halted' : instant'[y] = LastSequenceNum(zone'[y])
    BY <2>1, <2>6
  <2> QED  BY <2>1, <2>5, <2>6, <2>7 DEF SnapshotInv, OneInstant
<1>5. ASSUME NEW z \in Zone, OpenSnapshot(z) PROVE SnapshotInv'
  BY <1>5 DEF OpenSnapshot, SnapshotInv, OneInstant, zoneVars, intentVars, Snapshotting
<1>6. ASSUME NEW z \in Zone, SnapshotFails(z) PROVE SnapshotInv'
  BY <1>6 DEF SnapshotFails, SnapshotEnds, SnapshotInv, OneInstant, zoneVars, intentVars, Snapshotting
<1>7. CASE AskSnapshot
  <2>1. /\ life = "up" /\ world = "idle" /\ world' = "stopping"
        /\ owed = <<>> /\ saving = <<>>
        /\ UNCHANGED <<zone, life, halted, numbers, saving, instant, owed>>
    BY <1>7, <1>17, TransactionAssumption DEF AskSnapshot, Owing, zoneVars, snapVars, intentVars
  <2> QED  BY <2>1 DEF SnapshotInv, OneInstant, Snapshotting
<1>8. CASE SaveSnapshot
  <2>1. world = "saving"
    BY <1>8, <1>17 DEF SaveSnapshot, Owing
  <2> QED  BY <1>8, <2>1 DEF SaveSnapshot, SnapshotInv, OneInstant, zoneVars
<1>9. ASSUME NEW t \in Transaction, NEW holds, BeginTransaction(t, holds) PROVE SnapshotInv'
  <2>1. t \notin Snapshotting
    BY TransactionAssumption DEF Snapshotting
  <2> QED  BY <1>9, <2>1 DEF BeginTransaction, SnapshotInv, OneInstant, zoneVars, snapVars, Snapshotting
<1>10. ASSUME NEW t \in Transaction, EndTransaction(t) PROVE SnapshotInv'
  <2>1. t \notin Snapshotting
    BY TransactionAssumption DEF Snapshotting
  <2> QED  BY <1>10, <2>1 DEF EndTransaction, SnapshotInv, OneInstant, zoneVars, snapVars, Snapshotting
<1>11. CASE WriteEntry
  <2>1. /\ owed # <<>> /\ world' \in {world, "idle"}
        /\ UNCHANGED <<zoneVars, snapVars, life>>
    BY <1>11 DEF WriteEntry
  <2> QED  BY <1>18, <2>1 DEF SnapshotInv, OneInstant, zoneVars, snapVars, Snapshotting
<1>12. CASE Gone
  BY <1>12, GoneSnapshot
<1>13. CASE Start
  <2>1. /\ DOMAIN zone' = Zone /\ world = "idle" /\ UNCHANGED <<snapVars, world>>
    BY <1>13, <1>17 DEF Start, Owing
  <2> QED  BY <2>1 DEF SnapshotInv, OneInstant, snapVars
<1>14. CASE Handle
  BY <1>14 DEF Handle, SnapshotInv, OneInstant, zoneVars, snapVars, Snapshotting
<1>15. CASE Serve
  BY <1>15 DEF Serve, SnapshotInv, OneInstant, zoneVars, snapVars, intentVars, Snapshotting
<1>16. CASE UNCHANGED vars
  BY <1>16 DEF vars, SnapshotInv, OneInstant, zoneVars, snapVars, intentVars
<1> QED
  <2>1. Crash \/ HandlerFails \/ (\E z \in Zone : SnapshotKills(z)) => Gone
    BY DEF Crash, HandlerFails, SnapshotKills
  <2> QED  BY <1>1, <1>2, <1>3, <1>4, <1>5, <1>6, <1>7, <1>8, <1>9, <1>10, <1>11, <1>12, <1>13,
              <1>14, <1>15, <1>16, <2>1 DEF Next

(* The numbers of a snapshot are those the Zones had at one instant, for   *)
(* any number of Zones, though each goes on as soon as its own is read.    *)
THEOREM SnapshotOfOneInstant == Spec => []OneInstant
<1>1. SnapshotInv => OneInstant
  BY DEF SnapshotInv
<1>2. Spec => []IntentInv
  BY IntentInit, IntentNext, PTL DEF Spec
<1> QED  BY <1>1, <1>2, SnapshotInit, SnapshotNext, PTL DEF Spec

-----------------------------------------------------------------------------
(* What is read of files that have anything in them. *)

Stream == [events : Seq(EventType), ok : BOOLEAN]

LEMMA FromLogTyped ==
  ASSUME NEW file \in Seq(Piece), NEW z, NEW first, NEW upTo \in Number
  PROVE  /\ FromLog(file, z, first, upTo) \in Stream
         /\ upTo = MaxUint /\ FromLog(file, z, first, upTo).ok => ReadEvents(file).ok
<1> DEFINE read == ReadEvents(file)
           mine == EventsOf(read.events, z, first)
           above == {i \in DOMAIN mine : mine[i].num > upTo}
           least == CHOOSE i \in above : \A j \in above : i <= j
<1>1. mine \in Seq(EventType) /\ read.ok \in BOOLEAN
  BY ReadTyped, EventsOfTyped
<1>2. FromLog(file, z, first, upTo) = IF above = {} THEN [events |-> mine, ok |-> read.ok]
                                      ELSE [events |-> SubSeq(mine, 1, least - 1), ok |-> TRUE]
  BY DEF FromLog
<1> HIDE DEF mine, read
<1>3. /\ upTo \in Nat /\ MaxUint \in Nat /\ Len(mine) \in Nat /\ DOMAIN mine = 1..Len(mine)
      /\ \A i \in DOMAIN mine : mine[i].num \in Nat /\ mine[i].num <= MaxUint
  BY <1>1, Numbered, StoreAssumption DEF Number
<1>4. upTo = MaxUint => above = {}
  BY <1>3
<1>5. CASE above = {}
  <2>1. FromLog(file, z, first, upTo) = [events |-> mine, ok |-> read.ok]
    BY <1>2, <1>5
  <2> QED  BY <1>1, <2>1 DEF Stream, read
<1>6. CASE above # {}
  <2>1. above \subseteq Nat /\ above \subseteq 1..Len(mine)
    BY <1>3
  <2> HIDE DEF above
  <2>2. \E i \in above : \A j \in above : i <= j
    BY <1>6, <2>1, Lowest
  <2>3. least \in above
    BY <2>2
  <2> HIDE DEF least
  <2>4. least - 1 \in 0..Len(mine) /\ 0 \in 0..Len(mine) /\ least - 1 \in 0..Len(mine)
    BY <1>3, <2>1, <2>3
  <2>5. SubSeq(mine, 1, least - 1) \in Seq(EventType)
    BY <1>1, <2>4, PartsMeet, LenProperties
  <2>6. FromLog(file, z, first, upTo) = [events |-> SubSeq(mine, 1, least - 1), ok |-> TRUE]
    BY <1>2, <1>6
  <2> QED  BY <1>4, <1>6, <2>5, <2>6 DEF Stream
<1> QED  BY <1>5, <1>6

LEMMA StreamTyped ==
  ASSUME NEW file \in Seq(Piece), NEW z, NEW upTo \in Number, NEW sn,
         DOMAIN sn \subseteq Number, \A n \in DOMAIN sn : sn[n] \in Seq(Piece)
  PROVE  /\ RetrieveEvents(file, sn, z, upTo) \in Stream
         /\ RetrieveEvents(file, sn, z, upTo).ok => file # <<>>
         /\ upTo = MaxUint /\ RetrieveEvents(file, sn, z, upTo).ok => ReadEvents(file).ok
<1> DEFINE snap == FindPreviousSnapshot(sn, upTo)
           after == FromLog(file, z, FirstAfter(snap), upTo)
           c == CHOOSE n \in snap : TRUE
           read == ReadEvents(sn[c])
<1>1. RetrieveEvents(file, sn, z, upTo) =
         CASE file = <<>> -> [events |-> <<>>, ok |-> FALSE]
           [] file # <<>> /\ snap = {} -> after
           [] OTHER -> IF read.ok THEN [after EXCEPT !.events = read.events \o @] ELSE read
  BY DEF RetrieveEvents
<1>2. after \in Stream /\ (upTo = MaxUint /\ after.ok => ReadEvents(file).ok)
  BY FromLogTyped
<1>3. snap # {} => c \in DOMAIN sn
  <2>1. snap = {} \/ \E n : snap = {n} /\ Latest(sn, upTo, n)
    BY FindsLatest
  <2> HIDE DEF snap
  <2> QED  BY <2>1 DEF Latest
<1> HIDE DEF snap, after, c
<1>4. snap # {} => read \in Stream
  <2>1. snap # {} => sn[c] \in Seq(Piece)
    BY <1>3
  <2>2. ASSUME snap # {} PROVE read \in Stream
    <3>1. ReadEvents(sn[c]).events \in Seq(EventType) /\ ReadEvents(sn[c]).ok \in BOOLEAN
      BY <2>1, <2>2, ReadTyped
    <3>2. ReadEvents(sn[c]) = [events |-> ReadEvents(sn[c]).events, ok |-> ReadEvents(sn[c]).ok]
      BY DEF ReadEvents
    <3> DEFINE r == ReadEvents(sn[c])
    <3>3. r \in Stream
      <4> HIDE DEF r
      <4>1. r = [events |-> r.events, ok |-> r.ok] /\ r.events \in Seq(EventType) /\ r.ok \in BOOLEAN
        BY <3>1, <3>2 DEF r
      <4> QED  BY <4>1 DEF Stream
    <3> QED  BY <3>3
  <2> QED  BY <2>2
<1> HIDE DEF read
<1>5. CASE file = <<>>
  <2>1. RetrieveEvents(file, sn, z, upTo) = [events |-> <<>>, ok |-> FALSE]
    BY <1>1, <1>5
  <2>2. <<>> \in Seq(EventType)
    OBVIOUS
  <2> QED  BY <2>1, <2>2 DEF Stream
<1>6. CASE file # <<>> /\ snap = {}
  BY <1>1, <1>2, <1>6
<1>7. CASE file # <<>> /\ snap # {}
  <2>1. RetrieveEvents(file, sn, z, upTo)
            = IF read.ok THEN [after EXCEPT !.events = read.events \o @] ELSE read
    BY <1>1, <1>7
  <2>2. read \in Stream
    BY <1>4, <1>7
  <2>3. CASE ~read.ok
    BY <1>7, <2>1, <2>2, <2>3
  <2>4. CASE read.ok
    <3>1. RetrieveEvents(file, sn, z, upTo) = [after EXCEPT !.events = read.events \o after.events]
      BY <2>1, <2>4
    <3>2. read.events \o after.events \in Seq(EventType)
      BY <1>2, <2>2, ConcatProperties DEF Stream
    <3> DEFINE both == read.events \o after.events
    <3> HIDE DEF both
    <3>3. RetrieveEvents(file, sn, z, upTo) = [events |-> both, ok |-> after.ok]
      BY <1>2, <3>1 DEF Stream, both
    <3> QED  BY <1>2, <1>7, <3>2, <3>3 DEF Stream, both
  <2> QED  BY <2>3, <2>4
<1> QED  BY <1>5, <1>6, <1>7

LEMMA StreamReplays ==
  ASSUME NEW s \in Stream
  PROVE  Replay(s) \in Replayed /\ (Replay(s).ok => s.ok)
<1>1. s = [events |-> s.events, ok |-> s.ok] /\ s.events \in Seq(EventType) /\ s.ok \in BOOLEAN
  BY DEF Stream
<1>2. /\ R(s.events) \in Replayed
      /\ Replay([events |-> s.events, ok |-> s.ok]) = [ok |-> R(s.events).ok /\ s.ok, zone |-> R(s.events).zone]
  BY <1>1, ReplayFacts
<1> DEFINE r == R(s.events)
<1>3. Replay(s) = [ok |-> r.ok /\ s.ok, zone |-> r.zone]
  <2> HIDE DEF r
  <2>1. Replay(s) = Replay([events |-> s.events, ok |-> s.ok])
    BY <1>1, Zenon
  <2> QED  BY <1>2, <2>1 DEF r
<1> HIDE DEF r
<1>4. r \in Replayed
  BY <1>2 DEF r
<1>5. (r.ok /\ s.ok) \in BOOLEAN /\ r.zone \in FiniteContent
  BY <1>1, <1>4 DEF Replayed
<1> DEFINE b == r.ok /\ s.ok
<1>6. Replay(s) = [ok |-> b, zone |-> r.zone] /\ b \in BOOLEAN /\ (b => s.ok)
  BY <1>3, <1>5
<1> HIDE DEF b
<1> QED  BY <1>5, <1>6 DEF Replayed

LEMMA RetrievedTyped ==
  ASSUME NEW file \in Seq(Piece), NEW z, NEW upTo \in Number, NEW sn,
         DOMAIN sn \subseteq Number, \A n \in DOMAIN sn : sn[n] \in Seq(Piece)
  PROVE  /\ Replay(RetrieveEvents(file, sn, z, upTo)) \in Replayed
         /\ Replay(RetrieveEvents(file, sn, z, upTo)).ok => file # <<>>
         /\ upTo = MaxUint /\ Replay(RetrieveEvents(file, sn, z, upTo)).ok => ReadEvents(file).ok
BY StreamTyped, StreamReplays

-----------------------------------------------------------------------------
(* Every variable has its type *)

Writes(z) == \E e \in EventType : e.zone = z /\ writing[z] \in {Written(e), <<Body(e)>>}

ZonesTyped ==
    /\ zone \in [Zone -> FiniteContent]
    /\ log \in Seq(Piece)
    /\ writing \in [Zone -> Seq(Piece)]
    /\ \A z \in Zone : writing[z] # <<>> => Writes(z)
    /\ life # "up" => \A z \in Zone : writing[z] = <<>>
    /\ \A z \in halted : writing[z] = <<>>

SavesPart == \E z \in DOMAIN numbers, rest \in Seq(Piece) :
                 saving = <<z, rest>> /\ numbers[z] \in DOMAIN snaps[z]

SnapsTyped ==
    /\ DOMAIN snaps = Zone
    /\ \A z \in Zone : /\ DOMAIN snaps[z] \subseteq Number
                       /\ \A n \in DOMAIN snaps[z] : snaps[z][n] \in Seq(Piece)
    /\ DOMAIN numbers \subseteq Zone
    /\ \A z \in DOMAIN numbers : numbers[z] \in Number
    /\ whole \subseteq Zone \X Number
    /\ saving # <<>> => SavesPart

RestTyped ==
    /\ life \in {"up", "down", "starting"}
    /\ world \in {"idle", "stopping", "reading", "saving"} \cup Transaction
    /\ halted \subseteq Zone
    /\ misled \subseteq Zone
    /\ promised \cup undone \subseteq Transaction
    /\ overlapped \in BOOLEAN
    /\ spent \in 0..Budget

Typed == ZonesTyped /\ SnapsTyped /\ RestTyped

LEMMA TypedInit == Init => Typed
<1> SUFFICES ASSUME Init PROVE Typed
  OBVIOUS
<1>1. <<>> \in Seq(Piece) /\ DOMAIN <<>> = {}
  OBVIOUS
<1>2. ZonesTyped
  BY <1>1, NewZoneTyped DEF Init, ZonesTyped
<1>3. SnapsTyped
  BY <1>1 DEF Init, SnapsTyped
<1>4. RestTyped
  <2>1. spent = 0 /\ 0 \in 0..Budget
    BY BudgetAssumption DEF Init
  <2> QED  BY <2>1 DEF Init, RestTyped
<1> QED  BY <1>2, <1>3, <1>4 DEF Typed

LEMMA ElsewhereZones ==
  ASSUME ZonesTyped, UNCHANGED <<zone, log, writing>>, life' # "up" => life # "up",
         halted' \subseteq halted
  PROVE  ZonesTyped'
<1>1. \A z \in Zone : Writes(z) => Writes(z)'
  BY DEF Writes
<1> QED  BY <1>1 DEF ZonesTyped

LEMMA ElsewhereSnaps ==
  ASSUME SnapsTyped, UNCHANGED snapVars
  PROVE  SnapsTyped'
<1>1. SavesPart => SavesPart'
  BY DEF SavesPart, snapVars
<1> QED  BY <1>1 DEF SnapsTyped, snapVars

LEMMA SpendMore ==
  ASSUME Spend, spent \in 0..Budget PROVE spent' \in 0..Budget /\ spent' = spent + 1
BY BudgetAssumption DEF Spend

(* An event that a Zone takes, and what it writes of it. *)
LEMMA EventTyped ==
  ASSUME NEW z \in Zone, NEW n \in Number, NEW i \in Item,
         NEW kind \in {"add", "remove", "default", "dodge"}, kind = "default" => i \in Location
  PROVE  /\ Event(z, n, kind, i) \in EventType
         /\ Event(z, n, kind, i).zone = z /\ Event(z, n, kind, i).num = n
         /\ Event(z, n, kind, i).kind = kind /\ Event(z, n, kind, i).item = i
BY DEF Event, EventType

LEMMA WrittenTyped ==
  ASSUME NEW e \in EventType
  PROVE  /\ Written(e) \in Seq(Piece) /\ <<Body(e)>> \in Seq(Piece)
         /\ Len(Written(e)) = 2 /\ Written(e)[2] = Body(e) /\ Head(Written(e)) = Header(e)
         /\ Tail(Written(e)) = <<Body(e)>> /\ Written(e) # <<>>
         /\ Len(<<Body(e)>>) = 1 /\ <<Body(e)>>[1] = Body(e) /\ Head(<<Body(e)>>) = Body(e)
         /\ Tail(<<Body(e)>>) = <<>> /\ <<Body(e)>> # <<>>
<1>1. Header(e) \in Piece /\ Body(e) \in Piece
  BY EventFacts
<1> DEFINE x == Header(e)
           y == Body(e)
<1>2. Written(e) = <<x, y>>
  BY DEF Written
<1> HIDE DEF x, y
<1>3. x \in Piece /\ y \in Piece
  BY <1>1 DEF x, y
<1>4. /\ <<x, y>> \in Seq(Piece) /\ <<y>> \in Seq(Piece)
      /\ Len(<<x, y>>) = 2 /\ <<x, y>>[2] = y /\ Head(<<x, y>>) = x /\ <<x, y>> # <<>>
      /\ Len(<<y>>) = 1 /\ <<y>>[1] = y /\ Head(<<y>>) = y /\ <<y>> # <<>>
  BY <1>3
<1>5. Tail(<<x, y>>) = <<y>> /\ Tail(<<y>>) = <<>>
  BY <1>3
<1> QED  BY <1>2, <1>4, <1>5 DEF x, y

(* What a command makes of a Zone and is going to write. *)
LEMMA CommandFacts ==
  ASSUME Typed, NEW z \in Zone, NEW kind \in {"add", "remove", "default", "dodge"}, NEW i \in Item,
         Command(z, kind, i)
  PROVE  LET e == Event(z, zone[z].next, kind, i)
         IN  /\ e \in EventType /\ e.zone = z /\ e.kind = kind /\ e.item = i
             /\ e.num = zone[z].next /\ zone[z].next \in Number
             /\ life = "up" /\ z \notin halted /\ writing[z] = <<>> /\ Allowed(zone[z], kind, i)
             /\ \A y \in Zone \ {z} : zone'[y] = zone[y] /\ writing'[y] = writing[y]
             /\ zone'[z] = Applied(zone[z], e)
             /\ writing'[z] = IF kind # "dodge" THEN Written(e) ELSE <<>>
             /\ DOMAIN zone' = Zone /\ DOMAIN writing' = Zone
             /\ zone' = [zone EXCEPT ![z] = Applied(zone[z], e)]
             /\ writing' = [writing EXCEPT ![z] = IF kind # "dodge" THEN Written(e) ELSE <<>>]
             /\ UNCHANGED <<misled, snapVars, intentVars, log, overlapped, life, world>>
<1> DEFINE e == Event(z, zone[z].next, kind, i)
<1>1. zone[z] \in FiniteContent /\ DOMAIN zone = Zone /\ DOMAIN writing = Zone
  BY DEF Typed, ZonesTyped
<1>2. zone[z].next \in Number
  BY <1>1 DEF FiniteContent, Content
<1>3. kind = "default" => i \in Location
  BY DEF Command, Allowed
<1>4. e \in EventType /\ e.zone = z /\ e.kind = kind /\ e.item = i /\ e.num = zone[z].next
  BY <1>2, <1>3, EventTyped
<1>5. /\ zone' = [zone EXCEPT ![z] = Applied(zone[z], e)]
      /\ writing' = [writing EXCEPT ![z] = IF ShouldPersist(e) THEN Written(e) ELSE <<>>]
  BY DEF Command
<1>6. /\ life = "up" /\ z \notin halted /\ writing[z] = <<>> /\ Allowed(zone[z], kind, i)
      /\ UNCHANGED <<misled, snapVars, intentVars, log, overlapped, life, world>>
  BY DEF Command
<1> HIDE DEF e
<1>7. writing' = [writing EXCEPT ![z] = IF kind # "dodge" THEN Written(e) ELSE <<>>]
  BY <1>4, <1>5 DEF ShouldPersist
<1>8. /\ \A y \in Zone \ {z} : zone'[y] = zone[y] /\ writing'[y] = writing[y]
      /\ zone'[z] = Applied(zone[z], e)
      /\ writing'[z] = IF kind # "dodge" THEN Written(e) ELSE <<>>
      /\ DOMAIN zone' = Zone /\ DOMAIN writing' = Zone
  BY <1>1, <1>5, <1>7
<1> QED  BY <1>2, <1>4, <1>5, <1>6, <1>7, <1>8 DEF e

LEMMA CommandTyped ==
  ASSUME Typed, NEW z \in Zone, NEW kind \in {"add", "remove", "default", "dodge"}, NEW i \in Item,
         Command(z, kind, i)
  PROVE  Typed'
<1> DEFINE e == Event(z, zone[z].next, kind, i)
<1>1. /\ e \in EventType /\ e.zone = z
      /\ life = "up" /\ z \notin halted
      /\ \A y \in Zone \ {z} : zone'[y] = zone[y] /\ writing'[y] = writing[y]
      /\ writing'[z] = IF kind # "dodge" THEN Written(e) ELSE <<>>
      /\ zone' = [zone EXCEPT ![z] = Applied(zone[z], e)]
      /\ writing' = [writing EXCEPT ![z] = IF kind # "dodge" THEN Written(e) ELSE <<>>]
      /\ UNCHANGED <<misled, snapVars, intentVars, log, overlapped, life, world>>
  BY CommandFacts
<1> HIDE DEF e
<1>2. /\ zone \in [Zone -> FiniteContent] /\ log \in Seq(Piece) /\ writing \in [Zone -> Seq(Piece)]
      /\ \A y \in Zone : writing[y] # <<>> => Writes(y)
      /\ \A y \in halted : writing[y] = <<>>
      /\ halted \subseteq Zone /\ spent \in 0..Budget
  BY DEF Typed, ZonesTyped, RestTyped
<1>3. Applied(zone[z], e) \in FiniteContent
  BY <1>1, <1>2, AppliedTyped
<1>4. zone' \in [Zone -> FiniteContent]
  BY <1>1, <1>2, <1>3
<1>5. writing' \in [Zone -> Seq(Piece)]
  <2>1. Written(e) \in Seq(Piece) /\ <<>> \in Seq(Piece)
    BY <1>1, WrittenTyped
  <2> DEFINE w == IF kind # "dodge" THEN Written(e) ELSE <<>>
  <2>2. w \in Seq(Piece) /\ writing' = [writing EXCEPT ![z] = w]
    BY <1>1, <2>1
  <2> HIDE DEF w
  <2> QED  BY <1>2, <2>2
<1>6. ASSUME NEW y \in Zone, writing'[y] # <<>> PROVE Writes(y)'
  <2>1. CASE y = z
    BY <1>1, <1>6, <2>1 DEF Writes
  <2>2. CASE y # z
    BY <1>1, <1>2, <1>6, <2>2 DEF Writes
  <2> QED  BY <2>1, <2>2
<1>7. \A y \in halted' : writing'[y] = <<>>
  <2>1. halted' = halted
    BY <1>1 DEF snapVars
  <2> QED  BY <1>1, <1>2, <2>1
<1>8. ZonesTyped'
  BY <1>1, <1>2, <1>4, <1>5, <1>6, <1>7 DEF ZonesTyped
<1>9. SnapsTyped'
  BY <1>1, ElsewhereSnaps DEF Typed
<1>10. RestTyped'
  <2>1. spent' \in 0..Budget
    BY <1>2, SpendMore DEF Command
  <2> QED  BY <1>1, <2>1 DEF Typed, RestTyped, snapVars, intentVars
<1> QED  BY <1>8, <1>9, <1>10 DEF Typed

LEMMA PersistFacts ==
  ASSUME Typed, NEW z \in Zone, Persist(z)
  PROVE  \E e \in EventType :
            /\ e.zone = z /\ writing[z] \in {Written(e), <<Body(e)>>}
            /\ writing[z] = Written(e) => /\ log' = Append(log, Header(e))
                                          /\ writing'[z] = <<Body(e)>>
            /\ writing[z] = <<Body(e)>> => /\ log' = Append(log, Body(e))
                                           /\ writing'[z] = <<>>
            /\ \A y \in Zone \ {z} : writing'[y] = writing[y]
            /\ DOMAIN writing' = Zone /\ log' \in Seq(Piece)
            /\ life = "up" /\ z \notin halted /\ writing[z] # <<>>
            /\ overlapped' = (overlapped \/ \E other \in Zone \ {z} : Len(writing[other]) = 1)
            /\ UNCHANGED <<misled, snapVars, intentVars, zone, life, world, spent>>
<1>1. /\ writing \in [Zone -> Seq(Piece)] /\ log \in Seq(Piece)
      /\ writing[z] # <<>> => Writes(z)
      /\ life # "up" => writing[z] = <<>>
      /\ \A y \in halted : writing[y] = <<>>
  BY DEF Typed, ZonesTyped
<1>2. /\ writing[z] # <<>>
      /\ log' = Append(log, Head(writing[z]))
      /\ writing' = [writing EXCEPT ![z] = Tail(writing[z])]
      /\ overlapped' = (overlapped \/ \E other \in Zone \ {z} : Len(writing[other]) = 1)
      /\ UNCHANGED <<misled, snapVars, intentVars, zone, life, world, spent>>
  BY DEF Persist
<1>3. PICK e \in EventType : e.zone = z /\ writing[z] \in {Written(e), <<Body(e)>>}
  BY <1>1, <1>2 DEF Writes
<1>4. /\ Head(Written(e)) = Header(e) /\ Tail(Written(e)) = <<Body(e)>>
      /\ Head(<<Body(e)>>) = Body(e) /\ Tail(<<Body(e)>>) = <<>>
      /\ Header(e) \in Piece /\ Body(e) \in Piece
  BY WrittenTyped, EventFacts
<1>5. /\ \A y \in Zone \ {z} : writing'[y] = writing[y]
      /\ DOMAIN writing' = Zone /\ writing'[z] = Tail(writing[z])
  BY <1>1, <1>2
<1>6. life = "up" /\ z \notin halted
  BY <1>1, <1>2
<1>7. writing[z] = Written(e) => log' = Append(log, Header(e)) /\ writing'[z] = <<Body(e)>>
  BY <1>2, <1>4, <1>5, Zenon
<1>8. writing[z] = <<Body(e)>> => log' = Append(log, Body(e)) /\ writing'[z] = <<>>
  BY <1>2, <1>4, <1>5, Zenon
<1>9. log' \in Seq(Piece)
  <2>1. Append(log, Header(e)) \in Seq(Piece) /\ Append(log, Body(e)) \in Seq(Piece)
    BY <1>1, <1>4, AppendProperties
  <2> QED  BY <1>3, <1>7, <1>8, <2>1, Zenon
<1> QED  BY <1>2, <1>3, <1>5, <1>6, <1>7, <1>8, <1>9

LEMMA PersistTyped ==
  ASSUME Typed, NEW z \in Zone, Persist(z)
  PROVE  Typed'
<1>1. PICK e \in EventType :
            /\ e.zone = z /\ writing[z] \in {Written(e), <<Body(e)>>}
            /\ writing[z] = Written(e) => writing'[z] = <<Body(e)>>
            /\ writing[z] = <<Body(e)>> => writing'[z] = <<>>
            /\ \A y \in Zone \ {z} : writing'[y] = writing[y]
            /\ DOMAIN writing' = Zone /\ log' \in Seq(Piece)
            /\ life = "up" /\ z \notin halted /\ writing[z] # <<>>
            /\ overlapped' = (overlapped \/ \E other \in Zone \ {z} : Len(writing[other]) = 1)
            /\ UNCHANGED <<misled, snapVars, intentVars, zone, life, world, spent>>
  BY PersistFacts, Zenon
<1>2. /\ zone \in [Zone -> FiniteContent] /\ writing \in [Zone -> Seq(Piece)]
      /\ \A y \in Zone : writing[y] # <<>> => Writes(y)
      /\ \A y \in halted : writing[y] = <<>>
      /\ halted \subseteq Zone
  BY DEF Typed, ZonesTyped, RestTyped
<1>3. writing'[z] \in {<<>>, <<Body(e)>>}
  BY <1>1
<1>4. writing' = [y \in Zone |-> writing'[y]]
  <2>1. writing' = [writing EXCEPT ![z] = Tail(writing[z])]
    BY DEF Persist
  <2> QED  BY <1>2, <2>1
<1>5. writing' \in [Zone -> Seq(Piece)]
  <2>1. \A y \in Zone : writing'[y] \in Seq(Piece)
    <3>1. <<Body(e)>> \in Seq(Piece) /\ <<>> \in Seq(Piece)
      BY WrittenTyped
    <3>2. \A y \in Zone \ {z} : writing'[y] \in Seq(Piece)
      BY <1>1, <1>2
    <3> QED  BY <1>3, <3>1, <3>2
  <2> QED  BY <1>4, <2>1
<1>6. ASSUME NEW y \in Zone, writing'[y] # <<>> PROVE Writes(y)'
  <2>1. CASE y = z
    BY <1>1, <1>3, <1>6, <2>1 DEF Writes
  <2>2. CASE y # z
    BY <1>1, <1>2, <1>6, <2>2 DEF Writes
  <2> QED  BY <2>1, <2>2
<1>7. \A y \in halted' : writing'[y] = <<>>
  <2>1. halted' = halted
    BY <1>1 DEF snapVars
  <2> QED  BY <1>1, <1>2, <2>1
<1>8. ZonesTyped'
  BY <1>1, <1>2, <1>5, <1>6, <1>7 DEF ZonesTyped
<1>9. SnapsTyped'
  BY <1>1, ElsewhereSnaps DEF Typed
<1>10. RestTyped'
  <2>1. overlapped' \in BOOLEAN
    BY <1>1 DEF Typed, RestTyped
  <2> QED  BY <1>1, <2>1 DEF Typed, RestTyped, snapVars, intentVars
<1> QED  BY <1>8, <1>9, <1>10 DEF Typed

LEMMA StopTyped ==
  ASSUME Typed, Owing, NEW z \in Zone, Stop(z)
  PROVE  Typed'
<1>1. /\ world = "stopping" /\ writing[z] = <<>> /\ halted' = halted \cup {z}
      /\ world' \in {"reading", "stopping"}
      /\ UNCHANGED <<misled, zoneVars, intentVars, snaps, numbers, saving, whole, life, spent>>
  BY DEF Stop
<1>2. ZonesTyped'
  <2>1. \A y \in Zone : Writes(y) => Writes(y)'
    BY <1>1 DEF Writes, zoneVars
  <2>2. \A y \in halted' : writing'[y] = <<>>
    BY <1>1 DEF Typed, ZonesTyped, zoneVars
  <2> QED  BY <1>1, <2>1, <2>2 DEF Typed, ZonesTyped, zoneVars
<1>3. SavesPart => SavesPart'
  BY <1>1 DEF SavesPart
<1>4. SnapsTyped'
  BY <1>1, <1>3 DEF Typed, SnapsTyped
<1>5. RestTyped'
  BY <1>1 DEF Typed, RestTyped, zoneVars, intentVars
<1> QED  BY <1>2, <1>4, <1>5 DEF Typed

LEMMA ReadNumberTyped ==
  ASSUME Typed, Owing, NEW z \in Zone, ReadNumber(z)
  PROVE  Typed'
<1>1. /\ world = "reading" /\ z \in halted /\ halted' = halted \ {z}
      /\ numbers' = [y \in DOMAIN numbers \cup {z} |->
                      IF y = z THEN LastSequenceNum(zone[z]) ELSE numbers[y]]
      /\ world' \in {"reading", "saving"}
      /\ UNCHANGED <<misled, zoneVars, intentVars, snaps, saving, whole, instant, life, spent>>
  BY DEF ReadNumber
<1>2. saving = <<>>
  BY <1>1 DEF Owing
<1>3. LastSequenceNum(zone[z]) \in Number
  <2>1. zone[z] \in FiniteContent
    BY DEF Typed, ZonesTyped
  <2>2. zone[z].next \in Number
    BY <2>1 DEF FiniteContent, Content
  <2> QED  BY <2>2, LastSequenceNumFacts
<1>4. ZonesTyped'
  BY <1>1, ElsewhereZones DEF Typed, zoneVars
<1>5. SnapsTyped'
  BY <1>1, <1>2, <1>3 DEF Typed, SnapsTyped
<1>6. RestTyped'
  BY <1>1 DEF Typed, RestTyped, zoneVars, intentVars
<1> QED  BY <1>4, <1>5, <1>6 DEF Typed

(* The state a snapshot is made of. *)
LEMMA AsOfTyped ==
  ASSUME Typed, NEW z \in DOMAIN numbers
  PROVE  /\ z \in Zone /\ numbers[z] \in Number
         /\ AsOf(z) \in Replayed /\ AsOf(z).zone \in FiniteContent
         /\ AsOf(z).ok => log # <<>>
<1>1. /\ z \in Zone /\ numbers[z] \in Number /\ log \in Seq(Piece)
      /\ DOMAIN snaps[z] \subseteq Number
      /\ \A n \in DOMAIN snaps[z] : snaps[z][n] \in Seq(Piece)
  BY DEF Typed, ZonesTyped, SnapsTyped
<1> DEFINE sn == snaps[z]
           n == numbers[z]
<1>2. /\ n \in Number /\ DOMAIN sn \subseteq Number
      /\ \A m \in DOMAIN sn : sn[m] \in Seq(Piece)
  BY <1>1
<1>3. AsOf(z) = Replay(RetrieveEvents(log, sn, z, n))
  BY DEF AsOf
<1> HIDE DEF sn, n
<1>4. /\ Replay(RetrieveEvents(log, sn, z, n)) \in Replayed
      /\ Replay(RetrieveEvents(log, sn, z, n)).ok => log # <<>>
  BY <1>1, <1>2, RetrievedTyped
<1>5. AsOf(z) \in Replayed /\ (AsOf(z).ok => log # <<>>)
  BY <1>3, <1>4, Zenon
<1>6. AsOf(z).zone \in FiniteContent
  BY <1>5 DEF Replayed
<1> QED  BY <1>1, <1>5, <1>6

LEMMA OpenFacts ==
  ASSUME Typed, NEW z \in Zone, OpenSnapshot(z)
  PROVE  \E d \in Seq(EventType) :
            /\ d \in Snapshot(z, AsOf(z).zone, numbers[z])
            /\ FlattenSeq(WrittenAll(d)) \in Seq(Piece)
            /\ saving' = <<z, FlattenSeq(WrittenAll(d))>>
            /\ world = "saving" /\ saving = <<>> /\ z \in DOMAIN numbers /\ numbers[z] \in Number
            /\ AsOf(z).ok /\ AsOf(z) \in Replayed
            /\ DOMAIN snaps' = Zone
            /\ \A y \in Zone \ {z} : snaps'[y] = snaps[y]
            /\ DOMAIN snaps'[z] = DOMAIN snaps[z] \cup {numbers[z]}
            /\ snaps'[z][numbers[z]] = <<>>
            /\ \A m \in DOMAIN snaps[z] \ {numbers[z]} : snaps'[z][m] = snaps[z][m]
            /\ whole' = whole \ {<<z, numbers[z]>>}
            /\ UNCHANGED <<misled, zoneVars, intentVars, halted, numbers, instant, life, world, spent>>
<1>1. /\ world = "saving" /\ saving = <<>> /\ z \in DOMAIN numbers
      /\ AsOf(z).ok
      /\ whole' = whole \ {<<z, numbers[z]>>}
      /\ UNCHANGED <<misled, zoneVars, intentVars, halted, numbers, instant, life, world, spent>>
  BY DEF OpenSnapshot
<1>2. AsOf(z) \in Replayed /\ AsOf(z).zone \in FiniteContent /\ numbers[z] \in Number
  BY <1>1, AsOfTyped
<1>3. PICK d \in Snapshot(z, AsOf(z).zone, numbers[z]) :
           saving' = <<z, FlattenSeq([i \in DOMAIN d |-> Written(d[i])])>>
  BY DEF OpenSnapshot
<1> DEFINE c == AsOf(z).zone
           n == numbers[z]
<1>4. d \in Seq(EventType)
  <2>1. d \in Snapshot(z, c, n) /\ c \in FiniteContent /\ n \in Number
    BY <1>2
  <2> HIDE DEF c, n
  <2> QED  BY <2>1, SnapshotRebuilds
<1>5. FlattenSeq(WrittenAll(d)) \in Seq(Piece)
  BY <1>4, WrittenFile
<1>6. saving' = <<z, FlattenSeq(WrittenAll(d))>>
  BY <1>3 DEF WrittenAll
<1>7. /\ DOMAIN snaps = Zone
      /\ snaps' = [snaps EXCEPT ![z] = [m \in DOMAIN snaps[z] \cup {n} |->
                                         IF m = n THEN <<>> ELSE snaps[z][m]]]
  BY DEF OpenSnapshot, Typed, SnapsTyped
<1>8. /\ DOMAIN snaps' = Zone
      /\ \A y \in Zone \ {z} : snaps'[y] = snaps[y]
      /\ snaps'[z] = [m \in DOMAIN snaps[z] \cup {n} |-> IF m = n THEN <<>> ELSE snaps[z][m]]
  <2> HIDE DEF n
  <2> QED  BY <1>7
<1>9. /\ DOMAIN snaps'[z] = DOMAIN snaps[z] \cup {n}
      /\ snaps'[z][n] = <<>>
      /\ \A m \in DOMAIN snaps[z] \ {n} : snaps'[z][m] = snaps[z][m]
  <2> HIDE DEF n
  <2> QED  BY <1>8
<1> QED  BY <1>1, <1>2, <1>3, <1>4, <1>5, <1>6, <1>8, <1>9

LEMMA OpenTyped ==
  ASSUME Typed, NEW z \in Zone, OpenSnapshot(z)
  PROVE  Typed'
<1>1. PICK d \in Seq(EventType) :
            /\ FlattenSeq(WrittenAll(d)) \in Seq(Piece)
            /\ saving' = <<z, FlattenSeq(WrittenAll(d))>>
            /\ z \in DOMAIN numbers /\ numbers[z] \in Number
            /\ DOMAIN snaps' = Zone
            /\ \A y \in Zone \ {z} : snaps'[y] = snaps[y]
            /\ DOMAIN snaps'[z] = DOMAIN snaps[z] \cup {numbers[z]}
            /\ snaps'[z][numbers[z]] = <<>>
            /\ \A m \in DOMAIN snaps[z] \ {numbers[z]} : snaps'[z][m] = snaps[z][m]
            /\ whole' = whole \ {<<z, numbers[z]>>}
            /\ UNCHANGED <<misled, zoneVars, intentVars, halted, numbers, instant, life, world, spent>>
  BY OpenFacts, Zenon
<1>2. ZonesTyped'
  BY <1>1, ElsewhereZones DEF Typed, zoneVars
<1>3. RestTyped'
  BY <1>1 DEF Typed, RestTyped, zoneVars, intentVars
<1>4. /\ DOMAIN numbers \subseteq Zone /\ \A y \in DOMAIN numbers : numbers[y] \in Number
      /\ whole \subseteq Zone \X Number
      /\ \A y \in Zone : /\ DOMAIN snaps[y] \subseteq Number
                         /\ \A m \in DOMAIN snaps[y] : snaps[y][m] \in Seq(Piece)
  BY DEF Typed, SnapsTyped
<1>5. ASSUME NEW y \in Zone
      PROVE  /\ DOMAIN snaps'[y] \subseteq Number
             /\ \A m \in DOMAIN snaps'[y] : snaps'[y][m] \in Seq(Piece)
  <2>1. CASE y # z
    BY <1>1, <1>4, <2>1
  <2>2. CASE y = z
    <3>1. <<>> \in Seq(Piece)
      OBVIOUS
    <3> QED  BY <1>1, <1>4, <2>2, <3>1
  <2> QED  BY <2>1, <2>2
<1>6. SavesPart'
  <2>1. numbers' = numbers
    BY <1>1
  <2>2. numbers'[z] \in DOMAIN snaps'[z]
    BY <1>1, <2>1
  <2> QED  BY <1>1, <2>1, <2>2 DEF SavesPart
<1>7. SnapsTyped'
  <2>1. whole' \subseteq Zone \X Number /\ numbers' = numbers
    BY <1>1, <1>4
  <2> QED  BY <1>1, <1>4, <1>5, <1>6, <2>1 DEF SnapsTyped
<1> QED  BY <1>2, <1>3, <1>7 DEF Typed

(* A part of a snapshot, or its end. *)
LEMMA SaveFacts ==
  ASSUME Typed, SaveSnapshot
  PROVE  \E z \in DOMAIN numbers, rest \in Seq(Piece) :
            /\ z \in Zone /\ numbers[z] \in Number /\ numbers[z] \in DOMAIN snaps[z]
            /\ saving # <<>> /\ saving = <<z, rest>>
            /\ snaps[z][numbers[z]] \in Seq(Piece)
            /\ DOMAIN snaps' = Zone
            /\ \A y \in Zone \ {z} : snaps'[y] = snaps[y]
            /\ DOMAIN snaps'[z] = DOMAIN snaps[z]
            /\ \A m \in DOMAIN snaps[z] \ {numbers[z]} : snaps'[z][m] = snaps[z][m]
            /\ \/ /\ rest # <<>>
                  /\ snaps'[z][numbers[z]] = Append(snaps[z][numbers[z]], Head(rest))
                  /\ saving' = <<z, Tail(rest)>>
                  /\ UNCHANGED <<numbers, whole, world>>
               \/ /\ rest = <<>>
                  /\ saving' = <<>>
                  /\ whole' = whole \cup {<<z, numbers[z]>>}
                  /\ DOMAIN numbers' = DOMAIN numbers \ {z}
                  /\ \A y \in DOMAIN numbers \ {z} : numbers'[y] = numbers[y]
                  /\ world' \in {world, "idle"}
                  /\ UNCHANGED snaps
            /\ UNCHANGED <<misled, zoneVars, intentVars, halted, instant, life, spent>>
<1>1. PICK z \in DOMAIN numbers, rest \in Seq(Piece) :
           saving = <<z, rest>> /\ numbers[z] \in DOMAIN snaps[z]
  BY DEF SaveSnapshot, Typed, SnapsTyped, SavesPart
<1>2. /\ z \in Zone /\ numbers[z] \in Number /\ DOMAIN snaps = Zone
      /\ snaps[z][numbers[z]] \in Seq(Piece)
  BY <1>1 DEF Typed, SnapsTyped
<1>3. saving # <<>> /\ saving[1] = z /\ saving[2] = rest
  BY <1>1 DEF SaveSnapshot
<1>4. UNCHANGED <<misled, zoneVars, intentVars, halted, instant, life, spent>>
  BY DEF SaveSnapshot
<1>5. CASE rest # <<>>
  <2>1. /\ snaps' = [snaps EXCEPT ![z][numbers[z]] = Append(@, Head(rest))]
        /\ saving' = <<z, Tail(rest)>>
        /\ UNCHANGED <<numbers, whole, world>>
    BY <1>3, <1>5 DEF SaveSnapshot
  <2> DEFINE n == numbers[z]
             more == Append(snaps[z][n], Head(rest))
  <2>2. snaps' = [snaps EXCEPT ![z] = [snaps[z] EXCEPT ![n] = more]]
    BY <2>1
  <2> HIDE DEF n, more
  <2>3. /\ DOMAIN snaps' = Zone
        /\ \A y \in Zone \ {z} : snaps'[y] = snaps[y]
        /\ snaps'[z] = [snaps[z] EXCEPT ![n] = more]
    BY <1>2, <2>2
  <2>4. /\ DOMAIN snaps'[z] = DOMAIN snaps[z]
        /\ \A m \in DOMAIN snaps[z] \ {n} : snaps'[z][m] = snaps[z][m]
        /\ n \in DOMAIN snaps[z] => snaps'[z][n] = more
    BY <2>3
  <2> QED  BY <1>1, <1>2, <1>3, <1>4, <1>5, <2>1, <2>3, <2>4 DEF n, more
<1>6. CASE rest = <<>>
  <2>1. /\ saving' = <<>>
        /\ whole' = whole \cup {<<z, numbers[z]>>}
        /\ numbers' = [y \in DOMAIN numbers \ {z} |-> numbers[y]]
        /\ world' \in {world, "idle"}
        /\ UNCHANGED snaps
    BY <1>3, <1>6 DEF SaveSnapshot
  <2>2. /\ DOMAIN numbers' = DOMAIN numbers \ {z}
        /\ \A y \in DOMAIN numbers \ {z} : numbers'[y] = numbers[y]
    BY <2>1
  <2> QED  BY <1>1, <1>2, <1>3, <1>4, <1>6, <2>1, <2>2
<1> QED  BY <1>5, <1>6

LEMMA SaveTyped ==
  ASSUME Typed, SaveSnapshot PROVE Typed'
<1>1. PICK z \in DOMAIN numbers, rest \in Seq(Piece) :
            /\ z \in Zone /\ numbers[z] \in Number /\ numbers[z] \in DOMAIN snaps[z]
            /\ saving # <<>> /\ saving = <<z, rest>>
            /\ snaps[z][numbers[z]] \in Seq(Piece)
            /\ DOMAIN snaps' = Zone
            /\ \A y \in Zone \ {z} : snaps'[y] = snaps[y]
            /\ DOMAIN snaps'[z] = DOMAIN snaps[z]
            /\ \A m \in DOMAIN snaps[z] \ {numbers[z]} : snaps'[z][m] = snaps[z][m]
            /\ \/ /\ rest # <<>>
                  /\ snaps'[z][numbers[z]] = Append(snaps[z][numbers[z]], Head(rest))
                  /\ saving' = <<z, Tail(rest)>>
                  /\ UNCHANGED <<numbers, whole, world>>
               \/ /\ rest = <<>>
                  /\ saving' = <<>>
                  /\ whole' = whole \cup {<<z, numbers[z]>>}
                  /\ DOMAIN numbers' = DOMAIN numbers \ {z}
                  /\ \A y \in DOMAIN numbers \ {z} : numbers'[y] = numbers[y]
                  /\ world' \in {world, "idle"}
                  /\ UNCHANGED snaps
            /\ UNCHANGED <<misled, zoneVars, intentVars, halted, instant, life, spent>>
  BY SaveFacts, Zenon
<1>2. ZonesTyped'
  BY <1>1, ElsewhereZones DEF Typed, zoneVars
<1>3. RestTyped'
  <2>1. world' \in {world, "idle"}
    BY <1>1
  <2> QED  BY <1>1, <2>1 DEF Typed, RestTyped, zoneVars, intentVars
<1>4. /\ DOMAIN numbers \subseteq Zone /\ \A y \in DOMAIN numbers : numbers[y] \in Number
      /\ whole \subseteq Zone \X Number
      /\ \A y \in Zone : /\ DOMAIN snaps[y] \subseteq Number
                         /\ \A m \in DOMAIN snaps[y] : snaps[y][m] \in Seq(Piece)
  BY DEF Typed, SnapsTyped
<1>5. CASE rest = <<>>
  <2>1. /\ saving' = <<>> /\ whole' = whole \cup {<<z, numbers[z]>>}
        /\ DOMAIN numbers' = DOMAIN numbers \ {z}
        /\ \A y \in DOMAIN numbers \ {z} : numbers'[y] = numbers[y]
        /\ snaps' = snaps
    BY <1>1, <1>5
  <2>2. SnapsTyped'
    BY <1>1, <1>4, <2>1 DEF SnapsTyped
  <2> QED  BY <1>2, <1>3, <2>2 DEF Typed
<1>6. CASE rest # <<>>
  <2> DEFINE n == numbers[z]
             f == snaps[z][n]
  <2>1. /\ snaps'[z][n] = Append(f, Head(rest))
        /\ saving' = <<z, Tail(rest)>> /\ numbers' = numbers /\ whole' = whole
    BY <1>1, <1>6
  <2>2. f \in Seq(Piece)
    BY <1>1
  <2> HIDE DEF n, f
  <2>3. Append(f, Head(rest)) \in Seq(Piece) /\ Tail(rest) \in Seq(Piece)
    BY <1>6, <2>2, OneMoves
  <2>4. ASSUME NEW y \in Zone
        PROVE  /\ DOMAIN snaps'[y] \subseteq Number
               /\ \A m \in DOMAIN snaps'[y] : snaps'[y][m] \in Seq(Piece)
    <3>1. CASE y # z
      BY <1>1, <1>4, <3>1
    <3>2. CASE y = z
      <4>1. \A m \in DOMAIN snaps[z] \ {n} : snaps'[z][m] \in Seq(Piece)
        BY <1>1, <1>4 DEF n
      <4> QED  BY <1>1, <1>4, <2>1, <2>3, <3>2, <4>1
    <3> QED  BY <3>1, <3>2
  <2>5. SavesPart'
    <3>1. numbers'[z] \in DOMAIN snaps'[z] /\ z \in DOMAIN numbers'
      BY <1>1, <2>1
    <3> QED  BY <2>1, <2>3, <3>1 DEF SavesPart
  <2>6. SnapsTyped'
    <3>1. DOMAIN snaps' = Zone
      BY <1>1
    <3> QED  BY <1>4, <2>1, <2>4, <2>5, <3>1 DEF SnapsTyped
  <2> QED  BY <1>2, <1>3, <2>6 DEF Typed
<1> QED  BY <1>5, <1>6

(* The end of a life, with at most one part of the event log or of a        *)
(* snapshot cut short.                                                     *)
Ends ==
    /\ Gone
    /\ spent' \in 0..Budget /\ spent <= spent'
    /\ \/ UNCHANGED <<log, snaps>>
       \/ \E z \in Zone : /\ writing[z] # <<>>
                          /\ log' = Append(log, Torn(Head(writing[z])))
                          /\ UNCHANGED snaps
       \/ \E z \in DOMAIN numbers :
             /\ saving # <<>> /\ saving[1] = z
             /\ log' = log /\ DOMAIN snaps' = Zone
             /\ \A y \in Zone \ {z} : snaps'[y] = snaps[y]
             /\ DOMAIN snaps'[z] = DOMAIN snaps[z]
             /\ \A m \in DOMAIN snaps[z] \ {numbers[z]} : snaps'[z][m] = snaps[z][m]
             /\ numbers[z] \in DOMAIN snaps[z] /\ snaps'[z][numbers[z]] \in Seq(Piece)

LEMMA EndsSomehow ==
  ASSUME Typed, Crash \/ HandlerFails \/ \E z \in Zone : SnapshotKills(z)
  PROVE  Ends
<1>1. spent \in 0..Budget
  BY DEF Typed, RestTyped
<1>2. CASE HandlerFails \/ \E z \in Zone : SnapshotKills(z)
  <2>1. Gone /\ UNCHANGED <<log, snaps, spent>>
    BY <1>2 DEF HandlerFails, SnapshotKills
  <2>2. spent' \in 0..Budget /\ spent <= spent'
    BY <1>1, <2>1
  <2> QED  BY <2>1, <2>2 DEF Ends
<1>3. CASE Crash
  <2>1. Gone
    BY <1>3 DEF Crash
  <2>2. spent' \in 0..Budget /\ spent <= spent'
    BY <1>1, <1>3, SpendMore DEF Crash
  <2>3. CASE UNCHANGED <<log, snaps>>
    BY <2>1, <2>2, <2>3 DEF Ends
  <2>4. CASE \E z \in Zone : /\ writing[z] # <<>>
                             /\ log' = Append(log, Torn(Head(writing[z])))
                             /\ UNCHANGED snaps
    BY <2>1, <2>2, <2>4 DEF Ends
  <2>5. CASE /\ saving # <<>> /\ saving[2] # <<>>
             /\ snaps' = [snaps EXCEPT ![saving[1]][numbers[saving[1]]] =
                            Append(@, Torn(Head(saving[2])))]
             /\ UNCHANGED <<log, intents>>
    <3>1. PICK z \in DOMAIN numbers, rest \in Seq(Piece) :
              saving = <<z, rest>> /\ numbers[z] \in DOMAIN snaps[z]
      BY <2>5 DEF Typed, SnapsTyped, SavesPart
    <3>2. saving[1] = z /\ saving[2] = rest /\ rest # <<>>
      BY <2>5, <3>1
    <3> DEFINE n == numbers[z]
               f == snaps[z][n]
               more == Append(f, Torn(Head(rest)))
    <3>3. snaps' = [snaps EXCEPT ![z] = [snaps[z] EXCEPT ![n] = more]]
      BY <2>5, <3>2
    <3>4. z \in Zone /\ DOMAIN snaps = Zone /\ f \in Seq(Piece) /\ n \in DOMAIN snaps[z]
      BY <3>1 DEF Typed, SnapsTyped
    <3>5. Head(rest) \in Piece
      BY <3>2, HeadTailProperties
    <3>6. more \in Seq(Piece)
      <4>1. Torn(Head(rest)) \in Piece
        BY <3>5, PieceFacts
      <4> HIDE DEF f
      <4> QED  BY <3>4, <4>1, AppendProperties
    <3> HIDE DEF n, f, more
    <3>7. /\ DOMAIN snaps' = Zone
          /\ \A y \in Zone \ {z} : snaps'[y] = snaps[y]
          /\ snaps'[z] = [snaps[z] EXCEPT ![n] = more]
      BY <3>3, <3>4
    <3>8. /\ DOMAIN snaps'[z] = DOMAIN snaps[z]
          /\ \A m \in DOMAIN snaps[z] \ {n} : snaps'[z][m] = snaps[z][m]
          /\ snaps'[z][n] = more
      BY <3>4, <3>7
    <3>9. log' = log
      BY <2>5
    <3> QED  BY <2>1, <2>2, <2>5, <3>2, <3>4, <3>6, <3>7, <3>8, <3>9 DEF Ends, n
  <2> QED  BY <1>3, <2>3, <2>4, <2>5 DEF Crash
<1> QED  BY <1>2, <1>3

LEMMA EndsTyped ==
  ASSUME Typed, Ends PROVE Typed'
<1>1. /\ life' = "down" /\ world' = "idle"
      /\ zone' = [z \in Zone |-> NewZone]
      /\ writing' = [z \in Zone |-> <<>>]
      /\ halted' = {} /\ numbers' = <<>> /\ saving' = <<>>
      /\ UNCHANGED <<misled, promised, undone, whole, overlapped, instant>>
      /\ spent' \in 0..Budget
  BY DEF Ends, Gone
<1>2. <<>> \in Seq(Piece) /\ DOMAIN <<>> = {}
  OBVIOUS
<1>3. log' \in Seq(Piece)
  <2>1. log \in Seq(Piece) /\ writing \in [Zone -> Seq(Piece)]
    BY DEF Typed, ZonesTyped
  <2>2. CASE log' = log
    BY <2>1, <2>2
  <2>3. CASE \E z \in Zone : writing[z] # <<>> /\ log' = Append(log, Torn(Head(writing[z])))
    <3>1. PICK z \in Zone : writing[z] # <<>> /\ log' = Append(log, Torn(Head(writing[z])))
      BY <2>3
    <3>2. Head(writing[z]) \in Piece
      BY <2>1, <3>1, HeadTailProperties
    <3>3. Torn(Head(writing[z])) \in Piece
      BY <3>2, PieceFacts
    <3> QED  BY <2>1, <3>1, <3>3, AppendProperties
  <2> QED  BY <2>2, <2>3 DEF Ends
<1>4. ZonesTyped'
  BY <1>1, <1>2, <1>3, NewZoneTyped DEF ZonesTyped
<1>5. /\ DOMAIN snaps' = Zone
      /\ \A y \in Zone : /\ DOMAIN snaps'[y] \subseteq Number
                         /\ \A m \in DOMAIN snaps'[y] : snaps'[y][m] \in Seq(Piece)
  <2>1. /\ DOMAIN snaps = Zone
        /\ \A y \in Zone : /\ DOMAIN snaps[y] \subseteq Number
                           /\ \A m \in DOMAIN snaps[y] : snaps[y][m] \in Seq(Piece)
    BY DEF Typed, SnapsTyped
  <2>2. CASE snaps' = snaps
    BY <2>1, <2>2
  <2>3. ASSUME NEW z \in DOMAIN numbers,
               DOMAIN snaps' = Zone,
               \A y \in Zone \ {z} : snaps'[y] = snaps[y],
               DOMAIN snaps'[z] = DOMAIN snaps[z],
               \A m \in DOMAIN snaps[z] \ {numbers[z]} : snaps'[z][m] = snaps[z][m],
               snaps'[z][numbers[z]] \in Seq(Piece)
        PROVE  /\ DOMAIN snaps' = Zone
               /\ \A y \in Zone : /\ DOMAIN snaps'[y] \subseteq Number
                                  /\ \A m \in DOMAIN snaps'[y] : snaps'[y][m] \in Seq(Piece)
    <3> SUFFICES ASSUME NEW y \in Zone
                 PROVE  /\ DOMAIN snaps'[y] \subseteq Number
                        /\ \A m \in DOMAIN snaps'[y] : snaps'[y][m] \in Seq(Piece)
      BY <2>3
    <3>1. CASE y # z
      BY <2>1, <2>3, <3>1
    <3>2. CASE y = z
      <4>1. \A m \in DOMAIN snaps[z] \ {numbers[z]} : snaps'[z][m] \in Seq(Piece)
        BY <2>1, <2>3, <3>2
      <4> QED  BY <2>1, <2>3, <3>2, <4>1
    <3> QED  BY <3>1, <3>2
  <2> QED  BY <2>2, <2>3 DEF Ends
<1>6. SnapsTyped'
  <2>1. whole \subseteq Zone \X Number
    BY DEF Typed, SnapsTyped
  <2> QED  BY <1>1, <1>2, <1>5, <2>1 DEF SnapsTyped
<1>7. RestTyped'
  BY <1>1 DEF Typed, RestTyped
<1> QED  BY <1>4, <1>6, <1>7 DEF Typed

LEMMA LoadTyped ==
  ASSUME Typed, NEW z \in Zone
  PROVE  /\ Load(log, snaps[z], z) \in Replayed /\ Load(log, snaps[z], z).zone \in FiniteContent
         /\ Load(log, snaps[z], z).ok => log # <<>> /\ ReadEvents(log).ok
<1>1. /\ log \in Seq(Piece) /\ MaxUint \in Number
      /\ DOMAIN snaps[z] \subseteq Number
      /\ \A n \in DOMAIN snaps[z] : snaps[z][n] \in Seq(Piece)
  BY StoreAssumption DEF Typed, ZonesTyped, SnapsTyped, Number
<1> DEFINE sn == snaps[z]
<1> HIDE DEF sn
<1>2. DOMAIN sn \subseteq Number /\ \A n \in DOMAIN sn : sn[n] \in Seq(Piece)
  BY <1>1 DEF sn
<1>3. /\ Load(log, sn, z) \in Replayed
      /\ Load(log, sn, z).ok => log # <<>>
      /\ Load(log, sn, z).ok => ReadEvents(log).ok
  BY <1>1, <1>2, RetrievedTyped DEF Load
<1>4. Load(log, sn, z).zone \in FiniteContent
  BY <1>3 DEF Replayed
<1> QED  BY <1>3, <1>4 DEF sn

LEMMA StartTyped ==
  ASSUME Typed, Start PROVE Typed'
<1>1. /\ life = "down" /\ life' = "starting"
      /\ zone' = [z \in Zone |-> Load(log, snaps[z], z).zone]
      /\ misled' = misled \cup {z \in Zone : ~Sound(z)}
      /\ UNCHANGED <<snapVars, writing, log, overlapped, owed, promised, undone, world, spent>>
  BY DEF Start
<1>2. zone' \in [Zone -> FiniteContent]
  BY <1>1, LoadTyped
<1>3. \A z \in Zone : Writes(z) => Writes(z)'
  BY <1>1 DEF Writes
<1>4. ZonesTyped'
  BY <1>1, <1>2, <1>3 DEF Typed, ZonesTyped, snapVars
<1>5. SnapsTyped'
  BY <1>1, ElsewhereSnaps DEF Typed
<1>6. misled' \subseteq Zone
  BY <1>1 DEF Typed, RestTyped
<1>7. RestTyped'
  BY <1>1, <1>6 DEF Typed, RestTyped, snapVars
<1> QED  BY <1>4, <1>5, <1>7 DEF Typed

LEMMA FailsTyped ==
  ASSUME Typed, NEW z \in Zone, SnapshotFails(z) PROVE Typed'
<1>1. /\ world' = "idle" /\ numbers' = <<>> /\ saving = <<>>
      /\ UNCHANGED <<misled, zoneVars, intentVars, snaps, halted, saving, whole, instant, life, spent>>
  BY DEF SnapshotFails, SnapshotEnds
<1>2. ZonesTyped'
  BY <1>1, ElsewhereZones DEF Typed, zoneVars
<1>3. SnapsTyped'
  <2>1. DOMAIN <<>> = {}
    OBVIOUS
  <2> QED  BY <1>1, <2>1 DEF Typed, SnapsTyped
<1>4. RestTyped'
  BY <1>1 DEF Typed, RestTyped, zoneVars, intentVars
<1> QED  BY <1>2, <1>3, <1>4 DEF Typed

(* Where neither Zones nor snapshots are touched. *)
Aside == /\ UNCHANGED <<misled, zoneVars, snapVars>>
         /\ life' = life \/ (life = "starting" /\ life' = "up")
         /\ spent' \in 0..Budget /\ spent <= spent'

LEMMA AsideTyped ==
  ASSUME Typed, Aside, promised' \cup undone' \subseteq Transaction,
         world' \in {"idle", "stopping", "reading", "saving"} \cup Transaction
  PROVE  Typed'
<1>1. ZonesTyped'
  BY ElsewhereZones DEF Typed, Aside, zoneVars, snapVars
<1>2. SnapsTyped'
  BY ElsewhereSnaps DEF Typed, Aside
<1>3. life' \in {"up", "down", "starting"}
  BY DEF Typed, RestTyped, Aside
<1>4. RestTyped'
  BY <1>3 DEF Typed, RestTyped, Aside, zoneVars, snapVars
<1> QED  BY <1>1, <1>2, <1>4 DEF Typed

AsideStep ==
    \/ AskSnapshot \/ WriteEntry \/ Handle \/ Serve \/ UNCHANGED vars
    \/ \E t \in Transaction : \/ \E holds \in {<<"undo">>, <<"redo", "undo">>} : BeginTransaction(t, holds)
                              \/ EndTransaction(t)

LEMMA AsideSteps ==
  ASSUME Typed, Owing, Lists, AsideStep
  PROVE  /\ Aside /\ promised' \cup undone' \subseteq Transaction
         /\ world' \in {"idle", "stopping", "reading", "saving"} \cup Transaction
<1>1. /\ promised \cup undone \subseteq Transaction
      /\ world \in {"idle", "stopping", "reading", "saving"} \cup Transaction
      /\ spent \in 0..Budget /\ owed \in Seq(Part) /\ spent <= spent
  BY DEF Typed, RestTyped, Owing
<1>2. Spend => spent' \in 0..Budget /\ spent <= spent'
  BY <1>1, SpendMore
<1>3. CASE AskSnapshot
  BY <1>1, <1>2, <1>3 DEF AskSnapshot, Aside, intentVars
<1>4. CASE WriteEntry
  <2>1. Head(owed).id \in Transaction
    <3>1. owed # <<>>
      BY <1>4 DEF WriteEntry
    <3>2. Head(owed) \in Part
      BY <1>1, <3>1, HeadTailProperties
    <3> QED  BY <3>2, PartFacts
  <2>2. /\ promised' \in {promised, promised \cup {Head(owed).id}}
        /\ world' \in {world, "idle"}
        /\ UNCHANGED <<misled, zoneVars, snapVars, undone, life, spent>>
    BY <1>4 DEF WriteEntry
  <2> QED  BY <1>1, <2>1, <2>2 DEF Aside
<1>5. CASE Handle
  <2>1. /\ life = "starting" /\ recovering # <<>>
        /\ undone' = undone \cup {Head(recovering).id}
        /\ UNCHANGED <<misled, zoneVars, snapVars, promised, life, world, spent>>
    BY <1>5 DEF Handle
  <2>2. Head(recovering) \in HeaderType
    BY <2>1, HeadTailProperties DEF Lists
  <2>3. Head(recovering).id \in Transaction
    BY <2>2 DEF HeaderType
  <2> QED  BY <1>1, <2>1, <2>3 DEF Aside
<1>6. CASE Serve
  BY <1>1, <1>6 DEF Serve, Aside, intentVars
<1>7. CASE UNCHANGED vars
  BY <1>1, <1>7 DEF vars, Aside, intentVars
<1>8. ASSUME NEW t \in Transaction, NEW holds, BeginTransaction(t, holds)
      PROVE  /\ Aside /\ promised' \cup undone' \subseteq Transaction
             /\ world' \in {"idle", "stopping", "reading", "saving"} \cup Transaction
  BY <1>1, <1>2, <1>8 DEF BeginTransaction, Aside
<1>9. ASSUME NEW t \in Transaction, EndTransaction(t)
      PROVE  /\ Aside /\ promised' \cup undone' \subseteq Transaction
             /\ world' \in {"idle", "stopping", "reading", "saving"} \cup Transaction
  BY <1>1, <1>9 DEF EndTransaction, Aside
<1> QED  BY <1>3, <1>4, <1>5, <1>6, <1>7, <1>8, <1>9 DEF AsideStep

(* Next, by what a step is about. *)
LEMMA NextIs ==
  ASSUME Typed, Owing, [Next]_vars
  PROVE  \/ \E z \in Zone, kind \in {"add", "remove", "default", "dodge"}, i \in Item : Command(z, kind, i)
         \/ \E z \in Zone : \/ Persist(z) \/ Stop(z) \/ ReadNumber(z)
                            \/ OpenSnapshot(z) \/ SnapshotFails(z)
         \/ SaveSnapshot \/ Start \/ (life # "down" /\ Ends) \/ AsideStep
<1>1. Crash \/ HandlerFails \/ (\E z \in Zone : SnapshotKills(z)) => life # "down"
  BY DEF Crash, HandlerFails, SnapshotKills, Owing
<1> QED  BY <1>1, EndsSomehow DEF Next, AsideStep

LEMMA TypedNext == IntentInv /\ Typed /\ [Next]_vars => Typed'
<1> SUFFICES ASSUME IntentInv, Typed, [Next]_vars PROVE Typed'
  OBVIOUS
<1>1. Owing /\ Lists
  BY DEF IntentInv
<1>2. AsideStep => Typed'
  BY <1>1, AsideSteps, AsideTyped
<1> QED  BY <1>1, <1>2, NextIs, CommandTyped, PersistTyped, StopTyped, ReadNumberTyped, OpenTyped,
            FailsTyped, SaveTyped, StartTyped, EndsTyped

LEMMA TypedOK == Typed /\ SnapshotInv => TypeOK
<1> SUFFICES ASSUME Typed, SnapshotInv PROVE TypeOK
  OBVIOUS
<1>1. zone \in [Zone -> Content]
  <2>1. FiniteContent \subseteq Content /\ zone \in [Zone -> FiniteContent]
    BY DEF FiniteContent, Typed, ZonesTyped
  <2> HIDE DEF FiniteContent
  <2> QED  BY <2>1
<1>2. halted # {} => world \in {"stopping", "reading"}
  BY DEF SnapshotInv
<1> QED  BY <1>1, <1>2 DEF Typed, SnapsTyped, RestTyped, TypeOK

(* Whatever is cut short by a crash and loaded again, every variable has   *)
(* its type, and numbers of events the width of theirs.                    *)
THEOREM RestartTyped == Spec => []TypeOK
<1>1. Spec => []IntentInv
  BY IntentInit, IntentNext, PTL DEF Spec
<1>2. Spec => []SnapshotInv
  BY <1>1, SnapshotInit, SnapshotNext, PTL DEF Spec
<1>3. Spec => []Typed
  BY <1>1, TypedInit, TypedNext, PTL DEF Spec
<1> QED  BY <1>2, <1>3, TypedOK, PTL

-----------------------------------------------------------------------------
(* What a start loads is what was in memory.                               *)
(*                                                                         *)
(* h is what a Zone has done, its events in the log and the one it is      *)
(* writing; c is what it has in memory, ns the numbers of its snapshots,   *)
(* top a bound that no number reaches.                                     *)

Orderly(h, top) ==
    /\ h \in Seq(EventType) /\ Rises(h)
    /\ \A i \in 1..Len(h) : h[i].num < top
    /\ R(h).ok /\ R(h).zone.astray = {}

Forgets(h, ns) == \E n \in ns : \A i \in 1..Len(h) : h[i].kind = "default" => h[i].num <= n

Matches(h, c, ns, top) ==
    /\ c.has = R(h).zone.has /\ c.astray = {}
    /\ c.next <= top /\ \A i \in 1..Len(h) : h[i].num < c.next
    /\ \/ c.default = R(h).zone.default
       \/ c.default = {} /\ Forgets(h, ns)

LEMMA OrderlyMore ==
  ASSUME NEW h, NEW top \in Nat, NEW more \in Nat, top <= more, Orderly(h, top)
  PROVE  Orderly(h, more)
<1>1. h \in Seq(EventType) /\ \A i \in 1..Len(h) : h[i].num < top
  BY DEF Orderly
<1>2. \A i \in 1..Len(h) : h[i].num \in Nat
  BY <1>1, Numbered
<1>3. \A i \in 1..Len(h) : h[i].num < more
  BY <1>1, <1>2
<1> QED  BY <1>3 DEF Orderly

LEMMA MatchesMore ==
  ASSUME NEW h, NEW c, c.next \in Nat, NEW ns, NEW most, ns \subseteq most,
         NEW top \in Nat, NEW more \in Nat, top <= more, Matches(h, c, ns, top)
  PROVE  Matches(h, c, most, more)
<1>1. c.next <= more
  BY DEF Matches
<1>2. Forgets(h, ns) => Forgets(h, most)
  BY DEF Forgets
<1> QED  BY <1>1, <1>2 DEF Matches

(* The command handlers let through what the replay will accept. *)
Accepts(r, c, e) ==
    /\ Applicable(r, e)
    /\ Applied(r, e).has = Applied(c, e).has
    /\ Applied(r, e).astray = {} /\ Applied(c, e).astray = {}
    /\ Applied(c, e).default = IF e.kind = "default" THEN {e.item} ELSE c.default
    /\ Applied(r, e).default = IF e.kind = "default" THEN {e.item} ELSE r.default
    /\ Applied(c, e).next = Plus(e.num, 1)

LEMMA AllowedApplies ==
  ASSUME NEW h, NEW c \in FiniteContent, NEW ns, NEW top \in Nat,
         Orderly(h, top), Matches(h, c, ns, top),
         NEW e \in EventType, Allowed(c, e.kind, e.item)
  PROVE  Accepts(R(h).zone, c, e)
<1> DEFINE r == R(h).zone
<1>1. r.has = c.has /\ r.astray = {} /\ c.astray = {}
  BY DEF Matches, Orderly
<1> HIDE DEF r
<1>2. e.kind \in {"add", "remove", "default", "dodge"}
  BY EventFacts
<1>3. e.kind \in {"remove", "default"} => e.item \in c.has
  BY <1>2 DEF Allowed
<1>4. e.kind = "add" => e.item \notin c.has /\ Container[e.item] \subseteq c.has
  BY <1>2 DEF Allowed
<1>5. Applicable(r, e)
  BY <1>1, <1>3 DEF Applicable
<1>6. Applied(r, e).has = Applied(c, e).has
  <2>1. /\ Applied(r, e).has = (r.has \ (IF e.kind = "remove" THEN {e.item} ELSE {}))
                                   \cup (IF e.kind = "add" THEN {e.item} ELSE {})
        /\ Applied(c, e).has = (c.has \ (IF e.kind = "remove" THEN {e.item} ELSE {}))
                                   \cup (IF e.kind = "add" THEN {e.item} ELSE {})
    BY AppliedFields
  <2> QED  BY <1>1, <2>1
<1>7. \A i \in (IF e.kind = "add" THEN {e.item} ELSE {}) : ~(i \in c.has \/ ~(Container[i] \subseteq c.has))
  BY <1>4
<1>8. Applied(r, e).astray = {} /\ Applied(c, e).astray = {}
  <2> DEFINE strange == {i \in (IF e.kind = "add" THEN {e.item} ELSE {}) :
                            i \in c.has \/ ~(Container[i] \subseteq c.has)}
  <2>1. strange = {}
    BY <1>7
  <2>2. Applied(c, e).astray = c.astray \cup strange
    BY AppliedFields
  <2>3. Applied(r, e).astray = r.astray \cup strange
    <3>1. Applied(r, e).astray = r.astray \cup
             {i \in (IF e.kind = "add" THEN {e.item} ELSE {}) :
                  i \in r.has \/ ~(Container[i] \subseteq r.has)}
      BY AppliedFields
    <3> QED  BY <1>1, <3>1, Zenon
  <2> HIDE DEF strange
  <2> QED  BY <1>1, <2>1, <2>2, <2>3
<1>9. /\ Applied(c, e).default = IF e.kind = "default" THEN {e.item} ELSE c.default
      /\ Applied(r, e).default = IF e.kind = "default" THEN {e.item} ELSE r.default
      /\ Applied(c, e).next = Plus(e.num, 1)
  BY AppliedFields
<1>10. Accepts(r, c, e)
  BY <1>5, <1>6, <1>8, <1>9 DEF Accepts
<1> QED  BY <1>10 DEF r

LEMMA NextMoves ==
  ASSUME NEW c \in FiniteContent, NEW top \in Nat, c.next <= top, top < MaxUint
  PROVE  c.next \in Nat /\ Plus(c.next, 1) = c.next + 1 /\ c.next + 1 <= top + 1
<1>1. c.next \in Number /\ MaxUint \in Nat
  BY StoreAssumption DEF FiniteContent, Content
<1>2. c.next \in Nat /\ 1 \in Nat /\ c.next + 1 <= MaxUint
  BY <1>1 DEF Number
<1> QED  BY <1>2, PlusFacts

(* A command whose event is not written. *)
LEMMA DodgeMatches ==
  ASSUME NEW h, NEW c \in FiniteContent, NEW ns, NEW top \in Nat, top < MaxUint,
         Orderly(h, top), Matches(h, c, ns, top),
         NEW e \in EventType, e.kind = "dodge", e.num = c.next, Allowed(c, e.kind, e.item)
  PROVE  Matches(h, Applied(c, e), ns, top + 1)
<1>1. c.next <= top /\ \A i \in 1..Len(h) : h[i].num < c.next
  BY DEF Matches
<1>2. c.next \in Nat /\ Plus(c.next, 1) = c.next + 1 /\ c.next + 1 <= top + 1
  BY <1>1, NextMoves
<1>3. /\ Applied(c, e).has = c.has /\ Applied(c, e).default = c.default
      /\ Applied(c, e).next = c.next + 1
  BY <1>2, AppliedFields
<1>4. Applied(c, e).astray = {}
  <2>1. Accepts(R(h).zone, c, e)
    BY AllowedApplies
  <2> QED  BY <2>1 DEF Accepts
<1>5. \A i \in 1..Len(h) : h[i].num \in Nat
  BY Numbered DEF Orderly
<1>6. \A i \in 1..Len(h) : h[i].num < c.next + 1
  BY <1>1, <1>2, <1>5
<1> DEFINE a == Applied(c, e)
<1> HIDE DEF a
<1>7. a.has = c.has /\ a.default = c.default /\ a.next = c.next + 1 /\ a.astray = {}
  BY <1>3, <1>4 DEF a
<1>8. Matches(h, a, ns, top + 1)
  BY <1>2, <1>6, <1>7 DEF Matches
<1> QED  BY <1>8 DEF a

(* A command whose event is. *)
LEMMA CommandMatches ==
  ASSUME NEW h, NEW c \in FiniteContent, NEW ns, NEW top \in Nat, top < MaxUint,
         Orderly(h, top), Matches(h, c, ns, top),
         NEW e \in EventType, e.num = c.next, Allowed(c, e.kind, e.item)
  PROVE  Orderly(Append(h, e), top + 1) /\ Matches(Append(h, e), Applied(c, e), ns, top + 1)
<1> DEFINE g == Append(h, e)
           a == Applied(c, e)
           r == R(h).zone
<1>1. /\ h \in Seq(EventType) /\ Rises(h) /\ R(h).ok
      /\ \A i \in 1..Len(h) : h[i].num < top
      /\ c.next <= top /\ \A i \in 1..Len(h) : h[i].num < c.next
  BY DEF Matches, Orderly
<1>2. c.next \in Nat /\ Plus(c.next, 1) = c.next + 1 /\ c.next + 1 <= top + 1
  BY <1>1, NextMoves
<1>3. \A i \in 1..Len(h) : h[i].num \in Nat
  BY <1>1, Numbered
<1>4. /\ g \in Seq(EventType) /\ Len(g) = Len(h) + 1 /\ g[Len(h) + 1] = e
      /\ \A i \in 1..Len(h) : g[i] = h[i]
  BY <1>1, AppendProperties
<1>5. Rises(g)
  BY <1>1, RisesAppend
<1>6. R(g) = OneEvent(R(h), e)
  BY <1>1, ReplayAppend
<1>7. /\ Applicable(r, e) /\ Applied(r, e).has = a.has
      /\ Applied(r, e).astray = {} /\ a.astray = {}
      /\ a.default = IF e.kind = "default" THEN {e.item} ELSE c.default
      /\ Applied(r, e).default = IF e.kind = "default" THEN {e.item} ELSE r.default
      /\ a.next = Plus(e.num, 1)
  <2>1. Accepts(R(h).zone, c, e)
    BY AllowedApplies
  <2> QED  BY <2>1 DEF Accepts
<1>8. R(g) = [ok |-> TRUE, zone |-> Applied(r, e)]
  BY <1>1, <1>6, <1>7 DEF OneEvent
<1> DEFINE b == Applied(r, e)
<1> HIDE DEF g, a, r, b
<1>9. R(g).ok /\ R(g).zone = b
  BY <1>8 DEF b
<1>10. \A i \in 1..Len(g) : i \in 1..Len(h) \/ i = Len(h) + 1
  BY <1>1, <1>4, LenProperties
<1>11. \A i \in 1..Len(g) : g[i].num < c.next + 1
  BY <1>1, <1>2, <1>3, <1>4, <1>10
<1>12. \A i \in 1..Len(g) : g[i].num < top + 1
  BY <1>1, <1>2, <1>3, <1>4, <1>10
<1>13. Orderly(g, top + 1)
  BY <1>4, <1>5, <1>7, <1>9, <1>12 DEF Orderly, b
<1>14. a.next = c.next + 1
  BY <1>2, <1>7
<1>15. CASE e.kind = "default"
  <2>1. a.default = R(g).zone.default
    BY <1>7, <1>9, <1>15 DEF b
  <2>2. a.has = R(g).zone.has
    BY <1>7, <1>9 DEF b
  <2>3. Matches(g, a, ns, top + 1)
    BY <1>2, <1>7, <1>11, <1>14, <2>1, <2>2 DEF Matches
  <2> QED  BY <1>13, <2>3 DEF g, a
<1>16. CASE e.kind # "default"
  <2>1. a.default = c.default /\ R(g).zone.default = r.default
    BY <1>7, <1>9, <1>16 DEF b
  <2>2. a.has = R(g).zone.has
    BY <1>7, <1>9 DEF b
  <2>3. Forgets(h, ns) => Forgets(g, ns)
    <3>1. ASSUME NEW n, \A i \in 1..Len(h) : h[i].kind = "default" => h[i].num <= n
          PROVE  \A i \in 1..Len(g) : g[i].kind = "default" => g[i].num <= n
      <4> SUFFICES ASSUME NEW i \in 1..Len(g), g[i].kind = "default" PROVE g[i].num <= n
        OBVIOUS
      <4>1. i # Len(h) + 1
        BY <1>4, <1>16
      <4> QED  BY <1>4, <1>10, <3>1, <4>1
    <3> QED  BY <3>1 DEF Forgets
  <2>4. c.default = r.default \/ (c.default = {} /\ Forgets(h, ns))
    BY DEF Matches, r
  <2>5. Matches(g, a, ns, top + 1)
    BY <1>2, <1>7, <1>11, <1>14, <2>1, <2>2, <2>3, <2>4 DEF Matches
  <2> QED  BY <1>13, <2>5 DEF g, a
<1> QED  BY <1>15, <1>16

-----------------------------------------------------------------------------
(* The files and the Zones *)

History(z) == HistoryOf(log, z)

Pending(z) == writing[z][Len(writing[z])].of

Done(z) == IF writing[z] = <<>> THEN History(z) ELSE Append(History(z), Pending(z))

Halfway(z) == Len(writing[z]) = 1

(* While no two Zones have been writing at once, the log has whole events,  *)
(* and the header of the one that is half written.                         *)
LogShape ==
    Zone # {} /\ ~overlapped /\ life # "down" =>
        \/ /\ \A z \in Zone : ~Halfway(z)
           /\ Len(log) = 2 * Len(ReadEvents(log).events)
        \/ \E z \in Zone : /\ Halfway(z) /\ \A y \in Zone \ {z} : ~Halfway(y)
                           /\ Len(log) = 2 * Len(ReadEvents(log).events) + 1
                           /\ log[Len(log)] = Header(Pending(z))

Saves(z) == saving # <<>> /\ saving[1] = z

(* A snapshot that was written to the end is what the history made of the  *)
(* Zone up to its number; there is one more at most, and it is the last.    *)
Kept(z) ==
    \A n \in DOMAIN snaps[z] :
        /\ n < spent
        /\ <<z, n>> \in whole => Restores(History(z), z, n, snaps[z][n])
        /\ <<z, n>> \notin whole => /\ \A m \in DOMAIN snaps[z] : m <= n
                                    /\ life # "down" => Saves(z) /\ numbers[z] = n

(* What comes next goes behind the snapshots. *)
Behind(z) ==
    \A n \in DOMAIN snaps[z] : /\ n < zone[z].next
                               /\ writing[z] # <<>> => n < Pending(z).num

(* What there is of a file and what is left to write will be whole. *)
Saved(z) ==
    Saves(z) => /\ <<z, numbers[z]>> \notin whole
                /\ Restores(History(z), z, numbers[z], snaps[z][numbers[z]] \o saving[2])

(* A number to take a snapshot at is no less than those of earlier ones.    *)
Taken(z) ==
    z \in DOMAIN numbers /\ numbers[z] # MaxUint =>
        /\ \A m \in DOMAIN snaps[z] : m <= numbers[z]
        /\ numbers[z] < zone[z].next
        /\ writing[z] # <<>> => numbers[z] < Pending(z).num

Good(z) ==
    /\ Orderly(Done(z), spent)
    /\ life # "down" => Matches(Done(z), zone[z], DOMAIN snaps[z], spent) /\ Behind(z)
    /\ Kept(z) /\ Saved(z) /\ Taken(z)

Trusted(z) == z \notin misled /\ ~overlapped /\ MaxUint \notin DOMAIN snaps[z]

AllGood == \A z \in Zone : Trusted(z) => Good(z)

LEMMA PendingIs ==
  ASSUME Typed, NEW z \in Zone, writing[z] # <<>>
  PROVE  /\ Pending(z) \in EventType /\ Pending(z).zone = z
         /\ writing[z] = Written(Pending(z)) \/ writing[z] = <<Body(Pending(z))>>
<1>1. PICK e \in EventType : e.zone = z /\ writing[z] \in {Written(e), <<Body(e)>>}
  BY DEF Typed, ZonesTyped, Writes
<1>2. Body(e).of = e
  BY EventFacts
<1>3. Pending(z) = e
  <2>1. CASE writing[z] = Written(e)
    <3>1. Len(writing[z]) = 2 /\ writing[z][2] = Body(e)
      BY <2>1, WrittenTyped
    <3> QED  BY <1>2, <3>1 DEF Pending
  <2>2. CASE writing[z] = <<Body(e)>>
    <3>1. Len(writing[z]) = 1 /\ writing[z][1] = Body(e)
      BY <2>2, WrittenTyped
    <3> QED  BY <1>2, <3>1 DEF Pending
  <2> QED  BY <1>1, <2>1, <2>2
<1> QED  BY <1>1, <1>3

LEMMA HistoryTyped ==
  ASSUME Typed, NEW z \in Zone
  PROVE  History(z) \in Seq(EventType) /\ Done(z) \in Seq(EventType)
<1>1. ReadEvents(log).events \in Seq(EventType)
  BY ReadTyped DEF Typed, ZonesTyped
<1>2. History(z) \in Seq(EventType)
  BY <1>1, EventsOfTyped DEF History, HistoryOf
<1>3. writing[z] # <<>> => Append(History(z), Pending(z)) \in Seq(EventType)
  BY <1>2, PendingIs, AppendProperties
<1> QED  BY <1>2, <1>3 DEF Done

LEMMA ZoneFacts ==
  ASSUME Typed, NEW z \in Zone
  PROVE  /\ zone[z] \in FiniteContent /\ zone[z].next \in Number /\ zone[z].next \in Nat
         /\ spent \in Nat /\ spent <= Budget /\ MaxUint \in Nat
         /\ \A n \in DOMAIN snaps[z] : n \in Number /\ n \in Nat
         /\ z \in DOMAIN numbers => numbers[z] \in Number /\ numbers[z] \in Nat
         /\ Saves(z) => /\ z \in DOMAIN numbers /\ numbers[z] \in DOMAIN snaps[z]
                        /\ saving[2] \in Seq(Piece) /\ saving = <<z, saving[2]>>
                        /\ snaps[z][numbers[z]] \in Seq(Piece)
<1>1. zone[z] \in FiniteContent /\ spent \in 0..Budget /\ DOMAIN snaps[z] \subseteq Number
  BY DEF Typed, ZonesTyped, SnapsTyped, RestTyped
<1>2. zone[z].next \in Number
  BY <1>1 DEF FiniteContent, Content
<1>3. MaxUint \in Nat /\ Number \subseteq Nat
  BY StoreAssumption DEF Number
<1>4. z \in DOMAIN numbers => numbers[z] \in Number
  BY DEF Typed, SnapsTyped
<1>5. Saves(z) => /\ z \in DOMAIN numbers /\ numbers[z] \in DOMAIN snaps[z]
                  /\ saving[2] \in Seq(Piece) /\ saving = <<z, saving[2]>>
                  /\ snaps[z][numbers[z]] \in Seq(Piece)
  BY DEF Typed, SnapsTyped, SavesPart, Saves
<1>6. spent \in Nat /\ spent <= Budget
  BY <1>1, BudgetAssumption
<1> QED  BY <1>1, <1>2, <1>3, <1>4, <1>5, <1>6

(* A step that leaves a Zone and its snapshots alone. *)
LEMMA SameGood ==
  ASSUME Typed, NEW z \in Zone, Good(z),
         History(z)' = History(z), writing'[z] = writing[z], zone'[z] = zone[z],
         snaps'[z] = snaps[z], life' = "down" <=> life = "down",
         spent' \in Nat, spent <= spent',
         \A n : <<z, n>> \in whole' <=> <<z, n>> \in whole,
         Saves(z)' <=> Saves(z), Saves(z) => saving' = saving /\ numbers'[z] = numbers[z],
         z \in DOMAIN numbers' => z \in DOMAIN numbers /\ numbers'[z] = numbers[z]
  PROVE  Good(z)'
<1>1. Pending(z)' = Pending(z) /\ Done(z)' = Done(z)
  BY DEF Pending, Done
<1>2. /\ spent \in Nat /\ zone[z].next \in Nat /\ \A n \in DOMAIN snaps[z] : n \in Nat
  BY ZoneFacts
<1>3. Orderly(Done(z), spent')
  BY <1>2, OrderlyMore DEF Good
<1>4. life # "down" => Matches(Done(z), zone[z], DOMAIN snaps[z], spent')
  BY <1>2, MatchesMore DEF Good
<1>5. life' # "down" => Behind(z)'
  BY <1>1 DEF Behind, Good
<1>6. Kept(z)'
  <2>1. \A n \in DOMAIN snaps[z] : n < spent => n < spent'
    BY <1>2
  <2> QED  BY <2>1 DEF Kept, Good
<1>7. Saved(z)'
  BY DEF Saved, Good
<1>8. Taken(z)'
  BY <1>1 DEF Taken, Good
<1>9. Orderly(Done(z), spent)'
  BY <1>1, <1>3
<1>10. life' # "down" => Matches(Done(z), zone[z], DOMAIN snaps[z], spent)'
  BY <1>1, <1>4
<1> QED  BY <1>5, <1>6, <1>7, <1>8, <1>9, <1>10 DEF Good

LEMMA SameShape ==
  ASSUME LogShape, UNCHANGED log, overlapped => overlapped', life' = "down" \/ life # "down",
         \A z \in Zone : writing'[z] = writing[z]
  PROVE  LogShape'
<1>1. \A z \in Zone : Pending(z)' = Pending(z) /\ (Halfway(z)' <=> Halfway(z))
  BY DEF Pending, Halfway
<1> QED  BY <1>1 DEF LogShape

(* An event after those a snapshot stands for leaves it what it is. *)
LEMMA RestoresAppend ==
  ASSUME NEW h \in Seq(EventType), NEW e \in EventType, NEW z, NEW n \in Nat, n < e.num, NEW file,
         Restores(h, z, n, file)
  PROVE  Restores(Append(h, e), z, n, file)
<1>1. PICK p, d : /\ IsCut(h, n, p)
                  /\ d \in Snapshot(z, R(SubSeq(h, 1, p)).zone, n)
                  /\ Begins(file, d) /\ Len(file) = 2 * Len(d)
  BY DEF Restores
<1>2. IsCut(Append(h, e), n, p)
  BY <1>1, CutAppend
<1>3. SubSeq(Append(h, e), 1, p) = SubSeq(h, 1, p)
  BY <1>1, PartOfAppend DEF IsCut
<1>4. d \in Snapshot(z, R(SubSeq(Append(h, e), 1, p)).zone, n)
  BY <1>1, <1>3, Zenon
<1> QED  BY <1>1, <1>2, <1>4 DEF Restores

GoodInv == LogShape /\ AllGood

(* Numbers do not come around. *)
NoWrap == Budget < MaxUint

LEMMA GoodInit == Init => GoodInv
<1> SUFFICES ASSUME Init PROVE GoodInv
  OBVIOUS
<1>1. /\ log = <<>> /\ saving = <<>> /\ spent = 0 /\ DOMAIN numbers = {}
      /\ \A z \in Zone : writing[z] = <<>> /\ zone[z] = NewZone /\ snaps[z] = <<>>
  BY DEF Init
<1>2. <<>> \in Seq(Piece) /\ <<>> \in Seq(EventType) /\ Len(<<>>) = 0 /\ DOMAIN <<>> = {}
  OBVIOUS
<1>3. ReadEvents(log).events = <<>>
  <2>1. Begins(<<>>, <<>>) /\ ~(2 * (Len(<<>>) + 1) <= Len(<<>>))
    BY DEF Begins
  <2> QED  BY <1>1, <1>2, <2>1, ReadIs
<1>4. LogShape
  <2>1. \A z \in Zone : ~Halfway(z)
    BY <1>1, <1>2 DEF Halfway
  <2>2. Len(log) = 2 * Len(ReadEvents(log).events)
    BY <1>1, <1>2, <1>3
  <2> QED  BY <2>1, <2>2 DEF LogShape
<1>5. ASSUME NEW z \in Zone PROVE Good(z)
  <2>1. History(z) = <<>>
    BY <1>3, EventsOfEmpty DEF History, HistoryOf
  <2>2. Done(z) = <<>>
    BY <1>1, <2>1 DEF Done
  <2>3. R(<<>>) = [ok |-> TRUE, zone |-> NewZone]
    BY ReplayEmpty
  <2>4. /\ R(<<>>).ok /\ R(<<>>).zone.has = {} /\ R(<<>>).zone.astray = {}
        /\ R(<<>>).zone.default = {}
    BY <2>3 DEF NewZone
  <2>5. Orderly(<<>>, 0)
    BY <1>2, <2>4 DEF Orderly, Rises
  <2>6. Matches(<<>>, NewZone, {}, 0)
    <3>1. /\ NewZone.has = {} /\ NewZone.astray = {} /\ NewZone.default = {} /\ NewZone.next = 0
      BY DEF NewZone
    <3> QED  BY <1>2, <2>4, <3>1 DEF Matches
  <2>7. Orderly(Done(z), spent)
    BY <1>1, <2>2, <2>5
  <2>8. Matches(Done(z), zone[z], DOMAIN snaps[z], spent)
    BY <1>1, <1>2, <2>2, <2>6
  <2>9. Behind(z) /\ Kept(z) /\ Saved(z) /\ Taken(z)
    BY <1>1, <1>2 DEF Behind, Kept, Saved, Taken, Saves
  <2> QED  BY <2>7, <2>8, <2>9 DEF Good
<1> QED  BY <1>4, <1>5 DEF GoodInv, AllGood

(* A step that leaves all of them alone. *)
LEMMA AloneGood ==
  ASSUME Typed, GoodInv, UNCHANGED <<misled, zone, writing, log, overlapped, snaps, whole>>,
         life' = "down" <=> life = "down", spent' \in Nat, spent <= spent',
         \/ UNCHANGED <<numbers, saving>>
         \/ numbers' = <<>> /\ UNCHANGED saving /\ saving = <<>>
  PROVE  GoodInv'
<1>1. LogShape'
  BY SameShape DEF GoodInv
<1>2. ASSUME NEW z \in Zone, Trusted(z)' PROVE Good(z)'
  <2>1. Trusted(z)
    BY <1>2 DEF Trusted
  <2>2. Good(z)
    BY <2>1 DEF GoodInv, AllGood
  <2>3. /\ History(z)' = History(z) /\ writing'[z] = writing[z] /\ zone'[z] = zone[z]
        /\ snaps'[z] = snaps[z]
        /\ \A n : <<z, n>> \in whole' <=> <<z, n>> \in whole
    BY DEF History
  <2>4. (Saves(z)' <=> Saves(z)) /\ (Saves(z) => saving' = saving /\ numbers'[z] = numbers[z])
    BY DEF Saves
  <2>5. z \in DOMAIN numbers' => z \in DOMAIN numbers /\ numbers'[z] = numbers[z]
    <3>1. DOMAIN <<>> = {}
      OBVIOUS
    <3> QED  BY <3>1
  <2> QED  BY <2>2, <2>3, <2>4, <2>5, SameGood
<1> QED  BY <1>1, <1>2 DEF GoodInv, AllGood

LEMMA AsideGood ==
  ASSUME Typed, GoodInv, Aside PROVE GoodInv'
<1>1. /\ UNCHANGED <<misled, zone, writing, log, overlapped, snaps, whole, numbers, saving>>
      /\ life' = "down" <=> life = "down"
  BY DEF Aside, zoneVars, snapVars
<1>2. spent' \in Nat /\ spent <= spent'
  BY BudgetAssumption DEF Aside
<1> QED  BY <1>1, <1>2, AloneGood

LEMMA StopGood ==
  ASSUME Typed, GoodInv, NEW z \in Zone, Stop(z) PROVE GoodInv'
<1>1. UNCHANGED <<misled, zone, writing, log, overlapped, snaps, whole, numbers, saving, life, spent>>
  BY DEF Stop, zoneVars
<1>2. spent' \in Nat /\ spent <= spent'
  BY <1>1, BudgetAssumption DEF Typed, RestTyped
<1> QED  BY <1>1, <1>2, AloneGood

LEMMA FailsGood ==
  ASSUME Typed, GoodInv, NEW z \in Zone, SnapshotFails(z) PROVE GoodInv'
<1>1. /\ UNCHANGED <<misled, zone, writing, log, overlapped, snaps, whole, saving, life, spent>>
      /\ numbers' = <<>> /\ saving = <<>>
  BY DEF SnapshotFails, SnapshotEnds, zoneVars
<1>2. spent' \in Nat /\ spent <= spent'
  BY <1>1, BudgetAssumption DEF Typed, RestTyped
<1> QED  BY <1>1, <1>2, AloneGood

(* A command: one more event, behind all that were, and the same one for   *)
(* the replay as for what is in memory.                                    *)
LEMMA CommandGood ==
  ASSUME Typed, GoodInv, NoWrap, NEW z \in Zone,
         NEW kind \in {"add", "remove", "default", "dodge"}, NEW i \in Item, Command(z, kind, i)
  PROVE  GoodInv'
<1> DEFINE e == Event(z, zone[z].next, kind, i)
           c == zone[z]
<1>1. /\ e \in EventType /\ e.zone = z /\ e.kind = kind /\ e.item = i
      /\ e.num = c.next
      /\ life = "up" /\ writing[z] = <<>> /\ Allowed(c, kind, i)
      /\ \A y \in Zone \ {z} : zone'[y] = zone[y] /\ writing'[y] = writing[y]
      /\ zone'[z] = Applied(c, e)
      /\ writing'[z] = IF kind # "dodge" THEN Written(e) ELSE <<>>
      /\ UNCHANGED <<misled, snapVars, intentVars, log, overlapped, life, world>>
  BY CommandFacts
<1>2. /\ spent \in Nat /\ c \in FiniteContent /\ c.next \in Nat /\ MaxUint \in Nat
      /\ \A n \in DOMAIN snaps[z] : n \in Nat
      /\ z \in DOMAIN numbers => numbers[z] \in Nat
      /\ spent <= Budget
  BY ZoneFacts
<1> HIDE DEF e, c
<1>3. spent < Budget /\ spent' = spent + 1 /\ spent' \in Nat /\ spent <= spent'
  BY <1>2 DEF Command, Spend
<1>4. spent < MaxUint
  BY <1>2, <1>3, BudgetAssumption DEF NoWrap
<1>5. UNCHANGED <<snaps, numbers, saving, whole>>
  BY <1>1 DEF snapVars
<1>6. Len(Written(e)) = 2 /\ Written(e)[2] = Body(e) /\ Written(e) # <<>> /\ Body(e).of = e
  BY <1>1, WrittenTyped, EventFacts
<1>7. LogShape'
  <2>1. ~Halfway(z) /\ ~(Halfway(z)')
    <3>1. Len(<<>>) = 0
      OBVIOUS
    <3> QED  BY <1>1, <1>6, <3>1 DEF Halfway
  <2>2. \A y \in Zone : y # z => Pending(y)' = Pending(y) /\ (Halfway(y)' <=> Halfway(y))
    BY <1>1 DEF Pending, Halfway
  <2>3. LogShape
    BY DEF GoodInv
  <2> QED  BY <1>1, <2>1, <2>2, <2>3 DEF LogShape
<1>8. ASSUME NEW y \in Zone, Trusted(y)' PROVE Good(y)'
  <2>1. Trusted(y) /\ History(y)' = History(y)
    BY <1>1, <1>5, <1>8 DEF Trusted, History
  <2>2. Good(y)
    BY <2>1 DEF GoodInv, AllGood
  <2>3. CASE y # z
    <3>1. (Saves(y)' <=> Saves(y)) /\ (Saves(y) => saving' = saving /\ numbers'[y] = numbers[y])
      BY <1>5 DEF Saves
    <3>2. \A n : <<y, n>> \in whole' <=> <<y, n>> \in whole
      BY <1>5
    <3>3. /\ y \in DOMAIN numbers' => y \in DOMAIN numbers /\ numbers'[y] = numbers[y]
          /\ snaps'[y] = snaps[y] /\ zone'[y] = zone[y] /\ writing'[y] = writing[y]
          /\ life' = "down" <=> life = "down"
      BY <1>1, <1>5, <2>3
    <3> QED  BY <1>3, <2>1, <2>2, <3>1, <3>2, <3>3, SameGood
  <2>4. CASE y = z
    <3> DEFINE h == History(z)
               ns == DOMAIN snaps[z]
    <3>1. Done(z) = h
      BY <1>1 DEF Done
    <3>2. Orderly(h, spent) /\ Matches(h, c, ns, spent)
      BY <1>1, <2>2, <2>4, <3>1 DEF Good, c
    <3>3. Behind(z) /\ Kept(z) /\ Saved(z) /\ Taken(z)
      BY <1>1, <2>2, <2>4 DEF Good
    <3>4. c.next <= spent /\ Applied(c, e).next = c.next + 1
      <4>1. c.next <= spent
        BY <3>2 DEF Matches
      <4>2. Plus(c.next, 1) = c.next + 1
        BY <1>2, <1>4, <4>1, NextMoves
      <4>3. Applied(c, e).next = Plus(e.num, 1)
        BY AppliedFields
      <4> QED  BY <1>1, <4>1, <4>2, <4>3
    <3> HIDE DEF h, ns
    <3>5. /\ writing'[z] # <<>> => Pending(z)' = e /\ Done(z)' = Append(h, e)
          /\ writing'[z] = <<>> => Done(z)' = h
          /\ writing'[z] # <<>> <=> kind # "dodge"
      <4>1. kind # "dodge" => writing'[z] = Written(e) /\ writing'[z] # <<>>
        BY <1>1, <1>6
      <4>2. kind = "dodge" => writing'[z] = <<>>
        BY <1>1
      <4>3. kind # "dodge" => Pending(z)' = e
        BY <1>6, <4>1 DEF Pending
      <4>4. History(z)' = h
        BY <2>1, <2>4 DEF h
      <4> QED  BY <4>1, <4>2, <4>3, <4>4 DEF Done
    <3>6. Orderly(Done(z)', spent + 1) /\ Matches(Done(z)', Applied(c, e), ns, spent + 1)
      <4>1. CASE kind = "dodge"
        <5>1. Orderly(h, spent + 1)
          BY <1>2, <3>2, OrderlyMore
        <5>2. Matches(h, Applied(c, e), ns, spent + 1)
          BY <1>1, <1>2, <1>4, <3>2, <4>1, DodgeMatches
        <5> QED  BY <3>5, <4>1, <5>1, <5>2
      <4>2. CASE kind # "dodge"
        <5>1. Orderly(Append(h, e), spent + 1) /\ Matches(Append(h, e), Applied(c, e), ns, spent + 1)
          BY <1>1, <1>2, <1>4, <3>2, CommandMatches
        <5> QED  BY <3>5, <4>2, <5>1
      <4> QED  BY <4>1, <4>2
    <3>7. Orderly(Done(z), spent)' /\ Matches(Done(z), zone[z], DOMAIN snaps[z], spent)'
      BY <1>1, <1>3, <1>5, <3>6 DEF ns
    <3>8. Behind(z)'
      <4>1. \A n \in DOMAIN snaps[z] : n < c.next /\ n < c.next + 1
        BY <1>2, <3>3 DEF Behind, c
      <4>2. zone'[z].next = c.next + 1
        BY <1>1, <3>4
      <4>3. writing'[z] # <<>> => Pending(z)'.num = c.next
        BY <1>1, <3>5
      <4> QED  BY <1>5, <4>1, <4>2, <4>3 DEF Behind
    <3>9. Kept(z)'
      <4>1. \A n \in DOMAIN snaps[z] : n < spent => n < spent'
        BY <1>2, <1>3
      <4>2. Saves(z)' <=> Saves(z)
        BY <1>5 DEF Saves
      <4> QED  BY <1>1, <1>5, <2>1, <2>4, <3>3, <4>1, <4>2 DEF Kept
    <3>10. Saved(z)'
      BY <1>5, <2>1, <2>4, <3>3 DEF Saved, Saves
    <3>11. Taken(z)'
      <4>1. z \in DOMAIN numbers /\ numbers[z] # MaxUint => numbers[z] < c.next /\ numbers[z] < c.next + 1
        BY <1>2, <3>3 DEF Taken, c
      <4>2. zone'[z].next = c.next + 1
        BY <1>1, <3>4
      <4>3. writing'[z] # <<>> => Pending(z)'.num = c.next
        BY <1>1, <3>5
      <4> QED  BY <1>5, <3>3, <4>1, <4>2, <4>3 DEF Taken
    <3> QED  BY <2>4, <3>7, <3>8, <3>9, <3>10, <3>11 DEF Good
  <2> QED  BY <2>3, <2>4
<1> QED  BY <1>7, <1>8 DEF GoodInv, AllGood

(* An event that is written is the next of the history. *)
LEMMA PersistGood ==
  ASSUME Typed, GoodInv, NEW z \in Zone, Persist(z) PROVE GoodInv'
<1> DEFINE E == ReadEvents(log).events
<1>1. PICK e \in EventType :
            /\ e.zone = z /\ writing[z] \in {Written(e), <<Body(e)>>}
            /\ writing[z] = Written(e) => /\ log' = Append(log, Header(e))
                                          /\ writing'[z] = <<Body(e)>>
            /\ writing[z] = <<Body(e)>> => /\ log' = Append(log, Body(e))
                                           /\ writing'[z] = <<>>
            /\ \A y \in Zone \ {z} : writing'[y] = writing[y]
            /\ life = "up" /\ writing[z] # <<>>
            /\ overlapped' = (overlapped \/ \E other \in Zone \ {z} : Len(writing[other]) = 1)
            /\ UNCHANGED <<misled, snapVars, intentVars, zone, life, world, spent>>
  BY PersistFacts, Zenon
<1>2. /\ log \in Seq(Piece) /\ E \in Seq(EventType) /\ Header(e) \in Piece /\ Body(e) \in Piece
      /\ Body(e).of = e /\ Len(E) \in Nat
  BY ReadTyped, EventFacts, LenProperties DEF Typed, ZonesTyped
<1>3. /\ Len(Written(e)) = 2 /\ Written(e)[2] = Body(e)
      /\ Len(<<Body(e)>>) = 1 /\ <<Body(e)>>[1] = Body(e) /\ <<Body(e)>> # <<>> /\ Len(<<>>) = 0
  BY WrittenTyped
<1>4. Pending(z) = e
  BY <1>1, <1>2, <1>3 DEF Pending
<1>5. writing[z] = Written(e) => ~Halfway(z) /\ Halfway(z)' /\ Pending(z)' = e /\ writing'[z] # <<>>
  <2> SUFFICES ASSUME writing[z] = Written(e)
               PROVE  ~Halfway(z) /\ Halfway(z)' /\ Pending(z)' = e /\ writing'[z] # <<>>
    OBVIOUS
  <2>1. Len(writing[z]) = 2
    BY <1>3
  <2>2. writing'[z] = <<Body(e)>>
    BY <1>1
  <2>3. Len(writing'[z]) = 1 /\ writing'[z][1] = Body(e) /\ writing'[z] # <<>>
    BY <1>3, <2>2, Zenon
  <2> QED  BY <1>2, <2>1, <2>3 DEF Pending, Halfway
<1>6. writing[z] = <<Body(e)>> => Halfway(z) /\ ~(Halfway(z)')
  <2> SUFFICES ASSUME writing[z] = <<Body(e)>> PROVE Halfway(z) /\ ~(Halfway(z)')
    OBVIOUS
  <2>1. Len(writing[z]) = 1
    BY <1>3, Zenon
  <2>2. Len(writing'[z]) = 0
    BY <1>1, <1>3
  <2> QED  BY <2>1, <2>2 DEF Halfway
<1>7. UNCHANGED <<snaps, numbers, saving, whole>>
  BY <1>1 DEF snapVars
<1>8. \A y \in Zone : y # z => Pending(y)' = Pending(y) /\ (Halfway(y)' <=> Halfway(y))
  BY <1>1 DEF Pending, Halfway
<1> HIDE DEF E
<1>9. ASSUME ~overlapped'
      PROVE  /\ ~overlapped /\ LogShape'
             /\ writing[z] = Written(e) => ReadEvents(log').events = E
             /\ writing[z] = <<Body(e)>> => ReadEvents(log').events = Append(E, e)
  <2>1. ~overlapped /\ \A y \in Zone \ {z} : ~Halfway(y)
    BY <1>1, <1>9 DEF Halfway
  <2>2. \/ ~Halfway(z) /\ Len(log) = 2 * Len(E)
        \/ Halfway(z) /\ Len(log) = 2 * Len(E) + 1 /\ log[Len(log)] = Header(e)
    <3>1. \/ /\ \A y \in Zone : ~Halfway(y)
             /\ Len(log) = 2 * Len(E)
          \/ \E y \in Zone : /\ Halfway(y)
                             /\ Len(log) = 2 * Len(E) + 1
                             /\ log[Len(log)] = Header(Pending(y))
      BY <1>1, <2>1 DEF GoodInv, LogShape, E
    <3> QED  BY <1>4, <2>1, <3>1
  <2>3. CASE writing[z] = Written(e)
    <3>1. Len(log) = 2 * Len(E) /\ log' = Append(log, Header(e))
      BY <1>1, <1>5, <2>2, <2>3
    <3>2. /\ ReadEvents(log').events = E
          /\ Len(log') = 2 * Len(E) + 1 /\ log'[Len(log')] = Header(e)
      BY <1>2, <3>1, PartAfterEvents DEF E
    <3>3. \A y \in Zone \ {z} : ~(Halfway(y)')
      BY <1>8, <2>1
    <3>4. LogShape'
      BY <1>5, <2>3, <3>2, <3>3 DEF LogShape
    <3>5. Written(e) # <<Body(e)>>
      BY <1>3
    <3> QED  BY <2>1, <2>3, <3>2, <3>4, <3>5
  <2>4. CASE writing[z] = <<Body(e)>>
    <3>1. Len(log) = 2 * Len(E) + 1 /\ log[Len(log)] = Header(e) /\ log' = Append(log, Body(e))
      BY <1>1, <1>6, <2>2, <2>4
    <3>2. /\ ReadEvents(log').events = Append(E, e)
          /\ Len(log') = 2 * Len(Append(E, e))
      BY <1>2, <3>1, PartAfterHeader DEF E
    <3>3. \A y \in Zone : ~(Halfway(y)')
      BY <1>6, <1>8, <2>1, <2>4
    <3>4. LogShape'
      BY <3>2, <3>3 DEF LogShape
    <3>5. Written(e) # <<Body(e)>>
      BY <1>3
    <3> QED  BY <2>1, <2>4, <3>2, <3>4, <3>5
  <2> QED  BY <1>1, <2>3, <2>4
<1>10. LogShape'
  BY <1>9 DEF LogShape
<1>11. ASSUME NEW y \in Zone, Trusted(y)' PROVE Good(y)'
  <2>1. ~overlapped' /\ ~overlapped
    BY <1>9, <1>11 DEF Trusted
  <2>2. Good(y)
    BY <1>1, <1>7, <1>11, <2>1 DEF Trusted, GoodInv, AllGood
  <2>3. /\ writing[z] = Written(e) => History(y)' = History(y)
        /\ writing[z] = <<Body(e)>> /\ y = z => History(y)' = Append(History(y), e)
        /\ writing[z] = <<Body(e)>> /\ y # z => History(y)' = History(y)
    <3>1. e.num >= 0 /\ EventsOf(Append(E, e), y, 0) =
              IF e.zone = y /\ e.num >= 0 THEN Append(EventsOf(E, y, 0), e) ELSE EventsOf(E, y, 0)
      <4>1. e.num \in Number
        BY EventFacts
      <4>2. e.num >= 0
        BY <4>1, StoreAssumption DEF Number
      <4> QED  BY <1>2, <4>2, EventsOfAppend
    <3>2. History(y) = EventsOf(E, y, 0)
      BY DEF History, HistoryOf, E
    <3>3. History(y)' = EventsOf(ReadEvents(log').events, y, 0)
      BY DEF History, HistoryOf
    <3> QED  BY <1>1, <1>9, <2>1, <3>1, <3>2, <3>3
  <2>4. (Saves(y)' <=> Saves(y)) /\ (Saves(y) => saving' = saving /\ numbers'[y] = numbers[y])
    BY <1>7 DEF Saves
  <2>5. spent' \in Nat /\ spent <= spent' /\ spent' = spent
    BY <1>1, ZoneFacts
  <2>6. CASE y # z
    <3>1. \A n : <<y, n>> \in whole' <=> <<y, n>> \in whole
      BY <1>7
    <3>2. /\ y \in DOMAIN numbers' => y \in DOMAIN numbers /\ numbers'[y] = numbers[y]
          /\ snaps'[y] = snaps[y] /\ zone'[y] = zone[y] /\ writing'[y] = writing[y]
          /\ life' = "down" <=> life = "down"
      BY <1>1, <1>7, <2>6
    <3>3. History(y)' = History(y)
      BY <1>1, <2>3, <2>6
    <3> QED  BY <2>2, <2>4, <2>5, <3>1, <3>2, <3>3, SameGood
  <2>7. CASE y = z
    <3> DEFINE h == History(z)
    <3>1. h \in Seq(EventType) /\ Done(z) = Append(h, e)
      BY <1>1, <1>4, HistoryTyped DEF Done
    <3>2. Done(z)' = Append(h, e)
      <4>1. CASE writing[z] = Written(e)
        BY <1>5, <2>3, <2>7, <4>1 DEF Done
      <4>2. CASE writing[z] = <<Body(e)>>
        BY <1>1, <2>3, <2>7, <4>2 DEF Done
      <4> QED  BY <1>1, <4>1, <4>2
    <3>3. Behind(z) /\ Kept(z) /\ Saved(z) /\ Taken(z)
      BY <1>1, <2>2, <2>7 DEF Good
    <3>4. \A n \in DOMAIN snaps[z] : n \in Nat /\ n < e.num
      BY <1>1, <1>4, <3>3, ZoneFacts DEF Behind
    <3>5. \A n \in DOMAIN snaps[z] : \A file : Restores(h, z, n, file) => Restores(History(z)', z, n, file)
      <4> HIDE DEF h
      <4>1. \A n \in DOMAIN snaps[z] : \A file : Restores(h, z, n, file) => Restores(Append(h, e), z, n, file)
        BY <3>1, <3>4, RestoresAppend
      <4>2. History(z)' \in {h, Append(h, e)}
        BY <1>1, <2>3, <2>7 DEF h
      <4> QED  BY <4>1, <4>2
    <3>6. Orderly(Done(z), spent)' /\ Matches(Done(z), zone[z], DOMAIN snaps[z], spent)'
      <4>1. Orderly(Done(z), spent) /\ Matches(Done(z), zone[z], DOMAIN snaps[z], spent)
        BY <1>1, <2>2, <2>7 DEF Good
      <4>2. Done(z)' = Done(z) /\ zone' = zone /\ snaps' = snaps /\ spent' = spent
        BY <1>1, <1>7, <3>1, <3>2
      <4> QED  BY <4>1, <4>2
    <3>7. writing'[z] # <<>> => Pending(z)' = Pending(z)
      BY <1>1, <1>4, <1>5
    <3>8. Behind(z)'
      BY <1>1, <1>7, <3>3, <3>7 DEF Behind
    <3>9. Kept(z)'
      BY <1>1, <1>7, <2>4, <2>5, <2>7, <3>3, <3>5 DEF Kept
    <3>10. Saved(z)'
      <4>1. Saves(z) => numbers[z] \in DOMAIN snaps[z]
        BY ZoneFacts
      <4>2. Saves(z)' <=> Saves(z)
        BY <1>7 DEF Saves
      <4> QED  BY <1>7, <3>3, <3>5, <4>1, <4>2 DEF Saved
    <3>11. Taken(z)'
      BY <1>1, <1>7, <3>3, <3>7 DEF Taken
    <3> QED  BY <2>7, <3>6, <3>8, <3>9, <3>10, <3>11 DEF Good
  <2> QED  BY <2>6, <2>7
<1> QED  BY <1>10, <1>11 DEF GoodInv, AllGood

(* The number of a snapshot: that of the last event, behind all snapshots   *)
(* there are.                                                              *)
LEMMA ReadNumberGood ==
  ASSUME Typed, GoodInv, Owing, NEW z \in Zone, ReadNumber(z) PROVE GoodInv'
<1>1. /\ world = "reading" /\ z \in halted
      /\ numbers' = [y \in DOMAIN numbers \cup {z} |->
                      IF y = z THEN LastSequenceNum(zone[z]) ELSE numbers[y]]
      /\ UNCHANGED <<misled, zone, writing, log, overlapped, snaps, saving, whole, life, spent>>
  BY DEF ReadNumber, zoneVars
<1>2. saving = <<>> /\ life = "up"
  BY <1>1 DEF Owing
<1>3. writing[z] = <<>>
  BY <1>1 DEF Typed, ZonesTyped
<1>4. LogShape'
  BY <1>1, SameShape DEF GoodInv
<1>5. ASSUME NEW y \in Zone, Trusted(y)' PROVE Good(y)'
  <2>1. Good(y)
    BY <1>1, <1>5 DEF Trusted, GoodInv, AllGood
  <2>2. ~Saves(y) /\ ~(Saves(y)')
    BY <1>1, <1>2 DEF Saves
  <2>3. History(y)' = History(y)
    BY <1>1 DEF History
  <2>4. spent' \in Nat /\ spent <= spent'
    BY <1>1, ZoneFacts
  <2>5. CASE y # z
    <3>1. y \in DOMAIN numbers' => y \in DOMAIN numbers /\ numbers'[y] = numbers[y]
      BY <1>1, <2>5
    <3>2. /\ snaps'[y] = snaps[y] /\ zone'[y] = zone[y] /\ writing'[y] = writing[y]
          /\ life' = "down" <=> life = "down"
          /\ \A n : <<y, n>> \in whole' <=> <<y, n>> \in whole
      BY <1>1
    <3> QED  BY <2>1, <2>2, <2>3, <2>4, <3>1, <3>2, SameGood
  <2>6. CASE y = z
    <3>1. numbers'[z] = LastSequenceNum(zone[z]) /\ zone[z].next \in Number /\ zone[z].next \in Nat
      BY <1>1, ZoneFacts
    <3>2. numbers'[z] = IF zone[z].next = 0 THEN MaxUint ELSE zone[z].next - 1
      BY <3>1, LastSequenceNumFacts
    <3>3. /\ Behind(z) /\ Kept(z)
          /\ Orderly(Done(z), spent) /\ Matches(Done(z), zone[z], DOMAIN snaps[z], spent)
      BY <1>2, <2>1, <2>6 DEF Good
    <3>4. Done(z)' = Done(z)
      BY <1>1, <2>3, <2>6 DEF Done, Pending
    <3>5. Orderly(Done(z), spent)' /\ Matches(Done(z), zone[z], DOMAIN snaps[z], spent)'
      BY <1>1, <3>3, <3>4
    <3>6. Behind(z)'
      BY <1>1, <1>3, <3>3 DEF Behind
    <3>7. Kept(z)'
      BY <1>1, <1>2, <2>2, <2>3, <2>6, <3>3 DEF Kept
    <3>8. Saved(z)'
      BY <2>2, <2>6 DEF Saved
    <3>9. Taken(z)'
      <4>1. ASSUME numbers'[z] # MaxUint
            PROVE  /\ \A m \in DOMAIN snaps[z] : m <= numbers'[z]
                   /\ numbers'[z] < zone[z].next
        <5>1. numbers'[z] = zone[z].next - 1
          BY <3>2, <4>1
        <5>2. \A m \in DOMAIN snaps[z] : m \in Nat /\ m < zone[z].next
          BY <3>3, ZoneFacts DEF Behind
        <5> QED  BY <3>1, <5>1, <5>2
      <4> QED  BY <1>1, <1>3, <4>1 DEF Taken
    <3> QED  BY <2>6, <3>5, <3>6, <3>7, <3>8, <3>9 DEF Good
  <2> QED  BY <2>5, <2>6
<1> QED  BY <1>4, <1>5 DEF GoodInv, AllGood

(* The history of a Zone rises and replays as what it has done does. *)
LEMMA HistoryOrderly ==
  ASSUME Typed, NEW z \in Zone, Good(z)
  PROVE  Orderly(History(z), spent)
<1> DEFINE h == History(z)
           e == Pending(z)
           g == Append(h, e)
<1>1. h \in Seq(EventType) /\ Orderly(Done(z), spent)
  BY HistoryTyped DEF Good
<1>2. CASE writing[z] = <<>>
  BY <1>1, <1>2 DEF Done
<1>3. CASE writing[z] # <<>>
  <2>1. e \in EventType /\ Done(z) = g
    BY <1>3, PendingIs DEF Done
  <2> HIDE DEF h, e, g
  <2>2. Orderly(g, spent)
    BY <1>1, <2>1
  <2>3. Rises(h)
    BY <1>1, <2>1, <2>2, RisesAppend DEF Orderly, g
  <2>4. \A i \in 1..Len(h) : h[i].num < spent
    <3>1. \A i \in 1..Len(h) : i \in 1..Len(g) /\ g[i] = h[i]
      BY <1>1, <2>1, AppendProperties, LenProperties DEF g
    <3> QED  BY <2>2, <3>1 DEF Orderly
  <2>5. R(g) = OneEvent(R(h), e) /\ R(h) \in Replayed
    BY <1>1, <2>1, ReplayAppend, ReplayFacts DEF g
  <2>6. R(g).ok /\ R(g).zone.astray = {}
    BY <2>2 DEF Orderly
  <2> DEFINE r == R(h)
             s == R(g)
  <2>7. s = OneEvent(r, e) /\ r \in Replayed /\ s.ok /\ s.zone.astray = {}
    BY <2>5, <2>6
  <2> HIDE DEF r, s
  <2>8. r.ok /\ s.zone = Applied(r.zone, e)
    BY <2>7 DEF OneEvent, Replayed
  <2>9. r.zone.astray \subseteq Applied(r.zone, e).astray
    BY DEF Applied
  <2>10. R(h).ok /\ R(h).zone.astray = {}
    BY <2>7, <2>8, <2>9 DEF r
  <2>11. Orderly(h, spent)
    BY <1>1, <2>3, <2>4, <2>10 DEF Orderly
  <2> QED  BY <2>11 DEF h
<1> QED  BY <1>2, <1>3

(* What is loaded or replayed from whole snapshots. *)
LEMMA GoodReloads ==
  ASSUME Typed, NEW z \in Zone, Good(z), MaxUint \notin DOMAIN snaps[z], log # <<>>,
         NEW upTo \in Number, \A n : Latest(snaps[z], upTo, n) => <<z, n>> \in whole
  PROVE  ReloadedAs(History(z), log, snaps[z], z, upTo)
<1> DEFINE h == History(z)
           sn == snaps[z]
<1>1. /\ log \in Seq(Piece) /\ DOMAIN sn \subseteq Number
      /\ \A n \in DOMAIN sn : sn[n] \in Seq(Piece)
  BY DEF Typed, ZonesTyped, SnapsTyped
<1>2. h = HistoryOf(log, z) /\ Rises(h) /\ R(h).ok /\ R(h).zone.astray = {}
  <2>1. Orderly(h, spent)
    BY HistoryOrderly
  <2> QED  BY <2>1 DEF Orderly, History
<1>3. \A n : Latest(sn, upTo, n) => Restores(h, z, n, sn[n])
  BY DEF Good, Kept, Latest
<1>4. MaxUint \notin DOMAIN sn
  OBVIOUS
<1> HIDE DEF h, sn
<1>5. ReloadedAs(h, log, sn, z, upTo)
  BY <1>1, <1>2, <1>3, <1>4, Reloaded
<1> QED  BY <1>5 DEF h, sn

LEMMA SnapshotOfSame ==
  ASSUME NEW z, NEW n, NEW c, NEW d, c.has = d.has
  PROVE  Snapshot(z, c, n) = Snapshot(z, d, n)
BY DEF Snapshot

(* A snapshot that is begun will be what the history made of the Zone. *)
LEMMA OpenGood ==
  ASSUME Typed, GoodInv, Owing, NEW z \in Zone, OpenSnapshot(z) PROVE GoodInv'
<1> DEFINE k == numbers[z]
<1>1. PICK d \in Seq(EventType) :
            /\ d \in Snapshot(z, AsOf(z).zone, k)
            /\ FlattenSeq(WrittenAll(d)) \in Seq(Piece)
            /\ saving' = <<z, FlattenSeq(WrittenAll(d))>>
            /\ world = "saving" /\ saving = <<>> /\ z \in DOMAIN numbers /\ k \in Number
            /\ AsOf(z).ok /\ AsOf(z) \in Replayed
            /\ DOMAIN snaps' = Zone
            /\ \A y \in Zone \ {z} : snaps'[y] = snaps[y]
            /\ DOMAIN snaps'[z] = DOMAIN snaps[z] \cup {k}
            /\ snaps'[z][k] = <<>>
            /\ \A m \in DOMAIN snaps[z] \ {k} : snaps'[z][m] = snaps[z][m]
            /\ whole' = whole \ {<<z, k>>}
            /\ UNCHANGED <<misled, zoneVars, intentVars, halted, numbers, instant, life, world, spent>>
  BY OpenFacts, Zenon
<1>2. UNCHANGED <<zone, writing, log, overlapped>>
  BY <1>1 DEF zoneVars
<1>3. LogShape'
  BY <1>1, <1>2, SameShape DEF GoodInv
<1>4. \A y \in Zone : /\ ~Saves(y) /\ (Saves(y)' <=> y = z)
                      /\ History(y)' = History(y) /\ Done(y)' = Done(y) /\ Pending(y)' = Pending(y)
  BY <1>1, <1>2 DEF Saves, History, Done, Pending
<1>5. ASSUME NEW y \in Zone, Trusted(y)' PROVE Good(y)'
  <2>1. Trusted(y)
    <3>1. DOMAIN snaps[y] \subseteq DOMAIN snaps'[y]
      BY <1>1
    <3> QED  BY <1>1, <1>2, <1>5, <3>1 DEF Trusted
  <2>2. Good(y)
    BY <2>1 DEF GoodInv, AllGood
  <2>3. spent' \in Nat /\ spent <= spent' /\ spent' = spent /\ spent \in Nat
    BY <1>1, ZoneFacts
  <2>4. CASE y # z
    <3>1. \A n : <<y, n>> \in whole' <=> <<y, n>> \in whole
      BY <1>1, <2>4
    <3>2. /\ y \in DOMAIN numbers' => y \in DOMAIN numbers /\ numbers'[y] = numbers[y]
          /\ snaps'[y] = snaps[y] /\ zone'[y] = zone[y] /\ writing'[y] = writing[y]
          /\ life' = "down" <=> life = "down"
      BY <1>1, <1>2, <2>4
    <3> QED  BY <1>4, <2>2, <2>3, <2>4, <3>1, <3>2, SameGood
  <2>5. CASE y = z
    <3> DEFINE h == History(z)
               sn == snaps[z]
    <3>1. k # MaxUint /\ k \in Nat
      BY <1>1, <1>5, <2>5, ZoneFacts DEF Trusted
    <3>2. Kept(z) /\ Taken(z) /\ Good(z)
      BY <2>2, <2>5 DEF Good
    <3>3. /\ \A m \in DOMAIN sn : m <= k
          /\ k < zone[z].next /\ (writing[z] # <<>> => k < Pending(z).num)
      BY <1>1, <3>1, <3>2 DEF Taken
    <3>4. life # "down"
      BY <1>1 DEF Owing
    <3>5. \A m \in DOMAIN sn : <<z, m>> \in whole
      <4>1. ~Saves(z)
        BY <1>4
      <4> QED  BY <3>2, <3>4, <4>1 DEF Kept
    <3>6. /\ Orderly(Done(z), spent) /\ Matches(Done(z), zone[z], DOMAIN sn, spent) /\ Behind(z)
      BY <3>2, <3>4 DEF Good
    <3>7. ReloadedAs(h, log, sn, z, k)
      <4>1. log # <<>>
        BY <1>1, AsOfTyped
      <4>2. MaxUint \notin DOMAIN sn
        BY <2>1, <2>5 DEF Trusted
      <4>3. \A n : Latest(sn, k, n) => <<z, n>> \in whole
        BY <3>5 DEF Latest
      <4> HIDE DEF k
      <4> QED  BY <1>1, <3>2, <4>1, <4>2, <4>3, GoodReloads
    <3> DEFINE file == FlattenSeq(WrittenAll(d))
    <3>8. Restores(h, z, k, file)
      <4>1. PICK q \in 0..Len(h) : /\ IsCut(h, k, q)
                                   /\ AsOf(z).zone.has = R(SubSeq(h, 1, q)).zone.has
        <5> HIDE DEF h, sn
        <5> QED  BY <3>7 DEF ReloadedAs, AsOf, sn
      <4>2. d \in Snapshot(z, R(SubSeq(h, 1, q)).zone, k)
        <5>1. Snapshot(z, AsOf(z).zone, k) = Snapshot(z, R(SubSeq(h, 1, q)).zone, k)
          BY <4>1, SnapshotOfSame
        <5> QED  BY <1>1, <5>1
      <4>3. Begins(file, d) /\ Len(file) = 2 * Len(d)
        BY WrittenFile
      <4> HIDE DEF h, k, file
      <4> QED  BY <4>1, <4>2, <4>3 DEF Restores
    <3>9. <<>> \o file = file /\ file \in Seq(Piece)
      BY <1>1, ConcatEmptySeq
    <3>10. saving'[1] = z /\ saving'[2] = file
      BY <1>1
    <3> HIDE DEF file
    <3>11. Saved(z)'
      <4>1. snaps'[z][numbers'[z]] \o saving'[2] = file /\ numbers'[z] = k
        BY <1>1, <3>9, <3>10
      <4>2. Restores(History(z)', z, numbers'[z], snaps'[z][numbers'[z]] \o saving'[2])
        <5>1. Restores(History(z)', z, k, file)
          BY <1>4, <3>8
        <5> QED  BY <4>1, <5>1
      <4>3. <<z, numbers'[z]>> \notin whole'
        BY <1>1
      <4> QED  BY <4>2, <4>3 DEF Saved
    <3>12. k < spent
      BY <2>3, <3>1, <3>3, <3>6, ZoneFacts DEF Matches
    <3>13. Kept(z)'
      <4>1. \A m \in DOMAIN sn \ {k} : m < spent /\ Restores(h, z, m, sn[m])
        BY <3>2, <3>5 DEF Kept
      <4>2. \A m \in DOMAIN sn \ {k} : <<z, m>> \in whole' /\ snaps'[z][m] = sn[m]
        BY <1>1, <3>5
      <4>3. \A m \in DOMAIN sn \cup {k} : m <= k
        BY <3>1, <3>3
      <4>4. <<z, k>> \notin whole' /\ DOMAIN snaps'[z] = DOMAIN sn \cup {k} /\ numbers'[z] = k
        BY <1>1
      <4>5. History(z)' = h /\ Saves(z)' /\ spent' = spent
        BY <1>4, <2>3
      <4> HIDE DEF k, h, sn
      <4> QED  BY <3>12, <4>1, <4>2, <4>3, <4>4, <4>5 DEF Kept
    <3>14. Behind(z)' /\ Taken(z)'
      <4>1. zone' = zone /\ writing' = writing /\ Pending(z)' = Pending(z)
            /\ numbers' = numbers /\ DOMAIN snaps'[z] = DOMAIN sn \cup {k}
        BY <1>1, <1>2, <1>4
      <4>2. Behind(z)'
        BY <3>3, <3>6, <4>1 DEF Behind
      <4>3. Taken(z)'
        BY <3>1, <3>3, <4>1 DEF Taken
      <4> QED  BY <4>2, <4>3
    <3>15. Orderly(Done(z), spent)' /\ Matches(Done(z), zone[z], DOMAIN snaps[z], spent)'
      <4>1. Matches(Done(z), zone[z], DOMAIN snaps'[z], spent)
        <5>1. DOMAIN sn \subseteq DOMAIN snaps'[z] /\ zone[z].next \in Nat
          BY <1>1, ZoneFacts
        <5> QED  BY <2>3, <3>6, <5>1, MatchesMore
      <4> QED  BY <1>2, <1>4, <2>3, <3>6, <4>1
    <3> QED  BY <2>5, <3>11, <3>13, <3>14, <3>15 DEF Good
  <2> QED  BY <2>4, <2>5
<1> QED  BY <1>3, <1>5 DEF GoodInv, AllGood

(* A part of a snapshot file, or its end. *)
LEMMA SaveGood ==
  ASSUME Typed, GoodInv, Owing, SaveSnapshot PROVE GoodInv'
<1>1. PICK z \in DOMAIN numbers, rest \in Seq(Piece) :
            /\ z \in Zone /\ numbers[z] \in Number /\ numbers[z] \in DOMAIN snaps[z]
            /\ saving # <<>> /\ saving = <<z, rest>>
            /\ snaps[z][numbers[z]] \in Seq(Piece)
            /\ DOMAIN snaps' = Zone
            /\ \A y \in Zone \ {z} : snaps'[y] = snaps[y]
            /\ DOMAIN snaps'[z] = DOMAIN snaps[z]
            /\ \A m \in DOMAIN snaps[z] \ {numbers[z]} : snaps'[z][m] = snaps[z][m]
            /\ \/ /\ rest # <<>>
                  /\ snaps'[z][numbers[z]] = Append(snaps[z][numbers[z]], Head(rest))
                  /\ saving' = <<z, Tail(rest)>>
                  /\ UNCHANGED <<numbers, whole, world>>
               \/ /\ rest = <<>>
                  /\ saving' = <<>>
                  /\ whole' = whole \cup {<<z, numbers[z]>>}
                  /\ DOMAIN numbers' = DOMAIN numbers \ {z}
                  /\ \A y \in DOMAIN numbers \ {z} : numbers'[y] = numbers[y]
                  /\ world' \in {world, "idle"}
                  /\ UNCHANGED snaps
            /\ UNCHANGED <<misled, zoneVars, intentVars, halted, instant, life, spent>>
  BY SaveFacts, Zenon
<1>2. UNCHANGED <<zone, writing, log, overlapped>>
  BY <1>1 DEF zoneVars
<1>3. LogShape'
  BY <1>1, <1>2, SameShape DEF GoodInv
<1>4. life # "down" /\ saving[1] = z /\ saving[2] = rest
  BY <1>1 DEF Owing
<1>5. \A y \in Zone : History(y)' = History(y) /\ Done(y)' = Done(y) /\ Pending(y)' = Pending(y)
  BY <1>1, <1>2 DEF History, Done, Pending
<1>6. ASSUME NEW y \in Zone, Trusted(y)' PROVE Good(y)'
  <2>1. DOMAIN snaps'[y] = DOMAIN snaps[y]
    BY <1>1
  <2>2. Good(y)
    BY <1>1, <1>2, <1>6, <2>1 DEF Trusted, GoodInv, AllGood
  <2>3. spent' \in Nat /\ spent <= spent' /\ spent' = spent
    BY <1>1, ZoneFacts
  <2>4. CASE y # z
    <3>1. ~Saves(y) /\ ~(Saves(y)')
      BY <1>1, <1>4, <2>4 DEF Saves
    <3>2. \A n : <<y, n>> \in whole' <=> <<y, n>> \in whole
      BY <1>1, <2>4
    <3>3. y \in DOMAIN numbers' => y \in DOMAIN numbers /\ numbers'[y] = numbers[y]
      BY <1>1, <2>4
    <3>4. /\ snaps'[y] = snaps[y] /\ zone'[y] = zone[y] /\ writing'[y] = writing[y]
          /\ life' = "down" <=> life = "down"
      BY <1>1, <1>2, <2>4
    <3> QED  BY <1>5, <2>2, <2>3, <3>1, <3>2, <3>3, <3>4, SameGood
  <2>5. CASE y = z
    <3> DEFINE h == History(z)
               k == numbers[z]
               file == snaps[z][k]
    <3>1. Kept(z) /\ Taken(z) /\ Behind(z)
      BY <1>4, <2>2, <2>5 DEF Good
    <3>2. <<z, k>> \notin whole /\ Restores(h, z, k, file \o rest)
      <4>1. Saves(z) /\ Saved(z)
        BY <1>1, <1>4, <2>2, <2>5 DEF Saves, Good
      <4> QED  BY <1>4, <4>1 DEF Saved
    <3>3. Orderly(Done(z), spent)' /\ Matches(Done(z), zone[z], DOMAIN snaps[z], spent)'
      <4>1. Orderly(Done(z), spent) /\ Matches(Done(z), zone[z], DOMAIN snaps[z], spent)
        BY <1>4, <2>2, <2>5 DEF Good
      <4>2. Done(z)' = Done(z) /\ zone' = zone /\ DOMAIN snaps'[z] = DOMAIN snaps[z] /\ spent' = spent
        BY <1>2, <1>5, <2>1, <2>3, <2>5
      <4> QED  BY <4>1, <4>2
    <3>4. Behind(z)'
      BY <1>1, <1>2, <1>5, <3>1 DEF Behind
    <3>5. CASE rest # <<>>
      <4>1. /\ snaps'[z][k] = Append(file, Head(rest)) /\ saving' = <<z, Tail(rest)>>
            /\ UNCHANGED <<numbers, whole>>
        BY <1>1, <3>5
      <4>2. Append(file, Head(rest)) \o Tail(rest) = file \o rest
        BY <1>1, <3>5, OneMoves
      <4>3. saving'[1] = z /\ saving'[2] = Tail(rest) /\ saving' # <<>>
        BY <4>1
      <4>4. Saves(z)' /\ Saves(z)
        BY <1>1, <1>4, <4>3 DEF Saves
      <4>5. Saved(z)'
        <5>1. snaps'[z][numbers'[z]] \o saving'[2] = file \o rest /\ numbers'[z] = k
          BY <4>1, <4>2, <4>3
        <5>2. Restores(History(z)', z, k, file \o rest)
          BY <1>1, <1>5, <3>2
        <5>3. <<z, numbers'[z]>> \notin whole'
          BY <3>2, <4>1
        <5>4. Restores(History(z)', z, numbers'[z], snaps'[z][numbers'[z]] \o saving'[2])
          BY <5>1, <5>2
        <5> QED  BY <5>3, <5>4 DEF Saved
      <4>6. Kept(z)'
        <5>1. \A n \in DOMAIN snaps[z] : <<z, n>> \in whole => n # k /\ snaps'[z][n] = snaps[z][n]
          BY <1>1, <3>2
        <5> QED  BY <1>1, <1>5, <2>3, <3>1, <4>1, <4>4, <5>1 DEF Kept
      <4>7. Taken(z)'
        BY <1>1, <1>2, <1>5, <3>1, <4>1 DEF Taken
      <4> QED  BY <2>5, <3>3, <3>4, <4>5, <4>6, <4>7 DEF Good
    <3>6. CASE rest = <<>>
      <4>1. /\ saving' = <<>> /\ whole' = whole \cup {<<z, k>>}
            /\ DOMAIN numbers' = DOMAIN numbers \ {z} /\ snaps' = snaps
        BY <1>1, <3>6
      <4>2. file \o rest = file
        BY <1>1, <3>6, ConcatEmptySeq
      <4>3. Restores(h, z, k, file)
        BY <3>2, <4>2
      <4>4. Saved(z)' /\ Taken(z)'
        BY <4>1 DEF Saved, Taken, Saves
      <4>5. Kept(z)'
        <5>1. \A n \in DOMAIN snaps[z] : <<z, n>> \notin whole => n = k
          BY <1>4, <3>1 DEF Kept
        <5>2. \A n \in DOMAIN snaps[z] : <<z, n>> \in whole'
          BY <4>1, <5>1
        <5>3. \A n \in DOMAIN snaps[z] : n < spent /\ Restores(h, z, n, snaps[z][n])
          BY <3>1, <4>3, <5>1 DEF Kept
        <5>4. History(z)' = h /\ snaps' = snaps /\ spent' = spent
          BY <1>1, <1>5, <2>3, <4>1
        <5> QED  BY <5>2, <5>3, <5>4 DEF Kept
      <4> QED  BY <2>5, <3>3, <3>4, <4>4, <4>5 DEF Good
    <3> QED  BY <3>5, <3>6
  <2> QED  BY <2>4, <2>5
<1> QED  BY <1>3, <1>6 DEF GoodInv, AllGood

(* The end of a life: at most one write is cut short, of an event that      *)
(* nobody will know of or of a snapshot that was not whole anyway.          *)
LEMMA EndsGood ==
  ASSUME Typed, GoodInv, Owing, life # "down", Ends PROVE GoodInv'
<1>1. /\ life' = "down" /\ numbers' = <<>> /\ saving' = <<>>
      /\ \A z \in Zone : writing'[z] = <<>>
      /\ UNCHANGED <<misled, whole, overlapped>>
      /\ spent' \in Nat /\ spent <= spent' /\ spent \in Nat
  BY BudgetAssumption DEF Ends, Gone, Typed, RestTyped
<1>2. DOMAIN <<>> = {}
  OBVIOUS
<1>3. LogShape'
  BY <1>1 DEF LogShape
<1>4. ASSUME ~overlapped, Zone # {}
      PROVE  ReadEvents(log').events = ReadEvents(log).events
  <2>1. CASE log' = log
    BY <2>1
  <2>2. ASSUME NEW z \in Zone, writing[z] # <<>>, log' = Append(log, Torn(Head(writing[z])))
        PROVE  ReadEvents(log').events = ReadEvents(log).events
    <3> DEFINE t == Torn(Head(writing[z]))
               E == ReadEvents(log).events
    <3>1. log \in Seq(Piece) /\ E \in Seq(EventType) /\ writing[z] \in Seq(Piece)
      BY ReadTyped DEF Typed, ZonesTyped
    <3>2. t \in Piece /\ t.part = "torn"
      <4>1. Head(writing[z]) \in Piece
        BY <2>2, <3>1, HeadTailProperties
      <4> QED  BY <4>1, PieceFacts
    <3> HIDE DEF t, E
    <3>3. CASE Len(log) = 2 * Len(E)
      BY <2>2, <3>1, <3>2, <3>3, PartAfterEvents DEF E, t
    <3>4. ASSUME NEW y \in Zone, Halfway(y),
                 Len(log) = 2 * Len(E) + 1, log[Len(log)] = Header(Pending(y))
          PROVE  ReadEvents(log').events = E
      <4>1. writing[y] # <<>>
        <5>1. Len(<<>>) = 0
          OBVIOUS
        <5> QED  BY <3>4, <5>1 DEF Halfway
      <4>2. Pending(y) \in EventType
        BY <4>1, PendingIs
      <4> QED  BY <2>2, <3>1, <3>2, <3>4, <4>2, PartAfterHeader DEF E, t
    <3> QED  BY <1>4, <3>3, <3>4 DEF GoodInv, LogShape, E
  <2> QED  BY <2>1, <2>2 DEF Ends
<1>5. ASSUME NEW y \in Zone, Trusted(y)' PROVE Good(y)'
  <2>1. DOMAIN snaps'[y] = DOMAIN snaps[y]
    BY DEF Ends
  <2>2. Good(y) /\ ~overlapped
    BY <1>1, <1>5, <2>1 DEF Trusted, GoodInv, AllGood
  <2> DEFINE h == History(y)
  <2>3. History(y)' = h
    BY <1>4, <2>2 DEF History, HistoryOf
  <2>4. Done(y)' = h
    BY <1>1, <2>3 DEF Done
  <2>5. Orderly(h, spent')
    <3>1. Orderly(h, spent)
      BY <2>2, HistoryOrderly
    <3> HIDE DEF h
    <3> QED  BY <1>1, <3>1, OrderlyMore
  <2>6. Saved(y)' /\ Taken(y)'
    BY <1>1, <1>2 DEF Saved, Taken, Saves
  <2>7. Kept(y)'
    <3>1. Kept(y) /\ Saved(y)
      BY <2>2 DEF Good
    <3>2. \A n \in DOMAIN snaps[y] : <<y, n>> \in whole => snaps'[y][n] = snaps[y][n]
      <4>1. CASE snaps' = snaps
        BY <4>1
      <4>2. ASSUME NEW z \in DOMAIN numbers, saving # <<>>, saving[1] = z,
                   \A x \in Zone \ {z} : snaps'[x] = snaps[x],
                   \A m \in DOMAIN snaps[z] \ {numbers[z]} : snaps'[z][m] = snaps[z][m]
            PROVE  \A n \in DOMAIN snaps[y] : <<y, n>> \in whole => snaps'[y][n] = snaps[y][n]
        <5>1. CASE y # z
          BY <4>2, <5>1
        <5>2. CASE y = z
          BY <3>1, <4>2, <5>2 DEF Saved, Saves
        <5> QED  BY <5>1, <5>2
      <4> QED  BY <4>1, <4>2 DEF Ends
    <3>3. \A n \in DOMAIN snaps[y] : n < spent => n < spent'
      BY <1>1, ZoneFacts
    <3>4. \A n \in DOMAIN snaps[y] : <<y, n>> \in whole => Restores(History(y)', y, n, snaps'[y][n])
      BY <2>3, <3>1, <3>2 DEF Kept
    <3> QED  BY <1>1, <2>1, <3>1, <3>3, <3>4 DEF Kept
  <2> QED  BY <1>1, <2>4, <2>5, <2>6, <2>7 DEF Good
<1> QED  BY <1>3, <1>5 DEF GoodInv, AllGood

(* The snapshot to start from, of those that are Sound. *)
LEMMA SoundLatest ==
  ASSUME Typed, NEW z \in Zone, Sound(z)
  PROVE  \A n : Latest(snaps[z], MaxUint, n) =>
                    n # MaxUint /\ <<z, n>> \in whole /\ snaps[z][n] # <<>>
<1> SUFFICES ASSUME NEW n, Latest(snaps[z], MaxUint, n)
             PROVE  n # MaxUint /\ <<z, n>> \in whole /\ snaps[z][n] # <<>>
  OBVIOUS
<1>1. DOMAIN snaps[z] \subseteq Number /\ MaxUint \in Number /\ Number \subseteq Nat
  BY StoreAssumption DEF Typed, SnapsTyped, Number
<1>2. n \in DOMAIN snaps[z] /\ n <= MaxUint /\ \A m \in DOMAIN snaps[z] : m <= MaxUint => m <= n
  BY DEF Latest
<1>3. PICK k : FindPreviousSnapshot(snaps[z], MaxUint) = {k} /\ Latest(snaps[z], MaxUint, k)
  BY <1>1, <1>2, FindsLatest
<1>4. k = n
  <2>1. k \in DOMAIN snaps[z] /\ k <= MaxUint /\ \A m \in DOMAIN snaps[z] : m <= MaxUint => m <= k
    BY <1>3 DEF Latest
  <2>2. k <= n /\ n <= k
    BY <1>2, <2>1
  <2>3. k \in Nat /\ n \in Nat
    BY <1>1, <1>2, <2>1
  <2> QED  BY <2>2, <2>3
<1> QED  BY <1>3, <1>4 DEF Sound

(* What is loaded for a Zone whose files are Good. *)
LoadsAs(h, c, r, sn) ==
    /\ Matches(h, r.zone, DOMAIN sn, spent) /\ \A n \in DOMAIN sn : n < r.zone.next
    /\ ReadEvents(log).ok => r.ok
    /\ \A n \in DOMAIN sn : (\A i \in 1..Len(h) : h[i].kind = "default" => h[i].num <= n)
                               => r.zone.default = {}

LEMMA GoodLoads ==
  ASSUME Typed, NoWrap, NEW z \in Zone, Good(z), Sound(z), MaxUint \notin DOMAIN snaps[z],
         log # <<>>
  PROVE  LoadsAs(History(z), zone[z], Load(log, snaps[z], z), snaps[z])
<1> DEFINE h == History(z)
           sn == snaps[z]
           r == Load(log, sn, z)
<1>1. /\ h \in Seq(EventType) /\ Orderly(h, spent) /\ spent \in Nat /\ spent <= MaxUint
      /\ MaxUint \in Number /\ MaxUint \in Nat
  <2>1. spent \in Nat /\ spent <= Budget /\ MaxUint \in Nat
    BY ZoneFacts
  <2>2. spent <= MaxUint
    BY <2>1, BudgetAssumption DEF NoWrap
  <2> QED  BY <2>1, <2>2, HistoryTyped, HistoryOrderly DEF Number
<1>2. \A n : Latest(sn, MaxUint, n) => <<z, n>> \in whole /\ sn[n] # <<>>
  BY SoundLatest
<1>3. ReloadedAs(h, log, sn, z, MaxUint)
  BY <1>1, <1>2, GoodReloads
<1>4. \A n \in DOMAIN sn : n < spent /\ n <= MaxUint
  <2>1. \A n \in DOMAIN sn : n < spent
    BY DEF Good, Kept
  <2>2. \A n \in DOMAIN sn : n \in Nat
    BY ZoneFacts
  <2> QED  BY <1>1, <2>1, <2>2
<1>5. r = Replay(RetrieveEvents(log, sn, z, MaxUint))
  BY DEF Load
<1> HIDE DEF h, sn, r
<1>6. PICK q \in 0..Len(h) :
           /\ IsCut(h, MaxUint, q) /\ r \in Replayed
           /\ ReadEvents(log).ok => r.ok
           /\ r.zone.has = R(SubSeq(h, 1, q)).zone.has /\ r.zone.astray = {}
           /\ \/ r.zone.default = R(SubSeq(h, 1, q)).zone.default
              \/ /\ r.zone.default = {}
                 /\ \E n \in DOMAIN sn : \A i \in 1..q : h[i].kind = "default" => h[i].num <= n
           /\ \A n \in DOMAIN sn :
                 n <= MaxUint /\ (\A i \in 1..q : h[i].kind = "default" => h[i].num <= n)
                    => r.zone.default = {}
           /\ \A b \in Nat :
                 /\ b <= MaxUint
                 /\ \A i \in 1..q : h[i].num < b
                 /\ \A n \in DOMAIN sn : n < b
                 /\ \A n : Latest(sn, MaxUint, n) => sn[n] # <<>>
                 => /\ r.zone.next <= b
                    /\ \A i \in 1..q : h[i].num < r.zone.next
                    /\ \A n \in DOMAIN sn : n <= MaxUint => n < r.zone.next
  BY <1>3, <1>5 DEF ReloadedAs
<1>7. \A i \in 1..Len(h) : h[i].num \in Nat /\ h[i].num < spent
  BY <1>1, Numbered DEF Orderly
<1>8. q = Len(h) /\ SubSeq(h, 1, q) = h
  <2>1. Len(h) \in Nat
    BY <1>1, LenProperties
  <2>2. \A i \in 1..Len(h) : h[i].num <= MaxUint
    BY <1>1, <1>7
  <2>3. IsCut(h, MaxUint, Len(h))
    BY <2>1, <2>2 DEF IsCut
  <2>4. q = Len(h)
    BY <1>1, <1>6, <2>3, CutUnique
  <2> QED  BY <1>1, <2>4, SubSeqFull
<1>9. /\ r.zone.next <= spent
      /\ \A i \in 1..Len(h) : h[i].num < r.zone.next
      /\ \A n \in DOMAIN sn : n < r.zone.next
  BY <1>1, <1>2, <1>4, <1>6, <1>7, <1>8
<1>10. Matches(h, r.zone, DOMAIN sn, spent)
  <2>1. r.zone.has = R(h).zone.has /\ r.zone.astray = {}
    BY <1>6, <1>8
  <2>2. \/ r.zone.default = R(h).zone.default
        \/ r.zone.default = {} /\ Forgets(h, DOMAIN sn)
    BY <1>6, <1>8 DEF Forgets
  <2> QED  BY <1>9, <2>1, <2>2 DEF Matches
<1>11. \A n \in DOMAIN sn : (\A i \in 1..Len(h) : h[i].kind = "default" => h[i].num <= n)
                               => r.zone.default = {}
  BY <1>4, <1>6, <1>8
<1>12. LoadsAs(h, zone[z], r, sn)
  BY <1>6, <1>9, <1>10, <1>11 DEF LoadsAs
<1> QED  BY <1>12 DEF h, r, sn

LEMMA StartGood ==
  ASSUME Typed, GoodInv, Owing, SnapshotInv, NoWrap, Start PROVE GoodInv'
<1>1. /\ life = "down" /\ life' = "starting"
      /\ \A z \in Zone : Load(log, snaps[z], z).ok /\ zone'[z] = Load(log, snaps[z], z).zone
      /\ misled' = misled \cup {z \in Zone : ~Sound(z)}
      /\ UNCHANGED <<snaps, numbers, saving, whole, writing, log, overlapped, spent>>
  BY DEF Start, snapVars
<1>2. /\ saving = <<>> /\ numbers = <<>> /\ DOMAIN <<>> = {}
      /\ \A z \in Zone : writing[z] = <<>>
  BY <1>1 DEF Owing, SnapshotInv, Typed, ZonesTyped
<1>3. \A z \in Zone : log # <<>> /\ ReadEvents(log).ok
  BY <1>1, LoadTyped
<1>4. LogShape'
  <2> SUFFICES ASSUME Zone # {} PROVE LogShape'
    BY DEF LogShape
  <2>1. Len(log) = 2 * Len(ReadEvents(log).events)
    BY <1>3, ReadTyped DEF Typed, ZonesTyped
  <2>2. \A z \in Zone : ~(Halfway(z)')
    <3>1. Len(<<>>) = 0
      OBVIOUS
    <3> QED  BY <1>1, <1>2, <3>1 DEF Halfway
  <2> QED  BY <1>1, <2>1, <2>2 DEF LogShape
<1>5. ASSUME NEW z \in Zone, Trusted(z)' PROVE Good(z)'
  <2>1. Trusted(z) /\ Sound(z)
    BY <1>1, <1>5 DEF Trusted
  <2>2. Good(z) /\ MaxUint \notin DOMAIN snaps[z]
    BY <2>1 DEF GoodInv, AllGood, Trusted
  <2> DEFINE h == History(z)
             r == Load(log, snaps[z], z)
  <2>3. Done(z) = h /\ Done(z)' = h /\ History(z)' = h
    BY <1>1, <1>2 DEF Done, History
  <2>4. Orderly(Done(z), spent)'
    BY <1>1, <2>2, <2>3 DEF Good
  <2>5. LoadsAs(h, zone[z], r, snaps[z])
    BY <1>3, <2>1, <2>2, GoodLoads
  <2>6. Matches(Done(z), zone[z], DOMAIN snaps[z], spent)'
    <3>1. Matches(h, zone'[z], DOMAIN snaps[z], spent)
      BY <1>1, <2>5 DEF LoadsAs
    <3> QED  BY <1>1, <2>3, <3>1
  <2>7. Behind(z)'
    <3>1. \A n \in DOMAIN snaps[z] : n < zone'[z].next
      BY <1>1, <2>5 DEF LoadsAs
    <3> QED  BY <1>1, <1>2, <3>1 DEF Behind
  <2>8. Saved(z)' /\ Taken(z)'
    BY <1>1, <1>2 DEF Saved, Taken, Saves
  <2>9. Kept(z)'
    <3>1. Kept(z)
      BY <2>2 DEF Good
    <3>2. \A n \in DOMAIN snaps[z] : n < spent /\ n <= MaxUint
      <4>1. \A n \in DOMAIN snaps[z] : n < spent
        BY <3>1 DEF Kept
      <4>2. \A n \in DOMAIN snaps[z] : n \in Number
        BY ZoneFacts
      <4> QED  BY <4>1, <4>2, StoreAssumption DEF Number
    <3>3. \A n \in DOMAIN snaps[z] : <<z, n>> \in whole
      <4> SUFFICES ASSUME NEW n \in DOMAIN snaps[z], <<z, n>> \notin whole PROVE FALSE
        OBVIOUS
      <4>1. \A m \in DOMAIN snaps[z] : m <= n
        BY <3>1 DEF Kept
      <4>2. Latest(snaps[z], MaxUint, n)
        BY <3>2, <4>1 DEF Latest
      <4> QED  BY <2>1, <4>2, SoundLatest
    <3>4. \A n \in DOMAIN snaps[z] : Restores(h, z, n, snaps[z][n])
      BY <3>1, <3>3 DEF Kept
    <3> QED  BY <1>1, <2>3, <3>2, <3>3, <3>4 DEF Kept
  <2> QED  BY <2>4, <2>6, <2>7, <2>8, <2>9 DEF Good
<1> QED  BY <1>4, <1>5 DEF GoodInv, AllGood

LEMMA GoodNext == NoWrap /\ IntentInv /\ SnapshotInv /\ Typed /\ GoodInv /\ [Next]_vars => GoodInv'
<1> SUFFICES ASSUME NoWrap, IntentInv, SnapshotInv, Typed, GoodInv, [Next]_vars PROVE GoodInv'
  OBVIOUS
<1>1. Owing /\ Lists
  BY DEF IntentInv
<1>2. AsideStep => GoodInv'
  BY <1>1, AsideSteps, AsideGood
<1>3. life # "down" /\ Ends => GoodInv'
  BY <1>1, EndsGood
<1> QED  BY <1>1, <1>2, <1>3, NextIs, CommandGood, PersistGood, StopGood, ReadNumberGood, OpenGood,
            FailsGood, SaveGood, StartGood

LEMMA GoodRebuilds == NoWrap /\ Typed /\ GoodInv => RestartRebuilds
<1> SUFFICES ASSUME NoWrap, Typed, GoodInv,
                    life = "up", ~overlapped, log # <<>>, \A z \in Zone : writing[z] = <<>>,
                    NEW z \in Zone, z \notin misled, Sound(z)
             PROVE  /\ Load(log, snaps[z], z).ok
                    /\ Load(log, snaps[z], z).zone.has = zone[z].has
                    /\ Load(log, snaps[z], z).zone.astray = zone[z].astray
                    /\ Load(log, snaps[z], z).zone.default \in {{}, zone[z].default}
  BY DEF RestartRebuilds
<1>1. MaxUint \notin DOMAIN snaps[z]
  <2> SUFFICES ASSUME MaxUint \in DOMAIN snaps[z] PROVE FALSE
    OBVIOUS
  <2>1. \A m \in DOMAIN snaps[z] : m <= MaxUint
    BY StoreAssumption DEF Typed, SnapsTyped, Number
  <2>2. Latest(snaps[z], MaxUint, MaxUint)
    BY <2>1 DEF Latest
  <2> QED  BY <2>2, SoundLatest
<1>2. Good(z)
  BY <1>1 DEF GoodInv, AllGood, Trusted
<1> DEFINE h == History(z)
           r == Load(log, snaps[z], z)
<1>3. LoadsAs(h, zone[z], r, snaps[z])
  BY <1>1, <1>2, GoodLoads
<1>4. ReadEvents(log).ok
  <2>1. \A y \in Zone : ~Halfway(y)
    <3>1. Len(<<>>) = 0
      OBVIOUS
    <3> QED  BY <3>1 DEF Halfway
  <2>2. Len(log) = 2 * Len(ReadEvents(log).events)
    BY <2>1 DEF GoodInv, LogShape
  <2> DEFINE E == ReadEvents(log).events
  <2>3. /\ log \in Seq(Piece) /\ E \in Seq(EventType) /\ Begins(log, E)
        /\ 2 * (Len(E) + 1) <= Len(log) => ~IsEventAt(log, Len(E) + 1)
    BY ReadTyped DEF Typed, ZonesTyped
  <2>4. Len(log) = 2 * Len(E)
    BY <2>2
  <2> HIDE DEF E
  <2> QED  BY <2>3, <2>4, ReadIs
<1>5. Matches(h, zone[z], DOMAIN snaps[z], spent)
  BY <1>2 DEF Good, Done
<1> HIDE DEF h, r
<1>6. /\ r.ok /\ Matches(h, r.zone, DOMAIN snaps[z], spent)
      /\ \A n \in DOMAIN snaps[z] : (\A i \in 1..Len(h) : h[i].kind = "default" => h[i].num <= n)
                                      => r.zone.default = {}
  BY <1>3, <1>4 DEF LoadsAs
<1>7. r.zone.has = zone[z].has /\ r.zone.astray = zone[z].astray
  BY <1>5, <1>6 DEF Matches
<1>8. r.zone.default \in {{}, zone[z].default}
  <2>1. Forgets(h, DOMAIN snaps[z]) => r.zone.default = {}
    BY <1>6 DEF Forgets
  <2> QED  BY <1>5, <1>6, <2>1 DEF Matches
<1> QED  BY <1>6, <1>7, <1>8 DEF r

(* A start loads what a Zone has in memory, from its snapshot and the events *)
(* after it, whatever was cut short before: while no two Zones have been     *)
(* writing at once, and numbers do not come around.                          *)
THEOREM RestartsRebuild ==
  ASSUME Budget < MaxUint
  PROVE  Spec => []RestartRebuilds
<1>1. NoWrap
  BY DEF NoWrap
<1>2. Spec => []IntentInv
  BY IntentInit, IntentNext, PTL DEF Spec
<1>3. Spec => []SnapshotInv
  BY <1>2, SnapshotInit, SnapshotNext, PTL DEF Spec
<1>4. Spec => []Typed
  BY <1>2, TypedInit, TypedNext, PTL DEF Spec
<1>5. GoodInv /\ IntentInv /\ SnapshotInv /\ Typed /\ [Next]_vars => GoodInv'
  BY <1>1, GoodNext
<1>6. Spec => []GoodInv
  BY <1>2, <1>3, <1>4, <1>5, GoodInit, PTL DEF Spec
<1>7. Typed /\ GoodInv => RestartRebuilds
  BY <1>1, GoodRebuilds
<1> QED  BY <1>4, <1>6, <1>7, PTL
=============================================================================
