------------------------------ MODULE EventStore ------------------------------
(***************************************************************************)
(* What is in the files of the event store (store/) and what a reader makes*)
(* of them.                                                                *)
(*                                                                         *)
(* One file takes the events of all Zones, a snapshot file those that      *)
(* rebuild one Zone.  An event is written in two parts, a header of fixed  *)
(* length that says how long the body is, and the body.  A file is a       *)
(* sequence of parts; a part that was cut short by a crash is "torn".      *)
(* Reading goes by lengths alone: when the part after a header is not its  *)
(* own body, what is read does not parse, and reading ends with an error.  *)
(* A content is what a Zone holds; data other than what depends on what    *)
(* are left out, and so is compression.                                    *)
(***************************************************************************)
EXTENDS Integers, Sequences, FiniteSets, SequencesExt

CONSTANTS
    Zone,
    Location,  \* Items that are in nothing
    Item,      \* what a Zone may hold
    Container, \* [Item -> SUBSET Item], where an Item is when it is added
    MaxUint    \* the largest unsigned number (2^64 - 1 in the code)

ASSUME StoreAssumption ==
    /\ MaxUint \in Nat \ {0}
    /\ Location \subseteq Item
    /\ Container \in [Item -> SUBSET Item]
    /\ \A i \in Item : i \notin Container[i] /\ (i \in Location <=> Container[i] = {})

Number == 0..MaxUint

Plus(n, k) == (n + k) % (MaxUint + 1)

(* Events.  A "dodge" is never written to a file, nor does it change the   *)
(* content of a Zone; it does take a number.                               *)
Event(z, n, kind, item) == [zone |-> z, num |-> n, kind |-> kind, item |-> item]

ShouldPersist(e) == e.kind # "dodge"

Header(e) == [part |-> "header", of |-> e]
Body(e)   == [part |-> "body", of |-> e]
Torn(p)   == [part |-> "torn", of |-> p.of]

Written(e) == <<Header(e), Body(e)>>

(* readEvent until the end of the file or the first error. *)
ReadEvents(file) ==
    LET IsEvent(i) ==
            /\ file[2*i - 1].part = "header"
            /\ file[2*i] = Body(file[2*i - 1].of)
        good == {i \in 1..(Len(file) \div 2) : \A j \in 1..i : IsEvent(j)}
    IN  [events |-> [i \in good |-> file[2*i].of], ok |-> 2 * Cardinality(good) = Len(file)]

-----------------------------------------------------------------------------
(* The content of a Zone.  astray has what was added while it was there,   *)
(* and is listed twice from then on, or in something that was not there.   *)

Content == [has : SUBSET Item, astray : SUBSET Item, default : SUBSET Location, next : Number]

NewZone == [has |-> {}, astray |-> {}, default |-> {}, next |-> 0]

(* What the Zone makes of an event, and whether it is an error. *)
Applicable(zone, e) == e.kind \in {"remove", "default"} => e.item \in zone.has

Applied(zone, e) ==
    LET adds == IF e.kind = "add" THEN {e.item} ELSE {}
    IN  [has     |-> (zone.has \ (IF e.kind = "remove" THEN {e.item} ELSE {})) \cup adds,
         astray  |-> zone.astray
                        \cup {i \in adds : i \in zone.has \/ ~(Container[i] \subseteq zone.has)},
         default |-> IF e.kind = "default" THEN {e.item} ELSE zone.default,
         next    |-> Plus(e.num, 1)]

(* ReplayEvents stops at the first error, be it of the stream or of the    *)
(* Zone.                                                                   *)
Replay(stream) ==
    LET after[k \in 0..Len(stream.events)] ==
            IF k = 0 THEN [ok |-> TRUE, zone |-> NewZone]
            ELSE LET before == after[k-1]
                     e      == stream.events[k]
                 IN  IF before.ok /\ Applicable(before.zone, e)
                     THEN [ok |-> TRUE, zone |-> Applied(before.zone, e)]
                     ELSE [before EXCEPT !.ok = FALSE]
        last == after[Len(stream.events)]
    IN  [last EXCEPT !.ok = @ /\ stream.ok]

(* Wrong on purpose: a number below zero. *)
LastNumberSigned(zone) == zone.next - 1

LastSequenceNum(zone) == Plus(zone.next, MaxUint)

-----------------------------------------------------------------------------
(* The snapshot of the Zone to start from, of those not above upTo. *)
FindPreviousSnapshot(snaps, upTo) ==
    LET old == {n \in DOMAIN snaps : n <= upTo}
    IN  IF old = {} THEN {} ELSE {CHOOSE n \in old : \A m \in old : m <= n}

(* Wrong on purpose: the event the snapshot corresponds to comes again. *)
FirstAfterTooEarly(snap) == IF snap = {} THEN 0 ELSE CHOOSE n \in snap : TRUE

FirstAfter(snap) == IF snap = {} THEN 0 ELSE Plus(CHOOSE n \in snap : TRUE, 1)

(* Those of z, from number first on. *)
EventsOf(events, z, first) ==
    LET kept[k \in 0..Len(events)] ==
            IF k = 0 THEN <<>>
            ELSE IF events[k].zone = z /\ events[k].num >= first
                 THEN Append(kept[k-1], events[k]) ELSE kept[k-1]
    IN  kept[Len(events)]

(* The first event above upTo ends the stream, and whatever error lies     *)
(* behind it is never seen.                                                *)
FromLog(log, z, first, upTo) ==
    LET read  == ReadEvents(log)
        mine  == EventsOf(read.events, z, first)
        above == {i \in DOMAIN mine : mine[i].num > upTo}
    IN  IF above = {} THEN [events |-> mine, ok |-> read.ok]
        ELSE [events |-> SubSeq(mine, 1, (CHOOSE i \in above : \A j \in above : i <= j) - 1),
              ok     |-> TRUE]

(* RetrieveEventsUpToSequenceNumForZone: the snapshot and what is after.   *)
(* There is no file before the first event is written; an error in the     *)
(* snapshot does not end the stream, but it does the replay.               *)
RetrieveEvents(log, snaps, z, upTo) ==
    LET snap  == FindPreviousSnapshot(snaps, upTo)
        after == FromLog(log, z, FirstAfter(snap), upTo)
    IN  CASE log = <<>> -> [events |-> <<>>, ok |-> FALSE]
          [] log # <<>> /\ snap = {} -> after
          [] OTHER -> LET read == ReadEvents(snaps[CHOOSE n \in snap : TRUE])
                      IN  IF read.ok THEN [after EXCEPT !.events = read.events \o @] ELSE read

(* LoadZone *)
Load(log, snaps, z) == Replay(RetrieveEvents(log, snaps, z, MaxUint))

-----------------------------------------------------------------------------
(* Zone.snapshot.  What an Item is in is visited before it, whether it is   *)
(* in the Zone any more or not; what is not is in nothing, and to ask it    *)
(* what it is in is a panic.                                                *)
SnapshotPanics(zone) == \E i \in zone.has : ~(Container[i] \subseteq zone.has)

Snapshot(z, zone, n) ==
    {[i \in DOMAIN s |-> Event(z, n, "add", s[i])] :
        s \in {t \in SetToSeqs(zone.has) :
                \A i \in DOMAIN t : Container[t[i]] \subseteq {t[j] : j \in 1..(i-1)}}}
=============================================================================
