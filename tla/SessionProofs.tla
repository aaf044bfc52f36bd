----------------------------- MODULE SessionProofs -----------------------------
(***************************************************************************)
(* The websocket session, for any number of Zones and of others who ask    *)
(* them, and channels of any length: every variable has its type, and a    *)
(* session that has stopped observes its Actor no more.                    *)
(***************************************************************************)
EXTENDS Session, SequenceTheorems, FiniteSetTheorems, TLAPS

RequestType ==
    [zone : Zone, kind : {"speak", "move", "in", "out"}, seen : Nat,
     sent : BOOLEAN, lost : BOOLEAN]

AtMostOne(S) == {{}} \cup {{x} : x \in S}

(* The types of what the invariant is about; TypeOK asks no more of them   *)
(* than their lengths.                                                     *)
Typed ==
    /\ queue \in [Zone -> Seq(Caller)]
    /\ serving \in [Zone -> AtMostOne(Caller)]
    /\ deliver \in [Zone -> Nat] /\ observers \in [Zone -> Nat] /\ guests \in [Zone -> Nat]
    /\ running \subseteq Zone /\ stopping \subseteq Zone /\ here \subseteq Zone
    /\ asks \in [Caller -> AtMostOne(RequestType)]
    /\ actor \in AtMostOne(Zone)
    /\ recv \in {"check", "reading", "decoding", "moving", "migrating", "replying", "ended"}

(* Caller c has a request with the loop of z, or in its channel. *)
Pending(c, z) ==
    \E r \in RequestType : asks[c] = {r} /\ r.zone = z /\ r.sent /\ ~r.lost

(* A request is in one channel, once, or with the loop that took it, for   *)
(* as long as its caller waits.                                            *)
Channel(z) ==
    /\ Len(queue[z]) <= RequestCap
    /\ \A i \in 1..Len(queue[z]) : /\ Pending(queue[z][i], z)
                                   /\ queue[z][i] \notin serving[z]
    /\ \A i, j \in 1..Len(queue[z]) : queue[z][i] = queue[z][j] => i = j
    /\ \A c \in serving[z] : Pending(c, z)

Channels == \A z \in Zone : Channel(z)

(* The World waits for a Zone only for a migration, and the Actor is in the *)
(* Zone it goes to before it leaves the other.                             *)
Kinds == \A c \in Caller \ {World} : \A r \in asks[c] : r.kind \in {"speak", "move"}

Entering(src, dst) ==
    /\ world = <<"in", src, dst>>
    /\ asks[World] = {} => dst \in here
    /\ \A r \in asks[World] : r.zone = dst /\ r.kind = "in"
    /\ World \in serving[dst] => dst \in here

Leaving(src, dst) ==
    /\ world = <<"out", src, dst>>
    /\ dst \in here
    /\ \A r \in asks[World] : r.zone = src /\ r.kind = "out"

Errand ==
    \/ world \in {<<"idle">>, <<"stops">>, <<"starts">>} /\ asks[World] = {}
    \/ /\ recv = "migrating"
       /\ \E src, dst \in Zone : src # dst /\ (Entering(src, dst) \/ Leaving(src, dst))

Duties ==
    /\ Kinds /\ Errand
    /\ asks[Me] # {} => recv = "moving"
    /\ here # {}

(* A Zone that does not run works on nothing, and only a snapshot stops    *)
(* Zones.                                                                  *)
Paused ==
    /\ \A z \in Zone \ running : serving[z] = {}
    /\ CASE world = <<"stops">>  -> Zone \ running \subseteq stopping
         [] world = <<"starts">> -> stopping = Zone \ running
         [] OTHER                -> running = Zone /\ stopping = {}

(* The session observes its Actor once and nobody else, until there has    *)
(* been a migration or it attached too late.                               *)
Watched ==
    migrated \/ late
        \/ /\ observers = [z \in Zone |-> IF z \in actor THEN 1 ELSE 0]
           /\ guests = [z \in Zone |-> 0]
           /\ asks[World] = {}
           /\ world \in {<<"idle">>, <<"stops">>, <<"starts">>}
           /\ stopped => actor = {}

(* The channels of the session and its goroutines. *)
Inside ==
    /\ events \in 0..SendQueueLen /\ sends \in 0..SendQueueLen
    /\ fwd \in {"idle", "holding", "ended"}
    /\ snd \in {"idle", "writing", "failing", "broken", "closing", "ended"}
    /\ client \in {"reads", "stalls", "closed"}

SessionInv == Typed /\ Channels /\ Duties /\ Paused /\ Watched /\ Inside

-----------------------------------------------------------------------------
(* What the steps do to what the invariant is about: most of what goes on  *)
(* inside the session is nothing to the Zones.                             *)

(* The session goes on, its Actor and its Zones as they were. *)
Inner ==
    \/ Check \/ MoveActor \/ Reply \/ TakeEvent \/ Forward \/ ForwarderStops
    \/ TakeMessage \/ Write \/ SenderStops \/ Close \/ ClientStalls \/ ClientLeaves

Halts == Evict \/ ReadFails \/ ReadNonsense \/ WriteFails

LEMMA InnerFrame ==
  ASSUME Inner
  PROVE  /\ UNCHANGED <<queue, serving, deliver, running, stopping, here, observers, guests>>
         /\ UNCHANGED <<asks, actor, stopped, world, migrated, late>>
         /\ recv' # recv => /\ recv \notin {"moving", "migrating"}
                            /\ recv' \in {"check", "reading", "decoding", "ended"}
<1>1. CASE Check         BY <1>1 DEF Check, zoneVars
<1>2. CASE MoveActor     BY <1>2 DEF MoveActor, zoneVars
<1>3. CASE Reply         BY <1>3 DEF Reply, zoneVars
<1>4. CASE TakeEvent     BY <1>4 DEF TakeEvent, zoneVars
<1>5. CASE Forward       BY <1>5 DEF Forward, zoneVars
<1>6. CASE ForwarderStops  BY <1>6 DEF ForwarderStops, zoneVars
<1>7. CASE TakeMessage   BY <1>7 DEF TakeMessage, zoneVars
<1>8. CASE Write         BY <1>8 DEF Write, zoneVars
<1>9. CASE SenderStops   BY <1>9 DEF SenderStops, zoneVars
<1>10. CASE Close        BY <1>10 DEF Close, zoneVars
<1>11. CASE ClientStalls BY <1>11 DEF ClientStalls, zoneVars
<1>12. CASE ClientLeaves BY <1>12 DEF ClientLeaves, zoneVars
<1> QED  BY <1>1, <1>2, <1>3, <1>4, <1>5, <1>6, <1>7, <1>8, <1>9, <1>10, <1>11, <1>12 DEF Inner

LEMMA HaltsFrame ==
  ASSUME Halts
  PROVE  /\ UNCHANGED <<queue, serving, deliver, running, stopping, here, guests>>
         /\ UNCHANGED <<asks, world, migrated, late>>
         /\ recv' = recv \/ (recv = "reading" /\ recv' = "check")
         /\ \/ UNCHANGED <<actor, observers, stopped>>
            \/ /\ actor' = {}
               /\ observers' = [z \in Zone |-> IF z \in actor /\ observers[z] > 0
                                               THEN observers[z] - 1 ELSE observers[z]]
<1>1. CASE Evict
  BY <1>1 DEF Evict, StopOnce
<1>2. CASE ReadFails
  BY <1>2 DEF ReadFails, StopOnce
<1>3. CASE WriteFails
  BY <1>3 DEF WriteFails, StopOnce
<1>4. CASE ReadNonsense
  BY <1>4 DEF ReadNonsense, StopOnce
<1> QED  BY <1>1, <1>2, <1>3, <1>4 DEF Halts

(* The other steps, those of the Zones, the World and the callers. *)
Outer ==
    \/ \E c \in Caller : Send(c)
    \/ \E z \in Zone : Take(z) \/ SendEvent(z) \/ Answer(z)
    \/ \E z \in Zone : StopZone(z) \/ ZoneStops(z) \/ StartZone(z)
    \/ \E src, dst \in Zone : MigrateIn(src, dst) \/ MigrateOut(src, dst) \/ Migrated(src, dst)
    \/ \E c \in Walker, z \in Zone : Ask(c, z)
    \/ \E z \in Zone : AttachActor(z)
    \/ Snapshot \/ Decoded

LEMMA StepKinds ==
  ASSUME [Next]_vars
  PROVE  Inner \/ Halts \/ Outer \/ UNCHANGED vars
BY DEF Next, Goroutines, Inner, Halts, Outer

-----------------------------------------------------------------------------
(* Types *)

LEMMA Callers == Me \in Caller /\ World \in Caller /\ Me # World /\ Walker \subseteq Caller \ {Me, World}
BY SessionAssumption DEF Caller, Me, World

LEMMA OneIsAtMostOne ==
  ASSUME NEW S
  PROVE  {} \in AtMostOne(S) /\ \A x \in S : {x} \in AtMostOne(S)
BY DEF AtMostOne

LEMMA AtMostOneIs ==
  ASSUME NEW S, NEW A \in AtMostOne(S), NEW x \in A
  PROVE  x \in S /\ A = {x}
BY DEF AtMostOne

LEMMA TypedRequest ==
  ASSUME Typed, NEW c \in Caller, NEW r \in asks[c]
  PROVE  r \in RequestType /\ asks[c] = {r}
<1>1. asks[c] \in AtMostOne(RequestType)  BY DEF Typed
<1> QED  BY <1>1, AtMostOneIs

LEMMA TypedServing ==
  ASSUME Typed, NEW z \in Zone, NEW c \in serving[z]
  PROVE  c \in Caller /\ serving[z] = {c}
<1>1. serving[z] \in AtMostOne(Caller)  BY DEF Typed
<1> QED  BY <1>1, AtMostOneIs

LEMMA TypedActor ==
  ASSUME Typed, NEW z \in actor
  PROVE  z \in Zone /\ actor = {z}
BY AtMostOneIs DEF Typed

LEMMA RequestIsTyped ==
  ASSUME NEW z \in Zone, NEW kind \in {"speak", "move", "in", "out"}, NEW n \in Nat
  PROVE  Request(z, kind, n) \in RequestType
BY DEF Request, RequestType

LEMMA OuterTyped ==
  ASSUME Typed, Duties, Outer
  PROVE  Typed'
<1>0. /\ {} \in AtMostOne(RequestType) /\ \A r \in RequestType : {r} \in AtMostOne(RequestType)
      /\ {} \in AtMostOne(Caller) /\ \A c \in Caller : {c} \in AtMostOne(Caller)
      /\ \A z \in Zone : {z} \in AtMostOne(Zone)
  BY OneIsAtMostOne
<1> USE <1>0 DEF Typed
<1>1. ASSUME NEW c \in Caller, Send(c) PROVE Typed'
  <2>1. PICK r \in asks[c] : /\ queue' = [queue EXCEPT ![r.zone] = Append(@, c)]
                             /\ asks' = [asks EXCEPT ![c] = {[r EXCEPT !.sent = TRUE]}]
    BY <1>1 DEF Send
  <2>2. r \in RequestType
    BY TypedRequest
  <2>6. [r EXCEPT !.sent = TRUE] \in RequestType /\ r.zone \in Zone
    BY <2>2 DEF RequestType
  <2>3. asks' \in [Caller -> AtMostOne(RequestType)]
    BY <2>1, <2>6
  <2>4. queue' \in [Zone -> Seq(Caller)]
    <3>1. Append(queue[r.zone], c) \in Seq(Caller)  BY <2>6
    <3> QED  BY <2>1, <2>6, <3>1
  <2>5. UNCHANGED <<serving, deliver, running, stopping, here, observers, guests, actor, recv>>
    BY <1>1 DEF Send, sessionVars
  <2> QED  BY <2>3, <2>4, <2>5
<1>2. ASSUME NEW z \in Zone, Take(z) PROVE Typed'
  <2>1. PICK r \in asks[Head(queue[z])] :
          /\ serving' = [serving EXCEPT ![z] = {Head(queue[z])}]
          /\ queue' = [queue EXCEPT ![z] = Tail(@)]
          /\ deliver' = [deliver EXCEPT ![z] = Copies(z, r.kind)]
          /\ here' = CASE r.kind = "in"  -> here \cup {z}
                       [] r.kind = "out" -> here \ {z}
                       [] OTHER          -> here
    BY <1>2 DEF Take
  <2>2. queue[z] \in Seq(Caller) /\ queue[z] # <<>>
    BY <1>2 DEF Take
  <2>3. Head(queue[z]) \in Caller /\ Tail(queue[z]) \in Seq(Caller)
    BY <2>2, HeadTailProperties
  <2>4. Copies(z, r.kind) \in Nat
    BY DEF Copies, Least
  <2>5. here' \subseteq Zone
    BY <2>1
  <2>6. UNCHANGED <<running, stopping, observers, guests, asks, actor, recv>>
    BY <1>2 DEF Take, sessionVars
  <2> QED  BY <2>1, <2>3, <2>4, <2>5, <2>6
<1>3. ASSUME NEW z \in Zone, SendEvent(z) PROVE Typed'
  BY <1>3 DEF SendEvent
<1>4. ASSUME NEW z \in Zone, Answer(z) PROVE Typed'
  <2>1. PICK c \in serving[z] : \E r \in asks[c] :
          /\ serving' = [serving EXCEPT ![z] = {}]
          /\ asks' = [asks EXCEPT ![c] = {}]
          /\ observers' = [observers EXCEPT ![z] = IF r.kind = "in" THEN r.seen ELSE @]
          /\ recv' = IF c = Me THEN "replying" ELSE recv
    BY <1>4 DEF Answer
  <2>2. PICK r \in asks[c] :
          observers' = [observers EXCEPT ![z] = IF r.kind = "in" THEN r.seen ELSE @]
    BY <2>1
  <2>3. c \in Caller /\ r \in RequestType
    BY TypedServing, TypedRequest
  <2>7. r.seen \in Nat
    BY <2>3 DEF RequestType
  <2>4. observers' \in [Zone -> Nat]
    BY <2>2, <2>7
  <2>5. asks' \in [Caller -> AtMostOne(RequestType)] /\ serving' \in [Zone -> AtMostOne(Caller)]
    BY <2>1, <2>3
  <2>6. UNCHANGED <<queue, deliver, running, stopping, here, guests, actor>>
    BY <1>4 DEF Answer
  <2> QED  BY <2>1, <2>4, <2>5, <2>6
<1>5. ASSUME NEW z \in Zone, StopZone(z) \/ ZoneStops(z) PROVE Typed'
  BY <1>5 DEF StopZone, ZoneStops, sessionVars
<1>6. ASSUME NEW z \in Zone, StartZone(z) PROVE Typed'
  <2>1. asks' = [c \in Caller |-> {[r EXCEPT !.lost = @ \/ r.zone = z] : r \in asks[c]}]
    BY <1>6 DEF StartZone
  <2>2. ASSUME NEW r \in RequestType PROVE [r EXCEPT !.lost = @ \/ r.zone = z] \in RequestType
    BY DEF RequestType
  <2>3. asks' \in [Caller -> AtMostOne(RequestType)]
    <3> SUFFICES ASSUME NEW c \in Caller
                 PROVE  {[r EXCEPT !.lost = @ \/ r.zone = z] : r \in asks[c]} \in AtMostOne(RequestType)
      BY <2>1
    <3>1. CASE asks[c] = {}
      <4>1. {[r EXCEPT !.lost = @ \/ r.zone = z] : r \in asks[c]} = {}  BY <3>1
      <4> QED  BY <4>1
    <3>2. ASSUME NEW r \in asks[c]
          PROVE  {[q EXCEPT !.lost = @ \/ q.zone = z] : q \in asks[c]} \in AtMostOne(RequestType)
      <4>1. asks[c] = {r} /\ r \in RequestType  BY TypedRequest
      <4>2. {[q EXCEPT !.lost = @ \/ q.zone = z] : q \in asks[c]} = {[r EXCEPT !.lost = @ \/ r.zone = z]}
        BY <4>1
      <4> QED  BY <4>1, <4>2, <2>2
    <3> QED  BY <3>1, <3>2
  <2>4. queue' \in [Zone -> Seq(Caller)]
    BY <1>6 DEF StartZone
  <2>5. running' \subseteq Zone /\ stopping' \subseteq Zone
    BY <1>6 DEF StartZone
  <2>6. UNCHANGED <<serving, deliver, here, observers, guests, actor, recv>>
    BY <1>6 DEF StartZone, sessionVars
  <2> QED  BY <2>3, <2>4, <2>5, <2>6
<1>7. ASSUME NEW src \in Zone, NEW dst \in Zone,
             MigrateIn(src, dst) \/ MigrateOut(src, dst) PROVE Typed'
  <2>1. PICK r \in RequestType : asks' = [asks EXCEPT ![World] = {r}]
    <3>1. CASE MigrateIn(src, dst)
      BY <3>1, RequestIsTyped DEF MigrateIn
    <3>2. CASE MigrateOut(src, dst)
      BY <3>2, RequestIsTyped DEF MigrateOut
    <3> QED  BY <1>7, <3>1, <3>2
  <2>2. asks' \in [Caller -> AtMostOne(RequestType)]
    BY <2>1, Callers
  <2>3. guests' \in [Zone -> Nat]
    <3>1. CASE MigrateIn(src, dst)
      BY <3>1 DEF MigrateIn
    <3>2. CASE MigrateOut(src, dst)
      BY <3>2 DEF MigrateOut
    <3> QED  BY <1>7, <3>1, <3>2
  <2>4. UNCHANGED <<queue, serving, deliver, running, stopping, here, observers, actor, recv>>
    BY <1>7 DEF MigrateIn, MigrateOut, sessionVars
  <2> QED  BY <2>2, <2>3, <2>4
<1>8. ASSUME NEW src \in Zone, NEW dst \in Zone, Migrated(src, dst) PROVE Typed'
  BY <1>8 DEF Migrated
<1>9. ASSUME NEW c \in Walker, NEW z \in Zone, Ask(c, z) PROVE Typed'
  <2>1. Request(z, "speak", 0) \in RequestType
    BY RequestIsTyped
  <2>2. asks' \in [Caller -> AtMostOne(RequestType)]
    BY <1>9, <2>1, Callers DEF Ask
  <2> QED  BY <1>9, <2>2 DEF Ask, zoneVars, sessionVars
<1>10. ASSUME NEW z \in Zone, AttachActor(z) PROVE Typed'
  BY <1>10 DEF AttachActor
<1>11. CASE Snapshot
  BY <1>11 DEF Snapshot, zoneVars, sessionVars
<1>12. CASE Decoded
  <2>1. asks' = asks \/ \E z \in actor : asks' = [asks EXCEPT ![Me] = {Request(z, "move", 0)}]
    BY <1>12 DEF Decoded
  <2>2. asks' \in [Caller -> AtMostOne(RequestType)]
    <3>1. ASSUME NEW z \in actor PROVE Request(z, "move", 0) \in RequestType
      BY TypedActor, RequestIsTyped
    <3>2. CASE asks' = asks
      BY <3>2
    <3>3. ASSUME NEW z \in actor, asks' = [asks EXCEPT ![Me] = {Request(z, "move", 0)}]
          PROVE  asks' \in [Caller -> AtMostOne(RequestType)]
      <4> DEFINE r == Request(z, "move", 0)
      <4>1. r \in RequestType  BY <3>1
      <4> HIDE DEF r
      <4> QED  BY <3>3, <4>1, Callers DEF r
    <3> QED  BY <2>1, <3>2, <3>3
  <2> QED  BY <1>12, <2>2 DEF Decoded, zoneVars
<1> QED  BY <1>1, <1>2, <1>3, <1>4, <1>5, <1>6, <1>7, <1>8, <1>9, <1>10, <1>11, <1>12 DEF Outer

LEMMA TypedStep ==
  ASSUME Typed, Duties, [Next]_vars
  PROVE  Typed'
<1>1. CASE Inner
  BY <1>1, InnerFrame DEF Typed
<1>2. CASE Halts
  <2>1. /\ UNCHANGED <<queue, serving, deliver, running, stopping, here, guests, asks>>
        /\ recv' = recv \/ recv' = "check"
    BY <1>2, HaltsFrame
  <2>2. actor' \in AtMostOne(Zone)
    BY <1>2, HaltsFrame, OneIsAtMostOne DEF Typed
  <2>3. observers' \in [Zone -> Nat]
    BY <1>2, HaltsFrame DEF Typed
  <2> QED  BY <2>1, <2>2, <2>3 DEF Typed
<1>3. CASE UNCHANGED vars
  BY <1>3 DEF Typed, vars, zoneVars, sessionVars
<1> QED  BY <1>1, <1>2, <1>3, OuterTyped, StepKinds

-----------------------------------------------------------------------------
(* Channels *)

LEMMA PendingOnce ==
  ASSUME NEW c, NEW y, NEW z, Pending(c, y), Pending(c, z)
  PROVE  y = z
BY DEF Pending

LEMMA PendingFrame ==
  ASSUME NEW c, NEW z, Pending(c, z), asks'[c] = asks[c]
  PROVE  Pending(c, z)'
BY DEF Pending

LEMMA ChannelFrame ==
  ASSUME Channels, UNCHANGED <<queue, serving, asks>>
  PROVE  Channels'
BY DEF Channels, Channel, Pending

(* A caller with nothing in a channel may ask for something else.          *)
LEMMA ChannelAsks ==
  ASSUME Typed, Channels, UNCHANGED <<queue, serving>>, NEW c \in Caller,
         \A z \in Zone : ~Pending(c, z),
         NEW A, asks' = [asks EXCEPT ![c] = A]
  PROVE  Channels'
<1> SUFFICES ASSUME NEW z \in Zone PROVE Channel(z)'
  BY DEF Channels
<1>1. Channel(z)  BY DEF Channels
<1>2. ASSUME NEW d \in Caller, Pending(d, z) PROVE Pending(d, z)'
  <2>1. d # c  BY <1>2
  <2>2. asks'[d] = asks[d]  BY <2>1 DEF Typed
  <2> QED  BY <1>2, <2>2, PendingFrame
<1>3. \A i \in 1..Len(queue[z]) : queue[z][i] \in Caller
  <2>1. queue[z] \in Seq(Caller)  BY DEF Typed
  <2> QED  BY <2>1
<1>4. \A d \in serving[z] : d \in Caller
  BY TypedServing
<1> QED  BY <1>1, <1>2, <1>3, <1>4 DEF Channel

LEMMA SendChannels ==
  ASSUME Typed, Channels, NEW c \in Caller, Send(c)
  PROVE  Channels'
<1>1. PICK r \in asks[c] : /\ ~r.sent /\ ~r.lost
                           /\ Len(queue[r.zone]) < RequestCap
                           /\ queue' = [queue EXCEPT ![r.zone] = Append(@, c)]
                           /\ asks' = [asks EXCEPT ![c] = {[r EXCEPT !.sent = TRUE]}]
  BY DEF Send
<1>2. r \in RequestType /\ asks[c] = {r}
  BY TypedRequest
<1>3. r.zone \in Zone /\ [r EXCEPT !.sent = TRUE] \in RequestType
  BY <1>2 DEF RequestType
<1>4. serving' = serving
  BY DEF Send
<1>5. \A y \in Zone : ~Pending(c, y)
  BY <1>1, <1>2 DEF Pending
<1>6. Pending(c, r.zone)'
  <2> DEFINE q == [r EXCEPT !.sent = TRUE]
  <2>1. asks'[c] = {q}
    BY <1>1 DEF Typed
  <2>2. q \in RequestType /\ q.zone = r.zone /\ q.sent /\ ~q.lost
    BY <1>1, <1>2, <1>3 DEF RequestType
  <2> HIDE DEF q
  <2> QED  BY <2>1, <2>2 DEF Pending
<1>7. ASSUME NEW d \in Caller, NEW z \in Zone, Pending(d, z) PROVE Pending(d, z)' /\ d # c
  <2>1. d # c  BY <1>5, <1>7
  <2>2. asks'[d] = asks[d]  BY <1>1, <2>1 DEF Typed
  <2> QED  BY <1>7, <2>1, <2>2, PendingFrame
<1> SUFFICES ASSUME NEW z \in Zone PROVE Channel(z)'
  BY DEF Channels
<1>8. Channel(z) /\ queue[z] \in Seq(Caller)  BY DEF Channels, Typed
<1>9. \A i \in 1..Len(queue[z]) : /\ queue[z][i] \in Caller /\ queue[z][i] # c
                                  /\ \A d : d = queue[z][i] => Pending(d, z)'
  <2>1. \A i \in 1..Len(queue[z]) : queue[z][i] \in Caller /\ Pending(queue[z][i], z)
    BY <1>8 DEF Channel
  <2> QED  BY <1>7, <2>1
<1>10. \A d \in serving[z] : Pending(d, z)' /\ d # c
  BY <1>7, <1>8, TypedServing DEF Channel
<1>11. CASE z # r.zone
  <2>1. queue'[z] = queue[z]  BY <1>1, <1>11 DEF Typed
  <2> QED  BY <1>4, <1>8, <1>9, <1>10, <2>1 DEF Channel
<1>12. CASE z = r.zone
  <2>1. queue'[z] = Append(queue[z], c)  BY <1>1, <1>3, <1>12 DEF Typed
  <2>2. /\ Len(queue'[z]) = Len(queue[z]) + 1
        /\ queue'[z][Len(queue[z]) + 1] = c
        /\ \A i \in 1..Len(queue[z]) : queue'[z][i] = queue[z][i]
    BY <1>8, <2>1, AppendProperties
  <2>3. Len(queue[z]) \in Nat /\ RequestCap \in Nat /\ Len(queue[z]) < RequestCap
    BY <1>1, <1>8, <1>12, LenProperties, SessionAssumption
  <2>4. Len(queue'[z]) <= RequestCap
    BY <2>2, <2>3
  <2>5. \A i \in 1..Len(queue'[z]) : i \in 1..Len(queue[z]) \/ i = Len(queue[z]) + 1
    BY <2>2, <2>3
  <2>6. \A i \in 1..Len(queue'[z]) : /\ queue'[z][i] \notin serving'[z]
                                     /\ \A d : d = queue'[z][i] => Pending(d, z)'
    BY <1>4, <1>6, <1>8, <1>9, <1>10, <1>12, <2>2, <2>5 DEF Channel
  <2>7. \A i, j \in 1..Len(queue'[z]) : queue'[z][i] = queue'[z][j] => i = j
    BY <1>8, <1>9, <2>2, <2>5 DEF Channel
  <2> QED  BY <1>4, <1>10, <2>4, <2>6, <2>7 DEF Channel
<1> QED  BY <1>11, <1>12

LEMMA TakeChannels ==
  ASSUME Typed, Channels, NEW y \in Zone, Take(y)
  PROVE  Channels'
<1>1. /\ serving[y] = {} /\ queue[y] # <<>>
      /\ serving' = [serving EXCEPT ![y] = {Head(queue[y])}]
      /\ queue' = [queue EXCEPT ![y] = Tail(@)]
      /\ asks' = asks
  BY DEF Take
<1> SUFFICES ASSUME NEW z \in Zone PROVE Channel(z)'
  BY DEF Channels
<1>2. Channel(z) /\ queue[z] \in Seq(Caller)  BY DEF Channels, Typed
<1>3. \A c : Pending(c, z) => Pending(c, z)'
  BY <1>1 DEF Pending
<1>4. CASE z # y
  <2>1. queue'[z] = queue[z] /\ serving'[z] = serving[z]  BY <1>1, <1>4 DEF Typed
  <2> QED  BY <1>2, <1>3, <2>1 DEF Channel
<1>5. CASE z = y
  <2>1. queue'[z] = Tail(queue[z]) /\ serving'[z] = {Head(queue[z])}  BY <1>1, <1>5 DEF Typed
  <2>2. /\ Len(queue[z]) \in Nat /\ Len(queue[z]) >= 1
        /\ Head(queue[z]) = queue[z][1]
        /\ Len(Tail(queue[z])) = Len(queue[z]) - 1
        /\ \A i \in 1..Len(Tail(queue[z])) : Tail(queue[z])[i] = queue[z][i+1]
    BY <1>1, <1>2, <1>5, HeadTailProperties, EmptySeq, LenProperties
  <2>3. \A i \in 1..Len(queue'[z]) : /\ i + 1 \in 1..Len(queue[z]) /\ i + 1 # 1
                                     /\ queue'[z][i] = queue[z][i+1]
    BY <2>1, <2>2
  <2>4. Len(queue'[z]) <= RequestCap
    BY <1>2, <2>1, <2>2, SessionAssumption DEF Channel
  <2>5. 1 \in 1..Len(queue[z])
    BY <2>2
  <2>6. \A i \in 1..Len(queue'[z]) : /\ queue'[z][i] \notin serving'[z]
                                     /\ \A d : d = queue'[z][i] => Pending(d, z)'
    BY <1>2, <1>3, <2>1, <2>2, <2>3, <2>5 DEF Channel
  <2>7. \A i, j \in 1..Len(queue'[z]) : queue'[z][i] = queue'[z][j] => i = j
    <3> SUFFICES ASSUME NEW i \in 1..Len(queue'[z]), NEW j \in 1..Len(queue'[z]),
                        queue'[z][i] = queue'[z][j]
                 PROVE  i = j
      OBVIOUS
    <3>1. i + 1 = j + 1
      BY <1>2, <2>3 DEF Channel
    <3> QED  BY <3>1, <2>1, <2>2
  <2>8. \A c \in serving'[z] : Pending(c, z)'
    BY <1>2, <1>3, <2>1, <2>2, <2>5 DEF Channel
  <2> QED  BY <2>4, <2>6, <2>7, <2>8 DEF Channel
<1> QED  BY <1>4, <1>5

LEMMA AnswerChannels ==
  ASSUME Typed, Channels, NEW y \in Zone, Answer(y)
  PROVE  Channels'
<1>1. PICK c \in serving[y] : /\ serving' = [serving EXCEPT ![y] = {}]
                              /\ asks' = [asks EXCEPT ![c] = {}]
  BY DEF Answer
<1>2. queue' = queue
  BY DEF Answer
<1>3. c \in Caller /\ serving[y] = {c}
  BY TypedServing
<1>4. Pending(c, y) /\ \A i \in 1..Len(queue[y]) : queue[y][i] # c
  BY DEF Channels, Channel
<1> SUFFICES ASSUME NEW z \in Zone PROVE Channel(z)'
  BY DEF Channels
<1>5. Channel(z) /\ queue[z] \in Seq(Caller)  BY DEF Channels, Typed
<1>6. ASSUME NEW d \in Caller, d # c, Pending(d, z) PROVE Pending(d, z)'
  <2>1. asks'[d] = asks[d]  BY <1>1, <1>6 DEF Typed
  <2> QED  BY <1>6, <2>1, PendingFrame
<1>7. \A i \in 1..Len(queue[z]) : queue[z][i] \in Caller /\ queue[z][i] # c /\ Pending(queue[z][i], z)
  BY <1>4, <1>5, PendingOnce DEF Channel
<1>8. serving'[z] \subseteq serving[z] /\ \A d \in serving'[z] : d \in Caller /\ d # c
  BY <1>1, <1>3, <1>4, <1>5, PendingOnce, TypedServing DEF Channel, Typed
<1> QED  BY <1>2, <1>5, <1>6, <1>7, <1>8 DEF Channel

LEMMA StartZoneChannels ==
  ASSUME Typed, Channels, Paused, NEW y \in Zone, StartZone(y)
  PROVE  Channels'
<1>1. /\ queue' = [queue EXCEPT ![y] = <<>>]
      /\ asks' = [c \in Caller |-> {[r EXCEPT !.lost = @ \/ r.zone = y] : r \in asks[c]}]
      /\ serving' = serving /\ y \notin running
  BY DEF StartZone
<1>2. serving[y] = {}
  BY <1>1 DEF Paused
<1> SUFFICES ASSUME NEW z \in Zone PROVE Channel(z)'
  BY DEF Channels
<1>3. Channel(z) /\ queue[z] \in Seq(Caller)  BY DEF Channels, Typed
<1>4. CASE z = y
  <2>1. queue'[z] = <<>> /\ serving'[z] = {}  BY <1>1, <1>2, <1>4 DEF Typed
  <2>2. Len(queue'[z]) = 0 /\ RequestCap \in Nat  BY <2>1, SessionAssumption
  <2> QED  BY <2>1, <2>2 DEF Channel
<1>5. CASE z # y
  <2>1. queue'[z] = queue[z] /\ serving'[z] = serving[z]  BY <1>1, <1>5 DEF Typed
  <2>2. ASSUME NEW c \in Caller, Pending(c, z) PROVE Pending(c, z)'
    <3>1. PICK r \in RequestType : asks[c] = {r} /\ r.zone = z /\ r.sent /\ ~r.lost
      BY <2>2 DEF Pending
    <3>2. asks'[c] = {[q EXCEPT !.lost = @ \/ q.zone = y] : q \in {r}}
      BY <1>1, <3>1
    <3>3. asks'[c] = {[r EXCEPT !.lost = @ \/ r.zone = y]}
      BY <3>2
    <3>4. [r EXCEPT !.lost = @ \/ r.zone = y] = r
      BY <1>5, <3>1 DEF RequestType
    <3>5. asks'[c] = asks[c]  BY <3>1, <3>3, <3>4
    <3> QED  BY <2>2, <3>5, PendingFrame
  <2>3. \A i \in 1..Len(queue[z]) : queue[z][i] \in Caller
    BY <1>3
  <2>4. \A c \in serving[z] : c \in Caller
    BY TypedServing
  <2> QED  BY <1>3, <2>1, <2>2, <2>3, <2>4 DEF Channel
<1> QED  BY <1>4, <1>5

(* Two words of the World are not the same. *)
LEMMA WorldIs ==
  ASSUME NEW src, NEW dst, NEW s, NEW d
  PROVE  /\ <<"in", src, dst>> # <<"out", s, d>>
         /\ <<"in", src, dst>> \notin {<<"idle">>, <<"stops">>, <<"starts">>}
         /\ <<"out", src, dst>> \notin {<<"idle">>, <<"stops">>, <<"starts">>}
         /\ <<"in", src, dst>> = <<"in", s, d>> => src = s /\ dst = d
         /\ <<"out", src, dst>> = <<"out", s, d>> => src = s /\ dst = d
OBVIOUS

LEMMA ChannelsStep ==
  ASSUME Typed, Channels, Duties, Paused, [Next]_vars
  PROVE  Channels'
<1>1. CASE Inner
  BY <1>1, InnerFrame, ChannelFrame
<1>2. CASE Halts
  BY <1>2, HaltsFrame, ChannelFrame
<1>3. CASE UNCHANGED vars
  BY <1>3, ChannelFrame DEF vars, zoneVars
<1>4. ASSUME NEW c \in Caller, Send(c) PROVE Channels'
  BY <1>4, SendChannels
<1>5. ASSUME NEW z \in Zone, Take(z) PROVE Channels'
  BY <1>5, TakeChannels
<1>6. ASSUME NEW z \in Zone, SendEvent(z) \/ StopZone(z) \/ ZoneStops(z) \/ AttachActor(z)
      PROVE  Channels'
  BY <1>6, ChannelFrame DEF SendEvent, StopZone, ZoneStops, AttachActor
<1>7. ASSUME NEW z \in Zone, Answer(z) PROVE Channels'
  BY <1>7, AnswerChannels
<1>8. ASSUME NEW z \in Zone, StartZone(z) PROVE Channels'
  BY <1>8, StartZoneChannels
<1>9. ASSUME NEW src \in Zone, NEW dst \in Zone, MigrateIn(src, dst) \/ MigrateOut(src, dst)
      PROVE  Channels'
  <2>1. asks[World] = {}
    <3>1. world = <<"idle">> => asks[World] = {}
      BY WorldIs DEF Duties, Errand, Entering, Leaving
    <3> QED  BY <1>9, <3>1 DEF MigrateIn, MigrateOut
  <2>2. \A z \in Zone : ~Pending(World, z)
    BY <2>1 DEF Pending
  <2>3. UNCHANGED <<queue, serving>> /\ \E A : asks' = [asks EXCEPT ![World] = A]
    BY <1>9 DEF MigrateIn, MigrateOut
  <2> QED  BY <2>2, <2>3, ChannelAsks, Callers
<1>10. ASSUME NEW src \in Zone, NEW dst \in Zone, Migrated(src, dst) PROVE Channels'
  BY <1>10, ChannelFrame DEF Migrated
<1>11. ASSUME NEW c \in Walker, NEW z \in Zone, Ask(c, z) PROVE Channels'
  <2>1. asks[c] = {} /\ UNCHANGED <<queue, serving>> /\ \E A : asks' = [asks EXCEPT ![c] = A]
    BY <1>11 DEF Ask, zoneVars
  <2>2. \A y \in Zone : ~Pending(c, y)
    BY <2>1 DEF Pending
  <2> QED  BY <2>1, <2>2, ChannelAsks, Callers
<1>12. CASE Snapshot
  BY <1>12, ChannelFrame DEF Snapshot, zoneVars
<1>13. CASE Decoded
  <2>1. asks[Me] = {} /\ UNCHANGED <<queue, serving>>
    BY <1>13 DEF Decoded, zoneVars, Duties
  <2>2. asks' = asks \/ \E A : asks' = [asks EXCEPT ![Me] = A]
    BY <1>13 DEF Decoded
  <2>3. \A y \in Zone : ~Pending(Me, y)
    BY <2>1 DEF Pending
  <2> QED  BY <2>1, <2>2, <2>3, ChannelAsks, ChannelFrame, Callers
<1> QED  BY <1>1, <1>2, <1>3, <1>4, <1>5, <1>6, <1>7, <1>8, <1>9, <1>10, <1>11, <1>12, <1>13,
            StepKinds DEF Outer

-----------------------------------------------------------------------------
(* Duties *)

LEMMA DutiesFrame ==
  ASSUME Duties, UNCHANGED <<asks, world, here, serving>>,
         recv' = recv \/ (recv \notin {"moving", "migrating"})
  PROVE  Duties'
<1>1. Kinds' /\ here' # {}
  BY DEF Duties, Kinds
<1>2. (asks[Me] # {} => recv = "moving")'
  BY DEF Duties
<1>3. Errand'
  BY DEF Duties, Errand, Entering, Leaving
<1> QED  BY <1>1, <1>2, <1>3 DEF Duties

LEMMA SendDuties ==
  ASSUME Typed, Duties, NEW c \in Caller, Send(c)
  PROVE  Duties'
<1>1. PICK r \in asks[c] : asks' = [asks EXCEPT ![c] = {[r EXCEPT !.sent = TRUE]}]
  BY DEF Send
<1>2. UNCHANGED <<world, here, serving, recv>>
  BY DEF Send, sessionVars
<1>3. r \in RequestType /\ asks[c] = {r}
  BY TypedRequest
<1> DEFINE q == [r EXCEPT !.sent = TRUE]
<1>4. q.zone = r.zone /\ q.kind = r.kind
  BY <1>3 DEF RequestType
<1>5. asks'[c] = {q} /\ \A d \in Caller : d # c => asks'[d] = asks[d]
  BY <1>1 DEF Typed
<1> HIDE DEF q
<1>6. Kinds'
  BY <1>3, <1>4, <1>5 DEF Duties, Kinds
<1>7. (asks[Me] # {} => recv = "moving")'
  BY <1>2, <1>3, <1>5, Callers DEF Duties
<1>8. /\ asks'[World] = {} <=> asks[World] = {}
      /\ \A k \in asks'[World] : \E o \in asks[World] : k.zone = o.zone /\ k.kind = o.kind
  BY <1>3, <1>4, <1>5, Callers
<1>9. Errand'
  BY <1>2, <1>8 DEF Duties, Errand, Entering, Leaving
<1> QED  BY <1>2, <1>6, <1>7, <1>9 DEF Duties

LEMMA TakeDuties ==
  ASSUME Typed, Channels, Duties, NEW z \in Zone, Take(z)
  PROVE  Duties'
<1> DEFINE c == Head(queue[z])
<1>1. /\ queue[z] # <<>>
      /\ serving' = [serving EXCEPT ![z] = {c}]
      /\ UNCHANGED <<asks, world, recv>>
  BY DEF Take, sessionVars
<1>2. PICK r \in asks[c] : here' = CASE r.kind = "in"  -> here \cup {z}
                                     [] r.kind = "out" -> here \ {z}
                                     [] OTHER          -> here
  BY DEF Take
<1>3. c \in Caller /\ Pending(c, z)
  <2>1. queue[z] \in Seq(Caller) /\ Channel(z)  BY DEF Typed, Channels
  <2>2. Len(queue[z]) \in Nat /\ Len(queue[z]) >= 1 /\ c = queue[z][1] /\ c \in Caller
    BY <1>1, <2>1, HeadTailProperties, EmptySeq, LenProperties
  <2>3. 1 \in 1..Len(queue[z])  BY <2>2
  <2> QED  BY <2>1, <2>2, <2>3 DEF Channel
<1> HIDE DEF c
<1>4. r \in RequestType /\ r.zone = z
  BY <1>2, <1>3, TypedRequest DEF Pending
<1>5. Kinds' /\ (asks[Me] # {} => recv = "moving")'
  BY <1>1 DEF Duties, Kinds
<1>6. CASE c # World
  <2>1. r.kind \notin {"in", "out"}
    BY <1>2, <1>3, <1>6 DEF Duties, Kinds
  <2>2. here' = here
    BY <1>2, <2>1
  <2>3. \A y \in Zone : World \in serving'[y] => World \in serving[y]
    BY <1>1, <1>6 DEF Typed
  <2> QED  BY <1>1, <1>5, <2>2, <2>3 DEF Duties, Errand, Entering, Leaving
<1>7. CASE c = World
  <2>1. asks[World] # {}
    BY <1>2, <1>7
  <2>2. PICK src \in Zone, dst \in Zone : /\ src # dst /\ recv = "migrating"
                                          /\ Entering(src, dst) \/ Leaving(src, dst)
    BY <2>1 DEF Duties, Errand
  <2>3. CASE Entering(src, dst)
    <3>1. z = dst /\ r.kind = "in"
      BY <1>2, <1>4, <1>7, <2>3 DEF Entering
    <3>2. here' = here \cup {dst}
      BY <1>2, <3>1
    <3>3. Entering(src, dst)'
      BY <1>1, <2>3, <3>2 DEF Entering
    <3> QED  BY <1>1, <1>5, <2>2, <3>2, <3>3 DEF Duties, Errand
  <2>4. CASE Leaving(src, dst)
    <3>1. z = src /\ r.kind = "out"
      BY <1>2, <1>4, <1>7, <2>4 DEF Leaving
    <3>2. here' = here \ {src}
      BY <1>2, <3>1
    <3>3. Leaving(src, dst)'
      BY <1>1, <2>2, <2>4, <3>2 DEF Leaving
    <3>4. here' # {}
      BY <3>3 DEF Leaving
    <3> QED  BY <1>1, <1>5, <2>2, <3>3, <3>4 DEF Duties, Errand
  <2> QED  BY <2>2, <2>3, <2>4
<1> QED  BY <1>6, <1>7

LEMMA AnswerDuties ==
  ASSUME Typed, Channels, Duties, NEW z \in Zone, Answer(z)
  PROVE  Duties'
<1>1. PICK c \in serving[z] : /\ serving' = [serving EXCEPT ![z] = {}]
                              /\ asks' = [asks EXCEPT ![c] = {}]
                              /\ recv' = IF c = Me THEN "replying" ELSE recv
  BY DEF Answer
<1>2. UNCHANGED <<world, here>>
  BY DEF Answer
<1>3. c \in Caller /\ Pending(c, z)
  BY TypedServing DEF Channels, Channel
<1>4. asks'[c] = {} /\ \A d \in Caller : d # c => asks'[d] = asks[d]
  BY <1>1, <1>3 DEF Typed
<1>5. Kinds'
  BY <1>4 DEF Duties, Kinds
<1>6. (asks[Me] # {} => recv = "moving")'
  BY <1>1, <1>4, Callers DEF Duties
<1>7. c = Me => recv = "moving"
  BY <1>3 DEF Duties, Pending
<1>8. \A y \in Zone : World \in serving'[y] => World \in serving[y]
  <2>1. serving'[z] = {} /\ \A y \in Zone : y # z => serving'[y] = serving[y]
    BY <1>1 DEF Typed
  <2> QED  BY <2>1
<1>9. ASSUME NEW src \in Zone, NEW dst \in Zone, Entering(src, dst) PROVE Entering(src, dst)'
  <2>1. CASE c = World
    <3>1. z = dst
      BY <1>3, <1>9, <2>1 DEF Entering, Pending
    <3>2. dst \in here
      BY <1>1, <1>9, <2>1, <3>1 DEF Entering
    <3> QED  BY <1>2, <1>4, <1>9, <2>1, <3>2 DEF Entering
  <2>2. CASE c # World
    BY <1>2, <1>4, <1>8, <1>9, <2>2, Callers DEF Entering
  <2> QED  BY <2>1, <2>2
<1>10. ASSUME NEW src \in Zone, NEW dst \in Zone, Leaving(src, dst) PROVE Leaving(src, dst)'
  BY <1>2, <1>4, <1>10, Callers DEF Leaving
<1>11. asks[World] = {} => asks'[World] = {}
  BY <1>4, Callers
<1>12. recv = "migrating" => recv' = "migrating"
  BY <1>1, <1>7
<1>13. Errand'
  BY <1>2, <1>9, <1>10, <1>11, <1>12 DEF Duties, Errand
<1> QED  BY <1>2, <1>5, <1>6, <1>13 DEF Duties

LEMMA StartZoneDuties ==
  ASSUME Typed, Duties, NEW z \in Zone, StartZone(z)
  PROVE  Duties'
<1>1. /\ world = <<"starts">> /\ world' \in {<<"idle">>, <<"starts">>}
      /\ UNCHANGED <<here, recv>>
      /\ asks' = [c \in Caller |-> {[r EXCEPT !.lost = @ \/ r.zone = z] : r \in asks[c]}]
  BY DEF StartZone, sessionVars
<1>2. ASSUME NEW c \in Caller, NEW q \in asks'[c]
      PROVE  \E r \in asks[c] : q.kind = r.kind
  <2>1. PICK r \in asks[c] : q = [r EXCEPT !.lost = @ \/ r.zone = z]
    BY <1>1
  <2>2. q.kind = r.kind
    BY <2>1, TypedRequest DEF RequestType
  <2> QED  BY <2>2
<1>3. Kinds'
  BY <1>2 DEF Duties, Kinds
<1>4. asks[World] = {}
  BY <1>1, WorldIs DEF Duties, Errand, Entering, Leaving
<1>5. asks'[World] = {}
  BY <1>2, <1>4, Callers
<1>6. asks'[Me] # {} => asks[Me] # {}
  BY <1>2, Callers
<1> QED  BY <1>1, <1>3, <1>5, <1>6 DEF Duties, Errand

LEMMA MigrationDuties ==
  ASSUME Typed, Channels, Duties, NEW src \in Zone, NEW dst \in Zone,
         MigrateIn(src, dst) \/ MigrateOut(src, dst)
  PROVE  Duties'
<1>1. UNCHANGED <<serving, here, recv>>
  BY DEF MigrateIn, MigrateOut, sessionVars
<1>2. \A c \in Caller : c # World => asks'[c] = asks[c]
  BY DEF MigrateIn, MigrateOut, Typed
<1>3. Kinds' /\ (asks[Me] # {} => recv = "moving")'
  BY <1>1, <1>2, Callers DEF Duties, Kinds
<1>4. CASE MigrateIn(src, dst)
  <2>1. /\ recv = "migrating" /\ src # dst /\ world = <<"idle">>
        /\ world' = <<"in", src, dst>>
        /\ asks' = [asks EXCEPT ![World] = {Request(dst, "in", observers[src])}]
    BY <1>4 DEF MigrateIn
  <2>2. asks'[World] = {Request(dst, "in", observers[src])}
    BY <2>1, Callers DEF Typed
  <2>3. \A r \in asks'[World] : r.zone = dst /\ r.kind = "in"
    BY <2>2 DEF Request
  <2>4. asks[World] = {}
    BY <2>1, WorldIs DEF Duties, Errand, Entering, Leaving
  <2>5. World \notin serving[dst]
    BY <2>4 DEF Channels, Channel, Pending
  <2>6. Entering(src, dst)'
    BY <1>1, <2>1, <2>2, <2>3, <2>5 DEF Entering
  <2> QED  BY <1>1, <1>3, <2>1, <2>6 DEF Duties, Errand
<1>5. CASE MigrateOut(src, dst)
  <2>1. /\ world = <<"in", src, dst>> /\ asks[World] = {}
        /\ world' = <<"out", src, dst>>
        /\ asks' = [asks EXCEPT ![World] = {Request(src, "out", 0)}]
    BY <1>5 DEF MigrateOut
  <2>2. /\ recv = "migrating"
        /\ \E s, d \in Zone : s # d /\ Entering(s, d)
    BY <2>1, WorldIs DEF Duties, Errand, Leaving
  <2>3. src # dst /\ Entering(src, dst)
    BY <2>1, <2>2, WorldIs DEF Entering
  <2>4. asks'[World] = {Request(src, "out", 0)}
    BY <2>1, Callers DEF Typed
  <2>5. \A r \in asks'[World] : r.zone = src /\ r.kind = "out"
    BY <2>4 DEF Request
  <2>6. Leaving(src, dst)'
    BY <1>1, <2>1, <2>3, <2>5 DEF Entering, Leaving
  <2> QED  BY <1>1, <1>3, <2>2, <2>3, <2>6 DEF Duties, Errand
<1> QED  BY <1>4, <1>5

LEMMA DutiesStep ==
  ASSUME Typed, Channels, Duties, Paused, [Next]_vars
  PROVE  Duties'
<1>1. CASE Inner
  BY <1>1, InnerFrame, DutiesFrame
<1>2. CASE Halts
  BY <1>2, HaltsFrame, DutiesFrame
<1>3. CASE UNCHANGED vars
  BY <1>3, DutiesFrame DEF vars, zoneVars, sessionVars
<1>4. ASSUME NEW c \in Caller, Send(c) PROVE Duties'
  BY <1>4, SendDuties
<1>5. ASSUME NEW z \in Zone, Take(z) PROVE Duties'
  BY <1>5, TakeDuties
<1>6. ASSUME NEW z \in Zone, SendEvent(z) PROVE Duties'
  BY <1>6, DutiesFrame DEF SendEvent
<1>7. ASSUME NEW z \in Zone, Answer(z) PROVE Duties'
  BY <1>7, AnswerDuties
<1>8. ASSUME NEW z \in Zone, StopZone(z) PROVE Duties'
  BY <1>8, DutiesFrame DEF StopZone, sessionVars
<1>9. ASSUME NEW z \in Zone, ZoneStops(z) PROVE Duties'
  <2>1. UNCHANGED <<asks, here, serving, recv>> /\ (world' = world \/ world' = <<"starts">>)
    BY <1>9 DEF ZoneStops, sessionVars
  <2>2. CASE world' = world
    BY <2>1, <2>2, DutiesFrame
  <2>3. CASE world' = <<"starts">>
    <3>1. world = <<"stops">> \/ world = <<"starts">>
      BY <1>9 DEF ZoneStops, Paused
    <3>2. asks[World] = {}
      BY <3>1, WorldIs DEF Duties, Errand, Entering, Leaving
    <3> QED  BY <2>1, <2>3, <3>2 DEF Duties, Kinds, Errand
  <2> QED  BY <2>1, <2>2, <2>3
<1>10. ASSUME NEW z \in Zone, StartZone(z) PROVE Duties'
  BY <1>10, StartZoneDuties
<1>11. ASSUME NEW src \in Zone, NEW dst \in Zone, MigrateIn(src, dst) \/ MigrateOut(src, dst)
       PROVE  Duties'
  BY <1>11, MigrationDuties
<1>12. ASSUME NEW src \in Zone, NEW dst \in Zone, Migrated(src, dst) PROVE Duties'
  <2>1. /\ world = <<"out", src, dst>> /\ asks[World] = {} /\ world' = <<"idle">>
        /\ recv' = "replying" /\ UNCHANGED <<asks, here>>
    BY <1>12 DEF Migrated
  <2>2. recv = "migrating"
    BY <2>1, WorldIs DEF Duties, Errand
  <2>3. asks[Me] = {}
    BY <2>2 DEF Duties
  <2> QED  BY <2>1, <2>3 DEF Duties, Kinds, Errand
<1>13. ASSUME NEW c \in Walker, NEW z \in Zone, Ask(c, z) PROVE Duties'
  <2>1. UNCHANGED <<world, here, serving, recv>>
    BY <1>13 DEF Ask, zoneVars, sessionVars
  <2>2. c # World /\ c # Me /\ c \in Caller
    BY Callers
  <2>3. /\ asks'[c] = {Request(z, "speak", 0)}
        /\ \A d \in Caller : d # c => asks'[d] = asks[d]
    BY <1>13, <2>2 DEF Ask, Typed
  <2>4. \A r \in asks'[c] : r.kind = "speak"
    BY <2>3 DEF Request
  <2>5. Kinds'
    BY <2>3, <2>4 DEF Duties, Kinds
  <2>6. asks'[World] = asks[World] /\ asks'[Me] = asks[Me]
    BY <2>2, <2>3, Callers
  <2> QED  BY <2>1, <2>5, <2>6 DEF Duties, Errand, Entering, Leaving
<1>14. ASSUME NEW z \in Zone, AttachActor(z) PROVE Duties'
  BY <1>14, DutiesFrame DEF AttachActor
<1>15. CASE Snapshot
  <2>1. world = <<"idle">> /\ world' = <<"stops">> /\ UNCHANGED <<asks, here, recv>>
    BY <1>15 DEF Snapshot, zoneVars, sessionVars
  <2>2. asks[World] = {}
    BY <2>1, WorldIs DEF Duties, Errand, Entering, Leaving
  <2> QED  BY <2>1, <2>2 DEF Duties, Kinds, Errand
<1>16. CASE Decoded
  <2>1. recv = "decoding" /\ UNCHANGED <<world, here, serving>>
    BY <1>16 DEF Decoded, zoneVars
  <2>2. CASE asks' = asks
    BY <2>1, <2>2, DutiesFrame
  <2>3. ASSUME NEW z \in actor, asks' = [asks EXCEPT ![Me] = {Request(z, "move", 0)}], recv' = "moving"
        PROVE  Duties'
    <3>1. /\ asks'[Me] = {Request(z, "move", 0)}
          /\ \A d \in Caller : d # Me => asks'[d] = asks[d]
      BY <2>3, Callers DEF Typed
    <3>2. \A r \in asks'[Me] : r.kind = "move"
      BY <3>1 DEF Request
    <3>3. Kinds'
      BY <3>1, <3>2 DEF Duties, Kinds
    <3>4. Errand'
      BY <2>1, <3>1, Callers DEF Duties, Errand
    <3> QED  BY <2>1, <2>3, <3>3, <3>4 DEF Duties
  <2> QED  BY <1>16, <2>2, <2>3 DEF Decoded
<1> QED  BY <1>1, <1>2, <1>3, <1>4, <1>5, <1>6, <1>7, <1>8, <1>9, <1>10, <1>11, <1>12, <1>13,
            <1>14, <1>15, <1>16, StepKinds DEF Outer

-----------------------------------------------------------------------------
(* Snapshots, and what the session observes *)

LEMMA PausedFrame ==
  ASSUME Paused, UNCHANGED <<running, stopping, serving>>,
         \/ world' = world
         \/ {world, world'} \cap {<<"stops">>, <<"starts">>} = {}
  PROVE  Paused'
BY DEF Paused

LEMMA PausedStep ==
  ASSUME Typed, Duties, Paused, [Next]_vars
  PROVE  Paused'
<1>1. CASE Inner
  BY <1>1, InnerFrame, PausedFrame
<1>2. CASE Halts
  BY <1>2, HaltsFrame, PausedFrame
<1>3. CASE UNCHANGED vars
  BY <1>3, PausedFrame DEF vars, zoneVars
<1>4. ASSUME NEW c \in Caller, Send(c) PROVE Paused'
  BY <1>4, PausedFrame DEF Send
<1>5. ASSUME NEW z \in Zone, Take(z) PROVE Paused'
  <2>1. /\ z \in running /\ UNCHANGED <<running, stopping, world>>
        /\ serving' = [serving EXCEPT ![z] = {Head(queue[z])}]
    BY <1>5 DEF Take
  <2>2. \A y \in Zone \ running : serving'[y] = serving[y]
    BY <2>1 DEF Typed
  <2> QED  BY <2>1, <2>2 DEF Paused
<1>6. ASSUME NEW z \in Zone, SendEvent(z) PROVE Paused'
  BY <1>6, PausedFrame DEF SendEvent
<1>7. ASSUME NEW z \in Zone, Answer(z) PROVE Paused'
  <2>1. UNCHANGED <<running, stopping, world>> /\ serving' = [serving EXCEPT ![z] = {}]
    BY <1>7 DEF Answer
  <2>2. \A y \in Zone \ running : serving'[y] = {}
    BY <2>1 DEF Typed, Paused
  <2> QED  BY <2>1, <2>2 DEF Paused
<1>8. ASSUME NEW z \in Zone, StopZone(z) PROVE Paused'
  BY <1>8 DEF StopZone, Paused
<1>9. ASSUME NEW z \in Zone, ZoneStops(z) PROVE Paused'
  <2>1. /\ z \in stopping \cap running /\ serving[z] = {}
        /\ running' = running \ {z} /\ UNCHANGED <<stopping, serving>>
        /\ world' = IF running' = {} THEN <<"starts">> ELSE world
    BY <1>9 DEF ZoneStops
  <2>2. world = <<"stops">> /\ Zone \ running \subseteq stopping
    BY <2>1 DEF Paused
  <2>3. \A y \in Zone \ running' : serving'[y] = {}
    BY <2>1 DEF Paused
  <2>4. Zone \ running' \subseteq stopping'
    BY <2>1, <2>2
  <2>5. running' = {} => stopping' = Zone
    BY <2>4, <2>1 DEF Typed
  <2> QED  BY <2>1, <2>2, <2>3, <2>4, <2>5 DEF Paused
<1>10. ASSUME NEW z \in Zone, StartZone(z) PROVE Paused'
  <2>1. /\ world = <<"starts">> /\ z \notin running
        /\ running' = running \cup {z} /\ stopping' = stopping \ {z} /\ serving' = serving
        /\ world' = IF running' = Zone THEN <<"idle">> ELSE world
    BY <1>10 DEF StartZone
  <2>2. stopping = Zone \ running
    BY <2>1 DEF Paused
  <2>3. stopping' = Zone \ running'
    BY <2>1, <2>2
  <2> QED  BY <2>1, <2>3 DEF Paused
<1>11. ASSUME NEW src \in Zone, NEW dst \in Zone,
              MigrateIn(src, dst) \/ MigrateOut(src, dst) \/ Migrated(src, dst)
       PROVE  Paused'
  <2>1. /\ UNCHANGED <<running, stopping, serving>>
        /\ world \in {<<"idle">>, <<"in", src, dst>>, <<"out", src, dst>>}
        /\ world' \in {<<"idle">>, <<"in", src, dst>>, <<"out", src, dst>>}
    BY <1>11 DEF MigrateIn, MigrateOut, Migrated
  <2> QED  BY <2>1, PausedFrame, WorldIs
<1>12. ASSUME NEW c \in Walker, NEW z \in Zone, Ask(c, z) PROVE Paused'
  BY <1>12, PausedFrame DEF Ask, zoneVars
<1>13. ASSUME NEW z \in Zone, AttachActor(z) PROVE Paused'
  BY <1>13, PausedFrame DEF AttachActor
<1>14. CASE Snapshot
  BY <1>14 DEF Snapshot, zoneVars, Paused
<1>15. CASE Decoded
  BY <1>15, PausedFrame DEF Decoded, zoneVars
<1> QED  BY <1>1, <1>2, <1>3, <1>4, <1>5, <1>6, <1>7, <1>8, <1>9, <1>10, <1>11, <1>12, <1>13,
            <1>14, <1>15, StepKinds DEF Outer

LEMMA WatchedFrame ==
  ASSUME Watched, UNCHANGED <<migrated, late, observers, guests, actor, stopped>>,
         asks'[World] = asks[World],
         world' \in {world, <<"idle">>, <<"stops">>, <<"starts">>}
  PROVE  Watched'
BY DEF Watched

LEMMA WatchedStep ==
  ASSUME Typed, Channels, Duties, Watched, [Next]_vars
  PROVE  Watched'
<1>1. CASE Inner
  BY <1>1, InnerFrame, WatchedFrame
<1>2. CASE Halts
  <2>1. UNCHANGED <<guests, asks, world, migrated, late>>
    BY <1>2, HaltsFrame
  <2>2. CASE UNCHANGED <<actor, observers, stopped>>
    BY <2>1, <2>2, WatchedFrame
  <2>3. CASE /\ actor' = {}
             /\ observers' = [z \in Zone |-> IF z \in actor /\ observers[z] > 0
                                             THEN observers[z] - 1 ELSE observers[z]]
    <3>1. CASE migrated \/ late
      BY <2>1, <3>1 DEF Watched
    <3>2. CASE ~(migrated \/ late)
      <4>1. observers = [z \in Zone |-> IF z \in actor THEN 1 ELSE 0]
        BY <3>2 DEF Watched
      <4>2. observers' = [z \in Zone |-> IF z \in actor' THEN 1 ELSE 0]
        BY <2>3, <4>1
      <4> QED  BY <2>1, <2>3, <3>2, <4>2 DEF Watched
    <3> QED  BY <3>1, <3>2
  <2> QED  BY <1>2, <2>2, <2>3, HaltsFrame
<1>3. CASE UNCHANGED vars
  BY <1>3, WatchedFrame DEF vars, zoneVars, sessionVars
<1>4. ASSUME NEW c \in Caller, Send(c) PROVE Watched'
  <2>1. UNCHANGED <<migrated, late, observers, guests, actor, stopped, world>>
    BY <1>4 DEF Send, sessionVars
  <2>2. asks[World] = {} => asks'[World] = {}
    BY <1>4, Callers DEF Send, Typed
  <2> QED  BY <2>1, <2>2 DEF Watched
<1>5. ASSUME NEW z \in Zone, Take(z) \/ SendEvent(z) \/ StopZone(z) \/ ZoneStops(z) PROVE Watched'
  BY <1>5, WatchedFrame DEF Take, SendEvent, StopZone, ZoneStops, sessionVars
<1>6. ASSUME NEW z \in Zone, Answer(z) PROVE Watched'
  <2>1. PICK c \in serving[z] : \E r \in asks[c] :
          /\ asks' = [asks EXCEPT ![c] = {}]
          /\ observers' = [observers EXCEPT ![z] = IF r.kind = "in" THEN r.seen ELSE @]
    BY <1>6 DEF Answer
  <2>2. PICK r \in asks[c] :
          observers' = [observers EXCEPT ![z] = IF r.kind = "in" THEN r.seen ELSE @]
    BY <2>1
  <2>3. UNCHANGED <<migrated, late, guests, actor, stopped, world>>
    BY <1>6 DEF Answer
  <2>4. c \in Caller
    BY TypedServing
  <2>5. asks[World] = {} => asks'[World] = {} /\ r.kind # "in"
    BY <2>1, <2>4, Callers DEF Typed, Duties, Kinds
  <2>6. asks[World] = {} => observers' = observers
    BY <2>2, <2>5 DEF Typed
  <2> QED  BY <2>3, <2>5, <2>6 DEF Watched
<1>7. ASSUME NEW z \in Zone, StartZone(z) PROVE Watched'
  <2>1. /\ UNCHANGED <<migrated, late, observers, guests, actor, stopped>>
        /\ world' \in {world, <<"idle">>}
        /\ asks' = [c \in Caller |-> {[r EXCEPT !.lost = @ \/ r.zone = z] : r \in asks[c]}]
    BY <1>7 DEF StartZone, sessionVars
  <2>2. asks[World] = {} => asks'[World] = {}
    BY <2>1, Callers
  <2> QED  BY <2>1, <2>2 DEF Watched
<1>8. ASSUME NEW src \in Zone, NEW dst \in Zone, MigrateIn(src, dst) PROVE Watched'
  BY <1>8 DEF MigrateIn, Watched
<1>9. ASSUME NEW src \in Zone, NEW dst \in Zone, MigrateOut(src, dst) \/ Migrated(src, dst)
      PROVE  Watched'
  <2>1. world = <<"in", src, dst>> \/ world = <<"out", src, dst>>
    BY <1>9 DEF MigrateOut, Migrated
  <2>2. migrated \/ late
    BY <2>1, WorldIs DEF Watched
  <2> QED  BY <1>9, <2>2 DEF MigrateOut, Migrated, Watched
<1>10. ASSUME NEW c \in Walker, NEW z \in Zone, Ask(c, z) PROVE Watched'
  <2>1. UNCHANGED <<migrated, late, observers, guests, actor, stopped, world>>
    BY <1>10 DEF Ask, zoneVars, sessionVars
  <2>2. asks'[World] = asks[World]
    BY <1>10, Callers DEF Ask, Typed
  <2> QED  BY <2>1, <2>2, WatchedFrame
<1>11. ASSUME NEW z \in Zone, AttachActor(z) PROVE Watched'
  <2>1. /\ actor = {} /\ actor' = {z} /\ late' = (late \/ stopped)
        /\ observers' = [observers EXCEPT ![z] = @ + 1]
        /\ UNCHANGED <<migrated, guests, asks, world, stopped>>
    BY <1>11 DEF AttachActor
  <2>2. CASE migrated \/ late \/ stopped
    BY <2>1, <2>2 DEF Watched
  <2>3. CASE ~(migrated \/ late \/ stopped)
    <3>1. observers = [y \in Zone |-> 0]
      BY <2>1, <2>3 DEF Watched
    <3>2. observers' = [y \in Zone |-> IF y \in actor' THEN 1 ELSE 0]
      BY <2>1, <3>1
    <3> QED  BY <2>1, <2>3, <3>2 DEF Watched
  <2> QED  BY <2>2, <2>3
<1>12. CASE Snapshot
  BY <1>12, WatchedFrame DEF Snapshot, zoneVars, sessionVars
<1>13. CASE Decoded
  <2>1. UNCHANGED <<migrated, late, observers, guests, actor, stopped, world>>
    BY <1>13 DEF Decoded, zoneVars
  <2>2. asks'[World] = asks[World]
    BY <1>13, Callers DEF Decoded, Typed
  <2> QED  BY <2>1, <2>2, WatchedFrame
<1> QED  BY <1>1, <1>2, <1>3, <1>4, <1>5, <1>6, <1>7, <1>8, <1>9, <1>10, <1>11, <1>12, <1>13,
            StepKinds DEF Outer

-----------------------------------------------------------------------------
(* The channels of the session *)

LEMMA InsideStep ==
  ASSUME Inside, [Next]_vars
  PROVE  Inside'
<1> USE SessionAssumption DEF Inside
<1>1. CASE Inner
  <2>1. CASE Check          BY <2>1 DEF Check
  <2>2. CASE MoveActor      BY <2>2 DEF MoveActor
  <2>3. CASE Reply          BY <2>3 DEF Reply
  <2>4. CASE TakeEvent      BY <2>4 DEF TakeEvent
  <2>5. CASE Forward        BY <2>5 DEF Forward
  <2>6. CASE ForwarderStops BY <2>6 DEF ForwarderStops
  <2>7. CASE TakeMessage    BY <2>7 DEF TakeMessage
  <2>8. CASE Write          BY <2>8 DEF Write
  <2>9. CASE SenderStops    BY <2>9 DEF SenderStops
  <2>10. CASE Close         BY <2>10 DEF Close
  <2>11. CASE ClientStalls  BY <2>11 DEF ClientStalls
  <2>12. CASE ClientLeaves  BY <2>12 DEF ClientLeaves
  <2> QED  BY <1>1, <2>1, <2>2, <2>3, <2>4, <2>5, <2>6, <2>7, <2>8, <2>9, <2>10, <2>11, <2>12
              DEF Inner
<1>2. CASE Halts
  BY <1>2 DEF Halts, Evict, ReadFails, ReadNonsense, WriteFails
<1>3. CASE UNCHANGED vars
  BY <1>3 DEF vars, sessionVars
<1>4. CASE Outer
  <2>1. ASSUME NEW z \in Zone, SendEvent(z) PROVE Inside'
    BY <2>1 DEF SendEvent
  <2>2. CASE ~\E z \in Zone : SendEvent(z)
    <3>1. UNCHANGED <<events, sends, fwd, snd, client>>
      BY <1>4, <2>2 DEF Outer, Send, Take, Answer, StopZone, ZoneStops, StartZone, MigrateIn,
                        MigrateOut, Migrated, Ask, AttachActor, Snapshot, Decoded, sessionVars
    <3> QED  BY <3>1
  <2> QED  BY <2>1, <2>2
<1> QED  BY <1>1, <1>2, <1>3, <1>4, StepKinds

-----------------------------------------------------------------------------

LEMMA SessionInit ==
  ASSUME Init
  PROVE  SessionInv
<1>1. Typed
  <2>1. /\ queue = [z \in Zone |-> <<>>] /\ serving = [z \in Zone |-> {}]
        /\ deliver = [z \in Zone |-> 0] /\ guests = [z \in Zone |-> 0]
        /\ observers = [z \in Zone |-> IF z \in actor THEN 1 ELSE 0]
        /\ running = Zone /\ stopping = {} /\ here = {Home}
        /\ actor \in {{}, {Home}} /\ recv = "reading"
        /\ asks = [c \in Caller |-> {}]
    BY DEF Init
  <2>2. /\ {} \in AtMostOne(Caller) /\ {} \in AtMostOne(RequestType)
        /\ {} \in AtMostOne(Zone) /\ {Home} \in AtMostOne(Zone)
    BY OneIsAtMostOne, SessionAssumption
  <2>3. actor \in AtMostOne(Zone)
    BY <2>1, <2>2
  <2>4. queue \in [Zone -> Seq(Caller)] /\ here \subseteq Zone
    BY <2>1, SessionAssumption
  <2>5. /\ serving \in [Zone -> AtMostOne(Caller)]
        /\ asks \in [Caller -> AtMostOne(RequestType)]
    BY <2>1, <2>2
  <2> QED  BY <2>1, <2>3, <2>4, <2>5 DEF Typed
<1>2. Channels
  BY SessionAssumption DEF Init, Channels, Channel
<1>3. Duties
  BY Callers DEF Init, Duties, Kinds, Errand
<1>4. Paused
  BY DEF Init, Paused
<1>5. Watched
  BY Callers DEF Init, Watched
<1>6. Inside
  BY SessionAssumption DEF Init, Inside
<1> QED  BY <1>1, <1>2, <1>3, <1>4, <1>5, <1>6 DEF SessionInv

LEMMA SessionStep ==
  ASSUME SessionInv, [Next]_vars
  PROVE  SessionInv'
BY TypedStep, ChannelsStep, DutiesStep, PausedStep, WatchedStep, InsideStep DEF SessionInv

LEMMA SessionInvariant == Spec => []SessionInv
BY SessionInit, SessionStep, PTL DEF Spec

(* Every variable has its type, the request channels hold no more than     *)
(* they take, the Actor is always in some Zone, and the session is never   *)
(* attached to two.                                                        *)
THEOREM SessionTyped == Spec => []TypeOK
<1>1. SessionInv => TypeOK
  <2> SUFFICES ASSUME SessionInv PROVE TypeOK
    OBVIOUS
  <2>1. serving \in [Zone -> SUBSET Caller]
    BY TypedServing DEF SessionInv, Typed
  <2>2. actor \subseteq Zone /\ Cardinality(actor) <= 1
    <3>1. CASE actor = {}
      BY <3>1, FS_EmptySet
    <3>2. ASSUME NEW z \in actor PROVE actor \subseteq Zone /\ Cardinality(actor) <= 1
      <4>1. z \in Zone /\ actor = {z}  BY TypedActor DEF SessionInv
      <4>2. Cardinality({z}) = 1  BY FS_Singleton
      <4> QED  BY <4>1, <4>2
    <3> QED  BY <3>1, <3>2
  <2> QED  BY <2>1, <2>2 DEF SessionInv, Typed, Channels, Channel, Duties, Inside, TypeOK
<1> QED  BY <1>1, SessionInvariant, PTL

(* A session that has stopped is detached from its Actor, and from the     *)
(* Location a migration has announced it to, unless it had been through a  *)
(* migration or attached as it was being stopped: sendCloseDetachAndStop   *)
(* may be called by any of the goroutines, at any point of the commands    *)
(* the others are at.                                                      *)
THEOREM StoppedIsUnobserved == Spec => []StoppedUnobserved
<1>1. SessionInv => StoppedUnobserved
  BY DEF SessionInv, Watched, StoppedUnobserved, Ghost
<1> QED  BY <1>1, SessionInvariant, PTL
================================================================================
