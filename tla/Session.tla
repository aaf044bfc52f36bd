-------------------------------- MODULE Session --------------------------------
(***************************************************************************)
(* A websocket session (wsapi/session.go) between its client and the Zones *)
(* its Actor goes through.                                                 *)
(*                                                                         *)
(* A session is three goroutines.  The receiver handles the client's       *)
(* commands and waits for the Zone or the World to answer; the forwarder   *)
(* takes events from eventChan and puts them on lowLevelSendChan; the      *)
(* sender writes them to the client.  A Zone is a goroutine with a bounded *)
(* channel of requests; it sends each event to all observers before it     *)
(* answers, and waits where an eventChan is full.  The World is a          *)
(* goroutine that serves migrations and takes snapshots, for which it      *)
(* stops the Zones and starts them with new channels.  Another session may *)
(* attach to the Actor and evict this one, from its own goroutine.         *)
(*                                                                         *)
(* There is one player's Actor, and in each Zone one Location.  Sessions   *)
(* other than this one are taken never to keep a Zone waiting.  An event   *)
(* or a message is only counted.  A panic ends the process: "died".        *)
(***************************************************************************)
EXTENDS Naturals, Sequences, FiniteSets

CONSTANTS
    Zone,
    Home,           \* where the Actor is at first
    Walker,         \* others who ask Zones for things
    RequestCap,     \* zoneRequestChannelCapacity
    SendQueueLen,
    Budget          \* bound: commands, of all kinds, and mishaps

ASSUME SessionAssumption ==
    /\ Home \in Zone
    /\ Walker \cap {"session", "world"} = {}   \* others than the two below
    /\ RequestCap \in Nat \ {0} /\ SendQueueLen \in Nat \ {0}

Me == "session"
World == "world"
Caller == Walker \cup {Me, World}

VARIABLES
    \* Zones
    queue,      \* [Zone -> Seq(Caller)], the request channel
    serving,    \* [Zone -> set of at most one Caller], what the loop works on
    deliver,    \* [Zone -> Nat], how often the event has yet to go to Me
    running,    \* the Zones whose loop runs
    stopping,   \* the Zones whose stopChan is closed
    here,       \* the Zones the Actor is in (both, for a while)
    observers,  \* [Zone -> Nat], how often Me observes the Actor in a Zone
    guests,     \* [Zone -> Nat], and the Location there
    \* who waits
    asks,       \* [Caller -> set of at most one request]
    world,      \* what the World does
    \* the session
    actor,      \* the Zone of the Actor attached to, in a set, or {}
    recv,       \* the receiver
    events,     \* in eventChan
    fwd,        \* the forwarder
    sends,      \* in lowLevelSendChan
    snd,        \* the sender
    stopped,    \* stopChan is closed
    sendClose,  \* sendCloseMessage
    client,     \* "reads", "stalls" or "closed"
    died,
    \* history
    migrated,   \* there has been a migration
    late,       \* Me attached after it had been stopped
    spent

zoneVars    == <<queue, serving, deliver, running, stopping, here, observers, guests>>
sessionVars == <<actor, recv, events, fwd, sends, snd, stopped, sendClose, client>>
vars == <<zoneVars, sessionVars, asks, world, died, migrated, late, spent>>

(* A session that has just been accepted, or one that is attached, with as *)
(* many events on their way as its channels take.                          *)
Init ==
    /\ queue = [z \in Zone |-> <<>>] /\ serving = [z \in Zone |-> {}]
    /\ deliver = [z \in Zone |-> 0]
    /\ running = Zone /\ stopping = {} /\ here = {Home}
    /\ actor \in {{}, {Home}}
    /\ observers = [z \in Zone |-> IF z \in actor THEN 1 ELSE 0]
    /\ guests = [z \in Zone |-> 0]
    /\ asks = [c \in Caller |-> {}] /\ world = <<"idle">>
    /\ recv = "reading"
    /\ events = (IF actor = {} THEN 0 ELSE SendQueueLen) /\ sends = events
    /\ fwd = (IF actor = {} THEN "idle" ELSE "holding")
    /\ snd = (IF actor = {} THEN "idle" ELSE "writing") /\ stopped = FALSE /\ sendClose = FALSE
    /\ client = "reads" /\ died = FALSE
    /\ migrated = FALSE /\ late = FALSE /\ spent = 0

Spend == spent < Budget /\ spent' = spent + 1

Least(m, n) == IF m < n THEN m ELSE n

-----------------------------------------------------------------------------
(* Requests.  seen is how often Me observed the Actor when the request was *)
(* made; lost says that its channel is one nobody reads any more.          *)
Request(z, kind, seen) == [zone |-> z, kind |-> kind, seen |-> seen, sent |-> FALSE, lost |-> FALSE]

(* syncRequestToSelf, up to where it waits for the answer. *)
Send(c) ==
    \E r \in asks[c] :
        /\ ~r.sent /\ ~r.lost
        /\ Len(queue[r.zone]) < RequestCap
        /\ queue' = [queue EXCEPT ![r.zone] = Append(@, c)]
        /\ asks' = [asks EXCEPT ![c] = {[r EXCEPT !.sent = TRUE]}]
        /\ UNCHANGED <<serving, deliver, running, stopping, here, observers, guests>>
        /\ UNCHANGED <<sessionVars, world, died, migrated, late, spent>>

(* To whom the event of a request goes that concern this session: an Actor *)
(* that comes has no observers yet, one that leaves none any more.         *)
Copies(z, kind) ==
    LET present == IF z \in here THEN observers[z] ELSE 0
    IN  CASE kind = "speak" -> present + guests[z]
          [] kind = "move"  -> Least(1, present + guests[z])
          [] OTHER          -> guests[z]

(* The Zone takes a request and applies its event. *)
Take(z) ==
    /\ z \in running /\ serving[z] = {} /\ queue[z] # <<>>
    /\ \E r \in asks[Head(queue[z])] :
        /\ serving' = [serving EXCEPT ![z] = {Head(queue[z])}]
        /\ queue' = [queue EXCEPT ![z] = Tail(@)]
        /\ deliver' = [deliver EXCEPT ![z] = Copies(z, r.kind)]
        /\ here' = CASE r.kind = "in"  -> here \cup {z}
                     [] r.kind = "out" -> here \ {z}
                     [] OTHER          -> here
    /\ UNCHANGED <<running, stopping, observers, guests>>
    /\ UNCHANGED <<sessionVars, asks, world, died, migrated, late, spent>>

(* Wrong on purpose: the channel takes whatever comes. *)
SendUnbounded(z) ==
    /\ deliver[z] > 0
    /\ events' = events + 1
    /\ deliver' = [deliver EXCEPT ![z] = @ - 1]
    /\ UNCHANGED <<queue, serving, running, stopping, here, observers, guests>>
    /\ UNCHANGED <<actor, recv, fwd, sends, snd, stopped, sendClose, client>>
    /\ UNCHANGED <<asks, world, died, migrated, late, spent>>

(* session.SendEvent, in the Zone's goroutine. *)
SendEvent(z) ==
    /\ deliver[z] > 0 /\ events < SendQueueLen
    /\ events' = events + 1
    /\ deliver' = [deliver EXCEPT ![z] = @ - 1]
    /\ UNCHANGED <<queue, serving, running, stopping, here, observers, guests>>
    /\ UNCHANGED <<actor, recv, fwd, sends, snd, stopped, sendClose, client>>
    /\ UNCHANGED <<asks, world, died, migrated, late, spent>>

(* The answer.  An Actor that has come gets the observers it had. *)
Answer(z) ==
    /\ deliver[z] = 0
    /\ \E c \in serving[z] : \E r \in asks[c] :
        /\ serving' = [serving EXCEPT ![z] = {}]
        /\ asks' = [asks EXCEPT ![c] = {}]
        /\ observers' = [observers EXCEPT ![z] = IF r.kind = "in" THEN r.seen ELSE @]
        /\ recv' = IF c = Me THEN "replying" ELSE recv
    /\ UNCHANGED <<queue, deliver, running, stopping, here, guests>>
    /\ UNCHANGED <<actor, events, fwd, sends, snd, stopped, sendClose, client>>
    /\ UNCHANGED <<world, died, migrated, late, spent>>

(* Somebody else speaks. *)
Ask(c, z) ==
    /\ ~died /\ Spend
    /\ asks[c] = {}
    /\ asks' = [asks EXCEPT ![c] = {Request(z, "speak", 0)}]
    /\ UNCHANGED <<zoneVars, sessionVars, world, died, migrated, late>>

-----------------------------------------------------------------------------
(* The World: a snapshot ... *)

Snapshot ==
    /\ ~died /\ world = <<"idle">> /\ Spend
    /\ world' = <<"stops">>
    /\ UNCHANGED <<zoneVars, sessionVars, asks, died, migrated, late>>

StopZone(z) ==
    /\ world = <<"stops">> /\ stopping = Zone \ running /\ z \in running
    /\ stopping' = stopping \cup {z}
    /\ UNCHANGED <<queue, serving, deliver, running, here, observers, guests>>
    /\ UNCHANGED <<sessionVars, asks, world, died, migrated, late, spent>>

ZoneStops(z) ==
    /\ z \in stopping \cap running /\ serving[z] = {}
    /\ running' = running \ {z}
    /\ world' = IF running' = {} THEN <<"starts">> ELSE world
    /\ UNCHANGED <<queue, serving, deliver, stopping, here, observers, guests>>
    /\ UNCHANGED <<sessionVars, asks, died, migrated, late, spent>>

(* Wrong on purpose: the World returns after the first Zone it starts. *)
StartOne(z) ==
    /\ world = <<"starts">> /\ z \notin running
    /\ queue' = [queue EXCEPT ![z] = <<>>]
    /\ asks' = [c \in Caller |-> {[r EXCEPT !.lost = @ \/ r.zone = z] : r \in asks[c]}]
    /\ running' = running \cup {z} /\ stopping' = stopping \ {z}
    /\ world' = <<"idle">>
    /\ UNCHANGED <<serving, deliver, here, observers, guests>>
    /\ UNCHANGED <<sessionVars, died, migrated, late, spent>>

(* StartCommandProcessing: a new channel takes the place of the old one. *)
StartZone(z) ==
    /\ world = <<"starts">> /\ z \notin running
    /\ queue' = [queue EXCEPT ![z] = <<>>]
    /\ asks' = [c \in Caller |-> {[r EXCEPT !.lost = @ \/ r.zone = z] : r \in asks[c]}]
    /\ running' = running \cup {z} /\ stopping' = stopping \ {z}
    /\ world' = IF running' = Zone THEN <<"idle">> ELSE world
    /\ UNCHANGED <<serving, deliver, here, observers, guests>>
    /\ UNCHANGED <<sessionVars, died, migrated, late, spent>>

(* ... and a migration, of an Actor that leaves src. *)
MigrateIn(src, dst) ==
    /\ world = <<"idle">> /\ recv = "migrating" /\ actor # {dst}
    /\ src \in here /\ src # dst
    /\ world' = <<"in", src, dst>>
    /\ guests' = [guests EXCEPT ![dst] = @ + observers[src]]
    /\ asks' = [asks EXCEPT ![World] = {Request(dst, "in", observers[src])}]
    /\ migrated' = TRUE
    /\ UNCHANGED <<queue, serving, deliver, running, stopping, here, observers>>
    /\ UNCHANGED <<sessionVars, died, late, spent>>

MigrateOut(src, dst) ==
    /\ world = <<"in", src, dst>> /\ asks[World] = {}
    /\ world' = <<"out", src, dst>>
    /\ guests' = [guests EXCEPT ![dst] = 0]
    /\ asks' = [asks EXCEPT ![World] = {Request(src, "out", 0)}]
    /\ UNCHANGED <<queue, serving, deliver, running, stopping, here, observers>>
    /\ UNCHANGED <<sessionVars, died, migrated, late, spent>>

(* The answer of the World, and the rest of MoveActor. *)
Migrated(src, dst) ==
    /\ world = <<"out", src, dst>> /\ asks[World] = {}
    /\ world' = <<"idle">>
    /\ observers' = [observers EXCEPT ![dst] = @ + 1]
    /\ actor' = {dst} /\ recv' = "replying"
    /\ UNCHANGED <<queue, serving, deliver, running, stopping, here, guests>>
    /\ UNCHANGED <<events, fwd, sends, snd, stopped, sendClose, client>>
    /\ UNCHANGED <<asks, died, migrated, late, spent>>

-----------------------------------------------------------------------------
(* Wrong on purpose: the Actor goes on sending its events. *)
StopAttached(close) ==
    IF stopped THEN UNCHANGED <<actor, observers, stopped, sendClose, died>>
    ELSE IF actor = {} THEN died' = TRUE /\ UNCHANGED <<actor, observers, stopped, sendClose>>
    ELSE /\ actor' = {}
         /\ stopped' = TRUE /\ sendClose' = close
         /\ UNCHANGED <<observers, died>>

(* sendCloseDetachAndStop, once.  To detach from no Actor is a panic. *)
StopOnce(close) ==
    IF stopped THEN UNCHANGED <<actor, observers, stopped, sendClose, died>>
    ELSE IF actor = {} THEN died' = TRUE /\ UNCHANGED <<actor, observers, stopped, sendClose>>
    ELSE /\ observers' = [z \in Zone |-> IF z \in actor /\ observers[z] > 0
                                         THEN observers[z] - 1 ELSE observers[z]]
         /\ actor' = {}
         /\ stopped' = TRUE /\ sendClose' = close
         /\ UNCHANGED died

Evict ==
    /\ ~died /\ Spend
    /\ \E z \in here : observers[z] > 0
    /\ StopOnce(TRUE)
    /\ UNCHANGED <<queue, serving, deliver, running, stopping, here, guests>>
    /\ UNCHANGED <<recv, events, fwd, sends, snd, client, asks, world, migrated, late>>

(* The receiver between two commands. *)
Check ==
    /\ recv = "check"
    /\ recv' = IF stopped THEN "ended" ELSE "reading"
    /\ UNCHANGED <<zoneVars, actor, events, fwd, sends, snd, stopped, sendClose, client>>
    /\ UNCHANGED <<asks, world, died, migrated, late, spent>>

(* handleCommandAttachActor *)
AttachActor(z) ==
    /\ ~died /\ recv = "reading" /\ client # "closed" /\ Spend
    /\ actor = {} /\ z \in here
    /\ observers' = [observers EXCEPT ![z] = @ + 1]
    /\ actor' = {z} /\ recv' = "replying" /\ late' = (late \/ stopped)
    /\ UNCHANGED <<queue, serving, deliver, running, stopping, here, guests>>
    /\ UNCHANGED <<events, fwd, sends, snd, stopped, sendClose, client>>
    /\ UNCHANGED <<asks, world, died, migrated>>

(* handleCommandMoveActor looks whether there is an Actor, decodes the     *)
(* command and then takes the Actor.                                       *)
MoveActor ==
    /\ ~died /\ recv = "reading" /\ client # "closed" /\ Spend
    /\ actor # {}
    /\ recv' = "decoding"
    /\ UNCHANGED <<zoneVars, actor, events, fwd, sends, snd, stopped, sendClose, client>>
    /\ UNCHANGED <<asks, world, died, migrated, late>>

Decoded ==
    /\ recv = "decoding"
    /\ \/ /\ actor = {}
          /\ died' = TRUE /\ UNCHANGED <<asks, recv>>
       \/ \E z \in actor :
             /\ asks' = [asks EXCEPT ![Me] = {Request(z, "move", 0)}]
             /\ recv' = "moving" /\ UNCHANGED died
       \/ actor # {} /\ recv' = "migrating" /\ UNCHANGED <<asks, died>>
    /\ UNCHANGED <<zoneVars, actor, events, fwd, sends, snd, stopped, sendClose, client>>
    /\ UNCHANGED <<world, migrated, late, spent>>

(* sendMessage by the receiver. *)
Reply ==
    /\ recv = "replying" /\ sends < SendQueueLen
    /\ sends' = sends + 1 /\ recv' = "check"
    /\ UNCHANGED <<zoneVars, actor, events, fwd, snd, stopped, sendClose, client>>
    /\ UNCHANGED <<asks, world, died, migrated, late, spent>>

(* ReadMessage fails: the client is gone.  A close message is sent all the *)
(* same when what failed is not a websocket's way of closing.              *)
ReadFails ==
    /\ recv = "reading" /\ client = "closed"
    /\ recv' = "check"
    /\ \E close \in BOOLEAN : StopOnce(close)
    /\ UNCHANGED <<queue, serving, deliver, running, stopping, here, guests>>
    /\ UNCHANGED <<events, fwd, sends, snd, client, asks, world, migrated, late, spent>>

(* The client sends what is no message of the protocol. *)
ReadNonsense ==
    /\ ~died /\ recv = "reading" /\ client # "closed" /\ Spend
    /\ recv' = "check"
    /\ StopOnce(TRUE)
    /\ UNCHANGED <<queue, serving, deliver, running, stopping, here, guests>>
    /\ UNCHANGED <<events, fwd, sends, snd, client, asks, world, migrated, late>>

-----------------------------------------------------------------------------
(* forwardEventsFromCoreLoop.  While there are events it may go on with    *)
(* them though it should stop.                                             *)
TakeEvent ==
    /\ fwd = "idle" /\ events > 0
    /\ events' = events - 1 /\ fwd' = "holding"
    /\ UNCHANGED <<zoneVars, actor, recv, sends, snd, stopped, sendClose, client>>
    /\ UNCHANGED <<asks, world, died, migrated, late, spent>>

Forward ==
    /\ fwd = "holding" /\ sends < SendQueueLen
    /\ sends' = sends + 1 /\ fwd' = "idle"
    /\ UNCHANGED <<zoneVars, actor, recv, events, snd, stopped, sendClose, client>>
    /\ UNCHANGED <<asks, world, died, migrated, late, spent>>

ForwarderStops ==
    /\ fwd = "idle" /\ stopped
    /\ events' = 0 /\ fwd' = "ended"
    /\ UNCHANGED <<zoneVars, actor, recv, sends, snd, stopped, sendClose, client>>
    /\ UNCHANGED <<asks, world, died, migrated, late, spent>>

(* lowLevelSendLoop.  "broken" is a sender whose write has failed. *)
TakeMessage ==
    /\ snd \in {"idle", "broken"} /\ sends > 0
    /\ sends' = sends - 1
    /\ snd' = IF snd = "idle" THEN "writing" ELSE "failing"
    /\ UNCHANGED <<zoneVars, actor, recv, events, fwd, stopped, sendClose, client>>
    /\ UNCHANGED <<asks, world, died, migrated, late, spent>>

Write ==
    /\ snd = "writing" /\ client = "reads"
    /\ snd' = "idle"
    /\ UNCHANGED <<zoneVars, actor, recv, events, fwd, sends, stopped, sendClose, client>>
    /\ UNCHANGED <<asks, world, died, migrated, late, spent>>

(* Wrong on purpose: a write waits for its client as long as it takes. *)
NoTimeout ==
    /\ snd = "failing" \/ (snd = "writing" /\ client = "closed")
    /\ snd' = "broken"
    /\ StopOnce(TRUE)
    /\ UNCHANGED <<queue, serving, deliver, running, stopping, here, guests>>
    /\ UNCHANGED <<recv, events, fwd, sends, client, asks, world, migrated, late, spent>>

(* The write deadline is over, or the connection is. *)
WriteFails ==
    /\ snd = "failing" \/ (snd = "writing" /\ client # "reads")
    /\ snd' = "broken"
    /\ StopOnce(TRUE)
    /\ UNCHANGED <<queue, serving, deliver, running, stopping, here, guests>>
    /\ UNCHANGED <<recv, events, fwd, sends, client, asks, world, migrated, late, spent>>

(* Wrong on purpose: without a close message to send, the sender goes on. *)
SenderWaits ==
    /\ snd \in {"idle", "broken"} /\ stopped /\ sendClose
    /\ sends' = 0
    /\ snd' = "closing"
    /\ died' = (snd = "broken" \/ client = "closed")
    /\ UNCHANGED <<zoneVars, actor, recv, events, fwd, stopped, sendClose, client>>
    /\ UNCHANGED <<asks, world, migrated, late, spent>>

(* The queue is emptied, and the close message written, for which there is *)
(* no deadline; where that fails there is a panic.                         *)
SenderStops ==
    /\ snd \in {"idle", "broken"} /\ stopped
    /\ sends' = 0
    /\ snd' = IF sendClose THEN "closing" ELSE "ended"
    /\ died' = (sendClose /\ (snd = "broken" \/ client = "closed"))
    /\ UNCHANGED <<zoneVars, actor, recv, events, fwd, stopped, sendClose, client>>
    /\ UNCHANGED <<asks, world, migrated, late, spent>>

(* The client has the close message, and closes. *)
Close ==
    /\ snd = "closing" /\ client # "stalls"
    /\ snd' = "ended" /\ client' = "closed"
    /\ UNCHANGED <<zoneVars, actor, recv, events, fwd, sends, stopped, sendClose>>
    /\ UNCHANGED <<asks, world, died, migrated, late, spent>>

ClientStalls ==
    /\ ~died /\ client = "reads" /\ Spend
    /\ client' = "stalls"
    /\ UNCHANGED <<zoneVars, actor, recv, events, fwd, sends, snd, stopped, sendClose>>
    /\ UNCHANGED <<asks, world, died, migrated, late>>

ClientLeaves ==
    /\ ~died /\ client # "closed" /\ Spend
    /\ client' = "closed"
    /\ UNCHANGED <<zoneVars, actor, recv, events, fwd, sends, snd, stopped, sendClose>>
    /\ UNCHANGED <<asks, world, died, migrated, late>>

-----------------------------------------------------------------------------
(* What the goroutines do of themselves. *)
Goroutines ==
    /\ ~died
    /\ \/ \E c \in Caller : Send(c)
       \/ \E z \in Zone : Take(z) \/ SendEvent(z) \/ Answer(z) \/ StopZone(z) \/ ZoneStops(z) \/ StartZone(z)
       \/ \E src, dst \in Zone : MigrateIn(src, dst) \/ MigrateOut(src, dst) \/ Migrated(src, dst)
       \/ Check \/ Decoded \/ Reply \/ ReadFails
       \/ TakeEvent \/ Forward \/ ForwarderStops
       \/ TakeMessage \/ Write \/ WriteFails \/ SenderStops \/ Close

Next ==
    \/ Goroutines
    \/ \E c \in Walker, z \in Zone : Ask(c, z)
    \/ \E z \in Zone : AttachActor(z)
    \/ Snapshot \/ Evict \/ MoveActor \/ ReadNonsense \/ ClientStalls \/ ClientLeaves

(* As long as some goroutine can go on, one does.  What they do of         *)
(* themselves comes to an end, so that this lets none of them wait for     *)
(* ever.  Nobody is bound to ask for anything.                             *)
Spec == Init /\ [][Next]_vars /\ WF_vars(Goroutines)

-----------------------------------------------------------------------------
(* Every variable has its type; the channels keep to their capacity.       *)
TypeOK ==
    /\ \A z \in Zone : Len(queue[z]) <= RequestCap
    /\ serving \in [Zone -> SUBSET Caller]
    /\ deliver \in [Zone -> Nat] /\ observers \in [Zone -> Nat] /\ guests \in [Zone -> Nat]
    /\ running \cup stopping \cup here \subseteq Zone /\ here # {}
    /\ actor \subseteq Zone /\ Cardinality(actor) <= 1
    /\ recv \in {"check", "reading", "decoding", "moving", "migrating", "replying", "ended"}
    /\ events \in 0..SendQueueLen /\ sends \in 0..SendQueueLen
    /\ fwd \in {"idle", "holding", "ended"}
    /\ snd \in {"idle", "writing", "failing", "broken", "closing", "ended"}
    /\ client \in {"reads", "stalls", "closed"}

(* A session that has stopped is "detached from our actor so it stops      *)
(* sending us events" (session.go:262), unless it had been through a       *)
(* migration, which makes it an observer twice or again, or attached as it *)
(* was being stopped.                                                      *)
Ghost == stopped /\ \E z \in Zone : observers[z] + guests[z] > 0

StoppedUnobserved == Ghost => migrated \/ late

(* A channel of a session that has stopped is full, and nobody takes from  *)
(* it any more: it was emptied once (session.go:89, 142), before the last  *)
(* of those who send to it had finished.                                   *)
Deaf ==
    \/ fwd = "ended" /\ events = SendQueueLen
    \/ snd \in {"closing", "ended"} /\ sends = SendQueueLen

(* A Zone never waits for this session for ever, slow as its client may    *)
(* be, unless the session is deaf.                                         *)
ZoneServes ==
    \A z \in Zone : (serving[z] # {}) ~> (serving[z] = {} \/ died \/ Deaf)

(* Who asks a Zone is answered, unless a snapshot took the request channel *)
(* away (zone.go:261) or a Zone waits for a deaf session.                  *)
Answered ==
    \A c \in Caller :
        (asks[c] # {}) ~> (asks[c] = {} \/ died \/ Deaf \/ \E r \in asks[c] : r.lost)

(* A session that has stopped comes to its end and closes the connection   *)
(* (session.go:286), unless its client does not read the close message, or *)
(* it is deaf to itself, or still waits for a Zone or the World.           *)
Ended == recv = "ended" /\ fwd = "ended" /\ snd = "ended"

Closes ==
    stopped ~> Ended \/ died \/ Deaf \/ client = "stalls" \/ recv \in {"moving", "migrating"}
=============================================================================
