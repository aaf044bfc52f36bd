--------------------------------- MODULE Brain ---------------------------------
(***************************************************************************)
(* A brain: the client that plays an Actor nobody else plays (brain/), on  *)
(* the websocket it shares with its session in the server (wsapi).         *)
(*                                                                         *)
(* Four goroutines of the session and two of the brain meet here.  The     *)
(* session's receiver takes commands from the brain (asks) and holds one   *)
(* answer at a time (reply); its forwarder takes events of the Zone (news);*)
(* both put messages on the wire, so an answer may overtake an event that  *)
(* is older, or be overtaken by one that is newer.  The brain's readLoop   *)
(* takes messages off the wire into the memory and releases the aiLoop,    *)
(* which waits on a callback whenever it lacks a fact.  Both of them run   *)
(* inside the daemon: a panic of either ends the daemon (crashed).         *)
(*                                                                         *)
(* Time is left out: which goal wins depends on seconds that passed, so    *)
(* the choice is free among the goals that can win.  So are containers     *)
(* inside containers: a Thing lies in a Place or is held by an Actor.      *)
(* An empty set stands for nil, a singleton for a value.                   *)
(***************************************************************************)
EXTENDS PathFind

CONSTANTS
    Me,         \* the Actor the brain plays
    Other,      \* the Actors it may meet
    Place, Thing,
    Land,       \* [Place -> the Zone it is in]
    Exit,       \* [Place -> function from directions to Places]
    Nowhere,
    Home,       \* where Actors may start, functions from them to Places or Nowhere
    Lies,       \* where Things may start, functions from them to Places and Actors
    Crowd,      \* so many others make a Place too crowded (3 in the code)
    Health,     \* Physical of an Actor at the start
    Bite,       \* average damage of Me's natural bite
    Keen,       \* [Thing -> average slashing damage]
    Expansions, \* of one search for a plan (4000 in the code)
    QueueLen,   \* capacity of the session's eventChan (4 in the code)
    WireLen,    \* bound: messages in lowLevelSendChan and on the network
    MostEars,   \* bound: 1 + the migrations of Me
    Strolls     \* bound: things done by others

Actor == Other \cup {Me}

ASSUME BrainAssumption ==
    /\ Me \notin Other
    /\ Nowhere \notin Place
    /\ Home \subseteq [Actor -> Place \cup {Nowhere}] /\ \A h \in Home : h[Me] \in Place
    /\ Lies \subseteq [Thing -> Place \cup Actor]
    /\ \A p \in Place : \A d \in DOMAIN Exit[p] : Exit[p][d] \in Place \ {p}
    /\ {Health, Expansions, QueueLen, WireLen, MostEars} \subseteq Nat \ {0}
    /\ {Crowd, Bite, Strolls} \subseteq Nat
    /\ IsFiniteSet(Thing) /\ Keen \in [Thing -> Nat]

VARIABLES
    (* the Zones *)
    place,      \* [Actor -> Place \cup {Nowhere}]
    lies,       \* [Thing -> Place \cup Actor]
    hp,         \* [Actor -> Nat]
    ears,       \* how often the session is in the list of Me's observers
    strolls,    \* bound: how much others have done
    carried,    \* history: the last to move Me was an administrator
    (* the session and the wire *)
    session,    \* "open", "closing" (stopChan closed) or "closed"
    reading,    \* its receiver is blocked in a read
    news,       \* eventChan
    reply,      \* the answer its receiver is about to send
    asks,       \* commands on the way to it
    wire,       \* messages on the way to the brain
    (* the brain *)
    memory,
    pc,         \* where the aiLoop is
    plan,       \* what it has gathered in this turn
    question,   \* the question it waits on
    registered, \* the callbacks, by the tag of their question
    done,       \* how often the callback of the question has run
    got,        \* what it found
    rlocks,     \* read locks of the memory taken for the aiLoop
    heard,      \* readLoop has read the close message
    stopping,   \* Intellect.Stop has run
    shut,       \* Brain.Shutdown has run
    conn,       \* the brain has not closed its connection
    crashed     \* the daemon is gone

zones == <<place, lies, hp, ears, strolls, carried>>
link  == <<session, reading, news, reply>>
mind  == <<pc, plan, question, done, got, rlocks>>
ends  == <<heard, stopping, shut, conn>>
vars  == <<zones, link, asks, wire, memory, mind, registered, ends, crashed>>

None == [a \in Actor |-> 0]

NoPlan ==
    [crowded |-> FALSE, foe |-> {}, phys |-> 0, scene |-> {}, slash |-> 0,
     bite |-> 0, spare |-> <<>>, refused |-> 0, do |-> {}]

NewMemory ==
    [at       |-> {},
     listing  |-> [p \in Place |-> {}],
     attacker |-> {},
     met      |-> [a \in Actor |-> {}],
     studied  |-> {}]

Init ==
    /\ place \in Home /\ lies \in Lies
    /\ hp = [a \in Actor |-> Health]
    /\ ears = 1 /\ strolls = 0 /\ carried = FALSE
    /\ session = "open" /\ reading = TRUE
    /\ news = <<>> /\ reply = {} /\ asks = <<>> /\ wire = <<>>
    /\ memory = NewMemory
    /\ pc = "rest" /\ plan = NoPlan
    /\ question = {} /\ registered = {} /\ done = 0 /\ got = {} /\ rlocks = 0
    /\ heard = FALSE /\ stopping = FALSE /\ shut = FALSE /\ conn = TRUE
    /\ crashed = FALSE

-----------------------------------------------------------------------------
(* What the brain keeps in mind: a listing of a Place counts the Actors    *)
(* and Things in it, for its lists may name one more than once.            *)

(* One more in a list, or one less if it is there. *)
Counted(n, by) == Max({0, n + by})

(* AddActorToLocation and its kin do nothing without a listing. *)
Listed(m, p, field, x, by) ==
    LET Changed(l) == [l EXCEPT ![field][x] = Counted(@, by)]
    IN  [m EXCEPT !.listing[p] = {Changed(l) : l \in @}]

(* Where the brain believes it is; before it knows, in no Place. *)
AtHome(m, field, x, by) ==
    IF m.at = {} THEN m ELSE Listed(m, CHOOSE p \in m.at : TRUE, field, x, by)

(* Wrong on purpose: the listing of the Place it left is kept. *)
CameToKeepsAll(m, p) == [m EXCEPT !.at = {p}]

CameTo(m, p) ==
    [m EXCEPT !.at = {p}, !.listing = [q \in Place |-> {}]]

(* An Actor that leaves is taken off the listing of where it went. *)
WitnessMove(m, e) ==
    CASE e.who = Me      -> CameTo(m, e.to)
      [] {e.from} = m.at -> Listed(m, e.to, "who", e.who, -1)
      [] {e.to} = m.at   -> Listed(m, e.to, "who", e.who, 1)
      [] OTHER           -> m

WitnessThing(m, e) ==
    LET left == IF e.from \in Place THEN Listed(m, e.from, "things", e.who, -1) ELSE m
    IN  IF e.to \in Place THEN Listed(left, e.to, "things", e.who, 1) ELSE left

(* Of its own death the brain remembers nothing: it stops.  An event of    *)
(* any other kind is news it has no use for.                               *)
Witness(m, e) ==
    CASE e.kind = "add"    -> AtHome(m, "who", e.who, 1)
      [] e.kind = "gone"   -> AtHome(m, "who", e.who, -1)
      [] e.kind = "death"  -> IF e.who = Me THEN m ELSE AtHome(m, "who", e.who, -1)
      [] e.kind = "move"   -> WitnessMove(m, e)
      [] e.kind = "in"     -> IF e.who = Me THEN CameTo(m, e.to)
                              ELSE Listed(m, e.to, "who", e.who, 1)
      [] e.kind = "out"    -> IF e.who = Me THEN m
                              ELSE Listed(m, e.from, "who", e.who, -1)
      [] e.kind = "thing"  -> WitnessThing(m, e)
      [] e.kind = "hurt"   -> IF e.to = Me THEN [m EXCEPT !.attacker = {e.who}] ELSE m
      [] OTHER             -> m

SetLocationInfo(m, info) == [m EXCEPT !.at = {info.place}, !.listing[info.place] = {info}]

Learn(m, kind, info) ==
    CASE kind = "where" -> SetLocationInfo(m, info)
      [] kind = "actor" -> [m EXCEPT !.met[info.id] = {info}]
      [] kind = "thing" -> [m EXCEPT !.studied = @ \cup {info}]
      [] OTHER          -> m

(* GetLocationInfo, GetActorInfo and GetObjectInfo, for what is known. *)
Recall(m, kind, x) ==
    CASE kind = "where" -> IF x = {} THEN {} ELSE m.listing[CHOOSE p \in x : TRUE]
      [] kind = "actor" -> m.met[x]
      [] kind = "thing" -> m.studied \cap {x}
      [] OTHER          -> {}

-----------------------------------------------------------------------------
(* The Zones and what the session gets to see of them.  A Zone waits in    *)
(* SendEvent while eventChan is full.                                      *)

Ev(kind, who, from, to) == [kind |-> kind, who |-> who, from |-> from, to |-> to]

Times(n, e) == [i \in 1..n |-> e]

If(cond, es) == IF cond THEN es ELSE <<>>

SendEvents(es) ==
    /\ news = <<>> \/ Len(news) + Len(es) <= QueueLen
    /\ news' = IF session = "open" THEN news \o es ELSE news

Dying == hp[Me] = 0 /\ place[Me] # Nowhere

Happens == ~crashed /\ ~Dying /\ strolls < Strolls /\ strolls' = strolls + 1

(* An Actor goes from one Location to another, or to another Zone.  All    *)
(* but moves and damage are told as often as the session is listed.        *)
Passage(a, from, to) ==
    IF Land[from] = Land[to]
    THEN If(place[Me] \in {from, to}, <<Ev("move", a, from, to)>>)
    ELSE If(place[Me] = to \/ a = Me, Times(ears, Ev("in", a, from, to)))
         \o If(place[Me] = from /\ a # Me, Times(ears, Ev("out", a, from, to)))

Stroll(a) ==
    /\ Happens
    /\ place[a] \in Place
    /\ \E d \in DOMAIN Exit[place[a]] :
        LET to == Exit[place[a]][d]
        IN  /\ place' = [place EXCEPT ![a] = to]
            /\ SendEvents(Passage(a, place[a], to))
    /\ UNCHANGED <<lies, hp, ears, carried, session, reading, reply, asks, wire,
                   memory, mind, registered, ends, crashed>>

Arrive(a) ==
    /\ Happens
    /\ place[a] = Nowhere /\ hp[a] > 0
    /\ \E p \in Place :
        /\ place' = [place EXCEPT ![a] = p]
        /\ SendEvents(If(place[Me] = p, Times(ears, Ev("add", a, Nowhere, p))))
    /\ UNCHANGED <<lies, hp, ears, carried, session, reading, reply, asks, wire,
                   memory, mind, registered, ends, crashed>>

(* An administrator puts an Actor elsewhere in its Zone. *)
Relocate(a) ==
    /\ Happens
    /\ place[a] \in Place
    /\ \E p \in Place \ {place[a]} :
        /\ Land[p] = Land[place[a]]
        /\ place' = [place EXCEPT ![a] = p]
        /\ SendEvents(If(a = Me \/ place[Me] \in {p, place[a]},
                         Times(ears, Ev("relocate", a, place[a], p))))
    /\ carried' = (carried \/ a = Me)
    /\ UNCHANGED <<lies, hp, ears, session, reading, reply, asks, wire,
                   memory, mind, registered, ends, crashed>>

Exchange(a, t) ==
    /\ Happens
    /\ place[a] \in Place
    /\ lies[t] \in {a, place[a]}
    /\ LET to == IF lies[t] = a THEN place[a] ELSE a
       IN  /\ lies' = [lies EXCEPT ![t] = to]
           /\ SendEvents(If(place[Me] = place[a], <<Ev("thing", t, lies[t], to)>>))
    /\ UNCHANGED <<place, hp, ears, carried, session, reading, reply, asks, wire,
                   memory, mind, registered, ends, crashed>>

(* A blow that hurts, or the last one: the death is told before the Actor  *)
(* is removed.                                                             *)
Attack(a) ==
    /\ Happens
    /\ place[a] = place[Me] /\ place[Me] # Nowhere
    /\ \E left \in {0, hp[Me]} :
        /\ hp' = [hp EXCEPT ![Me] = left]
        /\ SendEvents(<<Ev("hurt", a, Nowhere, Me)>>
                      \o If(left = 0, Times(ears, Ev("death", Me, Nowhere, Nowhere))))
    /\ UNCHANGED <<place, lies, ears, carried, session, reading, reply, asks, wire,
                   memory, mind, registered, ends, crashed>>

(* The removal after its death: Me has neither Zone nor Location now. *)
Bury ==
    /\ ~crashed /\ Dying
    /\ place' = [place EXCEPT ![Me] = Nowhere]
    /\ UNCHANGED <<lies, hp, ears, strolls, carried, link, asks, wire, memory,
                   mind, registered, ends, crashed>>

(* Observers of a removed Actor are evicted; so is the session when        *)
(* another one attaches to Me.  The session is detached and told to stop.  *)
Evict ==
    /\ ~crashed /\ session = "open"
    /\ \/ place[Me] = Nowhere /\ UNCHANGED strolls
       \/ Happens
    /\ session' = "closing"
    /\ UNCHANGED <<place, lies, hp, ears, carried, reading, news, reply, asks, wire,
                   memory, mind, registered, ends, crashed>>

-----------------------------------------------------------------------------
(* The session: its receiver serves one command at a time, reading the     *)
(* state of the Zone as it finds it.                                       *)

(* The identifier of events and of the close message: no callback's. *)
NoTag == 3

Answer(q, type, info) ==
    reply' = {[type |-> type, tag |-> q.tag, kind |-> q.kind, body |-> info]}

(* The receiver closes the session itself and ends with it. *)
CloseSession == session' = "closing" /\ UNCHANGED reply

SameZone(p) == p \in Place /\ Land[p] = Land[place[Me]]

ThingPlace(t) == IF lies[t] \in Actor THEN place[lies[t]] ELSE lies[t]

LocationInfo(p) ==
    [place  |-> p,
     who    |-> [a \in Actor |-> IF place[a] = p THEN 1 ELSE 0],
     things |-> [t \in Thing |-> IF lies[t] = p THEN 1 ELSE 0]]

ActorInfo(a) == [id |-> a, phys |-> hp[a], hands |-> [t \in Thing |-> IF lies[t] = a THEN 1 ELSE 0]]

GetCurrentLocInfo(q) ==
    /\ Answer(q, "answer", {LocationInfo(place[Me])})
    /\ UNCHANGED <<zones, news, session>>

LookAtOtherActor(q) ==
    /\ IF place[q.of] = place[Me] THEN Answer(q, "answer", {ActorInfo(q.of)})
       ELSE Answer(q, "refused", {})
    /\ UNCHANGED <<zones, news, session>>

LookAtObject(q) ==
    /\ IF lies[q.of] \in {place[Me], Me} THEN Answer(q, "answer", {q.of})
       ELSE Answer(q, "refused", {})
    /\ UNCHANGED <<zones, news, session>>

(* A migration may fail for reasons of the World; after one that has not,  *)
(* the session is an observer once more.                                   *)
MoveActor(q) ==
    LET here == place[Me]
    IN  /\ IF q.of \in DOMAIN Exit[here]
           THEN LET to == Exit[here][q.of]
                IN  \/ /\ Land[to] = Land[here] \/ ears < MostEars
                       /\ place' = [place EXCEPT ![Me] = to]
                       /\ ears' = IF Land[to] = Land[here] THEN ears ELSE ears + 1
                       /\ carried' = FALSE
                       /\ SendEvents(Passage(Me, here, to))
                       /\ Answer(q, "complete", {})
                    \/ /\ Land[to] # Land[here]
                       /\ Answer(q, "refused", {})
                       /\ UNCHANGED <<place, ears, carried, news>>
           ELSE Answer(q, "refused", {}) /\ UNCHANGED <<place, ears, carried, news>>
        /\ UNCHANGED <<lies, hp, strolls, session>>

(* A Thing is here and the Location it is to come from is not: of that one *)
(* the Zone gets a nil pointer, not a nil Container.                       *)
Astray(q) == q.kind = "take" /\ SameZone(ThingPlace(q.of[1])) /\ ~SameZone(q.of[2])

(* Off the ground; what does not lie where the brain thinks closes the     *)
(* session.                                                                *)
MoveObject(q) ==
    /\ IF ~SameZone(ThingPlace(q.of[1]))
       THEN Answer(q, "refused", {}) /\ UNCHANGED <<lies, news, session>>
       ELSE IF Astray(q)
       THEN UNCHANGED <<lies, news, session, reply>>
       ELSE IF lies[q.of[1]] # q.of[2] \/ q.of[2] # place[Me]
       THEN CloseSession /\ UNCHANGED <<lies, news>>
       ELSE /\ lies' = [lies EXCEPT ![q.of[1]] = Me]
            /\ SendEvents(<<Ev("thing", q.of[1], place[Me], Me)>>)
            /\ Answer(q, "complete", {})
            /\ UNCHANGED session
    /\ UNCHANGED <<place, hp, ears, strolls, carried>>

(* A dead Actor leaves what it held, and its corpse is no longer an Actor. *)
Dead(a) ==
    LET loot == SetToSeq({t \in Thing : lies[t] = a})
    IN  Times(ears, Ev("death", a, Nowhere, Nowhere))
        \o [i \in DOMAIN loot |-> Ev("thing", loot[i], a, place[a])]
        \o Times(ears, Ev("gone", a, place[a], Nowhere))

MeleeCombat(q) ==
    LET a == q.of
    IN  /\ IF ~SameZone(place[a])
           THEN Answer(q, "refused", {}) /\ UNCHANGED <<place, lies, hp, news, session>>
           ELSE IF place[a] # place[Me]
           THEN CloseSession /\ UNCHANGED <<place, lies, hp, news>>
           ELSE /\ \E left \in 0..hp[a] :
                     /\ hp' = [hp EXCEPT ![a] = left]
                     /\ IF left > 0
                        THEN /\ SendEvents(If(left < hp[a], <<Ev("hurt", Me, Nowhere, a)>>))
                             /\ UNCHANGED <<place, lies>>
                        ELSE /\ SendEvents(<<Ev("hurt", Me, Nowhere, a)>> \o Dead(a))
                             /\ place' = [place EXCEPT ![a] = Nowhere]
                             /\ lies' = [t \in Thing |->
                                            IF lies[t] = a THEN place[a] ELSE lies[t]]
                /\ Answer(q, "complete", {})
                /\ UNCHANGED session
        /\ UNCHANGED <<ears, strolls, carried>>

(* A read was under way when the session was told to stop: one more        *)
(* command is served, with no Actor.                                       *)
ServeDetached(q) ==
    /\ session # "open"
    /\ crashed' = (q.kind \notin {"where", "move"})
    /\ UNCHANGED <<zones, news, reply, session>>

(* Removed from its Zone and not yet evicted, Me has no Location. *)
ServeBuried ==
    /\ session = "open" /\ place[Me] = Nowhere
    /\ crashed' = TRUE
    /\ UNCHANGED <<zones, news, reply, session>>

ServeOpen(q) ==
    /\ session = "open" /\ place[Me] # Nowhere /\ ~Dying
    /\ \/ q.kind = "where" /\ GetCurrentLocInfo(q)
       \/ q.kind = "actor" /\ LookAtOtherActor(q)
       \/ q.kind = "thing" /\ LookAtObject(q)
       \/ q.kind = "move" /\ MoveActor(q)
       \/ q.kind = "take" /\ MoveObject(q)
       \/ q.kind = "strike" /\ MeleeCombat(q)
    /\ crashed' = Astray(q)

Serve ==
    /\ ~crashed /\ reading /\ asks # <<>>
    /\ reading' = FALSE
    /\ asks' = Tail(asks)
    /\ ServeDetached(Head(asks)) \/ ServeBuried \/ ServeOpen(Head(asks))
    /\ UNCHANGED <<wire, memory, mind, registered, ends>>

(* sendMessage, and back to the top of receiveFromClientLoop. *)
SendReply ==
    /\ ~crashed /\ reply # {} /\ Len(wire) < WireLen
    /\ wire' = wire \o SetToSeq(reply)
    /\ reply' = {}
    /\ reading' = (session = "open")
    /\ UNCHANGED <<zones, session, news, asks, memory, mind, registered, ends, crashed>>

ForwardEvent ==
    /\ ~crashed /\ session # "closed" /\ news # <<>> /\ Len(wire) < WireLen
    /\ wire' = Append(wire, [type |-> "event", tag |-> NoTag, kind |-> "event", body |-> {Head(news)}])
    /\ news' = Tail(news)
    /\ UNCHANGED <<zones, session, reading, reply, asks, memory, mind, registered, ends, crashed>>

(* lowLevelSendLoop sees stopChan: what is queued is thrown away and the   *)
(* close message is the last.                                              *)
StopSending ==
    /\ ~crashed /\ session = "closing"
    /\ \E n \in 0..Len(wire) :
        wire' = Append(SubSeq(wire, 1, n),
                       [type |-> "close", tag |-> NoTag, kind |-> "event", body |-> {}])
    /\ session' = "closed"
    /\ news' = <<>> /\ reply' = {}
    /\ UNCHANGED <<zones, reading, asks, memory, mind, registered, ends, crashed>>

-----------------------------------------------------------------------------
(* The readLoop of the brain.                                              *)

Lookup(kind) == kind \in {"where", "actor", "thing"}

(* Wrong on purpose: the callback looks the fact up without a lock. *)
ReleaseUnlocked(answer) ==
    /\ done' = done + Cardinality(question)
    /\ rlocks' = rlocks
    /\ got' = answer

(* What a callback does: that of a lookup takes a read lock for the        *)
(* goroutine it releases and looks the fact up again.                      *)
Release(answer) ==
    /\ done' = done + Cardinality(question)
    /\ rlocks' = rlocks + Cardinality({q \in question : Lookup(q.kind)})
    /\ got' = answer

Error == [ok |-> FALSE, value |-> {}]

Found(m, msg) ==
    {IF msg.type = "refused" THEN Error
     ELSE [ok |-> TRUE, value |-> Recall(m, q.kind, q.of)] : q \in question}

(* Intellect.Stop: once, and every callback registered by now is run with  *)
(* a fake error.                                                           *)
StopIntellect ==
    /\ stopping' = TRUE
    /\ IF stopping \/ registered = {}
       THEN UNCHANGED <<registered, done, got, rlocks>>
       ELSE Release({Error}) /\ registered' = {}

(* Wrong on purpose: the callback stays in the map. *)
CallBackAgain(m, msg) ==
    /\ IF msg.tag \in registered THEN Release(Found(m, msg))
       ELSE UNCHANGED <<done, got, rlocks>>
    /\ UNCHANGED registered

(* Wrong on purpose: only an answer runs the callback, an error does not. *)
CallBackOnAnswer(m, msg) ==
    IF msg.tag \in registered /\ msg.type # "refused"
    THEN Release(Found(m, msg)) /\ registered' = registered \ {msg.tag}
    ELSE UNCHANGED <<registered, done, got, rlocks>>

(* HandleMessage, after the memory has been brought up to date: the        *)
(* callback is run and forgotten.                                          *)
CallBack(m, msg) ==
    IF msg.tag \in registered
    THEN Release(Found(m, msg)) /\ registered' = registered \ {msg.tag}
    ELSE UNCHANGED <<registered, done, got, rlocks>>

Remember(m, msg) ==
    CASE msg.type = "event"  -> Witness(m, CHOOSE e \in msg.body : TRUE)
      [] msg.type = "answer" -> Learn(m, msg.kind, CHOOSE i \in msg.body : TRUE)
      [] OTHER               -> m

OwnDeath(msg) ==
    msg.type = "event" /\ \E e \in msg.body : e.kind = "death" /\ e.who = Me

(* Writing to the memory waits for the read lock of the aiLoop. *)
HandleMessage ==
    /\ ~crashed /\ ~shut /\ wire # <<>> /\ Head(wire).type # "close" /\ rlocks = 0
    /\ wire' = Tail(wire)
    /\ memory' = Remember(memory, Head(wire))
    /\ IF OwnDeath(Head(wire)) THEN StopIntellect
       ELSE CallBack(memory', Head(wire)) /\ UNCHANGED stopping
    /\ UNCHANGED <<zones, link, asks, pc, plan, question, heard, shut, conn, crashed>>

(* A close message makes the read fail: Brain.Shutdown, and the end of     *)
(* readLoop and administrativeLoop.                                        *)
ReadClose ==
    /\ ~crashed /\ ~shut /\ wire # <<>> /\ Head(wire).type = "close"
    /\ wire' = Tail(wire)
    /\ heard' = TRUE /\ shut' = TRUE
    /\ StopIntellect
    /\ UNCHANGED <<zones, link, asks, memory, pc, plan, question, conn, crashed>>

(* doFinalShutdown waits for the aiLoop. *)
FinalShutdown ==
    /\ ~crashed /\ shut /\ conn /\ pc = "end"
    /\ conn' = FALSE
    /\ UNCHANGED <<zones, link, asks, wire, memory, mind, registered, heard, stopping,
                   shut, crashed>>

-----------------------------------------------------------------------------
(* The plan for a fight: a shortest series of blows, with whatever may be  *)
(* picked up first.  room counts how many more things the hands can hold   *)
(* as far as the plan knows, spare is what the plan reads off the list of  *)
(* the things on the ground.                                               *)

FightState == [phys : 0..Health, slash : Nat, bite : Nat, room : 0..2, spare : Seq(Thing)]

Greater(m, n) == IF m > n THEN m ELSE n

(* All states share the map of what is in the hands, and each thing read   *)
(* fills a hand.  What room that leaves is used up by the node looked at   *)
(* next, which is the slash: it was the first to be queued.                *)
Struck(s, damage, room) == [s EXCEPT !.phys = Greater(0, @ - damage), !.room = room]

PickedUp(s, t) == [s EXCEPT !.slash = Greater(@, Keen[t]), !.room = 0]

Options(s) ==
    {[kind |-> "slash", nth |-> 0,
      next |-> Struck(s, s.slash, Greater(0, s.room - Len(s.spare)))]}
    \cup {[kind |-> "bite", nth |-> 0, next |-> Struck(s, s.bite, 0)] : b \in {Bite} \ {0}}
    \cup {[kind |-> "take", nth |-> n, next |-> PickedUp(s, s.spare[n])] :
            n \in IF s.room > 0 THEN DOMAIN s.spare ELSE {}}

(* A node of the search is the series of options that leads to it: two     *)
(* nodes are never one, though they may come to the same state.            *)
Outcome(s, way) == IF way = <<>> THEN s ELSE way[Len(way)].next

Further(s, ways) == UNION {{Append(way, o) : o \in Options(Outcome(s, way))} : way \in ways}

Winning(s, ways) == {way \in ways : Outcome(s, way).phys = 0}

(* DijkstraFindPath over these nodes.  Every action takes a second: nodes   *)
(* are expanded by their depth, those of one depth in any order.  ways are *)
(* the nodes of the depth the search comes to, spent the expansions before.*)
FightSearch(s) ==
    LET search[k \in 0..Expansions] ==
            IF k = 0 THEN [ways |-> {<<>>}, spent |-> 0]
            ELSE LET last == search[k-1]
                     all  == last.spent + Cardinality(last.ways)
                 IN  IF Winning(s, last.ways) # {} \/ all >= Expansions THEN last
                     ELSE [ways |-> Further(s, last.ways), spent |-> all]
    IN  search[Expansions]

FightPlans(s) == Winning(s, FightSearch(s).ways)

(* The bound may be met before a goal is. *)
MayFail(s) ==
    FightSearch(s).spent + Cardinality(FightSearch(s).ways \ FightPlans(s)) >= Expansions

-----------------------------------------------------------------------------
(* The aiLoop.  A turn gathers facts one after the other; what the memory  *)
(* lacks it asks for, and waits.                                           *)

(* An identifier no message and no callback has. *)
FreshTag ==
    CHOOSE t \in 0..2 : /\ \A i \in DOMAIN asks : asks[i].tag # t
                        /\ \A i \in DOMAIN wire : wire[i].tag # t
                        /\ \A r \in reply : r.tag # t

(* Once the close message has been read, sending fails.  A lookup returns  *)
(* then with its lock released before, and releases it again; a command    *)
(* just fails.                                                             *)
Ask(kind, x) ==
    /\ question = {}
    /\ IF heard
       THEN /\ crashed' = Lookup(kind)
            /\ pc' = "rest" /\ plan' = NoPlan
            /\ UNCHANGED <<question, registered, asks>>
       ELSE LET q == [kind |-> kind, of |-> x, tag |-> FreshTag]
            IN  /\ question' = {q}
                /\ registered' = {q.tag}
                /\ asks' = Append(asks, q)
                /\ UNCHANGED <<crashed, pc, plan>>
    /\ UNCHANGED <<memory, done, got, rlocks>>

Known(kind, x) ==
    IF question = {} THEN Lookup(kind) /\ Recall(memory, kind, x) # {} ELSE done > 0

Fact(kind, x) ==
    IF question = {} THEN [ok |-> TRUE, value |-> Recall(memory, kind, x)]
    ELSE CHOOSE g \in got : TRUE

(* On its way out a lookup that has waited releases the lock its callback  *)
(* took.                                                                   *)
EndQuestion ==
    LET locked == {q \in question : Lookup(q.kind)}
    IN  /\ crashed' = (locked # {} /\ rlocks = 0)
        /\ rlocks' = IF locked # {} /\ rlocks > 0 THEN rlocks - 1 ELSE rlocks
        /\ question' = {} /\ done' = 0 /\ got' = {}
        /\ UNCHANGED <<asks, registered>>

GoOn(next, newPlan) == EndQuestion /\ pc' = next /\ plan' = newPlan

GiveUp == GoOn("rest", NoPlan)

(* With the fact, what then is done; without it, a question. *)
Consult(kind, x, then) ==
    \/ ~Known(kind, x) /\ Ask(kind, x)
    \/ Known(kind, x) /\ then /\ UNCHANGED memory

(* The entries of a list that is counted. *)
Many(counts) == Cardinality(UNION {{x} \X (1..counts[x]) : x \in DOMAIN counts})

(* numActorsInLocation: of a Location it knows nothing of, no Actors. *)
Crowded(fact) ==
    GoOn("threat", [plan EXCEPT !.crowded = \E l \in fact.value : Many(l.who) - 1 >= Crowd])

(* lastAttackerInLocation *)
Threatened(fact) ==
    GoOn("choose", [plan EXCEPT !.foe =
        {a \in memory.attacker : \E l \in fact.value : l.who[a] > 0}])

Look ==
    \/ pc = "crowd" /\ Consult("where", memory.at, Crowded(Fact("where", memory.at)))
    \/ /\ pc = "threat" /\ memory.attacker # {}
       /\ Consult("where", memory.at, Threatened(Fact("where", memory.at)))
    \/ pc = "threat" /\ memory.attacker = {} /\ GoOn("choose", plan) /\ UNCHANGED memory

(* Idling and old wounds count with the seconds since: doing nothing can   *)
(* always win, walking when it is crowded, fighting when the attacker is   *)
(* here.                                                                   *)
Choose ==
    /\ pc = "choose"
    /\ \/ GiveUp
       \/ plan.crowded /\ GoOn("walk", plan)
       \/ plan.foe # {} /\ GoOn("enemy", plan)
    /\ UNCHANGED memory

(* Any exit of the Location it believes it is in. *)
PickExit(fact) ==
    IF fact.value = {} THEN GiveUp
    ELSE \E l \in fact.value : \E d \in DOMAIN Exit[l.place] :
            GoOn("act", [plan EXCEPT !.do = {[kind |-> "move", of |-> d, to |-> Exit[l.place][d]]}])

Enemy == CHOOSE a \in plan.foe : TRUE

(* initFromMemory: an enemy it cannot look at has no hit points left. *)
SeeEnemy(fact) ==
    GoOn("scene", [plan EXCEPT !.phys =
        IF fact.value = {} THEN 0 ELSE (CHOOSE i \in fact.value : TRUE).phys])

SeeScene(fact) ==
    IF fact.ok THEN GoOn("self", [plan EXCEPT !.scene = fact.value]) ELSE GiveUp

SeeSelf(fact) == IF fact.value # {} THEN GoOn("hands", plan) ELSE GiveUp

InHands ==
    IF memory.met[Me] = {} THEN {}
    ELSE {t \in Thing : (CHOOSE i \in memory.met[Me] : TRUE).hands[t] > 0}

Room ==
    IF memory.met[Me] = {} THEN 0
    ELSE Greater(0, 2 - Many((CHOOSE i \in memory.met[Me] : TRUE).hands))

(* The root of the search is no goal, and a hand is free. *)
Looks == plan.phys > 0 /\ Room > 0

Laid(l) == Many(l.things)

(* What is remembered by now of the Location. *)
Scenery == UNION {memory.listing[l.place] : l \in plan.scene}

(* The list of what lies around is that of the memory: there the planner   *)
(* and the readLoop move its entries as they take one off, and the planner *)
(* goes through it meanwhile.  Of [a, b, c] it reads a, c and c, and [b, c, *)
(* c] stays behind.  Which things it reads is left open, how many is not.  *)
OnGround ==
    IF ~Looks \/ \A l \in plan.scene : Laid(l) = 0 THEN {}
    ELSE {t \in Thing : \E l \in plan.scene \cup Scenery : l.things[t] > 0}

(* In what it holds there may be something to take. *)
InReach == IF Looks THEN InHands ELSE {}

Readings ==
    IF OnGround = {} THEN {<<>>}
    ELSE UNION {[1..Laid(l) -> OnGround \cap memory.studied] : l \in plan.scene}

Unstudied(things) == things \ memory.studied

(* What it holds decides how well it slashes; when one thing cannot be     *)
(* looked at the rest is left at zero, its bite included.                  *)
SeeHand(fact) == GoOn(IF fact.ok THEN "hands" ELSE "ground", plan)

SeeHands ==
    LET sharp == {Keen[t] : t \in InHands} \cup {0}
    IN  GoOn("ground", [plan EXCEPT !.slash = Max(sharp), !.bite = Bite])

(* A look that is refused leaves the node with nothing to take; with the   *)
(* next node the planner asks again.                                       *)
SeeThing(fact) ==
    IF fact.ok THEN GoOn("ground", plan)
    ELSE LET less == [plan EXCEPT !.refused = @ + 1]
         IN  \/ GoOn("fight", less)
             \/ less.refused < Expansions /\ GoOn("ground", less)

SeeGround == \E read \in Readings : GoOn("fight", [plan EXCEPT !.spare = read])

Gather ==
    \/ pc = "walk" /\ Consult("where", memory.at, PickExit(Fact("where", memory.at)))
    \/ pc = "enemy" /\ Consult("actor", Enemy, SeeEnemy(Fact("actor", Enemy)))
    \/ pc = "scene" /\ Consult("where", memory.at, SeeScene(Fact("where", memory.at)))
    \/ pc = "self" /\ Consult("actor", Me, SeeSelf(Fact("actor", Me)))
    \/ /\ pc = "hands"
       /\ \/ question = {} /\ Unstudied(InHands) = {} /\ SeeHands /\ UNCHANGED memory
          \/ \E t \in Thing : /\ IF question = {} THEN t \in Unstudied(InHands)
                                 ELSE \E q \in question : q.of = t
                              /\ Consult("thing", t, SeeHand(Fact("thing", t)))
    \/ /\ pc = "ground"
       /\ \/ question = {} /\ Unstudied(InReach) = {} /\ SeeGround /\ UNCHANGED memory
          \/ \E t \in Thing : /\ IF question = {} THEN t \in Unstudied(OnGround \cup InReach)
                                 ELSE \E q \in question : q.of = t
                              /\ Consult("thing", t, SeeThing(Fact("thing", t)))

(* All that the planner has read is in the hands, if there was room once   *)
(* more twice.                                                             *)
Gripped(s) ==
    LET once  == [t \in Thing |-> Cardinality({i \in DOMAIN s.spare : s.spare[i] = t})]
        again == s.room > Len(s.spare) /\ s.phys > s.slash /\ Expansions > 1
    IN  [t \in Thing |-> IF again THEN once[t] + once[t] ELSE once[t]]

(* After refusals: up to some hand that was free, and a list more. *)
Grips(s) ==
    IF plan.refused = 0 \/ OnGround = {} THEN {Gripped(s)}
    ELSE UNION {{more \in [Thing -> 0..(1 + Laid(l))] : \A t \in Thing \ OnGround : more[t] = 0} :
                   l \in plan.scene}

(* The remembered list: as many entries, each of what lay there. *)
Muddled(l) ==
    LET Shuffled == {c \in [Thing -> 0..Laid(l)] :
                        Many(c) = Laid(l) /\ \A t \in Thing \ OnGround : c[t] = 0}
    IN  IF OnGround = {} THEN {l} ELSE {[l EXCEPT !.things = c] : c \in Shuffled}

Muddles ==
    {left \in [Scenery -> UNION {Muddled(l) : l \in Scenery}] :
        \A l \in Scenery : left[l] \in Muddled(l)}

Imagined(m, more, left) ==
    LET Holding(i) == [i EXCEPT !.hands = [t \in Thing |-> @[t] + more[t]]]
        Left(l)    == IF l \in Scenery THEN left[l] ELSE l
    IN  [m EXCEPT !.met[Me] = {Holding(i) : i \in @},
                  !.listing = [p \in Place |-> {Left(l) : l \in @[p]}]]

Strike == [kind |-> "strike", of |-> Enemy, to |-> Nowhere]

Take(t) == [kind |-> "take", of |-> <<t, (CHOOSE l \in plan.scene : TRUE).place>>, to |-> Nowhere]

Fight(do) == GoOn("act", [plan EXCEPT !.do = {do}])

(* Only the first action of a plan is ever taken. *)
StartPlan(way) ==
    IF way = <<>> THEN GiveUp
    ELSE Fight(IF way[1].kind = "take" THEN Take(plan.spare[way[1].nth]) ELSE Strike)

(* What was refused at first is taken after a blow or not at all. *)
PlanFight ==
    /\ pc = "fight"
    /\ LET s == [phys |-> plan.phys, slash |-> plan.slash, bite |-> plan.bite,
                 room |-> Room, spare |-> plan.spare]
       IN  /\ \/ plan.refused = 0 /\ MayFail(s) /\ GiveUp
              \/ plan.refused = 0 /\ \E way \in FightPlans(s) : StartPlan(way)
              \/ plan.refused > 0 /\ (GiveUp \/ Fight(Strike))
           /\ \E more \in Grips(s), left \in Muddles : memory' = Imagined(memory, more, left)

(* The command is sent and waited for; that it failed nobody asks.  After  *)
(* a move the brain believes it is where the exit leads.                   *)
Act ==
    /\ pc = "act"
    /\ \E do \in plan.do :
        \/ question = {} /\ Ask(do.kind, do.of)
        \/ /\ question # {} /\ done > 0
           /\ memory' = IF do.kind = "move" THEN [memory EXCEPT !.at = {do.to}] ELSE memory
           /\ GiveUp

(* A new turn, or the end of the loop. *)
Turns ==
    /\ pc = "rest"
    /\ pc' = IF stopping THEN "end" ELSE "crowd"
    /\ UNCHANGED <<memory, plan, question, done, got, rlocks, asks, registered, crashed>>

Think ==
    /\ ~crashed
    /\ Turns \/ Look \/ Choose \/ Gather \/ PlanFight \/ Act
    /\ UNCHANGED <<zones, link, wire, ends>>

-----------------------------------------------------------------------------
OtherStep ==
    \/ \E a \in Other : Stroll(a) \/ Arrive(a) \/ Attack(a)
    \/ \E a \in Other, t \in Thing : Exchange(a, t)
    \/ \E a \in Actor : Relocate(a)

ServerStep == Bury \/ Evict \/ Serve \/ SendReply \/ ForwardEvent \/ StopSending

ReaderStep == HandleMessage \/ ReadClose \/ FinalShutdown

Next == OtherStep \/ ServerStep \/ ReaderStep \/ Think

(* Goroutines that can run do: the Zone, the three of the session, the     *)
(* brain's readLoop and its aiLoop.  Nobody has to go anywhere or attack.  *)
(* Each formula is WF_vars of its action, with a condition under which the *)
(* action is enabled spelled out.                                          *)
MayServe == ~crashed /\ reading /\ asks # <<>> /\ news = <<>> /\ ~Dying

MaySend == ~crashed /\ Len(wire) < WireLen

MayRead == ~crashed /\ ~shut /\ wire # <<>> /\ rlocks = 0

MayThink == ~crashed /\ pc # "end" /\ (question = {} \/ done > 0)

Fairness ==
    /\ <>[](~crashed /\ Dying) => []<><<Bury>>_vars
    /\ <>[](~crashed /\ session = "open" /\ place[Me] = Nowhere) => []<><<Evict>>_vars
    /\ <>[]MayServe => []<><<Serve>>_vars
    /\ <>[](MaySend /\ reply # {}) => []<><<SendReply>>_vars
    /\ <>[](MaySend /\ news # <<>> /\ session # "closed") => []<><<ForwardEvent>>_vars
    /\ <>[](~crashed /\ session = "closing") => []<><<StopSending>>_vars
    /\ <>[]MayRead => []<><<HandleMessage \/ ReadClose>>_vars
    /\ <>[](~crashed /\ shut /\ conn /\ pc = "end") => []<><<FinalShutdown>>_vars
    /\ <>[]MayThink => []<><<Think>>_vars

Spec == Init /\ [][Next]_vars /\ Fairness

-----------------------------------------------------------------------------
Info ==
    [place : Place, who : [Actor -> Nat], things : [Thing -> Nat]]
        \cup [id : Actor, phys : 0..Health, hands : [Thing -> Nat]]
        \cup Thing

AtMostOne(S) == {{}} \cup {{x} : x \in S}

TypeOK ==
    /\ place \in [Actor -> Place \cup {Nowhere}]
    /\ lies \in [Thing -> Place \cup Actor]
    /\ hp \in [Actor -> 0..Health]
    /\ ears \in 1..MostEars /\ strolls \in 0..Strolls /\ carried \in BOOLEAN
    /\ session \in {"open", "closing", "closed"} /\ reading \in BOOLEAN
    /\ Len(asks) <= 2 /\ Len(wire) <= WireLen + 1 /\ Cardinality(reply) <= 1
    /\ memory.at \in AtMostOne(Place) /\ memory.attacker \in AtMostOne(Other)
    /\ memory.studied \subseteq Thing
    /\ \A p \in Place : \A l \in memory.listing[p] : l \in Info /\ l.place = p
    /\ \A a \in Actor : \A i \in memory.met[a] : i \in Info /\ i.id = a
    /\ \A i \in DOMAIN wire : wire[i].tag \in 0..NoTag
    /\ Cardinality(question) <= 1 /\ registered \subseteq 0..2
    /\ rlocks \in 0..1
    /\ {heard, stopping, shut, conn, crashed} \subseteq BOOLEAN

(* A waiter is released once: a second release would make its WaitGroup    *)
(* negative, which is a panic.                                             *)
AnsweredOnce == done <= 1

(* The daemon dies of a brain only when the session of that brain has lost *)
(* its Actor, or when it serves a command to take something out of a       *)
(* Location that is in another Zone.                                       *)
DiesDetached ==
    [][crashed' /\ ~crashed =>
          \/ session # "open" \/ place[Me] = Nowhere
          \/ asks # asks' /\ Astray(Head(asks))]_vars

(* Every question ends. *)
QuestionAnswered == question # {} ~> (question = {} \/ stopping \/ crashed)

(* A brain that is wrong about where it is finds out. *)
FindsItself ==
    memory.at # {place[Me]} ~>
        (memory.at = {place[Me]} \/ carried \/ session # "open" \/ Dying \/ crashed)

-----------------------------------------------------------------------------
(* The path finders by themselves.  They have no state: they are tried     *)
(* once, before the brain's first turn.                                    *)
FirstTurn ==
    /\ pc = "rest" /\ memory = NewMemory /\ asks = <<>> /\ news = <<>> /\ wire = <<>>
    /\ strolls = 0 /\ session = "open" /\ ~stopping

(* DijkstraFindPath finds a cheapest path to a nearest goal, and none when *)
(* there is none; stopped early it finds such a path or none.              *)
DijkstraIsShortest ==
    FirstTurn => \A t \in Trial : \A goals \in SUBSET DOMAIN t.graph :
        \A most \in 0..EnoughTurns(t.graph) :
            LET search == DijkstraFindPath(t.graph, t.start, goals, most)
            IN  \/ IsShortest(t.graph, t.start, goals, search)
                \/ most < EnoughTurns(t.graph) /\ search.final = {}

(* AStarFindPath does so too for every estimate that never exceeds what is *)
(* left of the way, be it consistent or not.                               *)
AStarIsShortest ==
    FirstTurn => \A t \in Trial : \A goal \in DOMAIN t.graph :
        \A estimate \in [DOMAIN t.graph -> Guess] :
            Modest(t.graph, {goal}, estimate) =>
                IsShortest(t.graph, t.start, {goal},
                           AStarFindPath(t.graph, t.start, {goal}, estimate))
=============================================================================
