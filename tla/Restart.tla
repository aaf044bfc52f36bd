-------------------------------- MODULE Restart --------------------------------
(***************************************************************************)
(* The lives of the daemon and the files that outlive it.                  *)
(*                                                                         *)
(* Zones apply events and append them to the one event log, each from its  *)
(* own goroutine and in two writes (module EventStore).  The World, one    *)
(* goroutine, takes a snapshot of all Zones: it stops them all, reads the  *)
(* number each is at and starts it again, and then, Zone by Zone, replays  *)
(* the log up to that number into a Zone of its own and writes it to a     *)
(* file, while the Zones go on.  Or it works on a transaction under an     *)
(* intent (module IntentLog).  The process may die at any moment, and a    *)
(* write be cut short by that.  A new one loads the Zones from snapshots   *)
(* and log, settles the intents that were left, and serves.                *)
(*                                                                         *)
(* Nothing in the repository calls WriteIntent today: World has the calls  *)
(* in comments around a migration (core/world.go, 254-280).  Transactions  *)
(* here do what these lines would.                                         *)
(***************************************************************************)
EXTENDS EventStore, IntentLog

CONSTANTS
    Transaction,
    Budget      \* bound: commands, snapshots, transactions and crashes

(* What the World is at is told apart from the transaction it works on. *)
ASSUME TransactionAssumption ==
    Transaction \cap {"idle", "stopping", "reading", "saving"} = {}

ASSUME BudgetAssumption == Budget \in Nat

VARIABLES
    life,       \* "up", "down" or "starting"
    zone,       \* [Zone -> content], in memory
    writing,    \* [Zone -> the parts of its last event not yet written]
    log,        \* the event log
    snaps,      \* [Zone -> number -> file], the snapshot files
    world,      \* what the World is at
    halted,     \* the Zones that are stopped
    numbers,    \* the numbers of the snapshot being taken, by Zone
    saving,     \* the parts of the snapshot file being written, if one is
    intents,    \* the intent log
    owed,       \* the parts of an entry not yet written to it
    recovering, \* a start: the intents yet to handle
    promised,   \* history: the Transactions whose WriteIntent has returned
    undone,     \* history: those given to the handler
    whole,      \* history: the snapshots written to the end
    misled,     \* history: the Zones once loaded from a snapshot not Sound
    overlapped, \* history: two Zones have been writing at once
    instant,    \* history: the numbers when all Zones stood still
    spent

zoneVars   == <<zone, writing, log, overlapped>>
snapVars   == <<snaps, halted, numbers, saving, whole, instant>>
intentVars == <<intents, owed, recovering, promised, undone>>
vars == <<zoneVars, snapVars, intentVars, misled, life, world, spent>>

Init ==
    /\ life = "up" /\ world = "idle" /\ spent = 0
    /\ zone = [z \in Zone |-> NewZone]
    /\ writing = [z \in Zone |-> <<>>]
    /\ log = <<>> /\ overlapped = FALSE
    /\ snaps = [z \in Zone |-> <<>>]
    /\ halted = {} /\ numbers = <<>> /\ instant = <<>> /\ whole = {} /\ misled = {}
    /\ saving = <<>>
    /\ intents = <<>> /\ owed = <<>> /\ recovering = <<>>
    /\ promised = {} /\ undone = {}

Spend == spent < Budget /\ spent' = spent + 1

-----------------------------------------------------------------------------
(* Zones.  What is left of the checks of the command handlers is that they *)
(* refer to what is there and that a Location is empty when it goes.       *)
Allowed(content, kind, i) ==
    CASE kind = "add"     -> i \notin content.has /\ Container[i] \subseteq content.has
      [] kind = "remove"  -> /\ i \in content.has
                             /\ i \in Location => \A o \in content.has : i \notin Container[o]
      [] kind = "default" -> i \in content.has \cap Location
      [] kind = "dodge"   -> i \in content.has

(* processCommand up to the point where it persists the event. *)
Command(z, kind, i) ==
    /\ life = "up" /\ z \notin halted /\ writing[z] = <<>>
    /\ Spend
    /\ Allowed(zone[z], kind, i)
    /\ LET e == Event(z, zone[z].next, kind, i)
       IN  /\ zone' = [zone EXCEPT ![z] = Applied(@, e)]
           /\ writing' = [writing EXCEPT ![z] = IF ShouldPersist(e) THEN Written(e) ELSE <<>>]
    /\ UNCHANGED <<misled, snapVars, intentVars, log, overlapped, life, world>>

(* PersistEvent, one write. *)
Persist(z) ==
    /\ writing[z] # <<>>
    /\ log' = Append(log, Head(writing[z]))
    /\ writing' = [writing EXCEPT ![z] = Tail(@)]
    /\ overlapped' = (overlapped \/ \E other \in Zone \ {z} : Len(writing[other]) = 1)
    /\ UNCHANGED <<misled, snapVars, intentVars, zone, life, world, spent>>

-----------------------------------------------------------------------------
(* handleSnapshot *)

AskSnapshot ==
    /\ life = "up" /\ world = "idle"
    /\ Spend
    /\ world' = "stopping"
    /\ UNCHANGED <<misled, zoneVars, snapVars, intentVars, life>>

(* Wrong on purpose: each Zone goes on as soon as its number is read. *)
StopAndGo(z) ==
    /\ world = "stopping" /\ z \notin DOMAIN numbers /\ writing[z] = <<>>
    /\ numbers' = numbers @@ (z :> LastSequenceNum(zone[z]))
    /\ world' = IF DOMAIN numbers' = Zone THEN "saving" ELSE world
    /\ instant' = IF DOMAIN numbers' = Zone
                  THEN [y \in Zone |-> LastSequenceNum(zone[y])] ELSE instant
    /\ UNCHANGED <<misled, zoneVars, intentVars, halted, snaps, saving, whole, life, spent>>

(* StopCommandProcessing waits until the Zone is done with its command.    *)
Stop(z) ==
    /\ world = "stopping" /\ z \notin halted /\ writing[z] = <<>>
    /\ halted' = halted \cup {z}
    /\ world' = IF halted' = Zone THEN "reading" ELSE world
    /\ instant' = IF halted' = Zone
                  THEN [y \in Zone |-> LastSequenceNum(zone[y])] ELSE instant
    /\ UNCHANGED <<misled, zoneVars, intentVars, snaps, numbers, saving, whole, life, spent>>

ReadNumber(z) ==
    /\ world = "reading" /\ z \in halted
    /\ numbers' = [y \in DOMAIN numbers \cup {z} |->
                      IF y = z THEN LastSequenceNum(zone[z]) ELSE numbers[y]]
    /\ halted' = halted \ {z}
    /\ world' = IF halted' = {} THEN "saving" ELSE world
    /\ UNCHANGED <<misled, zoneVars, intentVars, snaps, saving, whole, instant, life, spent>>

SnapshotEnds == world' = "idle" /\ numbers' = <<>>

(* The state the snapshot is made of: the log as it is now, read up to the *)
(* number of the snapshot.                                                 *)
AsOf(z) == Replay(RetrieveEvents(log, snaps[z], z, numbers[z]))

(* PersistSnapshot begins: the file is there, and empty. *)
OpenSnapshot(z) ==
    /\ world = "saving" /\ saving = <<>> /\ z \in DOMAIN numbers
    /\ AsOf(z).ok /\ ~SnapshotPanics(AsOf(z).zone)
    /\ \E events \in Snapshot(z, AsOf(z).zone, numbers[z]) :
           saving' = <<z, FlattenSeq([i \in DOMAIN events |-> Written(events[i])])>>
    /\ snaps' = [snaps EXCEPT ![z] = [n \in DOMAIN snaps[z] \cup {numbers[z]} |->
                                         IF n = numbers[z] THEN <<>> ELSE snaps[z][n]]]
    /\ whole' = whole \ {<<z, numbers[z]>>}
    /\ UNCHANGED <<misled, zoneVars, intentVars, halted, numbers, instant, life, world, spent>>

SaveSnapshot ==
    /\ saving # <<>>
    /\ LET z == saving[1]
           n == numbers[z]
       IN  IF saving[2] # <<>>
           THEN /\ snaps' = [snaps EXCEPT ![z][n] = Append(@, Head(saving[2]))]
                /\ saving' = <<z, Tail(saving[2])>>
                /\ UNCHANGED <<numbers, whole, world>>
           ELSE /\ saving' = <<>>
                /\ whole' = whole \cup {<<z, n>>}
                /\ numbers' = [y \in DOMAIN numbers \ {z} |-> numbers[y]]
                /\ world' = IF numbers' = <<>> THEN "idle" ELSE world
                /\ UNCHANGED snaps
    /\ UNCHANGED <<misled, zoneVars, intentVars, halted, instant, life, spent>>

(* The log does not read, or does not replay: the rest is given up. *)
SnapshotFails(z) ==
    /\ world = "saving" /\ saving = <<>> /\ z \in DOMAIN numbers
    /\ ~AsOf(z).ok
    /\ SnapshotEnds
    /\ UNCHANGED <<misled, zoneVars, intentVars, snaps, halted, saving, whole, instant, life, spent>>

-----------------------------------------------------------------------------
(* Transactions. *)

BeginTransaction(t, holds) ==
    /\ life = "up" /\ world = "idle"
    /\ Spend
    /\ t \notin promised \cup Intended(intents)
    /\ world' = t
    /\ owed' = Intent(t, holds)
    /\ UNCHANGED <<misled, zoneVars, snapVars, intents, recovering, promised, undone, life>>

(* One write to the intent log; after the last WriteIntent returns, or     *)
(* ConfirmIntentCompletion.                                                *)
WriteEntry ==
    /\ owed # <<>>
    /\ intents' = Append(intents, Head(owed))
    /\ owed' = Tail(owed)
    /\ LET last == Len(owed) = 1
           done == Head(owed).part = "header" /\ Head(owed).completed
       IN  /\ promised' = IF last /\ ~done THEN promised \cup {Head(owed).id} ELSE promised
           /\ recovering' = IF last /\ life = "starting" THEN Tail(recovering) ELSE recovering
           /\ world' = IF last /\ done THEN "idle" ELSE world
    /\ UNCHANGED <<misled, zoneVars, snapVars, undone, life, spent>>

(* The work is done, or it failed and the intent is left as it is. *)
EndTransaction(t) ==
    /\ world = t /\ owed = <<>>
    /\ \/ owed' = Completion(t) /\ UNCHANGED world
       \/ world' = "idle" /\ UNCHANGED owed
    /\ UNCHANGED <<misled, zoneVars, snapVars, intents, recovering, promised, undone, life, spent>>

-----------------------------------------------------------------------------
(* The end of a life.  At most one write is cut short. *)

Gone ==
    /\ life' = "down" /\ world' = "idle"
    /\ zone' = [z \in Zone |-> NewZone]
    /\ writing' = [z \in Zone |-> <<>>]
    /\ halted' = {} /\ numbers' = <<>> /\ saving' = <<>>
    /\ owed' = <<>> /\ recovering' = <<>>
    /\ UNCHANGED <<misled, promised, undone, whole, overlapped, instant>>

Crash ==
    /\ life # "down"
    /\ Spend
    /\ Gone
    /\ \/ UNCHANGED <<log, snaps, intents>>
       \/ \E z \in Zone :
              /\ writing[z] # <<>>
              /\ log' = Append(log, Torn(Head(writing[z])))
              /\ UNCHANGED <<snaps, intents>>
       \/ /\ saving # <<>>
          /\ saving[2] # <<>>
          /\ snaps' = [snaps EXCEPT ![saving[1]][numbers[saving[1]]] =
                            Append(@, Torn(Head(saving[2])))]
          /\ UNCHANGED <<log, intents>>
       \/ /\ owed # <<>>
          /\ intents' = Append(intents, CutShort(Head(owed)))
          /\ UNCHANGED <<log, snaps>>

(* An Object whose bag is gone: Zone.snapshot panics, and nobody recovers. *)
SnapshotKills(z) ==
    /\ world = "saving" /\ saving = <<>> /\ z \in DOMAIN numbers
    /\ AsOf(z).ok /\ SnapshotPanics(AsOf(z).zone)
    /\ Gone
    /\ UNCHANGED <<log, snaps, intents, spent>>

-----------------------------------------------------------------------------
(* What a start may rely on.  A snapshot that was cut short by a crash, has *)
(* nothing in it or is named by the number below zero, that of a Zone      *)
(* without events, does not rebuild its Zone.                              *)
Sound(z) ==
    \A n \in FindPreviousSnapshot(snaps[z], MaxUint) :
        n # MaxUint /\ snaps[z][n] # <<>> /\ <<z, n>> \in whole

(* LoadAndStart: all Zones, then the intents, oldest first.  A Zone that   *)
(* does not load, or a handler that fails, ends the start.                 *)

Start ==
    /\ life = "down"
    /\ \A z \in Zone : Load(log, snaps[z], z).ok
    /\ zone' = [z \in Zone |-> Load(log, snaps[z], z).zone]
    /\ intents' = Truncated(intents)
    /\ recovering' = Unfinished(intents)
    /\ life' = "starting"
    /\ misled' = misled \cup {z \in Zone : ~Sound(z)}
    /\ UNCHANGED <<snapVars, writing, log, overlapped, owed, promised, undone, world, spent>>

Handle ==
    /\ life = "starting" /\ recovering # <<>> /\ owed = <<>>
    /\ undone' = undone \cup {Head(recovering).id}
    /\ owed' = Completion(Head(recovering).id)
    /\ UNCHANGED <<misled, zoneVars, snapVars, intents, recovering, promised, life, world, spent>>

HandlerFails ==
    /\ life = "starting" /\ recovering # <<>> /\ owed = <<>>
    /\ Gone
    /\ UNCHANGED <<log, snaps, intents, spent>>

Serve ==
    /\ life = "starting" /\ recovering = <<>>
    /\ life' = "up"
    /\ UNCHANGED <<misled, zoneVars, snapVars, intentVars, world, spent>>

Next ==
    \/ \E z \in Zone, kind \in {"add", "remove", "default", "dodge"}, i \in Item : Command(z, kind, i)
    \/ \E z \in Zone : \/ Persist(z) \/ Stop(z) \/ ReadNumber(z)
                       \/ OpenSnapshot(z) \/ SnapshotFails(z) \/ SnapshotKills(z)
    \/ AskSnapshot \/ SaveSnapshot
    \/ \E t \in Transaction : \/ \E holds \in {<<"undo">>, <<"redo", "undo">>} : BeginTransaction(t, holds)
                              \/ EndTransaction(t)
    \/ WriteEntry \/ Crash \/ Start \/ Handle \/ HandlerFails \/ Serve

Spec == Init /\ [][Next]_vars

-----------------------------------------------------------------------------
(* Every variable has its type, numbers of events stay within the width of *)
(* theirs, and a Zone is stopped for a snapshot only.                      *)
TypeOK ==
    /\ life \in {"up", "down", "starting"}
    /\ zone \in [Zone -> Content]
    /\ world \in {"idle", "stopping", "reading", "saving"} \cup Transaction
    /\ halted # {} => world \in {"stopping", "reading"}
    /\ DOMAIN numbers \subseteq Zone /\ \A z \in DOMAIN numbers : numbers[z] \in Number
    /\ whole \subseteq Zone \X Number /\ misled \subseteq Zone
    /\ promised \cup undone \subseteq Transaction
    /\ overlapped \in BOOLEAN /\ spent \in 0..Budget

(* A start loads what a Zone has in memory whenever no event is half       *)
(* written, from the snapshot and the events after it as from all events   *)
(* (README, "Automatic snapshot re-play"), but for the default Location,   *)
(* which a snapshot leaves out.  It is not so once two Zones have written   *)
(* to the log at once, and not after a snapshot that is not Sound.          *)
RestartRebuilds ==
    life = "up" /\ ~overlapped /\ log # <<>> /\ (\A z \in Zone : writing[z] = <<>>) =>
        \A z \in {y \in Zone \ misled : Sound(y)} :
            LET loaded == Load(log, snaps[z], z)
            IN  /\ loaded.ok
                /\ loaded.zone.has = zone[z].has
                /\ loaded.zone.astray = zone[z].astray
                /\ loaded.zone.default \in {{}, zone[z].default}

(* The numbers of a snapshot are those the Zones had at one instant, though *)
(* they are read one after the other with Zones already running again       *)
(* (core/world.go: "a single instant in time across all zones").            *)
OneInstant ==
    world \in {"reading", "saving"} => \A z \in DOMAIN numbers : numbers[z] = instant[z]

(* The intent log keeps its promise through every crash. *)
Promise == INSTANCE IntentPromise WITH
    state   <- [t \in Transaction |->
                  IF t \in Completed(intents) THEN "settled"
                  ELSE IF t \in promised \cup Intended(intents) THEN "open" ELSE "none"],
    undone  <- undone,
    serving <- life = "up"

IntentsKept == Promise!Spec
=============================================================================
