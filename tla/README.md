# Verification of gomud2

gomud2 is a multi-user dungeon in Go. Its core is event-sourced: commands go to a
Zone, the Zone turns them into events, applies the events to the structures in
memory and appends them to a log, and a restart replays the log. This directory
models that core in TLA+, checks it with TLC on small instances, and proves some
of what is checked for all instances with TLAPS. All paths below are relative to
`src/src/github.com/sayotte/gomud2/`, except README.md and doc/README.md, which
are the repository's.

    tlc -workers 2 -config ZonePlaces.cfg MCZone.tla     # one run
    tlapm ZoneProofs.tla                                 # the proofs of a module

PROJECT.json lists the components, the runs, the mutants (a plausible bug for
each property, which the run then finds), the source lines of every definition,
the findings, the hazards and the theorems.

## Inventory

| Component | State | Operations | What makes it correct |
|---|---|---|---|
| Zone (`core/zone.go` and the entities) | maps of Locations, Exits, Actors, Objects; each entity points to its container and is in its list; default Location | one handler per command, one `applyXxxEvent` per event | pointers and lists agree; nobody is nowhere or in two places; nothing is left in what is removed; the log rebuilds the Zone |
| Zone request loop (`core/zone.go` 252-299) | bounded channel, stop channel | request, answer, stop, start | every request is answered, also across a snapshot |
| World (`core/world.go`) | the Zones, a command channel | add, migrate, snapshot, load and start | an Actor is handed from Zone to Zone without loss, also when the process dies |
| Event store (`store/store.go`, `domainconverter.go`) | one append-only file, snapshot files | append, read by Zone, newest snapshot | what was acknowledged is read back, in order; a torn tail is survivable |
| Intent log (`store/logger.go`) | one file of intents and completions | write, confirm, open | an unfinished transaction is handled at least once, a finished one never |
| Websocket session (`wsapi/session.go`) | attached Actor, event queue, send queue, stop flag | attach, commands, events, eviction, close | no goroutine blocks for ever, above all no Zone; a closed session gets nothing |
| Telnet session (`telnet/`) | handler stack, event queue, connection buffers | lines in, events in, stop | the same |
| World editor (`telnet/editor.go`) | the Zone under edit | build and remove Locations, Exits, Objects | what it has read is still true when it acts |
| Spawn and reap (`spawnreap/service.go`) | ages of Objects, counts of brains | tick: reap, spawn, launch brains; stop | only what lies around decays; no more than MaxCount; Stop returns |
| Brain (`brain/`) | memory, plan, callbacks | react, plan, act, stop | memory follows events; every callback is answered once |
| Path finding (`brain/internal/inner/pathfind`) | none | A*, Dijkstra | shortest paths |
| Accounts (`auth/`) | map by id, index by name, a file | create, login, add Actor | one account per name; no update lost; a restart restores it |

**How they interact.** Sessions, the editor, the reaper and brains read the
entities of a Zone directly, from their own goroutines, and send commands through
`syncRequestToSelf`: a bounded channel and an answer channel. The Zone goroutine
runs a handler to its end, pushes each event to the observers of the places
concerned from inside the handler, persists, answers. The World is a goroutine of
the same kind above the Zones; a migration is one World command that sends two
Zone commands. Sessions are the observers; brains are websocket clients.

**What is hard.** Everything a caller reads before it asks may be stale when the
handler runs, and handlers check part of it only. A command makes several events:
all are applied, some handlers persist only the last, and a crash may cut the
list anywhere. Two Zones and the World are three goroutines without a
transaction. Observers are called from the Zone goroutine and may block it.

## State of the plan

Modelled and checked: one Zone with its callers and its log (`ZoneState`, `Zone`);
migration and crashes (`World`, refining `Handover`); the files, snapshots, intents
and lives of the daemon (`EventStore`, `IntentLog`, `Restart`, refining
`IntentPromise`); a websocket session among Zones that may block on it (`Session`);
a brain with its session, its memory and its path finders (`Brain`, `PathFind`);
accounts (`Accounts`).

Open, in this order: the telnet session and connection as goroutines; the ticks,
counts and shutdown of the spawn service; two connections at once in `Accounts`.

Theorems: the safety properties that the passing runs check, of `Zone`, `World`,
`Restart`, `Session`, `Brain` and the path finders, are proved for all values of the
constants, the action properties and refinements among them (see Proofs). Next: what
the open modules above will claim.

## Modules

### ZoneState: what an event does

The record `ZoneType` holds the maps of a Zone (`locs`, `exits`, `actors`, `objs`
are their domains) and the fields of the entities as total functions, because a
structure outlives its map entry: sessions keep pointers to it. Each `After...` is
one `applyXxxEvent`, each `Can...` the condition under which it returns no error.
The same operators serve the running Zone and the replay, as the same methods do
in the code. `Object.Location()` walks up the containers: `Above` is one step, `Up` n
of them, `Top` where they end and `WayUp` what they come by. A walk may end in
nothing, and there Go dereferences nil, or go round for ever, since nothing keeps a bag
out of a bag that lies in it, and there the stack overflows; in `Top` the latter shows
as an Object. Faults of
the code are modelled as they are: `AfterExitUpdate` loses an internal
destination (`newDst` is never assigned, zone.go 1454), `WouldOverflow` looks at
the wrong container (849), `AfterObjectMoveFails` leaves the Object in no list
(1583-1592).

### Zone: one Zone, its callers, its log

| TLA+ | Code |
|---|---|
| `live` | the Zone in memory |
| `disk`, `loads` | what `ReplayEvents` would build of the events persisted so far, and whether it gets to the end; kept up event by event, so that "after a crash now" is a state predicate |
| `pending[s]` | a command a session has prepared from what it read, on its way through the request channel |
| `used` | ids handed out (UUIDs are fresh) |

A handler is one action, since the Zone goroutine runs it to its end. A caller
whose reading matters is two: `PrepareMove`/`Move` (`commands.MoveActor`, then up
to the action delay of sleep in `Actor.Move`, then `processActorMoveCommand`),
`PrepareRemoveLocation`/`RemoveLocation` and `PrepareUpdateExit`/`UpdateExit`
(editor), `PrepareReap`/`Reap` (reaper). `Reject` is the handler that returns an
error before it has applied anything; `RemoveLocationFails` and `MoveObjectFails`
are those that return one afterwards. `Drives` and `Editor` say who commands
whom; the code does not limit either, so `SoleDriver` and `SoleEditor` are
assumptions of the theorems that need them and not of the model.

### World and Handover: migration and crashes

`World` has a `ZoneType` per Zone in memory (`zone`) and per log (`disk`), the
events a Zone has applied and not yet persisted (`writing`; while it is not empty
the goroutine is inside `processCommand`), the migration each session waits for
(`asked`) and the one the World goroutine serves (`serving`). `MigrateIn` copies the
Actor out of the old Zone's structures as they are at that moment, `Persist`
appends one event, the last one answers, `MigrateOut` removes what the Actor
carries by then, `MigrateOutFails` is "cannot find Actor to migrate out of Zone".
`CrashAndRestart` throws the memory away and takes the logs.

`Handover` is the abstract promise: in memory and in the log an Actor reaches the
new Zone before it leaves the old one. It knows only in which Zones an Actor is.
`World!HandsOver` is the refinement, with the mapping in `Handing`; TLC checks it
as a property. `Handover!Save` lets the log catch up with the memory about any one
Actor and Zone, which covers events about Objects as stutters.

### EventStore, IntentLog, Restart: what outlives the process

`EventStore` says what is in the files. A file is a sequence of parts: the header
of an event, its body, or a part a crash cut short. `Written` is what
`writeEvent` appends in two writes, `ReadEvents` what `readEvent` makes of a file
by lengths alone: a header followed by a stranger's body ends the reading with an
error. `RetrieveEvents` picks the newest snapshot not after the number asked for
(`FindPreviousSnapshot`) and the events after it (`FirstAfter`); `LastSequenceNum`
is the subtraction on unsigned numbers, of width `MaxUint`. A content is what a
Zone holds, as far as one thing depends on another: a coin in a bag in a room.

`IntentLog` has the entries of `store.IntentLogger`: an intent in up to three
writes, a completion in one; `Truncated` and `Unfinished` are what `Open` does.

`Restart` composes both. Zones write events one part at a time, each from its own
goroutine. The World stops all Zones, reads a number and starts one after the
other, and then writes a snapshot file per Zone while they go on; or it works on a
transaction under an intent. `Crash` loses the memory and cuts at most the write
under way. `Start` loads every Zone or leaves the daemon down; `Handle` and
`HandlerFails` are the handler of incomplete transactions, `Serve` the rest of
`LoadAndStart`. Nothing in the repository calls `WriteIntent` at present
(world.go 254-280 has the calls in comments); `BeginTransaction` and
`EndTransaction` do what these lines would, so that the log and `Open`, which do
exist, have something to work on. In the code the handler's first type assertion
would fail on any intent; that is one of the outcomes of `HandlerFails`.

`IntentPromise` is what an intent log is for: once `WriteIntent` has returned, the
intent is confirmed, or handed to the handler and settled before anybody is
served, and never handed out again after that. `Restart!IntentsKept` is the
refinement.

### Session: who waits for whom

| TLA+ | Code |
|---|---|
| `recv`, `fwd`, `snd` | where `receiveFromClientLoop`, `forwardEventsFromCoreLoop` and `lowLevelSendLoop` are |
| `events`, `sends` | how full `eventChan` and `lowLevelSendChan` are |
| `queue`, `serving`, `deliver` | a Zone's request channel, the request it works on, the events it still has to send this session before it answers |
| `observers`, `guests` | how often the session observes its Actor, and the Location the Actor is to come to (`MigrateInActor` adds it there for a while) |
| `world`, `running`, `stopping` | the World goroutine in a snapshot or a migration |
| `died` | a panic: the process is gone |

`StopOnce` is `sendCloseDetachAndStop` in its `sync.Once`, called by the receiver
(the client is gone, or has sent what is no message: `ReadFails`, `ReadNonsense`), the
sender (a write failed) or another session's goroutine (`Evict`). `StartZone` puts a new request channel in the place of the old one:
requests on the old one are `lost`. Three things it shows of the code as it is:
a session that has migrated observes its Actor twice, once by `MigrateIn` and once
by `commands.MoveActor`, and stops observing once; a stop of a session that is not
attached dereferences nil; and the close message is written on a connection whose
write has just timed out, where gorilla/websocket returns the earlier error and
the sender panics. The comment above `socketWriteTimeoutLen` wants slow clients
cut off so that they do not "block the rest of the system"; the model has the
daemon die of it instead (`died` is an exception of the liveness properties).

### Brain and PathFind

`Brain` follows one brain through the goroutines it consists of: `Think` is the
aiLoop (look around, choose a goal, gather facts, plan, act), `HandleMessage` the
readLoop, `Serve`, `SendReply`, `ForwardEvent`, `StopSending` the session's. Facts
the brain lacks are questions: a callback is registered, a command sent and the
answer waited for. The memory is modelled as it is updated, faults included: an
Actor that leaves is taken off the list of the Location it goes to (`WitnessMove`),
what is picked up is counted at both ends. Time and utilities are left out: the
choice among the goals that can win is free.

`PathFind` has the two searches as recursive functions of a number of turns, on graphs
given by their costs. Dijkstra's bound on the expansions is that number; A*, which
goes on until its queue is empty, gets `EnoughTurns`, and a theorem says that the queue
is empty by then. `Ways` are the paths of fewer edges than there are nodes, `IsShortest`
compares a result with all of them, and `Modest` says of an estimate that it exceeds
none. `Brain` states what they find on the graphs of `Trial` in its first state.

A fight is planned by Dijkstra's search on a graph that comes into being with it: each
action generated is a node of its own, so that two nodes never are one though they come
to the same state. `FightSearch` is that search on the tree of series of actions. All
actions take a second, so that nodes are expanded depth by depth, in any order within
one; `Expansions` bounds them (4000 in the code, 5 in the run), and at the depth where
the bound falls the search may end with a goal or with none (`MayFail`). `Options` are
the actions of a state. All states share the map of what is in the hands and the list
of what lies around, the latter with the memory itself. Therefore only the node
expanded next after the first can still pick up anything (`Struck`), what was considered
for picking up is remembered as held (`Gripped`, `Imagined`), and the remembered list is
shifted in place while the planner goes through it: of [a, b, c] it reads a, c and c.
`Readings` leaves open which things of the list are read, as many as it had, with a
thing read twice or not at all, and `Muddled` which are left on it. A look that is
refused while the planner reads them (`SeeThing`) leaves that node with nothing to take,
and the next node asks again.

### Accounts

Each operation of `auth.Server` reads an entry under one lock and stores one under
another; `PutEntry` is the second half of all of them, with the file. `Load` is
what a start makes of the file: both maps get the address of the loop's variable.

### MCZone, MCWorld, MCRestart, MCSession, MCBrain

The constants of the runs and the symmetry sets. Symmetry is used for ids that
nothing tells apart (never with a temporal property other than `[][A]_v`, and not
at all in the World, session and brain runs; in the store run Zones and
Transactions are symmetric, and the property there is a refinement without
fairness).

## Runs

| Run | Instance | Shows |
|---|---|---|
| zone_places | 3 Locations, 2 Exits, 2 directions, 1 Actor, 1 session, 1 editor | an editor rebuilds the map under a walking, dying Actor: `ActorListed`, `OneLocation`, `ExitsAnchored`, `UniqueDirections`, and what a restart still gets right: `RestartKeepsPopulation`, `RestartKeepsPassages`, `RestartMisplacesNobody` |
| zone_things | 2 Locations, 2 Actors of 2 hit points, a bag, a sword, 1 corpse, editor, reaper | take, give, put, wear, fights, decay: `SingleListing`, `NothingLeftBehind`, `CarryingLimit`, `AliveHaveHp`, `DeathLeavesLoot`, `NothingFallsOut` and restarts |
| zone_two_drivers | two sessions on one Actor | violates `OneLocation` |
| zone_rebuilt | as zone_places | violates `LogRebuildsZone` |
| zone_replay | two Actors, three things | violates `LogReplays` |
| zone_decay | as zone_things | violates `DecayOnTheGround` |
| world_travel | 2 Zones, a traveller, a bag with a coin in it, 1 corpse, 1 crash | `NobodyLost`, `NothingLost`, `OneZone`, every migration answered, `HandsOver` |
| world_two_copies | the same | violates `ConsistentAfterRestart` |
| store | 2 Zones, a coin in a bag in a room, 1 transaction, numbers modulo 10, five commands, snapshots, transactions and crashes | `RestartRebuilds`: a start loads what the Zone had, from snapshots as from all events; `OneInstant`: the numbers of a global snapshot belong to one moment; `IntentsKept` |
| session | 2 Zones, this session, another speaker, channels with one place, fresh or with full channels; three commands and mishaps (a stalled or leaving client, an eviction, a snapshot) | `StoppedUnobserved`: when a stopped session still gets events; `ZoneServes`, `Answered`, `Closes`: who may wait for ever |
| brain | a wolf and an elf, 3 Places in 2 Zones, a sword, two things done by others | `QuestionAnswered`, `AnsweredOnce`, `FindsItself`, `DiesDetached`; `DijkstraIsShortest`, `AStarIsShortest` on 324 graphs of three nodes |
| accounts | two accounts, one player at a time | violates `AccountsAsSaved` |

Six findings go with the six violations (PROJECT.json); each quotes the line of
the documentation the code departs from.

**Bounds.** Three Locations are the least in which a stale move has a wrong
origin, a wrong destination and a default to be relocated to; two Exits the least
for a self-loop, a pair in one direction and a removal that fails half-way. Two
Actors and two Objects, one of them a bag with room for one, give hand-overs,
full hands (capacity 1) and nesting. Every id is used once, as UUIDs are, which
bounds the number of additions. Two hit points let a blow wound or kill. The
World runs take one crash, no trading after it, and do not follow an Actor that a
crash or a death has left in two Zones through another migration (`Unique`):
structures of one id in one Zone would then be told apart by pointers alone, which
the model does not have. They have one
traveller, since two with a corpse are too many states; the theorems about `World` are
for any number. `Gives` is empty there: `NothingLost`
does not hold if somebody hands an Object to a traveller, or puts one into a bag it
carries, between the two halves of its migration (`Leaving`), and nothing in the
repository says it should. At any other time all trade is allowed. Deadlock is not checked: with all
ids used and nothing left to trade the system may rest.

In the store run two Zones are the least that can interleave their writes, and
five of the counted steps are enough for a snapshot, commands during and after it,
a crash in a write and a second one; numbers up to 9 make the one underflow, of a
Zone without events, reach the largest number as in the code. `RestartRebuilds`
has three exceptions, each a fault of the code that the model has: two Zones that
write to the one file at once (`overlapped`), a snapshot file that was cut short,
is empty or bears the number of the underflow (`Sound`, `misled`), and the default
Location, which no snapshot keeps. In the session run channels have one place
each (four in the code), the fewest events that fill them; starting with full channels
lets three steps reach a Zone that blocks (channels fill by what others say, which
is a state of the program any talk leads to). `Deaf` is the exception of its
liveness properties: a channel of a stopped session that nobody takes from. In the
brain run two things done by others, next to all that the brain does itself, are
enough for an eviction in the middle of a question and for an event that overtakes
an answer; two places in each queue let them be reordered. Five expansions come to the
second depth of a plan, which a foe of two hit points needs when the wolf bites, and may
end there for lack of turns. Its path finders are tried on
graphs of three nodes, the least in which a way with more edges may be the cheaper one:
every set of edges, costs 1 and 3, and cost 1 back to the start, where it makes no
difference; every goal or set of goals, every number of expansions up to `EnoughTurns`,
and every estimate that gives each node 0, 2 or 3 and is `Modest`, most of them not
consistent.

**Fairness.** `World`: weak fairness of `Persist`: a goroutine inside
a handler goes on. Strong fairness of the migration's steps: the World's request
waits in a Zone's channel, which is served in the order of arrival, but between
two looks other commands may have made the Zone busy. The fairness of `MigrateIn`
and `MigrateOut` is written with the enabling condition spelled out (`MayMigrateIn`,
`MayMigrateOut`), because TLC is slow at `ENABLED` of an action that computes lists of
events. No fairness is
assumed of players, deaths or crashes. `Session`: weak fairness of all goroutines
together. Each of their steps uses up a request, an event, a message or a stage of
a shutdown and only the bounded steps of clients add to these, so that a behaviour
in which some goroutine could go on for ever is one in which none goes on; Go's
scheduler runs what can run. `Brain`: weak fairness of each goroutine, written
with its enabling condition spelled out for the same reason as above. `Restart`
has none: its properties are about safety.

## Proofs

A proof module extends the module it is about. `ZoneStateProofs` has what events
do, for Zone and World alike; on it rest `ZoneProofs` (types, passages, places,
Objects, and what a restart rebuilds) and `WorldProofs`, which instantiates
`HandoverProofs`. `StoreProofs` has the lemmas about the operators on files, on which
`RestartProofs` rests; `SessionProofs` and `BrainProofs` stand alone. What a handler
does is said once per event (frames: which fields it leaves alone), once per group
of handlers, and put together in one lemma that the invariant survives a step.

One Zone, for any numbers of Locations, Exits, Actors, Objects and sessions:

* `TypeCorrect`: `[]TypeOK`, in memory and of what the log would build.
* `PassagesAnchored`: `[]ExitsAnchored`. `PassagesInv` adds that every Exit of the
  Zone has a used id, without which a new Exit might carry the id of an old one.
* `DirectionsUnique`, assuming `SoleEditor`: `[]UniqueDirections`. The handler of an
  update checks nothing, so `DirectionsInv` adds what makes it right all the same:
  the direction a queued update gives to its Exit is taken by no other Exit of the
  Location, because only editors add or turn Exits and this one waits.
* `ActorsListed`, assuming `SoleEditor`: `[]ActorListed`. `ListedInv` adds that a
  prepared removal is never of the default Location. That is what one editor looks at
  before it asks and what two editors can break: relocating to the Location that is
  being removed.
* `ActorsInOnePlace`, assuming `SoleDriver`: `[]OneLocation`. `SingleInv` adds
  `MovesCurrent`: a move in the queue is still true of its Actor, or will be refused
  since its Actor or Location is gone. The run zone_two_drivers shows the assumption
  is needed.
* `ActorsHaveHp`: `[]AliveHaveHp`, inductive with the type invariant.
* `ObjectsListedOnce`: `[]SingleListing`, and `InventoriesFit`: `[]CarryingLimit`.
  `ThingsInv` is the conjunction of "what a list holds is in the Zone and points to
  the list's owner", "nobody holds or wears more than fits" and "ids of Objects are
  used". They need one another: a move that finds no room leaves the Object in no
  list, never in two, and the count of hands is one of distinct Objects.
* `NothingIsOrphaned`, assuming `SoleEditor`: `[]NothingLeftBehind`, from `ThingsInv`,
  `ListedInv` and "who is dead and what is removed holds nothing" (`Emptied`).
* `DeathsLeaveLoot`, assuming `SoleEditor`: the action property `DeathLeavesLoot`.
* `TopIsDeepEnough`, of the operators: `Top` takes as many steps as there are Objects,
  and one more. Where the walk of `Object.Location()` ends, however long it is, is `Top`,
  and when `Top` is an Object the walk has no end. By counting: without an end it has
  come by one of finitely many Objects twice.
* `NoOtherWayOut`, assuming `SoleEditor`: the action property `NothingFallsOut`. An Object
  stops having a Location only under something the reaper takes or something put into
  itself, at whatever depth. One lemma (`StaysLocated`) says what is enough of a step:
  that all the walk comes by stays where it was or has a Location afterwards. That a death,
  the removal of a Location and a transfer refused half-way are such steps needs
  `ThingsInv` and `ListedInv`: that lists and containers agree, so that what is emptied
  is all that was in there.
* `PopulationRestored` and `PassagesRestored`: `[]RestartKeepsPopulation` and
  `[]RestartKeepsPassages`. `RestoredInv` relates the Zone in memory to the one the
  log would build, as long as its replay gets to its end. No assumption on who edits.
* `NobodyMisplaced`, assuming `SoleDriver`: `[]RestartMisplacesNobody`. `PlacedInv`
  joins `SingleInv`, `ThingsInv` and `RestoredInv` with "where log and memory differ,
  the log has a place that is gone". It needs `SingleInv`: a stale move would be
  logged with an origin the replay does not find the Actor in.

Migration:

* `HandoverProofs!NoneLost`: `[]NobodyLost` of `Handover`, for any number of Zones and
  Actors. `Anchor` makes it inductive: some Zone has the Actor both in memory and in
  its log, and from "copied" on the new Zone is such a Zone.
* `WorldTyped`: `[]TypeOK` of `World`. A command makes its events of what it finds
  anew, so that this is about each of them: what is carried is in somebody's list, at
  any depth of bags (`ContentsHeld`, by induction over the depth), and where somebody
  dies is a Location.
* `HandoverIsKept`: `Spec => HandsOver`, that is, `World` implements `Handover`. The
  invariant `WorldInv` has three parts besides the types. `Agreed`: the events a Zone
  has not persisted yet agree with who is in its memory, since it takes no command
  meanwhile; without it an event that comes late might undo a later one.
  `Underway`: a migration leads to another Zone. `Arriving`: while the new Zone works
  on it, the Actor is there, and in its log or next to be written to it, so that its
  answer finds it saved. What a list of events leaves of the Actors of a Zone is found
  by induction over the list (`AfterAllLeads`, `OneForOne`).
* `NobodyIsLost`: `[]NobodyLost` of `World`, by the refinement and `NoneLost`.
* `OneZoneAtATime`: `[]OneZone`. `Whereabouts` makes it inductive: somebody whose
  session waits is in the Zone it has read, and once the World serves it there, in the
  new one, or in both until the second command has run.
* `NothingIsLost`, assuming `Gives = {}`: `[]NothingLost`, for any number of travellers,
  Zones and bags in bags. `ThingInv` joins `WorldInv` with: what a list in memory holds
  some Zone knows (`Remembered`), and likewise among the logs (`Logged`, and `Movable`
  for what comes late); what a Zone knows is in some log, or its own is about to get it
  (`Covered`); what a traveller carries the new Zone has, in its log too once it has
  answered (`Copied`), and what the old Zone records as gone is in the log of the new
  one (`Outgoing`); so every Object is in some Zone and some log (`Safe`). The core of
  it is `ContentsShrink`, by induction over the depth: a move that puts nothing into
  what somebody carries leaves that with no more than before, so that what `MigrateOut`
  removes is part of what `MigrateIn` copied.

The files:

* `PromiseIsKept`: `Spec => IntentsKept`, that is, `Restart` implements
  `IntentPromise`: every step maps to a step of the promise or to a stutter, torn
  writes, crashes and `Open` included. `IntentInv` says that the intent log is a
  sequence of whole entries and then at most a stub: the beginning of the entry still
  owed (`owed` is the rest of it), or what a crash left of one. That `Scan` reads
  whole entries as they were written and stops at a stub, and that `Unfinished` gives
  each of the intents without a completion once, is proved by induction over the
  file. The library's induction theorems cannot be used here, so `Lowest` gives the
  least number with a property, from the well-foundedness of the order, and what is
  to be proved is proved of it by contradiction. `Scan` and `Unfinished` use recursive
  functions, whose existence is proved the same way.
* `SnapshotOfOneInstant`: `[]OneInstant`, for any number of Zones. `SnapshotInv` adds
  that a Zone still halted while numbers are read has none read yet, and has the
  number it had in the moment all stood still.
* `RestartTyped`: `[]TypeOK`. `Typed` adds the types of log, snapshot files and what is
  being written, that what a Zone holds is finite (a snapshot needs it), and that a
  Zone writes only while the daemon is up and the Zone is not halted.
* `RestartsRebuild`, assuming `Budget < MaxUint`: `[]RestartRebuilds`, for any number of
  Zones and of things in one another, any snapshots and any crashes. The assumption
  says that no Zone comes to its 2^64th event; then numbers rise. `GoodInv` joins
  two parts. `LogShape`: while no two Zones have been writing at once, the log is whole
  events and at most the header of the one being written. `AllGood`, for each Zone
  that has not been started from a snapshot that is not `Sound`: what it has done
  (`Done`: its events in the log and the one it writes) rises in number, replays
  without an error and matches its memory; every file written to the end is, event
  for event, a snapshot of what its history up to that number makes of it (`Restores`),
  and a file being written will be; a file that was cut short is the last one; and
  snapshots lie behind what comes next. `StoreProofs!Reloaded` is what makes of such
  files what the history makes of the Zone: a snapshot replays to what it was taken of
  (`SnapshotRebuilds`, by induction over the order in which containers come before
  what they hold), and the events after it have the same effect from there on
  (`AlikeRemain`, by induction over the events). The default Location is the only thing
  the two may differ in, and that difference is an exception of the property.

The session:

* `SessionTyped`: `[]TypeOK`, in particular that no request channel holds more than it
  takes and that the session is never attached to two Zones; `StoppedIsUnobserved`:
  `[]StoppedUnobserved`. `SessionInv` says in addition who may be in a channel (each
  caller once, in the channel it asked in), how far the World is with its errand, that a Zone which
  does not run works on nothing, and that until there has been a migration, or an
  attachment that came too late, the session observes its Actor once and nobody else.

The brain:

* `BrainTyped`: `[]TypeOK`; `ReleasedOnce`: `[]AnsweredOnce`; `DiesOnlyDetached`: the
  action property `DiesDetached`, all from `BrainInv`, whose parts hold for goroutines that overtake
  each other. `Asking`: where the aiLoop is says what it can be asking; while it waits
  the one registered callback is that of its question, and when it has run, it is
  registered no more, its read lock is held and what it found is what was asked for.
  `Flight`: the tag of a question is under way in one place at most (command, answer
  pending, wire), and but for the question that is waited on only that of one given
  up at `Intellect.Stop`; without the last part a new tag could not be shown to be
  free, nor `asks` to be short. `Farewell`: the close message has been sent before it
  is read, and nothing is sent after it. `Thinking`: a fight is planned against
  somebody, and what may be picked up has been seen in some Location. That sending
  fails, which is how the code releases a lock twice, then implies that the session
  has closed, and the lock a lookup releases on its way out is the one its callback
  took. `DiesDetached` has one exception that is neither the session's nor the Actor's
  end: `Astray`, a command to take something out of a Location of another Zone, of which
  the session makes a Container that is not nil and holds a nil pointer.

The path finders, for finite graphs of any size whose costs are natural numbers:

* `AStarFindsLeast`, for any estimate that never exceeds what is left of the way, be it
  consistent or not, and `DijkstraFindsLeast`: within `EnoughTurns` a search ends, with a
  goal exactly if a path leads to one; and with any number of turns, if it has a goal,
  `PathTo` gives a path to it, and no path to any goal is cheaper. `SearchInv` says that
  a node is either queued, with what is known of its cost, or known to make none of its
  neighbours nearer; so along any path to a goal some node waits whose entry is no dearer
  than that path (`SomeWaits`), and the entry taken out is no dearer than that. "from"
  leads from every node back to the start along costs that do not rise, hence, though
  edges may cost nothing, never in a circle, and so within the turns of `PathTo`
  (`LeadsShort`). `SearchEnds` says when the queue is empty. No cost found exceeds n - 1
  of the dearest edges, n being the number of nodes; what is counted down is the entries
  in the queue and the costs that may still be found (`Unspent`): a turn takes an entry
  out, and for each it puts in some node has a cost less to come (`TurnSpends`).
* `DijkstraShortest` and `AStarShortest`: `[]DijkstraIsShortest` and `[]AStarIsShortest`,
  for any graphs in `Trial`, as large as they are finite, and any numbers in `Guess`. To
  the two above they add that `Ways` stands for all paths: a way round that comes back
  to a node can be left out and makes none dearer (`WayRoundLeftOut`), and the shortest
  of what remains comes by no node twice (`Shortened`), so that an estimate that exceeds
  none of the `Ways` exceeds no path (`ModestAdmissible`).
* `FightPlanIsShortest`, for any state of a fight, any list of things read and any bound:
  a way in `FightPlans` is a series of actions each of which is open after the one before
  (`IsSeries`), it leaves the foe no hit points, and no such series is shorter; if there
  is none, the bound was met. The nodes of a depth are exactly the series of that length
  (`SeriesGrow`), there are finitely many and always some, so that each depth takes from
  the bound, and the search ends at the first depth with a goal or for lack of turns
  (`FightSearchEnds`). It says nothing of things that lie there and were not read.

The assumptions are those of the modules: `ConstantsAssumption` (kinds of ids are
disjoint, the set of Objects is finite, there is at least one hit point) and the
`SessionAssumption` of `Zone`; `StoreAssumption` (what an Item is in is not itself, and
it is nothing exactly for Locations), `BudgetAssumption` (the bound on steps is a
number) and `TransactionAssumption` (a transaction is not called
like a state of the World); `WorldAssumption` (who and what starts where; no record is
nil, which TLA+ leaves open); the `SessionAssumption` of `Session` (channels have room
for one, walkers are neither the session nor the World); `BrainAssumption` (Exits lead
to other Places, there are finitely many Things, the bounds are numbers), and the
`TrialAssumption` of `PathFind` (graphs are finite and their costs natural numbers; the
code's are floating-point numbers, those of a fight whole seconds). TLC evaluates
them in the runs. `Budget < MaxUint`, `SoleEditor`, `SoleDriver` and `Gives = {}` are hypotheses of the
theorems that name them. The code enforces none of them; with two editors, two
drivers or a gift in the wrong moment the properties do fail, and 2^64 events are
out of reach.

Only model-checked: liveness (`MigrationAnswered`, `ZoneServes`, `Answered`, `Closes`,
`QuestionAnswered`, `FindsItself`), which is out of the prover's reach, and the
violations, which are counterexamples. `NothingLost` is proved for `Gives = {}` only, as
it is checked.

## Not modelled, and why

* Vendored packages under `src/vendor`.
* Texts: names, descriptions, speech, menus, wording of errors.
* A `PersistEvent` that fails, disks that lose or reorder what was written: a crash
  is the end of the process, and cuts at most the write under way. Zone and World
  take the append of one event to be atomic; `Restart` does not.
* In `Restart` data other than what lies in what, and migrations between Zones
  (`World` has them); a Location is removed only when nothing is in it.
* Telnet sessions as goroutines, with their buffers, menus and editor dialogues. The
  hazards of PROJECT.json that no model has are theirs and the spawn service's; others
  are in a model and are exceptions of its properties, as their notes say.
* The spawn service's counts, chances and ticks; the utilities of brains.
* Interleaved connections in the run of `Accounts`: `CreateAccount`, the upgrade of a
  hash and `AddActorIDToAccountID` can lose each other's updates there, which the
  module allows and the run, with one connection, leaves aside.
* The daemon's flags and configuration, the debugger and the demo client.
* Data races on single fields between Zone goroutines and readers: each read is
  taken to be atomic. For the list that the planner of a fight shifts while the readLoop
  may change it, the free choice in `Readings` and `Muddled` stands, of as many entries
  as the list had.
* In `Zone` commands that make the Go process die (a nil container, a cycle of bags)
  are disabled; PROJECT.json lists them under hazards. `Restart`, `Session` and `Brain`
  end there.
* Dodges and sizes of Objects change nothing the properties see; the commands
  ActorRemove and ActorAdminRelocate have no caller in `src/` except through
  LocationRemove and deaths, which are modelled.
* In `World`, Locations stay (they are built and removed in `Zone`), and Zones
  start from logs that have been replayed.
