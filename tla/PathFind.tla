------------------------------- MODULE PathFind -------------------------------
(***************************************************************************)
(* The path finders a brain plans with (brain/internal/inner/pathfind): a  *)
(* best-first search over a graph that is given by its costs, with a queue *)
(* in which a node that turned out nearer is queued a second time and      *)
(* never taken out.                                                        *)
(*                                                                         *)
(* A graph maps each node to a function from its neighbours to the cost of *)
(* going there.  Pop of container/heap returns one of the cheapest         *)
(* entries; which one is left to CHOOSE.                                   *)
(***************************************************************************)
EXTENDS Integers, Sequences, FiniteSets, FiniteSetsExt, SequencesExt

CONSTANTS
    Trial,  \* what the searches are tried on: a graph, and a node to start at
    Guess   \* what an estimate may say is left of the way

NeighborsOf(graph, n) == DOMAIN graph[n]

IsGraph(graph) ==
    \A n \in DOMAIN graph : \A m \in DOMAIN graph[n] :
        m \in DOMAIN graph /\ graph[n][m] \in Nat

ASSUME TrialAssumption ==
    /\ \A t \in Trial : /\ IsGraph(t.graph) /\ IsFiniteSet(DOMAIN t.graph)
                        /\ t.start \in DOMAIN t.graph
    /\ Guess \subseteq Nat

(* The state of a search: queue holds pairs <<node, priority>>, cost and   *)
(* from what is known of each node reached; final holds the goal, if any.   *)
Begin(start) ==
    [queue |-> {<<start, 0>>},
     cost  |-> [n \in {start} |-> 0],
     from  |-> [n \in {start} |-> {}],
     final |-> {}]

Popped(search) ==
    CHOOSE q \in search.queue : \A r \in search.queue : q[2] <= r[2]

(* Wrong on purpose: a node already reached is never looked at again. *)
NearerOnce(graph, search, n) ==
    NeighborsOf(graph, n) \ DOMAIN search.cost

(* The neighbours of n that are new or nearer by way of n. *)
Nearer(graph, search, n) ==
    {m \in NeighborsOf(graph, n) :
        m \in DOMAIN search.cost =>
            search.cost[n] + graph[n][m] < search.cost[m]}

(* The map "known" after the assignments of "new".  *)
Assigned(new, known) ==
    [m \in DOMAIN new \cup DOMAIN known |-> IF m \in DOMAIN new THEN new[m] ELSE known[m]]

(* One turn of the loop: the goal is recognised when it is taken out, not  *)
(* when it is put in.                                                      *)
Turn(graph, search, goals, estimate) ==
    LET q    == Popped(search)
        n    == q[1]
        near == Nearer(graph, search, n)
        cost == [m \in near |-> search.cost[n] + graph[n][m]]
    IN  IF n \in goals
        THEN [search EXCEPT !.queue = @ \ {q}, !.final = {n}]
        ELSE [search EXCEPT
                !.queue = (@ \ {q}) \cup {<<m, cost[m] + estimate[m]>> : m \in near},
                !.cost  = Assigned(cost, @),
                !.from  = Assigned([m \in near |-> {n}], @)]

Over(search) == search.queue = {} \/ search.final # {}

Search(graph, start, goals, estimate, turns) ==
    LET after[k \in 0..turns] ==
            IF k = 0 THEN Begin(start)
            ELSE LET before == after[k-1]
                 IN  IF Over(before) THEN before
                     ELSE Turn(graph, before, goals, estimate)
    IN  after[turns]

(* With a bound on the expansions, after which it returns without a goal.  *)
DijkstraFindPath(graph, start, goals, maxExpansions) ==
    Search(graph, start, goals, [n \in DOMAIN graph |-> 0], maxExpansions)

(* The turns in which the queue is emptied, if no goal turns up: with n     *)
(* nodes no way found costs more than n - 1 of the dearest edges, and a    *)
(* node is queued only when it is new or its cost falls.                   *)
Edges(graph)   == {e \in (DOMAIN graph) \X (DOMAIN graph) : e[2] \in NeighborsOf(graph, e[1])}
Dearest(graph) == Max({0} \cup {graph[e[1]][e[2]] : e \in Edges(graph)})
EnoughTurns(graph) ==
    LET others == Cardinality(DOMAIN graph) - 1
    IN  others * (others * Dearest(graph) + 1) + 1

(* Until the queue is empty or a goal found. *)
AStarFindPath(graph, start, goals, estimate) ==
    Search(graph, start, goals, estimate, EnoughTurns(graph))

(* What combatPlan.plan makes of the result: back along "from", and the    *)
(* node it started at left out.                                            *)
PathTo(search) ==
    LET back[k \in 0..Cardinality(DOMAIN search.from)] ==
            IF k = 0 THEN SetToSeq(search.final)
            ELSE LET path == back[k-1]
                 IN  IF path = <<>> THEN path ELSE SetToSeq(search.from[path[1]]) \o path
        path == back[Cardinality(DOMAIN search.from)]
    IN  Tail(path)

-----------------------------------------------------------------------------
(* Paths *)

(* Paths leave out the node they start at, as PathTo does. *)
Before(start, path, k) == IF k = 1 THEN start ELSE path[k-1]

IsPath(graph, start, path) ==
    /\ path \in Seq(DOMAIN graph)
    /\ \A k \in DOMAIN path : path[k] \in NeighborsOf(graph, Before(start, path, k))

End(start, path) == IF path = <<>> THEN start ELSE path[Len(path)]

PathCost(graph, start, path) ==
    LET cost[k \in 0..Len(path)] ==
            IF k = 0 THEN 0 ELSE cost[k-1] + graph[Before(start, path, k)][path[k]]
    IN  cost[Len(path)]

(* All paths to a goal that come by no node twice, and some that do.       *)
Ways(graph, start, goals) ==
    {path \in UNION {[1..k -> DOMAIN graph] : k \in 0..(Cardinality(DOMAIN graph) - 1)} :
        IsPath(graph, start, path) /\ End(start, path) \in goals}

(* What a search should come to: a cheapest of all ways, or nothing when   *)
(* there is none.                                                          *)
IsShortest(graph, start, goals, search) ==
    LET ways  == Ways(graph, start, goals)
        found == PathTo(search)
    IN  IF ways = {} THEN search.final = {}
        ELSE /\ search.final # {} /\ search.final = {End(start, found)}
             /\ IsPath(graph, start, found) /\ End(start, found) \in goals
             /\ \A path \in ways : PathCost(graph, start, found) <= PathCost(graph, start, path)

(* An estimate that exceeds no way from any node. *)
Modest(graph, goals, estimate) ==
    \A n \in DOMAIN graph : \A path \in Ways(graph, n, goals) :
        estimate[n] <= PathCost(graph, n, path)
=============================================================================
