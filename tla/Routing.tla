------------------------------- MODULE Routing -------------------------------
(***************************************************************************)
(* app/core/payments/router.py: find_flow_routes, which splits an amount   *)
(* over paths found one after the other in a residual copy of the capacity *)
(* graph, and calculate_max_flow.  The neighbours of a node come in the    *)
(* order of the database rows, so the breadth-first search may return any  *)
(* of its shortest admissible paths.                                       *)
(***************************************************************************)
EXTENDS Integers, Sequences, SequencesExt, FiniteSetsExt

CONSTANTS
    Nodes, Src, Dst,    \* participants, sender and recipient
    Lines,              \* <<debtor, creditor>> pairs that may have an active line
    MaxCap,             \* bound: the largest capacity of a line
    Constraints,        \* line policies and request constraints to try
    Amounts,            \* amounts asked for
    MaxHops, MaxPaths,  \* ROUTING_MAX_HOPS, ROUTING_MAX_PATHS
    MaxFlowHops         \* MAX_FLOW_MAX_HOPS

\* What the constants must satisfy; every instance assumes it.
RoutingAssumption ==
    /\ Src \in Nodes /\ Dst \in Nodes /\ Src # Dst
    /\ Lines \subseteq Nodes \X Nodes /\ \A e \in Lines : e[1] # e[2]
    /\ MaxHops \in Nat /\ MaxPaths \in Nat /\ Amounts \subseteq Nat \ {0}

\* Lines in either direction: a residual graph also has the reverse ones.
Edges == Lines \cup {<<e[2], e[1]>> : e \in Lines}

VARIABLES
    graph,      \* edge -> limit - debt + opposite debt - reservations (0: no edge)
    through,    \* edges whose line has can_be_intermediate
    blocked,    \* edge -> blocked_participants of its line
    avoid,      \* constraints.avoid of the request
    query,      \* "routes", "maxflow" or "idle"
    residual,   \* the working copy of graph
    asked,      \* the amount of the request
    remaining,  \* amount still to be routed
    routes,     \* <<path, amount>> found so far
    flow,       \* flow pushed so far by calculate_max_flow
    outcome     \* "none", "found", "refused", "timeout" or "flow"

routingVars == <<graph, through, blocked, avoid, query, residual, asked, remaining, routes, flow, outcome>>
inputVars == <<graph, through, blocked, avoid>>

Ends == {Src, Dst}

RoutingInit ==
    /\ \E c \in [Lines -> 0..MaxCap] :
        graph = [e \in Edges |-> IF e \in Lines THEN c[e] ELSE 0]
    /\ \E p \in Constraints : through = p.through /\ blocked = p.blocked /\ avoid = p.avoid
    /\ query = "idle" /\ outcome = "none" /\ asked = 0
    /\ residual = graph /\ remaining = 0 /\ routes = <<>> /\ flow = 0

----------------------------------------------------------------------------
EdgesOf(path) == [k \in 1..(Len(path) - 1) |-> <<path[k], path[k + 1]>>]
Intermediates(path) == ToSet(path) \ Ends

\* Ways[n]: sequences of n distinct nodes that start at Src and follow Edges.
Ways[n \in 1..Cardinality(Nodes)] ==
    IF n = 1 THEN {<<Src>>}
    ELSE {Append(x[1], x[2][2]) : x \in
            {y \in Ways[n - 1] \X Edges : Last(y[1]) = y[2][1] /\ y[2][2] \notin ToSet(y[1])}}

SimplePaths ==
    UNION {{w \in Ways[n] : w[n] = Dst} : n \in 2..Cardinality(Nodes)}

\* The tests of _bfs_single_path on extending the prefix of length k of path p
\* by its next node: blocks of earlier edges and of this one hold for the new
\* node if it is no end point; this edge's blocks also hold for the nodes
\* strictly inside the prefix, which its last node is not.
StepAllowed(p, k) ==
    LET e == <<p[k], p[k + 1]>>
        soFar == UNION {blocked[<<p[i], p[i + 1]>>] : i \in 1..k}
    IN
    /\ p[k + 1] \notin Ends => p[k + 1] \notin soFar /\ e \in through
    /\ \A i \in 2..(k - 1) : p[i] \notin blocked[e]

Admissible(g) ==
    {p \in SimplePaths :
        /\ Len(p) - 1 <= MaxHops
        /\ ToSet(p) \cap avoid = {}
        /\ \A k \in 1..(Len(p) - 1) : g[<<p[k], p[k + 1]>>] > 0 /\ StepAllowed(p, k)}

Shortest(paths) == {p \in paths : \A q \in paths : Len(p) <= Len(q)}

\* What _bfs_single_path may return, asked for amount zero.
BfsSinglePath(g) == Shortest(Admissible(g))

PathBottleneck(p, g) == Min({g[<<p[k], p[k + 1]>>] : k \in 1..(Len(p) - 1)})

Charge(g, p, a) == [e \in Edges |-> IF e \in ToSet(EdgesOf(p)) THEN g[e] - a ELSE g[e]]

AskRoutes(a) ==
    /\ query = "idle" /\ outcome = "none"
    /\ query' = "routes"
    /\ asked' = a /\ remaining' = a
    /\ UNCHANGED <<inputVars, residual, routes, flow, outcome>>

Alloc(p) == Min({remaining, PathBottleneck(p, residual)})

Augment ==
    /\ query = "routes" /\ remaining > 0 /\ Len(routes) < MaxPaths
    /\ \E p \in BfsSinglePath(residual) :
        /\ routes' = Append(routes, <<p, Alloc(p)>>)
        /\ residual' = Charge(residual, p, Alloc(p))
        /\ remaining' = remaining - Alloc(p)
    /\ UNCHANGED <<inputVars, query, asked, flow, outcome>>

\* The loop ends: everything is routed, or the empty list is returned.
AnswerRoutes ==
    /\ query = "routes"
    /\ remaining = 0 \/ Len(routes) = MaxPaths \/ BfsSinglePath(residual) = {}
    /\ outcome' = IF remaining = 0 THEN "found" ELSE "refused"
    /\ query' = "idle"
    /\ UNCHANGED <<inputVars, residual, asked, remaining, routes, flow>>

\* TimeoutException from the loop or from the search.
TimedOut ==
    /\ query = "routes" /\ remaining > 0 /\ Len(routes) < MaxPaths
    /\ outcome' = "timeout" /\ query' = "idle"
    /\ UNCHANGED <<inputVars, residual, asked, remaining, routes, flow>>

----------------------------------------------------------------------------
\* calculate_max_flow: capacities and reverse edges of the residual graph; the
\* search marks nodes as visited, so its path is a shortest one.
FlowPaths ==
    Shortest({p \in SimplePaths :
        /\ Len(p) - 1 <= MaxFlowHops
        /\ \A k \in 1..(Len(p) - 1) : residual[<<p[k], p[k + 1]>>] > 0})

\* Mutant: no reverse flow.
PushForward(g, p, f) == Charge(g, p, f)

Push(g, p, f) ==
    [e \in Edges |->
        IF e \in ToSet(EdgesOf(p)) THEN g[e] - f
        ELSE IF <<e[2], e[1]>> \in ToSet(EdgesOf(p)) THEN g[e] + f
        ELSE g[e]]

AskMaxFlow ==
    /\ query = "idle" /\ outcome = "none"
    /\ query' = "maxflow"
    /\ UNCHANGED <<inputVars, residual, asked, remaining, routes, flow, outcome>>

AugmentFlow ==
    /\ query = "maxflow"
    /\ \E p \in FlowPaths :
        /\ flow' = flow + PathBottleneck(p, residual)
        /\ residual' = Push(residual, p, PathBottleneck(p, residual))
    /\ UNCHANGED <<inputVars, query, asked, remaining, routes, outcome>>

AnswerMaxFlow ==
    /\ query = "maxflow" /\ FlowPaths = {}
    /\ outcome' = "flow" /\ query' = "idle"
    /\ UNCHANGED <<inputVars, residual, asked, remaining, routes, flow>>

\* A query has been answered and nothing follows.
Answered == outcome # "none" /\ UNCHANGED routingVars

RoutingNext ==
    \/ (\E a \in Amounts : AskRoutes(a)) \/ Augment \/ AnswerRoutes \/ TimedOut
    \/ AskMaxFlow \/ AugmentFlow \/ AnswerMaxFlow \/ Answered

RoutingSpec == RoutingInit /\ [][RoutingNext]_routingVars

----------------------------------------------------------------------------
RoutingTypeOK ==
    /\ residual \in [Edges -> 0..(2 * MaxCap)]
    /\ remaining \in Nat /\ flow \in Nat
    /\ \A i \in 1..Len(routes) : routes[i][1] \in SimplePaths /\ routes[i][2] \in Nat \ {0}

SumOver(S, f(_)) == FoldSet(LAMBDA x, s : s + f(x), 0, S)

\* find_flow_routes: routes that are returned carry the amount together, each
\* within the hop limit, and no line carries more than its capacity.
RoutesCarryAmount ==
    outcome = "found" =>
        /\ SumOver(1..Len(routes), LAMBDA i : routes[i][2]) = asked
        /\ Len(routes) <= MaxPaths
        /\ \A i \in 1..Len(routes) : Len(routes[i][1]) - 1 <= MaxHops
        /\ \A e \in Edges :
            SumOver({i \in 1..Len(routes) : e \in ToSet(EdgesOf(routes[i][1]))},
                    LAMBDA i : routes[i][2]) <= graph[e]

Cut(S) == SumOver({e \in Lines : e[1] \in S /\ e[2] \notin S}, LAMBDA e : graph[e])
MinCut == Min({Cut(S \cup {Src}) : S \in SUBSET (Nodes \ Ends)})

\* calculate_max_flow: the flow is the capacity of a least cut.
MaxFlowIsMinCut == outcome = "flow" => flow = MinCut

\* Policies of lines: nobody is an intermediate who must not be, because of the
\* edge it is entered by or of a line of the route that blocks it (a line that
\* blocks its own debtor is not looked at when the debtor passes payments on).
PolicyRespected ==
    \A i \in 1..Len(routes) : LET p == routes[i][1] IN
        /\ ToSet(p) \cap avoid = {}
        /\ \A k \in 1..(Len(p) - 1) :
            /\ p[k + 1] \notin Ends => <<p[k], p[k + 1]>> \in through
            /\ blocked[<<p[k], p[k + 1]>>] \cap Intermediates(p) \subseteq {p[k]}

\* blocked_participants: "Disallow routes through specified participants".
\* (The code does not keep this: README, section 5.)
BlockedAreAvoided ==
    \A i \in 1..Len(routes) : LET p == routes[i][1] IN
        \A e \in ToSet(EdgesOf(p)) : blocked[e] \cap Intermediates(p) = {}
=============================================================================
