------------------------------ MODULE Database ------------------------------
(***************************************************************************)
(* The parts around the debt tables: the advisory locks of the engine, the *)
(* cached capacity graph, the search for routes, the integrity checks and  *)
(* repairs, and the arithmetic of a commit.  They share no variable, so    *)
(* their product would say no more than each of them does: a behaviour     *)
(* exercises one part, and the others are absent.                          *)
(***************************************************************************)
EXTENDS Integers

CONSTANTS
    Off,                                                    \* the value of an absent part
    Sessions, Txs, EqOf, SegsOf, RetryAttempts,             \* EngineLocks
    Readers, MaxLimit, MaxChanges, Ttl,                     \* GraphCache
    PolicyNet, FlowNet,                                     \* Routing, under policies and for a maximum flow
    Parties, Rows, LineIds, MaxLineLimit, Scopes,           \* Integrity
    Payers, MaxAmount                                       \* LedgerCheck

VARIABLES
    part,                                                   \* the part that runs
    todo, held, op, preflight, attempt, locked,             \* EngineLocks
    active, limit, debt, back, reserved, changes, due, gcache, tcache,
    bpc, seen, built, overlapped,                           \* GraphCache
    graph, through, blocked, avoid, query, residual, asked,
    remaining, routes, flow, outcome,                       \* Routing
    owed, lines, repair, recent, job, checkpoints, edits, repairs, scope,   \* Integrity
    start, total, d, rest                                   \* LedgerCheck

----------------------------------------------------------------------------
Locks == INSTANCE EngineLocks WITH reserved <- locked

Graphs == INSTANCE GraphCache

\* A network: its nodes, lines, policies and bounds.
Policies == INSTANCE Routing WITH
    Nodes <- PolicyNet.nodes, Src <- PolicyNet.src, Dst <- PolicyNet.dst, Lines <- PolicyNet.lines,
    MaxCap <- PolicyNet.maxCap, Constraints <- PolicyNet.constraints, Amounts <- PolicyNet.amounts,
    MaxHops <- PolicyNet.maxHops, MaxPaths <- PolicyNet.maxPaths, MaxFlowHops <- PolicyNet.maxFlowHops
Flows == INSTANCE Routing WITH
    Nodes <- FlowNet.nodes, Src <- FlowNet.src, Dst <- FlowNet.dst, Lines <- FlowNet.lines,
    MaxCap <- FlowNet.maxCap, Constraints <- FlowNet.constraints, Amounts <- FlowNet.amounts,
    MaxHops <- FlowNet.maxHops, MaxPaths <- FlowNet.maxPaths, MaxFlowHops <- FlowNet.maxFlowHops

\* Repairs and checkpoints of an equivalent, alone or with payments and edits of
\* its lines between them.
Book == INSTANCE Integrity WITH Participants <- Parties, MaxLimit <- MaxLineLimit, debt <- owed

Commit == INSTANCE LedgerCheck WITH Participants <- Payers

ASSUME DatabaseAssumption ==
    /\ Locks!EngineLocksAssumption /\ Graphs!GraphCacheAssumption
    /\ Policies!RoutingAssumption /\ Flows!RoutingAssumption
    /\ Book!IntegrityAssumption
    /\ Commit!LedgerCheckAssumption

----------------------------------------------------------------------------
LocksOff == todo = Off /\ held = Off /\ op = Off /\ preflight = Off /\ attempt = Off /\ locked = Off
GraphsOff ==
    /\ active = Off /\ limit = Off /\ debt = Off /\ back = Off /\ reserved = Off /\ changes = Off /\ due = Off
    /\ gcache = Off /\ tcache = Off /\ bpc = Off /\ seen = Off /\ built = Off /\ overlapped = Off
RoutingOff ==
    /\ graph = Off /\ through = Off /\ blocked = Off /\ avoid = Off /\ query = Off /\ residual = Off
    /\ asked = Off /\ remaining = Off /\ routes = Off /\ flow = Off /\ outcome = Off
IntegrityOff ==
    /\ owed = Off /\ lines = Off /\ repair = Off /\ recent = Off
    /\ job = Off /\ checkpoints = Off /\ edits = Off /\ repairs = Off /\ scope = Off
CommitOff == start = Off /\ total = Off /\ d = Off /\ rest = Off

Init ==
    /\ part \in {"locks", "graphs", "policies", "flows", "integrity", "commit"}
    /\ IF part = "locks" THEN Locks!EngineLocksInit ELSE LocksOff
    /\ IF part = "graphs" THEN Graphs!GraphCacheInit ELSE GraphsOff
    /\ CASE part = "policies" -> Policies!RoutingInit
         [] part = "flows" -> Flows!RoutingInit
         [] OTHER -> RoutingOff
    /\ IF part = "integrity" THEN Book!IntegrityInit ELSE IntegrityOff
    /\ IF part = "commit" THEN Commit!LedgerInit ELSE CommitOff

locksVars == <<todo, held, op, preflight, attempt, locked>>
graphsVars == <<active, limit, debt, back, reserved, changes, due, gcache, tcache,
                bpc, seen, built, overlapped>>
routingVars == <<graph, through, blocked, avoid, query, residual, asked,
                 remaining, routes, flow, outcome>>
integrityVars == <<owed, lines, repair, recent, job, checkpoints, edits, repairs, scope>>
commitVars == <<start, total, d, rest>>
vars == <<part, locksVars, graphsVars, routingVars, integrityVars, commitVars>>

LocksStep == part = "locks" /\ Locks!EngineLocksNext
GraphsStep == part = "graphs" /\ Graphs!GraphCacheNext
RoutingStep == (part = "policies" /\ Policies!RoutingNext) \/ (part = "flows" /\ Flows!RoutingNext)
IntegrityStep == part = "integrity" /\ Book!IntegrityNext
CommitStep == part = "commit" /\ Commit!LedgerNext

Next ==
    \/ LocksStep /\ UNCHANGED <<part, graphsVars, routingVars, integrityVars, commitVars>>
    \/ GraphsStep /\ UNCHANGED <<part, locksVars, routingVars, integrityVars, commitVars>>
    \/ RoutingStep /\ UNCHANGED <<part, locksVars, graphsVars, integrityVars, commitVars>>
    \/ IntegrityStep /\ UNCHANGED <<part, locksVars, graphsVars, routingVars, commitVars>>
    \/ CommitStep /\ UNCHANGED <<part, locksVars, graphsVars, routingVars, integrityVars>>

Spec == Init /\ [][Next]_vars

----------------------------------------------------------------------------
\* "one global deadlock-safe order" (engine.py): sessions that prepare, commit,
\* abort, batch and clear never wait for each other in a circle, and a lock has
\* one holder.
NoWaitCycle == part = "locks" => Locks!EngineLocksTypeOK /\ Locks!NoWaitCycle

\* Every change of lines, debts and reservations that raises or lowers the
\* capacity of a line is followed by an invalidation, but for released
\* reservations: a cached graph that no change overtook while it was built
\* promises what the line has, less at most what was released since (router.py,
\* build_graph and invalidate_cache).
GraphsAreHonest == part = "graphs" => Graphs!GraphCacheTypeOK /\ Graphs!CachedGraphIsTrue

\* Routes that are returned carry the amount within the capacities, the hops and
\* the number of paths, and pass nobody whom a policy keeps out (find_flow_routes);
\* calculate_max_flow returns the capacity of a least cut, though it searches one
\* path after the other and must take some of them back.
RoutesAreSound ==
    /\ part = "policies" => Policies!RoutingTypeOK /\ Policies!RoutesCarryAmount /\ Policies!PolicyRespected
    /\ part = "flows" => Flows!RoutingTypeOK /\ Flows!RoutesCarryAmount /\ Flows!MaxFlowIsMinCut

\* Netting moves nobody's position and no capacity, and once both repairs have
\* been committed, in any order and around others' payments, the checks find the
\* equivalent healthy.  No repair makes anybody owe more, or undoes a payment that
\* was committed while it ran (integrity.py).
RepairsHeal ==
    /\ [](part = "integrity" => Book!IntegrityTypeOK /\ Book!NettingIsNeutral /\ Book!RepairsHeal)
    /\ [][part = "integrity" => Book!RepairsOnlyForgive]_vars

\* Checksums of checkpoints tell states apart: equal rows have equal checksums,
\* and equal checksums mean equal debts, limits and verdicts.
CheckpointsTell == part = "integrity" => Book!CheckpointsTell

\* Whatever the order of the flows and however routes split them, the loop of
\* commit ends in ApplyFlows, and at every point of it each participant has gained
\* what has been applied so far, which is what check_payment_delta compares.
CommitLoopIsExact == part = "commit" => Commit!OrderIsImmaterial /\ Commit!PositionsFollowFlows
=============================================================================
