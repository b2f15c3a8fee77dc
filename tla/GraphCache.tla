----------------------------- MODULE GraphCache -----------------------------
(***************************************************************************)
(* app/core/payments/router.py: the capacity graph and the topology, built *)
(* from one snapshot of the rows and kept in process-wide caches that      *)
(* payments, clearings, repairs, trust-line operations and the simulator   *)
(* invalidate after their commits.  One line from a creditor to a debtor   *)
(* stands for the graph: caches hold the capacity and the presence of it.  *)
(***************************************************************************)
EXTENDS Integers

CONSTANTS
    Readers,        \* requests that build or fetch a graph
    MaxLimit,       \* bound: the largest limit and opposite debt
    MaxChanges,     \* bound: committed changes of a behaviour
    Ttl,            \* ROUTING_GRAPH_CACHE_TTL_SECONDS, in ticks
    Off             \* an empty cache entry

\* What the constants must satisfy; every instance assumes it.
GraphCacheAssumption ==
    MaxLimit \in Nat /\ MaxChanges \in Nat /\ Ttl \in Nat \ {0}

Amounts == 0..MaxLimit

VARIABLES
    active, limit,      \* the trust line
    debt, back,         \* what the debtor owes over it, and what the creditor owes the debtor
    reserved,           \* live reservations on it
    changes,            \* committed changes so far
    due,                \* committed changes whose caches are not invalidated yet
    gcache,             \* shared graph: Off or [cap, age, released, suspect]
    tcache,             \* shared topology: Off or [line, suspect]
    bpc, seen, built,   \* a request: its snapshot, and the graph it was given
    overlapped          \* a change was committed since its snapshot

dbVars == <<active, limit, debt, back, reserved>>
readVars == <<bpc, seen, built, overlapped>>
cacheVars == <<dbVars, changes, due, gcache, tcache, readVars>>

Floor(x) == IF x > 0 THEN x ELSE 0

\* Step 6 of _build_graph_impl: what the limit leaves, and the opposite debt
\* that can be offset, less what other payments have reserved.
Capacity(on, l, d, b, r) == IF on THEN Floor(l - d + b - r) ELSE 0
TrueCapacity == Capacity(active, limit, debt, back, reserved)

Nothing == [cap |-> 0, line |-> FALSE]
Snapshot == [cap |-> TrueCapacity, line |-> active]

\* The debts of a pair are netted; a limit may have been lowered under a debt.
GraphCacheInit ==
    /\ active \in BOOLEAN /\ limit \in Amounts /\ reserved = 0
    /\ debt \in Amounts /\ back \in Amounts /\ (debt = 0 \/ back = 0)
    /\ changes = 0 /\ due = {}
    /\ gcache = Off /\ tcache = Off
    /\ bpc = [b \in Readers |-> "idle"]
    /\ seen = [b \in Readers |-> Nothing]
    /\ built = [b \in Readers |-> 0]
    /\ overlapped = [b \in Readers |-> FALSE]

----------------------------------------------------------------------------
\* A change that commits: caches named in what are to be invalidated after it.
Committed(what) ==
    /\ changes < MaxChanges
    /\ changes' = changes + 1
    /\ due' = due \cup what
    /\ overlapped' = [b \in Readers |-> overlapped[b] \/ bpc[b] # "idle"]
    /\ UNCHANGED <<tcache, bpc, seen, built>>

Both == {"graph", "topology"}

\* prepare: one unit is reserved.
PreparePayment ==
    /\ TrueCapacity > 0
    /\ reserved' = reserved + 1
    /\ UNCHANGED <<active, limit, debt, back, gcache>>
    /\ Committed(Both)

\* commit: the reservation offsets the opposite debt or becomes debt.
CommitPayment ==
    /\ reserved > 0 /\ reserved' = reserved - 1
    /\ back' = Floor(back - 1)
    /\ debt' = IF back > 0 THEN debt ELSE debt + 1
    /\ UNCHANGED <<active, limit, gcache>>
    /\ Committed(Both)

\* commit of a payment the other way, over another line of the same pair.
CommitOpposite ==
    /\ debt' = Floor(debt - 1)
    /\ back' = IF debt > 0 THEN back ELSE back + 1
    /\ back' \in Amounts
    /\ UNCHANGED <<active, limit, reserved, gcache>>
    /\ Committed(Both)

\* Mutant: a clearing leaves the shared graph where it is.
ClearAndKeepGraph ==
    /\ \/ debt > 0 /\ debt' = debt - 1 /\ back' = back
       \/ back > 0 /\ back' = back - 1 /\ debt' = debt
    /\ UNCHANGED <<active, limit, reserved, gcache>>
    /\ Committed({})

\* execute_clearing: a cycle through the pair takes one unit of either debt.
ClearDebt ==
    /\ \/ debt > 0 /\ debt' = debt - 1 /\ back' = back
       \/ back > 0 /\ back' = back - 1 /\ debt' = debt
    /\ UNCHANGED <<active, limit, reserved, gcache>>
    /\ Committed(Both)

\* repair_cap_debts_to_trust_limits: a debt over its limit is cut to it.
RepairDebt ==
    /\ LET floor == IF active THEN limit ELSE 0 IN debt > floor /\ debt' = floor
    /\ UNCHANGED <<active, limit, back, reserved, gcache>>
    /\ Committed(Both)

\* A payment is aborted by its worker or by the recovery loop, or its
\* reservation outlives its TTL: no cache is invalidated, the line has more
\* than a cached graph says.
ReleasePayment ==
    /\ reserved > 0
    /\ reserved' = reserved - 1
    /\ gcache' = IF gcache = Off THEN Off ELSE [gcache EXCEPT !.released = @ + 1]
    /\ UNCHANGED <<active, limit, debt, back>>
    /\ Committed({})

\* update of the line: TrustLineService or the simulator's interactive action.
UpdateLine ==
    /\ active
    /\ \E l \in Amounts \ {limit} : limit' = l
    /\ UNCHANGED <<active, debt, back, reserved, gcache>>
    /\ Committed(Both)

\* close and create: a closed line leaves the graph, a new one enters it.
CloseOrCreateLine ==
    /\ debt = 0 /\ back = 0
    /\ active' = ~active
    /\ UNCHANGED <<limit, debt, back, reserved, gcache>>
    /\ Committed(Both)

\* An injected event creates or freezes the line or adds debt within its limit;
\* invalidate_routing_cache then drops the graph only.
InjectLine ==
    /\ \/ active' = ~active /\ debt' = debt
       \/ active /\ debt < limit /\ debt' = debt + 1 /\ active' = active
    /\ UNCHANGED <<limit, back, reserved, gcache>>
    /\ Committed({"graph"})

\* Trust drift moves the limit; apply_committed_effects drops the graph only.
DriftLimit ==
    /\ active
    /\ \E l \in Amounts \ {limit} : limit' = l
    /\ UNCHANGED <<active, debt, back, reserved, gcache>>
    /\ Committed({"graph"})

\* invalidate_cache, or the pop of the graph alone.
Invalidate(c) ==
    /\ c \in due
    /\ due' = due \ {c}
    /\ gcache' = IF c = "graph" THEN Off ELSE gcache
    /\ tcache' = IF c = "topology" THEN Off ELSE tcache
    /\ UNCHANGED <<dbVars, changes, readVars>>

\* The answer of a durable commit is lost or late: an exception or a timeout
\* leaves its request before the line that invalidates.
LoseAnswer ==
    /\ due # {} /\ due' = {}
    /\ gcache' = IF gcache = Off THEN Off ELSE [gcache EXCEPT !.suspect = TRUE]
    /\ tcache' = IF tcache = Off THEN Off ELSE [tcache EXCEPT !.suspect = TRUE]
    /\ UNCHANGED <<dbVars, changes, readVars>>

----------------------------------------------------------------------------
Goto(b, l) == bpc' = [bpc EXCEPT ![b] = l]

\* The first statement of a request fixes its snapshot (SERIALIZABLE), from
\* which all queries of _build_graph_impl read.
Open(b) ==
    /\ bpc[b] = "idle"
    /\ seen' = [seen EXCEPT ![b] = Snapshot]
    /\ Goto(b, "open")
    /\ UNCHANGED <<dbVars, changes, due, gcache, tcache, built, overlapped>>

\* Mutant: a cached graph is served however old it is.
ServableForever == gcache # Off

\* time.time() - cached_at <= ttl
Servable == gcache # Off /\ gcache.age <= Ttl

\* build_graph with a usable cache entry.
Fetch(b) ==
    /\ bpc[b] = "open" /\ Servable
    /\ built' = [built EXCEPT ![b] = gcache.cap]
    /\ Goto(b, "done")
    /\ UNCHANGED <<dbVars, changes, due, gcache, tcache, seen, overlapped>>

\* build_graph without one: the queries of _build_graph_impl are sent.
Build(b) ==
    /\ bpc[b] = "open" /\ ~Servable
    /\ Goto(b, "building")
    /\ UNCHANGED <<dbVars, changes, due, gcache, tcache, seen, built, overlapped>>

\* The graph is put together from the rows and stored with the present time.
Finish(b) ==
    /\ bpc[b] = "building"
    /\ built' = [built EXCEPT ![b] = seen[b].cap]
    /\ gcache' = [cap |-> seen[b].cap, age |-> 0, released |-> 0, suspect |-> overlapped[b]]
    /\ Goto(b, "done")
    /\ UNCHANGED <<dbVars, changes, due, tcache, seen, overlapped>>

\* A payment of the simulator's tick (use_shared_cache = False) builds its own
\* graph from its snapshot and stores nothing.
BuildOwn(b) ==
    /\ bpc[b] = "open"
    /\ built' = [built EXCEPT ![b] = seen[b].cap]
    /\ Goto(b, "done")
    /\ UNCHANGED <<dbVars, changes, due, gcache, tcache, seen, overlapped>>

\* The router instance lives as long as its request.
Forget(b) ==
    /\ seen' = [seen EXCEPT ![b] = Nothing]
    /\ built' = [built EXCEPT ![b] = 0]
    /\ overlapped' = [overlapped EXCEPT ![b] = FALSE]

Return(b) ==
    /\ bpc[b] = "done"
    /\ Goto(b, "idle")
    /\ Forget(b)
    /\ UNCHANGED <<dbVars, changes, due, gcache, tcache>>

\* build_topology: one query, whose rows are stored when they have arrived.
ReadTopology(b) ==
    /\ bpc[b] = "open" /\ tcache = Off
    /\ Goto(b, "topology")
    /\ UNCHANGED <<dbVars, changes, due, gcache, tcache, seen, built, overlapped>>

StoreTopology(b) ==
    /\ bpc[b] = "topology"
    /\ tcache' = [line |-> seen[b].line, suspect |-> overlapped[b]]
    /\ Goto(b, "done")
    /\ UNCHANGED <<dbVars, changes, due, gcache, seen, built, overlapped>>

Tick ==
    /\ gcache # Off /\ gcache.age <= Ttl
    /\ gcache' = [gcache EXCEPT !.age = @ + 1]
    /\ UNCHANGED <<dbVars, changes, due, tcache, readVars>>

GraphCacheNext ==
    \/ PreparePayment \/ CommitPayment \/ CommitOpposite \/ ReleasePayment
    \/ ClearDebt \/ RepairDebt \/ UpdateLine \/ CloseOrCreateLine
    \/ InjectLine \/ DriftLimit \/ LoseAnswer \/ Tick
    \/ \E c \in Both : Invalidate(c)
    \/ \E b \in Readers :
        \/ Open(b) \/ Fetch(b) \/ Build(b) \/ Finish(b) \/ BuildOwn(b) \/ Return(b)
        \/ ReadTopology(b) \/ StoreTopology(b)

\* Time passes, and requests that have begun to build a graph finish it.
GraphCacheFairness ==
    /\ WF_cacheVars(Tick) /\ \A c \in Both : WF_cacheVars(Invalidate(c))
    /\ \A b \in Readers : WF_cacheVars(Finish(b)) /\ WF_cacheVars(Return(b))

GraphCacheSpec == GraphCacheInit /\ [][GraphCacheNext]_cacheVars /\ GraphCacheFairness

----------------------------------------------------------------------------
GraphCacheTypeOK ==
    /\ limit \in Amounts /\ debt \in Nat /\ back \in Amounts /\ reserved \in Nat /\ due \subseteq Both
    /\ gcache = Off \/ (gcache.cap \in Nat /\ gcache.age \in 0..(Ttl + 1) /\ gcache.released \in Nat)
    /\ tcache = Off \/ tcache.line \in BOOLEAN
    /\ bpc \in [Readers -> {"idle", "open", "building", "done", "topology"}]
    /\ built \in [Readers -> Nat]

\* Once the invalidations that are due are done, a shared graph that no change
\* overtook while it was built, and of which no answer was lost, is true but
\* for released reservations: it promises nothing the line does not have, and
\* withholds at most what aborted and lapsed payments gave back meanwhile.
CachedGraphIsTrue ==
    due = {} /\ gcache # Off /\ ~gcache.suspect =>
        gcache.cap <= TrueCapacity /\ TrueCapacity <= gcache.cap + gcache.released

\* The time to live heals what overlapping builds, lost answers and silent
\* releases leave behind: when changes have stopped, every graph that can
\* still be served is the true one.
GraphConverges == <>[](Servable => gcache.cap = TrueCapacity)

\* "Debts/locks changed -- never serve stale routing graphs."
\* (The code does not keep this: README, section 5.)
NeverServeStale ==
    due = {} /\ Servable /\ reserved = 0 => gcache.cap = TrueCapacity

\* "invalidated via invalidate_cache() on trustline CRUD": when every change
\* is followed by its invalidations and none came while the topology was read,
\* the cached topology has the lines there are.
\* (The code does not keep this: README, section 5.)
TopologyFollowsLines ==
    due = {} /\ tcache # Off /\ ~tcache.suspect => tcache.line = active
=============================================================================
