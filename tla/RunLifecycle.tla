---------------------------- MODULE RunLifecycle ----------------------------
(***************************************************************************)
(* app/core/simulator/run_lifecycle.py, the runtime that owns it           *)
(* (runtime_impl.py) and the rows it leaves (storage.py): the table of     *)
(* runs, the run each owner has active, the heartbeat task of a run, stop, *)
(* restart, failure, shutdown, a crash of the process and the              *)
(* reconciliation at the next start.                                       *)
(* Everything between two awaits is one step of the event loop, so that    *)
(* the state "stopping", entered and left within one, is not seen here.    *)
(* A stop call waits for the heartbeat, then for the artifact writer       *)
(* (artifacts.py); shutdown makes such calls itself, one after the other,  *)
(* and waits for no other.  Bound: one call of clients to a run at a time. *)
(***************************************************************************)
EXTENDS Naturals, FiniteSets

CONSTANTS
    Runs,           \* run ids, each used once
    Owners,
    OwnerOf,        \* who creates each run
    NoRun,
    MaxPerOwner,    \* SIMULATOR_MAX_ACTIVE_RUNS_PER_OWNER
    MaxActive,      \* SIMULATOR_MAX_ACTIVE_RUNS
    MaxRecords,     \* runs kept in memory
    MaxWrites,      \* bound: rows on their way at once
    MaxStarts       \* bound: processes that serve one after the other

\* What the constants must satisfy; every instance assumes it.
LifecycleAssumption ==
    /\ OwnerOf \in [Runs -> Owners]
    /\ NoRun \notin Runs
    /\ {MaxPerOwner, MaxActive, MaxRecords, MaxWrites, MaxStarts} \subseteq Nat \ {0}

VARIABLES
    table,      \* runs held in memory
    state,      \* RunRecord.state, "none" before the run is created
    heartbeat,  \* the run's task: sleeping, in a tick, or at its end
    cancelled,  \* the heartbeat task has a cancellation to meet
    writer,     \* the run's artifact writer: "none", "on", or "leaving" (alive, no longer referenced)
    stopping,   \* stop calls that wait for the heartbeat
    draining,   \* stop calls that wait for the writer
    halting,    \* runs that shutdown has yet to stop
    active,     \* _active_run_id_by_owner
    stored,     \* the run's row in the database: "none", "active" or "over"
    writes,     \* rows on their way to the database
    process,    \* "up", "closing" or "down"
    starts,     \* how many times the process was started
    born,       \* the start that created the run
    reconciled  \* the last start marked the runs its predecessor left

callVars   == <<stopping, draining, halting>>
memoryVars == <<table, state, heartbeat, cancelled, writer, callVars, active>>
rowVars    == <<stored, writes>>
hostVars   == <<process, starts, born, reconciled>>
runVars    == <<memoryVars, rowVars, hostVars>>

RunStates    == {"none", "running", "paused", "stopped", "error"}
ActiveStates == {"running", "paused"}
Rows         == {"none", "active", "over"}
Beats        == {"none", "sleep", "tick", "done"}
Calls        == {"client", "shutdown"} \X Runs

LifecycleInit ==
    /\ table = {} /\ stopping = {} /\ draining = {} /\ halting = {}
    /\ state = [r \in Runs |-> "none"] /\ heartbeat = [r \in Runs |-> "none"]
    /\ cancelled = [r \in Runs |-> FALSE] /\ writer = [r \in Runs |-> "none"]
    /\ active = [o \in Owners |-> NoRun]
    /\ stored = [r \in Runs |-> "none"] /\ writes = [r \in Runs |-> {}]
    /\ process = "up" /\ starts = 1 /\ born = [r \in Runs |-> 0]
    /\ reconciled = TRUE

Beating(r) == heartbeat[r] \in {"sleep", "tick"}
ActiveRuns == {r \in table : state[r] \in ActiveStates}
ActiveRunsOf(o) == {r \in ActiveRuns : OwnerOf[r] = o}

\* A mapping whose run is gone or terminal, which only create_run clears.
Stale(o) ==
    active[o] # NoRun /\ (active[o] \notin table \/ state[active[o]] \notin ActiveStates)

\* What a row shows of a run's state: whether the run is active.
RowOf(s) == IF s \in ActiveStates THEN "active" ELSE "over"

\* upsert_run: the row is made from the run as it is now and committed later.
Save(r, s) ==
    /\ Cardinality({w \in Runs \X Rows : w[2] \in writes[w[1]]}) < MaxWrites
    /\ writes' = [writes EXCEPT ![r] = @ \cup {RowOf(s)}]
    /\ UNCHANGED stored

\* Mutant: a run is dropped although its tasks still run.
PrunableAlways(kept) == {r \in kept : state[r] = "stopped"}

\* _prune_run_records_locked: only stopped runs that refer to no live task may go.
Prunable(kept) ==
    {r \in kept : state[r] = "stopped" /\ ~Beating(r) /\ writer[r] # "on"}

Prune(kept) ==
    LET excess == Cardinality(kept) - MaxRecords
        room == Cardinality(Prunable(kept))
    IN  IF excess <= 0 THEN table' = kept
        ELSE \E gone \in SUBSET Prunable(kept) :
               /\ Cardinality(gone) = IF excess < room THEN excess ELSE room
               /\ table' = kept \ gone

\* create_run: limits, table, mapping, tasks, status and pruning under one lock.
Create(o, r) ==
    /\ process = "up"
    /\ state[r] = "none" /\ OwnerOf[r] = o
    /\ Cardinality(ActiveRunsOf(o)) < MaxPerOwner
    /\ Cardinality(ActiveRuns) < MaxActive
    /\ state'     = [state EXCEPT ![r] = "running"]
    /\ heartbeat' = [heartbeat EXCEPT ![r] = "sleep"]
    /\ writer'    = [writer EXCEPT ![r] = "on"]
    /\ active'    = [active EXCEPT ![o] = r]
    /\ born'      = [born EXCEPT ![r] = starts]
    /\ Prune(table \cup {r})
    /\ Save(r, "running")
    /\ UNCHANGED <<cancelled, callVars, process, starts, reconciled>>

\* A refused create has dropped the owner's stale mapping all the same.
CreateRefused(o) ==
    /\ process = "up" /\ Stale(o)
    /\ \/ Cardinality(ActiveRunsOf(o)) >= MaxPerOwner
       \/ Cardinality(ActiveRuns) >= MaxActive
    /\ active' = [active EXCEPT ![o] = NoRun]
    /\ UNCHANGED <<table, state, heartbeat, cancelled, writer, callVars, rowVars, hostVars>>

Pause(r) ==
    LET after == IF state[r] = "running" THEN "paused" ELSE state[r]
    IN  /\ r \in table
        /\ state' = [state EXCEPT ![r] = after]
        /\ Save(r, after)
        /\ UNCHANGED <<table, heartbeat, cancelled, writer, callVars, active, hostVars>>

\* resume leaves a stopped run alone and takes a failed one for a paused one.
Resume(r) ==
    LET after == IF state[r] \in {"paused", "error"} THEN "running" ELSE state[r]
    IN  /\ r \in table
        /\ state' = [state EXCEPT ![r] = after]
        /\ Save(r, after)
        /\ UNCHANGED <<table, heartbeat, cancelled, writer, callVars, active, hostVars>>

\* set_intensity writes the row and nothing else that matters here.
SetIntensity(r) ==
    /\ r \in table
    /\ Save(r, state[r])
    /\ UNCHANGED <<memoryVars, hostVars>>

\* clear_active_run_id(owner, run)
ClearActive(r) ==
    [active EXCEPT ![OwnerOf[r]] = IF @ = r THEN NoRun ELSE @]

\* A stop call may be made: the run is known, and it is the caller's turn.
MayStop(c, r) ==
    /\ r \in table /\ <<c, r>> \notin stopping \cup draining
    /\ c = "shutdown" => /\ r \in halting
                         /\ \A q \in Runs : <<c, q>> \notin stopping \cup draining

\* Mutant: the heartbeat is awaited without being cancelled.
StopUncancelled(c, r) ==
    /\ MayStop(c, r)
    /\ state'     = [state EXCEPT ![r] = "stopped"]
    /\ active'    = ClearActive(r)
    /\ stopping'  = stopping \cup {<<c, r>>}
    /\ UNCHANGED <<table, heartbeat, cancelled, writer, draining, halting, rowVars, hostVars>>

\* stop, up to the point where it waits for the heartbeat it cancelled.
Stop(c, r) ==
    /\ MayStop(c, r)
    /\ state'     = [state EXCEPT ![r] = "stopped"]
    /\ active'    = ClearActive(r)
    /\ cancelled' = [cancelled EXCEPT ![r] = @ \/ Beating(r)]
    /\ stopping'  = stopping \cup {<<c, r>>}
    /\ UNCHANGED <<table, heartbeat, writer, draining, halting, rowVars, hostVars>>

\* The row is written as the run is by now, and the call returns.
StopReturned(c, r) ==
    /\ Save(r, state[r])
    /\ halting' = IF c = "shutdown" THEN halting \ {r} ELSE halting
    /\ UNCHANGED <<table, state, heartbeat, cancelled, active, hostVars>>

\* The heartbeat has ended.  The run's reference to its writer is cleared, and the
\* call that cleared it waits for the writer; any other call goes on.
StopJoined(c, r) ==
    /\ <<c, r>> \in stopping /\ ~Beating(r)
    /\ stopping' = stopping \ {<<c, r>>}
    /\ IF writer[r] = "on" /\ r \in table
       THEN /\ writer' = [writer EXCEPT ![r] = "leaving"]
            /\ draining' = draining \cup {<<c, r>>}
            /\ UNCHANGED <<table, state, heartbeat, cancelled, halting, active, rowVars, hostVars>>
       ELSE StopReturned(c, r) /\ UNCHANGED <<writer, draining>>

\* The writer ends by itself, or is cancelled after two seconds.
WriterJoined(c, r) ==
    /\ <<c, r>> \in draining
    /\ draining' = draining \ {<<c, r>>}
    /\ writer' = [writer EXCEPT ![r] = "none"]
    /\ StopReturned(c, r) /\ UNCHANGED stopping

\* restart: the run is running again before the owner's other run is noticed.
Restart(r) ==
    LET other == active[OwnerOf[r]]
    IN  /\ r \in table
        /\ state' = [state EXCEPT ![r] = "running"]
        /\ IF other \in Runs \ {r}
           THEN UNCHANGED <<active, rowVars>>
           ELSE active' = [active EXCEPT ![OwnerOf[r]] = r] /\ Save(r, "running")
        /\ UNCHANGED <<table, heartbeat, cancelled, writer, callVars, hostVars>>

----------------------------------------------------------------------------
(* The heartbeat task *)

BeatEnds(r) ==
    /\ heartbeat' = [heartbeat EXCEPT ![r] = "done"]
    /\ cancelled' = [cancelled EXCEPT ![r] = FALSE]

\* Once a second: leave when the run has ended, tick when it is running.
Wake(r) ==
    /\ heartbeat[r] = "sleep" /\ ~cancelled[r]
    /\ IF r \notin table \/ state[r] \in {"stopped", "error"} THEN BeatEnds(r)
       ELSE /\ heartbeat' = [heartbeat EXCEPT ![r] = IF state[r] = "running" THEN "tick" ELSE @]
            /\ UNCHANGED cancelled
    /\ UNCHANGED <<table, state, writer, callVars, active, rowVars, hostVars>>

\* The tick's work ends; the row is written now and then.
TickEnds(r) ==
    /\ heartbeat[r] = "tick" /\ ~cancelled[r]
    /\ heartbeat' = [heartbeat EXCEPT ![r] = "sleep"]
    /\ Save(r, state[r]) \/ UNCHANGED rowVars
    /\ UNCHANGED <<table, state, cancelled, writer, callVars, active, hostVars>>

\* fail_run, called by the work of a tick: the owner's mapping stays.
FailRun(r) ==
    /\ heartbeat[r] = "tick" /\ r \in table /\ state[r] \in ActiveStates
    /\ state' = [state EXCEPT ![r] = "error"]
    /\ Save(r, "error")
    /\ UNCHANGED <<table, heartbeat, cancelled, writer, callVars, active, hostVars>>

\* A cancelled task ends at its next await, or when the commit it is in resolves.
Cancelled(r) ==
    /\ cancelled[r] /\ Beating(r)
    /\ BeatEnds(r)
    /\ UNCHANGED <<table, state, writer, callVars, active, rowVars, hostVars>>

----------------------------------------------------------------------------
(* The database and the process *)

\* A row reaches the database, or the write fails and is logged.
WriteEnds(r) ==
    /\ \E s \in writes[r] :
         /\ writes' = [writes EXCEPT ![r] = @ \ {s}]
         /\ stored' \in {stored, [stored EXCEPT ![r] = s]}
    /\ UNCHANGED <<memoryVars, hostVars>>

\* The runs of the process are gone from its memory.
Forget == table' = {} /\ active' = [o \in Owners |-> NoRun]

\* shutdown refuses new runs and stops the ones there are, one after the other.
ShutdownBegins ==
    /\ process = "up" /\ process' = "closing"
    /\ halting' = table
    /\ UNCHANGED <<table, state, heartbeat, cancelled, writer, stopping, draining, active,
                   rowVars, starts, born, reconciled>>

\* When its own stop calls have returned it forgets the runs; the calls of clients
\* that are still under way go on.
ShutdownEnds ==
    /\ process = "closing" /\ process' = "down"
    /\ halting = {}
    /\ Forget
    /\ UNCHANGED <<state, heartbeat, cancelled, writer, callVars, rowVars, starts, born, reconciled>>

\* The process dies: of the rows on their way some arrive.
Crash ==
    /\ process # "down" /\ process' = "down"
    /\ Forget /\ stopping' = {} /\ draining' = {} /\ halting' = {}
    /\ state' = [r \in Runs |-> IF state[r] = "none" THEN "none" ELSE "stopped"]
    /\ cancelled' = [r \in Runs |-> FALSE]
    /\ heartbeat' = [r \in Runs |-> IF state[r] = "none" THEN "none" ELSE "done"]
    /\ writer' = [r \in Runs |-> "none"]
    /\ writes' = [r \in Runs |-> {}]
    /\ stored' \in [Runs -> Rows]
    /\ \A r \in Runs : stored'[r] \in {stored[r]} \cup writes[r]
    /\ UNCHANGED <<starts, born, reconciled>>

StaleRow(row) == row = "active"

\* lifespan: reconcile_stale_runs, whose failure does not keep the hub down.  Nothing
\* of the process before is left.
Start ==
    /\ process = "down" /\ process' = "up"
    /\ stopping = {} /\ draining = {} /\ \A r \in Runs : writes[r] = {}
    /\ starts < MaxStarts /\ starts' = starts + 1
    /\ reconciled' \in BOOLEAN
    /\ stored' = [r \in Runs |-> IF reconciled' /\ StaleRow(stored[r]) THEN "over" ELSE stored[r]]
    /\ state' = [r \in Runs |-> IF state[r] = "none" THEN "none" ELSE "stopped"]
    /\ UNCHANGED <<table, heartbeat, cancelled, writer, callVars, active, writes, born>>

Command(r) == Pause(r) \/ Resume(r) \/ SetIntensity(r) \/ Restart(r)
StopCall(c, r) == Stop(c, r) \/ StopJoined(c, r) \/ WriterJoined(c, r)
Beat(r) == Wake(r) \/ TickEnds(r) \/ Cancelled(r)

LifecycleNext ==
    \/ \E o \in Owners : CreateRefused(o) \/ \E r \in Runs : Create(o, r)
    \/ \E r \in Runs : Command(r) \/ Beat(r) \/ FailRun(r) \/ WriteEnds(r)
    \/ \E call \in Calls : StopCall(call[1], call[2])
    \/ ShutdownBegins \/ ShutdownEnds \/ Crash \/ Start

LifecycleSpec == LifecycleInit /\ [][LifecycleNext]_runVars

\* The event loop runs every task that can run; a write ends, if only by failing.
LifecycleFairSpec ==
    /\ LifecycleSpec
    /\ \A r \in Runs : WF_runVars(Beat(r)) /\ WF_runVars(WriteEnds(r))
    /\ \A call \in Calls :
         SF_runVars(StopJoined(call[1], call[2])) /\ SF_runVars(WriterJoined(call[1], call[2]))

----------------------------------------------------------------------------
\* Type invariant of the run table.
LifecycleTypeOK ==
    /\ table \subseteq Runs /\ halting \subseteq Runs
    /\ stopping \subseteq Calls /\ draining \subseteq Calls
    /\ state \in [Runs -> RunStates] /\ heartbeat \in [Runs -> Beats]
    /\ cancelled \in [Runs -> BOOLEAN] /\ writer \in [Runs -> {"none", "on", "leaving"}]
    /\ active \in [Owners -> Runs \cup {NoRun}]
    /\ stored \in [Runs -> Rows] /\ writes \in [Runs -> SUBSET Rows]
    /\ process \in {"up", "closing", "down"}
    /\ starts \in 1..MaxStarts /\ born \in [Runs -> 0..MaxStarts]
    /\ reconciled \in BOOLEAN

\* A run that was pruned or forgotten leaves no task behind, over any race of stop
\* calls, pruning and shutdown: its heartbeat has ended, and so has its writer, unless
\* a stop call under way is waiting for it.
ForgottenRunsAreIdle ==
    \A r \in Runs \ table :
        /\ ~Beating(r)
        /\ writer[r] # "none" => \E call \in draining : call[2] = r

\* A run that owns its owner's slot keeps it until it is stopped itself: neither
\* another run's stop nor a restart or a create takes it away.
SlotIsKept ==
    \A o \in Owners :
        (active[o] \in ActiveRuns /\ process' = process)
            => (active'[o] = active[o] \/ state'[active[o]] = "stopped")

\* After a start no row shows a run of an earlier process as active.
StaleRunsReconciled ==
    (process = "up" /\ reconciled)
        => \A r \in Runs : born[r] < starts => ~StaleRow(stored[r])

\* stop comes back, and the run it stopped ticks no more.
StopReturns ==
    \A call \in Calls :
        (call \in stopping) ~> (call \notin stopping \cup draining /\ ~Beating(call[2]))

\* "owner may have at most SIMULATOR_MAX_ACTIVE_RUNS_PER_OWNER active runs"
\* (The code does not keep this: README, section 5.)
OwnerHasOneRun == \A o \in Owners : Cardinality(ActiveRunsOf(o)) <= MaxPerOwner

\* A run that resume sets running goes on generating events: it has a heartbeat.
\* (The code does not keep this: README, section 5.)
ResumeContinues ==
    [][\A r \in Runs : (Resume(r) /\ state[r] # "running") => (state'[r] = "running" => Beating(r))]_runVars
=============================================================================
