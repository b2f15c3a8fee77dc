----------------------------- MODULE MCProgress -----------------------------
(***************************************************************************)
(* What must eventually happen in the parts around the hub, on instances   *)
(* small enough for liveness checking.  A behaviour exercises one part,    *)
(* the others stay as they start; the fairness of a part is asked for in   *)
(* the behaviours that exercise it.                                        *)
(***************************************************************************)
EXTENDS Integers

CONSTANT Off

VARIABLES
    part,                                                   \* the part that runs
    todo, held, op, preflight, attempt, locked,             \* EngineLocks
    active, limit, debt, back, reserved, changes, due, gcache, tcache,
    bpc, seen, built, overlapped,                           \* GraphCache
    log, oldest, ended, sub, queue, tail, pc, outbox, hello, cursor, breaks,    \* SseBroadcast
    pubs, subs, events, callbacks, busQueue, gen, handler, hand, writer, sent,
    matched, dropped,                                       \* EventBus
    table, state, heartbeat, cancelled, artifacts, stopping, draining, halting, slot, stored, writes,
    process, starts, born, reconciled,                      \* RunLifecycle
    tick, tickPc, runState, cancels, result, collected, phase, stopReq, verdict,
    commitErr, staged, durable, told, errors, failures, inRow, cycles, owed,
    decays, metrics, doubt, faults,                         \* RealTick
    key, lpc, token, drawn, lapsed, proc, client, task, health, verdictOf,  \* BackgroundJobs
    open, clearedBy, clearPc, candidates, rounds, counted, shaped, pending,
    announced, reported,                                    \* InteractClearing
    settings, lock, cfgPc, asked, newValues, cfgCancels, audit, published, restarts    \* AdminConfig

----------------------------------------------------------------------------
Locks == INSTANCE EngineLocks WITH
    Sessions <- {"s1", "s2"}, Txs <- 1..2, EqOf <- <<1, 1>>,
    SegsOf <- <<{1, 2}, {2}>>, RetryAttempts <- 2, reserved <- locked

Graphs == INSTANCE GraphCache WITH
    Readers <- {"reader"}, MaxLimit <- 1, MaxChanges <- 2, Ttl <- 1

Stream == INSTANCE SseBroadcast WITH
    Clients <- {"one"}, Topics <- {"UAH", "HOUR"}, TopicOf <- [c \in {"one"} |-> "UAH"],
    BufferMax <- 3, QueueMax <- 2, MaxSubs <- 2, MaxEvents <- 4, MaxBreaks <- 1

Bus == INSTANCE EventBus WITH
    Sockets <- {"s"}, Kinds <- {"paid", "other"}, QueueMax <- 1, MaxPubs <- 2, MaxSubs <- 2,
    queue <- busQueue

Runs == INSTANCE RunLifecycle WITH
    Runs <- {"r"}, Owners <- {"ann"}, OwnerOf <- [r \in {"r"} |-> "ann"], NoRun <- Off,
    MaxPerOwner <- 1, MaxActive <- 2, MaxRecords <- 1, MaxWrites <- 3, MaxStarts <- 2,
    active <- slot, writer <- artifacts

Ticks == INSTANCE RealTick WITH
    Planned <- 1, Outcomes <- {"committed", "timeout"}, MaxTicks <- 2, MaxTimeouts <- 1,
    MaxErrors <- 3, MaxFailures <- 2, WriteEvery <- 2, ClearEvery <- 2, MaxCycles <- 1,
    MaxDecays <- 1, MaxFaults <- 2, pc <- tickPc

OneJob == INSTANCE BackgroundJobs WITH
    Procs <- {"p"}, CanWait <- FALSE, MaxTokens <- 2, status <- health, result <- verdictOf

Clears == INSTANCE InteractClearing WITH
    Requests <- {"r1", "r2"}, Cycles <- {"c1", "c2"}, MaxRounds <- 2,
    pc <- clearPc, todo <- candidates, told <- announced

\* Two requests for one setting; the values do not matter here.
Config == INSTANCE AdminConfig WITH
    Requests <- {"r1", "r2"}, Keys <- {"clearing"}, Flags <- {"clearing"},
    Values <- {TRUE}, Initial <- [k \in {"clearing"} |-> TRUE], MaxCancels <- 3, MaxRestarts <- 1,
    pc <- cfgPc, writes <- newValues, cancels <- cfgCancels

ASSUME ProgressAssumption ==
    /\ Locks!EngineLocksAssumption /\ Graphs!GraphCacheAssumption /\ Stream!SseAssumption
    /\ Bus!BusAssumption /\ Runs!LifecycleAssumption /\ Ticks!TickAssumption /\ OneJob!LockAssumption
    /\ Clears!InteractClearingAssumption /\ Config!ConfigAssumption

----------------------------------------------------------------------------
locksVars == <<todo, held, op, preflight, attempt, locked>>
graphsVars == <<active, limit, debt, back, reserved, changes, due, gcache, tcache,
                bpc, seen, built, overlapped>>
streamVars == <<log, oldest, ended, sub, queue, tail, pc, outbox, hello, cursor, breaks>>
busVars == <<pubs, subs, events, callbacks, busQueue, gen, handler, hand, writer, sent, matched, dropped>>
runsVars == <<table, state, heartbeat, cancelled, artifacts, stopping, draining, halting, slot, stored, writes,
              process, starts, born, reconciled>>
ticksVars == <<tick, tickPc, runState, cancels, result, collected, phase, stopReq, verdict,
               commitErr, staged, durable, told, errors, failures, inRow, cycles, owed,
               decays, metrics, doubt, faults>>
jobsVars == <<key, lpc, token, drawn, lapsed, proc, client, task, health, verdictOf>>
clearsVars == <<open, clearedBy, clearPc, candidates, rounds, counted, shaped, pending, announced, reported>>
configVars == <<settings, lock, cfgPc, asked, newValues, cfgCancels, audit, published, restarts>>
vars == <<part, locksVars, graphsVars, streamVars, busVars, runsVars, ticksVars, jobsVars, clearsVars, configVars>>

Init ==
    /\ part \in {"locks", "graphs", "stream", "bus", "runs", "ticks", "jobs", "clears", "config"}
    /\ Locks!EngineLocksInit /\ (part # "locks" => locked = {})
    /\ Graphs!GraphCacheInit /\ active /\ limit = 1 /\ debt = 0 /\ back = 0
    /\ Stream!SseInit /\ Bus!BusInit
    /\ Runs!LifecycleInit /\ Ticks!TickInit /\ OneJob!JobsInit
    /\ Clears!ClearingInit /\ (part # "clears" => open = {}) /\ Config!ConfigInit

LocksStep == part = "locks" /\ Locks!EngineLocksNext
GraphsStep == part = "graphs" /\ Graphs!GraphCacheNext
StreamStep == part = "stream" /\ Stream!SseNext
BusStep == part = "bus" /\ Bus!BusNext
RunsStep == part = "runs" /\ Runs!LifecycleNext
TicksStep == part = "ticks" /\ Ticks!TickNext
JobsStep == part = "jobs" /\ OneJob!JobsNext
ClearsStep == part = "clears" /\ Clears!ClearingNext
ConfigStep == part = "config" /\ Config!ConfigNext

Next ==
    \/ LocksStep /\ UNCHANGED <<part, graphsVars, streamVars, busVars,
                                runsVars, ticksVars, jobsVars, clearsVars, configVars>>
    \/ GraphsStep /\ UNCHANGED <<part, locksVars, streamVars, busVars,
                                 runsVars, ticksVars, jobsVars, clearsVars, configVars>>
    \/ StreamStep /\ UNCHANGED <<part, locksVars, graphsVars, busVars,
                                 runsVars, ticksVars, jobsVars, clearsVars, configVars>>
    \/ BusStep /\ UNCHANGED <<part, locksVars, graphsVars, streamVars,
                              runsVars, ticksVars, jobsVars, clearsVars, configVars>>
    \/ RunsStep /\ UNCHANGED <<part, locksVars, graphsVars, streamVars, busVars,
                               ticksVars, jobsVars, clearsVars, configVars>>
    \/ TicksStep /\ UNCHANGED <<part, locksVars, graphsVars, streamVars, busVars,
                                runsVars, jobsVars, clearsVars, configVars>>
    \/ JobsStep /\ UNCHANGED <<part, locksVars, graphsVars, streamVars, busVars,
                               runsVars, ticksVars, clearsVars, configVars>>
    \/ ClearsStep /\ UNCHANGED <<part, locksVars, graphsVars, streamVars, busVars,
                                 runsVars, ticksVars, jobsVars, configVars>>
    \/ ConfigStep /\ UNCHANGED <<part, locksVars, graphsVars, streamVars, busVars,
                                 runsVars, ticksVars, jobsVars, clearsVars>>

\* PostgreSQL grants a lock that is free (again and again, with other waiters in
\* between), and a unit of work that has its locks goes on.
LocksFairness ==
    \A p \in {"s1", "s2"} :
        /\ SF_locksVars(part = "locks" /\ Locks!Take(p))
        /\ WF_locksVars(part = "locks" /\ Locks!PreflightRetry(p))
        /\ WF_locksVars(part = "locks" /\ Locks!PreflightGivesUp(p))
        /\ WF_locksVars(part = "locks" /\ Locks!TakeSegments(p))
        /\ WF_locksVars(part = "locks" /\ Locks!Finish(p))

\* Time passes, and requests that have begun to build a graph finish it.
GraphsFairness ==
    /\ WF_graphsVars(part = "graphs" /\ Graphs!Tick)
    /\ \A c \in Graphs!Both : WF_graphsVars(part = "graphs" /\ Graphs!Invalidate(c))
    /\ WF_graphsVars(part = "graphs" /\ Graphs!Finish("reader"))
    /\ WF_graphsVars(part = "graphs" /\ Graphs!Return("reader"))

\* The server's event loop keeps every open stream and socket going; receive_text
\* fails on a broken connection.
LoopFairness ==
    /\ WF_streamVars(part = "stream" /\ Stream!StreamRuns("one"))
    /\ WF_busVars(part = "bus" /\ Bus!DeliverIfActive("s"))
    /\ WF_busVars(part = "bus" /\ (Bus!StartWriter("s") \/ Bus!Close("s")))
    /\ WF_busVars(part = "bus" /\ (Bus!WriterTakes("s") \/ Bus!WriterSends("s")))
    /\ WF_busVars(part = "bus" /\ writer["s"] = "failed" /\ Bus!Leave("s"))

\* asyncio runs every task that can run and delivers cancellations; a write to the
\* database ends, if only by failing.
TaskFairness ==
    /\ WF_runsVars(part = "runs" /\ Runs!Beat("r"))
    /\ WF_runsVars(part = "runs" /\ Runs!StopJoined("client", "r"))
    /\ WF_runsVars(part = "runs" /\ Runs!StopJoined("shutdown", "r"))
    /\ WF_runsVars(part = "runs" /\ Runs!WriterJoined("client", "r"))
    /\ WF_runsVars(part = "runs" /\ Runs!WriterJoined("shutdown", "r"))
    /\ WF_runsVars(part = "runs" /\ Runs!WriteEnds("r"))
    /\ WF_ticksVars(part = "ticks" /\ Ticks!HeartbeatGoesOn)
    /\ WF_jobsVars(part = "jobs" /\ OneJob!CancelAtRedis("p"))
    /\ WF_jobsVars(part = "jobs" /\ OneJob!CancelCompute("p"))
    /\ WF_jobsVars(part = "jobs" /\ OneJob!CancelUnlock("p"))
    /\ WF_jobsVars(part = "jobs" /\ OneJob!Join("p"))
    /\ WF_jobsVars(part = "jobs" /\ OneJob!CloseResources("p"))
    /\ WF_jobsVars(part = "jobs" /\ OneJob!Exit("p"))
    /\ \A j \in OneJob!Jobs :
        /\ WF_jobsVars(part = "jobs" /\ OneJob!OnBackgroundTaskDone("p", j))
        /\ WF_jobsVars(part = "jobs" /\ OneJob!CancelIdle("p", j))

\* A request is a coroutine that the event loop resumes; the database answers it,
\* or the connection breaks.
RequestFairness ==
    \A r \in {"r1", "r2"} :
        /\ WF_clearsVars(part = "clears" /\ Clears!Step(r))
        /\ WF_configVars(part = "config" /\ Config!RequestEnds(r))

Spec ==
    /\ Init /\ [][Next]_vars
    /\ LocksFairness /\ GraphsFairness /\ LoopFairness /\ TaskFairness /\ RequestFairness

----------------------------------------------------------------------------
\* Nobody waits for ever.  Every unit of work of the engine gets its locks, without
\* PostgreSQL's deadlock detection and without a lock timeout (engine.py); a clearing
\* request ends though payments make new cycles (api/v1/simulator.py); and a request
\* leaves the lock of the settings, however often it is cancelled (api/v1/admin.py).
WorkGetsDone ==
    /\ Locks!WorkGetsDone
    /\ (part = "clears") => Clears!RequestsEnd
    /\ Config!LockIsReleased

\* The time to live heals what overlapping builds leave behind: when changes have
\* stopped, every graph that can still be served is the true one (router.py).
GraphConverges == Graphs!GraphConverges

\* Whatever is published after a client subscribed reaches it, unless its stream
\* ends first, and a subscription that overflowed ends its stream (sse_broadcast.py);
\* a message scheduled for a subscription comes out of the socket, or is counted
\* as dropped, unless the client subscribes again or the socket ends (event_bus.py).
EventsArrive == Stream!EventsArrive /\ Stream!ClosedIsNoticed /\ Bus!MessagesArrive

\* Whatever is told to stop does stop: stop of a run comes back and its heartbeat
\* beats no more, a cancelled tick ends, and a process shuts down, wherever its
\* jobs were cancelled (run_lifecycle.py, real_runner.py, main.py).
StopsComplete == Runs!StopReturns /\ Ticks!CancelledHeartbeatEnds /\ OneJob!ShutdownCompletes
=============================================================================
