----------------------------- MODULE Simulator -----------------------------
(***************************************************************************)
(* A simulator run.  What drives it: its lifecycle, the tick of real mode, *)
(* the adaptive clearing policy and trust drift.  What its viewers do to   *)
(* it and see of it: the events of a scenario, the interactive actions and *)
(* their clearing, the event stream and the event bus behind the           *)
(* websocket.  The parts share no variable, so their product would say no  *)
(* more than each of them does: a behaviour exercises one part, and the    *)
(* others are absent.                                                      *)
(***************************************************************************)
EXTENDS Integers

CONSTANTS
    Parts,                                                  \* the parts that are exercised
    Off,                                                    \* the value of an absent part
    RunIds, Owners, OwnerOf, MaxPerOwner, MaxActive, MaxRecords, MaxWrites, MaxStarts,  \* RunLifecycle
    Planned, PaymentEnds, MaxTicks, MaxTimeouts, MaxErrors, MaxFailures, WriteEvery,
    ClearEvery, MaxCycles, MaxDecays, MaxFaults,            \* RealTick
    Eqs, Sims, Signals, Configs, MaxEqPerTick, EngineDepth, MaxTick, \* AdaptiveClearing
    Originals, GrowthRate, DecayRate, MaxGrowth, MinLimit, Overload, ViewerLimits, MaxDriftTicks, \* TrustDrift
    Pids, Founders, FirstLines, FirstRows, InjectLimit, Scripts, MaxEffects, MaxEventTicks, \* ScenarioInject
    LinePairs, InRun, Limits, ActionRequests, MaxActions,   \* InteractActions
    ClearingRequests, Cycles, MaxRounds,                    \* InteractClearing
    Clients, Topics, TopicOf, BufferMax, StreamMax, MaxSubs, MaxEvents, MaxBreaks,  \* SseBroadcast
    Sockets, Kinds, BusMax, MaxPubs, MaxRenewals            \* EventBus

VARIABLES
    part,                                                   \* the part that runs
    table, state, heartbeat, cancelled, writer, stopping, draining, halting, slot, stored, writes,
    process, starts, born, reconciled,                      \* RunLifecycle
    tick, pc, runState, cancels, result, collected, phase, stopReq, verdict,
    commitErr, staged, durable, told, errors, failures, inRow, cycles, owed,
    decays, metrics, doubt, faults,                         \* RealTick
    cfg, now, window, last, streak, backoff, active, due, armed, crossed, ledger, \* AdaptiveClearing
    limit, frozen, debt, extra, memory, unheard, original, lastClearing, snap, target,
    driftTick, driftPc, driftDoubt, edited,                 \* TrustDrift
    script, db, tx, mem, seen, known, news, injectPc, cur, pos, fired, commits,
    strays, eventTick,                                      \* ScenarioInject
    runEnd, seeded, rows, seeder, line, lent, view, actPc, job, done,
    arrived, overlapped, astray,                            \* InteractActions
    open, clearedBy, clearPc, todo, rounds, counted, shaped, pending,
    announced, reported,                                    \* InteractClearing
    log, oldest, ended, sub, queue, tail, streamPc, outbox, hello, cursor, breaks,  \* SseBroadcast
    pubs, subs, events, callbacks, busQueue, gen, handler, hand, busWriter, sent,
    matched, dropped                                        \* EventBus

----------------------------------------------------------------------------
Runs == INSTANCE RunLifecycle WITH Runs <- RunIds, NoRun <- Off, active <- slot

Ticks == INSTANCE RealTick WITH Outcomes <- PaymentEnds

Adaptive == INSTANCE AdaptiveClearing

Drift == INSTANCE TrustDrift WITH
    MaxTicks <- MaxDriftTicks, tick <- driftTick, pc <- driftPc, doubt <- driftDoubt

Inject == INSTANCE ScenarioInject WITH
    Lines <- FirstLines, Limit <- InjectLimit, MaxTicks <- MaxEventTicks,
    pc <- injectPc, tick <- eventTick

Actions == INSTANCE InteractActions WITH
    Pairs <- LinePairs, Requests <- ActionRequests, MaxRequests <- MaxActions,
    runState <- runEnd, debt <- lent, snap <- view, pc <- actPc

Clears == INSTANCE InteractClearing WITH
    Requests <- ClearingRequests, pc <- clearPc, told <- announced

Stream == INSTANCE SseBroadcast WITH QueueMax <- StreamMax, pc <- streamPc

Bus == INSTANCE EventBus WITH
    QueueMax <- BusMax, MaxSubs <- MaxRenewals, queue <- busQueue, writer <- busWriter

ASSUME SimulatorAssumption ==
    /\ Runs!LifecycleAssumption /\ Ticks!TickAssumption /\ Adaptive!AdaptiveAssumption
    /\ Drift!DriftAssumption
    /\ Inject!InjectAssumption
    /\ Actions!InteractAssumption
    /\ Clears!InteractClearingAssumption /\ Stream!SseAssumption /\ Bus!BusAssumption

----------------------------------------------------------------------------
runsVars == <<table, state, heartbeat, cancelled, writer, stopping, draining, halting, slot, stored, writes,
              process, starts, born, reconciled>>
ticksVars == <<tick, pc, runState, cancels, result, collected, phase, stopReq, verdict,
               commitErr, staged, durable, told, errors, failures, inRow, cycles, owed,
               decays, metrics, doubt, faults>>
adaptiveVars == <<cfg, now, window, last, streak, backoff, active, due, armed, crossed, ledger>>
driftVars == <<limit, frozen, debt, extra, memory, unheard, original, lastClearing, snap, target,
               driftTick, driftPc, driftDoubt, edited>>
injectVars == <<script, db, tx, mem, seen, known, news, injectPc, cur, pos, fired, commits, strays, eventTick>>
actionVars == <<runEnd, seeded, rows, seeder, line, lent, view, actPc, job, done, arrived, overlapped, astray>>
clearVars == <<open, clearedBy, clearPc, todo, rounds, counted, shaped, pending, announced, reported>>
streamVars == <<log, oldest, ended, sub, queue, tail, streamPc, outbox, hello, cursor, breaks>>
busVars == <<pubs, subs, events, callbacks, busQueue, gen, handler, hand, busWriter, sent, matched, dropped>>
driverVars == <<runsVars, ticksVars, adaptiveVars, driftVars>>
viewerVars == <<injectVars, actionVars, clearVars, streamVars, busVars>>
vars == <<part, driverVars, viewerVars>>

RunsOff ==
    /\ table = Off /\ state = Off /\ heartbeat = Off /\ cancelled = Off /\ writer = Off
    /\ stopping = Off /\ draining = Off /\ halting = Off /\ slot = Off /\ stored = Off /\ writes = Off /\ process = Off
    /\ starts = Off /\ born = Off /\ reconciled = Off
TicksOff ==
    /\ tick = Off /\ pc = Off /\ runState = Off /\ cancels = Off /\ result = Off /\ collected = Off
    /\ phase = Off /\ stopReq = Off /\ verdict = Off /\ commitErr = Off /\ staged = Off
    /\ durable = Off /\ told = Off /\ errors = Off /\ failures = Off /\ inRow = Off /\ cycles = Off
    /\ owed = Off /\ decays = Off /\ metrics = Off /\ doubt = Off /\ faults = Off
AdaptiveOff ==
    /\ cfg = Off /\ now = Off /\ window = Off /\ last = Off /\ streak = Off
    /\ backoff = Off /\ active = Off /\ due = Off /\ armed = Off /\ crossed = Off
    /\ ledger = Off
DriftOff ==
    /\ limit = Off /\ frozen = Off /\ debt = Off /\ extra = Off /\ memory = Off /\ unheard = Off
    /\ original = Off /\ lastClearing = Off /\ snap = Off /\ target = Off
    /\ driftTick = Off /\ driftPc = Off /\ driftDoubt = Off /\ edited = Off
InjectOff ==
    /\ script = Off /\ db = Off /\ tx = Off /\ mem = Off /\ seen = Off /\ known = Off /\ news = Off
    /\ injectPc = Off /\ cur = Off /\ pos = Off /\ fired = Off /\ commits = Off
    /\ strays = Off /\ eventTick = Off
ActionsOff ==
    /\ runEnd = Off /\ seeded = Off /\ rows = Off /\ seeder = Off /\ line = Off /\ lent = Off
    /\ view = Off /\ actPc = Off /\ job = Off /\ done = Off /\ arrived = Off /\ overlapped = Off
    /\ astray = Off
ClearsOff ==
    /\ open = Off /\ clearedBy = Off /\ clearPc = Off /\ todo = Off /\ rounds = Off
    /\ counted = Off /\ shaped = Off /\ pending = Off /\ announced = Off /\ reported = Off
BusOff ==
    /\ pubs = Off /\ subs = Off /\ events = Off /\ callbacks = Off /\ busQueue = Off /\ gen = Off
    /\ handler = Off /\ hand = Off /\ busWriter = Off /\ sent = Off /\ matched = Off /\ dropped = Off

\* The stream starts empty in every behaviour, as the refinement looks at it.
Init ==
    /\ part \in Parts
    /\ IF part = "runs" THEN Runs!LifecycleInit ELSE RunsOff
    /\ IF part = "ticks" THEN Ticks!TickInit ELSE TicksOff
    /\ IF part = "adaptive" THEN Adaptive!AdaptiveInit ELSE AdaptiveOff
    /\ IF part = "drift" THEN Drift!DriftInit ELSE DriftOff
    /\ IF part = "inject" THEN Inject!InjectInit ELSE InjectOff
    /\ IF part = "actions" THEN Actions!InteractInit ELSE ActionsOff
    /\ IF part = "clears" THEN Clears!ClearingInit ELSE ClearsOff
    /\ Stream!SseInit
    /\ IF part = "bus" THEN Bus!BusInit ELSE BusOff

RunsStep == part = "runs" /\ Runs!LifecycleNext
TicksStep == part = "ticks" /\ Ticks!TickNext
AdaptiveStep == part = "adaptive" /\ Adaptive!AdaptiveNext
DriftStep == part = "drift" /\ Drift!DriftNext
InjectStep == part = "inject" /\ Inject!InjectNext
ActionsStep == part = "actions" /\ Actions!InteractNext
ClearsStep == part = "clears" /\ Clears!ClearingNext
StreamStep == part = "stream" /\ Stream!SseNext
BusStep == part = "bus" /\ Bus!BusNext

DriverStep ==
    \/ RunsStep /\ UNCHANGED <<ticksVars, adaptiveVars, driftVars>>
    \/ TicksStep /\ UNCHANGED <<runsVars, adaptiveVars, driftVars>>
    \/ AdaptiveStep /\ UNCHANGED <<runsVars, ticksVars, driftVars>>
    \/ DriftStep /\ UNCHANGED <<runsVars, ticksVars, adaptiveVars>>
ViewerStep ==
    \/ InjectStep /\ UNCHANGED <<actionVars, clearVars, streamVars, busVars>>
    \/ ActionsStep /\ UNCHANGED <<injectVars, clearVars, streamVars, busVars>>
    \/ ClearsStep /\ UNCHANGED <<injectVars, actionVars, streamVars, busVars>>
    \/ StreamStep /\ UNCHANGED <<injectVars, actionVars, clearVars, busVars>>
    \/ BusStep /\ UNCHANGED <<injectVars, actionVars, clearVars, streamVars>>

Next ==
    \/ DriverStep /\ UNCHANGED <<part, viewerVars>>
    \/ ViewerStep /\ UNCHANGED <<part, driverVars>>

Spec == Init /\ [][Next]_vars

----------------------------------------------------------------------------
\* A run that was pruned or forgotten leaves no task behind that no stop call waits
\* for, over any race of stop, pruning and shutdown; after a start no row shows a run of an earlier
\* process as active; and the run that has its owner's slot keeps it until it is
\* stopped itself (run_lifecycle.py).
RunsAreAccountedFor ==
    /\ [](part = "runs" =>
            Runs!LifecycleTypeOK /\ Runs!ForgottenRunsAreIdle /\ Runs!StaleRunsReconciled)
    /\ [][part = "runs" => Runs!SlotIsKept]_vars

\* The payments of a tick are in the database together or not at all, and what a
\* commit is said to have done is what it did, whatever failed or was cancelled
\* (resolve_commit_under_cancellation).
TickIsAtomic == part = "ticks" => Ticks!TickTypeOK /\ Ticks!TickIsAtomic /\ Ticks!VerdictIsTrue

\* What a run announces is in the database, once and in order; what is in the
\* database and was not announced is of a tick whose commit failed for its caller;
\* and every cleared cycle is told (DeferredRealPaymentEffects, real_clearing_engine).
ViewersHearTheTruth ==
    part = "ticks" =>
        /\ Ticks!AnnouncedIsDurable /\ Ticks!DurableIsAnnounced
        /\ Ticks!ToldOnceInOrder /\ Ticks!ClearedIsTold

\* Whatever an operator configures, and with any number of runs, clearing stays within
\* its depth and switches with hysteresis; where no two runs were clearing an
\* equivalent at once, it backs off after fruitless attempts
\* (adaptive_clearing_policy.py).
ClearingIsPaced ==
    /\ [](part = "adaptive" =>
            Adaptive!AdaptiveTypeOK /\ Adaptive!DepthInBounds /\ Adaptive!BackoffHolds)
    /\ [][part = "adaptive" => Adaptive!HysteresisHolds]_vars

\* The cap on the equivalents of a tick lets every one have its turn, where the
\* cooldown is long enough and no two runs were clearing an equivalent at once
\* (real_tick_clearing_coordinator.py).
ClearingIsFair == part = "adaptive" => Adaptive!CapIsFair

\* Drift never leaves the bounds of a limit nobody edits, takes a limit below its
\* debt only when the debt has risen since the tick read it or growth cuts a limit
\* that a viewer had raised, and the scenario follows the row, whatever commits fail
\* and however viewers' payments and edits fall between (trust_drift_engine.py).
DriftIsBounded ==
    /\ [](part = "drift" =>
            Drift!DriftTypeOK /\ Drift!MemoryFollowsLimit /\ Drift!DriftStaysInBounds)
    /\ [][part = "drift" => Drift!UncoveredOnlyAfterTheRead]_vars

\* What create_run says of the runs it counts: "owner may have at most
\* SIMULATOR_MAX_ACTIVE_RUNS_PER_OWNER active runs" (run_lifecycle.py).
OwnersHaveOneRun == part = "runs" => Runs!OwnerHasOneRun

\* An event takes effect once and as a whole, over any order of effects, of failing
\* commits and of commits that are durable and not answered, whatever rows earlier
\* runs left: memory has nothing without its row, the planner's edges are the active
\* lines, and no injected debt passes a limit or the event's cap.  Where lines are
\* frozen with their participant, and not in the event that adds them, memory has
\* the very rows of the database but for those it missed something of, and the
\* viewers see memory's lines (inject_executor.py).
EventsApplyOnce ==
    part = "inject" =>
        /\ Inject!InjectTypeOK /\ Inject!AppliedOnce /\ Inject!MemoryHasRows
        /\ Inject!EdgesAreActiveLines /\ Inject!InjectedWithinLimit /\ Inject!InjectedWithinCap
        /\ Inject!MemoryFollowsRows /\ Inject!ViewerSeesLines

\* Interactive requests that race with each other and with the seeding of the run
\* find its rows, leave no debt above a limit, and an answer that says what happened
\* to the database is true of it; as long as none has overlapped another, the view
\* they leave shows the lines of the database, but for those of an earlier run and
\* those whose change was not answered (api/v1/simulator.py).
ActionsAreTrue ==
    part = "actions" =>
        /\ Actions!InteractTypeOK /\ Actions!SeedPrecedesUse /\ Actions!LimitsCoverDebts
        /\ Actions!AnswersAreTrue /\ Actions!SnapshotFollowsLines

\* Whatever ends a clearing request, each cycle it cleared has been announced,
\* once, and its answer tells of it (the clearing action of api/v1/simulator.py).
ClearingIsAnnounced ==
    part = "clears" =>
        /\ Clears!ClearingTypeOK /\ Clears!DurableIsAnnounced
        /\ Clears!AnnouncedAtMostOnce /\ Clears!AnswerTellsProgress

\* Refinement of EventLog: over any number of overflows, disconnects and replays a
\* client never passes an event meant for it (sse_broadcast.py).
NoEventSkipped == Stream!NoEventSkipped

\* Bounded queues lose nothing silently.  The stream: put_nowait never meets a full
\* queue where the code does not expect it.  The bus: a client sees no message
\* twice or out of order, none just vanishes while its connection works, nothing is
\* scheduled for clients that are gone, and a client that was told what it is
\* subscribed to is sent nothing else (event_bus.py, api/v1/websocket.py).
QueuesAreHonest ==
    /\ [](/\ part = "stream" => Stream!SseTypeOK /\ Stream!QueueHasRoom
          /\ part = "bus" =>
               /\ Bus!BusTypeOK /\ Bus!AtMostOnceInOrder
               /\ Bus!NothingVanishes /\ Bus!SubscriptionEndsWithSocket)
    /\ [][part = "bus" => Bus!OnlyWhatWasAsked]_vars
=============================================================================
