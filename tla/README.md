# GEO hub: TLA+ specification, model checks and proofs

This directory holds a formal model of the GEO hub (`src/app`). Its core is the money path:
how a payment goes from an HTTP request to debts in the database, how it is cleaned up when
something goes wrong, and how trust lines and clearing act on the same rows at the same
time. Around it are models of routing, of the simulator that drives runs against the hub,
of the event stream, of authentication, and of the process and its administration.
`PROJECT.json` maps every definition to the source lines it models.

## 1. The system

The hub keeps, per *equivalent* (currency), trust lines (creditor, debtor, limit, policy)
and debts (debtor, creditor, amount). A payment moves value along one or more routes of
trust lines in three units of work on a PostgreSQL database that runs at SERIALIZABLE:
insert a `NEW` transaction row, *prepare* (reserve capacity in `prepare_locks`, state
`PREPARED`), *commit* (apply the flows to the debts, state `COMMITTED`). Several API
workers, a recovery loop and clearing share the database.

| Component | State it keeps | Operations | Talks to | What makes it correct |
|---|---|---|---|---|
| payment engine `core/payments/engine.py` | `transactions.state`, `prepare_locks`, `debts` | prepare, prepare_routes, commit, abort, retry of units of work | advisory locks in PostgreSQL; called by service, recovery, clearing | each payment takes effect at most once; locks exist exactly while PREPARED; limits hold |
| payment service `core/payments/service.py` | the request's position, its reply | create_payment and its error paths | engine, router | the reply is true; one request drives a tx_id; nothing is left behind |
| recovery `core/recovery.py` | a list of tx_ids per pass | abort expired, abort stale | engine.abort | never undoes a commit; everything abandoned ends |
| trust lines `core/trustlines/service.py` | `trust_lines` | create, update, close | debts (read) | a debt never exceeds its line |
| clearing `core/clearing/service.py` | `debts`, CLEARING transactions, a pinned session holding the owner lock | find cycles, execute, replay, release | engine locks, prepare_locks (read) | nobody's net position moves; no reservation is undermined; a repeat clears nothing |
| ledger arithmetic `core/invariants.py`, `_apply_flow` | — | flow, netting, checks | — | order of flows is immaterial |
| router `core/payments/router.py` | shared graph and topology caches | build graph, find routes, max flow, invalidate | trust lines, debts, locks | routes fit the capacity seen; what a cache serves is bounded in age |
| run lifecycle `simulator/run_lifecycle.py`, `runtime_impl.py` | table of runs, owner's active run, heartbeat tasks, stored rows | create, pause, resume, stop, restart, fail, shutdown, reconcile | tick, storage | an owner's slot is kept; nothing runs that nobody knows of |
| tick `simulator/real_tick_*`, `real_payments_executor.py`, `commit_resolution.py` | staged payments, metrics, failure counters | plan, pay, commit, clear, decay, persist, announce | payment engine, clearing, event stream | what is announced is durable, once, in order |
| policies `adaptive_clearing_policy.py`, `trust_drift_engine.py` | windows, cooldowns, limit history | decide, grow, decay | tick, clearing | bounds and hysteresis hold; memory follows the limits |
| scenario events `inject_executor.py`, `cache_invalidator.py` | scenario in memory, fired events | inject debt, add participant, create line, freeze | database, router caches, viewers | an event is whole and applied once; memory follows the rows it was told of |
| viewers' actions `api/v1/simulator.py` | requests, seeding lock, scenario in memory | trustline-create, -update, -close, payment-real, clearing-real | trust lines, payments, clearing, event stream | answers are true; the view shows the lines |
| event stream `sse_broadcast.py` | event ids, replay buffer, bounded queues | publish, subscribe, replay, close | viewers | no event is skipped silently |
| authentication `core/auth`, `utils/security.py`, `api/deps.py` | challenges, revoked jti, request counters | challenge, login, refresh, rate limit | Redis or memory | a challenge or refresh token is used once |
| event bus and websocket `utils/event_bus.py`, `api/v1/websocket.py` | subscriptions, bounded queues | publish, deliver, subscribe again, close | payment service | in order, at most once, drops are counted |
| distributed lock `utils/distributed_lock.py` | a Redis key | lock, unlock | payments, clearing, integrity job | no foreign unlock |
| process `main.py` | background tasks, clients, health | start, supervise, shut down | recovery, integrity job | a dead job is visible; shutdown ends |
| integrity `core/integrity.py`, `api/v1/integrity.py` | checkpoints, audit rows, debts | checkpoint, verify, two repairs | invariant checks, router cache | a checksum is a function of the state; repairs heal |
| participants, equivalents, admin `core/participants`, `api/v1/admin.py` | rows, settings of the process, audit log | register, update, suspend, create, delete, patch, abort | payment engine | administrators' changes are audited; nothing is lost |
| balances, views, metrics, UIs | none of their own | queries | all | - |

The behaviours that are hard to test, and that the models are about:

* **A wait ends before the work does.** Every await of a payment is bounded by a timeout and
  can be cancelled. The unit of work it was waiting for may have been rolled back, or
  PostgreSQL may still be finishing its COMMIT.
* **Clean-up by `tx_id`.** Timed-out, cancelled and failed requests read the row back and
  abort it, whichever request inserted it.
* **Stale lists and stale clocks.** Recovery aborts from a list; `now()` is fixed when a
  transaction starts; a clearing candidate is found long before it is executed.
* **Edits that do not look at reservations.** Trust-line edits and freezes check debts (or
  nothing), never `prepare_locks`.
* **Workers die** at any await, with locks held or rows half way.
* **Two copies of one thing.** The simulator keeps its scenario in memory next to the rows,
  the router keeps graphs, the clients keep cursors; each is updated after the commit, by
  whoever made it.
* **Commits without an answer.** Ticks, clearings and administrators' changes must be resolved
  or accounted for when the acknowledgement is lost. Viewers' actions, scenario events and drift
  are not resolved: a durable change then stays unknown to the scenario in memory.
* **One database, one process, several runs.** Runs find rows of earlier runs, and their ticks
  interleave on the memory of one clearing policy.
* **Bounded things at their bounds.** Queues, buffers, maps, lock lifetimes, retry counts.

`PROJECT.json` lists these hazards one by one, with the source line where each bites and
the properties that would catch it.

## 2. Modules

| Module | Models | State |
|---|---|---|
| `Ledger` | arithmetic of debts: `_apply_flow`, `check_*`, neutrality | none |
| `HubState` | the rows all parts share; passage of time | `debt row status limit auto stamp tx flow lock aged cleared` |
| `PaymentEngine` | prepare, commit, abort as *outcome* (branch taken) and *effect* (rows written); advisory locks; units of work in flight | `inflight interlock` |
| `PaymentService` | one process per request, with every error path | `pc why reply pending nowOf faults` |
| `Recovery` | the two passes of the loop | `recPc recList` |
| `TrustLines` | create, update, close, the simulator's freeze | `suspended` |
| `Clearing` | search, interlock, execution, replay, release | `clrPc cand` |
| `Hub` | the composition, its fairness and its properties | all of the above |
| `MutualCredit` | what the hub promises: open, settle or cancel once, offset | `debt outcome flow` |
| `LedgerCheck` | the loop of commit over single flows, against its closed form | `start total d rest` |
| `EngineLocks` | owner, tx and segment locks as separate steps, with the preflight of abort and commit, batches of a tick and clearing, over two equivalents | `todo held op preflight attempt reserved` |
| `Routing` | `find_flow_routes` and `calculate_max_flow` over a residual graph | `graph through blocked avoid residual routes flow ...` |
| `GraphCache` | builds of graph and topology from a snapshot, everything that changes their rows, and what invalidates them or fails to | `gcache tcache due` and the rows of one line and of the opposite debt |
| `DistributedLock` | the Redis lock and its callers; Redis is external | `key lpc token drawn lapsed` |
| `BackgroundJobs` | process, supervised jobs, health and shutdown; composes `DistributedLock`; their theorems | `proc client task status result` |
| `RunLifecycle` | table of runs, heartbeats and artifact writers, overlapping stop calls, restart, pruning, rows, crash and reconciliation | `table state heartbeat writer stopping draining active stored ...` |
| `RealTick` | one run's heartbeat and its ticks, phase by phase, with shielded commits and their resolution | `tick pc staged durable told metrics ...` |
| `AdaptiveClearing` | the adaptive policy and its coordinator, shared by runs whose ticks interleave | `window last streak backoff active due ...` |
| `TrustDrift` | growth and decay of one limit in the order of the tick, with viewers between its transactions | `limit debt memory unheard snap target ...` |
| `ScenarioInject` | due events, their effects in an autoflush-free session, memory and viewers | `db tx mem seen fired strays ...` |
| `InteractActions` | viewers' line and payment actions, lazy seeding, memory and view | `line debt snap pc job seeded astray ...` |
| `InteractClearing` | a viewer's clearing request under cancellation | `open clearedBy counted told ...` |
| `SseBroadcast` | the event stream and its clients | `log oldest sub queue tail cursor ...` |
| `EventLog` | what the stream promises: a log and a cursor per reader | `log cursor` |
| `EventBus` | bus, callbacks, queues, sockets and their writers | `subs callbacks queue handler hand sent ...` |
| `Auth` | challenges, logins, refreshes, revocations in Redis or memory; their theorem | `challenge pc exp lapse ...` |
| `RateLimit` | the counters, in Redis or in a bounded map | `counters count expiry ...` |
| `AdminConfig` | patches of running settings with their required audit entry | `settings lock pc audit ...` |
| `Registry` | participants, equivalents, an administrator's changes, the engine's aborts and a scenario's freezes as overlapping transactions | `status profile equivalent lines payment audit silent snap ...` |
| `Integrity` | checkpoints, verification, the two repairs row by row; extends `Ledger` | `debt lines repair checkpoints ...` |
| `Database` | the parts around the debt tables: `EngineLocks`, `GraphCache`, `Routing`, `Integrity`, `LedgerCheck`; their properties | `part` and the variables of the parts |
| `Simulator` | the parts of a simulator run: `RunLifecycle`, `RealTick`, `AdaptiveClearing`, `TrustDrift`, `ScenarioInject`, `InteractActions`, `InteractClearing`, `SseBroadcast`, `EventBus`; their properties | `part` and the variables of the parts |
| `Services` | the services around the hub: `AdminConfig`, `Auth`, `RateLimit`, `DistributedLock`, `BackgroundJobs`, `Registry`; their properties | `part` and the variables of the parts |
| `MCHub`, `MCDatabase`, `MCSimulator`, `MCServices` | constants of the instances that TLC checks | |
| `MCProgress` | small instances with fairness, and the liveness properties | `part` and the variables of the parts |
| `Lemmas`, `HubProofs` | lemmas about sums, positions and queues that several proofs use; theorems about `Hub` | |
| `DatabaseProofs`, `SimulatorProofs`, `ServicesProofs` | theorems about the compositions | |
| `RegistryProofs` | theorems about `Registry`, which `ServicesProofs` uses through its instances, as it does those of `Auth` and `BackgroundJobs` | |

How state and actions of the hub correspond to the code:

* A debt function maps `<<debtor, creditor>>` to an amount; 0 is "no row", because the
  schema forbids non-positive amounts and the code deletes such rows. `row` counts
  deletions and so names the current row, as the primary key does in the code. Trust lines
  are indexed `<<creditor, debtor>>`. Amounts are whole numbers of the smallest unit.
* Every step that primes a database variable is one committed transaction. SERIALIZABLE
  makes that sound; what PostgreSQL refuses is `RetryUoW` or `DatabaseError`.
* The flows of a payment's routes are one function `flow[t]`. The code applies them one
  by one in the order of the locks; `LedgerCheck` shows that the order and the split over
  routes do not matter, so `ApplyFlows` is the closed form.
* `nowOf[r]` is the set of payments whose locks had expired when r's unit of work began:
  that is all `now()` is used for.
* `LeftInFlight` is what may be running when a caller stops waiting. It keeps the
  transaction's advisory locks (`TxLockFree`, `OwnerFree`) until it lands or dies. A commit
  in flight has run its checks already; PostgreSQL refuses its COMMIT when an edit that
  read the same debts changed a line under it (`StillSerializable`). A freeze reads no
  debts, so it does not stop the COMMIT, and a payment can land over a line that was
  frozen a moment before.
* `faults` counts interruptions, crashes and failing clean-ups; `MaxFaults` bounds them.
  `RetryUoW` is not counted. An interruption may come in the handlers too: it ends the request
  with its abort done or not, or takes it from one handler to the next (`CleanUpFails`). In the recovery
  loop a failing rollback ends the whole pass, not just one entry (`RecoverOneFails`).
* The signature, the parsing of amounts and the existence of parties are one action,
  `Refuse`. Routing settles on any element of `Routings[r]` or on none, so nothing depends
  on the router being right or its cache fresh.

The modules around the hub follow the same rules, with these choices of their own:

* **Steps.** What runs between two awaits of a task is one step of the event loop. A
  cancellation may arrive at every await; where the code shields or drains (tick commits,
  clearing commits, settings patches), so does the model. A database transaction is one step
  where its snapshot decides nothing else, and two steps (`snap`, then commit) in `Registry` and
  `Integrity`, whose properties are about what happens in between. There, a transaction
  that was overtaken on what it read is refused. SERIALIZABLE refuses fewer; what else it
  allows is equal to another order of whole transactions.
* `EngineLocks` takes hash keys to be distinct and leaves deadlock detection out, so that
  `NoWaitCycle` is the code's merit. `Routing` leaves the order of neighbours open, because
  the rows come in no order, so the search may return any shortest admissible path.
* `GraphCache` reduces the graph to one line and the opposite debt of its pair, whose
  offsetting adds to the capacity. All queries of a build read one snapshot, because sessions
  are SERIALIZABLE (`config.py:68`, `session.py:62`). Debts rise by payments and injected events and fall by
  clearings, repairs and payments the other way. A commit and its invalidations are
  separate steps (`due`), and an unanswered commit has no invalidation (`LoseAnswer`). What aborted
  and lapsed payments give back invalidates nothing and is counted in the entry (`released`).
* `RunLifecycle` does not see the state "stopping", which is entered and left between two awaits.
  A stop call waits for the heartbeat (`stopping`); then it clears the reference to the artifact
  writer and waits for the writer (`draining`), while a second stop, pruning and shutdown
  see a run without tasks. The shutdown makes stop calls of its own and waits for no others.
* `AdaptiveClearing` interleaves the ticks of several runs at each clearing, since the
  coordinator holds no lock while it awaits one. `crossed` records the equivalents that two runs were
  clearing at once.
* `ScenarioInject` distinguishes committed rows, flushed rows and objects of the session that
  a query does not see, because the session does not flush by itself. The database starts with the
  scenario's rows or with what earlier runs made of them. `strays` records what memory missed: such rows, and
  an event whose commit was durable and not answered.
* `InteractActions` and `TrustDrift` have one step for a commit and a later one for the memory.
  Commits may be unanswered in both. In `InteractActions` the request then ends as "unknown", and so
  does a payment answered with ENGINE_TIMEOUT or PAYMENT_REJECTED, which may be committed; `astray` records the
  pairs whose row memory never learned of. In `TrustDrift` viewers edit and pay between the
  tick's transactions, and `doubt` records that a commit was unanswered or overtook another that had not been heard of.
* `Registry` has the engine's own aborts and a scenario's freezes, which write no audit entry
  (`silent`).
* `EventBus` treats a publication as atomic: its only caller is the payment service in the
  loop's own thread. The access token of a socket is checked when it opens.
* `AdminConfig` counts a database commit that takes effect unanswered, or after the second
  cancellation, as an audit entry for a change that was never published. Settings are lost
  at a restart.
* Variables marked *history* record what a property needs and influence nothing.

Operators marked `Mutant:` are plausible errors in the definition that follows them. They
are used only to show that each property of a run can fail. The constants of the parts around the
hub satisfy an `...Assumption` each, which the module that instantiates them assumes.

## 3. Runs

The hub is one system over one database, so its parts run together (`MCHub`). The parts
around it share no variable with each other: their product would say no more than each
part does by itself. `Database`, `Simulator`, `Services` and `MCProgress` each gather several
instances. The variable `part`, chosen in `Init` and never changed, says which of
them a behaviour exercises; the variables of the others are `Off` (or, in `MCProgress`, stay as
they start). A property of such a module states for each part what its modules promise,
the part's type invariant included. `Simulator` has two runs, `simulator` for what drives a run and
`viewers` for what its viewers do and see; the constant `Parts` says which parts a run exercises.

| Run | Instance | Checks |
|---|---|---|
| `payments` | 3 participants, 2 payments, 3 requests (two share a tx_id), 1 fault | types, `LocksMatchState`, `OneOwner`, `InflightMatchesState`, `LedgerIsSumOfCommitted`, `ReplyIsTruthful`, `TerminalIsFinal` |
| `reservations` | 2 payments that lean on a shared edge and on a reverse debt, 1 clearing worker, 1 fault | `ReservationsCovered`, `ClearedRowsAreGone`, `NoMutualDebt`, refinement `KeepsPromise` |
| `lines` | 1 payment, every edit of two lines, a freeze, 2 faults | `LimitsRespected` |
| `liveness` | 2 requests with one tx_id, 2 faults, fairness | `PaymentsTerminate`, `RequestsAnswered` |
| `content_clash`, `timeout` | small instances of the hub | end in a counterexample: section 5 |
| `owner_runs` | the lifecycle of `simulator` | ends in a counterexample: section 5 |

The run `database`:

| Property | Parts and their instances | From the modules |
|---|---|---|
| `NoWaitCycle` | 3 sessions, 3 payments in 2 equivalents, two of them with a common segment | `EngineLocks` |
| `GraphsAreHonest` | a reader of the caches, 3 changes, each with its invalidation or without | `GraphCache`: `CachedGraphIsTrue` |
| `RoutesAreSound` | every capacity 0 or 1 on the lines of 4 participants, with policies, blocks and a participant to avoid; capacities up to 2 on 6 participants around a crossing | `Routing`: `RoutesCarryAmount`, `PolicyRespected`, `MaxFlowIsMinCut` |
| `RepairsHeal` | any debts and lines of two pairs; debts up to 2 of one pair with 2 repairs and 2 edits between them | `Integrity`: `NettingIsNeutral`, `RepairsHeal`, `RepairsOnlyForgive` |
| `CheckpointsTell` | 2 checkpoints around 2 edits, lines of one pair closed and opened again | `Integrity` |
| `CommitLoopIsExact` | any debts and flows up to 3 between two participants | `LedgerCheck`: `OrderIsImmaterial`, `PositionsFollowFlows` |

The run `simulator`:

| Property | Parts and their instances | From the modules |
|---|---|---|
| `RunsAreAccountedFor` | 2 runs of one owner, stopped by its user and by the shutdown at once, room for one record, 2 starts of the process | `RunLifecycle`: `ForgottenRunsAreIdle`, `StaleRunsReconciled`, `SlotIsKept` |
| `TickIsAtomic` | 2 ticks of 2 payments, a clearing, a decay, 2 faults, repeated cancellation | `RealTick`: `TickIsAtomic`, `VerdictIsTrue` |
| `ViewersHearTheTruth` | the same | `RealTick`: `AnnouncedIsDurable`, `DurableIsAnnounced`, `ToldOnceInOrder`, `ClearedIsTold` |
| `ClearingIsPaced` | 2 runs of 5 ticks and of 1, 2 equivalents of which a tick clears one, 3 configurations, one of them mistaken, one with a guardrail and one with a time budget | `AdaptiveClearing`: `DepthInBounds`, `BackoffHolds`, `HysteresisHolds` |
| `ClearingIsFair` | the same | `AdaptiveClearing`: `CapIsFair` |
| `DriftIsBounded` | 3 ticks on one line, paid over in and between the tick's transactions and edited by viewers, below and above the cap of growth | `TrustDrift`: `UncoveredOnlyAfterTheRead`, `MemoryFollowsLimit`, `DriftStaysInBounds` |

The run `viewers`:

| Property | Parts and their instances | From the modules |
|---|---|---|
| `EventsApplyOnce` | every list of two events of one or two effects, and longer ones; rows of the scenario alone, or with a newcomer, a line, a debt or a freeze of earlier runs; commits and flushes that fail, commits that are not answered | `ScenarioInject`: `AppliedOnce`, `MemoryHasRows`, `EdgesAreActiveLines`, `InjectedWithinLimit`, `InjectedWithinCap`, and, for scripts that satisfy `FreezesAreWhole`, `MemoryFollowsRows`, `ViewerSeesLines` |
| `ActionsAreTrue` | 3 requests, two at a time; lines left by earlier runs, commits that are not answered, payments that are not settled | `InteractActions`: `SeedPrecedesUse`, `LimitsCoverDebts`, `AnswersAreTrue`, and while none has `overlapped` another `SnapshotFollowsLines` |
| `ClearingIsAnnounced` | 2 requests, 3 cycles, failure and cancellation at every await | `InteractClearing`: `DurableIsAnnounced`, `AnnouncedAtMostOnce`, `AnswerTellsProgress` |
| `NoEventSkipped` | 2 clients, 5 events, a buffer of 3 and queues of 2, a broken connection | refinement of `EventLog` by `SseBroadcast` |
| `QueuesAreHonest` | the same; a socket with 3 publications and 3 subscriptions on a queue of 1 | `SseBroadcast`: `QueueHasRoom`; `EventBus`: `AtMostOnceInOrder`, `NothingVanishes`, `SubscriptionEndsWithSocket`, `OnlyWhatWasAsked` |

The run `services`:

| Property | Parts and their instances | From the modules |
|---|---|---|
| `RecordsAreAccountedFor` | six requests about an equivalent, six about a participant (one of them a scenario's freeze), six about a payment, which the engine may abort by itself, and a status; one answer lost | `Registry`: `AuditAccounts`, `SanctionsAreAudited`, `ProfilesKeepUpdates`, `RepliesHold`, `NoLineIsCascaded` |
| `SettingsAreAudited` | 2 requests about 2 flags, cancelled up to twice, a restart | `AdminConfig`: `ChangesAreAudited`, `NoUpdateLost` |
| `TokensAreSpentOnce` | 2 logins on one challenge, 2 refreshes, with Redis and without | `Auth`: `ChallengeGrantsOnce`, `SpentTokenIsRetired`, `SecondUseOverlapsFirst` |
| `LimitHolds` | 3 hosts and a map of 2; overlapping requests and failing EXPIRE | `RateLimit`: `LimitHolds`, `BusyHostsKeepTheirCounter` |
| `JobsAndLocksAreSafe` | 3 callers of one key; 2 processes with 2 jobs each | `DistributedLock`: `HolderKeepsKey`, `ExclusiveUnlessOverrun`; `BackgroundJobs`: `DeadJobDegradesHealth`, `ShutdownIsNoFailure`, `CleanupHasResources` |

The run `progress`, under the fairness below:

| Property | Parts and their instances | From the modules |
|---|---|---|
| `WorkGetsDone` | 2 sessions on 2 payments with a common segment, one retry; 2 clearing requests; 2 settings requests cancelled up to three times | `EngineLocks`, `InteractClearing` (`RequestsEnd`), `AdminConfig` (`LockIsReleased`) |
| `GraphConverges` | a reader of the caches and 2 changes | `GraphCache` |
| `EventsArrive` | 1 client, 4 events; a socket, 2 publications, 2 subscriptions | `SseBroadcast` (with `ClosedIsNoticed`), `EventBus` (`MessagesArrive`) |
| `StopsComplete` | a run over 2 starts with its stop calls; 2 ticks; a process with 2 jobs | `RunLifecycle` (`StopReturns`), `RealTick` (`CancelledHeartbeatEnds`), `BackgroundJobs` (`ShutdownCompletes`) |

Why the bounds are enough for the cases of interest. In the hub, three participants give a two-hop
route, a cycle of three and a reverse debt; the limits (2) are reached by two payments of
1, or by one of 2 that leaves no room for the other; two requests on one tx_id give every race of a client retry, and the third
request competes for an edge; one fault is enough for a lost, late or abandoned unit of work,
and two faults let the clean-up after it fail too. `SYMMETRY Retries` swaps the two
requests that have the same tx_id, content and routes. `CommitLoopIsExact` needs two participants
because flows over different pairs touch different rows. Elsewhere the bounds put each resource
past its limit: more events than the queue and the buffer hold and one after them, for which a
client that lost one would notice it; more hosts than counters; more callers than one lock;
more subscriptions than a writer has finished; a third session for two to meet at; a retry that
succeeds and one that gives up. Two runs, ticks, events, requests or checkpoints are
enough for one to find what another left. `RoutesAreSound` needs six participants for a maximum
flow, the smallest network in which a shortest path blocks two others and flow has to be taken
back. Sessions, runs and processes are interchangeable in their parts and declared symmetric; no
liveness run uses symmetry. The runs do not check for deadlock,
because the system may stop: when all requests are answered and no line is edited, nothing
has to happen. Waiting in a circle is `NoWaitCycle`, waiting for ever `WorkGetsDone`,
`RequestsAnswered` and `StopsComplete`.

`ReservationsCovered` is checked where no line is edited and `TTLCoversCommit` holds (a
lock's TTL, 30 s by default, outlasts a commit, which ends within the total payment timeout
of 10 s). Both are needed: edits ignore reservations, and a lock that lapses under a commit
in flight stops counting while its flows are still to come. In both cases the commit's own
limit check is what protects the limit, and `LimitsRespected` (run `lines`) covers
that without these assumptions.

**Fairness.** Requests run to their reply, strongly fair, because a unit of work that waits
for an advisory lock queues for it in PostgreSQL and is not overtaken for ever. PostgreSQL
ends what is in flight; time passes; the recovery loop iterates until shutdown and each of
its entries gets its turn; the pinned session of a clearing is released on every path.
Nothing is assumed of clearing's progress, of edits or of routing. Requests are not assumed
to start.

Outside the hub (`MCProgress`, where the fairness of a part binds the behaviours that exercise
it): an event loop runs its ready tasks, so streams, writers, heartbeats, jobs and requests
take their next step (weak fairness). Advisory locks are queued for in PostgreSQL (`Locks!Take`),
and a stop call goes on once what it waits for has ended (`Runs!StopJoined`, `Runs!WriterJoined`), even if
commands keep coming, whose rows may fill the bound on writes and disable it for a while; hence strong
fairness there. The wait for the writer is bounded by 2 s in the code. A database answers or the
connection breaks (`AdminConfig`, `RealTick`). Time passes in `GraphCache`, where convergence
is asked only once changes stop. No client is assumed to come back, no failure to stop by
itself.

## 4. Proofs

TLC checks the instances of section 3. TLAPS proves the following for every value of the
constants that satisfies the assumptions: any participants, payments, requests, sessions,
runs, ticks, faults and bounds.

| Module | Theorem | Statement |
|---|---|---|
| `HubProofs` | `TypeCorrect` | `Spec => []TypeOK` |
| | `ReservationsMatchState` | `Spec => []LocksMatchState` |
| | `DebtsAreNetted` | `Spec => []NoMutualDebt` |
| | `LimitsAreRespected` | `Spec => []LimitsRespected` |
| | `BooksBalance` | `Spec => []LedgerIsSumOfCommitted` |
| | `ReservationsStayCovered` | `Spec => []ReservationsCovered`, where no line is edited or frozen and `TTLCoversCommit` |
| | `SingleOwner` | `Spec => []OneOwner` |
| | `InflightIsolated` | `Spec => []InflightMatchesState` |
| | `RepliesAreTruthful` | `Spec => []ReplyIsTruthful` |
| | `ClearingNamesAreSpent` | `Spec => []ClearedRowsAreGone` |
| | `OutcomeIsFinal` | `Spec => TerminalIsFinal` |
| | `ImplementsMutualCredit` | `Spec => KeepsPromise`, the refinement of `MutualCredit` |
| `DatabaseProofs` | `LocksNeverCircle` | `Spec => []NoWaitCycle` |
| | `GraphsStayHonest` | `Spec => []GraphsAreHonest` |
| | `CommitsAreExact` | `Spec => []CommitLoopIsExact` |
| | `CheckpointsKeepTelling` | `Spec => []CheckpointsTell` |
| | `RepairsKeepHealing` | `Spec => RepairsHeal` |
| `SimulatorProofs` | `TicksStayAtomic` | `Spec => []TickIsAtomic` |
| | `ViewersStayInformed` | `Spec => []ViewersHearTheTruth` |
| | `ClearingStaysAnnounced` | `Spec => []ClearingIsAnnounced` |
| | `ActionsStayTrue` | `Spec => []ActionsAreTrue` |
| | `EventsStayApplied` | `Spec => []EventsApplyOnce` |
| | `RunsStayAccountedFor` | `Spec => RunsAreAccountedFor`, where `MaxPerOwner = 1` |
| | `DriftStaysBounded` | `Spec => DriftIsBounded` |
| | `NoEventIsSkipped` | `Spec => NoEventSkipped`, the refinement of `EventLog` |
| | `QueuesStayHonest` | `Spec => QueuesAreHonest` |
| | `ClearingStaysPaced` | `Spec => ClearingIsPaced` |
| `ServicesProofs` | `SettingsStayAudited` | `Spec => []SettingsAreAudited` |
| | `TokensStaySpent` | `Spec => []TokensAreSpentOnce` |
| | `JobsAndLocksStaySafe` | `Spec => []JobsAndLocksAreSafe` |
| | `RecordsStayAccountedFor` | `Spec => RecordsAreAccountedFor` |
| | `TheLimitHolds` | `Spec => []LimitHolds` |

`BackgroundJobs` (`HoldersKeepTheKey`, `JobsAreSupervised`), `Auth`
(`TokensSpentOnce`) and `RegistryProofs` (`RegistryIsAccountedFor`,
`DeletionCascadesNothing`) prove the same of the components by themselves; `ServicesProofs`
cites their lemmas through its instances. `Lemmas` holds what several of them need about sums,
sequences and numbers that wait in queues.

**Assumptions.** The hub: `HubAssumption` (finitely many participants and payments; initial
debts are netted and within active lines), `ServiceAssumption`, `TrustLinesAssumption`,
`ClearingAssumption` (types of the constants). The parts: the conjunction of their
`...Assumption`s, which give the constants their types and say besides that participants and
lines of `Integrity` and `LedgerCheck` are finite, that percentages of the drift are sensible
(a decay and a lower bound of at most 100, a cap of at least 100), that the effects and events of
a script are those the code does not skip as malformed (a pair of two participants, a positive
amount), that equivalents are numbered in the order of their codes, that the adaptive window has at
least one tick and its cooldown is not negative (below 1 the code has none), and that a name which
stands for "nobody", "no run" or the tick is no element. TLC evaluates all of them.

The hypotheses of single theorems are restrictions, not facts of every deployment.
`MaxPerOwner = 1` is the default (`config.py:154`); a slot does not hold two runs.
For `TTLCoversCommit` see section 3.

**The hub.** `DbStep` lists the ways the rows may change (insert, prepare, a *sound* commit,
abort, an edit, a clearing, time), and `NextIsDbStep` shows that every action of `Hub` is one
of them or leaves the rows alone. That is where the race matters: a commit in flight must
find its payment still PREPARED, so `InflightMatchesState` and `LocksMatchState` are
hypotheses. The invariants of the database (`DbInv`) then follow from `DbStep` alone, without
any case distinction on where each request is. The inductive invariant is

    IInv == types /\ DbInv /\ InflightMatchesState /\ OneOwner /\ ReplyIsTruthful

`LocksMatchState` is needed for limits and finality, because commit decides by state *and*
locks. `InflightMatchesState` is inductive only with `OneOwner`: a request may leave a commit
in flight only if no other request drives the payment, and clean-up by tx_id must be kept out
by the tx lock. `ReplyIsTruthful` needs `OneOwner` for the reply "rejected". `ClearedRowsAreGone` is
strengthened to `ClearedRowsDead`: each cleared set has a row whose generation has passed.
`LimitsRespected` rests on `ApplyFlowsNets`: flows change only the pairs they touch, and there
the commit has checked the limit. The refinement maps insert to `Open`, a sound commit to
`Settle`, an effective abort to `Cancel`, a clearing to `Clear` and everything else to a
stutter; it needs `IInv` to know that a commit comes from an open payment.

*Books.* A position is a sum over a set of participants, and the ledger one over a set of
payments. `Lemmas` proves what the library's sums do, without the induction rule over finite
sets, which the provers cannot use: of the subsets for which a claim fails there is a
smallest (`SmallestSubset`), and taking one element out of it refutes the claim. `InflowAdds` then says that
positions follow from the differences of the two rows of each pair and add up as these do. So a commit
moves every position by the flow of its payment (`ApplyFlowsMoves`), a clearing that is neutral
for its own participants is so for all (`NeutralForAll`), and the set of COMMITTED payments
grows by exactly the payment that was committed.

*Reservations.* `RInv` adds to `ReservationsCovered` that a prepare in flight still has room next
to all that is reserved, that a commit in flight still has its reservations, that units of
work agree on which locks have lapsed, and that the owner lock admits one unit of work in
flight or a clearing, never both.

**The database.** *Locks.* The fixed order of keys alone does not exclude a circle, because a terminal
unit of work takes its tx lock before it knows whether it needs more. `LocksInv` says that
every tx or segment lock is *guarded* by the owner lock of its equivalent: who holds one, or waits for
one, holds its guards, or holds nothing else at all. A circle could therefore consist only of waits for
owners, whose keys would have to rise all the way around (`NoCircle`).
*Graphs.* A request that no change has overtaken has seen the capacity as it is (`Fresh`). So a graph that is
wrong by more than what was released since it was stored, though no change was committed while it was built
and no answer lost, is about to be dropped (`ErrorIsDue`).
*Commit.* After the first flow over a pair one of its rows is zero, and the difference of the
two follows the flows applied (`CommitInv`); the closed form is the only pair of debts with both.
*Repairs and checkpoints.* `BookInv` keeps, for a repair in progress, that it only forgives,
that netting preserves the difference of each pair, and that rows it has visited are as it
wants them; a commit finds rows and lines as it read them. A list sorted by id is unique
(`SortedListsAgree`), so equal rows give equal checksums; an active line shows at the same
place in equal checksums, and there is one active line to a pair, hence equal limits.

**The simulator.** *Tick.* `TicksInv` relates, for each phase and each verdict on the tick's
commit, what is staged, durable and told; nothing of later ticks is durable or told, which makes announcements
appear once and in order over all ticks. *Clearing request.* What a request
counts is in the database and the other way round, and it announces nothing before its end.
*Viewers' actions.* Where a request is says whether its change is durable, and the lock of the
seeding excludes that the flag is set twice (`RequestFits`, `SeedingFits`). As long as no request
arrived while another was in progress, the view agrees with the lines except for the one change
that is committed and not yet taken over, and for the pairs that went `astray` (`ViewFits`): an
unanswered commit or a row of an earlier run spoils its own pair and no other.
*Events.* While an event is applied, the session covers the database and what memory will be
told (`SessionFits`). For an event without a freeze (`Grows`) and one of whole freezes (`Freezes`)
the session determines what the commit writes, and that is what memory and viewers are told. A
difference between memory and rows therefore arises only at the start or in an unanswered commit, and stays
where `strays` has it.
*Lifecycle.* `RunsInv` says that only runs of this start of the process are in memory or
have rows on their way; without it, an old write could make a reconciled row active again. A heartbeat
implies a referenced writer, a referenced writer that the run is in the table, and a writer that is
leaving that some stop call waits for it; so what pruning and shutdown forget is idle, or about to be. `WaitsInv` keeps
stop calls to runs that exist and to writers whose reference is cleared.
*Drift.* The tick pays within the limit, and will decay to no less than the debt it read (`TickInv`); so a
limit falls below its debt only by what was added since, or by growth that cuts a limit above the cap.
Unless there is doubt, at most one commit has not been heard of, and it made the limit (`Follows`). On a line no
viewer edits, limit, memory, what is to become either and what is owed stay between floor and cap
through all roundings (`BoundsInv`).
*Stream.* For a client with cursor k, what its outbox, its queue and its tail hold is ranked: it
rises, and starts above k (`Ranked`). It is also gapless (`Gapless`): an event the client is owed that lies between two
of these, or between a cursor and one of them, is among them, and a stream that lasts holds
all up to the end of the log. Where the stream is says which of the three may hold anything, and that the
queue of a subscription that is draining ends with the status made for it (`FitsPlace`), which is
why a replay and the events published meanwhile join without a gap. A replay is *the* ascending
listing of the events missed; that every finite set of numbers has one, and no other
(`InOrderLists`), is shown by a least counterexample.
*Bus.* Sent, in hand, queued and scheduled messages rise in this order (`InLine`), each is of a kind the
subscription asked for (`AsAsked`), and each that matched is on the way, sent or dropped by a full queue
(`NotLost`); a subscription that exists is its socket's latest, and the socket is open.
*Adaptive clearing.* `PaceInv` has three arguments. What a run noted of an equivalent is what the
policy remembers, unless another run has cleared it since, after waiting as long as the first would
have had to (`NotedAs`): the memory is shared by all runs and the interval is still kept. That holds of the equivalents
that no two runs were clearing at once, and an equivalent that has not been `crossed` is in the list of one
run only, which found it ready (`DueInv`). Only a full window switches an equivalent on, and windows never
shrink (`SwitchInv`).

**The services.** Tokens of the Redis lock are distinct, and a holder whose time has not run out
owns the key (`LockInv`). Where a process is bounds what its jobs can be doing and what is recorded of
those that are gone (`JobFits`). A login that commits closes its challenge; a revocation lasts as long
as its token, and a refresh that began after it is late (`AuthInv`). A registry request that commits has
read what is still there (`ReadIsPresent`), so what it writes and logs fits the present state.
One settings patch is at work at a time, and for the keys it was not asked about it writes the
values that are there (`WritesAreCurrent`). A Redis counter counts what was admitted and what waits
for its EXPIRE, and its key outlives its window (`KeySound`). In memory, a counter that is still
there counts what was admitted since it was inserted, and whoever was inserted later has been used
since (`MemoryRateInv`); so when the oldest falls out, as many others as the map holds have been.

Only model-checked:

* Liveness under fairness (`PaymentsTerminate`, `RequestsAnswered` and the run `progress`).
* `RoutesAreSound`: what the search finds rests on recursion over paths, and `MaxFlowIsMinCut`
  on an induction over them.
* `ClearingIsFair`: a count of the equivalents cleared while another waits. With runs that
  interleave it has to be kept over the unfinished ticks of all of them, which no invariant found so far does.

Three models changed because of their proofs. The counters of `RateLimit` are a map with the order of
insertion, as the code's dictionary is, where they were a sequence that was pruned. A replay of `SseBroadcast` is
an ordered listing. `AdaptiveClearing` was wrong: it lacked the guardrails and the time budget of
a tick, let the commit of the payments fail after a clearing, which it precedes, and claimed more
than the code keeps. Its rate of refusals was followed per run, although the runs share one memory, and
its bound on waiting counted ticks in which nothing was cleared at all; with three equivalents such
ticks break it. `HysteresisHolds` now speaks of the evaluations of all runs, and `CapIsFair` of
ticks in a row that clear another equivalent instead. Since its runs interleave, `BackoffHolds` and `CapIsFair`
except the equivalents that two runs were clearing at once.

## 5. Findings

Statements of the repository that the code does not keep. The first three have a run that ends
in a counterexample, and `PROJECT.json` quotes the statement:

* **`content_clash`**: the comment at `service.py:619` promises 409 for a tx_id with another
  payload. The read-back after a timeout or database error does not compare fingerprints, so
  a request that times out at its INSERT while another request holds its tx_id can be answered
  with the other one's committed payment.
* **`timeout`**: section 6.9 of the protocol document says that a timeout aborts. When the
  COMMIT in flight lands after the read-back, the abort is a no-op and the client is told
  "Payment timed out" for a COMMITTED payment. The money is right
  (`LedgerIsSumOfCommitted`); the reply leaves the outcome open and a repeat of the request
  learns it.
* **`owner_runs`**: the comment at `run_lifecycle.py:208` allows an owner one active run. A restart that is
  refused for the owner's other run has already set its own run running (line 449).

The others were met while modelling. Each is stated by a definition
that no run checks; TLC finds it violated when it is added to the part's instance, changed
as said here.

| Definition | Statement | What the code does |
|---|---|---|
| `Routing.BlockedAreAvoided` | `docs/en/02-protocol-spec.md:207`: "Disallow routes through specified participants" | the search compares an edge's blocks with the nodes inside the path so far, not with the node the edge starts from (`router.py:431`); `PolicyRespected` excepts that node |
| `GraphCache.NeverServeStale` | `service.py:960`: "never serve stale routing graphs" | a build that overlaps with a change stores its graph after the change's invalidation (`router.py:344`); `GraphConverges` says how long it lasts |
| `GraphCache.TopologyFollowsLines` | `router.py:39`: "invalidated via invalidate_cache() on trustline CRUD" | an injected event drops the graph and leaves the topology, which has no time to live (`cache_invalidator.py:14`) |
| `DistributedLock.Serialized` | `payment-integration.md:168`: a sender's payments are serialized through the Redis lock | it lapses under a holder that overruns it, and without Redis there is none; the engine's own locks do not rely on it |
| `Hub.OnlyActiveLinesUpdated` | `trustlines/service.py:287`: an update "requires an ACTIVE line" | the check refuses only closed ones; shown in the instance of the run `lines` |
| `RunLifecycle.ResumeContinues` | `acceptance-criteria.md:29`: after resume the generation of events goes on | a failed run has no heartbeat, and resume sets it running all the same (line 337) |
| `RealTick.RepeatedFailureEndsRun` | `scenarios-and-engine.md:600`: a failure that repeats takes the run to `error` | the payments phase resets the counter, so a tick that always fails later never ends the run (`real_payments_executor.py:812`) |
| `RealTick.FlushedIsStored` | `real_tick_persistence.py:146`: marking a tick flushed makes the final flush skip it | it is marked before the commit that stores it (line 150) |
| `AdaptiveClearing.RunsAreIndependent` | `adaptive-clearing-policy.md:129`: the controller's state is one run's | it is shared by all runs of the process (`real_tick_clearing_coordinator.py:46`) |
| `TrustDrift.LimitCoversDebt` | `trust_drift_engine.py:413`: "must never shrink limit below already-used debt" | decay uses debts read before the tick's payments (line 416); growth, capped, has no floor at all (line 277) and cuts a limit that a viewer set above the cap. `UncoveredOnlyAfterTheRead` says that these are the only two ways |
| `InteractActions.SnapshotFollowsLines` | `simulator.py:803`: lists "reflect create/close immediately" | two actions may update memory in the other order than they committed; shown without the condition on `overlapped` |
| `ScenarioInject.MemoryFollowsRows` | `test_scenario_inject_topology.py:1131`: "freeze_trustlines=false: trustlines NOT changed" | in memory they are frozen (`cache_invalidator.py:88`); shown without the condition `FreezesAreWhole` |

Observations without a statement to contradict, which the models show or had to leave out:

* `calculate_max_flow` from a participant to itself does not terminate; the request is left out.
* Two clearing requests may both count a clearing that one of them replayed.
* A scenario event whose flush fails and whose next effect is a debt is never marked, and is
  retried until the run fails. Ids of participants whose insert was rolled back stay known for
  the tick. A participant added without lines is not announced. An event that creates a line
  and freezes it leaves the row active and the memory frozen.
* A refresh token's last second may end between the check of its expiry and of its
  revocation. Overlapping refreshes of one token both succeed (`SecondUseOverlapsFirst` says that only
  overlapping ones do). Revocations kept in the process are forgotten at a restart. A
  challenge grants once because of SERIALIZABLE; READ COMMITTED would let it grant twice. The same
  holds of `NoLineIsCascaded`, `ProfilesKeepUpdates` and `RepairsOnlyForgive`.
* A rate-limit key whose EXPIRE fails never expires; it names its window, so nothing else is
  affected.
* Decay may raise a limit that a viewer set below its lower bound.
* Two runs that clear one equivalent at once may move `last_clearing_tick` back, and shorten the pause
  of either.
* An event, a viewer's action or a drift whose commit is durable and not answered changes the rows and not
  the scenario in memory, and nothing reconciles them. An event that finds rows of an earlier run skips
  them without telling memory.
* The two repairs heal in either order but not to the same debts: capping before netting may
  cut one side of a mutual debt that netting alone would have brought within its limit. Capping also
  deletes the debts of frozen lines, whose limit counts as zero.
* An inactive equivalent still accepts trust lines, and one that has ever been checkpointed
  cannot be deleted.

## 6. Not modelled, and the plan

Left out for good: presentation (UIs, snapshots for viewers, artifacts, visual patches),
logging and metrics, queries (balances, lists, admin views), cryptography, SQLite, scripts and
fixtures, schemas. The planner of the simulator's payments
draws at random from the scenario, so `RealTick` and `TrustDrift` let it draw anything. Fixture
runs replay files. Entries of the integrity audit log written by payments, clearing and line
edits are never read by them.

Assumed rather than modelled: PostgreSQL at SERIALIZABLE (the default of
`DB_POSTGRES_ISOLATION_LEVEL`), distinct advisory-lock hashes, one process per simulator. A clearing
or a tick whose commit is not answered *and* whose reconciliation fails as well
(`clearing/service.py:1805`) is left out of `InteractClearing` and `RealTick`: what such a request says is
open, and nothing in the process can tell.

What is left, in the order in which it is planned: a proof of `RoutesAreSound`, which needs an
induction over paths stated as a recursive function's least counterexample; a composition of `RealTick` with `InteractActions` over one database;
`RunLifecycle`'s rows with upserts that overtake each other.
