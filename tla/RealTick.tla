------------------------------ MODULE RealTick ------------------------------
(***************************************************************************)
(* One run of the simulator in real mode: its heartbeat task and the ticks *)
(* it makes (real_tick_orchestrator.py), with the payments of a tick       *)
(* (real_payments_executor.py, real_tick_payments_coordinator.py), the     *)
(* commits between the phases and what is announced after them             *)
(* (commit_resolution.py), the clearing (real_tick_clearing_coordinator.py,*)
(* real_clearing_engine.py), the decay of trust lines, the storage of the  *)
(* tick's metrics (real_tick_persistence.py) and the guards that fail the  *)
(* run.  Stop calls cancel the heartbeat at any time, twice if repeated.   *)
(***************************************************************************)
EXTENDS Naturals, Sequences, FiniteSets

CONSTANTS
    Planned,        \* payments planned for each tick
    Outcomes,       \* what a payment may end as
    MaxTicks,       \* bound: ticks of the run
    MaxTimeouts,    \* SIMULATOR_REAL_MAX_TIMEOUTS_PER_TICK, 0 for none
    MaxErrors,      \* SIMULATOR_REAL_MAX_ERRORS_TOTAL, 0 for none
    MaxFailures,    \* SIMULATOR_REAL_MAX_CONSEC_TICK_FAILURES, 0 for none
    WriteEvery,     \* ticks between two writes of the metrics
    ClearEvery,     \* ticks between two clearings, 0 for none
    MaxCycles,      \* bound: cycles cleared in one clearing
    MaxDecays,      \* bound: ticks in which trust lines decay
    MaxFaults       \* bound: database errors and cancelled statements

\* What the constants must satisfy; every instance assumes it.
TickAssumption ==
    /\ {Planned, MaxTicks, MaxTimeouts, MaxErrors, MaxFailures, ClearEvery,
        MaxCycles, MaxDecays, MaxFaults} \subseteq Nat
    /\ WriteEvery \in Nat \ {0}
    /\ Outcomes \subseteq {"committed", "rejected", "timeout", "error"}

VARIABLES
    tick,       \* run.tick_index
    pc,         \* where the heartbeat task is
    runState,   \* run.state
    cancels,    \* cancellations of the heartbeat task not yet raised in it
    result,     \* how each payment of this tick ended
    collected,  \* payments the executor's loop has received
    phase,      \* payments_phase is there for the handlers of a failure
    stopReq,    \* stop_requested
    verdict,    \* DeferredRealPaymentEffects._resolution
    commitErr,  \* how the COMMIT in hand failed
    staged,     \* payments in the open unit of work
    durable,    \* payments in the database
    told,       \* tx.updated and tx.failed, in the order they were sent
    errors,     \* run.errors_total
    failures,   \* run._real_consec_tick_failures
    inRow,      \* ticks that really failed one after the other
    cycles,     \* cycles the clearing in hand has cleared in the database
    owed,       \* cleared cycles no clearing.done has told of
    decays,     \* ticks in which trust lines decayed
    metrics,    \* the payload, the flushed mark and the rows of the metrics
    doubt,      \* ticks whose commit failed for its caller and took effect
    faults      \* faults so far

outcomes  == <<result, verdict>>
phaseVars == <<collected, phase, stopReq>>
payVars   == <<outcomes, phaseVars>>
dbVars    == <<staged, durable, commitErr, doubt>>
countVars == <<errors, failures, inRow>>
clearVars == <<cycles, owed>>
tickVars  == <<tick, pc, runState, cancels, payVars, dbVars, told, countVars,
               clearVars, decays, metrics, faults>>

Seqs == 1..Planned
Commits == {"commitClearing", "commitDecay", "commitTail"}
Undos == {"undoClearing", "undoDecay", "undoTail"}
\* Statements of the tick that a cancellation ends at once.
Open == {"open", "plan", "pay", "clearing", "decay", "tail", "audit"}

Pay(s) == <<tick, s>>
Recorded == {s \in Seqs : 1..s \subseteq collected}
Count(S, o) == Cardinality({s \in S : result[s] = o})

TickInit ==
    /\ tick = 0 /\ pc = "sleep" /\ runState = "running" /\ cancels = 0
    /\ result = [s \in Seqs |-> "none"] /\ collected = {} /\ phase = FALSE
    /\ stopReq = FALSE /\ verdict = "none" /\ commitErr = "none"
    /\ staged = {} /\ durable = {} /\ doubt = {} /\ told = <<>>
    /\ errors = 0 /\ failures = 0 /\ inRow = 0
    /\ cycles = 0 /\ owed = 0 /\ decays = 0 /\ faults = 0
    /\ metrics = [payload |-> 0, flushed |-> 0, rows |-> {}, staged |-> {}]

----------------------------------------------------------------------------
(* What is announced                                                       *)

\* One tx.updated or tx.failed for each recorded payment, in the order planned.
Tell(S) ==
    LET item(s) == [pay |-> Pay(s), as |-> result[s]]
        tell[s \in 0..Planned] ==
            IF s = 0 THEN <<>>
            ELSE IF s \in S THEN Append(tell[s - 1], item(s)) ELSE tell[s - 1]
    IN  told' = told \o tell[Planned]

\* Mutant: payments of an unknown outcome are announced as made.
ResolveUnknownAsCommit(v) ==
    IF verdict # "none" \/ ~phase THEN UNCHANGED <<verdict, told>>
    ELSE /\ verdict' = v
         /\ Tell({s \in Recorded : v # "rollback" \/ result[s] # "committed"})

\* _resolve: only the first verdict counts; only a commit announces payments.
Resolve(v) ==
    IF verdict # "none" \/ ~phase THEN UNCHANGED <<verdict, told>>
    ELSE /\ verdict' = v
         /\ Tell({s \in Recorded : v = "commit" \/ result[s] # "committed"})

\* What _resolve adds to errors_total.
ToldErrors ==
    IF verdict # "none" \/ ~phase THEN 0
    ELSE Count(Recorded, "timeout") + Count(Recorded, "error")

----------------------------------------------------------------------------
(* Failure of the run and the storage of its last metrics                  *)

Fault == faults < MaxFaults /\ faults' = faults + 1
Sound == UNCHANGED faults

\* flush_pending_storage; its writes may fail, and then nothing is marked.
Flush(m) ==
    IF m.payload = 0 \/ m.flushed >= m.payload THEN {m}
    ELSE {m, [m EXCEPT !.flushed = m.payload, !.rows = @ \cup {m.payload}]}

\* fail_run: nothing for a run that has ended; the caller is the heartbeat.
FailRun ==
    /\ runState' = IF runState \in {"stopped", "error"} THEN runState ELSE "error"
    /\ IF runState \in {"stopped", "error"} THEN UNCHANGED metrics
       ELSE metrics' \in Flush(metrics)
FailErrors == IF runState \in {"stopped", "error"} THEN 0 ELSE 1

----------------------------------------------------------------------------
(* The heartbeat                                                           *)

\* _heartbeat_loop, and tick_real_mode up to its session.
Wake ==
    /\ pc = "sleep" /\ runState = "running" /\ cancels = 0
    /\ tick < MaxTicks
    /\ tick' = tick + 1 /\ pc' = "open"
    /\ result' = [s \in Seqs |-> "none"] /\ collected' = {}
    /\ stopReq' = FALSE /\ phase' = FALSE /\ verdict' = "none"
    /\ UNCHANGED <<runState, cancels, dbVars, told, countVars, clearVars,
                   decays, metrics, faults>>

\* The loop sees that the run has ended, or its task is cancelled while it sleeps.
HeartbeatEnds ==
    /\ pc = "sleep"
    /\ runState \in {"stopped", "error"} \/ cancels > 0
    /\ pc' = "ended"
    /\ UNCHANGED <<tick, runState, cancels, payVars, dbVars, told, countVars,
                   clearVars, decays, metrics, faults>>

\* stop: the heartbeat is cancelled whatever it does, and again by a second stop.
StopRun ==
    /\ cancels < 2 /\ pc # "ended"
    /\ runState' = "stopped" /\ cancels' = cancels + 1
    /\ UNCHANGED <<tick, pc, payVars, dbVars, told, countVars, clearVars,
                   decays, metrics, faults>>

PauseRun ==
    /\ runState \in {"running", "paused"} /\ pc # "ended"
    /\ runState' = IF runState = "running" THEN "paused" ELSE "running"
    /\ UNCHANGED <<tick, pc, cancels, payVars, dbVars, told, countVars, clearVars,
                   decays, metrics, faults>>

\* stop, once the heartbeat has ended, flushes what is left of the metrics.
FlushAfterStop ==
    /\ pc = "ended"
    /\ metrics' \in Flush(metrics)
    /\ UNCHANGED <<tick, pc, runState, cancels, payVars, dbVars, told, countVars,
                   clearVars, decays, faults>>

\* clearing.done tells of all that was cleared.
TellCleared == cycles' = 0 /\ owed' = 0

\* A statement of the tick is cancelled: the session is closed, and with it
\* goes the unit of work; a clearing under way tells what it has cleared.
Interrupted ==
    /\ pc \in Open /\ cancels > 0
    /\ pc' = "ended" /\ cancels' = cancels - 1
    /\ staged' = {} /\ metrics' = [metrics EXCEPT !.staged = {}]
    /\ TellCleared
    /\ UNCHANGED <<tick, runState, payVars, durable, commitErr, doubt, told, countVars,
                   decays, faults>>

\* A statement raises: the handler of tick_real_mode takes over.
Raises ==
    /\ pc \in {"open", "plan", "pay"} /\ Fault
    /\ pc' = "abort"
    /\ UNCHANGED <<tick, runState, cancels, payVars, dbVars, told, countVars,
                   clearVars, decays, metrics>>

\* Seeding, participants, owner locks, due scenario events.
Prepare ==
    /\ pc = "open"
    /\ pc' = "plan"
    /\ UNCHANGED <<tick, runState, cancels, payVars, dbVars, told, countVars,
                   clearVars, decays, metrics, faults>>

\* run_payments_phase: the debts are read (or not), the payments planned and
\* a task started for each.
Plan ==
    /\ pc = "plan"
    /\ pc' = "pay"
    /\ UNCHANGED <<tick, runState, cancels, payVars, dbVars, told, countVars,
                   clearVars, decays, metrics, faults>>

----------------------------------------------------------------------------
(* Payments                                                                *)

\* _do_one: one payment at a time, in a savepoint of its own.
Execute(s, o) ==
    /\ pc = "pay" /\ result[s] = "none"
    /\ result' = [result EXCEPT ![s] = o]
    /\ staged' = IF o = "committed" THEN staged \cup {Pay(s)} ELSE staged
    /\ UNCHANGED <<tick, pc, runState, cancels, collected, phase, stopReq, verdict,
                   durable, commitErr, doubt, told, countVars, clearVars, decays, metrics, faults>>

\* The executor's loop receives a payment, in the order they end, and records
\* those whose predecessors are there; too many timeouts fail the run, once.
Collect(s) ==
    LET done  == collected \cup {s}
        known == {q \in Seqs : 1..q \subseteq done}
        over  == /\ MaxTimeouts > 0 /\ Count(known, "timeout") >= MaxTimeouts
                 /\ Count(Recorded, "timeout") < MaxTimeouts
    IN  /\ pc = "pay" /\ result[s] # "none" /\ s \notin collected
        /\ collected' = done
        /\ stopReq' = (stopReq \/ runState # "running" \/ over)
        /\ IF over THEN FailRun /\ errors' = errors + FailErrors
                   ELSE UNCHANGED <<runState, metrics, errors>>
        /\ UNCHANGED <<tick, pc, cancels, result, phase, verdict, dbVars, told,
                       failures, inRow, clearVars, decays, faults>>

\* The errors this tick will add to errors_total are too many already.
TooManyErrors ==
    /\ MaxErrors > 0 /\ ~stopReq /\ runState = "running"
    /\ errors + Count(Seqs, "timeout") + Count(Seqs, "error") >= MaxErrors

\* All received.  The failure counter is reset here, before the tick's commit.
PaymentsDone ==
    LET over == TooManyErrors
    IN  /\ pc = "pay" /\ collected = Seqs
        /\ phase' = TRUE /\ failures' = 0
        /\ stopReq' = (stopReq \/ runState # "running" \/ over)
        /\ IF over THEN FailRun /\ errors' = errors + FailErrors
                   ELSE UNCHANGED <<runState, metrics, errors>>
        /\ pc' = IF stopReq' THEN "unwind" ELSE "paid"
        /\ UNCHANGED <<tick, cancels, result, collected, verdict, dbVars, told,
                       inRow, clearVars, decays, faults>>

----------------------------------------------------------------------------
(* COMMIT and ROLLBACK under cancellation                                  *)

AfterCommit(at) ==
    CASE at = "commitClearing" -> "clearing"
      [] at = "commitDecay"    -> "tail"
      [] at = "commitTail"     -> "audit"

Undo(at) ==
    CASE at = "commitClearing" -> "undoClearing"
      [] at = "commitDecay"    -> "undoDecay"
      [] at = "commitTail"     -> "undoTail"

Land ==
    /\ durable' = durable \cup staged
    /\ metrics' = [metrics EXCEPT !.rows = @ \cup metrics.staged, !.staged = {}]

\* The commit ends well.  A cancellation that came meanwhile is raised only
\* now, after the payments have been announced.
CommitEnds ==
    /\ pc \in Commits
    /\ Land /\ staged' = {} /\ commitErr' = "none"
    /\ Resolve("commit") /\ errors' = errors + ToldErrors
    /\ IF cancels > 0 THEN pc' = "ended" /\ cancels' = cancels - 1
       ELSE pc' = AfterCommit(pc) /\ UNCHANGED cancels
    /\ UNCHANGED <<tick, runState, result, collected, phase, stopReq, doubt, failures,
                   inRow, clearVars, decays, faults>>

\* The commit raises, or a repeated cancellation ends it.  It may have taken
\* effect all the same: its answer was lost.
CommitFails(why, landed) ==
    /\ pc \in Commits /\ Fault
    /\ why = "cancelled" => cancels = 2
    /\ IF landed THEN Land /\ staged' = {} /\ doubt' = doubt \cup {tick}
       ELSE UNCHANGED <<durable, metrics, staged, doubt>>
    /\ commitErr' = IF landed /\ why = "error" THEN "lost" ELSE why
    /\ pc' = Undo(pc)
    /\ UNCHANGED <<tick, runState, cancels, payVars, told, countVars, clearVars,
                   decays>>

\* Mutant: a commit that was cancelled counts as rolled back.
VerdictOfCleanup(ok) == IF ok THEN "rollback" ELSE "unknown"

\* What a failed commit has come to: rolled back only if it raised by itself
\* and the rollback went well.
VerdictOf(ok) == IF ok /\ commitErr # "cancelled" THEN "rollback" ELSE "unknown"

\* The rollback of the session, and what the resolver makes of it.
RollBack(ok, v) ==
    /\ IF ok THEN Sound ELSE Fault
    /\ staged' = {}
    /\ Resolve(v)
    /\ UNCHANGED <<durable, commitErr, doubt>>

\* The rollback after a failed commit; then the cancellation or the commit's
\* error is raised.
UndoEnds(ok) ==
    /\ pc \in Undos
    /\ RollBack(ok, VerdictOf(ok)) /\ errors' = errors + ToldErrors
    /\ metrics' = [metrics EXCEPT !.staged = {}]
    /\ IF cancels > 0 THEN pc' = "ended" /\ cancels' = cancels - 1
       ELSE pc' = "abort" /\ UNCHANGED cancels
    /\ UNCHANGED <<tick, runState, result, collected, phase, stopReq,
                   failures, inRow, clearVars, decays>>

\* The payments phase asked to stop: the tick is rolled back and returns, and
\* its refused payments are announced.
UnwindEnds(ok) ==
    /\ pc = "unwind"
    /\ RollBack(ok, IF ok THEN "rollback" ELSE "unknown")
    /\ errors' = errors + ToldErrors
    /\ metrics' = [metrics EXCEPT !.staged = {}]
    /\ IF cancels > 0 THEN pc' = "ended" /\ cancels' = cancels - 1
       ELSE pc' = (IF ok THEN "sleep" ELSE "abort") /\ UNCHANGED cancels
    /\ inRow' = IF ok THEN 0 ELSE inRow
    /\ UNCHANGED <<tick, runState, result, collected, phase, stopReq, failures,
                   clearVars, decays>>

\* The handler of a failed tick: roll back, announce what can be, count, and
\* fail the run when it happened too often.
AbortEnds(ok) ==
    LET over == MaxFailures > 0 /\ failures + 1 >= MaxFailures /\ FailErrors = 1
        rolled == [metrics EXCEPT !.staged = {}]
    IN  /\ pc = "abort"
        /\ RollBack(ok, IF ok THEN "rollback" ELSE "unknown")
        /\ IF cancels > 0
           THEN /\ pc' = "ended" /\ cancels' = cancels - 1
                /\ errors' = errors + ToldErrors /\ metrics' = rolled
                /\ UNCHANGED <<runState, failures, inRow>>
           ELSE /\ pc' = "sleep" /\ UNCHANGED cancels
                /\ failures' = failures + 1 /\ inRow' = inRow + 1
                /\ errors' = errors + ToldErrors + IF over THEN 2 ELSE 1
                /\ runState' = IF over THEN "error" ELSE runState
                /\ metrics' \in IF over THEN Flush(rolled) ELSE {rolled}
        /\ UNCHANGED <<tick, result, collected, phase, stopReq, clearVars, decays>>

----------------------------------------------------------------------------
(* Clearing, decay, tail and audit                                         *)

\* maybe_run_clearing: every so many ticks, after a commit of the payments.
MaybeClear ==
    /\ pc = "paid"
    /\ pc' = IF ClearEvery > 0 /\ tick % ClearEvery = 0 THEN "commitClearing" ELSE "decay"
    /\ UNCHANGED <<tick, runState, cancels, payVars, dbVars, told, countVars,
                   clearVars, decays, metrics, faults>>

\* The clearing's loop goes on: time is left and a cycle was found.
MayClear == pc = "clearing" /\ cycles < MaxCycles

\* execute_clearing_with_amount commits a cycle in the clearing's own session.
ClearCycle ==
    /\ MayClear
    /\ cycles' = cycles + 1 /\ owed' = owed + 1
    /\ UNCHANGED <<tick, pc, runState, cancels, payVars, dbVars, told, countVars,
                   decays, metrics, faults>>

\* A failure ends the clearing; what was cleared before it is told of.
ClearingFails ==
    /\ pc = "clearing" /\ Fault
    /\ errors' = errors + 1
    /\ TellCleared
    /\ pc' = "decay"
    /\ UNCHANGED <<tick, runState, cancels, payVars, dbVars, told, failures, inRow,
                   decays, metrics>>

\* No cycle is left, the budget is spent, or the hard timeout cancels the
\* clearing, which tells what it has cleared before the tick goes on.
ClearingEnds ==
    /\ pc = "clearing"
    /\ TellCleared
    /\ pc' = "decay"
    /\ UNCHANGED <<tick, runState, cancels, payVars, dbVars, told, countVars,
                   decays, metrics, faults>>

\* apply_trust_decay: a commit of its own, only when a line has decayed.
Decay(any) ==
    /\ pc = "decay"
    /\ IF any THEN decays < MaxDecays /\ decays' = decays + 1 /\ pc' = "commitDecay"
              ELSE UNCHANGED decays /\ pc' = "tail"
    /\ UNCHANGED <<tick, runState, cancels, payVars, dbVars, told, countVars,
                   clearVars, metrics, faults>>

\* persist_tick_tail: the metrics join the unit of work; the tick is marked
\* flushed when they were written, before the commit that makes them durable.
Persist(wrote) ==
    LET due == tick % WriteEvery = 0
    IN  /\ pc = "tail"
        /\ metrics' = [metrics EXCEPT
               !.payload = tick,
               !.staged  = IF due /\ wrote THEN @ \cup {tick} ELSE @,
               !.flushed = IF due /\ wrote THEN tick ELSE @]
        /\ IF wrote THEN Sound ELSE Fault
        /\ pc' = "commitTail"
        /\ UNCHANGED <<tick, runState, cancels, payVars, dbVars, told, countVars,
                       clearVars, decays>>

\* The audit only reads; a drift it finds is logged in a commit of its own.
Audit ==
    /\ pc = "audit"
    /\ pc' = "sleep" /\ inRow' = 0
    /\ UNCHANGED <<tick, runState, cancels, payVars, dbVars, told, errors, failures,
                   clearVars, decays, metrics, faults>>

TickNext ==
    \/ Wake \/ HeartbeatEnds \/ StopRun \/ PauseRun \/ FlushAfterStop
    \/ Interrupted \/ Raises \/ Prepare \/ Plan
    \/ \E s \in Seqs : Collect(s) \/ \E o \in Outcomes : Execute(s, o)
    \/ PaymentsDone \/ CommitEnds
    \/ \E why \in {"error", "cancelled"}, landed \in BOOLEAN : CommitFails(why, landed)
    \/ \E ok \in BOOLEAN : UndoEnds(ok) \/ UnwindEnds(ok) \/ AbortEnds(ok)
    \/ MaybeClear \/ ClearCycle \/ ClearingFails \/ ClearingEnds
    \/ \E any \in BOOLEAN : Decay(any)
    \/ \E wrote \in BOOLEAN : Persist(wrote)
    \/ Audit

\* The event loop runs a task that can go on; the database answers.
HeartbeatGoesOn ==
    \/ Interrupted \/ HeartbeatEnds \/ Prepare \/ Plan \/ PaymentsDone \/ MaybeClear
    \/ ClearingEnds \/ Decay(FALSE) \/ Persist(TRUE) \/ Audit \/ CommitEnds
    \/ UndoEnds(TRUE) \/ UnwindEnds(TRUE) \/ AbortEnds(TRUE)
    \/ \E s \in Seqs : Collect(s) \/ \E o \in Outcomes : Execute(s, o)

TickSpec == TickInit /\ [][TickNext]_tickVars /\ WF_tickVars(HeartbeatGoesOn)

----------------------------------------------------------------------------
(* Properties                                                              *)

Pays == (1..MaxTicks) \X Seqs
Paid == {told[i].pay : i \in {j \in DOMAIN told : told[j].as = "committed"}}
Accepted == {Pay(s) : s \in {q \in Seqs : result[q] = "committed"}}

\* Each variable has its type.
TickTypeOK ==
    /\ tick \in 0..MaxTicks /\ runState \in {"running", "paused", "stopped", "error"}
    /\ pc \in Open \cup Commits \cup Undos \cup {"sleep", "paid", "unwind", "abort", "ended"}
    /\ cancels \in 0..2 /\ collected \subseteq Seqs
    /\ result \in [Seqs -> Outcomes \cup {"none"}]
    /\ verdict \in {"none", "commit", "rollback", "unknown"}
    /\ commitErr \in {"none", "error", "cancelled", "lost"}
    /\ phase \in BOOLEAN /\ stopReq \in BOOLEAN
    /\ staged \subseteq Pays /\ durable \subseteq Pays /\ doubt \subseteq 1..MaxTicks
    /\ {errors, failures, inRow, cycles, owed, decays, faults} \subseteq Nat
    /\ metrics \in [payload : 0..MaxTicks, flushed : 0..MaxTicks,
                    rows : SUBSET (1..MaxTicks), staged : SUBSET (1..MaxTicks)]

\* DeferredRealPaymentEffects: a payment announced as made (tx.updated, the
\* run's committed_total) is in the database, whatever failed or was cancelled.
AnnouncedIsDurable == Paid \subseteq durable

\* The other way round, over every tick of the run: a payment in the database
\* that was not announced is of a tick whose commit failed for its caller.
DurableIsAnnounced ==
    \A p \in durable \ Paid : p[1] \in doubt

\* _resolve applies the effects of a tick once and in the order planned,
\* although its phases commit up to three times and its handlers roll back.
ToldOnceInOrder ==
    \A i, j \in DOMAIN told : i < j =>
        LET a == told[i].pay b == told[j].pay
        IN  a[1] < b[1] \/ (a[1] = b[1] /\ a[2] < b[2])

\* The payments of a tick are in the database together or not at all, and a
\* refused one never is.
TickIsAtomic ==
    LET mine == {p \in durable : p[1] = tick}
    IN  mine = {} \/ (mine = Accepted /\ pc # "pay")

\* resolve_commit_under_cancellation: "rolled back" is said of a commit that
\* did not take effect; one that was cancelled is "unknown".  Only an answer
\* that was lost on its way makes an exception.
VerdictIsTrue ==
    /\ verdict = "commit" => Accepted \subseteq durable
    /\ (verdict = "rollback" /\ commitErr # "lost") => Accepted \cap durable = {}

\* real_clearing_engine tells of every cycle it cleared, also when it fails,
\* runs out of time or is cancelled half way.
ClearedIsTold == pc # "clearing" => owed = 0

\* Whatever it does, a heartbeat that was cancelled ends.
CancelledHeartbeatEnds == (cancels > 0) ~> (pc = "ended")

\* docs/ru/simulator/scenarios-and-engine.md: a tick that keeps failing takes
\* the run to the state "error".
\* (The code does not keep this: README, section 5.)
RepeatedFailureEndsRun ==
    (pc = "sleep" /\ inRow >= MaxFailures) => runState # "running"

\* real_tick_persistence.py: a tick whose payments are in the database and
\* whose metrics are marked flushed has its metrics in the database.
\* (The code does not keep this: README, section 5.)
FlushedIsStored ==
    (pc = "sleep" /\ \E p \in durable : p[1] = metrics.flushed)
        => metrics.flushed \in metrics.rows
=============================================================================
