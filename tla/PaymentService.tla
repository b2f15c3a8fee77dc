--------------------------- MODULE PaymentService ---------------------------
(***************************************************************************)
(* app/core/payments/service.py: one process per payment request, from the *)
(* idempotency lookup to the reply.  Several requests may carry the same   *)
(* tx_id (a client retry).  A request can be timed out, cancelled, hit by  *)
(* a database error, or die with its worker at any await; a unit of work   *)
(* it was waiting for may then have been rolled back or be left in flight. *)
(***************************************************************************)
EXTENDS PaymentEngine

CONSTANTS
    Requests,   \* HTTP requests that create a payment
    TxOf,       \* the tx_id each of them carries
    ContentOf,  \* the fingerprint of its signed fields
    Routings,   \* per request, the flows that routing may settle on
    MaxFaults   \* bound: interruptions, crashes and failed clean-ups

ASSUME ServiceAssumption ==
    /\ TxOf \in [Requests -> Payments]
    /\ ContentOf \in [Requests -> Contents]
    /\ Routings \in [Requests -> SUBSET [Pairs -> Nat]]
    /\ MaxFaults \in Nat

VARIABLES
    pc,         \* where each request is
    why,        \* the reply a request in clean-up is going to give
    reply,      \* the reply given, "none" before it
    pending,    \* requests that left their INSERT in flight
    nowOf,      \* what now() told the request's current unit of work
    faults      \* faults so far

serviceVars == <<pc, why, reply, pending, nowOf, faults>>

Failures == {"rejected", "timeout", "cancelled", "error"}
Replies  == Failures \cup {"none", "refused", "no_route", "in_progress",
                          "conflict", "committed", "aborted"}
PCs      == {"start", "routing", "preparing", "committing", "reading",
             "aborting", "done", "crashed"}

ServiceInit ==
    /\ pc     = [r \in Requests |-> "start"]
    /\ why    = [r \in Requests |-> "error"]
    /\ reply  = [r \in Requests |-> "none"]
    /\ pending = {}
    /\ nowOf  = [r \in Requests |-> {}]
    /\ faults = 0

Goto(r, next) == pc' = [pc EXCEPT ![r] = next] /\ UNCHANGED <<why, reply>>

\* The next unit of work of r starts here.
Begin(r, next) ==
    /\ Goto(r, next)
    /\ nowOf' = [nowOf EXCEPT ![r] = Lapsed']

Answer(r, ans) ==
    /\ pc'    = [pc EXCEPT ![r] = "done"]
    /\ reply' = [reply EXCEPT ![r] = ans]
    /\ UNCHANGED <<why, nowOf>>

CleanUp(r, step, ans) ==
    /\ pc'  = [pc EXCEPT ![r] = step]
    /\ why' = [why EXCEPT ![r] = ans]
    /\ UNCHANGED <<reply, nowOf>>

Fault == faults < MaxFaults /\ faults' = faults + 1

\* Mutant: the stored state is the answer, whatever it is.
StoredState(r) ==
    IF stamp[TxOf[r]] # {ContentOf[r]} THEN "conflict" ELSE tx[TxOf[r]]

\* _resolve_existing_payment: the row answers only a replay of the request
\* that made it.
StoredResult(r) ==
    LET t == TxOf[r]
    IN  CASE stamp[t] # {ContentOf[r]}                          -> "conflict"
          [] stamp[t] = {ContentOf[r]} /\ tx[t] \in ActiveTx   -> "in_progress"
          [] stamp[t] = {ContentOf[r]} /\ tx[t] = "COMMITTED"  -> "committed"
          [] stamp[t] = {ContentOf[r]} /\ tx[t] = "ABORTED"    -> "aborted"

\* A malformed amount, an unknown party or equivalent, or a bad signature.
Refuse(r) ==
    /\ pc[r] = "start"
    /\ Answer(r, "refused")
    /\ UNCHANGED <<dbVars, engineVars, pending, faults>>

\* The idempotency lookup before routing.
Lookup(r) ==
    /\ pc[r] = "start"
    /\ IF tx[TxOf[r]] = "absent"
       THEN Goto(r, "routing") /\ UNCHANGED nowOf
       ELSE Answer(r, StoredResult(r))
    /\ UNCHANGED <<dbVars, engineVars, pending, faults>>

NoRoute(r) ==
    /\ pc[r] = "routing"
    /\ Answer(r, "no_route")
    /\ UNCHANGED <<dbVars, engineVars, pending, faults>>

\* Mutant: tx_id is not unique.
InsertDuplicate(r) ==
    /\ tx' = [tx EXCEPT ![TxOf[r]] = "NEW"]
    /\ stamp' = [stamp EXCEPT ![TxOf[r]] = {ContentOf[r]}]
    /\ \E f \in Routings[r] : flow' = [flow EXCEPT ![TxOf[r]] = f]
    /\ UNCHANGED <<debt, row, status, limit, auto, lock, aged, cleared>>

\* The NEW row, with the routes it settled on.
InsertEffect(r) ==
    /\ tx[TxOf[r]] = "absent"
    /\ tx' = [tx EXCEPT ![TxOf[r]] = "NEW"]
    /\ stamp' = [stamp EXCEPT ![TxOf[r]] = {ContentOf[r]}]
    /\ \E f \in Routings[r] : flow' = [flow EXCEPT ![TxOf[r]] = f]
    /\ UNCHANGED <<debt, row, status, limit, auto, lock, aged, cleared>>

\* tx_id is unique: a duplicate waits for an INSERT still in flight.
MayInsert(r) == \A s \in pending : TxOf[s] # TxOf[r]

\* INSERT of the NEW row; the loser of a race resolves the winner's row.
Insert(r) ==
    /\ pc[r] = "routing"
    /\ MayInsert(r)
    /\ \/ InsertEffect(r) /\ Begin(r, "preparing")
       \/ tx[TxOf[r]] # "absent" /\ Answer(r, StoredResult(r)) /\ UNCHANGED dbVars
    /\ UNCHANGED <<engineVars, pending, faults>>

InsertLands(r) ==
    /\ r \in pending
    /\ InsertEffect(r)
    /\ pending' = pending \ {r}
    /\ UNCHANGED <<engineVars, pc, why, reply, nowOf, faults>>

InsertDies(r) ==
    /\ r \in pending
    /\ pending' = pending \ {r}
    /\ UNCHANGED <<dbVars, engineVars, pc, why, reply, nowOf, faults>>

Prepare(r) ==
    LET t == TxOf[r]
        outcome == PrepareOutcome(t, nowOf[r])
    IN  /\ pc[r] = "preparing"
        /\ OwnerFree
        /\ \/ /\ outcome \in {"ok", "noop"}
              /\ IF outcome = "ok" THEN PrepareEffect(t) ELSE UNCHANGED dbVars
              /\ Begin(r, "committing")
           \/ /\ outcome \notin {"ok", "noop"}
              /\ CleanUp(r, "aborting",
                         IF outcome = "not_found" THEN "error" ELSE "rejected")
              /\ UNCHANGED dbVars
        /\ UNCHANGED <<engineVars, pending, faults>>

(***************************************************************************)
(* An expired lock is aborted inside the unit of work; a failed integrity  *)
(* check rolls it back and aborts in a new one, which the service repeats: *)
(* both abort calls are the one step Abort.                                *)
(***************************************************************************)
Commit(r) ==
    LET t == TxOf[r]
        outcome == CommitOutcome(t, nowOf[r])
    IN  /\ pc[r] = "committing"
        /\ EngineLocksFree(t)
        /\ \/ /\ outcome \in {"ok", "noop"}
              /\ IF outcome = "ok" THEN CommitEffect(t) ELSE UNCHANGED dbVars
              /\ Answer(r, "committed")
           \/ /\ outcome \in {"expired", "conflict", "violation"}
              /\ IF outcome = "expired" THEN AbortEffect(t) ELSE UNCHANGED dbVars
              /\ CleanUp(r, "aborting", "rejected")
           \/ /\ outcome \in {"not_found", "no_locks"}
              /\ CleanUp(r, "reading", "error")
              /\ UNCHANGED dbVars
        /\ UNCHANGED <<engineVars, pending, faults>>

\* _run_uow_with_retry: a serialization failure or deadlock rolls the unit of
\* work back and starts it again, with a new now().
RetryUoW(r) ==
    /\ pc[r] \in {"preparing", "committing"}
    /\ nowOf[r] # Lapsed
    /\ nowOf' = [nowOf EXCEPT ![r] = Lapsed]
    /\ UNCHANGED <<dbVars, engineVars, pc, why, reply, pending, faults>>

\* What may be left in flight when r stops waiting at its current await.
LeftInFlight(r) ==
    LET t == TxOf[r]
    IN  \/ UNCHANGED <<inflight, pending>>
        \/ /\ pc[r] = "routing" /\ tx[t] = "absent" /\ MayInsert(r)
           /\ pending' = pending \cup {r}
           /\ UNCHANGED inflight
        \/ /\ pc[r] = "preparing" /\ OwnerFree
           /\ PrepareOutcome(t, nowOf[r]) = "ok"
           /\ inflight' = [inflight EXCEPT ![t] = "prepare"]
           /\ UNCHANGED pending
        \/ /\ pc[r] = "committing" /\ OwnerFree
           /\ CommitOutcome(t, nowOf[r]) = "ok"
           /\ inflight' = [inflight EXCEPT ![t] = "commit"]
           /\ UNCHANGED pending

\* asyncio.TimeoutError (also a bounded advisory-lock wait) or CancelledError:
\* before the INSERT nothing is to be cleaned up; from then on the clean-up is
\* keyed by tx_id, whichever request inserted the row.
Interrupt(r, kind) ==
    /\ Fault
    /\ \/ pc[r] = "routing" /\ Answer(r, kind)
          /\ UNCHANGED <<inflight, pending>>
       \/ /\ pc[r] \in {"routing", "preparing", "committing"}
          /\ LeftInFlight(r)
          /\ CleanUp(r, "reading", kind)
    /\ UNCHANGED <<dbVars, interlock>>

\* A database error: at INSERT it leaves at once, at prepare it aborts, at
\* commit it reads before it aborts.
DatabaseError(r) ==
    /\ Fault
    /\ LeftInFlight(r)
    /\ \/ pc[r] = "routing" /\ Answer(r, "error")
       \/ pc[r] = "preparing" /\ CleanUp(r, "aborting", "error")
       \/ pc[r] = "committing" /\ CleanUp(r, "reading", "error")
    /\ UNCHANGED <<dbVars, interlock>>

\* The owner locks the commit needs changed under it once per attempt: it gives
\* up as a conflict, having written nothing.
OwnerSetChanged(r) ==
    /\ pc[r] = "committing"
    /\ Fault
    /\ CleanUp(r, "aborting", "rejected")
    /\ UNCHANGED <<dbVars, engineVars, pending>>

\* Mutant: a PREPARED payment is taken for a committed one.
ReadBackHopeful(r) ==
    /\ pc[r] = "reading"
    /\ IF tx[TxOf[r]] \in {"PREPARED", "COMMITTED"}
       THEN Answer(r, IF why[r] = "cancelled" THEN "cancelled" ELSE "committed")
       ELSE CleanUp(r, "aborting", why[r])
    /\ UNCHANGED <<dbVars, engineVars, pending, faults>>

\* Mutant: the clean-up waits for the commit instead of aborting.
ReadBackWaits(r) ==
    /\ pc[r] = "reading"
    /\ tx[TxOf[r]] = "COMMITTED"
    /\ Answer(r, IF why[r] = "cancelled" THEN "cancelled" ELSE "committed")
    /\ UNCHANGED <<dbVars, engineVars, pending, faults>>

\* Read before abort: the commit may have taken effect unseen.
ReadBack(r) ==
    /\ pc[r] = "reading"
    /\ IF tx[TxOf[r]] = "COMMITTED"
       THEN Answer(r, IF why[r] = "cancelled" THEN "cancelled" ELSE "committed")
       ELSE CleanUp(r, "aborting", why[r])
    /\ UNCHANGED <<dbVars, engineVars, pending, faults>>

Abort(r) ==
    /\ pc[r] = "aborting"
    /\ EngineLocksFree(TxOf[r])
    /\ AbortEffect(TxOf[r])
    /\ Answer(r, why[r])
    /\ UNCHANGED <<engineVars, pending, faults>>

\* The clean-up itself does not end: rollback, read or abort raises, or the deadline
\* or a cancellation meets the handlers of a refused prepare or commit (those of a
\* timeout and of a cancellation are drained), the abort having taken effect or not.
CleanUpFails(r) ==
    /\ pc[r] \in {"reading", "aborting"}
    /\ Fault
    /\ \/ UNCHANGED dbVars
       \/ pc[r] = "aborting" /\ EngineLocksFree(TxOf[r]) /\ AbortEffect(TxOf[r])
    /\ \/ Answer(r, IF why[r] = "cancelled" THEN "cancelled" ELSE "error")
       \/ /\ why[r] \in {"rejected", "error"}
          /\ \E kind \in {"timeout", "cancelled"} : CleanUp(r, "reading", kind)
    /\ UNCHANGED <<engineVars, pending>>

\* The worker dies; nothing runs for r any more.
Crash(r) ==
    /\ pc[r] \notin {"start", "done", "crashed"}
    /\ Fault
    /\ LeftInFlight(r)
    /\ Goto(r, "crashed")
    /\ UNCHANGED <<dbVars, interlock, nowOf>>

RequestStep(r) ==
    \/ Refuse(r) \/ Lookup(r) \/ NoRoute(r) \/ Insert(r) \/ Prepare(r) \/ Commit(r)
    \/ ReadBack(r) \/ Abort(r)
=============================================================================
