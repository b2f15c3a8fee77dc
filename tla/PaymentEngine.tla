---------------------------- MODULE PaymentEngine ----------------------------
(***************************************************************************)
(* app/core/payments/engine.py: prepare / prepare_routes, commit and abort *)
(* as units of work on the shared rows.  Each operation is an outcome, the *)
(* branch the code takes on the rows it reads, and an effect, the rows it  *)
(* writes.  old is the set of payments whose locks had expired at now(),   *)
(* which PostgreSQL fixes when the unit of work starts.                    *)
(***************************************************************************)
EXTENDS HubState

VARIABLES
    inflight,   \* the unit of work PostgreSQL is still finishing for a payment
                \* whose caller stopped waiting for it
    interlock   \* clearing sessions that hold the equivalent's owner lock

engineVars == <<inflight, interlock>>

InflightKinds == {"none", "prepare", "commit"}

EngineInit ==
    /\ inflight  = [t \in Payments |-> "none"]
    /\ interlock = {}

\* Mutant: the tx lock is not taken.
TxLockIgnored(t) == inflight[t] \in InflightKinds

(***************************************************************************)
(* Advisory locks.  prepare, commit and abort hold the payment's tx lock   *)
(* to the end of their transaction, and the equivalent's owner lock when   *)
(* they touch reservations; clearing holds the owner lock in its session.  *)
(* A unit of work left in flight keeps what it holds.                      *)
(***************************************************************************)
TxLockFree(t) == inflight[t] \notin {"prepare", "commit"}
OwnerFree     == interlock = {} /\ \A t \in Payments : TxLockFree(t)

\* commit and abort lock the owner only when their preflight finds reservations.
EngineLocksFree(t) == TxLockFree(t) /\ (lock[t] # "none" => OwnerFree)

AvailableCapacity(e) == ActiveLimit(Flip(e)) - debt[e] + debt[Flip(e)]

\* Mutant: reservations of other payments are not counted.
ReservedIgnored(t, e, old) == 0

\* Reservations of other payments over the same directed edge.
ReservedUsage(t, e, old) ==
    SumFunctionOnSet([u \in Payments |-> flow[u][e]],
                     {u \in Payments \ {t} : lock[u] # "none" /\ u \notin old})

SufficientCapacity(t, old) ==
    \A e \in Pairs : flow[t][e] > 0 =>
        AvailableCapacity(e) >= flow[t][e] + ReservedUsage(t, e, old)

\* Mutant: a payment aborted in the meantime may still be prepared.
PrepareRevives(t, old) ==
    CASE tx[t] = "absent"                          -> "not_found"
      [] tx[t] = "COMMITTED"                       -> "noop"
      [] lock[t] # "none" /\ tx[t] = "PREPARED"    -> "noop"
      [] lock[t] # "none" /\ tx[t] # "PREPARED"    -> "conflict"
      [] lock[t] = "none" /\ tx[t] \in {"NEW", "PREPARED", "ABORTED"} ->
           IF SufficientCapacity(t, old) THEN "ok" ELSE "insufficient"

PrepareOutcome(t, old) ==
    CASE tx[t] = "absent"                          -> "not_found"
      [] tx[t] = "COMMITTED"                       -> "noop"
      [] tx[t] = "ABORTED"                         -> "conflict"
      [] lock[t] # "none" /\ tx[t] = "PREPARED"    -> "noop"
      [] lock[t] # "none" /\ tx[t] # "PREPARED"    -> "conflict"
      [] lock[t] = "none" /\ tx[t] \in ActiveTx    ->
           IF SufficientCapacity(t, old) THEN "ok" ELSE "insufficient"

PrepareEffect(t) ==
    /\ lock' = [lock EXCEPT ![t] = "live"]
    /\ tx'   = [tx EXCEPT ![t] = "PREPARED"]
    /\ aged' = aged \ {t}
    /\ UNCHANGED <<debt, row, status, limit, auto, stamp, flow, cleared>>

\* The checks commit runs on the debts it has just written.
CommitChecks(t) ==
    LET after == ApplyFlows(debt, flow[t])
    IN  /\ TrustLimits(after, Touched(flow[t]))
        /\ DebtSymmetry(after, Touched(flow[t]))
        /\ PaymentDelta(debt, after, flow[t])

CommitOutcome(t, old) ==
    CASE tx[t] = "absent"                              -> "not_found"
      [] tx[t] = "COMMITTED"                           -> "noop"
      [] tx[t] \in {"ABORTED", "NEW"}                  -> "conflict"
      [] tx[t] = "PREPARED" /\ lock[t] = "none"        -> "no_locks"
      [] tx[t] = "PREPARED" /\ lock[t] # "none" /\ t \in old -> "expired"
      [] tx[t] = "PREPARED" /\ lock[t] # "none" /\ t \notin old ->
           IF CommitChecks(t) THEN "ok" ELSE "violation"

\* Mutant: the locks are not deleted.
CommitKeepsLocks(t) ==
    /\ SetDebt(ApplyFlows(debt, flow[t]))
    /\ tx'   = [tx EXCEPT ![t] = "COMMITTED"]
    /\ aged' = aged \ {t}
    /\ UNCHANGED <<status, limit, auto, stamp, flow, lock, cleared>>

\* Mutant: the reverse debt is not paid off first.
CommitGross(t) ==
    /\ SetDebt([e \in Pairs |-> debt[e] + flow[t][e]])
    /\ lock' = [lock EXCEPT ![t] = "none"]
    /\ tx'   = [tx EXCEPT ![t] = "COMMITTED"]
    /\ aged' = aged \ {t}
    /\ UNCHANGED <<status, limit, auto, stamp, flow, cleared>>

CommitEffect(t) ==
    /\ SetDebt(ApplyFlows(debt, flow[t]))
    /\ lock' = [lock EXCEPT ![t] = "none"]
    /\ tx'   = [tx EXCEPT ![t] = "COMMITTED"]
    /\ aged' = aged \ {t}
    /\ UNCHANGED <<status, limit, auto, stamp, flow, cleared>>

(***************************************************************************)
(* A unit of work left in flight is decided: only its COMMIT is pending.   *)
(* PostgreSQL refuses the COMMIT when a trust line it read was changed by  *)
(* a transaction that read its debts; a freeze reads none and does not     *)
(* stop it.                                                                *)
(***************************************************************************)
LiveLimit(e) == IF status[e] \in LiveStates THEN limit[e] ELSE 0

StillSerializable(t) ==
    \A e \in Touched(flow[t]) :
        ApplyFlows(debt, flow[t])[e] <= LiveLimit(Flip(e))

InflightLands(t) ==
    /\ \/ inflight[t] = "prepare" /\ PrepareEffect(t)
       \/ inflight[t] = "commit" /\ StillSerializable(t) /\ CommitEffect(t)
    /\ inflight' = [inflight EXCEPT ![t] = "none"]
    /\ UNCHANGED interlock

InflightDies(t) ==
    /\ inflight[t] # "none"
    /\ inflight' = [inflight EXCEPT ![t] = "none"]
    /\ UNCHANGED <<dbVars, interlock>>

\* Mutant: abort does not look at the state.
AbortAlways(t) ==
    /\ lock' = [lock EXCEPT ![t] = "none"]
    /\ tx'   = [tx EXCEPT ![t] = IF tx[t] = "absent" THEN tx[t] ELSE "ABORTED"]
    /\ aged' = aged \ {t}
    /\ UNCHANGED <<debt, row, status, limit, auto, stamp, flow, cleared>>

\* Abort is idempotent, never undoes a commit, and always drops the locks.
AbortEffect(t) ==
    /\ lock' = [lock EXCEPT ![t] = "none"]
    /\ tx'   = [tx EXCEPT ![t] = IF tx[t] \in ActiveTx THEN "ABORTED" ELSE tx[t]]
    /\ aged' = IF tx[t] \in ActiveTx THEN aged \ {t} ELSE aged
    /\ UNCHANGED <<debt, row, status, limit, auto, stamp, flow, cleared>>
=============================================================================
