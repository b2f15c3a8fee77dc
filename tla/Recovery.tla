------------------------------ MODULE Recovery ------------------------------
(***************************************************************************)
(* app/core/recovery.py: the loop that aborts payments whose prepare locks *)
(* expired and payments that stopped moving.  Each pass reads a list of    *)
(* tx_ids and then aborts them one unit of work at a time, so an entry may *)
(* be out of date when its turn comes.                                     *)
(***************************************************************************)
EXTENDS PaymentService

VARIABLES
    recPc,      \* "idle", or the pass that is working through its list
    recList     \* tx_ids still to be aborted in this pass

recoveryVars == <<recPc, recList>>

RecoveryInit == recPc = "idle" /\ recList = {}

\* The query of cleanup_expired_prepare_locks.
ScanExpired ==
    /\ recPc = "idle"
    /\ recPc' = "expired"
    /\ recList' = Lapsed
    /\ UNCHANGED <<dbVars, engineVars, serviceVars>>

\* Mutant: only payments that hold reservations are listed.
ScanStalePrepared ==
    /\ recPc = "expired" /\ recList = {}
    /\ recPc' = "stale"
    /\ recList' = {t \in aged : tx[t] = "PREPARED"}
    /\ UNCHANGED <<dbVars, engineVars, serviceVars>>

\* The query of abort_stale_payment_transactions.
ScanStale ==
    /\ recPc = "expired" /\ recList = {}
    /\ recPc' = "stale"
    /\ recList' = {t \in aged : tx[t] \in ActiveTx}
    /\ UNCHANGED <<dbVars, engineVars, serviceVars>>

EndIteration ==
    /\ recPc = "stale" /\ recList = {}
    /\ recPc' = "idle"
    /\ UNCHANGED <<recList, dbVars, engineVars, serviceVars>>

\* One entry of either pass: abort does not ask again why it was listed.
RecoverOne(t) ==
    /\ t \in recList
    /\ EngineLocksFree(t)
    /\ AbortEffect(t)
    /\ recList' = recList \ {t}
    /\ UNCHANGED <<recPc, engineVars, serviceVars>>

\* An entry whose abort raises is counted, rolled back and passed over; a rollback
\* that fails too ends the pass, or the whole iteration.
RecoverOneFails(t) ==
    /\ t \in recList
    /\ Fault
    /\ \/ recList' = recList \ {t} /\ UNCHANGED recPc
       \/ recList' = {} /\ recPc' \in {recPc, "idle"}
    /\ UNCHANGED <<dbVars, engineVars, pc, why, reply, pending, nowOf>>
=============================================================================
