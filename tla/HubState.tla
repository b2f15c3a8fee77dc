------------------------------ MODULE HubState ------------------------------
(***************************************************************************)
(* The database rows the money path of the hub reads and writes, for one   *)
(* equivalent.  Every module of the hub shares them; each step of another  *)
(* module that primes them is one committed database transaction.  The     *)
(* engine runs under SERIALIZABLE isolation (app/config.py), so committed  *)
(* units of work are atomic; the ones PostgreSQL refuses are retried or    *)
(* fail without effect.                                                    *)
(***************************************************************************)
EXTENDS Ledger

CONSTANTS
    Payments,   \* tx_id values of payments
    Contents,   \* fingerprints of signed payment requests
    Lines0,     \* pairs <<creditor, debtor>> with an active line at the start
    Limit0,     \* their limits
    Debt0       \* debts at the start

ASSUME HubAssumption ==
    /\ IsFiniteSet(Participants) /\ IsFiniteSet(Payments)
    /\ Lines0 \subseteq Pairs
    /\ Limit0 \in [Pairs -> Nat]
    /\ Debt0 \in [Pairs -> Nat]
    /\ \A e \in Pairs :
         /\ Debt0[e] = 0 \/ Debt0[Flip(e)] = 0
         /\ Debt0[e] > 0 => Flip(e) \in Lines0 /\ Debt0[e] <= Limit0[Flip(e)]

VARIABLES
    debt,       \* debts: <<debtor, creditor>> -> amount, 0 for no row
    row,        \* debts: how many rows of the pair were deleted; names the row
    status,     \* trust_lines: <<creditor, debtor>> -> state of the live line
    limit,      \* trust_lines: credit limit of the live line
    auto,       \* trust_lines: policy.auto_clearing of the live line
    stamp,      \* transactions: fingerprint of the request that made the row
    tx,         \* transactions: state of the payment, "absent" for no row
    flow,       \* transactions/prepare_locks: the flows of the chosen routes
    lock,       \* prepare_locks of the payment, which share one expires_at
    aged,       \* payments whose updated_at lies behind the recovery cutoff
    cleared     \* transactions: committed CLEARING executions, by their rows

moneyVars == <<debt, row>>
lineVars  == <<status, limit, auto>>
payVars   == <<stamp, tx, flow, lock, aged>>
dbVars    == <<debt, row, status, limit, auto, stamp, tx, flow, lock, aged,
               cleared>>

LineStates  == {"none", "active", "frozen", "closed"}
LiveStates  == {"active", "frozen"}
TxStates    == {"absent", "NEW", "PREPARED", "COMMITTED", "ABORTED"}
ActiveTx    == {"NEW", "PREPARED"}
TerminalTx  == {"COMMITTED", "ABORTED"}

HubInit ==
    /\ debt    = Debt0
    /\ row     = [e \in Pairs |-> 0]
    /\ status  = [e \in Pairs |-> IF e \in Lines0 THEN "active" ELSE "none"]
    /\ limit   = Limit0
    /\ auto    = [e \in Pairs |-> TRUE]
    /\ stamp   = [t \in Payments |-> {}]
    /\ tx      = [t \in Payments |-> "absent"]
    /\ flow    = [t \in Payments |-> NoFlow]
    /\ lock    = [t \in Payments |-> "none"]
    /\ aged    = {}
    /\ cleared = {}

\* Names the current debts row of a pair: a deleted row never comes back.
RowId(e) == <<e, row[e]>>
RowIds   == Pairs \X Nat

\* A debt row that reaches zero is deleted.
SetDebt(d) ==
    /\ debt' = d
    /\ row'  = [e \in Pairs |-> IF debt[e] > 0 /\ d[e] = 0 THEN row[e] + 1
                                                           ELSE row[e]]

\* Limit of the active line of a pair <<creditor, debtor>>, 0 without one.
ActiveLimit(e) == IF status[e] = "active" THEN limit[e] ELSE 0

\* check_trust_limits over the given <<debtor, creditor>> pairs.
TrustLimits(d, pairs) == \A e \in pairs : d[e] <= ActiveLimit(Flip(e))

\* Payments whose locks have passed expires_at: what now() of a transaction
\* that starts in this state tells it.
Lapsed == {t \in Payments : lock[t] = "expired"}

\* Wall-clock time passes the locks' expires_at.
LockExpires(t) ==
    /\ lock[t] = "live"
    /\ lock' = [lock EXCEPT ![t] = "expired"]
    /\ UNCHANGED <<debt, row, status, limit, auto, stamp, tx, flow, aged, cleared>>

\* Wall-clock time carries the payment's updated_at past the recovery cutoff.
TxAges(t) ==
    /\ tx[t] \in ActiveTx /\ t \notin aged
    /\ aged' = aged \cup {t}
    /\ UNCHANGED <<debt, row, status, limit, auto, stamp, tx, flow, lock, cleared>>
=============================================================================
