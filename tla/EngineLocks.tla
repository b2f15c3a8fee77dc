----------------------------- MODULE EngineLocks -----------------------------
(***************************************************************************)
(* app/core/payments/engine.py on PostgreSQL: the advisory locks of the    *)
(* units of work, in the order they are taken.  An owner lock stands for   *)
(* an equivalent, a tx lock for a payment, a segment lock for a pair of    *)
(* participants in an equivalent.  PostgreSQL is external: a lock is       *)
(* granted when no other session holds it, and all are given back at the   *)
(* end of the transaction.  Hash keys are taken to be distinct.            *)
(***************************************************************************)
EXTENDS Naturals, Sequences

CONSTANTS
    Sessions,       \* units of work that run at the same time
    Txs,            \* payments, numbered
    EqOf,           \* Txs -> the equivalent of a payment, numbered
    SegsOf,         \* Txs -> the segments of its routes, numbered over all equivalents
    RetryAttempts   \* _retry_attempts

\* What the constants must satisfy; every instance assumes it.
\* A payment has a segment, a segment belongs to one equivalent, and one of the
\* equivalents is the last.
EngineLocksAssumption ==
    /\ Txs \subseteq Nat /\ EqOf \in [Txs -> Nat]
    /\ Txs # {} => \E t \in Txs : \A u \in Txs : EqOf[u] <= EqOf[t]
    /\ SegsOf \in [Txs -> SUBSET Nat] /\ \A t \in Txs : SegsOf[t] # {}
    /\ \A t, u \in Txs : SegsOf[t] \cap SegsOf[u] # {} => EqOf[t] = EqOf[u]
    /\ RetryAttempts \in Nat

VARIABLES
    todo,       \* the sets of locks a session has still to take, one set after the other
    held,       \* locks it holds
    op,         \* <<"idle">> or its operation
    preflight,  \* what it read of the payment's reservations before the tx lock
    attempt,    \* runs of the unit of work that its preflight spoiled
    reserved    \* payments with committed reservations

engineLockVars == <<todo, held, op, preflight, attempt, reserved>>

Owner(e) == <<"owner", e>>
Tx(t) == <<"tx", t>>
Seg(s) == <<"segment", s>>

\* Mutant: the owners of a batch in the order its payments were planned.
OwnersPlanned(ts) == <<{Owner(EqOf[ts[1]])}, {Owner(EqOf[ts[2]])}>>

\* _acquire_equivalent_owner_locks: the owners of a batch of two payments.
Owners(ts) == <<{Owner(EqOf[ts[1]]), Owner(EqOf[ts[2]])}>>

\* _acquire_segment_advisory_lock_keys
Segments(t) == <<{Seg(s) : s \in SegsOf[t]}>>

PrepareLocks(t) == <<{Owner(EqOf[t])}, {Tx(t)}>> \o Segments(t)

\* The locks of a set are taken in the order of their keys.
Least(S) == CHOOSE l \in S : \A k \in S : l[2] <= k[2]

\* The lock a session takes next, and what is left to take after it.
Awaited(p) == Least(Head(todo[p]))
TodoAfter(p) ==
    IF Head(todo[p]) = {Awaited(p)} THEN Tail(todo[p])
    ELSE [todo[p] EXCEPT ![1] = @ \ {Awaited(p)}]

EngineLocksInit ==
    /\ todo = [p \in Sessions |-> <<>>]
    /\ held = [p \in Sessions |-> {}]
    /\ op = [p \in Sessions |-> <<"idle">>]
    /\ preflight = [p \in Sessions |-> FALSE]
    /\ attempt = [p \in Sessions |-> 0]
    /\ reserved \in SUBSET Txs

Begin(p, o, locks) ==
    /\ op[p] = <<"idle">>
    /\ op' = [op EXCEPT ![p] = o]
    /\ todo' = [todo EXCEPT ![p] = locks]
    /\ UNCHANGED <<held, attempt, reserved>>

BeginPrepare(p, t) ==
    /\ t \notin reserved
    /\ Begin(p, <<"prepare", t>>, PrepareLocks(t))
    /\ UNCHANGED preflight

\* _preacquire_equivalent_owner_locks_for_tx, then the tx lock.
TerminalLocks(t, seen) == (IF seen THEN <<{Owner(EqOf[t])}>> ELSE <<>>) \o <<{Tx(t)}>>

\* commit or abort: reservations are read before anything is locked.
BeginTerminal(p, t) ==
    /\ Begin(p, <<"terminal", t>>, TerminalLocks(t, t \in reserved))
    /\ preflight' = [preflight EXCEPT ![p] = t \in reserved]

\* One transaction of a simulator tick: owners of the whole batch first, then
\* payments one after the other, each prepared with all its locks.
BeginBatch(p, ts) ==
    /\ {ts[1], ts[2]} \cap reserved = {}
    /\ Begin(p, <<"batch", ts>>, Owners(ts) \o PrepareLocks(ts[1]) \o PrepareLocks(ts[2]))
    /\ UNCHANGED preflight

\* Clearing keeps the session-level owner lock of its equivalent and no other.
BeginClearing(p, e) ==
    /\ Begin(p, <<"clearing", e>>, <<{Owner(e)}>>)
    /\ UNCHANGED preflight

Granted(p, l) == \A q \in Sessions \ {p} : l \notin held[q]

Take(p) ==
    /\ todo[p] # <<>> /\ Granted(p, Awaited(p))
    /\ held' = [held EXCEPT ![p] = @ \cup {Awaited(p)}]
    /\ todo' = [todo EXCEPT ![p] = TodoAfter(p)]
    /\ UNCHANGED <<op, preflight, attempt, reserved>>

\* End of the transaction; clearing unlocks its session lock explicitly.
Release(p) ==
    /\ held' = [held EXCEPT ![p] = {}]
    /\ todo' = [todo EXCEPT ![p] = <<>>]
    /\ op' = [op EXCEPT ![p] = <<"idle">>]
    /\ preflight' = [preflight EXCEPT ![p] = FALSE]
    /\ attempt' = [attempt EXCEPT ![p] = 0]

PreflightSpoiled(p) ==
    /\ op[p][1] = "terminal" /\ todo[p] = <<>> /\ Tx(op[p][2]) \in held[p]
    /\ preflight[p] # (op[p][2] \in reserved)

\* Mutant: the unit of work starts over with what it read the first time.
PreflightRetryStale(p) ==
    /\ PreflightSpoiled(p) /\ attempt[p] + 1 < RetryAttempts
    /\ held' = [held EXCEPT ![p] = {}]
    /\ todo' = [todo EXCEPT ![p] = TerminalLocks(op[p][2], preflight[p])]
    /\ UNCHANGED <<op, preflight, attempt, reserved>>

\* Under the tx lock the reservations are read again; if they changed,
\* _EquivalentOwnerPreflightChanged rolls back and everything starts over.
PreflightRetry(p) ==
    /\ PreflightSpoiled(p) /\ attempt[p] + 1 < RetryAttempts
    /\ held' = [held EXCEPT ![p] = {}]
    /\ todo' = [todo EXCEPT ![p] = TerminalLocks(op[p][2], op[p][2] \in reserved)]
    /\ preflight' = [preflight EXCEPT ![p] = op[p][2] \in reserved]
    /\ attempt' = [attempt EXCEPT ![p] = @ + 1]
    /\ UNCHANGED <<op, reserved>>

\* RetryablePaymentConflictException
PreflightGivesUp(p) ==
    /\ PreflightSpoiled(p) /\ attempt[p] + 1 >= RetryAttempts
    /\ Release(p)
    /\ UNCHANGED reserved

\* The reservations are as they were: their segments are locked.
TakeSegments(p) ==
    /\ op[p][1] = "terminal" /\ todo[p] = <<>>
    /\ preflight[p] /\ op[p][2] \in reserved
    /\ op' = [op EXCEPT ![p] = <<"finishing", op[p][2]>>]
    /\ todo' = [todo EXCEPT ![p] = Segments(op[p][2])]
    /\ UNCHANGED <<held, preflight, attempt, reserved>>

\* Every lock is held: effects are applied and the transaction commits.
Finish(p) ==
    /\ todo[p] = <<>>
    /\ \/ op[p][1] = "prepare" /\ reserved' = reserved \cup {op[p][2]}
       \/ op[p][1] = "batch" /\ reserved' = reserved \cup {op[p][2][1], op[p][2][2]}
       \/ op[p][1] = "finishing" /\ reserved' = reserved \ {op[p][2]}
       \/ op[p][1] = "clearing" /\ reserved' = reserved
       \/ op[p][1] = "terminal" /\ ~preflight[p] /\ op[p][2] \notin reserved /\ reserved' = reserved
    /\ Release(p)

EngineLocksNext ==
    \E p \in Sessions :
        \/ \E t \in Txs : BeginPrepare(p, t) \/ BeginTerminal(p, t) \/ BeginClearing(p, EqOf[t])
        \/ \E ts \in {x \in Txs \X Txs : x[1] # x[2]} : BeginBatch(p, ts)
        \/ Take(p) \/ PreflightRetry(p) \/ PreflightGivesUp(p) \/ TakeSegments(p) \/ Finish(p)

\* PostgreSQL grants a lock that is free (again and again, with other waiters
\* in between), and a unit of work that has its locks goes on.
EngineLocksFairness ==
    \A p \in Sessions :
        /\ SF_engineLockVars(Take(p)) /\ WF_engineLockVars(PreflightRetry(p))
        /\ WF_engineLockVars(PreflightGivesUp(p))
        /\ WF_engineLockVars(TakeSegments(p)) /\ WF_engineLockVars(Finish(p))

EngineLocksSpec == EngineLocksInit /\ [][EngineLocksNext]_engineLockVars /\ EngineLocksFairness

----------------------------------------------------------------------------
EngineLocksTypeOK ==
    /\ reserved \subseteq Txs /\ attempt \in [Sessions -> 0..RetryAttempts]
    /\ \A p \in Sessions : op[p] = <<"idle">> => todo[p] = <<>> /\ held[p] = {}
    /\ \A p, q \in Sessions : p # q => held[p] \cap held[q] = {}

\* p waits for a lock that q holds.
Waits(p, q) == p # q /\ todo[p] # <<>> /\ Awaited(p) \in held[q]

\* "one global deadlock-safe order": sessions never wait for each other in a
\* circle, whichever operations run together and whatever they read beforehand:
\* in every set of sessions somebody waits for none of the others.
NoWaitCycle ==
    \A C \in SUBSET Sessions : C # {} => \E p \in C : \A q \in C : ~Waits(p, q)

\* Every unit of work gets its locks in the end, without PostgreSQL's deadlock
\* detection and without a lock timeout.
WorkGetsDone == \A p \in Sessions : op[p] # <<"idle">> ~> op[p] = <<"idle">>
=============================================================================
