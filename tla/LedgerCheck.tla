---------------------------- MODULE LedgerCheck ----------------------------
(***************************************************************************)
(* The loop of commit over the flows of a payment: every lock of the       *)
(* payment applies its flows one after the other, and routes that share an *)
(* edge split its total.  Started from any debts, with any flows and in    *)
(* any order, it must end in the closed form the other modules use.        *)
(***************************************************************************)
EXTENDS Ledger

CONSTANT MaxAmount  \* bound: debts at the start and total flow over an edge

\* What the constants must satisfy; every instance assumes it.
LedgerCheckAssumption == MaxAmount \in Nat /\ IsFiniteSet(Participants)

VARIABLES
    start,      \* debts before the payment; rows may be mutual, the table
                \* does not forbid it
    total,      \* flow of the payment over every edge
    d,          \* debts so far
    rest        \* flow still to be applied

ledgerVars == <<start, total, d, rest>>

LedgerInit ==
    /\ start \in [Pairs -> 0..MaxAmount]
    /\ total \in [Pairs -> 0..MaxAmount]
    /\ d = start
    /\ rest = total

ApplyOne(e, amt) ==
    /\ amt <= rest[e]
    /\ d' = ApplyFlow(d, e, amt)
    /\ rest' = [rest EXCEPT ![e] = rest[e] - amt]
    /\ UNCHANGED <<start, total>>

LedgerNext == \E e \in Pairs, amt \in 1..MaxAmount : ApplyOne(e, amt)

LedgerSpec == LedgerInit /\ [][LedgerNext]_ledgerVars

\* Whatever the order of the flows and however routes split them, the debts end
\* in ApplyFlows: the loop of commit computes a function of the payment.
OrderIsImmaterial == rest = NoFlow => d = ApplyFlows(start, total)

\* At every point of the loop each participant has gained what has been applied
\* so far, which is what check_payment_delta compares at the end of it.
PositionsFollowFlows ==
    \A p \in Participants :
        NetPosition(d, p) + Inflow(rest, p) = NetPosition(start, p) + Inflow(total, p)
=============================================================================
