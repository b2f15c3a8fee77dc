------------------------------- MODULE Ledger -------------------------------
(***************************************************************************)
(* Arithmetic of mutual debts, for one equivalent.  A debt function gives  *)
(* every ordered pair <<debtor, creditor>> the amount owed; 0 stands for   *)
(* "no row", because the schema forbids a row whose amount is not positive *)
(* and the code deletes a row that reaches zero.  Amounts are fixed-point  *)
(* decimals in the code; here they are whole numbers of the smallest unit. *)
(***************************************************************************)
EXTENDS Integers, FiniteSets, Functions

CONSTANT Participants

Pairs == {e \in Participants \X Participants : e[1] # e[2]}

\* The reciprocal pair: both directions are one resource to the engine.
Flip(e) == <<e[2], e[1]>>

NoFlow == [e \in Pairs |-> 0]

MinOf(a, b) == IF a <= b THEN a ELSE b

\* Mutant: rows that already were mutual are left so.
ApplyFlowUnnetted(d, e, amt) ==
    LET reduction == MinOf(amt, d[Flip(e)])
    IN  [d EXCEPT ![e] = @ + (amt - reduction), ![Flip(e)] = @ - reduction]

(***************************************************************************)
(* One flow of amt from e[1] to e[2]: what the receiver owes is paid off   *)
(* first, the rest becomes the sender's debt, mutual debts are netted.     *)
(***************************************************************************)
ApplyFlow(d, e, amt) ==
    LET reduction == MinOf(amt, d[Flip(e)])
        forward   == d[e] + (amt - reduction)
        reverse   == d[Flip(e)] - reduction
        net       == MinOf(forward, reverse)
    IN  [d EXCEPT ![e] = forward - net, ![Flip(e)] = reverse - net]

(***************************************************************************)
(* All flows of a payment, f[e] being the total over e.  Flows over        *)
(* different reciprocal pairs touch different rows, and flows over one     *)
(* pair commute once netted, so the order of the code's loop is immaterial *)
(* (LedgerCheck compares this with every order of ApplyFlow).              *)
(***************************************************************************)
Touched(f) == {e \in Pairs : f[e] > 0 \/ f[Flip(e)] > 0}

ApplyFlows(d, f) ==
    [e \in Pairs |->
        LET net == (d[e] - d[Flip(e)]) + (f[e] - f[Flip(e)])
        IN  IF e \notin Touched(f) THEN d[e]
            ELSE IF net > 0 THEN net ELSE 0]

\* Mutant: a row equal to the amount is not reduced to zero.
ReduceAllKeepsLast(d, edges, amt) ==
    [e \in Pairs |-> IF e \in edges /\ d[e] > amt THEN d[e] - amt ELSE d[e]]

\* The rows of a cycle, each reduced by the same amount.
ReduceAll(d, edges, amt) ==
    [e \in Pairs |-> IF e \in edges THEN d[e] - amt ELSE d[e]]

\* What p gains when amounts m move: everything into p less everything out.
Inflow(m, p) ==
    LET others == Participants \ {p}
    IN  SumFunction([q \in others |-> m[<<q, p>>]])
          - SumFunction([q \in others |-> m[<<p, q>>]])

\* Credits less debts of p.
NetPosition(d, p) == Inflow(d, p)

----------------------------------------------------------------------------
(* The integrity checks of app/core/invariants.py and of the engine. *)

DebtSymmetry(d, pairs) == \A e \in pairs : d[e] = 0 \/ d[Flip(e)] = 0

PaymentDelta(before, after, f) ==
    \A p \in {e[1] : e \in Touched(f)} :
        NetPosition(after, p) - NetPosition(before, p) = Inflow(f, p)

ClearingNeutrality(before, after, edges) ==
    \A p \in UNION {{e[1], e[2]} : e \in edges} :
        NetPosition(after, p) = NetPosition(before, p)
=============================================================================
