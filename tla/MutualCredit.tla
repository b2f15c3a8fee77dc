---------------------------- MODULE MutualCredit ----------------------------
(***************************************************************************)
(* What the hub promises, without requests, locks, time or failures: a     *)
(* payment is opened with its flows and then settled or cancelled, once;   *)
(* settling it is the only way debts grow, and apart from it debts change  *)
(* only by offsets.  Apply and Offset stand for the arithmetic of Ledger.  *)
(***************************************************************************)
CONSTANTS
    Payments, Flows, Start,
    Apply(_, _),    \* debts after the flows of a payment
    Offset(_, _)    \* debts before and after a clearing

VARIABLES
    debt,           \* what everybody owes
    outcome,        \* of each payment
    flow            \* the flows each payment was opened with

promiseVars == <<debt, outcome, flow>>

Init ==
    /\ debt = Start
    /\ outcome = [t \in Payments |-> "none"]

Decide(t, from, to) ==
    /\ outcome[t] = from
    /\ outcome' = [outcome EXCEPT ![t] = to]

Open(t) ==
    /\ Decide(t, "none", "open")
    /\ flow'[t] \in Flows
    /\ flow' = [flow EXCEPT ![t] = flow'[t]]
    /\ UNCHANGED debt

Settle(t) ==
    /\ Decide(t, "open", "committed")
    /\ debt' = Apply(debt, flow[t])
    /\ UNCHANGED flow

Cancel(t) ==
    /\ Decide(t, "open", "aborted")
    /\ UNCHANGED <<debt, flow>>

Clear == Offset(debt, debt') /\ UNCHANGED <<outcome, flow>>

Next == Clear \/ \E t \in Payments : Open(t) \/ Settle(t) \/ Cancel(t)

Spec == Init /\ [][Next]_promiseVars
=============================================================================
