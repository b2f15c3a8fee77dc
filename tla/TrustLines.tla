----------------------------- MODULE TrustLines -----------------------------
(***************************************************************************)
(* app/core/trustlines/service.py (create, update, close) and the          *)
(* simulator's freeze of a participant's lines.  Each is one serializable  *)
(* transaction that takes no advisory lock and does not read prepare       *)
(* locks.  e is the pair <<creditor, debtor>>.                             *)
(***************************************************************************)
EXTENDS HubState

CONSTANTS
    EditableLines,  \* bound: lines whose creditor edits them
    NewLimits,      \* bound: limits an edit may set
    Freezable       \* bound: participants the simulator may freeze

ASSUME TrustLinesAssumption ==
    /\ EditableLines \subseteq Pairs
    /\ NewLimits \subseteq Nat
    /\ Freezable \subseteq Participants

VARIABLE suspended  \* participants whose status the simulator set to suspended

TrustLinesInit == suspended = {}

\* What the debtor owes over the line, and what the creditor owes back.
UsedAmount(e) == debt[Flip(e)]
ReverseUsedAmount(e) == debt[e]

CreateLine(e, lim, consent) ==
    /\ status[e] \notin LiveStates
    /\ status' = [status EXCEPT ![e] = "active"]
    /\ limit'  = [limit EXCEPT ![e] = lim]
    /\ auto'   = [auto EXCEPT ![e] = consent]
    /\ UNCHANGED <<moneyVars, payVars, cleared, suspended>>

\* Mutant: the limit may fall below the debt it covers.
UpdateUnchecked(e, lim, consent) ==
    /\ status[e] \in LiveStates
    /\ limit' = [limit EXCEPT ![e] = lim]
    /\ auto'  = [auto EXCEPT ![e] = consent]
    /\ UNCHANGED <<status, moneyVars, payVars, cleared, suspended>>

\* Changes the limit, the policy or both; any line that is not closed.
UpdateLine(e, lim, consent) ==
    /\ status[e] \in LiveStates
    /\ lim = limit[e] \/ lim >= UsedAmount(e)
    /\ limit' = [limit EXCEPT ![e] = lim]
    /\ auto'  = [auto EXCEPT ![e] = consent]
    /\ UNCHANGED <<status, moneyVars, payVars, cleared, suspended>>

CloseLine(e) ==
    /\ status[e] \in LiveStates
    /\ UsedAmount(e) = 0 /\ ReverseUsedAmount(e) = 0
    /\ status' = [status EXCEPT ![e] = "closed"]
    /\ UNCHANGED <<limit, auto, moneyVars, payVars, cleared, suspended>>

\* The effect may ask for the participant alone, or for its lines too.
FreezeParticipant(p, freezeLines) ==
    /\ p \notin suspended
    /\ suspended' = suspended \cup {p}
    /\ status' = [e \in Pairs |->
                    IF freezeLines /\ p \in {e[1], e[2]} /\ status[e] = "active"
                    THEN "frozen" ELSE status[e]]
    /\ UNCHANGED <<limit, auto, moneyVars, payVars, cleared>>
=============================================================================
