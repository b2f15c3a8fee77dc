------------------------------ MODULE Clearing ------------------------------
(***************************************************************************)
(* app/core/clearing/service.py: a worker finds a cycle of debts (or is    *)
(* handed one), takes the equivalent's owner lock in a pinned session, and *)
(* reduces every debt of the cycle by the smallest of them.  The execution *)
(* is identified by the rows of the cycle, so that a repeated call returns *)
(* the committed result instead of clearing again.                         *)
(***************************************************************************)
EXTENDS PaymentEngine, Sequences

CONSTANTS
    Clearers,       \* workers that run clearing
    MaxDepth,       \* longest cycle looked for
    Submitted       \* edge sets a caller may hand over without a search

ASSUME ClearingAssumption ==
    /\ MaxDepth \in Nat
    /\ Submitted \subseteq SUBSET Pairs

VARIABLES
    clrPc,      \* "idle", "candidate", "interlocked", "releasing"
    cand        \* debts rows of the worker's candidate

clearingVars == <<clrPc, cand>>

ClearingInit ==
    /\ clrPc = [w \in Clearers |-> "idle"]
    /\ cand  = [w \in Clearers |-> {}]

\* Simple directed cycles, as sets of <<debtor, creditor>> pairs.
SimpleCycles ==
    UNION {{{<<s[i], s[IF i = n THEN 1 ELSE i + 1]>> : i \in 1..n} :
              s \in {q \in [1..n -> Participants] :
                       \A i, j \in 1..n : q[i] = q[j] => i = j}} :
           n \in 3..MaxDepth}

\* Unordered pairs reserved by prepare locks that have not expired.
LockedPairs == UNION {Touched(flow[t]) : t \in {u \in Payments : lock[u] = "live"}}

AutoClearingConsent(edges) ==
    \A e \in edges : status[Flip(e)] = "active" /\ auto[Flip(e)]

Clearable(edges) ==
    /\ \A e \in edges : debt[e] > 0
    /\ edges \cap LockedPairs = {}
    /\ AutoClearingConsent(edges)

EdgesOf(rows) == {x[1] : x \in rows}
RowsExist(rows) == \A x \in rows : debt[x[1]] > 0 /\ row[x[1]] = x[2]

Choose(w, edges) ==
    /\ cand'  = [cand EXCEPT ![w] = {RowId(e) : e \in edges}]
    /\ clrPc' = [clrPc EXCEPT ![w] = "candidate"]
    /\ UNCHANGED <<dbVars, engineVars>>

FindCycles(w) ==
    /\ clrPc[w] = "idle"
    /\ \E edges \in SimpleCycles : Clearable(edges) /\ Choose(w, edges)

\* A caller hands over debts that no search produced.
SubmitCycle(w) ==
    /\ clrPc[w] = "idle"
    /\ \E edges \in Submitted : (\A e \in edges : debt[e] > 0) /\ Choose(w, edges)

\* The preflight finds a row gone and returns the stored result or none, or the
\* bounded wait for the interlock times out.
DropCandidate(w) ==
    /\ clrPc[w] = "candidate"
    /\ clrPc' = [clrPc EXCEPT ![w] = "idle"]
    /\ UNCHANGED <<cand, dbVars, engineVars>>

AcquireInterlock(w) ==
    /\ clrPc[w] = "candidate" /\ RowsExist(cand[w])
    /\ OwnerFree
    /\ interlock' = interlock \cup {w}
    /\ clrPc' = [clrPc EXCEPT ![w] = "interlocked"]
    /\ UNCHANGED <<cand, dbVars, inflight>>

\* Mutant: whether anybody's net position moves is not checked.
MayClearPartial(rows, amount) ==
    LET edges == EdgesOf(rows)
    IN  /\ rows \notin cleared
        /\ RowsExist(rows)
        /\ \A e \in edges : amount <= debt[e]
        /\ edges \cap LockedPairs = {}
        /\ AutoClearingConsent(edges)

\* Everything is decided again on the rows read under the interlock.
MayClear(rows, amount) ==
    LET edges == EdgesOf(rows)
    IN  /\ rows \notin cleared
        /\ RowsExist(rows)
        /\ \A e \in edges : amount <= debt[e]
        /\ edges \cap LockedPairs = {}
        /\ AutoClearingConsent(edges)
        /\ ClearingNeutrality(debt, ReduceAll(debt, edges, amount), edges)

ExecuteClearing(w) ==
    /\ clrPc[w] = "interlocked"
    /\ \E amount \in {debt[e] : e \in EdgesOf(cand[w])} :
         /\ MayClear(cand[w], amount)
         /\ SetDebt(ReduceAll(debt, EdgesOf(cand[w]), amount))
    /\ cleared' = cleared \cup {cand[w]}
    /\ clrPc' = [clrPc EXCEPT ![w] = "releasing"]
    /\ UNCHANGED <<cand, lineVars, payVars, engineVars>>

\* A replay, a skipped candidate, or an execution that raises and rolls back.
NothingCleared(w) ==
    /\ clrPc[w] = "interlocked"
    /\ clrPc' = [clrPc EXCEPT ![w] = "releasing"]
    /\ UNCHANGED <<cand, dbVars, engineVars>>

\* The pinned session unlocks or dies; the caller moves on, or repeats the
\* call because it never saw the result.
ReleaseInterlock(w) ==
    /\ clrPc[w] \in {"interlocked", "releasing"}
    /\ interlock' = interlock \ {w}
    /\ \E next \in {"idle", "candidate"} : clrPc' = [clrPc EXCEPT ![w] = next]
    /\ UNCHANGED <<cand, dbVars, inflight>>
=============================================================================
