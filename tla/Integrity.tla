------------------------------ MODULE Integrity ------------------------------
(***************************************************************************)
(* app/core/integrity.py and app/api/v1/integrity.py: checkpoints of an    *)
(* equivalent (a checksum over its rows and the verdict of the invariant   *)
(* checks) and the two repairs an administrator may run on its debts,      *)
(* while payments and edits of lines go on.  Debts and lines may have been *)
(* left in any state by earlier versions, a freeze or drifting limits:     *)
(* that is what the repairs are for.                                       *)
(*                                                                         *)
(* A request reads one snapshot.  PostgreSQL refuses the commit of a       *)
(* repair that others have overtaken; what it would still let through is   *)
(* equal to some order of whole transactions.                              *)
(***************************************************************************)
EXTENDS Ledger, Sequences, SequencesExt

CONSTANTS
    Rows,           \* <<debtor, creditor>> pairs of the equivalent, closed under Flip
    LineIds,        \* identities of trust lines, ordered as the database orders them
    MaxLimit,       \* bound: the largest limit
    Scopes          \* bounds: the pairs that are in use, the largest debt at the start, and
                    \* how many edits, repairs and checkpoints a behaviour may have

\* What the constants must satisfy; every instance assumes it.
IntegrityAssumption ==
    /\ IsFiniteSet(Participants)
    /\ Rows \subseteq Pairs /\ \A e \in Rows : Flip(e) \in Rows
    /\ LineIds \subseteq Nat /\ IsFiniteSet(LineIds)
    /\ MaxLimit \in Nat
    /\ Scopes \subseteq [rows : SUBSET Rows, debt : Nat, edits : Nat, repairs : Nat, checkpoints : Nat]

VARIABLES
    debt,           \* pair -> amount
    lines,          \* id -> row, limit and status; "none": no such line yet
    repair,         \* the repair in progress
    recent,         \* history: repairs made since anything else changed
    job,            \* snapshot of the checkpoint in progress
    checkpoints,    \* stored checkpoints and verifications, each with its snapshot
    edits, repairs, \* counters
    scope           \* the bounds of this behaviour

integrityVars == <<debt, lines, repair, recent, job, checkpoints, edits, repairs, scope>>

Line == [row : Rows, limit : 0..MaxLimit, status : {"active", "frozen", "closed"}]
NoLine == [row |-> <<>>, limit |-> 0, status |-> "none"]
Live(l) == l.status \in {"active", "frozen"}

\* Limit of the active line; a missing, frozen or closed one counts as zero.
LimitOf(ls, e) ==
    LET active == {i \in LineIds : ls[i].status = "active" /\ ls[i].row = e}
    IN  IF active = {} THEN 0 ELSE ls[CHOOSE i \in active : TRUE].limit

Capacity(d, ls, e) == LimitOf(ls, e) - d[e] + d[Flip(e)]

NoRepair == [kind |-> "none", work |-> NoFlow, base |-> NoFlow, lines |-> <<>>, rest |-> {}, seen |-> {}]

IntegrityInit ==
    /\ scope \in Scopes
    /\ debt \in {[e \in Pairs |-> IF e \in scope.rows THEN f[e] ELSE 0] : f \in [scope.rows -> 0..scope.debt]}
    /\ lines \in {ls \in [LineIds -> {l \in Line : l.row \in scope.rows} \cup {NoLine}] :
                    \A i, j \in LineIds : i # j /\ Live(ls[i]) /\ Live(ls[j]) => ls[i].row # ls[j].row}
    /\ repair = NoRepair /\ recent = {}
    /\ job = <<>> /\ checkpoints = <<>>
    /\ edits = 0 /\ repairs = 0

----------------------------------------------------------------------------
\* A payment of one over one line, within its limit.
Pay(e) ==
    /\ e \in scope.rows /\ edits < scope.edits /\ edits' = edits + 1
    /\ debt' = ApplyFlow(debt, e, 1)
    /\ debt'[e] <= LimitOf(lines, e)
    /\ recent' = {}
    /\ UNCHANGED <<lines, repair, job, checkpoints, repairs, scope>>

\* A line is created, changed, frozen or closed; its closed incarnations stay.
\* Identities are random, so a new one may sort before an old one.  A limit may
\* end up below the debt (TrustDrift shows how).
EditLine(i, line) ==
    /\ line.row \in scope.rows /\ edits < scope.edits /\ edits' = edits + 1
    /\ line # lines[i]
    /\ IF lines[i] = NoLine
       THEN /\ line.status = "active"
            /\ \A j \in LineIds : Live(lines[j]) => lines[j].row # line.row
       ELSE /\ Live(lines[i]) /\ line.row = lines[i].row
            /\ line.status = "active" => lines[i].status = "active"
            /\ line.status = "closed" => debt[line.row] = 0 /\ line.limit = lines[i].limit
    /\ lines' = [lines EXCEPT ![i] = line]
    /\ recent' = {}
    /\ UNCHANGED <<debt, repair, job, checkpoints, repairs, scope>>

----------------------------------------------------------------------------
(* The repairs. *)

BeginRepair(kind) ==
    /\ repair.kind = "none" /\ repairs < scope.repairs /\ repairs' = repairs + 1
    /\ repair' = [kind |-> kind, work |-> debt, base |-> debt, lines |-> lines,
                  rest |-> {e \in Rows : debt[e] > 0}, seen |-> {}]
    /\ UNCHANGED <<debt, lines, recent, job, checkpoints, edits, scope>>

\* net-mutual-debts, one row: its pair is netted the first time it is met.
NetVisit(e) ==
    /\ repair.kind = "net" /\ e \in repair.rest
    /\ LET a == repair.work[e]  b == repair.work[Flip(e)]
           mutual == repair.base[Flip(e)] > 0 /\ {e, Flip(e)} \cap repair.seen = {}
       IN  repair' = [repair EXCEPT
             !.rest = @ \ {e},
             !.seen = IF mutual THEN @ \cup {e} ELSE @,
             !.work = IF ~mutual THEN @
                      ELSE [@ EXCEPT ![e] = IF a > b THEN a - b ELSE 0,
                                     ![Flip(e)] = IF b > a THEN b - a ELSE 0]]
    /\ UNCHANGED <<debt, lines, recent, job, checkpoints, edits, repairs, scope>>

\* cap-debts-to-trust-limits, one row; a limit of zero deletes it.
CapVisit(e) ==
    /\ repair.kind = "cap" /\ e \in repair.rest
    /\ LET limit == LimitOf(repair.lines, e)
       IN  repair' = [repair EXCEPT
             !.rest = @ \ {e},
             !.work = IF repair.work[e] <= limit THEN @ ELSE [@ EXCEPT ![e] = limit]]
    /\ UNCHANGED <<debt, lines, recent, job, checkpoints, edits, repairs, scope>>

\* Mutant: the repair's rows are written over whatever came in between.
CommitRepairBlindly ==
    /\ repair.kind # "none" /\ repair.rest = {}
    /\ debt' = repair.work
    /\ recent' = recent \cup {repair.kind}
    /\ repair' = NoRepair
    /\ UNCHANGED <<lines, job, checkpoints, edits, repairs, scope>>

\* The rows and the audit entry become durable together.
CommitRepair ==
    /\ repair.kind # "none" /\ repair.rest = {}
    /\ repair.base = debt /\ repair.lines = lines
    /\ debt' = repair.work
    /\ recent' = recent \cup {repair.kind}
    /\ repair' = NoRepair
    /\ UNCHANGED <<lines, job, checkpoints, edits, repairs, scope>>

\* A failure, a cancellation or a refused commit: everything is rolled back.
RepairFails ==
    /\ repair.kind # "none"
    /\ repair' = NoRepair
    /\ UNCHANGED <<debt, lines, recent, job, checkpoints, edits, repairs, scope>>

----------------------------------------------------------------------------
(* Checkpoints. *)

WithinLimits(d, ls) == \A e \in Rows : d[e] <= LimitOf(ls, e)

Verdict(d, ls) ==
    IF ~WithinLimits(d, ls) THEN "critical"
    ELSE IF ~DebtSymmetry(d, Rows) THEN "warning" ELSE "healthy"

LinesOf(ls, e) == {i \in LineIds : ls[i].row = e}

\* Mutant: the order of two lines of one pair is left to the planner.
SortedByPair(ids) == SetToSeqs(ids)

\* ORDER BY id: the sequences that list the ids in ascending order.
Sorted(ids) == {s \in SetToSeqs(ids) : \A i, j \in DOMAIN s : i < j => s[i] < s[j]}

\* The orders in which the query may return the lines, pair by pair.
LineOrders(ls) ==
    {o \in [Rows -> UNION {Sorted(LinesOf(ls, e)) : e \in Rows}] :
        \A e \in Rows : o[e] \in Sorted(LinesOf(ls, e))}

\* The digest is injective; it covers limit and status of a line, not its id.
Checksum(d, ls, order) ==
    <<d, [e \in Rows |-> [k \in DOMAIN order[e] |-> <<ls[order[e][k]].limit, ls[order[e][k]].status>>]]>>

\* What a checkpoint stores, and the snapshot it stands for.
Checkpoint(d, ls, order) ==
    [sum |-> Checksum(d, ls, order), verdict |-> Verdict(d, ls), of |-> <<d, ls>>]

BeginCheckpoint ==
    /\ job = <<>> /\ Len(checkpoints) < scope.checkpoints
    /\ job' = <<debt, lines>>
    /\ UNCHANGED <<debt, lines, repair, recent, checkpoints, edits, repairs, scope>>

\* Checksum and verdict come from the snapshot of the transaction's first query.
StoreCheckpoint ==
    /\ job # <<>>
    /\ \E order \in LineOrders(job[2]) :
         checkpoints' = Append(checkpoints, Checkpoint(job[1], job[2], order))
    /\ job' = <<>>
    /\ UNCHANGED <<debt, lines, repair, recent, edits, repairs, scope>>

\* POST /integrity/verify leaves the same facts in the audit log.
Verify ==
    /\ Len(checkpoints) < scope.checkpoints
    /\ \E order \in LineOrders(lines) :
         checkpoints' = Append(checkpoints, Checkpoint(debt, lines, order))
    /\ UNCHANGED <<debt, lines, repair, recent, job, edits, repairs, scope>>

\* One checkpoint that fails takes the whole pass with it.
CheckpointFails ==
    /\ job # <<>>
    /\ job' = <<>>
    /\ UNCHANGED <<debt, lines, repair, recent, checkpoints, edits, repairs, scope>>

IntegrityNext ==
    \/ \E e \in Rows : Pay(e) \/ NetVisit(e) \/ CapVisit(e)
    \/ \E i \in LineIds, line \in Line : EditLine(i, line)
    \/ \E kind \in {"net", "cap"} : BeginRepair(kind)
    \/ CommitRepair \/ RepairFails
    \/ BeginCheckpoint \/ StoreCheckpoint \/ CheckpointFails \/ Verify

IntegritySpec == IntegrityInit /\ [][IntegrityNext]_integrityVars

----------------------------------------------------------------------------
\* Type invariant: a debt row is never negative and the live line of a pair is
\* unique, in the database and in the rows a repair holds.
IntegrityTypeOK ==
    /\ \A d \in {debt, repair.work, repair.base} : d \in [Pairs -> 0..(scope.debt + scope.edits)]
    /\ lines \in [LineIds -> Line \cup {NoLine}]
    /\ \A i, j \in LineIds : i # j /\ Live(lines[i]) /\ Live(lines[j]) => lines[i].row # lines[j].row
    /\ repair.kind \in {"none", "net", "cap"} /\ repair.rest \subseteq Rows /\ repair.seen \subseteq Rows
    /\ Len(checkpoints) <= scope.checkpoints + 1

\* Netting mutual debts, in whatever order the rows are met, moves nobody's net
\* position and changes the capacity of no line: that is why this repair, unlike
\* the other, need not invalidate the router's cached graph.
NettingIsNeutral ==
    repair.kind = "net" =>
        /\ \A p \in Participants : NetPosition(repair.work, p) = NetPosition(repair.base, p)
        /\ \A e \in Rows : Capacity(repair.work, repair.lines, e) = Capacity(repair.base, repair.lines, e)

\* Once both repairs have been committed, in either order and with others'
\* attempts between them, and nothing else has changed, the checks report a
\* healthy equivalent.
RepairsHeal == recent = {"net", "cap"} => Verdict(debt, lines) = "healthy"

\* A repair never makes anybody owe more than before, and does not undo a payment
\* that was committed while it ran.
RepairsOnlyForgive ==
    repair.kind # "none" /\ debt' # debt /\ edits' = edits => \A e \in Rows : debt'[e] <= debt[e]

\* Checkpoints tell states apart and nothing else: the same rows always have the
\* same checksum and verdict, with closed incarnations of a line among them, and
\* equal checksums mean equal debts, equal limits and the same verdict.
CheckpointsTell ==
    \A i, j \in DOMAIN checkpoints :
        LET c == checkpoints[i]  k == checkpoints[j] IN
        /\ c.of = k.of => c.sum = k.sum
        /\ c.sum = k.sum =>
             /\ c.verdict = k.verdict /\ c.of[1] = k.of[1]
             /\ \A e \in Rows : LimitOf(c.of[2], e) = LimitOf(k.of[2], e)
=============================================================================
