----------------------------- MODULE HubProofs -----------------------------
(***************************************************************************)
(* Theorems about Hub, for any participants, payments, requests, limits    *)
(* and number of faults.                                                   *)
(***************************************************************************)
EXTENDS Hub, Lemmas

USE DEF LineStates, LiveStates, TxStates, ActiveTx, TerminalTx, InflightKinds,
        Failures, Replies, PCs

----------------------------------------------------------------------------
(* Debts. *)

\* Flows leave every debt a natural number, and whatever they touch netted.
LEMMA ApplyFlowsNets ==
    ASSUME NEW d \in [Pairs -> Nat], NEW f \in [Pairs -> Nat]
    PROVE  /\ ApplyFlows(d, f) \in [Pairs -> Nat]
           /\ \A e \in Pairs :
                /\ e \in Touched(f) => \/ ApplyFlows(d, f)[e] = 0
                                       \/ ApplyFlows(d, f)[Flip(e)] = 0
                /\ e \notin Touched(f) => /\ Flip(e) \notin Touched(f)
                                          /\ ApplyFlows(d, f)[e] = d[e]
<1>1. \A e \in Pairs : e \in Touched(f) <=> Flip(e) \in Touched(f)
  BY FlipPair DEF Touched
<1>2. \A e \in Pairs : Flip(e) \in Pairs /\ Flip(Flip(e)) = e
  BY FlipPair
<1>3. ApplyFlows(d, f) \in [Pairs -> Nat]
  BY <1>2 DEF ApplyFlows
<1>4. ASSUME NEW e \in Pairs, e \in Touched(f)
      PROVE  ApplyFlows(d, f)[e] = 0 \/ ApplyFlows(d, f)[Flip(e)] = 0
  BY <1>1, <1>2, <1>4 DEF ApplyFlows
<1>5. ASSUME NEW e \in Pairs, e \notin Touched(f)
      PROVE  ApplyFlows(d, f)[e] = d[e]
  BY <1>5 DEF ApplyFlows
<1> QED BY <1>1, <1>3, <1>4, <1>5

----------------------------------------------------------------------------
(* What a step of the hub may do to the database.                           *)

DbTypeOK ==
    /\ debt \in [Pairs -> Nat]
    /\ row \in [Pairs -> Nat]
    /\ status \in [Pairs -> LineStates]
    /\ limit \in [Pairs -> Nat]
    /\ auto \in [Pairs -> BOOLEAN]
    /\ stamp \in [Payments -> SUBSET Contents]
    /\ tx \in [Payments -> TxStates]
    /\ flow \in [Payments -> [Pairs -> Nat]]
    /\ lock \in [Payments -> {"none", "live", "expired"}]
    /\ aged \in SUBSET Payments
    /\ cleared \in SUBSET (SUBSET RowIds)

\* A commit that its checks, or PostgreSQL for one in flight, let through.
SoundCommit(t) ==
    /\ tx[t] = "PREPARED"
    /\ \A e \in Touched(flow[t]) :
          ApplyFlows(debt, flow[t])[e] <= LiveLimit(Flip(e))
    /\ CommitEffect(t)

LineStep ==
    \/ \E e \in EditableLines :
         \/ \E lim \in NewLimits, consent \in BOOLEAN : CreateLine(e, lim, consent)
         \/ \E lim \in NewLimits \cup {limit[e]}, consent \in BOOLEAN :
              UpdateLine(e, lim, consent)
         \/ CloseLine(e)
    \/ \E p \in Freezable, lines \in BOOLEAN : FreezeParticipant(p, lines)

ClearRows(rows, amount) ==
    /\ MayClear(rows, amount)
    /\ SetDebt(ReduceAll(debt, EdgesOf(rows), amount))
    /\ cleared' = cleared \cup {rows}
    /\ UNCHANGED <<lineVars, payVars>>

ClearStep ==
    \E rows \in SUBSET RowIds :
        \E amount \in {debt[e] : e \in EdgesOf(rows)} : ClearRows(rows, amount)

\* The ways the rows change; every action of Hub is one of them or none.
DbStep ==
    \/ UNCHANGED dbVars
    \/ \E t \in Payments : LockExpires(t) \/ TxAges(t)
    \/ \E r \in Requests : InsertEffect(r)
    \/ \E t \in Payments : tx[t] = "NEW" /\ PrepareEffect(t)
    \/ \E t \in Payments : SoundCommit(t)
    \/ \E t \in Payments : AbortEffect(t)
    \/ LineStep
    \/ ClearStep

\* Reducing existing rows by the smallest of them leaves natural amounts, and
\* empties at least one of the rows.
LEMMA ClearStepReduces ==
    ASSUME NEW rows \in SUBSET RowIds, NEW amount \in {debt[e] : e \in EdgesOf(rows)},
           debt \in [Pairs -> Nat], MayClear(rows, amount)
    PROVE  /\ EdgesOf(rows) \subseteq Pairs
           /\ ReduceAll(debt, EdgesOf(rows), amount) \in [Pairs -> Nat]
           /\ \A e \in Pairs : ReduceAll(debt, EdgesOf(rows), amount)[e] <= debt[e]
           /\ \E x \in rows : /\ ReduceAll(debt, EdgesOf(rows), amount)[x[1]] = 0
                              /\ debt[x[1]] > 0 /\ row[x[1]] = x[2]
<1>1. EdgesOf(rows) \subseteq Pairs
  BY DEF EdgesOf, RowIds
<1>2. amount \in Nat /\ \A e \in EdgesOf(rows) : amount <= debt[e]
  BY <1>1 DEF MayClear
<1>3. ReduceAll(debt, EdgesOf(rows), amount) \in [Pairs -> Nat]
  BY <1>1, <1>2 DEF ReduceAll
<1>4. \A e \in Pairs : ReduceAll(debt, EdgesOf(rows), amount)[e] <= debt[e]
  BY <1>1, <1>2 DEF ReduceAll
<1>5. PICK e \in EdgesOf(rows) : amount = debt[e]
  OBVIOUS
<1>6. PICK x \in rows : e = x[1]
  BY <1>5 DEF EdgesOf
<1>7. debt[x[1]] > 0 /\ row[x[1]] = x[2]
  BY <1>6 DEF MayClear, RowsExist
<1>8. ReduceAll(debt, EdgesOf(rows), amount)[x[1]] = 0
  BY <1>1, <1>5, <1>6 DEF ReduceAll
<1> QED BY <1>1, <1>3, <1>4, <1>6, <1>7, <1>8

\* Replacing the debts keeps both columns natural, and a row's generation
\* never goes down.
LEMMA SetDebtType ==
    ASSUME debt \in [Pairs -> Nat], row \in [Pairs -> Nat],
           NEW d \in [Pairs -> Nat], SetDebt(d)
    PROVE  /\ debt' \in [Pairs -> Nat] /\ row' \in [Pairs -> Nat]
           /\ \A e \in Pairs : row'[e] >= row[e]
BY DEF SetDebt

\* Clearing only shrinks debts and touches no line.
LEMMA ClearStepShrinks ==
    ASSUME DbTypeOK, ClearStep
    PROVE  /\ debt' \in [Pairs -> Nat]
           /\ \A e \in Pairs : debt'[e] <= debt[e]
           /\ UNCHANGED <<status, limit>>
<1>1. PICK rows \in SUBSET RowIds :
        \E amount \in {debt[e] : e \in EdgesOf(rows)} : ClearRows(rows, amount)
  BY DEF ClearStep
<1>2. PICK amount \in {debt[e] : e \in EdgesOf(rows)} : ClearRows(rows, amount)
  BY <1>1
<1>3. MayClear(rows, amount) /\ debt' = ReduceAll(debt, EdgesOf(rows), amount)
  BY <1>2 DEF ClearRows, SetDebt
<1>4. UNCHANGED <<status, limit>>
  BY <1>2 DEF ClearRows, lineVars
<1>5. debt \in [Pairs -> Nat]
  BY DEF DbTypeOK
<1> QED BY <1>3, <1>4, <1>5, ClearStepReduces

\* Every change of the rows is well typed.
LEMMA DbStepType ==
    ASSUME DbTypeOK, DbStep
    PROVE  DbTypeOK'
<1> USE DEF DbTypeOK
<1>1. CASE UNCHANGED dbVars
  BY <1>1 DEF dbVars
<1>2. CASE \E t \in Payments : LockExpires(t) \/ TxAges(t)
  BY <1>2 DEF LockExpires, TxAges
<1>3. CASE \E r \in Requests : InsertEffect(r)
  BY <1>3, ServiceAssumption DEF InsertEffect
<1>4. CASE \E t \in Payments : tx[t] = "NEW" /\ PrepareEffect(t)
  BY <1>4 DEF PrepareEffect
<1>5. CASE \E t \in Payments : SoundCommit(t)
  <2>1. PICK t \in Payments : SoundCommit(t)
    BY <1>5
  <2>2. debt' \in [Pairs -> Nat] /\ row' \in [Pairs -> Nat]
    BY <2>1, ApplyFlowsNets, SetDebtType DEF SoundCommit, CommitEffect
  <2> QED BY <2>1, <2>2 DEF SoundCommit, CommitEffect
<1>6. CASE \E t \in Payments : AbortEffect(t)
  BY <1>6 DEF AbortEffect
<1>7. CASE LineStep
  <2> USE DEF moneyVars, payVars
  <2>1. ASSUME NEW e \in EditableLines, NEW lim \in NewLimits, NEW consent \in BOOLEAN,
               CreateLine(e, lim, consent)
        PROVE  DbTypeOK'
    BY <2>1, TrustLinesAssumption DEF CreateLine
  <2>2. ASSUME NEW e \in EditableLines, NEW lim \in NewLimits \cup {limit[e]},
               NEW consent \in BOOLEAN, UpdateLine(e, lim, consent)
        PROVE  DbTypeOK'
    BY <2>2, TrustLinesAssumption DEF UpdateLine
  <2>3. ASSUME NEW e \in EditableLines, CloseLine(e)
        PROVE  DbTypeOK'
    BY <2>3 DEF CloseLine
  <2>4. ASSUME NEW p \in Freezable, NEW lines \in BOOLEAN, FreezeParticipant(p, lines)
        PROVE  DbTypeOK'
    BY <2>4 DEF FreezeParticipant
  <2> HIDE DEF DbTypeOK
  <2> QED BY <1>7, <2>1, <2>2, <2>3, <2>4 DEF LineStep
<1>8. CASE ClearStep
  <2>1. debt' \in [Pairs -> Nat] /\ row' \in [Pairs -> Nat]
    BY <1>8, ClearStepReduces, SetDebtType DEF ClearStep, ClearRows
  <2> QED BY <1>8, <2>1 DEF ClearStep, ClearRows, lineVars, payVars
<1> QED BY <1>1, <1>2, <1>3, <1>4, <1>5, <1>6, <1>7, <1>8 DEF DbStep

----------------------------------------------------------------------------
(* What no step may do to the database.                                     *)

\* Every clearing that committed deleted one of the rows that name it.
ClearedRowsDead == \A rows \in cleared : \E x \in rows : row[x[1]] > x[2]

DbInv == /\ LocksMatchState /\ NoMutualDebt /\ LimitsRespected /\ ClearedRowsDead
         /\ LedgerIsSumOfCommitted

\* A payment holds its reservations exactly while PREPARED, and the steps that
\* end it end both.
LEMMA DbStepLocks ==
    ASSUME DbTypeOK, LocksMatchState, DbStep
    PROVE  /\ LocksMatchState'
           /\ \A t \in Payments : tx[t] \in TerminalTx => tx'[t] = tx[t]
<1> USE DEF DbTypeOK, LocksMatchState
<1>1. CASE UNCHANGED dbVars
  BY <1>1 DEF dbVars
<1>2. CASE \E t \in Payments : LockExpires(t) \/ TxAges(t)
  BY <1>2 DEF LockExpires, TxAges
<1>3. CASE \E r \in Requests : InsertEffect(r)
  BY <1>3, ServiceAssumption DEF InsertEffect
<1>4. CASE \E t \in Payments : tx[t] = "NEW" /\ PrepareEffect(t)
  BY <1>4 DEF PrepareEffect
<1>5. CASE \E t \in Payments : SoundCommit(t)
  BY <1>5 DEF SoundCommit, CommitEffect
<1>6. CASE \E t \in Payments : AbortEffect(t)
  BY <1>6 DEF AbortEffect
<1>7. CASE LineStep
  BY <1>7 DEF LineStep, CreateLine, UpdateLine, CloseLine, FreezeParticipant, payVars
<1>8. CASE ClearStep
  BY <1>8 DEF ClearStep, ClearRows, payVars
<1> QED BY <1>1, <1>2, <1>3, <1>4, <1>5, <1>6, <1>7, <1>8 DEF DbStep

\* Debts change by a sound commit, by clearing, or not at all.
LEMMA DebtMoves ==
    ASSUME DbStep
    PROVE  \/ (\E t \in Payments : SoundCommit(t))
           \/ ClearStep
           \/ UNCHANGED <<debt, row, cleared>>
BY DEF DbStep, LockExpires, TxAges, InsertEffect, PrepareEffect, AbortEffect,
       LineStep, CreateLine, UpdateLine, CloseLine, FreezeParticipant,
       moneyVars, dbVars

\* Both directions of a pair are never owed at once.
LEMMA DbStepNetted ==
    ASSUME DbTypeOK, NoMutualDebt, DbStep
    PROVE  NoMutualDebt'
<1> USE DEF DbTypeOK, NoMutualDebt
<1>1. CASE \E t \in Payments : SoundCommit(t)
  <2>1. PICK t \in Payments : SoundCommit(t)
    BY <1>1
  <2>2. debt' = ApplyFlows(debt, flow[t])
    BY <2>1 DEF SoundCommit, CommitEffect, SetDebt
  <2> QED BY <2>2, ApplyFlowsNets, FlipPair
<1>2. CASE ClearStep
  <2> HIDE DEF DbTypeOK
  <2>1. debt' \in [Pairs -> Nat] /\ \A e \in Pairs : debt'[e] <= debt[e]
    BY <1>2, ClearStepShrinks
  <2> QED BY <2>1, FlipPair DEF DbTypeOK
<1>3. CASE UNCHANGED <<debt, row, cleared>>
  BY <1>3
<1> QED BY <1>1, <1>2, <1>3, DebtMoves

\* A clearing's rows stay dead: generations only grow.
LEMMA DbStepCleared ==
    ASSUME DbTypeOK, ClearedRowsDead, DbStep
    PROVE  ClearedRowsDead'
<1> USE DEF DbTypeOK, ClearedRowsDead
<1>1. CASE \E t \in Payments : SoundCommit(t)
  <2>1. \A e \in Pairs : row'[e] >= row[e] /\ row'[e] \in Nat
    BY <1>1, ApplyFlowsNets, SetDebtType DEF SoundCommit, CommitEffect
  <2>2. cleared' = cleared
    BY <1>1 DEF SoundCommit, CommitEffect
  <2> QED BY <2>1, <2>2 DEF RowIds
<1>2. CASE ClearStep
  <2>1. PICK rows \in SUBSET RowIds :
          \E amount \in {debt[e] : e \in EdgesOf(rows)} : ClearRows(rows, amount)
    BY <1>2 DEF ClearStep
  <2>2. PICK amount \in {debt[e] : e \in EdgesOf(rows)} : ClearRows(rows, amount)
    BY <2>1
  <2>3. \A e \in Pairs : row'[e] >= row[e] /\ row'[e] \in Nat
    BY <2>2, ClearStepReduces, SetDebtType DEF ClearRows
  <2>4. \E x \in rows : row'[x[1]] > x[2]
    <3>1. PICK x \in rows : /\ ReduceAll(debt, EdgesOf(rows), amount)[x[1]] = 0
                            /\ debt[x[1]] > 0 /\ row[x[1]] = x[2]
      BY <2>2, ClearStepReduces DEF ClearRows
    <3>2. x[1] \in Pairs /\ x[2] \in Nat
      BY DEF RowIds
    <3>3. row'[x[1]] = row[x[1]] + 1
      BY <2>2, <3>1, <3>2 DEF ClearRows, SetDebt
    <3> QED BY <3>1, <3>2, <3>3
  <2>5. cleared' = cleared \cup {rows}
    BY <2>2 DEF ClearRows
  <2> QED BY <2>3, <2>4, <2>5 DEF RowIds
<1>3. CASE UNCHANGED <<debt, row, cleared>>
  BY <1>3
<1> QED BY <1>1, <1>2, <1>3, DebtMoves

\* No step takes a debt above its live line, or a live line below its debt.
LEMMA DbStepLimits ==
    ASSUME DbTypeOK, LimitsRespected, DbStep
    PROVE  LimitsRespected'
<1> USE DEF DbTypeOK, LimitsRespected, LiveLimit
<1>0. \A e \in Pairs : Flip(e) \in Pairs /\ Flip(Flip(e)) = e
  BY FlipPair
<1>1. CASE \E t \in Payments : SoundCommit(t)
  <2>1. PICK t \in Payments : SoundCommit(t)
    BY <1>1
  <2>2. debt' = ApplyFlows(debt, flow[t]) /\ UNCHANGED <<status, limit>>
    BY <2>1 DEF SoundCommit, CommitEffect, SetDebt
  <2>3. ASSUME NEW e \in Pairs PROVE debt'[e] <= LiveLimit(Flip(e))'
    <3>1. CASE e \in Touched(flow[t])
      BY <2>1, <2>2, <3>1 DEF SoundCommit
    <3>2. CASE e \notin Touched(flow[t])
      BY <2>2, <3>2, ApplyFlowsNets
    <3> QED BY <3>1, <3>2
  <2> QED BY <2>3
<1>2. CASE ClearStep
  <2> HIDE DEF DbTypeOK
  <2>1. /\ debt' \in [Pairs -> Nat] /\ \A e \in Pairs : debt'[e] <= debt[e]
        /\ UNCHANGED <<status, limit>>
    BY <1>2, ClearStepShrinks
  <2> QED BY <1>0, <2>1 DEF DbTypeOK
<1>3. CASE LineStep
  <2> USE DEF moneyVars
  <2>1. ASSUME NEW e \in EditableLines, NEW lim \in NewLimits, NEW consent \in BOOLEAN,
               CreateLine(e, lim, consent)
        PROVE  LimitsRespected'
    BY <1>0, <2>1, TrustLinesAssumption DEF CreateLine
  <2>2. ASSUME NEW e \in EditableLines, NEW lim \in NewLimits \cup {limit[e]},
               NEW consent \in BOOLEAN, UpdateLine(e, lim, consent)
        PROVE  LimitsRespected'
    BY <1>0, <2>2, TrustLinesAssumption DEF UpdateLine, UsedAmount
  <2>3. ASSUME NEW e \in EditableLines, CloseLine(e)
        PROVE  LimitsRespected'
    BY <1>0, <2>3, TrustLinesAssumption DEF CloseLine, UsedAmount, ReverseUsedAmount
  <2>4. ASSUME NEW p \in Freezable, NEW lines \in BOOLEAN, FreezeParticipant(p, lines)
        PROVE  LimitsRespected'
    BY <1>0, <2>4 DEF FreezeParticipant
  <2> HIDE DEF LimitsRespected, DbTypeOK
  <2> QED BY <1>3, <2>1, <2>2, <2>3, <2>4 DEF LineStep
<1>4. CASE UNCHANGED <<debt, status, limit>>
  BY <1>4
<1> HIDE DEF LimitsRespected, DbTypeOK
<1>5. \/ (\E t \in Payments : SoundCommit(t)) \/ ClearStep \/ LineStep
      \/ UNCHANGED <<debt, status, limit>>
  BY DEF DbStep, LockExpires, TxAges, InsertEffect, PrepareEffect, AbortEffect, dbVars
<1> QED BY <1>1, <1>2, <1>3, <1>4, <1>5

CommittedPayments == {t \in Payments : tx[t] = "COMMITTED"}

\* What the payments bring p, each by its flows.
Brought(p) == [t \in Payments |-> Inflow(flow[t], p)]

\* The books of p: its position is the initial one and what committed payments
\* brought it.
Balanced(p) ==
    NetPosition(debt, p)
      = NetPosition(Debt0, p) + SumFunctionOnSet(Brought(p), CommittedPayments)

\* A commit adds its payment to the committed ones and its flows to the
\* positions, both once.
LEMMA CommitBalances ==
    ASSUME DbTypeOK, NEW t \in Payments, SoundCommit(t), NEW p \in Participants, Balanced(p)
    PROVE  Balanced(p)'
<1>1. /\ debt \in [Pairs -> Nat] /\ flow \in [Payments -> [Pairs -> Nat]]
      /\ tx \in [Payments -> TxStates]
  BY DEF DbTypeOK
<1>2. /\ tx[t] = "PREPARED" /\ debt' = ApplyFlows(debt, flow[t]) /\ flow' = flow
      /\ tx' = [tx EXCEPT ![t] = "COMMITTED"]
  BY DEF SoundCommit, CommitEffect, SetDebt
<1>3. NetPosition(debt', p) = NetPosition(debt, p) + Inflow(flow[t], p)
  <2>1. flow[t] \in [Pairs -> Nat]
    BY <1>1
  <2> QED BY <1>1, <1>2, <2>1, HubAssumption, ApplyFlowsMoves
<1>4. /\ CommittedPayments' = CommittedPayments \cup {t} /\ t \notin CommittedPayments
      /\ CommittedPayments' \subseteq Payments
  BY <1>1, <1>2 DEF CommittedPayments
<1>5. Brought(p)' = Brought(p) /\ Brought(p)[t] = Inflow(flow[t], p)
  BY <1>2 DEF Brought
<1>6. \A u \in Payments : Brought(p)[u] \in Int
  <2>1. \A u \in Payments : flow[u] \in [Pairs -> Int]
    BY <1>1
  <2>2. \A u \in Payments : Inflow(flow[u], p) \in Int
    BY <2>1, HubAssumption, InflowIsSum
  <2> QED BY <2>2 DEF Brought
<1>7. IsFiniteSet(CommittedPayments')
  BY <1>4, HubAssumption, FS_Subset
<1> DEFINE new == CommittedPayments'
<1>8. new \ {t} = CommittedPayments /\ t \in new /\ IsFiniteSet(new)
      /\ \A u \in new : Brought(p)[u] \in Int
  BY <1>4, <1>6, <1>7
<1> HIDE DEF new
<1>9. SumFunctionOnSet(Brought(p), new)
        = Brought(p)[t] + SumFunctionOnSet(Brought(p), CommittedPayments)
  BY <1>8, SumRemove
<1>10. /\ SumFunctionOnSet(Brought(p), CommittedPayments) \in Int
       /\ NetPosition(debt, p) \in Int /\ NetPosition(Debt0, p) \in Int
  <2>1. SumFunctionOnSet(Brought(p), CommittedPayments) \in Int
    BY <1>4, <1>6, HubAssumption, SumType
  <2>2. debt \in [Pairs -> Int] /\ Debt0 \in [Pairs -> Int]
    BY <1>1, HubAssumption
  <2> QED BY <2>1, <2>2, HubAssumption, InflowIsSum DEF NetPosition
<1>11. Brought(p)[t] \in Int
  BY <1>6
<1>12. NetPosition(debt', p)
         = NetPosition(Debt0, p) + SumFunctionOnSet(Brought(p), new)
  BY <1>3, <1>5, <1>9, <1>10, <1>11 DEF Balanced
<1> QED BY <1>5, <1>12 DEF Balanced, new, NetPosition, Inflow

\* Whatever changes neither debts nor the flows of committed payments keeps the books.
LEMMA OthersBalance ==
    ASSUME NEW p \in Participants, Balanced(p), debt' = debt,
           CommittedPayments' = CommittedPayments,
           \A t \in CommittedPayments : flow'[t] = flow[t]
    PROVE  Balanced(p)'
<1>1. IsFiniteSet(CommittedPayments)
  BY HubAssumption, FS_Subset DEF CommittedPayments
<1>2. \A t \in CommittedPayments : Brought(p)[t] = Brought(p)'[t]
  BY DEF Brought, CommittedPayments
<1>3. SumFunctionOnSet(Brought(p)', CommittedPayments)
        = SumFunctionOnSet(Brought(p), CommittedPayments)
  BY <1>1, <1>2, SumSame
<1> QED BY <1>3 DEF Balanced, NetPosition, Inflow

\* Every net position is the initial one moved by the flows of the committed
\* payments, each counted once.
LEMMA DbStepBooks ==
    ASSUME DbTypeOK, LedgerIsSumOfCommitted, DbStep
    PROVE  LedgerIsSumOfCommitted'
<1>1. \A p \in Participants : Balanced(p)
  BY DEF LedgerIsSumOfCommitted, Balanced, Brought, CommittedPayments
<1>2. SUFFICES ASSUME NEW p \in Participants PROVE Balanced(p)'
  BY DEF LedgerIsSumOfCommitted, Balanced, Brought, CommittedPayments
<1>3. CASE \E t \in Payments : SoundCommit(t)
  BY <1>1, <1>3, CommitBalances
<1>4. CASE ClearStep
  <2>1. PICK rows \in SUBSET RowIds :
          \E amount \in {debt[e] : e \in EdgesOf(rows)} : ClearRows(rows, amount)
    BY <1>4 DEF ClearStep
  <2>2. PICK amount \in {debt[e] : e \in EdgesOf(rows)} : ClearRows(rows, amount)
    BY <2>1
  <2>3. /\ debt' = ReduceAll(debt, EdgesOf(rows), amount) /\ UNCHANGED <<tx, flow>>
        /\ ClearingNeutrality(debt, ReduceAll(debt, EdgesOf(rows), amount), EdgesOf(rows))
    BY <2>2 DEF ClearRows, SetDebt, MayClear, payVars
  <2>4. EdgesOf(rows) \in SUBSET Pairs
    BY DEF EdgesOf, RowIds
  <2>5. NetPosition(debt', p) = NetPosition(debt, p)
    BY <2>3, <2>4, NeutralForAll
  <2> QED BY <1>1, <2>3, <2>5 DEF Balanced, Brought, CommittedPayments, NetPosition, Inflow
<1>5. CASE \E r \in Requests : InsertEffect(r)
  <2>1. PICK r \in Requests : InsertEffect(r)
    BY <1>5
  <2>2. /\ TxOf[r] \in Payments /\ tx[TxOf[r]] = "absent" /\ debt' = debt
        /\ tx' = [tx EXCEPT ![TxOf[r]] = "NEW"]
        /\ \A t \in Payments : t # TxOf[r] => flow'[t] = flow[t]
    BY <2>1, ServiceAssumption DEF InsertEffect, DbTypeOK
  <2>3. /\ CommittedPayments' = CommittedPayments
        /\ \A t \in CommittedPayments : flow'[t] = flow[t]
    BY <2>2 DEF CommittedPayments, DbTypeOK
  <2> QED BY <1>1, <2>2, <2>3, OthersBalance
<1>6. CASE /\ UNCHANGED <<debt, flow>>
           /\ \A t \in Payments : tx'[t] = "COMMITTED" <=> tx[t] = "COMMITTED"
  <2>1. CommittedPayments' = CommittedPayments
    BY <1>6 DEF CommittedPayments
  <2> QED BY <1>1, <1>6, <2>1, OthersBalance
<1>7. \/ \E t \in Payments : SoundCommit(t)
      \/ ClearStep
      \/ \E r \in Requests : InsertEffect(r)
      \/ /\ UNCHANGED <<debt, flow>>
         /\ \A t \in Payments : tx'[t] = "COMMITTED" <=> tx[t] = "COMMITTED"
  <2>1. CASE UNCHANGED dbVars
    BY <2>1 DEF dbVars
  <2>2. CASE \E t \in Payments : LockExpires(t) \/ TxAges(t)
    BY <2>2 DEF LockExpires, TxAges
  <2>3. CASE \E t \in Payments : tx[t] = "NEW" /\ PrepareEffect(t)
    BY <2>3 DEF PrepareEffect, DbTypeOK
  <2>4. CASE \E t \in Payments : AbortEffect(t)
    BY <2>4 DEF AbortEffect, DbTypeOK
  <2>5. CASE LineStep
    BY <2>5 DEF LineStep, CreateLine, UpdateLine, CloseLine, FreezeParticipant, moneyVars, payVars
  <2> QED BY <2>1, <2>2, <2>3, <2>4, <2>5 DEF DbStep
<1> QED BY <1>3, <1>4, <1>5, <1>6, <1>7

\* A step of the database keeps everything said about it.
LEMMA DbStepInv ==
    ASSUME DbTypeOK, DbInv, DbStep
    PROVE  DbInv'
BY DbStepLocks, DbStepNetted, DbStepCleared, DbStepLimits, DbStepBooks DEF DbInv

----------------------------------------------------------------------------
(* Every action of Hub is a step of the database.                           *)

\* What is decided when prepare or commit goes through.
LEMMA OutcomeOk ==
    ASSUME DbTypeOK, LocksMatchState, NEW t \in Payments, NEW old
    PROVE  /\ PrepareOutcome(t, old) = "ok" => tx[t] = "NEW"
           /\ CommitOutcome(t, old) = "ok" => tx[t] = "PREPARED" /\ CommitChecks(t)
           /\ CommitOutcome(t, old) = "noop" => tx[t] = "COMMITTED"
           /\ CommitOutcome(t, old) # "not_found" => tx[t] # "absent"
           /\ CommitOutcome(t, old) \in {"conflict", "violation", "expired"}
                => tx[t] \in {"NEW", "PREPARED", "ABORTED"}
           /\ PrepareOutcome(t, old) \notin {"ok", "noop", "not_found"}
                => tx[t] \in {"NEW", "PREPARED", "ABORTED"}
<1> USE DEF DbTypeOK, LocksMatchState
<1>1. tx[t] \in TxStates /\ (lock[t] # "none" <=> tx[t] = "PREPARED")
  OBVIOUS
<1>2. /\ PrepareOutcome(t, old) = "ok" => tx[t] = "NEW"
      /\ PrepareOutcome(t, old) \notin {"ok", "noop", "not_found"}
           => tx[t] \in {"NEW", "PREPARED", "ABORTED"}
  BY <1>1 DEF PrepareOutcome
<1>3. /\ CommitOutcome(t, old) = "ok" => tx[t] = "PREPARED" /\ CommitChecks(t)
      /\ CommitOutcome(t, old) = "noop" => tx[t] = "COMMITTED"
      /\ CommitOutcome(t, old) # "not_found" => tx[t] # "absent"
      /\ CommitOutcome(t, old) \in {"conflict", "violation", "expired"}
           => tx[t] \in {"NEW", "PREPARED", "ABORTED"}
  BY <1>1 DEF CommitOutcome
<1> QED BY <1>2, <1>3

\* The checks of commit make it sound.
LEMMA ChecksSound ==
    ASSUME DbTypeOK, NEW t \in Payments, tx[t] = "PREPARED", CommitChecks(t),
           CommitEffect(t)
    PROVE  SoundCommit(t)
<1>1. \A e \in Touched(flow[t]) : e \in Pairs /\ Flip(e) \in Pairs
  BY FlipPair DEF Touched
<1>2. \A e \in Pairs : ActiveLimit(e) \in Nat /\ LiveLimit(e) \in Nat
                       /\ ActiveLimit(e) <= LiveLimit(e)
  BY DEF ActiveLimit, LiveLimit, DbTypeOK
<1>3. ApplyFlows(debt, flow[t]) \in [Pairs -> Nat]
  BY ApplyFlowsNets DEF DbTypeOK
<1>4. \A e \in Touched(flow[t]) :
        ApplyFlows(debt, flow[t])[e] <= ActiveLimit(Flip(e))
  BY DEF CommitChecks, TrustLimits
<1> QED BY <1>1, <1>2, <1>3, <1>4 DEF SoundCommit

\* Everything that is not a database step leaves the rows alone, and the guards
\* of those that are make them one.
LEMMA NextIsDbStep ==
    ASSUME DbTypeOK, cand \in [Clearers -> SUBSET RowIds], LocksMatchState,
           InflightMatchesState, [Next]_vars
    PROVE  DbStep
<1>1. ASSUME NEW t \in Payments, TimePasses(t) PROVE DbStep
  BY <1>1 DEF TimePasses, DbStep
<1>2. ASSUME NEW t \in Payments, DatabaseFinishes(t) PROVE DbStep
  <2>1. CASE inflight[t] = "prepare" /\ PrepareEffect(t)
    BY <2>1 DEF InflightMatchesState, DbStep
  <2>2. CASE inflight[t] = "commit" /\ StillSerializable(t) /\ CommitEffect(t)
    BY <2>2 DEF InflightMatchesState, StillSerializable, SoundCommit, DbStep
  <2>3. CASE InflightDies(t)
    BY <2>3 DEF InflightDies, DbStep
  <2>4. CASE \E r \in Requests : InsertLands(r) \/ InsertDies(r)
    BY <2>4 DEF InsertLands, InsertDies, DbStep
  <2> QED BY <1>2, <2>1, <2>2, <2>3, <2>4 DEF DatabaseFinishes, InflightLands
<1>3. ASSUME NEW t \in Payments, RecoveryAborts(t) \/ RecoveryMisses(t) PROVE DbStep
  BY <1>3 DEF RecoveryAborts, RecoverOne, RecoveryMisses, RecoverOneFails, DbStep
<1>4. ASSUME NEW r \in Requests, RequestRuns(r) PROVE DbStep
  <2>0. TxOf[r] \in Payments
    BY ServiceAssumption
  <2>1. CASE Refuse(r) \/ Lookup(r) \/ NoRoute(r) \/ ReadBack(r)
    BY <2>1 DEF Refuse, Lookup, NoRoute, ReadBack, DbStep
  <2>2. CASE Insert(r)
    BY <2>2 DEF Insert, DbStep
  <2>3. CASE Prepare(r)
    BY <2>0, <2>3, OutcomeOk DEF Prepare, DbStep
  <2>4. CASE Commit(r)
    BY <2>0, <2>4, OutcomeOk, ChecksSound DEF Commit, DbStep
  <2>5. CASE Abort(r)
    BY <2>0, <2>5 DEF Abort, DbStep
  <2> QED BY <1>4, <2>1, <2>2, <2>3, <2>4, <2>5 DEF RequestRuns, RequestStep
<1>5. ASSUME NEW r \in Requests, RequestDisturbed(r) PROVE DbStep
  <2>0. TxOf[r] \in Payments
    BY ServiceAssumption
  <2> QED BY <1>5, <2>0
      DEF RequestDisturbed, RetryUoW, DatabaseError, OwnerSetChanged, CleanUpFails,
          Crash, Interrupt, DbStep
<1>6. CASE RecoveryScans
  BY <1>6 DEF RecoveryScans, ScanExpired, ScanStale, EndIteration, DbStep
<1>7. CASE LineEdited
  BY <1>7 DEF LineEdited, LineStep, DbStep
<1>8. ASSUME NEW w \in Clearers, ClearerRuns(w) PROVE DbStep
  <2>1. CASE ExecuteClearing(w)
    BY <1>8, <2>1 DEF ExecuteClearing, ClearRows, ClearStep, DbStep
  <2> QED BY <1>8, <2>1
      DEF ClearerRuns, FindCycles, SubmitCycle, Choose, DropCandidate,
          AcquireInterlock, NothingCleared, ReleaseInterlock, DbStep
<1>9. CASE UNCHANGED vars
  BY <1>9 DEF vars, DbStep
<1> QED BY <1>1, <1>2, <1>3, <1>4, <1>5, <1>6, <1>7, <1>8, <1>9 DEF Next

----------------------------------------------------------------------------
(* Type correctness.                                                        *)

ServiceTypeOK ==
    /\ inflight \in [Payments -> InflightKinds]
    /\ pc \in [Requests -> PCs]
    /\ why \in [Requests -> Failures]
    /\ reply \in [Requests -> Replies]
    /\ pending \in SUBSET Requests
    /\ nowOf \in [Requests -> SUBSET Payments]
    /\ faults \in 0..MaxFaults

WorkerTypeOK ==
    /\ interlock \in SUBSET Clearers
    /\ recPc \in {"idle", "expired", "stale"}
    /\ recList \in SUBSET Payments
    /\ suspended \in SUBSET Participants
    /\ clrPc \in [Clearers -> {"idle", "candidate", "interlocked", "releasing"}]
    /\ cand \in [Clearers -> SUBSET RowIds]

\* The answer read from a stored row tells its state, to a replay of the request
\* that made it.
LEMMA StoredResultTells ==
    ASSUME DbTypeOK, NEW r \in Requests, tx[TxOf[r]] # "absent"
    PROVE  /\ StoredResult(r) \in {"conflict", "in_progress", "committed", "aborted"}
           /\ StoredResult(r) = "committed" => tx[TxOf[r]] = "COMMITTED"
           /\ StoredResult(r) = "aborted" => tx[TxOf[r]] = "ABORTED"
<1>1. tx[TxOf[r]] \in {"NEW", "PREPARED", "COMMITTED", "ABORTED"}
  BY ServiceAssumption DEF DbTypeOK
<1> QED BY <1>1 DEF StoredResult

\* A request only ever moves between its states and gives one of its replies.
LEMMA ServiceStepType ==
    ASSUME DbTypeOK, ServiceTypeOK, [Next]_vars
    PROVE  ServiceTypeOK'
<1> USE DEF ServiceTypeOK
<1>0. /\ TxOf \in [Requests -> Payments] /\ MaxFaults \in Nat
      /\ Lapsed \in SUBSET Payments /\ Lapsed' \in SUBSET Payments
  BY ServiceAssumption DEF Lapsed
<1>1. ASSUME NEW t \in Payments, DatabaseFinishes(t) PROVE ServiceTypeOK'
  BY <1>1 DEF DatabaseFinishes, InflightLands, InflightDies, InsertLands, InsertDies,
              serviceVars, engineVars
<1>2. ASSUME NEW r \in Requests, RequestRuns(r) PROVE ServiceTypeOK'
  <2>0. tx[TxOf[r]] # "absent" => StoredResult(r) \in Replies
    BY StoredResultTells
  <2>1. CASE Refuse(r) \/ Lookup(r) \/ NoRoute(r) \/ ReadBack(r) \/ Abort(r)
    BY <2>0, <2>1 DEF Refuse, Lookup, NoRoute, ReadBack, Abort, Goto, Answer, CleanUp, engineVars
  <2>2. CASE Insert(r)
    BY <1>0, <2>0, <2>2 DEF Insert, Goto, Begin, Answer, engineVars
  <2>3. CASE Prepare(r)
    BY <1>0, <2>3 DEF Prepare, Goto, Begin, CleanUp, engineVars
  <2>4. CASE Commit(r)
    BY <2>4 DEF Commit, Answer, CleanUp, engineVars
  <2> QED BY <1>2, <2>1, <2>2, <2>3, <2>4 DEF RequestRuns, RequestStep
<1>3. ASSUME NEW r \in Requests, RequestDisturbed(r) PROVE ServiceTypeOK'
  <2>1. ASSUME LeftInFlight(r)
        PROVE  inflight' \in [Payments -> InflightKinds] /\ pending' \in SUBSET Requests
    BY <1>0, <2>1 DEF LeftInFlight
  <2>2. CASE RetryUoW(r) \/ OwnerSetChanged(r) \/ CleanUpFails(r)
    BY <1>0, <2>2 DEF RetryUoW, OwnerSetChanged, CleanUpFails, Fault, Answer, CleanUp,
                      engineVars
  <2>3. CASE DatabaseError(r)
    BY <1>0, <2>1, <2>3 DEF DatabaseError, Fault, Answer, CleanUp
  <2>4. CASE Crash(r)
    BY <1>0, <2>1, <2>4 DEF Crash, Fault, Goto
  <2>5. ASSUME NEW kind \in {"timeout", "cancelled"}, Interrupt(r, kind)
        PROVE  ServiceTypeOK'
    BY <1>0, <2>1, <2>5 DEF Interrupt, Fault, Answer, CleanUp
  <2> QED BY <1>3, <2>2, <2>3, <2>4, <2>5 DEF RequestDisturbed
<1>4. ASSUME NEW t \in Payments, RecoveryMisses(t) PROVE ServiceTypeOK'
  BY <1>0, <1>4 DEF RecoveryMisses, RecoverOneFails, Fault, engineVars
<1>5. CASE UNCHANGED <<serviceVars, inflight>>
  BY <1>5 DEF serviceVars
<1>6. ASSUME NEW w \in Clearers, ClearerRuns(w) PROVE UNCHANGED <<serviceVars, inflight>>
  BY <1>6 DEF ClearerRuns, FindCycles, SubmitCycle, Choose, DropCandidate,
              AcquireInterlock, ExecuteClearing, NothingCleared, ReleaseInterlock, engineVars
<1>7. ASSUME NEW t \in Payments, TimePasses(t) \/ RecoveryAborts(t)
      PROVE  UNCHANGED <<serviceVars, inflight>>
  BY <1>7 DEF TimePasses, RecoveryAborts, RecoverOne, engineVars
<1>8. CASE RecoveryScans \/ LineEdited \/ UNCHANGED vars
  <2>1. UNCHANGED <<serviceVars, inflight>>
    BY <1>8 DEF RecoveryScans, ScanExpired, ScanStale, EndIteration, LineEdited,
                engineVars, vars
  <2> QED BY <1>5, <2>1
<1> HIDE DEF ServiceTypeOK
<1> QED BY <1>1, <1>2, <1>3, <1>4, <1>5, <1>6, <1>7, <1>8 DEF Next

\* A simple cycle is a set of pairs: no participant owes itself.
LEMMA CyclesArePairs == \A c \in SimpleCycles : c \subseteq Pairs
<1>1. ASSUME NEW n \in 3..MaxDepth, NEW q \in [1..n -> Participants],
             \A i, j \in 1..n : q[i] = q[j] => i = j, NEW i \in 1..n
      PROVE  <<q[i], q[IF i = n THEN 1 ELSE i + 1]>> \in Pairs
  <2>1. MaxDepth \in Nat
    BY ClearingAssumption
  <2> DEFINE j == IF i = n THEN 1 ELSE i + 1
  <2>2. j \in 1..n /\ j # i
    BY <2>1
  <2>3. q[i] # q[j] /\ q[i] \in Participants /\ q[j] \in Participants
    BY <1>1, <2>2
  <2> QED BY <2>3 DEF Pairs
<1>2. ASSUME NEW c \in SimpleCycles PROVE c \subseteq Pairs
  <2>1. PICK n \in 3..MaxDepth :
          c \in {{<<q[i], q[IF i = n THEN 1 ELSE i + 1]>> : i \in 1..n} :
                   q \in {p \in [1..n -> Participants] :
                            \A i, j \in 1..n : p[i] = p[j] => i = j}}
    BY DEF SimpleCycles
  <2>2. PICK q \in {p \in [1..n -> Participants] :
                      \A i, j \in 1..n : p[i] = p[j] => i = j} :
          c = {<<q[i], q[IF i = n THEN 1 ELSE i + 1]>> : i \in 1..n}
    BY <2>1
  <2>3. q \in [1..n -> Participants] /\ \A i, j \in 1..n : q[i] = q[j] => i = j
    OBVIOUS
  <2>4. \A i \in 1..n : <<q[i], q[IF i = n THEN 1 ELSE i + 1]>> \in Pairs
    BY <1>1, <2>3
  <2> QED BY <2>2, <2>4
<1> QED BY <1>2

\* Recovery, trust-line edits and clearing keep their own state well typed.
LEMMA WorkerStepType ==
    ASSUME DbTypeOK, WorkerTypeOK, [Next]_vars
    PROVE  WorkerTypeOK'
<1> USE DEF WorkerTypeOK
<1>1. ASSUME NEW t \in Payments, RecoveryAborts(t) \/ RecoveryMisses(t)
      PROVE  WorkerTypeOK'
  BY <1>1 DEF RecoveryAborts, RecoverOne, RecoveryMisses, RecoverOneFails, engineVars,
              clearingVars
<1>2. CASE RecoveryScans
  BY <1>2 DEF RecoveryScans, ScanExpired, ScanStale, EndIteration, engineVars,
              clearingVars, Lapsed, DbTypeOK
<1>3. CASE LineEdited
  BY <1>3, TrustLinesAssumption
  DEF LineEdited, CreateLine, UpdateLine, CloseLine, FreezeParticipant, engineVars,
      recoveryVars, clearingVars
<1>4. ASSUME NEW w \in Clearers, ClearerRuns(w) PROVE WorkerTypeOK'
  <2>1. ASSUME NEW edges \in SUBSET Pairs, Choose(w, edges), UNCHANGED <<recoveryVars, suspended>>
        PROVE  WorkerTypeOK'
    BY <2>1 DEF Choose, RowId, RowIds, DbTypeOK, engineVars, recoveryVars
  <2>2. SimpleCycles \subseteq SUBSET Pairs /\ Submitted \subseteq SUBSET Pairs
    BY CyclesArePairs, ClearingAssumption
  <2>3. CASE FindCycles(w) \/ SubmitCycle(w)
    BY <1>4, <2>1, <2>2, <2>3 DEF ClearerRuns, FindCycles, SubmitCycle
  <2> QED BY <1>4, <2>3
      DEF ClearerRuns, DropCandidate, AcquireInterlock, ExecuteClearing, NothingCleared,
          ReleaseInterlock, engineVars, recoveryVars
<1>5. CASE UNCHANGED <<interlock, recoveryVars, suspended, clearingVars>>
  BY <1>5 DEF recoveryVars, clearingVars
<1>6. ASSUME NEW r \in Requests, RequestRuns(r) \/ RequestDisturbed(r)
      PROVE  UNCHANGED <<interlock, recoveryVars, suspended, clearingVars>>
  BY <1>6 DEF RequestRuns, RequestStep, Refuse, Lookup, NoRoute, Insert, Prepare, Commit, ReadBack,
              Abort, RequestDisturbed, RetryUoW, DatabaseError, OwnerSetChanged,
              CleanUpFails, Crash, Interrupt, engineVars
<1>7. ASSUME NEW t \in Payments, TimePasses(t) \/ DatabaseFinishes(t)
      PROVE  UNCHANGED <<interlock, recoveryVars, suspended, clearingVars>>
  BY <1>7 DEF TimePasses, DatabaseFinishes, InflightLands, InflightDies, InsertLands,
              InsertDies, engineVars
<1>8. CASE UNCHANGED vars
  BY <1>8 DEF vars, engineVars, recoveryVars, clearingVars
<1> HIDE DEF WorkerTypeOK
<1> QED BY <1>1, <1>2, <1>3, <1>4, <1>5, <1>6, <1>7, <1>8 DEF Next

----------------------------------------------------------------------------
(* Who may move a payment.                                                  *)

\* Only requests, recovery and the database move payments and requests.
LEMMA PaymentMoves ==
    ASSUME [Next]_vars
    PROVE  \/ \E t \in Payments : DatabaseFinishes(t) \/ RecoveryAborts(t)
           \/ \E r \in Requests : RequestRuns(r) \/ RequestDisturbed(r)
           \/ UNCHANGED <<tx, inflight, pc, why, reply>>
<1>1. ASSUME NEW t \in Payments, TimePasses(t) \/ RecoveryMisses(t)
      PROVE  UNCHANGED <<tx, inflight, pc, why, reply>>
  BY <1>1 DEF TimePasses, LockExpires, TxAges, RecoveryMisses, RecoverOneFails,
              engineVars, serviceVars, dbVars
<1>2. ASSUME NEW w \in Clearers, ClearerRuns(w)
      PROVE  UNCHANGED <<tx, inflight, pc, why, reply>>
  BY <1>2 DEF ClearerRuns, FindCycles, SubmitCycle, Choose, DropCandidate,
              AcquireInterlock, ExecuteClearing, NothingCleared, ReleaseInterlock,
              engineVars, serviceVars, dbVars, payVars
<1>3. ASSUME RecoveryScans \/ LineEdited \/ UNCHANGED vars
      PROVE  UNCHANGED <<tx, inflight, pc, why, reply>>
  BY <1>3 DEF RecoveryScans, ScanExpired, ScanStale, EndIteration, LineEdited,
              CreateLine, UpdateLine, CloseLine, FreezeParticipant, payVars,
              engineVars, serviceVars, dbVars, vars
<1> QED BY <1>1, <1>2, <1>3 DEF Next

\* Advisory locks keep everyone off a payment whose unit of work is in flight.
LEMMA InflightStep ==
    ASSUME DbTypeOK, ServiceTypeOK, LocksMatchState, InflightMatchesState, [Next]_vars
    PROVE  InflightMatchesState'
<1> USE DEF InflightMatchesState
<1>0. TxOf \in [Requests -> Payments] /\ tx \in [Payments -> TxStates]
      /\ inflight \in [Payments -> InflightKinds]
  BY ServiceAssumption DEF DbTypeOK, ServiceTypeOK
<1>1. ASSUME NEW t \in Payments, inflight' = inflight, inflight[t] = "none",
             \A u \in Payments \ {t} : tx'[u] = tx[u]
      PROVE  InflightMatchesState'
  BY <1>1
<1>2. ASSUME NEW t \in Payments, AbortEffect(t), EngineLocksFree(t), inflight' = inflight
      PROVE  InflightMatchesState'
  BY <1>0, <1>2, <1>1 DEF AbortEffect, EngineLocksFree, TxLockFree
<1>3. ASSUME NEW r \in Requests, InsertEffect(r), inflight' = inflight
      PROVE  InflightMatchesState'
  BY <1>0, <1>3 DEF InsertEffect
<1>4. ASSUME UNCHANGED <<tx, inflight>> PROVE InflightMatchesState'
  BY <1>4
<1>5. ASSUME NEW t \in Payments, DatabaseFinishes(t) PROVE InflightMatchesState'
  <2>1. CASE InflightLands(t)
    BY <1>0, <2>1 DEF InflightLands, PrepareEffect, CommitEffect
  <2>2. CASE InflightDies(t)
    BY <1>0, <2>2 DEF InflightDies, dbVars
  <2>3. ASSUME NEW r \in Requests, InsertLands(r) \/ InsertDies(r)
        PROVE  InflightMatchesState'
    BY <1>3, <1>4, <2>3 DEF InsertLands, InsertDies, engineVars, dbVars
  <2> QED BY <1>5, <2>1, <2>2, <2>3 DEF DatabaseFinishes
<1>6. ASSUME NEW r \in Requests, RequestRuns(r) PROVE InflightMatchesState'
  <2>1. CASE Refuse(r) \/ Lookup(r) \/ NoRoute(r) \/ ReadBack(r)
    BY <1>4, <2>1 DEF Refuse, Lookup, NoRoute, ReadBack, engineVars, dbVars
  <2>2. CASE Insert(r)
    BY <1>3, <1>4, <2>2 DEF Insert, engineVars, dbVars
  <2>3. CASE Prepare(r)
    <3>1. OwnerFree /\ inflight' = inflight
      BY <2>3 DEF Prepare, engineVars
    <3> QED BY <1>0, <3>1 DEF OwnerFree, TxLockFree
  <2>4. CASE Commit(r)
    <3>1. inflight' = inflight /\ EngineLocksFree(TxOf[r])
      BY <2>4 DEF Commit, engineVars
    <3>2. \A u \in Payments \ {TxOf[r]} : tx'[u] = tx[u]
      BY <1>0, <2>4 DEF Commit, CommitEffect, AbortEffect, dbVars
    <3> QED BY <1>0, <1>1, <3>1, <3>2 DEF EngineLocksFree, TxLockFree
  <2>5. CASE Abort(r)
    BY <1>0, <1>2, <2>5 DEF Abort, engineVars
  <2> QED BY <1>6, <2>1, <2>2, <2>3, <2>4, <2>5 DEF RequestRuns, RequestStep
<1>7. ASSUME NEW r \in Requests, RequestDisturbed(r) PROVE InflightMatchesState'
  <2>1. ASSUME LeftInFlight(r), tx' = tx PROVE InflightMatchesState'
    BY <1>0, <2>1, OutcomeOk DEF LeftInFlight
  <2>2. CASE RetryUoW(r) \/ OwnerSetChanged(r)
    BY <1>4, <2>2 DEF RetryUoW, OwnerSetChanged, engineVars, dbVars
  <2>3. CASE DatabaseError(r) \/ Crash(r)
    BY <2>1, <2>3 DEF DatabaseError, Crash, dbVars
  <2>4. ASSUME NEW kind \in {"timeout", "cancelled"}, Interrupt(r, kind)
        PROVE  InflightMatchesState'
    BY <1>4, <2>1, <2>4 DEF Interrupt, dbVars
  <2>5. CASE CleanUpFails(r)
    BY <1>0, <1>2, <1>4, <2>5 DEF CleanUpFails, engineVars, dbVars
  <2> QED BY <1>7, <2>2, <2>3, <2>4, <2>5 DEF RequestDisturbed
<1>8. ASSUME NEW t \in Payments, RecoveryAborts(t) PROVE InflightMatchesState'
  BY <1>2, <1>8 DEF RecoveryAborts, RecoverOne, engineVars
<1> HIDE DEF InflightMatchesState
<1> QED BY <1>4, <1>5, <1>6, <1>7, <1>8, PaymentMoves

\* Only the request that inserted a payment drives it, up to its last step.
LEMMA OwnerStep ==
    ASSUME DbTypeOK, ServiceTypeOK, LocksMatchState, InflightMatchesState, OneOwner,
           [Next]_vars
    PROVE  OneOwner'
<1> DEFINE Open == {"NEW", "PREPARED", "ABORTED"}
<1>0. TxOf \in [Requests -> Payments] /\ tx \in [Payments -> TxStates]
      /\ inflight \in [Payments -> InflightKinds]
      /\ pc \in [Requests -> PCs] /\ why \in [Requests -> Failures]
  BY ServiceAssumption DEF DbTypeOK, ServiceTypeOK
<1>1. ASSUME \A s \in Requests :
               /\ Owns(s)' => /\ Owns(s)
                              /\ tx'[TxOf[s]] \in Open /\ inflight'[TxOf[s]] = "none"
               /\ pc'[s] = "reading" => why'[s] # "rejected"
      PROVE  OneOwner'
  BY <1>1 DEF OneOwner
<1>2. ASSUME UNCHANGED <<tx, inflight, pc, why>> PROVE OneOwner'
  BY <1>2 DEF OneOwner, Owns
<1>3. ASSUME NEW t \in Payments, AbortEffect(t), inflight' = inflight, NEW r \in Requests,
             \A s \in Requests : s # r => pc'[s] = pc[s] /\ why'[s] = why[s],
             Owns(r)' => Owns(r), pc'[r] = "reading" => why'[r] # "rejected"
      PROVE  OneOwner'
  <2>1. \A u \in Payments : tx[u] \in Open => tx'[u] \in Open
    BY <1>0, <1>3 DEF AbortEffect
  <2> QED BY <1>0, <1>1, <1>3, <2>1 DEF OneOwner, Owns
<1>4. ASSUME UNCHANGED <<tx, inflight>>, NEW r \in Requests,
             \A s \in Requests : s # r => pc'[s] = pc[s] /\ why'[s] = why[s],
             Owns(r)' => Owns(r), pc'[r] = "reading" => why'[r] # "rejected"
      PROVE  OneOwner'
  BY <1>0, <1>1, <1>4 DEF OneOwner, Owns
<1>5. ASSUME NEW t \in Payments, DatabaseFinishes(t) PROVE OneOwner'
  <2>0. UNCHANGED <<pc, why>>
    BY <1>5 DEF DatabaseFinishes, InsertLands, InsertDies, serviceVars
  <2>1. CASE InflightLands(t)
    <3>1. \A s \in Requests : Owns(s) => TxOf[s] # t
      BY <1>0, <2>1 DEF InflightLands, OneOwner
    <3>2. \A u \in Payments : u # t => tx'[u] = tx[u] /\ inflight'[u] = inflight[u]
      BY <1>0, <2>1 DEF InflightLands, PrepareEffect, CommitEffect
    <3> QED BY <1>0, <1>1, <2>0, <3>1, <3>2 DEF OneOwner, Owns
  <2>2. CASE InflightDies(t)
    BY <1>0, <1>1, <2>0, <2>2 DEF InflightDies, OneOwner, Owns, dbVars
  <2>3. ASSUME NEW r \in Requests, InsertLands(r) PROVE OneOwner'
    <3>1. \A s \in Requests : Owns(s) => TxOf[s] # TxOf[r]
      BY <2>3 DEF InsertLands, InsertEffect, OneOwner
    <3> QED BY <1>0, <1>1, <2>0, <2>3, <3>1
        DEF InsertLands, InsertEffect, OneOwner, Owns, engineVars
  <2>4. ASSUME NEW r \in Requests, InsertDies(r) PROVE OneOwner'
    BY <1>2, <2>4 DEF InsertDies, engineVars, dbVars
  <2> QED BY <1>5, <2>1, <2>2, <2>3, <2>4 DEF DatabaseFinishes
<1>6. ASSUME NEW t \in Payments, RecoveryAborts(t) PROVE OneOwner'
  <2>1. \A u \in Payments : tx[u] \in Open => tx'[u] \in Open
    BY <1>0, <1>6 DEF RecoveryAborts, RecoverOne, AbortEffect
  <2>2. UNCHANGED <<pc, why, inflight>>
    BY <1>6 DEF RecoveryAborts, RecoverOne, engineVars, serviceVars
  <2> QED BY <1>0, <1>1, <2>1, <2>2 DEF OneOwner, Owns
<1>7. ASSUME NEW r \in Requests, RequestRuns(r) PROVE OneOwner'
  <2>0. \A s \in Requests : s # r => pc'[s] = pc[s] /\ why'[s] = why[s]
    BY <1>0, <1>7 DEF RequestRuns, RequestStep, Refuse, Lookup, NoRoute, Insert, Prepare, Commit,
                ReadBack, Abort, Goto, Begin, Answer, CleanUp
  <2>1. CASE Refuse(r) \/ Lookup(r) \/ NoRoute(r)
    BY <1>0, <1>4, <2>0, <2>1 DEF Refuse, Lookup, NoRoute, Goto, Answer, Owns, engineVars, dbVars
  <2>2. CASE ReadBack(r)
    BY <1>0, <1>4, <2>0, <2>2 DEF ReadBack, CleanUp, Answer, Owns, OneOwner, engineVars, dbVars
  <2>3. CASE Insert(r) /\ InsertEffect(r) /\ Begin(r, "preparing")
    <3>1. \A s \in Requests : Owns(s) => TxOf[s] # TxOf[r]
      BY <2>3 DEF InsertEffect, OneOwner
    <3>2. inflight[TxOf[r]] = "none" /\ inflight' = inflight
      BY <1>0, <2>3 DEF Insert, InsertEffect, InflightMatchesState, engineVars
    <3>3. /\ tx'[TxOf[r]] = "NEW" /\ \A u \in Payments : u # TxOf[r] => tx'[u] = tx[u]
          /\ pc'[r] = "preparing"
      BY <1>0, <2>3 DEF InsertEffect, Begin, Goto
    <3> QED BY <1>0, <2>0, <3>1, <3>2, <3>3 DEF OneOwner, Owns
  <2>4. CASE Insert(r) /\ \E ans \in Replies : Answer(r, ans) /\ UNCHANGED dbVars
    BY <1>0, <1>4, <2>0, <2>4 DEF Insert, Answer, Owns, engineVars, dbVars
  <2>5. CASE Prepare(r)
    <3>1. /\ \A u \in Payments : u # TxOf[r] => tx'[u] = tx[u]
          /\ tx'[TxOf[r]] = tx[TxOf[r]] \/ tx'[TxOf[r]] = "PREPARED"
          /\ inflight' = inflight /\ Owns(r) /\ pc'[r] # "reading"
      BY <1>0, <2>5 DEF Prepare, PrepareEffect, Begin, Goto, CleanUp, Owns, engineVars, dbVars
    <3> QED BY <1>0, <1>1, <2>0, <3>1 DEF OneOwner, Owns
  <2>6. CASE Commit(r)
    <3>0. Owns(r) /\ inflight' = inflight
      BY <2>6 DEF Commit, Owns, engineVars
    <3>1. CASE CommitEffect(TxOf[r]) /\ Answer(r, "committed")
      <4>1. ~Owns(r)' /\ pc'[r] = "done" /\ \A u \in Payments : u # TxOf[r] => tx'[u] = tx[u]
        BY <1>0, <3>1 DEF CommitEffect, Answer, Owns
      <4> QED BY <1>0, <1>1, <2>0, <3>0, <4>1 DEF OneOwner, Owns
    <3>2. CASE UNCHANGED dbVars
      <4>1. pc'[r] = "reading" => why'[r] = "error"
        BY <1>0, <2>6 DEF Commit, Answer, CleanUp
      <4> QED BY <1>4, <2>0, <3>0, <3>2, <4>1 DEF dbVars
    <3>3. CASE AbortEffect(TxOf[r]) /\ CleanUp(r, "aborting", "rejected")
      BY <1>0, <1>3, <2>0, <3>0, <3>3 DEF CleanUp
    <3> QED BY <2>6, <3>1, <3>2, <3>3 DEF Commit
  <2>7. CASE Abort(r)
    BY <1>0, <1>3, <2>0, <2>7 DEF Abort, Answer, Owns, engineVars
  <2>8. tx[TxOf[r]] # "absent" => StoredResult(r) \in Replies
    BY StoredResultTells
  <2> QED BY <1>7, <2>1, <2>2, <2>3, <2>4, <2>5, <2>6, <2>7, <2>8
      DEF RequestRuns, RequestStep, Insert
<1>8. ASSUME NEW r \in Requests, RequestDisturbed(r) PROVE OneOwner'
  <2>0. \A s \in Requests : s # r => pc'[s] = pc[s] /\ why'[s] = why[s]
    BY <1>0, <1>8 DEF RequestDisturbed, RetryUoW, DatabaseError, OwnerSetChanged,
                CleanUpFails, Crash, Interrupt, Goto, Answer, CleanUp
  <2>1. ASSUME LeftInFlight(r), tx' = tx, ~Owns(r)',
               pc'[r] = "reading" => why'[r] # "rejected"
        PROVE  OneOwner'
    <3>1. \A u \in Payments : inflight'[u] = inflight[u] \/ (u = TxOf[r] /\ Owns(r))
      BY <1>0, <2>1 DEF LeftInFlight, Owns
    <3> QED BY <1>0, <1>1, <2>0, <2>1, <3>1 DEF OneOwner, Owns
  <2>2. CASE RetryUoW(r)
    BY <1>2, <2>2 DEF RetryUoW, engineVars, dbVars
  <2>3. CASE OwnerSetChanged(r)
    BY <1>0, <1>4, <2>0, <2>3 DEF OwnerSetChanged, CleanUp, Owns, engineVars, dbVars
  <2>4. CASE DatabaseError(r) \/ Crash(r)
    BY <1>0, <2>1, <2>4 DEF DatabaseError, Crash, Goto, Answer, CleanUp, Owns, dbVars
  <2>5. ASSUME NEW kind \in {"timeout", "cancelled"}, Interrupt(r, kind) PROVE OneOwner'
    BY <1>0, <1>4, <2>0, <2>1, <2>5 DEF Interrupt, Answer, CleanUp, Owns, dbVars
  <2>6. CASE CleanUpFails(r)
    BY <1>0, <1>3, <1>4, <2>0, <2>6 DEF CleanUpFails, Answer, CleanUp, Owns, engineVars, dbVars
  <2> QED BY <1>8, <2>2, <2>3, <2>4, <2>5, <2>6 DEF RequestDisturbed
<1> QED BY <1>2, <1>5, <1>6, <1>7, <1>8, PaymentMoves

\* A reply is given in the state it tells, which is final.
LEMMA ReplyStep ==
    ASSUME DbTypeOK, ServiceTypeOK, LocksMatchState, OneOwner, ReplyIsTruthful,
           \A t \in Payments : tx[t] \in TerminalTx => tx'[t] = tx[t],
           [Next]_vars
    PROVE  ReplyIsTruthful'
<1> DEFINE Told(s) == /\ reply'[s] = "committed" => tx'[TxOf[s]] = "COMMITTED"
                      /\ reply'[s] \in {"rejected", "aborted"} => tx'[TxOf[s]] = "ABORTED"
<1>0. TxOf \in [Requests -> Payments] /\ tx \in [Payments -> TxStates]
      /\ pc \in [Requests -> PCs] /\ why \in [Requests -> Failures]
      /\ reply \in [Requests -> Replies]
  BY ServiceAssumption DEF DbTypeOK, ServiceTypeOK
<1>1. ASSUME NEW s \in Requests, reply'[s] = reply[s] PROVE Told(s)
  BY <1>0, <1>1 DEF ReplyIsTruthful
<1>2. ASSUME NEW r \in Requests, \A s \in Requests : s # r => reply'[s] = reply[s], Told(r)
      PROVE  ReplyIsTruthful'
  BY <1>1, <1>2 DEF ReplyIsTruthful
<1>3. ASSUME reply' = reply PROVE ReplyIsTruthful'
  BY <1>1, <1>3 DEF ReplyIsTruthful
<1>4. ASSUME NEW t \in Payments, DatabaseFinishes(t) \/ RecoveryAborts(t)
      PROVE  reply' = reply
  BY <1>4 DEF DatabaseFinishes, InsertLands, InsertDies, RecoveryAborts, RecoverOne,
              serviceVars
<1>5. ASSUME NEW r \in Requests, RequestRuns(r) PROVE ReplyIsTruthful'
  <2>0. \A s \in Requests : s # r => reply'[s] = reply[s]
    BY <1>0, <1>5 DEF RequestRuns, RequestStep, Refuse, Lookup, NoRoute, Insert, Prepare, Commit,
                ReadBack, Abort, Goto, Begin, Answer, CleanUp
  <2>1. CASE tx[TxOf[r]] # "absent" /\ Answer(r, StoredResult(r)) /\ UNCHANGED dbVars
    BY <1>0, <1>2, <2>0, <2>1, StoredResultTells DEF Answer, dbVars
  <2>2. CASE Refuse(r) \/ Lookup(r) \/ NoRoute(r) \/ Insert(r)
    BY <1>0, <1>2, <1>3, <2>0, <2>1, <2>2 DEF Refuse, Lookup, NoRoute, Insert, Goto, Begin, Answer
  <2>3. CASE ReadBack(r)
    BY <1>0, <1>2, <1>3, <2>0, <2>3 DEF ReadBack, CleanUp, Answer, dbVars
  <2>4. CASE Prepare(r)
    BY <1>3, <2>4 DEF Prepare, Begin, Goto, CleanUp
  <2>5. CASE Commit(r)
    <3>1. CASE CommitOutcome(TxOf[r], nowOf[r]) \in {"ok", "noop"}
      <4>1. reply'[r] = "committed"
        BY <1>0, <2>5, <3>1 DEF Commit, Answer
      <4>2. tx'[TxOf[r]] = "COMMITTED"
        BY <1>0, <2>5, <3>1, OutcomeOk DEF Commit, CommitEffect, dbVars
      <4> QED BY <1>2, <2>0, <4>1, <4>2
    <3>2. CASE CommitOutcome(TxOf[r], nowOf[r]) \notin {"ok", "noop"}
      BY <1>3, <2>5, <3>2 DEF Commit, CleanUp
    <3> QED BY <3>1, <3>2
  <2>6. CASE Abort(r)
    <3>1. reply'[r] = why[r] /\ why[r] \in Failures
      BY <1>0, <2>6 DEF Abort, Answer
    <3>2. ASSUME why[r] = "rejected" PROVE tx'[TxOf[r]] = "ABORTED"
      <4>1. tx[TxOf[r]] \in {"NEW", "PREPARED", "ABORTED"}
        BY <2>6, <3>2 DEF Abort, OneOwner, Owns
      <4> QED BY <1>0, <2>6, <4>1 DEF Abort, AbortEffect
    <3> QED BY <1>2, <2>0, <3>1, <3>2
  <2> QED BY <1>5, <2>2, <2>3, <2>4, <2>5, <2>6 DEF RequestRuns, RequestStep
<1>6. ASSUME NEW r \in Requests, RequestDisturbed(r) PROVE ReplyIsTruthful'
  <2>1. \A s \in Requests : s # r => reply'[s] = reply[s]
    BY <1>0, <1>6 DEF RequestDisturbed, RetryUoW, DatabaseError, OwnerSetChanged,
                CleanUpFails, Crash, Interrupt, Goto, Answer, CleanUp
  <2>2. reply'[r] = reply[r] \/ reply'[r] \in {"timeout", "cancelled", "error"}
    BY <1>0, <1>6 DEF RequestDisturbed, RetryUoW, DatabaseError, OwnerSetChanged,
                CleanUpFails, Crash, Interrupt, Goto, Answer, CleanUp
  <2>3. Told(r)
    BY <1>1, <2>2
  <2> QED BY <1>2, <2>1, <2>3
<1> QED BY <1>3, <1>4, <1>5, <1>6, PaymentMoves

----------------------------------------------------------------------------
(* The inductive invariant and what follows from it.                        *)

IInv == /\ DbTypeOK /\ ServiceTypeOK /\ WorkerTypeOK
        /\ DbInv
        /\ InflightMatchesState /\ OneOwner /\ ReplyIsTruthful

\* The hub starts with the assumed lines and debts and nothing under way.
LEMMA InitIInv == Init => IInv
<1> SUFFICES ASSUME Init PROVE IInv
  OBVIOUS
<1> USE DEF Init, HubInit, EngineInit, ServiceInit, RecoveryInit, TrustLinesInit,
            ClearingInit
<1>0. \A e \in Pairs : Flip(e) \in Pairs
  BY FlipPair
<1>1. DbTypeOK
  BY HubAssumption DEF DbTypeOK, NoFlow
<1>2. ServiceTypeOK /\ WorkerTypeOK
  BY ServiceAssumption DEF ServiceTypeOK, WorkerTypeOK
<1>3. LocksMatchState /\ ClearedRowsDead
  BY DEF LocksMatchState, ClearedRowsDead
<1>4. NoMutualDebt
  BY HubAssumption DEF NoMutualDebt
<1>5. LimitsRespected
  BY <1>0, HubAssumption DEF LimitsRespected, LiveLimit
<1>6. InflightMatchesState /\ OneOwner /\ ReplyIsTruthful
  BY ServiceAssumption DEF InflightMatchesState, OneOwner, Owns, ReplyIsTruthful
<1>7. LedgerIsSumOfCommitted
  <2> SUFFICES ASSUME NEW p \in Participants PROVE Balanced(p)
    BY DEF LedgerIsSumOfCommitted, Balanced, Brought, CommittedPayments
  <2>1. CommittedPayments = {}
    BY DEF CommittedPayments
  <2>2. SumFunctionOnSet(Brought(p), {}) = 0
    BY SumStep, FS_EmptySet
  <2>3. NetPosition(Debt0, p) \in Int
    <3>1. Debt0 \in [Pairs -> Int]
      BY HubAssumption
    <3> QED BY <3>1, HubAssumption, InflowIsSum DEF NetPosition
  <2>4. debt = Debt0
    OBVIOUS
  <2> HIDE DEF Init, HubInit
  <2> QED BY <2>1, <2>2, <2>3, <2>4 DEF Balanced
<1> QED BY <1>1, <1>2, <1>3, <1>4, <1>5, <1>6, <1>7 DEF IInv, DbInv

\* Every step of the hub keeps it.
LEMMA NextIInv == IInv /\ [Next]_vars => IInv'
<1> SUFFICES ASSUME IInv, [Next]_vars PROVE IInv'
  OBVIOUS
<1>1. LocksMatchState /\ cand \in [Clearers -> SUBSET RowIds]
  BY DEF IInv, DbInv, WorkerTypeOK
<1>2. DbStep
  BY <1>1, NextIsDbStep DEF IInv
<1>3. DbTypeOK' /\ DbInv'
  BY <1>2, DbStepType, DbStepInv DEF IInv
<1>4. ServiceTypeOK' /\ WorkerTypeOK'
  BY ServiceStepType, WorkerStepType DEF IInv
<1>5. InflightMatchesState' /\ OneOwner'
  BY <1>1, InflightStep, OwnerStep DEF IInv
<1>6. ReplyIsTruthful'
  BY <1>1, <1>2, DbStepLocks, ReplyStep DEF IInv
<1> QED BY <1>3, <1>4, <1>5, <1>6 DEF IInv

\* What the invariant says to a reader: the types, the reservations of exactly
\* the PREPARED payments, netted debts within their live lines, balanced books,
\* clearings whose rows are gone, one owner per payment, and truthful replies.
LEMMA IInvImplies ==
    IInv => /\ TypeOK /\ LocksMatchState /\ NoMutualDebt /\ LimitsRespected
            /\ LedgerIsSumOfCommitted
            /\ ClearedRowsAreGone /\ InflightMatchesState /\ OneOwner /\ ReplyIsTruthful
<1> SUFFICES ASSUME IInv
             PROVE  /\ TypeOK /\ LocksMatchState /\ NoMutualDebt /\ LimitsRespected
                    /\ LedgerIsSumOfCommitted /\ ClearedRowsAreGone /\ InflightMatchesState /\ OneOwner
                    /\ ReplyIsTruthful
  OBVIOUS
<1>1. TypeOK
  BY DEF IInv, TypeOK, DbTypeOK, ServiceTypeOK, WorkerTypeOK
<1>2. ClearedRowsAreGone
  <2>1. ASSUME NEW rows \in cleared, NEW x \in rows, row[x[1]] > x[2]
        PROVE  row[x[1]] # x[2]
    BY <2>1 DEF IInv, DbTypeOK, RowIds
  <2> QED BY <2>1 DEF IInv, DbInv, ClearedRowsDead, ClearedRowsAreGone, RowsExist
<1> QED BY <1>1, <1>2 DEF IInv, DbInv

\* The invariant holds in every reachable state.
LEMMA SpecIInv == Spec => []IInv
<1>1. Init => IInv
  BY InitIInv
<1>2. IInv /\ [Next]_vars => IInv'
  BY NextIInv
<1> QED BY <1>1, <1>2, PTL DEF Spec

----------------------------------------------------------------------------
(* Reservations, while no line is edited and no lock lapses under a commit. *)

Undisturbed == TTLCoversCommit /\ EditableLines = {} /\ Freezable = {}

\* Payments whose reservations count, and what they claim of an edge.
LivePayments == {t \in Payments : lock[t] = "live"}
Claims(e) == [t \in Payments |-> flow[t][e]]
Reserved(e) == SumFunctionOnSet(Claims(e), LivePayments)

Covered(e) == Reserved(e) > 0 => Reserved(e) <= AvailableCapacity(e)

\* There is room for t next to everything that is reserved.
RoomFor(t) ==
    \A e \in Pairs : flow[t][e] > 0 => flow[t][e] + Reserved(e) <= AvailableCapacity(e)

NothingInFlight == \A t \in Payments : inflight[t] = "none"

\* A unit of work in flight was decided on rows that nobody has changed since.
InflightIsCovered ==
    \A t \in Payments :
        /\ inflight[t] = "prepare" => RoomFor(t)
        /\ inflight[t] = "commit" => lock[t] = "live"

\* now() of a unit of work: what it takes for lapsed is, for good, and what
\* lapsed before a commit began it takes for lapsed.
ClocksAgree ==
    \A r \in Requests :
        /\ \A t \in nowOf[r] : lock[t] # "live" /\ tx[t] \notin {"absent", "NEW"}
        /\ pc[r] = "committing" /\ lock[TxOf[r]] = "expired" => TxOf[r] \in nowOf[r]

\* The owner lock has one holder: a unit of work in flight, or clearing.
OwnerLockExcludes ==
    /\ \A t, u \in Payments : inflight[t] # "none" /\ inflight[u] # "none" => t = u
    /\ interlock # {} => NothingInFlight
    /\ \A w \in Clearers : clrPc[w] = "interlocked" => w \in interlock

RInv == /\ \A e \in Pairs : Covered(e)
        /\ InflightIsCovered /\ ClocksAgree /\ OwnerLockExcludes

\* What a step may do to reservations: claim nothing more than a unit of work in
\* flight was told it may, give some back, prepare where there is room, commit
\* what is still reserved, or clear while nothing is in flight.
Claimed ==
    /\ UNCHANGED <<debt, status, limit, lock>>
    /\ \A t \in Payments : tx[t] # "absent" => flow'[t] = flow[t]
    /\ \A t \in Payments :
         \/ inflight'[t] \in {"none", inflight[t]}
         \/ inflight'[t] = "prepare" /\ tx[t] = "NEW" /\ RoomFor(t)
         \/ inflight'[t] = "commit" /\ lock[t] = "live"

GivenBack(t) ==
    /\ UNCHANGED <<debt, status, limit, flow, inflight>>
    /\ \A u \in Payments \ {t} : lock'[u] = lock[u]
    /\ lock'[t] # "live" /\ inflight[t] # "commit"
    /\ CommitRunning(t) => lock'[t] = "none"

PreparedInRoom(t) ==
    /\ UNCHANGED <<debt, status, limit, flow>>
    /\ lock[t] # "live" /\ lock' = [lock EXCEPT ![t] = "live"]
    /\ RoomFor(t) /\ NothingInFlight'

CommittedInTime(t) ==
    /\ UNCHANGED <<status, limit, flow>>
    /\ debt' = ApplyFlows(debt, flow[t])
    /\ lock[t] = "live" /\ lock' = [lock EXCEPT ![t] = "none"]
    /\ NothingInFlight'

ClearedAlone == ClearStep /\ NothingInFlight'

ReservedStep ==
    \/ Claimed \/ ClearedAlone
    \/ \E t \in Payments : GivenBack(t) \/ PreparedInRoom(t) \/ CommittedInTime(t)

\* Amounts are natural numbers, capacities integers.
LEMMA ReservedType ==
    ASSUME DbTypeOK, NEW e \in Pairs
    PROVE  /\ \A t \in Payments : Claims(e)[t] = flow[t][e] /\ flow[t][e] \in Nat
           /\ IsFiniteSet(LivePayments) /\ LivePayments \subseteq Payments
           /\ Reserved(e) \in Nat /\ AvailableCapacity(e) \in Int
<1>1. \A t \in Payments : Claims(e)[t] = flow[t][e] /\ flow[t][e] \in Nat
  BY DEF DbTypeOK, Claims
<1>2. IsFiniteSet(LivePayments) /\ LivePayments \subseteq Payments
  BY HubAssumption, FS_Subset DEF LivePayments
<1>3. Reserved(e) \in Nat
  BY <1>1, <1>2, HubAssumption, SumType DEF Reserved
<1>4. AvailableCapacity(e) \in Int
  BY FlipPair DEF DbTypeOK, AvailableCapacity, ActiveLimit
<1> QED BY <1>1, <1>2, <1>3, <1>4

\* Capacity depends on the debts and lines of its pair only.
LEMMA SameCapacity ==
    ASSUME NEW e \in Pairs, debt'[e] = debt[e], debt'[Flip(e)] = debt[Flip(e)],
           UNCHANGED <<status, limit>>
    PROVE  AvailableCapacity(e)' = AvailableCapacity(e)
BY DEF AvailableCapacity, ActiveLimit

\* Reservations that are given back leave the others covered.
LEMMA GivenBackCovers ==
    ASSUME DbTypeOK, DbTypeOK', NEW t \in Payments, GivenBack(t), InflightIsCovered,
           \A e \in Pairs : Covered(e)
    PROVE  (\A e \in Pairs : Covered(e))' /\ InflightIsCovered'
<1>1. /\ UNCHANGED <<debt, status, limit, flow, inflight>> /\ inflight[t] # "commit"
      /\ lock'[t] # "live" /\ \A u \in Payments \ {t} : lock'[u] = lock[u]
  BY DEF GivenBack
<1>2. LivePayments' \in SUBSET LivePayments
  BY <1>1 DEF LivePayments
<1>3. ASSUME NEW e \in Pairs
      PROVE  /\ Reserved(e)' <= Reserved(e) /\ AvailableCapacity(e)' = AvailableCapacity(e)
             /\ Reserved(e) \in Nat /\ Reserved(e)' \in Nat /\ AvailableCapacity(e) \in Int
  <2>1. Claims(e)' = Claims(e)
    BY <1>1 DEF Claims
  <2>2. IsFiniteSet(LivePayments) /\ \A u \in LivePayments : Claims(e)[u] \in Nat
    BY ReservedType
  <2>3. SumFunctionOnSet(Claims(e), LivePayments') <= SumFunctionOnSet(Claims(e), LivePayments)
    BY <1>2, <2>2, SumGrows
  <2>4. AvailableCapacity(e)' = AvailableCapacity(e)
    BY <1>1, SameCapacity
  <2>5. Reserved(e) \in Nat /\ AvailableCapacity(e) \in Int
    BY ReservedType
  <2>6. Reserved(e)' \in Nat
    <3>1. SumFunctionOnSet(Claims(e), LivePayments') \in Nat
      BY <1>2, <2>2, SumType
    <3> QED BY <2>1, <3>1 DEF Reserved
  <2> QED BY <2>1, <2>3, <2>4, <2>5, <2>6 DEF Reserved
<1>4. ASSUME NEW e \in Pairs PROVE Covered(e)'
  BY <1>3 DEF Covered
<1>5. ASSUME NEW u \in Payments, inflight'[u] = "prepare" PROVE RoomFor(u)'
  <2>1. RoomFor(u)
    BY <1>1, <1>5 DEF InflightIsCovered
  <2>2. ASSUME NEW e \in Pairs, flow'[u][e] > 0
        PROVE  flow'[u][e] + Reserved(e)' <= AvailableCapacity(e)'
    <3>1. flow[u][e] + Reserved(e) <= AvailableCapacity(e) /\ flow'[u][e] = flow[u][e]
      BY <1>1, <2>1, <2>2 DEF RoomFor
    <3>2. flow[u][e] \in Nat
      BY DEF DbTypeOK
    <3> QED BY <1>3, <3>1, <3>2
  <2> QED BY <2>2 DEF RoomFor
<1>6. ASSUME NEW u \in Payments, inflight'[u] = "commit" PROVE lock'[u] = "live"
  BY <1>1, <1>6 DEF InflightIsCovered
<1> QED BY <1>4, <1>5, <1>6 DEF InflightIsCovered

\* Where flows of live payments and their locks stay, so does what is reserved.
LEMMA SameReserved ==
    ASSUME NEW e \in Pairs, LivePayments' = LivePayments,
           \A t \in LivePayments : flow'[t] = flow[t]
    PROVE  Reserved(e)' = Reserved(e)
<1>1. IsFiniteSet(LivePayments)
  BY HubAssumption, FS_Subset DEF LivePayments
<1>2. \A t \in LivePayments : Claims(e)[t] = Claims(e)'[t]
  BY DEF Claims, LivePayments
<1>3. SumFunctionOnSet(Claims(e)', LivePayments) = SumFunctionOnSet(Claims(e), LivePayments)
  BY <1>1, <1>2, SumSame
<1> QED BY <1>3 DEF Reserved

\* What only enters or leaves flight, or is inserted, claims nothing.
LEMMA ClaimedCovers ==
    ASSUME DbTypeOK, DbTypeOK', LocksMatchState, InflightMatchesState, Claimed,
           InflightIsCovered, \A e \in Pairs : Covered(e)
    PROVE  (\A e \in Pairs : Covered(e))' /\ InflightIsCovered'
<1>1. /\ UNCHANGED <<debt, status, limit, lock>>
      /\ \A t \in Payments : tx[t] # "absent" => flow'[t] = flow[t]
  BY DEF Claimed
<1>2. LivePayments' = LivePayments /\ \A t \in LivePayments : flow'[t] = flow[t]
  BY <1>1 DEF LivePayments, LocksMatchState
<1>3. \A e \in Pairs : /\ Reserved(e)' = Reserved(e)
                       /\ AvailableCapacity(e)' = AvailableCapacity(e)
  BY <1>1, <1>2, SameReserved, SameCapacity
<1>4. ASSUME NEW e \in Pairs PROVE Covered(e)'
  BY <1>3 DEF Covered
<1>5. ASSUME NEW t \in Payments, RoomFor(t), tx[t] # "absent" PROVE RoomFor(t)'
  BY <1>1, <1>3, <1>5 DEF RoomFor
<1>6. ASSUME NEW t \in Payments, inflight'[t] = "prepare" PROVE RoomFor(t)'
  <2>1. RoomFor(t) /\ tx[t] = "NEW"
    BY <1>6 DEF Claimed, InflightIsCovered, InflightMatchesState
  <2> QED BY <1>5, <2>1
<1>7. ASSUME NEW t \in Payments, inflight'[t] = "commit" PROVE lock'[t] = "live"
  BY <1>1, <1>7 DEF Claimed, InflightIsCovered
<1> QED BY <1>4, <1>6, <1>7 DEF InflightIsCovered

\* A payment prepared where there is room leaves every reservation covered.
LEMMA PreparedCovers ==
    ASSUME DbTypeOK, DbTypeOK', NEW t \in Payments, PreparedInRoom(t),
           \A e \in Pairs : Covered(e)
    PROVE  (\A e \in Pairs : Covered(e))' /\ InflightIsCovered'
<1>1. /\ UNCHANGED <<debt, status, limit, flow>> /\ lock[t] # "live" /\ RoomFor(t)
      /\ lock' = [lock EXCEPT ![t] = "live"] /\ NothingInFlight'
  BY DEF PreparedInRoom
<1> DEFINE new == LivePayments'
<1>2. new \ {t} = LivePayments /\ t \in new /\ new \subseteq Payments
  BY <1>1 DEF LivePayments, DbTypeOK
<1> HIDE DEF new
<1>3. ASSUME NEW e \in Pairs PROVE Covered(e)'
  <2>1. Claims(e)' = Claims(e)
    BY <1>1 DEF Claims
  <2>2. \A u \in new : Claims(e)[u] \in Int
    BY <1>2, ReservedType
  <2>3. IsFiniteSet(new)
    BY <1>2, HubAssumption, FS_Subset
  <2>4. SumFunctionOnSet(Claims(e), new)
          = Claims(e)[t] + SumFunctionOnSet(Claims(e), LivePayments)
    BY <1>2, <2>2, <2>3, SumRemove
  <2>5. Reserved(e)' = flow[t][e] + Reserved(e)
    BY <2>1, <2>4, ReservedType DEF Reserved, new
  <2>6. AvailableCapacity(e)' = AvailableCapacity(e)
    BY <1>1, SameCapacity
  <2>7. Reserved(e) \in Nat /\ flow[t][e] \in Nat /\ AvailableCapacity(e) \in Int
    BY ReservedType
  <2>8. CASE flow[t][e] > 0
    <3>1. flow[t][e] + Reserved(e) <= AvailableCapacity(e)
      BY <1>1, <2>8 DEF RoomFor
    <3> QED BY <2>5, <2>6, <3>1 DEF Covered
  <2>9. CASE flow[t][e] = 0
    <3>1. Reserved(e)' = Reserved(e)
      BY <2>5, <2>7, <2>9
    <3> QED BY <2>6, <3>1 DEF Covered
  <2> QED BY <2>7, <2>8, <2>9
<1>4. InflightIsCovered'
  BY <1>1 DEF InflightIsCovered, NothingInFlight
<1> QED BY <1>3, <1>4

\* A commit takes no more capacity of an edge than it had reserved there.
LEMMA CommittedCovers ==
    ASSUME DbTypeOK, DbTypeOK', NEW t \in Payments, CommittedInTime(t),
           \A e \in Pairs : Covered(e)
    PROVE  (\A e \in Pairs : Covered(e))' /\ InflightIsCovered'
<1>1. /\ UNCHANGED <<status, limit, flow>> /\ debt' = ApplyFlows(debt, flow[t])
      /\ lock[t] = "live" /\ lock' = [lock EXCEPT ![t] = "none"] /\ NothingInFlight'
  BY DEF CommittedInTime
<1>2. LivePayments' = LivePayments \ {t} /\ t \in LivePayments
  BY <1>1 DEF LivePayments, DbTypeOK
<1>3. ASSUME NEW e \in Pairs PROVE Covered(e)'
  <2>1. Claims(e)' = Claims(e)
    BY <1>1 DEF Claims
  <2>2. \A u \in LivePayments : Claims(e)[u] \in Int
    BY ReservedType
  <2>3. SumFunctionOnSet(Claims(e), LivePayments)
          = Claims(e)[t] + SumFunctionOnSet(Claims(e), LivePayments \ {t})
    BY <1>2, <2>2, ReservedType, SumRemove
  <2>4. Reserved(e) = flow[t][e] + Reserved(e)'
    BY <1>2, <2>1, <2>3, ReservedType DEF Reserved
  <2>5. /\ debt'[e] - debt'[Flip(e)]
             = (debt[e] - debt[Flip(e)]) + (flow[t][e] - flow[t][Flip(e)])
        /\ Flip(e) \in Pairs
    <3>1. debt \in [Pairs -> Nat] /\ flow[t] \in [Pairs -> Nat]
      BY DEF DbTypeOK
    <3> QED BY <1>1, <3>1, FlipPair, ApplyFlowsPair
  <2>6. /\ debt[e] \in Nat /\ debt[Flip(e)] \in Nat /\ debt'[e] \in Nat /\ debt'[Flip(e)] \in Nat
        /\ flow[t][e] \in Nat /\ flow[t][Flip(e)] \in Nat /\ ActiveLimit(Flip(e)) \in Nat
    BY <2>5 DEF DbTypeOK, ActiveLimit
  <2>7. ActiveLimit(Flip(e))' = ActiveLimit(Flip(e))
    BY <1>1 DEF ActiveLimit
  <2>8. AvailableCapacity(e)'
          = AvailableCapacity(e) - (flow[t][e] - flow[t][Flip(e)])
    BY <2>5, <2>6, <2>7 DEF AvailableCapacity
  <2>9. Reserved(e) \in Nat /\ AvailableCapacity(e) \in Int /\ Reserved(e)' \in Nat
    <3>1. Reserved(e) \in Nat /\ AvailableCapacity(e) \in Int
      BY ReservedType
    <3>2. SumFunctionOnSet(Claims(e), LivePayments \ {t}) \in Nat
      BY ReservedType, SumType
    <3> QED BY <1>2, <2>1, <3>1, <3>2 DEF Reserved
  <2> QED BY <2>4, <2>6, <2>8, <2>9 DEF Covered
<1>4. InflightIsCovered'
  BY <1>1 DEF InflightIsCovered, NothingInFlight
<1> QED BY <1>3, <1>4

\* Clearing keeps away from every pair that a live reservation leans on.
LEMMA ClearedCovers ==
    ASSUME DbTypeOK, DbTypeOK', ClearedAlone, \A e \in Pairs : Covered(e)
    PROVE  (\A e \in Pairs : Covered(e))' /\ InflightIsCovered'
<1>1. ClearStep /\ NothingInFlight'
  BY DEF ClearedAlone
<1>2. PICK rows \in SUBSET RowIds :
        \E amount \in {debt[e] : e \in EdgesOf(rows)} : ClearRows(rows, amount)
  BY <1>1 DEF ClearStep
<1>3. PICK amount \in {debt[e] : e \in EdgesOf(rows)} : ClearRows(rows, amount)
  BY <1>2
<1>4. /\ debt' = ReduceAll(debt, EdgesOf(rows), amount)
      /\ EdgesOf(rows) \cap LockedPairs = {}
      /\ UNCHANGED <<status, limit, flow, lock>>
  BY <1>3 DEF ClearRows, SetDebt, MayClear, lineVars, payVars
<1>5. LivePayments' = LivePayments
  BY <1>4 DEF LivePayments
<1>6. ASSUME NEW e \in Pairs PROVE Covered(e)'
  <2>1. Reserved(e)' = Reserved(e)
    BY <1>4, <1>5, SameReserved
  <2>2. CASE Reserved(e) = 0
    BY <2>1, <2>2 DEF Covered
  <2>3. CASE Reserved(e) # 0
    <3>1. PICK t \in LivePayments : Claims(e)[t] # 0
      BY <2>3, ReservedType, SumNotZero DEF Reserved
    <3>2. t \in Payments /\ lock[t] = "live" /\ flow[t][e] > 0
      <4>1. t \in Payments /\ lock[t] = "live"
        BY DEF LivePayments
      <4>2. Claims(e)[t] = flow[t][e] /\ flow[t][e] \in Nat
        BY <4>1, ReservedType
      <4> QED BY <3>1, <4>1, <4>2
    <3>3. Flip(e) \in Pairs /\ Flip(Flip(e)) = e
      BY FlipPair
    <3>4. e \in Touched(flow[t]) /\ Flip(e) \in Touched(flow[t])
      BY <3>2, <3>3 DEF Touched
    <3>5. e \notin EdgesOf(rows) /\ Flip(e) \notin EdgesOf(rows)
      BY <1>4, <3>2, <3>4 DEF LockedPairs
    <3>6. debt'[e] = debt[e] /\ debt'[Flip(e)] = debt[Flip(e)]
      BY <1>4, <3>3, <3>5 DEF ReduceAll
    <3>7. AvailableCapacity(e)' = AvailableCapacity(e)
      BY <1>4, <3>6, SameCapacity
    <3> QED BY <2>1, <3>7 DEF Covered
  <2> QED BY <2>2, <2>3
<1>7. InflightIsCovered'
  BY <1>1 DEF InflightIsCovered, NothingInFlight
<1> QED BY <1>6, <1>7

\* Every step that is one of these leaves the reservations covered.
LEMMA ReservedStepCovers ==
    ASSUME DbTypeOK, DbTypeOK', LocksMatchState, InflightMatchesState, ReservedStep,
           InflightIsCovered, \A e \in Pairs : Covered(e)
    PROVE  (\A e \in Pairs : Covered(e))' /\ InflightIsCovered'
BY ClaimedCovers, GivenBackCovers, PreparedCovers, CommittedCovers, ClearedCovers
   DEF ReservedStep

\* A prepare that goes through has room next to what is live: what its now()
\* discounts has lapsed for good.
LEMMA PrepareHasRoom ==
    ASSUME DbTypeOK, LocksMatchState, ClocksAgree, NEW r \in Requests,
           PrepareOutcome(TxOf[r], nowOf[r]) = "ok"
    PROVE  tx[TxOf[r]] = "NEW" /\ lock[TxOf[r]] # "live" /\ RoomFor(TxOf[r])
<1> DEFINE t == TxOf[r]
           counted == {u \in Payments \ {t} : lock[u] # "none" /\ u \notin nowOf[r]}
<1>1. t \in Payments
  BY ServiceAssumption
<1>2. tx[t] = "NEW"
  BY <1>1, OutcomeOk
<1>3. lock[t] = "none"
  BY <1>1, <1>2 DEF LocksMatchState
<1>4. SufficientCapacity(t, nowOf[r])
  BY <1>2, <1>3 DEF PrepareOutcome
<1>5. LivePayments \in SUBSET counted /\ counted \subseteq Payments
  BY <1>3 DEF LivePayments, ClocksAgree
<1>6. IsFiniteSet(counted)
  BY <1>5, HubAssumption, FS_Subset
<1>7. ASSUME NEW e \in Pairs, flow[t][e] > 0
      PROVE  flow[t][e] + Reserved(e) <= AvailableCapacity(e)
  <2>1. AvailableCapacity(e) >= flow[t][e] + SumFunctionOnSet(Claims(e), counted)
    BY <1>4, <1>7 DEF SufficientCapacity, ReservedUsage, Claims
  <2> HIDE DEF counted
  <2>2. \A u \in counted : Claims(e)[u] \in Nat
    BY <1>5, ReservedType
  <2>3. SumFunctionOnSet(Claims(e), LivePayments) <= SumFunctionOnSet(Claims(e), counted)
    BY <1>5, <1>6, <2>2, SumGrows
  <2>4. SumFunctionOnSet(Claims(e), counted) \in Nat
    BY <1>6, <2>2, SumType
  <2>5. Reserved(e) \in Nat /\ AvailableCapacity(e) \in Int /\ flow[t][e] \in Nat
    BY <1>1, ReservedType
  <2> QED BY <2>1, <2>3, <2>4, <2>5 DEF Reserved
<1> QED BY <1>2, <1>3, <1>7 DEF RoomFor

\* A commit that goes through finds its locks live.
LEMMA CommitIsInTime ==
    ASSUME DbTypeOK, LocksMatchState, ClocksAgree, NEW r \in Requests,
           pc[r] = "committing", CommitOutcome(TxOf[r], nowOf[r]) = "ok"
    PROVE  lock[TxOf[r]] = "live"
<1>1. TxOf[r] \in Payments
  BY ServiceAssumption
<1>2. tx[TxOf[r]] = "PREPARED"
  BY <1>1, OutcomeOk
<1>3. lock[TxOf[r]] # "none"
  BY <1>1, <1>2 DEF LocksMatchState
<1>4. TxOf[r] \notin nowOf[r]
  BY <1>2, <1>3 DEF CommitOutcome
<1>5. lock[TxOf[r]] \in {"none", "live", "expired"}
  BY <1>1 DEF DbTypeOK
<1> QED BY <1>3, <1>4, <1>5 DEF ClocksAgree

\* Every step of the hub does one of those things to reservations.
LEMMA NextIsReservedStep ==
    ASSUME Undisturbed, IInv, RInv, [Next]_vars
    PROVE  ReservedStep
<1>0. /\ DbTypeOK /\ LocksMatchState /\ InflightMatchesState /\ InflightIsCovered
      /\ ClocksAgree /\ OwnerLockExcludes /\ ServiceTypeOK /\ WorkerTypeOK
  BY DEF IInv, DbInv, RInv
<1>1. TxOf \in [Requests -> Payments] /\ inflight \in [Payments -> InflightKinds]
      /\ lock \in [Payments -> {"none", "live", "expired"}]
      /\ cand \in [Clearers -> SUBSET RowIds]
  BY <1>0, ServiceAssumption DEF ServiceTypeOK, DbTypeOK, WorkerTypeOK
<1>2. ASSUME UNCHANGED <<debt, status, limit, lock, flow, inflight>> PROVE ReservedStep
  BY <1>2 DEF ReservedStep, Claimed
<1>3. ASSUME NEW t \in Payments, AbortEffect(t), EngineLocksFree(t), inflight' = inflight
      PROVE  ReservedStep
  <2>1. GivenBack(t)
    BY <1>1, <1>3 DEF AbortEffect, EngineLocksFree, TxLockFree, GivenBack
  <2> QED BY <2>1 DEF ReservedStep
<1>4. ASSUME NEW r \in Requests, InsertEffect(r), inflight' = inflight PROVE ReservedStep
  <2>1. \A t \in Payments : tx[t] # "absent" => flow'[t] = flow[t]
    BY <1>0, <1>4 DEF InsertEffect, DbTypeOK
  <2> QED BY <1>4, <2>1 DEF InsertEffect, Claimed, ReservedStep
<1>5. ASSUME OwnerFree PROVE NothingInFlight
  BY <1>1, <1>5 DEF OwnerFree, TxLockFree, NothingInFlight
<1>6. ASSUME NEW t \in Payments, TimePasses(t) PROVE ReservedStep
  <2>1. CASE LockExpires(t) /\ (TTLCoversCommit => ~CommitRunning(t))
    <3>1. ~CommitRunning(t) /\ inflight[t] # "commit"
      BY <2>1 DEF Undisturbed, CommitRunning
    <3>2. GivenBack(t)
      BY <1>1, <1>6, <2>1, <3>1 DEF LockExpires, GivenBack, TimePasses, engineVars
    <3> QED BY <3>2 DEF ReservedStep
  <2>2. CASE TxAges(t)
    BY <1>2, <1>6, <2>2 DEF TxAges, TimePasses, engineVars
  <2> QED BY <1>6, <2>1, <2>2 DEF TimePasses
<1>7. ASSUME NEW t \in Payments, DatabaseFinishes(t) PROVE ReservedStep
  <2>1. ASSUME inflight[t] # "none", inflight' = [inflight EXCEPT ![t] = "none"]
        PROVE  NothingInFlight'
    BY <1>0, <1>1, <2>1 DEF OwnerLockExcludes, NothingInFlight
  <2>2. CASE inflight[t] = "prepare" /\ PrepareEffect(t) /\ inflight' = [inflight EXCEPT ![t] = "none"]
    <3>1. RoomFor(t) /\ lock[t] # "live"
      BY <1>0, <2>2 DEF InflightIsCovered, InflightMatchesState, LocksMatchState
    <3>2. PreparedInRoom(t)
      BY <2>1, <2>2, <3>1 DEF PrepareEffect, PreparedInRoom
    <3> QED BY <3>2 DEF ReservedStep
  <2>3. CASE inflight[t] = "commit" /\ CommitEffect(t) /\ inflight' = [inflight EXCEPT ![t] = "none"]
    <3>1. CommittedInTime(t)
      BY <1>0, <2>1, <2>3 DEF InflightIsCovered, CommitEffect, SetDebt, CommittedInTime
    <3> QED BY <3>1 DEF ReservedStep
  <2>4. CASE InflightDies(t)
    BY <1>1, <2>4 DEF InflightDies, dbVars, Claimed, ReservedStep
  <2>5. ASSUME NEW r \in Requests, InsertLands(r) \/ InsertDies(r) PROVE ReservedStep
    BY <1>2, <1>4, <2>5 DEF InsertLands, InsertDies, engineVars, dbVars
  <2> QED BY <1>7, <2>2, <2>3, <2>4, <2>5 DEF DatabaseFinishes, InflightLands
<1>8. ASSUME NEW t \in Payments, RecoveryAborts(t) \/ RecoveryMisses(t) PROVE ReservedStep
  BY <1>2, <1>3, <1>8 DEF RecoveryAborts, RecoverOne, RecoveryMisses, RecoverOneFails,
                          engineVars, dbVars
<1>9. ASSUME NEW r \in Requests, RequestRuns(r) PROVE ReservedStep
  <2>1. CASE Refuse(r) \/ Lookup(r) \/ NoRoute(r) \/ ReadBack(r)
    BY <1>2, <2>1 DEF Refuse, Lookup, NoRoute, ReadBack, dbVars, engineVars
  <2>2. CASE Insert(r)
    BY <1>2, <1>4, <2>2 DEF Insert, dbVars, engineVars
  <2>3. CASE Prepare(r)
    <3>1. OwnerFree /\ inflight' = inflight
      BY <2>3 DEF Prepare, engineVars
    <3>2. NothingInFlight'
      BY <1>5, <3>1 DEF NothingInFlight
    <3>3. CASE PrepareOutcome(TxOf[r], nowOf[r]) = "ok" /\ PrepareEffect(TxOf[r])
      <4>1. PreparedInRoom(TxOf[r])
        BY <1>0, <3>2, <3>3, PrepareHasRoom DEF PrepareEffect, PreparedInRoom
      <4> QED BY <1>1, <4>1 DEF ReservedStep
    <3>4. CASE UNCHANGED dbVars
      BY <1>2, <3>1, <3>4 DEF dbVars
    <3> QED BY <2>3, <3>3, <3>4 DEF Prepare
  <2>4. CASE Commit(r)
    <3>1. EngineLocksFree(TxOf[r]) /\ inflight' = inflight /\ pc[r] = "committing"
      BY <2>4 DEF Commit, engineVars
    <3>2. CASE CommitOutcome(TxOf[r], nowOf[r]) = "ok" /\ CommitEffect(TxOf[r])
      <4>1. lock[TxOf[r]] = "live"
        BY <1>0, <3>1, <3>2, CommitIsInTime
      <4>2. NothingInFlight'
        BY <1>5, <3>1, <4>1 DEF EngineLocksFree, NothingInFlight
      <4>3. CommittedInTime(TxOf[r])
        BY <3>2, <4>1, <4>2 DEF CommitEffect, SetDebt, CommittedInTime
      <4> QED BY <1>1, <4>3 DEF ReservedStep
    <3>3. CASE AbortEffect(TxOf[r])
      BY <1>1, <1>3, <3>1, <3>3
    <3>4. CASE UNCHANGED dbVars
      BY <1>2, <3>1, <3>4 DEF dbVars
    <3> QED BY <2>4, <3>2, <3>3, <3>4 DEF Commit
  <2>5. CASE Abort(r)
    BY <1>1, <1>3, <2>5 DEF Abort, engineVars
  <2> QED BY <1>9, <2>1, <2>2, <2>3, <2>4, <2>5 DEF RequestRuns, RequestStep
<1>10. ASSUME NEW r \in Requests, RequestDisturbed(r) PROVE ReservedStep
  <2>1. ASSUME LeftInFlight(r), UNCHANGED dbVars PROVE ReservedStep
    <3>1. CASE inflight' = inflight
      BY <1>2, <2>1, <3>1 DEF dbVars
    <3>2. CASE /\ PrepareOutcome(TxOf[r], nowOf[r]) = "ok"
               /\ inflight' = [inflight EXCEPT ![TxOf[r]] = "prepare"]
      <4>1. tx[TxOf[r]] = "NEW" /\ RoomFor(TxOf[r])
        BY <1>0, <3>2, PrepareHasRoom
      <4> QED BY <1>1, <2>1, <3>2, <4>1 DEF dbVars, Claimed, ReservedStep
    <3>3. CASE /\ pc[r] = "committing" /\ CommitOutcome(TxOf[r], nowOf[r]) = "ok"
               /\ inflight' = [inflight EXCEPT ![TxOf[r]] = "commit"]
      <4>1. lock[TxOf[r]] = "live"
        BY <1>0, <3>3, CommitIsInTime
      <4> QED BY <1>1, <2>1, <3>3, <4>1 DEF dbVars, Claimed, ReservedStep
    <3> QED BY <2>1, <3>1, <3>2, <3>3 DEF LeftInFlight
  <2>2. CASE RetryUoW(r) \/ OwnerSetChanged(r)
    BY <1>2, <2>2 DEF RetryUoW, OwnerSetChanged, engineVars, dbVars
  <2>3. CASE DatabaseError(r) \/ Crash(r)
    BY <2>1, <2>3 DEF DatabaseError, Crash
  <2>4. ASSUME NEW kind \in {"timeout", "cancelled"}, Interrupt(r, kind)
        PROVE  ReservedStep
    BY <1>2, <2>1, <2>4 DEF Interrupt, dbVars
  <2>5. CASE CleanUpFails(r)
    BY <1>1, <1>2, <1>3, <2>5 DEF CleanUpFails, engineVars, dbVars
  <2> QED BY <1>10, <2>2, <2>3, <2>4, <2>5 DEF RequestDisturbed
<1>11. ASSUME RecoveryScans \/ UNCHANGED vars PROVE ReservedStep
  BY <1>2, <1>11 DEF RecoveryScans, ScanExpired, ScanStale, EndIteration, vars,
                     engineVars, dbVars
<1>12. ~LineEdited
  BY DEF LineEdited, Undisturbed
<1>13. ASSUME NEW w \in Clearers, ClearerRuns(w) PROVE ReservedStep
  <2>1. CASE ExecuteClearing(w)
    <3>1. NothingInFlight'
      BY <1>0, <2>1 DEF ExecuteClearing, OwnerLockExcludes, NothingInFlight, engineVars
    <3>2. ClearStep
      BY <1>1, <2>1 DEF ExecuteClearing, ClearRows, ClearStep
    <3> QED BY <3>1, <3>2 DEF ClearedAlone, ReservedStep
  <2> QED BY <1>2, <1>13, <2>1
      DEF ClearerRuns, FindCycles, SubmitCycle, Choose, DropCandidate,
          AcquireInterlock, NothingCleared, ReleaseInterlock, dbVars, engineVars
<1> QED BY <1>6, <1>7, <1>8, <1>9, <1>10, <1>11, <1>12, <1>13 DEF Next

\* A request's clock is set when a unit of work starts, and a request is at its
\* commit only from such a start on.
LEMMA ClockMoves ==
    ASSUME ServiceTypeOK, [Next]_vars, NEW s \in Requests
    PROVE  \/ nowOf'[s] = Lapsed'
           \/ nowOf'[s] = nowOf[s] /\ (pc'[s] = "committing" => pc[s] = "committing")
<1> USE DEF ServiceTypeOK
<1>1. ASSUME UNCHANGED <<nowOf, pc>>
      PROVE  nowOf'[s] = nowOf[s] /\ (pc'[s] = "committing" => pc[s] = "committing")
  BY <1>1
<1>2. ASSUME NEW r \in Requests, RequestRuns(r)
      PROVE  \/ nowOf'[s] = Lapsed'
             \/ nowOf'[s] = nowOf[s] /\ (pc'[s] = "committing" => pc[s] = "committing")
  <2>1. CASE Refuse(r) \/ Lookup(r) \/ NoRoute(r) \/ ReadBack(r) \/ Abort(r)
    BY <2>1 DEF Refuse, Lookup, NoRoute, ReadBack, Abort, Answer, Goto, CleanUp
  <2>2. CASE Insert(r) \/ Prepare(r)
    BY <2>2 DEF Insert, Prepare, Answer, Begin, Goto, CleanUp
  <2>3. CASE Commit(r)
    BY <2>3 DEF Commit, Answer, CleanUp
  <2> QED BY <1>2, <2>1, <2>2, <2>3 DEF RequestRuns, RequestStep
<1>3. ASSUME NEW r \in Requests, RequestDisturbed(r)
      PROVE  \/ nowOf'[s] = Lapsed'
             \/ nowOf'[s] = nowOf[s] /\ (pc'[s] = "committing" => pc[s] = "committing")
  <2>1. CASE RetryUoW(r)
    <3>1. Lapsed' = Lapsed
      BY <2>1 DEF RetryUoW, Lapsed, dbVars
    <3> QED BY <2>1, <3>1 DEF RetryUoW
  <2>2. CASE OwnerSetChanged(r) \/ DatabaseError(r) \/ CleanUpFails(r) \/ Crash(r)
    BY <2>2 DEF OwnerSetChanged, DatabaseError, CleanUpFails, Crash, Answer, Goto, CleanUp
  <2>3. ASSUME NEW kind \in {"timeout", "cancelled"}, Interrupt(r, kind)
        PROVE  nowOf'[s] = nowOf[s] /\ (pc'[s] = "committing" => pc[s] = "committing")
    BY <2>3 DEF Interrupt, Answer, CleanUp
  <2> QED BY <1>3, <2>1, <2>2, <2>3 DEF RequestDisturbed
<1>4. ASSUME NEW t \in Payments,
             TimePasses(t) \/ DatabaseFinishes(t) \/ RecoveryAborts(t) \/ RecoveryMisses(t)
      PROVE  UNCHANGED <<nowOf, pc>>
  BY <1>4 DEF TimePasses, DatabaseFinishes, InsertLands, InsertDies, RecoveryAborts,
              RecoverOne, RecoveryMisses, RecoverOneFails, serviceVars
<1>5. ASSUME \/ RecoveryScans \/ LineEdited \/ UNCHANGED vars
             \/ \E w \in Clearers : ClearerRuns(w)
      PROVE  UNCHANGED <<nowOf, pc>>
  BY <1>5 DEF RecoveryScans, ScanExpired, ScanStale, EndIteration, LineEdited,
              ClearerRuns, serviceVars, vars
<1> QED BY <1>1, <1>2, <1>3, <1>4, <1>5 DEF Next

\* What has lapsed does not come to life again.
LEMMA LapsedStays ==
    ASSUME DbTypeOK, LocksMatchState, DbStep, NEW t \in Payments,
           lock[t] # "live", tx[t] \notin {"absent", "NEW"}
    PROVE  lock'[t] # "live" /\ tx'[t] \notin {"absent", "NEW"}
<1> USE DEF DbTypeOK, LocksMatchState
<1>1. CASE UNCHANGED dbVars
  BY <1>1 DEF dbVars
<1>2. CASE \E u \in Payments : LockExpires(u) \/ TxAges(u)
  BY <1>2 DEF LockExpires, TxAges
<1>3. CASE \E r \in Requests : InsertEffect(r)
  BY <1>3, ServiceAssumption DEF InsertEffect
<1>4. CASE \E u \in Payments : tx[u] = "NEW" /\ PrepareEffect(u)
  BY <1>4 DEF PrepareEffect
<1>5. CASE \E u \in Payments : SoundCommit(u)
  BY <1>5 DEF SoundCommit, CommitEffect
<1>6. CASE \E u \in Payments : AbortEffect(u)
  BY <1>6 DEF AbortEffect
<1>7. CASE LineStep
  BY <1>7 DEF LineStep, CreateLine, UpdateLine, CloseLine, FreezeParticipant, payVars
<1>8. CASE ClearStep
  BY <1>8 DEF ClearStep, ClearRows, payVars
<1> QED BY <1>1, <1>2, <1>3, <1>4, <1>5, <1>6, <1>7, <1>8 DEF DbStep

\* No lock lapses under a commit.
LEMMA ExpiryMoves ==
    ASSUME DbTypeOK, ReservedStep, NEW r \in Requests, pc[r] = "committing",
           lock'[TxOf[r]] = "expired"
    PROVE  lock[TxOf[r]] = "expired"
<1>1. TxOf[r] \in Payments /\ CommitRunning(TxOf[r])
  BY ServiceAssumption DEF CommitRunning
<1>2. CASE Claimed \/ ClearedAlone
  BY <1>2 DEF Claimed, ClearedAlone, ClearStep, ClearRows, payVars
<1>3. ASSUME NEW t \in Payments, GivenBack(t) PROVE lock[TxOf[r]] = "expired"
  BY <1>1, <1>3 DEF GivenBack
<1>4. ASSUME NEW t \in Payments, PreparedInRoom(t) \/ CommittedInTime(t)
      PROVE  lock[TxOf[r]] = "expired"
  BY <1>1, <1>4 DEF PreparedInRoom, CommittedInTime, DbTypeOK
<1> QED BY <1>2, <1>3, <1>4 DEF ReservedStep

\* Clocks and rows keep agreeing.
LEMMA ClocksStep ==
    ASSUME DbTypeOK, ServiceTypeOK, LocksMatchState, LocksMatchState', ClocksAgree,
           DbStep, ReservedStep, [Next]_vars
    PROVE  ClocksAgree'
<1> SUFFICES ASSUME NEW r \in Requests
             PROVE  /\ \A t \in nowOf'[r] : lock'[t] # "live" /\ tx'[t] \notin {"absent", "NEW"}
                    /\ pc'[r] = "committing" /\ lock'[TxOf[r]] = "expired"
                         => TxOf[r] \in nowOf'[r]
  BY DEF ClocksAgree
<1>0. TxOf[r] \in Payments /\ nowOf[r] \in SUBSET Payments
  BY ServiceAssumption DEF ServiceTypeOK
<1>1. CASE nowOf'[r] = Lapsed'
  BY <1>0, <1>1 DEF Lapsed, LocksMatchState
<1>2. CASE nowOf'[r] = nowOf[r] /\ (pc'[r] = "committing" => pc[r] = "committing")
  <2>1. ASSUME NEW t \in nowOf[r]
        PROVE  lock'[t] # "live" /\ tx'[t] \notin {"absent", "NEW"}
    <3>1. t \in Payments /\ lock[t] # "live" /\ tx[t] \notin {"absent", "NEW"}
      BY <1>0 DEF ClocksAgree
    <3> QED BY <3>1, LapsedStays
  <2>2. ASSUME pc'[r] = "committing", lock'[TxOf[r]] = "expired"
        PROVE  TxOf[r] \in nowOf[r]
    BY <1>2, <2>2, ExpiryMoves DEF ClocksAgree
  <2> QED BY <1>2, <2>1, <2>2
<1> QED BY <1>1, <1>2, ClockMoves

\* Whoever takes the owner lock finds it free.
LEMMA OwnerLockStep ==
    ASSUME ServiceTypeOK, WorkerTypeOK, OwnerLockExcludes, [Next]_vars
    PROVE  OwnerLockExcludes'
<1> USE DEF OwnerLockExcludes, NothingInFlight
<1>0. /\ inflight \in [Payments -> InflightKinds] /\ TxOf \in [Requests -> Payments]
      /\ clrPc \in [Clearers -> {"idle", "candidate", "interlocked", "releasing"}]
  BY ServiceAssumption DEF ServiceTypeOK, WorkerTypeOK
<1>1. ASSUME UNCHANGED <<inflight, interlock, clrPc>> PROVE OwnerLockExcludes'
  BY <1>1
<1>2. ASSUME NEW t \in Payments, inflight' = [inflight EXCEPT ![t] = "none"],
             UNCHANGED <<interlock, clrPc>>
      PROVE  OwnerLockExcludes'
  BY <1>0, <1>2
<1>3. ASSUME NEW r \in Requests, LeftInFlight(r), UNCHANGED <<interlock, clrPc>>
      PROVE  OwnerLockExcludes'
  <2>1. CASE inflight' = inflight
    BY <1>1, <1>3, <2>1
  <2>2. CASE OwnerFree /\ \E k \in {"prepare", "commit"} :
                             inflight' = [inflight EXCEPT ![TxOf[r]] = k]
    BY <1>0, <1>3, <2>2 DEF OwnerFree, TxLockFree
  <2> QED BY <1>3, <2>1, <2>2 DEF LeftInFlight
<1>4. ASSUME NEW t \in Payments, TimePasses(t) \/ RecoveryAborts(t) \/ RecoveryMisses(t)
      PROVE  OwnerLockExcludes'
  BY <1>1, <1>4 DEF TimePasses, RecoveryAborts, RecoverOne, RecoveryMisses,
                    RecoverOneFails, engineVars, clearingVars
<1>5. ASSUME NEW t \in Payments, DatabaseFinishes(t) PROVE OwnerLockExcludes'
  BY <1>1, <1>2, <1>5 DEF DatabaseFinishes, InflightLands, InflightDies, InsertLands,
                          InsertDies, engineVars, clearingVars
<1>6. ASSUME NEW r \in Requests, RequestRuns(r) PROVE OwnerLockExcludes'
  BY <1>1, <1>6 DEF RequestRuns, RequestStep, Refuse, Lookup, NoRoute, Insert, Prepare,
                    Commit, ReadBack, Abort, engineVars, clearingVars
<1>7. ASSUME NEW r \in Requests, RequestDisturbed(r) PROVE OwnerLockExcludes'
  <2>1. UNCHANGED <<interlock, clrPc>> /\ (inflight' = inflight \/ LeftInFlight(r))
    BY <1>7 DEF RequestDisturbed, RetryUoW, DatabaseError, OwnerSetChanged, CleanUpFails,
                Crash, Interrupt, engineVars, clearingVars
  <2> QED BY <1>1, <1>3, <2>1
<1>8. ASSUME RecoveryScans \/ LineEdited \/ UNCHANGED vars PROVE OwnerLockExcludes'
  BY <1>1, <1>8 DEF RecoveryScans, ScanExpired, ScanStale, EndIteration, LineEdited, vars,
                    engineVars, clearingVars
<1>9. ASSUME NEW w \in Clearers, ClearerRuns(w) PROVE OwnerLockExcludes'
  <2>1. CASE AcquireInterlock(w)
    BY <1>0, <2>1 DEF AcquireInterlock, OwnerFree, TxLockFree
  <2>2. CASE ReleaseInterlock(w)
    BY <1>0, <2>2 DEF ReleaseInterlock
  <2>3. CASE FindCycles(w) \/ SubmitCycle(w) \/ DropCandidate(w) \/ ExecuteClearing(w)
             \/ NothingCleared(w)
    BY <1>0, <2>3 DEF FindCycles, SubmitCycle, Choose, DropCandidate, ExecuteClearing,
                      NothingCleared, engineVars
  <2> QED BY <1>9, <2>1, <2>2, <2>3 DEF ClearerRuns
<1> HIDE DEF OwnerLockExcludes
<1> QED BY <1>4, <1>5, <1>6, <1>7, <1>8, <1>9 DEF Next

\* The reservations stay covered as long as nobody disturbs them.
LEMMA SpecRInv == ASSUME Undisturbed PROVE Spec => [](IInv /\ RInv)
<1>1. Init => RInv
  <2> SUFFICES ASSUME Init PROVE RInv
    OBVIOUS
  <2> USE DEF Init, HubInit, EngineInit, ServiceInit, ClearingInit
  <2>1. InflightIsCovered /\ OwnerLockExcludes
    BY DEF InflightIsCovered, OwnerLockExcludes, NothingInFlight
  <2>2. ClocksAgree
    BY DEF ClocksAgree
  <2>3. LivePayments = {}
    BY DEF LivePayments
  <2>4. ASSUME NEW e \in Pairs PROVE Covered(e)
    <3>1. Reserved(e) = 0
      BY <2>3, SumStep, FS_EmptySet DEF Reserved
    <3> QED BY <3>1 DEF Covered
  <2> HIDE DEF Init
  <2> QED BY <2>1, <2>2, <2>4 DEF RInv
<1>2. IInv /\ RInv /\ [Next]_vars => RInv'
  <2> SUFFICES ASSUME IInv, RInv, [Next]_vars PROVE RInv'
    OBVIOUS
  <2>1. IInv'
    BY NextIInv
  <2>2. /\ DbTypeOK /\ DbTypeOK' /\ LocksMatchState /\ LocksMatchState' /\ InflightMatchesState
        /\ ServiceTypeOK /\ WorkerTypeOK /\ cand \in [Clearers -> SUBSET RowIds]
    BY <2>1 DEF IInv, DbInv, WorkerTypeOK
  <2>3. DbStep /\ ReservedStep
    BY <2>2, NextIsDbStep, NextIsReservedStep
  <2>4. (\A e \in Pairs : Covered(e))' /\ InflightIsCovered'
    BY <2>2, <2>3, ReservedStepCovers DEF RInv
  <2>5. ClocksAgree'
    BY <2>2, <2>3, ClocksStep DEF RInv
  <2>6. OwnerLockExcludes'
    BY <2>2, OwnerLockStep DEF RInv
  <2> QED BY <2>4, <2>5, <2>6 DEF RInv
<1> QED BY <1>1, <1>2, SpecIInv, PTL DEF Spec

----------------------------------------------------------------------------
(* The promise, and the theorems. *)

\* Every change of the rows is one the abstract specification allows, or none
\* that it sees.
LEMMA DbStepPromised ==
    ASSUME DbTypeOK, DbStep
    PROVE  Promise!Next \/ UNCHANGED <<debt, Outcome, flow>>
<1>0. \A t \in Payments : tx[t] \in TxStates
  BY DEF DbTypeOK
<1>1. UNCHANGED <<debt, tx, flow>> => UNCHANGED <<debt, Outcome, flow>>
  BY DEF Outcome
<1>2. CASE \E t \in Payments : LockExpires(t) \/ TxAges(t)
  BY <1>1, <1>2 DEF LockExpires, TxAges
<1>3. ASSUME NEW r \in Requests, InsertEffect(r)
      PROVE  Promise!Open(TxOf[r])
  <2>1. TxOf[r] \in Payments /\ Routings[r] \subseteq [Pairs -> Nat]
    BY ServiceAssumption
  <2>2. PICK f \in Routings[r] : flow' = [flow EXCEPT ![TxOf[r]] = f]
    BY <1>3 DEF InsertEffect
  <2>3. flow'[TxOf[r]] = f
    BY <2>1, <2>2 DEF DbTypeOK
  <2>4. Outcome[TxOf[r]] = "none" /\ Outcome' = [Outcome EXCEPT ![TxOf[r]] = "open"]
    BY <1>0, <1>3, <2>1 DEF InsertEffect, Outcome, DbTypeOK
  <2> QED BY <1>3, <2>1, <2>2, <2>3, <2>4 DEF InsertEffect, Promise!Open, Promise!Decide
<1>4. ASSUME NEW t \in Payments, tx[t] = "NEW", PrepareEffect(t)
      PROVE  UNCHANGED <<debt, Outcome, flow>>
  BY <1>4 DEF PrepareEffect, Outcome, DbTypeOK
<1>5. ASSUME NEW t \in Payments, SoundCommit(t)
      PROVE  Promise!Settle(t)
  <2>1. Outcome[t] = "open" /\ Outcome' = [Outcome EXCEPT ![t] = "committed"]
    BY <1>0, <1>5 DEF SoundCommit, CommitEffect, Outcome, DbTypeOK
  <2> QED BY <1>5, <2>1 DEF SoundCommit, CommitEffect, SetDebt, Promise!Settle,
                            Promise!Decide
<1>6. ASSUME NEW t \in Payments, AbortEffect(t)
      PROVE  Promise!Cancel(t) \/ UNCHANGED <<debt, Outcome, flow>>
  <2>1. CASE tx[t] \in ActiveTx
    <3>1. Outcome[t] = "open" /\ Outcome' = [Outcome EXCEPT ![t] = "aborted"]
      BY <1>0, <1>6, <2>1 DEF AbortEffect, Outcome, DbTypeOK
    <3> QED BY <1>6, <3>1 DEF AbortEffect, Promise!Cancel, Promise!Decide
  <2>2. CASE tx[t] \notin ActiveTx
    BY <1>1, <1>6, <2>2 DEF AbortEffect, DbTypeOK
  <2> QED BY <2>1, <2>2
<1>7. CASE LineStep
  BY <1>1, <1>7 DEF LineStep, CreateLine, UpdateLine, CloseLine, FreezeParticipant,
                    moneyVars, payVars
<1>8. CASE ClearStep
  <2>1. PICK rows \in SUBSET RowIds, amount \in Nat :
          amount \in {debt[e] : e \in EdgesOf(rows)} /\ ClearRows(rows, amount)
    BY <1>8 DEF ClearStep, DbTypeOK, EdgesOf, RowIds
  <2>2. EdgesOf(rows) \in SUBSET Pairs
    BY DEF EdgesOf, RowIds
  <2>3. NeutralOffset(debt, debt')
    BY <2>1, <2>2 DEF ClearRows, MayClear, SetDebt, NeutralOffset
  <2>4. UNCHANGED <<Outcome, flow>>
    BY <2>1 DEF ClearRows, payVars, Outcome
  <2> QED BY <2>3, <2>4 DEF Promise!Next, Promise!Clear
<1> QED BY <1>1, <1>2, <1>3, <1>4, <1>5, <1>6, <1>7, <1>8, ServiceAssumption
        DEF DbStep, dbVars, Promise!Next

\* Every variable of the hub keeps its type: amounts stay natural numbers, so no
\* row breaks the positive-amount constraints of debts and trust_lines.
THEOREM TypeCorrect == Spec => []TypeOK
BY SpecIInv, IInvImplies, PTL

\* Prepare locks exist exactly for PREPARED payments: commit, abort, recovery and
\* units of work left in flight never leave a reservation behind or lose one.
THEOREM ReservationsMatchState == Spec => []LocksMatchState
BY SpecIInv, IInvImplies, PTL

\* _apply_flow and clearing never leave two participants owing each other.
THEOREM DebtsAreNetted == Spec => []NoMutualDebt
BY SpecIInv, IInvImplies, PTL

\* No commit and no edit, close or freeze of a trust line takes a debt above the
\* limit of its live line, although edits do not look at reservations.
THEOREM LimitsAreRespected == Spec => []LimitsRespected
BY SpecIInv, IInvImplies, PTL

\* Exactly once: every net position is the initial one moved by the flows of the
\* COMMITTED payments, each counted once, whatever races, is retried or lands
\* late; clearing moves nobody's.
THEOREM BooksBalance == Spec => []LedgerIsSumOfCommitted
BY SpecIInv, IInvImplies, PTL

\* While no line is edited or frozen and the TTL of a lock outlasts a commit, the
\* live reservations over an edge fit into its capacity together, through every
\* race of prepares, commits in flight, expiry, recovery and clearing.
THEOREM ReservationsStayCovered ==
    ASSUME TTLCoversCommit, EditableLines = {}, Freezable = {}
    PROVE  Spec => []ReservationsCovered
<1>1. Undisturbed
  BY DEF Undisturbed
<1>2. RInv => ReservationsCovered
  BY DEF RInv, Covered, Reserved, Claims, LivePayments, ReservationsCovered
<1> QED BY <1>1, <1>2, SpecRInv, PTL

\* Of the requests that carry one tx_id, at most one drives prepare and commit.
THEOREM SingleOwner == Spec => []OneOwner
BY SpecIInv, IInvImplies, PTL

\* The advisory locks keep clean-up, retries and recovery off a payment whose
\* prepare or commit PostgreSQL is still finishing.
THEOREM InflightIsolated == Spec => []InflightMatchesState
BY SpecIInv, IInvImplies, PTL

\* create_payment reports COMMITTED only for committed payments, and a rejection
\* only for payments that are aborted, for good.
THEOREM RepliesAreTruthful == Spec => []ReplyIsTruthful
BY SpecIInv, IInvImplies, PTL

\* The rows that identify a committed clearing never all exist again, so the
\* replay check of clearing never answers for a different clearing.
THEOREM ClearingNamesAreSpent == Spec => []ClearedRowsAreGone
BY SpecIInv, IInvImplies, PTL

\* COMMITTED and ABORTED are final, for late units of work, duplicate requests
\* and recovery with an outdated list alike.
THEOREM OutcomeIsFinal == Spec => TerminalIsFinal
<1>1. IInv /\ [Next]_vars
        => [\A t \in Payments : tx[t] \in TerminalTx => tx'[t] = tx[t]]_vars
  <2> SUFFICES ASSUME IInv, [Next]_vars
               PROVE  \A t \in Payments : tx[t] \in TerminalTx => tx'[t] = tx[t]
    OBVIOUS
  <2>1. LocksMatchState /\ cand \in [Clearers -> SUBSET RowIds]
    BY DEF IInv, DbInv, WorkerTypeOK
  <2>2. DbStep
    BY <2>1, NextIsDbStep DEF IInv
  <2> QED BY <2>1, <2>2, DbStepLocks DEF IInv
<1> QED BY <1>1, SpecIInv, PTL DEF Spec, TerminalIsFinal

\* Refinement: the hub, with its races, retries and failures, implements
\* MutualCredit.  A payment is settled or cancelled once, settling it is the only
\* way debts grow, and everything else that moves a debt is a neutral offset.
THEOREM ImplementsMutualCredit == Spec => KeepsPromise
<1>1. Init => Promise!Init
  BY DEF Init, HubInit, Promise!Init, Outcome
<1>2. IInv /\ [Next]_vars => [Promise!Next]_(Promise!promiseVars)
  <2> SUFFICES ASSUME IInv, [Next]_vars
               PROVE  Promise!Next \/ UNCHANGED <<debt, Outcome, flow>>
    BY DEF Promise!promiseVars
  <2>1. LocksMatchState /\ cand \in [Clearers -> SUBSET RowIds]
    BY DEF IInv, DbInv, WorkerTypeOK
  <2>2. DbStep
    BY <2>1, NextIsDbStep DEF IInv
  <2> QED BY <2>2, DbStepPromised DEF IInv
<1> QED BY <1>1, <1>2, SpecIInv, PTL DEF Spec, KeepsPromise, Promise!Spec
=============================================================================
