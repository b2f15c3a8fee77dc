-------------------------------- MODULE Hub --------------------------------
(***************************************************************************)
(* The hub: payment requests, recovery, trust-line edits and clearing      *)
(* interleaved over one database.                                          *)
(***************************************************************************)
EXTENDS Recovery, TrustLines, Clearing

CONSTANT TTLCoversCommit  \* the lock TTL outlasts every commit (the defaults:
                          \* 30 s against a total payment timeout of 10 s)

ASSUME HubConfigAssumption == TTLCoversCommit \in BOOLEAN

vars == <<dbVars, engineVars, serviceVars, recoveryVars, suspended, clearingVars>>

Init ==
    /\ HubInit /\ EngineInit /\ ServiceInit /\ RecoveryInit /\ TrustLinesInit
    /\ ClearingInit

CommitRunning(t) ==
    \/ inflight[t] = "commit"
    \/ \E r \in Requests : TxOf[r] = t /\ pc[r] = "committing"

TimePasses(t) ==
    /\ \/ LockExpires(t) /\ (TTLCoversCommit => ~CommitRunning(t))
       \/ TxAges(t)
    /\ UNCHANGED <<engineVars, serviceVars, recoveryVars, suspended, clearingVars>>

DatabaseFinishes(t) ==
    /\ \/ (InflightLands(t) \/ InflightDies(t)) /\ UNCHANGED serviceVars
       \/ \E r \in Requests : TxOf[r] = t /\ (InsertLands(r) \/ InsertDies(r))
    /\ UNCHANGED << recoveryVars, suspended, clearingVars>>

RequestRuns(r) ==
    /\ RequestStep(r)
    /\ UNCHANGED <<recoveryVars, suspended, clearingVars>>

RequestDisturbed(r) ==
    /\ \/ RetryUoW(r) \/ DatabaseError(r) \/ OwnerSetChanged(r)
       \/ CleanUpFails(r) \/ Crash(r)
       \/ \E kind \in {"timeout", "cancelled"} : Interrupt(r, kind)
    /\ UNCHANGED <<recoveryVars, suspended, clearingVars>>

RecoveryScans ==
    /\ ScanExpired \/ ScanStale \/ EndIteration
    /\ UNCHANGED <<suspended, clearingVars>>

RecoveryAborts(t) == RecoverOne(t) /\ UNCHANGED <<suspended, clearingVars>>

RecoveryMisses(t) == RecoverOneFails(t) /\ UNCHANGED <<suspended, clearingVars>>

LineEdited ==
    /\ \/ \E e \in EditableLines :
            \/ \E lim \in NewLimits, consent \in BOOLEAN : CreateLine(e, lim, consent)
            \/ \E lim \in NewLimits \cup {limit[e]}, consent \in BOOLEAN :
                 UpdateLine(e, lim, consent)
            \/ CloseLine(e)
       \/ \E p \in Freezable, lines \in BOOLEAN : FreezeParticipant(p, lines)
    /\ UNCHANGED <<engineVars, serviceVars, recoveryVars, clearingVars>>

ClearerRuns(w) ==
    /\ \/ FindCycles(w) \/ SubmitCycle(w) \/ DropCandidate(w)
       \/ AcquireInterlock(w) \/ ExecuteClearing(w) \/ NothingCleared(w)
       \/ ReleaseInterlock(w)
    /\ UNCHANGED <<serviceVars, recoveryVars, suspended>>

Next ==
    \/ \E t \in Payments :
         TimePasses(t) \/ DatabaseFinishes(t) \/ RecoveryAborts(t) \/ RecoveryMisses(t)
    \/ \E r \in Requests : RequestRuns(r) \/ RequestDisturbed(r)
    \/ RecoveryScans
    \/ LineEdited
    \/ \E w \in Clearers : ClearerRuns(w)

Spec == Init /\ [][Next]_vars

(***************************************************************************)
(* Requests run to their reply: every await of theirs is bounded by a      *)
(* timeout.  Recovery loops until shutdown.  PostgreSQL ends what is in    *)
(* flight, grants advisory locks in the order they were asked for, and a   *)
(* worker's pinned session is released on every path.  Time passes.        *)
(***************************************************************************)
Fairness ==
    /\ \A r \in Requests : SF_vars(RequestRuns(r))
    /\ \A t \in Payments :
         /\ WF_vars(TimePasses(t))
         /\ WF_vars(DatabaseFinishes(t))
         /\ SF_vars(RecoveryAborts(t))
    /\ WF_vars(RecoveryScans)
    /\ \A w \in Clearers :
         WF_vars(ReleaseInterlock(w) /\ UNCHANGED <<serviceVars, recoveryVars, suspended>>)

FairSpec == Spec /\ Fairness

----------------------------------------------------------------------------
TypeOK ==
    /\ debt \in [Pairs -> Nat]
    /\ row \in [Pairs -> Nat]
    /\ status \in [Pairs -> LineStates]
    /\ limit \in [Pairs -> Nat]
    /\ auto \in [Pairs -> BOOLEAN]
    /\ stamp \in [Payments -> SUBSET Contents]
    /\ tx \in [Payments -> TxStates]
    /\ flow \in [Payments -> [Pairs -> Nat]]
    /\ lock \in [Payments -> {"none", "live", "expired"}]
    /\ aged \in SUBSET Payments
    /\ cleared \in SUBSET (SUBSET RowIds)
    /\ inflight \in [Payments -> InflightKinds]
    /\ interlock \in SUBSET Clearers
    /\ pc \in [Requests -> PCs]
    /\ why \in [Requests -> Failures]
    /\ reply \in [Requests -> Replies]
    /\ pending \in SUBSET Requests
    /\ nowOf \in [Requests -> SUBSET Payments]
    /\ faults \in 0..MaxFaults
    /\ recPc \in {"idle", "expired", "stale"}
    /\ recList \in SUBSET Payments
    /\ suspended \in SUBSET Participants
    /\ clrPc \in [Clearers -> {"idle", "candidate", "interlocked", "releasing"}]
    /\ cand \in [Clearers -> SUBSET RowIds]

\* A payment holds reservations exactly while it is PREPARED, whatever races
\* between commit, abort, recovery and units of work left in flight.
LocksMatchState == \A t \in Payments : lock[t] # "none" <=> tx[t] = "PREPARED"

\* Netting leaves no pair of participants owing each other.
NoMutualDebt == \A e \in Pairs : debt[e] = 0 \/ debt[Flip(e)] = 0

\* No debt exceeds the limit of its live line, although trust-line edits look
\* neither at reservations nor at commits in flight.
LimitsRespected == \A e \in Pairs : debt[e] <= LiveLimit(Flip(e))

\* Exactly once: every net position is the initial one moved by the flows of
\* the COMMITTED payments, each counted once; clearing moves none.
LedgerIsSumOfCommitted ==
    \A p \in Participants :
        NetPosition(debt, p) = NetPosition(Debt0, p)
            + SumFunctionOnSet([t \in Payments |-> Inflow(flow[t], p)],
                               {t \in Payments : tx[t] = "COMMITTED"})

\* A reply that names an outcome agrees with the database for good: what is
\* reported committed is, what is reported rejected or aborted never will be.
ReplyIsTruthful ==
    \A r \in Requests :
        /\ reply[r] = "committed" => tx[TxOf[r]] = "COMMITTED"
        /\ reply[r] \in {"rejected", "aborted"} => tx[TxOf[r]] = "ABORTED"

\* While no line is edited and no lock lapses under a running commit, the
\* reservations over an edge fit into its capacity, so no payment that is
\* prepared in time can fail its limit check.
ReservationsCovered ==
    \A e \in Pairs :
        LET reserved == SumFunctionOnSet([t \in Payments |-> flow[t][e]],
                                         {t \in Payments : lock[t] = "live"})
        IN  reserved > 0 => reserved <= AvailableCapacity(e)

\* The rows that name a committed clearing never all exist again, so its
\* identity cannot answer for a later cycle of the same participants.
ClearedRowsAreGone == \A rows \in cleared : ~RowsExist(rows)

\* The request that may still move the payment: it inserted the row, or it is
\* about to report a rejection.
Owns(r) ==
    \/ pc[r] \in {"preparing", "committing"}
    \/ pc[r] = "aborting" /\ why[r] = "rejected"

\* One request at most drives a payment forward, however many carry its tx_id,
\* and while it does, nothing of that payment is left in flight or committed.
OneOwner ==
    \A r \in Requests :
        /\ Owns(r) => /\ tx[TxOf[r]] \in {"NEW", "PREPARED", "ABORTED"}
                      /\ inflight[TxOf[r]] = "none"
                      /\ \A s \in Requests : Owns(s) /\ TxOf[s] = TxOf[r] => s = r
        /\ pc[r] = "reading" => why[r] # "rejected"

\* A unit of work left in flight finds the payment as it left it: neither
\* clean-up nor recovery nor a retry gets in between.
InflightMatchesState ==
    \A t \in Payments :
        /\ inflight[t] = "prepare" => tx[t] = "NEW"
        /\ inflight[t] = "commit" => tx[t] = "PREPARED"

Outcome ==
    [t \in Payments |-> CASE tx[t] = "absent"     -> "none"
                         [] tx[t] \in ActiveTx    -> "open"
                         [] tx[t] = "COMMITTED"   -> "committed"
                         [] tx[t] = "ABORTED"     -> "aborted"]

\* after is before with one amount taken off some debts, nobody's position moving.
NeutralOffset(before, after) ==
    \E edges \in SUBSET Pairs : \E amount \in {before[e] : e \in edges} :
        /\ \A e \in edges : amount <= before[e]
        /\ after = ReduceAll(before, edges, amount)
        /\ ClearingNeutrality(before, after, edges)

Promise == INSTANCE MutualCredit
    WITH outcome <- Outcome, Flows <- [Pairs -> Nat], Start <- Debt0,
         Apply <- ApplyFlows, Offset <- NeutralOffset

\* Refinement: with all its interleavings, retries, late commits and failures the
\* hub does nothing to debts but settle each payment at most once and offset.
KeepsPromise == Promise!Spec

\* COMMITTED and ABORTED are final.
TerminalIsFinal ==
    [][\A t \in Payments : tx[t] \in TerminalTx => tx'[t] = tx[t]]_vars

\* Every payment that reaches the database ends, whoever abandoned it.
PaymentsTerminate ==
    \A t \in Payments : tx[t] \in ActiveTx ~> tx[t] \in TerminalTx

\* Every request is answered unless its worker dies.
RequestsAnswered ==
    \A r \in Requests : pc[r] = "routing" ~> pc[r] \in {"done", "crashed"}

----------------------------------------------------------------------------
(* What comments and documents of the repository say and the code does not  *)
(* keep: each has a run of its own that ends in a counterexample.           *)

\* service.py, the idempotency comment of create_payment: a request whose
\* content differs from the stored one is refused with a conflict, so that it
\* is never told that its payment was committed.
CommittedIsOwnContent ==
    \A r \in Requests :
        reply[r] = "committed" => stamp[TxOf[r]] = {ContentOf[r]}

\* docs/en/02-protocol-spec.md, 6.9: a payment that times out is aborted.
TimeoutMeansAborted ==
    \A r \in Requests : reply[r] = "timeout" => tx[TxOf[r]] # "COMMITTED"

\* trustlines/service.py, the comment of update: TRUST_LINE_UPDATE requires an
\* active line.
\* (The code does not keep this: README, section 5.)
OnlyActiveLinesUpdated ==
    [][\A e \in Pairs : limit'[e] # limit[e] => status[e] # "frozen"]_vars
=============================================================================
