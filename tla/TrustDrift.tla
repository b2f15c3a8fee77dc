----------------------------- MODULE TrustDrift -----------------------------
(***************************************************************************)
(* app/core/simulator/trust_drift_engine.py in the order the tick gives    *)
(* it: the debts are read before the payments, a clearing lets the limits  *)
(* of the lines it touched grow, and at the end of the tick the limit of a *)
(* line that is nearly used up decays.  Growth starts from the row, decay  *)
(* from the scenario in memory.  One line of a run, in the smallest unit;  *)
(* rates are percentages.                                                  *)
(* Viewers pay and change the limit between the tick's transactions, never *)
(* inside one (SERIALIZABLE).  Whoever commits a limit tells the scenario  *)
(* when it hears of its commit, which may be after the other's commit.     *)
(***************************************************************************)
EXTENDS Integers

CONSTANTS
    Originals,          \* limits the line may start the run with
    GrowthRate, DecayRate, MaxGrowth, MinLimit, Overload,   \* TrustDriftConfig, in percent
    ViewerLimits,       \* limits a viewer may set
    MaxTicks            \* bound: ticks

\* What the constants must satisfy; every instance assumes it.
DriftAssumption ==
    /\ Originals \subseteq Nat /\ ViewerLimits \subseteq Nat
    /\ {GrowthRate, DecayRate, MaxGrowth, MinLimit, Overload, MaxTicks}
         \subseteq Nat
    /\ DecayRate <= 100 /\ MinLimit <= 100 /\ MaxGrowth >= 100

VARIABLES
    limit,              \* limit of the line's row
    frozen,             \* where the line is frozen: "no", "row", or "both" row and scenario
    debt,               \* the debt it covers
    extra,              \* change of the debt the tick has not committed yet
    memory,             \* limit of the line in the scenario
    unheard,               \* the limit that the tick, or a viewer, has committed and not heard of
    original,           \* original_limit of its history, 0 for no history
    lastClearing,       \* last_clearing_tick
    snap,               \* debt_snapshot of the tick
    target,             \* the limit that decay is about to write
    tick, pc,
    doubt,              \* a commit was not answered, or met another not yet heard of
    edited              \* a viewer has changed the limit

lineVars  == <<limit, memory, unheard, doubt>>
tickVars  == <<snap, target, tick, pc>>
driftVars == <<lineVars, frozen, debt, extra, original, lastClearing, tickVars, edited>>

NoLimit   == -1
Writers  == {"tick", "viewer"}
Outcomes == {"done", "failed", "lost"}

Percent(n, rate) == (n * rate) \div 100
MaxOf(a, b) == IF a >= b THEN a ELSE b
MinOf(a, b) == IF a <= b THEN a ELSE b

\* init_trust_drift: a line without a limit gets no history and never drifts.
DriftInit ==
    /\ original \in Originals
    /\ limit = original /\ memory = original /\ frozen = "no"
    /\ unheard = [w \in Writers |-> NoLimit]
    /\ debt = 0 /\ extra = 0 /\ snap = 0 /\ target = NoLimit
    /\ lastClearing = -1 /\ tick = 0 /\ pc = "idle"
    /\ doubt = FALSE /\ edited = FALSE

\* resolve_commit_under_cancellation, and the commit of a viewer: the writer will
\* tell the scenario of a new limit only if it hears that its commit took effect.
\* The update misses a frozen row.
LimitEnds(w, new, outcome) ==
    LET written == new # NoLimit /\ outcome # "failed"
    IN  /\ limit' = IF written /\ frozen = "no" THEN new ELSE limit
        /\ unheard'  = [unheard EXCEPT ![w] = IF written /\ outcome = "done" THEN new ELSE @]
        /\ doubt' = (doubt \/ (written /\ (\/ outcome = "lost" \/ frozen # "no"
                                          \/ \E v \in Writers : unheard[v] # NoLimit)))

\* The writer hears of its commit: apply_committed_effects, or
\* _mutate_runtime_trustline_topology_best_effort.
Hear(w) ==
    /\ unheard[w] # NoLimit
    /\ memory' = unheard[w]
    /\ unheard' = [unheard EXCEPT ![w] = NoLimit]
    /\ UNCHANGED <<limit, frozen, debt, extra, original, lastClearing, tickVars, doubt, edited>>

\* A payment raises or lowers the debt; the engine keeps it within the row's limit.
Payable(change) ==
    frozen = "no" /\ debt + extra + change \in 0..MaxOf(limit, debt + extra)

\* A viewer pays, between two transactions of the tick.
Pay(change) ==
    /\ pc # "planned" /\ Payable(change)
    /\ debt' = debt + change
    /\ UNCHANGED <<lineVars, frozen, extra, original, lastClearing, tickVars, edited>>

\* action_trustline_update: not below the debt.  One viewer's update at a time.
ViewerUpdates(new, outcome) ==
    /\ pc # "planned" /\ unheard["viewer"] = NoLimit
    /\ frozen = "no" /\ new >= debt
    /\ LimitEnds("viewer", new, outcome)
    /\ edited' = (edited \/ outcome # "failed")
    /\ UNCHANGED <<memory, frozen, debt, extra, original, lastClearing, tickVars>>

\* A scenario event freezes the line; a commit without an answer leaves the
\* scenario as it was.
Freeze(told) ==
    /\ pc = "idle" /\ frozen = "no"
    /\ frozen' = IF told THEN "both" ELSE "row"
    /\ UNCHANGED <<lineVars, debt, extra, original, lastClearing, tickVars, edited>>

----------------------------------------------------------------------------
(* The tick.  It goes on when it has heard of its last commit. *)

Reached(phases) == pc \in phases /\ unheard["tick"] = NoLimit

\* The tick reads the debts, which may fail, and then makes its payments.
LoadDebts(read) ==
    /\ Reached({"idle"}) /\ tick < MaxTicks
    /\ tick' = tick + 1
    /\ snap' = IF read THEN debt ELSE 0
    /\ pc' = "planned"
    /\ UNCHANGED <<lineVars, frozen, debt, extra, original, lastClearing, target, edited>>

TickPays(change) ==
    /\ Reached({"planned"}) /\ Payable(change)
    /\ extra' = extra + change
    /\ UNCHANGED <<lineVars, frozen, debt, original, lastClearing, tickVars, edited>>

\* The payments are committed before a clearing, or undone with the tick.
CommitPayments(ok) ==
    /\ Reached({"planned"})
    /\ debt' = IF ok THEN debt + extra ELSE debt
    /\ extra' = 0
    /\ pc' = IF ok THEN "cleared" ELSE "idle"
    /\ UNCHANGED <<lineVars, frozen, original, lastClearing, snap, target, tick, edited>>

\* A clearing reduces the debt, in transactions of its own.
Clear(amount) ==
    /\ Reached({"cleared"}) /\ frozen = "no"
    /\ amount \in 1..debt
    /\ debt' = debt - amount
    /\ pc' = "growing"
    /\ UNCHANGED <<lineVars, frozen, extra, original, lastClearing, snap, target, tick, edited>>

Grown == MinOf(Percent(limit, 100 + GrowthRate), Percent(original, MaxGrowth))

\* apply_trust_growth reads the row and commits in the clearing's session.
Grow(outcome) ==
    /\ Reached({"growing"})
    /\ lastClearing' = IF original > 0 THEN tick ELSE lastClearing
    /\ LimitEnds("tick", IF original > 0 /\ frozen = "no" /\ Grown # limit THEN Grown ELSE NoLimit,
                 outcome)
    /\ pc' = "grown"
    /\ UNCHANGED <<memory, frozen, debt, extra, original, snap, target, tick, edited>>

\* The line is known, was not cleared in this tick, and is nearly used up.
Overloaded ==
    /\ frozen # "both" /\ original > 0 /\ lastClearing # tick
    /\ memory > 0 /\ snap * 100 >= Overload * memory

\* Mutant: the used part of the line is no floor.
DecayedBelowDebt ==
    MaxOf(Percent(memory, 100 - DecayRate), Percent(original, MinLimit))

\* Not below the share of the original limit, nor below the debt that was read.
Decayed ==
    MaxOf(MaxOf(Percent(memory, 100 - DecayRate), Percent(original, MinLimit)), snap)

\* apply_trust_decay: what is to be written, if anything.
DecayTarget == IF Overloaded /\ Decayed # memory THEN Decayed ELSE NoLimit

\* Without a clearing, decay shares the transaction of the payments ...
DecayWithPayments(outcome) ==
    /\ Reached({"planned"})
    /\ debt' = IF outcome = "failed" THEN debt ELSE debt + extra
    /\ extra' = 0
    /\ LimitEnds("tick", DecayTarget, outcome)
    /\ pc' = "idle"
    /\ UNCHANGED <<memory, frozen, original, lastClearing, snap, target, tick, edited>>

\* ... after one it has its own, which begins when the scenario has been read.
DecayReads ==
    /\ Reached({"cleared", "grown"})
    /\ target' = DecayTarget
    /\ pc' = "decaying"
    /\ UNCHANGED <<lineVars, frozen, debt, extra, original, lastClearing, snap, tick, edited>>

\* A failed commit ends the tick, which is idle again either way.
DecayEnds(outcome) ==
    /\ Reached({"decaying"})
    /\ LimitEnds("tick", target, outcome)
    /\ target' = NoLimit
    /\ pc' = "idle"
    /\ UNCHANGED <<memory, frozen, debt, extra, original, lastClearing, snap, tick, edited>>

DriftNext ==
    \/ \E change \in {-1, 1} : Pay(change) \/ TickPays(change)
    \/ \E w \in Writers : Hear(w)
    \/ \E new \in ViewerLimits, outcome \in Outcomes : ViewerUpdates(new, outcome)
    \/ \E ok \in BOOLEAN : Freeze(ok) \/ LoadDebts(ok) \/ CommitPayments(ok)
    \/ \E amount \in 1..debt : Clear(amount)
    \/ DecayReads
    \/ \E outcome \in Outcomes :
         Grow(outcome) \/ DecayWithPayments(outcome) \/ DecayEnds(outcome)

DriftSpec == DriftInit /\ [][DriftNext]_driftVars

----------------------------------------------------------------------------
\* Type invariant of the line, its history and the tick.
DriftTypeOK ==
    /\ original \in Originals
    /\ {limit, memory, debt, snap, debt + extra} \subseteq Nat
    /\ unheard \in [Writers -> Nat \cup {NoLimit}] /\ target \in Nat \cup {NoLimit}
    /\ frozen \in {"no", "row", "both"} /\ doubt \in BOOLEAN /\ edited \in BOOLEAN
    /\ lastClearing \in -1..MaxTicks /\ tick \in 0..MaxTicks
    /\ pc \in {"idle", "planned", "cleared", "growing", "grown", "decaying"}

\* The guard of apply_trust_decay, as far as the code keeps it: a step takes a limit
\* below its debt only if the debt has risen since the tick read it, or if growth
\* cuts a limit that was above the line's multiple of its original value.
UncoveredOnlyAfterTheRead ==
    (debt <= limit /\ debt' > limit')
        => \/ pc \in {"planned", "decaying"} /\ snap < debt'
           \/ pc = "growing" /\ limit > Percent(original, MaxGrowth)

\* Growth and decay each act on the limit the other left, over any number of ticks,
\* failed commits and viewers: the scenario shows the limit of the row, or will when
\* its last writer hears of its commit, unless a commit was never answered or was
\* made before another had been heard of.
MemoryFollowsLimit ==
    \/ doubt
    \/ \E w \in Writers : limit = unheard[w]
    \/ limit = memory /\ \A w \in Writers : unheard[w] = NoLimit

\* A limit that no viewer changes stays, over growth and decay in any order and
\* from either copy, within the share and the multiple of its original value.
DriftStaysInBounds ==
    (original > 0 /\ ~edited) =>
        limit \in Percent(original, MinLimit)..MaxOf(original, Percent(original, MaxGrowth))

\* "trust drift must never shrink limit below already-used debt"
\* (The code does not keep this: README, section 5.)
LimitCoversDebt == debt <= limit
=============================================================================
