-------------------------- MODULE AdaptiveClearing --------------------------
(***************************************************************************)
(* The adaptive clearing policy (adaptive_clearing_policy.py) and the part *)
(* of real_tick_clearing_coordinator.py that feeds and obeys it: a rolling *)
(* window of refusals per equivalent, hysteresis, cooldown, backoff after  *)
(* clearings that yield nothing, scaled budgets, and a cap on the          *)
(* equivalents cleared in one tick, by their number and by their time.     *)
(* One coordinator serves every run of the process, without a lock: while  *)
(* the tick of a run waits for a clearing, those of others decide and      *)
(* clear.  Rates are exact fractions in percent.                           *)
(***************************************************************************)
EXTENDS Integers, Sequences, Functions, SequencesExt, FiniteSetsExt

CONSTANTS
    Eqs,            \* equivalents, numbered in the order of their codes
    Sims,           \* runs of the process
    Signals,        \* what a tick may see: <<attempted, refused for capacity>>
    Configs,        \* configurations
    MaxEqPerTick,   \* SIMULATOR_CLEARING_ADAPTIVE_MAX_EQ_PER_TICK, 0 for none
    EngineDepth,    \* the depth the clearing engine was built with
    MaxTick         \* bound: ticks of each run

\* What the constants must satisfy; every instance assumes it.  A window below 1
\* is set to 1 by the code.  A cooldown below 0 is taken for 0, which disables it.
AdaptiveAssumption ==
    /\ IsFiniteSet(Eqs) /\ Eqs = 1..Cardinality(Eqs)
    /\ {MaxEqPerTick, EngineDepth} \subseteq Nat /\ MaxTick \in [Sims -> Nat]
    /\ Signals \subseteq Nat \X Nat
    /\ Configs \subseteq [window : Nat \ {0}, high : Int, low : Int, minInterval : Nat,
                          maxInterval : Int, depthMin : Int, depthMax : Int, ceiling : Int,
                          warmup : Int, guarded : BOOLEAN, timed : BOOLEAN]

VARIABLES
    cfg,        \* AdaptiveClearingPolicyConfig; guarded: a guardrail is set,
                \* timed: the clearings of a tick have a time budget
    now,        \* run.tick_index of each run
    window,     \* the signals of the last ticks, per equivalent
    last,       \* last_clearing_tick, -1 before the first
    streak,     \* consecutive_zero_yield
    backoff,    \* backoff_interval
    active,     \* hysteresis: clearing is on
    due,        \* the equivalents the tick of each run has yet to clear, with their depth
    armed,      \* the rate has reached the high threshold, and not been below the low one since
    crossed,    \* equivalents that a run chose while another had yet to clear them
    ledger      \* per run and equivalent: when it was cleared, how long it waits

adaptiveVars == <<cfg, now, window, last, streak, backoff, active, due, armed, crossed, ledger>>

AdaptiveInit ==
    /\ cfg \in Configs
    /\ now = [s \in Sims |-> 0]
    /\ window = [e \in Eqs |-> <<>>] /\ last = [e \in Eqs |-> -1]
    /\ streak = [e \in Eqs |-> 0] /\ backoff = [e \in Eqs |-> 0]
    /\ active = [e \in Eqs |-> FALSE]
    /\ due = [s \in Sims |-> <<>>]
    /\ armed = [e \in Eqs |-> FALSE] /\ crossed = {}
    /\ ledger = [s \in Sims |-> [e \in Eqs |-> [cleared |-> -1, zeros |-> 0, waited |-> 0]]]

----------------------------------------------------------------------------
(* The policy                                                              *)

Clamp(v, lo, hi) == Max({lo, Min({hi, v})})

\* record_tick_signals: the window forgets its oldest tick.
Slide(w, sig) ==
    LET longer == Append(w, sig)
    IN  IF Len(longer) > cfg.window THEN Tail(longer) ELSE longer

Attempted(w) == SumFunction([i \in DOMAIN w |-> w[i][1]])
Refused(w)   == SumFunction([i \in DOMAIN w |-> w[i][2]])

\* get_no_capacity_rate is at least so many percent.
AtLeast(w, percent) ==
    IF Attempted(w) = 0 THEN percent <= 0
    ELSE 100 * Refused(w) >= percent * Attempted(w)

\* Clearing goes on at the high threshold and off below the low one.
Hysteresis(was, w) ==
    IF AtLeast(w, cfg.high) THEN TRUE
    ELSE IF ~AtLeast(w, cfg.low) THEN FALSE ELSE was

\* Mutant: only the cooldown counts.
BlockedBriefly(e, tick) == last[e] >= 0 /\ tick - last[e] < cfg.minInterval

\* Mutant: only the backoff counts.
BlockedByBackoff(e, tick) == last[e] >= 0 /\ backoff[e] > 0 /\ tick - last[e] < backoff[e]

\* _check_interval_limits: too soon after the last clearing.
Blocked(e, tick) ==
    /\ last[e] >= 0
    /\ \/ tick - last[e] < cfg.minInterval
       \/ backoff[e] > 0 /\ tick - last[e] < backoff[e]

\* _make_run_decision: the depth grows with the rate from low to high.
ScaledDepth(w) ==
    LET span  == (cfg.high - cfg.low) * Attempted(w)
        above == Clamp(100 * Refused(w) - cfg.low * Attempted(w), 0, Max({0, span}))
        raw   == IF cfg.high <= cfg.low THEN cfg.depthMax
                 ELSE IF span = 0 THEN cfg.depthMin
                 ELSE cfg.depthMin + ((cfg.depthMax - cfg.depthMin) * above) \div span
    IN  Clamp(raw, cfg.depthMin, Min({cfg.depthMax, cfg.ceiling}))

\* _make_min_budget_decision, for the warm-up.
LeastDepth == Max({1, Min({cfg.depthMin, cfg.depthMax, cfg.ceiling})})

\* evaluate: whether to clear an equivalent ...
Wanted(e, w, on, tick) ==
    /\ ~Blocked(e, tick)
    /\ IF Len(w) < cfg.window
       THEN cfg.warmup > 0 /\ tick % cfg.warmup = 0
       ELSE on

\* ... and how deep.
Depth(w) == IF Len(w) < cfg.window THEN LeastDepth ELSE ScaledDepth(w)

----------------------------------------------------------------------------
(* The coordinator                                                         *)

\* sorted(equivalents)
Sorted(S) ==
    CHOOSE q \in [1..Cardinality(S) -> S] : \A i, j \in DOMAIN q : i < j => q[i] < q[j]

\* Tick-level cap: the first ones in the order of their codes.
Capped(list) ==
    IF MaxEqPerTick > 0 /\ Len(list) > MaxEqPerTick
    THEN SubSeq(list, 1, MaxEqPerTick) ELSE list

\* _resolve_effective_int, then the engine's own limit.
Effective(depth) ==
    LET lo == Max({1, cfg.depthMin})
        hi == Max({lo, Min({cfg.depthMax, cfg.ceiling})})
    IN  Max({1, Min({Clamp(depth, lo, hi), EngineDepth})})

\* The tick of s has clearings to make.
Pending(s) == {due[s][i].eq : i \in DOMAIN due[s]}

\* A tick begins: every equivalent has its signals, whatever is decided.
Begins(s, sig) ==
    /\ due[s] = <<>> /\ now[s] < MaxTick[s]
    /\ now' = [now EXCEPT ![s] = @ + 1]
    /\ window' = [e \in Eqs |-> Slide(window[e], sig[e])]

\* No equivalent has waited for a clearing of s.
NoneWaits(s) ==
    [ledger EXCEPT ![s] = [e \in Eqs |-> [ledger[s][e] EXCEPT !.waited = 0]]]

\* No equivalent has been cleared in the present tick of s.
NoneCleared(s) == \A e \in Eqs : ledger[s][e].cleared # now[s]

\* A guardrail: too much is in flight or queued, and nothing is evaluated.
Guarded(s, sig) ==
    /\ cfg.guarded
    /\ Begins(s, sig)
    /\ ledger' = NoneWaits(s)
    /\ UNCHANGED <<cfg, last, streak, backoff, active, due, armed, crossed>>

\* _maybe_run_adaptive up to its commit: signals, decisions, the cap.  Only a
\* full window moves the hysteresis.
Tick(s, sig) ==
    LET tick == now[s] + 1
        w == [e \in Eqs |-> Slide(window[e], sig[e])]
        full(e) == Len(w[e]) >= cfg.window
        on == [e \in Eqs |-> IF full(e) THEN Hysteresis(active[e], w[e]) ELSE active[e]]
        wish == {e \in Eqs : Wanted(e, w[e], on[e], tick)}
        take == Capped(Sorted(wish))
    IN  /\ Begins(s, sig)
        /\ active' = on
        /\ due' = [due EXCEPT ![s] =
              [i \in DOMAIN take |-> [eq |-> take[i], depth |-> Effective(Depth(w[take[i]]))]]]
        /\ armed' = [e \in Eqs |->
              AtLeast(w[e], cfg.high) \/ (armed[e] /\ AtLeast(w[e], cfg.low))]
        /\ crossed' = crossed \cup
              {e \in ToSet(take) : \E x \in Sims \ {s} : e \in Pending(x)}
        /\ ledger' = [ledger EXCEPT ![s] = [e \in Eqs |->
              [ledger[s][e] EXCEPT !.waited = IF e \in wish THEN @ + 1 ELSE 0]]]
        /\ UNCHANGED <<cfg, last, streak, backoff>>

\* The interval after so many clearings in a row that yielded nothing.
Interval(zeros) ==
    LET base == Max({1, cfg.minInterval})
        top  == Max({base, cfg.maxInterval})
    IN  Max({base, Min({top, base * 2^Max({0, zeros - 1})})})

\* update_clearing_result, by the tick of s: a timeout, a failure and a cancellation
\* count as a clearing that yielded nothing.
Cleared(s, yield) ==
    LET e == Head(due[s]).eq
        zeros == IF yield = "some" THEN 0 ELSE streak[e] + 1
    IN  /\ last' = [last EXCEPT ![e] = now[s]]
        /\ streak' = [streak EXCEPT ![e] = zeros]
        /\ backoff' = [backoff EXCEPT ![e] = IF zeros = 0 THEN 0 ELSE Interval(zeros)]
        /\ ledger' = [ledger EXCEPT ![s][e] = [cleared |-> now[s], zeros |-> zeros, waited |-> 0]]

\* One equivalent after the other is cleared.
ClearOne(s, yield) ==
    /\ due[s] # <<>>
    /\ Cleared(s, yield)
    /\ due' = [due EXCEPT ![s] = Tail(@)]
    /\ UNCHANGED <<cfg, now, window, active, armed, crossed>>

\* The tick is cancelled in a clearing: the other equivalents are left out.
ClearingCancelled(s) ==
    /\ due[s] # <<>>
    /\ Cleared(s, "cancelled")
    /\ due' = [due EXCEPT ![s] = <<>>]
    /\ UNCHANGED <<cfg, now, window, active, armed, crossed>>

\* The commit of the payments fails before the first clearing.
PaymentsLost(s) ==
    /\ due[s] # <<>> /\ NoneCleared(s)
    /\ due' = [due EXCEPT ![s] = <<>>]
    /\ ledger' = NoneWaits(s)
    /\ UNCHANGED <<cfg, now, window, last, streak, backoff, active, armed, crossed>>

\* Tick-level cap: the time for the clearings of this tick is spent.
BudgetSpent(s) ==
    /\ cfg.timed /\ due[s] # <<>>
    /\ due' = [due EXCEPT ![s] = <<>>]
    /\ ledger' = IF NoneCleared(s) THEN NoneWaits(s) ELSE ledger
    /\ UNCHANGED <<cfg, now, window, last, streak, backoff, active, armed, crossed>>

AdaptiveNext ==
    \E s \in Sims :
        \/ \E sig \in [Eqs -> Signals] : Tick(s, sig) \/ Guarded(s, sig)
        \/ \E yield \in {"some", "zero", "timeout", "failed"} : ClearOne(s, yield)
        \/ ClearingCancelled(s)
        \/ PaymentsLost(s)
        \/ BudgetSpent(s)

AdaptiveSpec == AdaptiveInit /\ [][AdaptiveNext]_adaptiveVars

----------------------------------------------------------------------------
(* Properties                                                              *)

\* Each variable has its type.
AdaptiveTypeOK ==
    /\ \A s \in Sims : now[s] \in 0..MaxTick[s] /\ Pending(s) \subseteq Eqs
    /\ \A e \in Eqs :
         /\ Len(window[e]) <= cfg.window /\ ToSet(window[e]) \subseteq Signals
         /\ last[e] \in Nat \cup {-1}
    /\ active \in [Eqs -> BOOLEAN] /\ armed \in [Eqs -> BOOLEAN] /\ crossed \subseteq Eqs

\* Whatever the configuration says, the engine searches at a depth it allows,
\* at least 1, and never deeper than the configured maximum unless that is
\* below the configured minimum.
DepthInBounds ==
    \A s \in Sims : \A i \in DOMAIN due[s] :
        /\ due[s][i].depth \in 1..Max({1, EngineDepth})
        /\ due[s][i].depth <= Max({1, cfg.depthMin, cfg.depthMax})

\* Two clearings of an equivalent in a run are as far apart as the clearings in a row
\* that yielded nothing, failed or were cancelled call for, as long as no two runs
\* were clearing the equivalent at once, which may move last_clearing_tick back.
BackoffHolds ==
    \A s \in Sims : \A e \in Pending(s) \ crossed :
        LET mine == ledger[s][e]
        IN  (mine.cleared >= 0 /\ mine.cleared < now[s])
            => now[s] - mine.cleared >= Max({cfg.minInterval,
                                              IF mine.zeros = 0 THEN 0 ELSE Interval(mine.zeros)})

\* When the window is full, a tick chooses an equivalent only if its rate of
\* refusals has reached the high threshold in an evaluation, of whichever run,
\* and in none since been below the low one.
HysteresisHolds ==
    \A s \in Sims : now'[s] # now[s] =>
        \A i \in DOMAIN due'[s] :
            LET e == due'[s][i].eq
            IN  Len(window'[e]) = cfg.window => armed'[e]

\* The caps on a tick always prefer the same equivalents.  With a cooldown as
\* long as there are equivalents they still keep none from its turn for long:
\* it waits for fewer ticks in a row that clear another one instead, as long as no
\* two runs were clearing an equivalent at once.
CapIsFair ==
    \A s \in Sims, e \in Eqs :
        (due[s] = <<>> /\ cfg.minInterval >= Cardinality(Eqs) /\ crossed = {})
            => ledger[s][e].waited < Cardinality(Eqs)

\* adaptive-clearing-policy.md: the controller's state is one run's.  A run
\* that has not cleared an equivalent yet has no cooldown to respect.
\* (The code does not keep this: README, section 5.)
RunsAreIndependent ==
    \A s \in Sims, e \in Eqs :
        ledger[s][e].cleared = -1 => ~Blocked(e, now[s] + 1)
=============================================================================
