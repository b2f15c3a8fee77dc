---------------------------- MODULE MCSimulator ----------------------------
(***************************************************************************)
(* Small instances of the parts of a simulator run.                        *)
(***************************************************************************)
EXTENDS Simulator, TLC

CONSTANTS r1, r2

\* Two runs of one owner.
TheOwner == [r \in {r1, r2} |-> "ann"]
RunSymmetry == Permutations({r1, r2})

----------------------------------------------------------------------------
\* The signals of the clearing policy: quiet and all refused, so that a window of two
\* is half refused at times.  The configurations: the usual one, one that warms up, and one an operator might
\* set by mistake (a ceiling below the least depth, thresholds that collapse).
SomeSignals == {<<2, 0>>, <<2, 2>>}
Usual == [window |-> 2, high |-> 60, low |-> 30, minInterval |-> 2, maxInterval |-> 4,
          depthMin |-> 3, depthMax |-> 6, ceiling |-> 6, warmup |-> 0,
          guarded |-> FALSE, timed |-> FALSE]
SomeConfigs ==
    {Usual,
     [Usual EXCEPT !.warmup = 2, !.minInterval = 1, !.guarded = TRUE],
     [Usual EXCEPT !.ceiling = 2, !.depthMin = 0, !.high = 30, !.timed = TRUE]}

\* Two runs of different length.
LongAndShort == [s \in {"one", "two"} |-> IF s = "one" THEN 5 ELSE 1]

----------------------------------------------------------------------------
Debt(x) == [op |-> "inject_debt", pair |-> <<"a", "b">>, amount |-> x]
Line(e) == [op |-> "create_trustline", pair |-> e]
Add(e) == [op |-> "add_participant", pid |-> "n", pair |-> e]
Freeze(p, ls) == [op |-> "freeze_participant", pid |-> p, freezeLines |-> ls]
Event(effs, t) == [effects |-> effs, at |-> t, cap |-> 2]
EffectLists(S) == {<<x>> : x \in S} \cup {<<x, y>> : x, y \in S}

\* Two founders with one line, one newcomer.  Every list of two events of one
\* or two effects; the second event is due at the first tick or later.
AllEffects == {Debt(1), Debt(2), Line(<<"b", "a">>), Line(<<"a", "n">>), Add(<<>>), Add(<<"a", "n">>),
               Freeze("a", TRUE), Freeze("a", FALSE)}
SomeScripts ==
    {<<Event(x, 1), Event(y, t)>> : x, y \in EffectLists(AllEffects), t \in {1, 2}}
        \cup {<<Event(<<>>, 1), Event(x, 2)>> : x \in EffectLists(AllEffects)}
        \cup {<<Event(<<Debt(1), Line(<<"b", "a">>), x, Debt(1), Freeze("b", TRUE)>>, 1)>> : x \in AllEffects}
        \cup {<<Event(<<Line(<<"b", "a">>), Line(<<"b", "a">>), Add(<<>>), x>>, 1), Event(<<y>>, 2)>>
                : x, y \in AllEffects}

AllPairs == {e \in Pids \X Pids : e[1] # e[2]}
OneLine == {<<"a", "b">>}

\* The scenario's rows alone; with a newcomer, a line and a debt that an earlier run
\* left; with a founder that an earlier run froze.
Seeded ==
    [part |-> [p \in Pids |-> IF p \in Founders THEN "active" ELSE "none"],
     line |-> [e \in AllPairs |-> IF e \in OneLine THEN "active" ELSE "none"],
     debt |-> [e \in AllPairs |-> 0]]
SomeRows ==
    {Seeded,
     [Seeded EXCEPT !.part["n"] = "active", !.line[<<"a", "n">>] = "active", !.debt[<<"a", "n">>] = 1],
     [Seeded EXCEPT !.part["a"] = "suspended", !.line[<<"a", "b">>] = "frozen"]}

----------------------------------------------------------------------------
\* Two clients of different equivalents.
TwoTopics == [c \in {"one", "two"} |-> IF c = "one" THEN "UAH" ELSE "HOUR"]
=============================================================================
