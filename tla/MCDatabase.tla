----------------------------- MODULE MCDatabase -----------------------------
(***************************************************************************)
(* A small instance of the parts around the debt tables.                   *)
(***************************************************************************)
EXTENDS Database, TLC

CONSTANTS s1, s2, s3

\* Three payments in two equivalents; the first two share a segment.
Payments == 1..3
TwoEquivalents == <<1, 1, 2>>
SharedSegments == <<{1, 2}, {2}, {3}>>

SessionSymmetry == Permutations({s1, s2, s3})

----------------------------------------------------------------------------
BothWays(L) == L \cup {<<e[2], e[1]>> : e \in L}
Free(L, av) == [through |-> BothWays(L), blocked |-> [e \in BothWays(L) |-> {}], avoid |-> av]

\* Four participants with every line that can be on a way from s to t; one line
\* with a policy and one with a block, or a participant to avoid.
FourLines == {<<"s", "a">>, <<"s", "b">>, <<"s", "t">>, <<"a", "b">>, <<"b", "a">>, <<"a", "t">>, <<"b", "t">>}
OneBlock(e, n) == [f \in BothWays(FourLines) |-> IF f = e THEN {n} ELSE {}]
SomePolicies ==
    {Free(FourLines, av) : av \in {{}, {"a"}, {"t"}}} \cup
    {[through |-> BothWays(FourLines) \ {e}, blocked |-> OneBlock(f, n), avoid |-> {}] :
        e \in {<<"s", "a">>, <<"a", "b">>}, f \in FourLines, n \in {"s", "a", "b", "t"}}
PoliciesOfFour ==
    [nodes |-> {"s", "a", "b", "t"}, src |-> "s", dst |-> "t", lines |-> FourLines, maxCap |-> 1,
     constraints |-> SomePolicies, amounts |-> {1, 2}, maxHops |-> 3, maxPaths |-> 2, maxFlowHops |-> 4]

\* Six participants around the smallest crossing at which a maximum flow must
\* take back a path.
SixLines == {<<"s", "a">>, <<"s", "b">>, <<"a", "c">>, <<"a", "d">>, <<"b", "c">>, <<"c", "t">>, <<"d", "t">>}
CrossingOfSix ==
    [nodes |-> {"s", "a", "b", "c", "d", "t"}, src |-> "s", dst |-> "t", lines |-> SixLines, maxCap |-> 2,
     constraints |-> {Free(SixLines, {})}, amounts |-> {1, 2, 3}, maxHops |-> 3, maxPaths |-> 2, maxFlowHops |-> 6]

----------------------------------------------------------------------------
\* Repairs of any debts and lines of two pairs that share a participant, and one
\* pair with payments and edits of its lines, for repairs and for checkpoints.
TwoPairs == BothWays({<<"a", "b">>, <<"b", "c">>})
OnePair == BothWays({<<"a", "b">>})
RepairsAndCheckpoints ==
    {[rows |-> TwoPairs, debt |-> 1, edits |-> 0, repairs |-> 2, checkpoints |-> 0],
     [rows |-> OnePair, debt |-> 2, edits |-> 2, repairs |-> 2, checkpoints |-> 0],
     [rows |-> OnePair, debt |-> 1, edits |-> 2, repairs |-> 0, checkpoints |-> 2]}
=============================================================================
