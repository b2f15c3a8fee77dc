------------------------------- MODULE MCHub -------------------------------
(* Small instances of Hub for TLC. *)
EXTENDS Hub, TLC

CONSTANTS a, b, c, p1, p2, r1, r2, r3, w

Flows(pairs, amt) == [e \in Pairs |-> IF e \in pairs THEN amt ELSE 0]

\* b trusts a, c trusts b, a trusts c; c owes a 1 at the start.
MCLines  == {<<b, a>>, <<c, b>>, <<a, c>>}
MCLimit  == [e \in Pairs |-> IF e \in MCLines THEN 2 ELSE 0]
MCDebt   == Flows({<<c, a>>}, 1)

ViaB(amt) == Flows({<<a, b>>, <<b, c>>}, amt)

\* r1 and r2 carry the same tx_id p1 and pay c from a; r3 pays b, or c, from a.
MCTxOf      == [r \in Requests |-> IF r = r3 THEN p2 ELSE p1]
MCContentOf == [r \in Requests |-> "signed"]
MCContentOfClash == [r \in Requests |-> IF r = r2 THEN "other" ELSE "signed"]
MCRoutings  == [r \in Requests |->
                 IF r = r3 THEN {Flows({<<a, b>>}, 1)} ELSE {ViaB(1)}]
MCRoutings1 == [r \in Requests |-> {ViaB(2)}]
\* Reservations that lean on a reverse debt (a to c) and on a shared edge.
MCRoutingsR == [r \in Requests |->
                 IF r = r3 THEN {Flows({<<a, b>>}, 1), Flows({<<a, c>>}, 1)}
                           ELSE {ViaB(1), ViaB(2)}]
MCSubmitted == {{<<a, b>>, <<b, c>>}}
MCEditable  == {<<b, a>>, <<c, b>>}

\* r1 and r2 are retries of one another.
Retries == Permutations({r1, r2})
=============================================================================
