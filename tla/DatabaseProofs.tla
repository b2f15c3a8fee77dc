--------------------------- MODULE DatabaseProofs ---------------------------
(***************************************************************************)
(* Proofs about the parts around the debt tables, for every value of the   *)
(* constants of Database: no circle of waiting units of work, graphs that  *)
(* neither refuse nor promise what they must not, repairs that heal and    *)
(* only forgive, checkpoints that tell states apart, and a commit whose    *)
(* arithmetic does not depend on the order of its flows.                   *)
(***************************************************************************)
EXTENDS Database, Sequences, FiniteSets, FiniteSetTheorems, SequenceTheorems, WellFoundedInduction, TLAPS

\* Every set of numbers has a least one.
LEMMA LeastNumber ==
    ASSUME NEW S \in SUBSET Nat, S # {}
    PROVE  \E x \in S : \A y \in S : x <= y
<1>1. PICK x \in S : \A y \in S : <<y, x>> \notin OpToRel(<, Nat)
  BY WFMin, NatLessThanWellFounded, Zenon
<1>2. \A y \in S : ~(y < x)
  BY <1>1, Zenon DEF OpToRel
<1>3. QED
  BY <1>2

----------------------------------------------------------------------------
(* The advisory locks. *)

OwnerLocks == {Locks!Owner(EqOf[t]) : t \in Txs}
TxLocks == {Locks!Tx(t) : t \in Txs}
SegLocks == {Locks!Seg(s) : s \in UNION {SegsOf[t] : t \in Txs}}
AllLocks == OwnerLocks \cup TxLocks \cup SegLocks

\* The owner locks that guard a lock: an owner guards itself.
Guards(l) ==
    IF l \in OwnerLocks THEN {l}
    ELSE IF l \in TxLocks THEN {Locks!Owner(EqOf[l[2]])}
    ELSE {Locks!Owner(EqOf[t]) : t \in {u \in Txs : l[2] \in SegsOf[u]}}

\* A set of locks to take together: all of them owners, a payment or segments.
Batches == ((SUBSET OwnerLocks) \cup (SUBSET SegLocks) \cup {{l} : l \in TxLocks}) \ {{}}

Operations ==
    {<<"idle">>} \cup ({"prepare", "terminal", "finishing"} \X Txs)
        \cup ({"batch"} \X (Txs \X Txs)) \cup ({"clearing"} \X {EqOf[t] : t \in Txs})

LockTypes ==
    /\ todo \in [Sessions -> Seq(Batches)] /\ held \in [Sessions -> SUBSET AllLocks]
    /\ op \in [Sessions -> Operations] /\ preflight \in [Sessions -> BOOLEAN]
    /\ attempt \in [Sessions -> 0..RetryAttempts] /\ locked \subseteq Txs
    /\ \A p \in Sessions : op[p] = <<"idle">> => todo[p] = <<>> /\ held[p] = {}

OneHolder == \A p, q \in Sessions : p # q => held[p] \cap held[q] = {}

\* A unit of work o that saw no reservations takes the tx lock and no other.
Bare(o, known) == o[1] = "terminal" /\ ~known

\* What is held has its guards, ...
HeldIsGuarded(o, known, H) ==
    IF Bare(o, known) THEN H \subseteq {Locks!Tx(o[2])} ELSE \A l \in H : Guards(l) \subseteq H

\* ... what comes next has them too, or is an owner that comes after those held ...
NextIsGuarded(o, known, T, H) ==
    T # <<>> =>
        IF Bare(o, known) THEN T = <<{Locks!Tx(o[2])}>> /\ H = {}
        ELSE \A l \in T[1] :
               \/ Guards(l) \subseteq H
               \/ l \in OwnerLocks /\ \A h \in H : h \in OwnerLocks /\ h[2] < l[2]

\* ... and what comes later will have them.
LaterIsGuarded(T, H) ==
    \A i \in DOMAIN T : i > 1 => \A l \in T[i] : Guards(l) \subseteq H \cup T[1]

\* A unit of work that saw reservations has the owner before their segments.
SegmentsComeLast(o, known, T, H) ==
    o[1] = "terminal" /\ known =>
        Locks!Owner(EqOf[o[2]]) \in (IF T = <<>> THEN H ELSE H \cup T[1])

Orderly(o, known, T, H) ==
    /\ HeldIsGuarded(o, known, H) /\ NextIsGuarded(o, known, T, H)
    /\ LaterIsGuarded(T, H) /\ SegmentsComeLast(o, known, T, H)

\* The inductive invariant of the locks.
LocksInv ==
    /\ LockTypes /\ OneHolder
    /\ \A p \in Sessions : Orderly(op[p], preflight[p], todo[p], held[p])

\* The kinds of locks, and who guards them.
LEMMA LockKinds ==
    /\ \A l \in OwnerLocks : l[1] = "owner" /\ Guards(l) = {l}
    /\ \A t \in Txs : /\ Locks!Owner(EqOf[t]) \in OwnerLocks /\ Locks!Tx(t) \in TxLocks
                      /\ Guards(Locks!Tx(t)) = {Locks!Owner(EqOf[t])}
    /\ \A l \in TxLocks : l[1] = "tx"
    /\ \A l \in SegLocks : l[1] = "segment"
<1>1. /\ \A l \in OwnerLocks : l[1] = "owner"
      /\ \A l \in TxLocks : l[1] = "tx"
      /\ \A l \in SegLocks : l[1] = "segment"
  BY DEF OwnerLocks, TxLocks, SegLocks, Locks!Owner, Locks!Tx, Locks!Seg
<1>2. \A t \in Txs : Locks!Tx(t)[2] = t /\ Locks!Owner(EqOf[t]) \in OwnerLocks /\ Locks!Tx(t) \in TxLocks
  BY DEF OwnerLocks, TxLocks, Locks!Tx
<1>3. \A l \in OwnerLocks : Guards(l) = {l}
  BY DEF Guards
<1>4. \A t \in Txs : Guards(Locks!Tx(t)) = {Locks!Owner(EqOf[t])}
  BY <1>1, <1>2, "owner" # "tx" DEF Guards
<1>5. QED
  BY <1>1, <1>2, <1>3, <1>4

\* The segments of a payment are guarded by its equivalent alone.
LEMMA SegmentGuards ==
    ASSUME Locks!EngineLocksAssumption, NEW t \in Txs
    PROVE  /\ {Locks!Seg(s) : s \in SegsOf[t]} \subseteq SegLocks
           /\ {Locks!Seg(s) : s \in SegsOf[t]} # {}
           /\ \A l \in {Locks!Seg(s) : s \in SegsOf[t]} : Guards(l) = {Locks!Owner(EqOf[t])}
<1>1. \A s \in SegsOf[t] : Locks!Seg(s) \in SegLocks
  BY DEF SegLocks
<1> SegsOf[t] # {}
  BY DEF Locks!EngineLocksAssumption
<1>2. ASSUME NEW s \in SegsOf[t] PROVE Guards(Locks!Seg(s)) = {Locks!Owner(EqOf[t])}
  <2>1. Locks!Seg(s) \in SegLocks /\ Locks!Seg(s)[2] = s
    BY <1>1 DEF Locks!Seg
  <2>2. Locks!Seg(s) \notin OwnerLocks /\ Locks!Seg(s) \notin TxLocks
    BY <2>1, LockKinds
  <2>3. \A u \in {w \in Txs : s \in SegsOf[w]} : EqOf[u] = EqOf[t]
    BY DEF Locks!EngineLocksAssumption
  <2>4. t \in {w \in Txs : s \in SegsOf[w]}
    OBVIOUS
  <2>5. {Locks!Owner(EqOf[u]) : u \in {w \in Txs : s \in SegsOf[w]}} = {Locks!Owner(EqOf[t])}
    BY <2>3, <2>4
  <2>6. QED
    BY <2>1, <2>2, <2>5 DEF Guards
<1>3. QED
  BY <1>1, <1>2

\* Locks that are taken together, and their order.
LEMMA LeastLock ==
    ASSUME Locks!EngineLocksAssumption, NEW S \in Batches
    PROVE  /\ Locks!Least(S) \in S
           /\ S \subseteq OwnerLocks =>
                \A l \in S : l # Locks!Least(S) => Locks!Least(S)[2] < l[2]
<1>1. CASE S \subseteq OwnerLocks \/ S \subseteq SegLocks
  <2>1. \A l \in S : l = <<l[1], l[2]>> /\ l[2] \in Nat
    BY <1>1 DEF OwnerLocks, SegLocks, Locks!Owner, Locks!Seg, Locks!EngineLocksAssumption
  <2> DEFINE keys == {l[2] : l \in S}
  <2>2. keys \in SUBSET Nat /\ keys # {}
    BY <2>1 DEF Batches
  <2>3. PICK k \in keys : \A j \in keys : k <= j
    BY <2>2, LeastNumber
  <2>4. PICK m \in S : m[2] = k
    OBVIOUS
  <2>5. \A l \in S : m[2] <= l[2]
    BY <2>3, <2>4
  <2>6. Locks!Least(S) \in S /\ \A l \in S : Locks!Least(S)[2] <= l[2]
    BY <2>5 DEF Locks!Least
  <2>7. ASSUME S \subseteq OwnerLocks, NEW l \in S, l # Locks!Least(S)
        PROVE  Locks!Least(S)[2] < l[2]
    <3>1. l[1] = Locks!Least(S)[1]
      BY <2>6, <2>7, LockKinds
    <3>2. l[2] # Locks!Least(S)[2]
      BY <2>1, <2>6, <2>7, <3>1
    <3>3. QED
      BY <2>1, <2>6, <3>2
  <2>8. QED
    BY <2>6, <2>7
<1>2. CASE \E l \in TxLocks : S = {l}
  <2>1. PICK l \in TxLocks : S = {l}
    BY <1>2
  <2>2. l[2] \in Nat /\ l[1] = "tx"
    BY LockKinds DEF TxLocks, Locks!Tx, Locks!EngineLocksAssumption
  <2>3. Locks!Least(S) = l
    BY <2>1, <2>2 DEF Locks!Least
  <2>4. QED
    BY <2>1, <2>3
<1>3. QED
  BY <1>1, <1>2 DEF Batches

\* A unit of work that has locks to take, and its locks after the next one.
Waiting(o, known, T, H) ==
    /\ o \in Operations /\ known \in BOOLEAN /\ H \in SUBSET AllLocks
    /\ T \in Seq(Batches) /\ T # <<>> /\ Orderly(o, known, T, H)

AfterTake(T) ==
    IF T[1] = {Locks!Least(T[1])} THEN Tail(T) ELSE [T EXCEPT ![1] = @ \ {Locks!Least(T[1])}]

\* A unit of work that takes its next lock stays orderly.
LEMMA TakeKeepsOrder ==
    ASSUME Locks!EngineLocksAssumption, NEW o, NEW known, NEW T, NEW H, Waiting(o, known, T, H)
    PROVE  /\ AfterTake(T) \in Seq(Batches) /\ H \cup {Locks!Least(T[1])} \in SUBSET AllLocks
           /\ Orderly(o, known, AfterTake(T), H \cup {Locks!Least(T[1])})
<1> DEFINE l == Locks!Least(T[1])  R == AfterTake(T)
<1> USE DEF Waiting
<1>0. R = IF T[1] = {l} THEN Tail(T) ELSE [T EXCEPT ![1] = @ \ {l}]
  BY DEF AfterTake
<1> SUFFICES R \in Seq(Batches) /\ H \cup {l} \in SUBSET AllLocks /\ Orderly(o, known, R, H \cup {l})
  OBVIOUS
<1>1. T[1] \in Batches /\ l \in T[1] /\ l \in AllLocks /\ Len(T) \in Nat \ {0}
      /\ DOMAIN T = 1..Len(T)
  BY LeastLock DEF Batches, AllLocks
<1> HIDE DEF l, R
<1>2. CASE Bare(o, known)
  <2>1. T = <<{Locks!Tx(o[2])}>> /\ H = {} /\ l = Locks!Tx(o[2]) /\ T[1] = {l}
    BY <1>1, <1>2 DEF Orderly, NextIsGuarded
  <2>2. R = <<>> /\ H \cup {l} = {Locks!Tx(o[2])}
    BY <1>0, <2>1
  <2>3. QED
    BY <1>1, <1>2, <2>2 DEF Orderly, HeldIsGuarded, NextIsGuarded, LaterIsGuarded, SegmentsComeLast, Bare
<1>3. CASE ~Bare(o, known)
  <2>1. Guards(l) \subseteq H \cup {l}
    BY <1>1, <1>3, LockKinds DEF Orderly, NextIsGuarded
  <2>2. HeldIsGuarded(o, known, H \cup {l})
    BY <1>3, <2>1 DEF Orderly, HeldIsGuarded
  <2>3. CASE T[1] = {l}
    <3>1. /\ R \in Seq(Batches) /\ Len(R) = Len(T) - 1 /\ DOMAIN R = 1..Len(R)
          /\ \A i \in DOMAIN R : R[i] = T[i + 1] /\ i + 1 \in DOMAIN T /\ i + 1 > 1
          /\ R # <<>> => 1 \in DOMAIN R
      BY <1>0, <1>1, <2>3
    <3>2. \A i \in DOMAIN R : \A k \in R[i] : Guards(k) \subseteq H \cup {l}
      BY <2>3, <3>1 DEF Orderly, LaterIsGuarded
    <3>3. NextIsGuarded(o, known, R, H \cup {l})
      BY <1>3, <3>1, <3>2 DEF NextIsGuarded
    <3>4. LaterIsGuarded(R, H \cup {l})
      BY <3>2 DEF LaterIsGuarded
    <3>5. SegmentsComeLast(o, known, R, H \cup {l})
      BY <2>3 DEF Orderly, SegmentsComeLast
    <3>6. QED
      BY <1>1, <2>2, <3>1, <3>3, <3>4, <3>5 DEF Orderly
  <2>4. CASE T[1] # {l}
    <3>1. /\ Len(R) = Len(T) /\ DOMAIN R = DOMAIN T /\ R[1] = T[1] \ {l} /\ R # <<>>
          /\ \A i \in DOMAIN R : i > 1 => R[i] = T[i]
      BY <1>0, <1>1, <2>4
    <3>2. T[1] \ {l} \in Batches
      BY <1>1, <2>4 DEF Batches
    <3>3. R \in Seq(Batches)
      <4>1. R = [T EXCEPT ![1] = T[1] \ {l}] /\ 1 \in 1..Len(T)
        BY <1>0, <1>1, <2>4
      <4>2. QED
        BY <3>2, <4>1, ExceptSeq
    <3>4. ASSUME NEW k \in T[1], k # l
          PROVE  \/ Guards(k) \subseteq H \cup {l}
                 \/ k \in OwnerLocks /\ \A h \in H \cup {l} : h \in OwnerLocks /\ h[2] < k[2]
      <4>1. CASE Guards(k) \subseteq H
        BY <4>1
      <4>2. CASE k \in OwnerLocks /\ \A h \in H : h \in OwnerLocks /\ h[2] < k[2]
        <5>1. T[1] \subseteq OwnerLocks
          <6>1. T[1] \subseteq OwnerLocks \/ T[1] \subseteq SegLocks \/ \E x \in TxLocks : T[1] = {x}
            BY <1>1 DEF Batches
          <6>2. k[1] = "owner"
            BY <4>2, LockKinds
          <6>3. QED
            BY <3>4, <6>1, <6>2, LockKinds
        <5>2. l[2] < k[2]
          BY <1>1, <3>4, <5>1, LeastLock DEF l
        <5>3. QED
          BY <1>1, <4>2, <5>1, <5>2
      <4>3. QED
        BY <1>3, <4>1, <4>2 DEF Orderly, NextIsGuarded
    <3>5. NextIsGuarded(o, known, R, H \cup {l})
      BY <1>3, <3>1, <3>4 DEF NextIsGuarded
    <3>6. LaterIsGuarded(R, H \cup {l})
      <4>1. (H \cup {l}) \cup R[1] = H \cup T[1]
        BY <1>1, <3>1
      <4>2. QED
        BY <3>1, <4>1 DEF Orderly, LaterIsGuarded
    <3>7. SegmentsComeLast(o, known, R, H \cup {l})
      BY <1>1, <3>1 DEF Orderly, SegmentsComeLast
    <3>8. QED
      BY <1>1, <2>2, <3>3, <3>5, <3>6, <3>7 DEF Orderly
  <2>5. QED
    BY <2>3, <2>4
<1>4. QED
  BY <1>2, <1>3

\* A unit of work that begins with owners and goes on with what they guard is orderly.
LEMMA PlanIsOrderly ==
    ASSUME NEW o, NEW known \in BOOLEAN, NEW T \in Seq(Batches), T # <<>>, ~Bare(o, known),
           T[1] \subseteq OwnerLocks,
           \A i \in DOMAIN T : i > 1 => \A l \in T[i] : Guards(l) \subseteq T[1],
           o[1] = "terminal" => Locks!Owner(EqOf[o[2]]) \in T[1]
    PROVE  Orderly(o, known, T, {})
BY DEF Orderly, HeldIsGuarded, NextIsGuarded, LaterIsGuarded, SegmentsComeLast

\* The locks of prepare, in their order.
LEMMA PreparePlan ==
    ASSUME Locks!EngineLocksAssumption, NEW t \in Txs
    PROVE  /\ Locks!PrepareLocks(t) \in Seq(Batches) /\ Len(Locks!PrepareLocks(t)) = 3
           /\ Locks!PrepareLocks(t)[1] = {Locks!Owner(EqOf[t])}
           /\ \A i \in 1..3 : \A l \in Locks!PrepareLocks(t)[i] :
                l \in AllLocks /\ Guards(l) = {Locks!Owner(EqOf[t])}
<1> DEFINE O == {Locks!Owner(EqOf[t])}  X == {Locks!Tx(t)}  S == {Locks!Seg(s) : s \in SegsOf[t]}
<1>1. O \in Batches /\ X \in Batches /\ S \in Batches
  BY LockKinds, SegmentGuards DEF Batches
<1>2. /\ \A l \in O : l \in AllLocks /\ Guards(l) = O
      /\ \A l \in X : l \in AllLocks /\ Guards(l) = O
      /\ \A l \in S : l \in AllLocks /\ Guards(l) = O
  BY LockKinds, SegmentGuards DEF AllLocks
<1>3. Locks!PrepareLocks(t) = <<O, X>> \o <<S>>
  BY DEF Locks!PrepareLocks, Locks!Segments
<1> HIDE DEF O, X, S
<1>4. /\ <<O, X>> \o <<S>> \in Seq(Batches) /\ Len(<<O, X>> \o <<S>>) = 3
      /\ (<<O, X>> \o <<S>>)[1] = O /\ (<<O, X>> \o <<S>>)[2] = X /\ (<<O, X>> \o <<S>>)[3] = S
  BY <1>1
<1>5. \A i \in 1..3 : i = 1 \/ i = 2 \/ i = 3
  OBVIOUS
<1>6. /\ Locks!PrepareLocks(t)[1] = O /\ Locks!PrepareLocks(t)[2] = X /\ Locks!PrepareLocks(t)[3] = S
      /\ Locks!PrepareLocks(t) \in Seq(Batches) /\ Len(Locks!PrepareLocks(t)) = 3
  BY <1>3, <1>4
<1>7. \A i \in 1..3 : \A l \in Locks!PrepareLocks(t)[i] : l \in AllLocks /\ Guards(l) = O
  BY <1>2, <1>5, <1>6
<1>8. QED
  BY <1>6, <1>7 DEF O

LEMMA TerminalPlan ==
    ASSUME Locks!EngineLocksAssumption, NEW t \in Txs, NEW known \in BOOLEAN
    PROVE  /\ Locks!TerminalLocks(t, known) \in Seq(Batches)
           /\ Orderly(<<"terminal", t>>, known, Locks!TerminalLocks(t, known), {})
<1> DEFINE O == {Locks!Owner(EqOf[t])}  X == {Locks!Tx(t)}  o == <<"terminal", t>>
<1>1. O \in Batches /\ X \in Batches /\ O \subseteq OwnerLocks
  BY LockKinds DEF Batches
<1>2. CASE ~known
  <2>1. Locks!TerminalLocks(t, known) = <<>> \o <<X>>
    BY <1>2 DEF Locks!TerminalLocks
  <2>2. <<>> \o <<X>> = <<X>>
    BY <1>1
  <2>3. Bare(o, known) /\ o[2] = t
    BY <1>2 DEF Bare
  <2> HIDE DEF o
  <2>4. Orderly(o, known, <<X>>, {})
    BY <1>2, <2>3 DEF Orderly, HeldIsGuarded, NextIsGuarded, LaterIsGuarded, SegmentsComeLast
  <2>5. QED
    BY <1>1, <2>1, <2>2, <2>4 DEF o
<1>3. CASE known
  <2>1. Locks!TerminalLocks(t, known) = <<O>> \o <<X>>
    BY <1>3 DEF Locks!TerminalLocks
  <2>2. /\ <<O>> \o <<X>> \in Seq(Batches) /\ Len(<<O>> \o <<X>>) = 2
        /\ (<<O>> \o <<X>>)[1] = O /\ (<<O>> \o <<X>>)[2] = X
    BY <1>1
  <2> DEFINE T == Locks!TerminalLocks(t, known)
  <2> HIDE DEF O, T
  <2>3. T \in Seq(Batches) /\ T # <<>> /\ T[1] = O /\ DOMAIN T = 1..2 /\ T[2] = X
    BY <2>1, <2>2 DEF T
  <2>4. \A l \in X : Guards(l) \subseteq O
    BY LockKinds DEF O
  <2>5. \A i \in DOMAIN T : i > 1 => T[i] = X
    BY <2>3
  <2>6. ~Bare(o, known) /\ o[2] = t /\ Locks!Owner(EqOf[t]) \in O
    BY <1>3 DEF Bare, O
  <2> HIDE DEF o, X
  <2>7. Orderly(o, known, T, {})
    BY <1>1, <2>3, <2>4, <2>5, <2>6, PlanIsOrderly
  <2>8. QED
    BY <2>3, <2>7 DEF T, o
<1>4. QED
  BY <1>2, <1>3

LEMMA BatchPlan ==
    ASSUME Locks!EngineLocksAssumption, NEW ts \in Txs \X Txs, NEW known \in BOOLEAN
    PROVE  LET T == Locks!Owners(ts) \o Locks!PrepareLocks(ts[1]) \o Locks!PrepareLocks(ts[2])
           IN  T \in Seq(Batches) /\ Orderly(<<"batch", ts>>, known, T, {})
<1> DEFINE B == {Locks!Owner(EqOf[ts[1]]), Locks!Owner(EqOf[ts[2]])}
           P == Locks!PrepareLocks(ts[1])  Q == Locks!PrepareLocks(ts[2])
           T == Locks!Owners(ts) \o P \o Q
           o == <<"batch", ts>>
<1>1. B \in Batches /\ B \subseteq OwnerLocks /\ Locks!Owners(ts) = <<B>>
  BY LockKinds DEF Batches, Locks!Owners
<1>2. /\ P \in Seq(Batches) /\ Q \in Seq(Batches) /\ Len(P) = 3 /\ Len(Q) = 3
      /\ \A i \in 1..3 : \A l \in P[i] : Guards(l) \subseteq B
      /\ \A i \in 1..3 : \A l \in Q[i] : Guards(l) \subseteq B
  BY PreparePlan
<1>3. ~Bare(o, known) /\ o[1] # "terminal"
  BY DEF Bare
<1> HIDE DEF B, P, Q, o
<1>4. T = (<<B>> \o P) \o Q
  BY <1>1
<1> HIDE DEF T
<1>5. /\ <<B>> \o P \in Seq(Batches) /\ Len(<<B>> \o P) = 4 /\ (<<B>> \o P)[1] = B
      /\ \A i \in 2..4 : (<<B>> \o P)[i] = P[i - 1]
  <2>1. <<B>> \in Seq(Batches) /\ Len(<<B>>) = 1 /\ <<B>>[1] = B
    BY <1>1
  <2> DEFINE U == <<B>>
  <2> HIDE DEF U
  <2>2. U \in Seq(Batches) /\ Len(U) = 1 /\ U[1] = B
    BY <2>1 DEF U
  <2>3. /\ U \o P \in Seq(Batches) /\ Len(U \o P) = Len(U) + Len(P)
        /\ \A i \in 1..Len(U) + Len(P) : (U \o P)[i] = IF i <= Len(U) THEN U[i] ELSE P[i - Len(U)]
    BY <1>2, <2>2, ConcatProperties
  <2>4. QED
    BY <1>2, <2>2, <2>3 DEF U
<1> DEFINE F == <<B>> \o P
<1> HIDE DEF F
<1>6. /\ T \in Seq(Batches) /\ Len(T) = 7 /\ T[1] = B
      /\ \A i \in 2..4 : T[i] = P[i - 1]
      /\ \A i \in 5..7 : T[i] = Q[i - 4]
  <2>1. F \in Seq(Batches) /\ Len(F) = 4 /\ F[1] = B /\ \A i \in 2..4 : F[i] = P[i - 1]
    BY <1>5 DEF F
  <2>2. T = F \o Q
    BY <1>4 DEF F
  <2>3. /\ T \in Seq(Batches) /\ Len(T) = 7
        /\ \A i \in 1..4 : T[i] = F[i]
        /\ \A i \in 5..7 : T[i] = Q[i - 4]
    <3>1. /\ F \o Q \in Seq(Batches) /\ Len(F \o Q) = Len(F) + Len(Q)
          /\ \A i \in 1..Len(F) + Len(Q) : (F \o Q)[i] = IF i <= Len(F) THEN F[i] ELSE Q[i - Len(F)]
      BY <1>2, <2>1, ConcatProperties
    <3>2. QED
      BY <1>2, <2>1, <2>2, <3>1
  <2>4. QED
    BY <2>1, <2>3
<1>7. \A i \in DOMAIN T : i > 1 => \A l \in T[i] : Guards(l) \subseteq B
  <2>1. DOMAIN T = 1..7
    BY <1>6
  <2>2. \A i \in 1..7 : i > 1 => (i \in 2..4 /\ i - 1 \in 1..3) \/ (i \in 5..7 /\ i - 4 \in 1..3)
    OBVIOUS
  <2>3. QED
    BY <1>2, <1>6, <2>1, <2>2
<1>8. T # <<>>
  BY <1>6
<1>9. Orderly(o, known, T, {})
  BY <1>1, <1>3, <1>6, <1>7, <1>8, PlanIsOrderly
<1>10. QED
  BY <1>6, <1>9 DEF T, P, Q, o

\* A step of one session that leaves it orderly, with locks nobody else holds.
Moves(p, o, known, T, H, a) ==
    /\ o \in Operations /\ known \in BOOLEAN /\ T \in Seq(Batches)
    /\ H \in SUBSET AllLocks /\ a \in 0..RetryAttempts /\ locked' \subseteq Txs
    /\ op' = [op EXCEPT ![p] = o] /\ preflight' = [preflight EXCEPT ![p] = known]
    /\ todo' = [todo EXCEPT ![p] = T] /\ held' = [held EXCEPT ![p] = H]
    /\ attempt' = [attempt EXCEPT ![p] = a]
    /\ Orderly(o, known, T, H) /\ \A q \in Sessions \ {p} : H \cap held[q] = {}
    /\ o = <<"idle">> => T = <<>> /\ H = {}

LEMMA SessionStep ==
    ASSUME LocksInv, NEW p \in Sessions, NEW o, NEW known, NEW T, NEW H, NEW a, Moves(p, o, known, T, H, a)
    PROVE  LocksInv'
<1>1. /\ op'[p] = o /\ preflight'[p] = known /\ todo'[p] = T /\ held'[p] = H
      /\ \A q \in Sessions \ {p} :
            op'[q] = op[q] /\ preflight'[q] = preflight[q] /\ todo'[q] = todo[q] /\ held'[q] = held[q]
  BY DEF LocksInv, LockTypes, Moves
<1>2. LockTypes'
  <2>1. todo' \in [Sessions -> Seq(Batches)] /\ held' \in [Sessions -> SUBSET AllLocks]
    BY DEF LocksInv, LockTypes, Moves
  <2>2. op' \in [Sessions -> Operations] /\ preflight' \in [Sessions -> BOOLEAN]
        /\ attempt' \in [Sessions -> 0..RetryAttempts]
    BY DEF LocksInv, LockTypes, Moves
  <2>3. \A q \in Sessions : op'[q] = <<"idle">> => todo'[q] = <<>> /\ held'[q] = {}
    BY <1>1 DEF LocksInv, LockTypes, Moves
  <2>4. QED
    BY <2>1, <2>2, <2>3 DEF LockTypes, Moves
<1>3. OneHolder'
  BY <1>1 DEF LocksInv, OneHolder, Moves
<1>4. \A q \in Sessions : Orderly(op'[q], preflight'[q], todo'[q], held'[q])
  BY <1>1 DEF LocksInv, Moves
<1>5. QED
  BY <1>2, <1>3, <1>4 DEF LocksInv

LEMMA IdleIsOrderly ==
    ASSUME NEW known
    PROVE  Orderly(<<"idle">>, known, <<>>, {})
BY DEF Orderly, HeldIsGuarded, NextIsGuarded, LaterIsGuarded, SegmentsComeLast, Bare

LEMMA LocksInitInv ==
    ASSUME Locks!EngineLocksAssumption, Locks!EngineLocksInit
    PROVE  LocksInv
<1>1. LockTypes /\ OneHolder
  BY DEF Locks!EngineLocksInit, LockTypes, OneHolder, Operations, Locks!EngineLocksAssumption
<1>2. \A p \in Sessions : Orderly(op[p], preflight[p], todo[p], held[p])
  BY IdleIsOrderly DEF Locks!EngineLocksInit
<1>3. QED
  BY <1>1, <1>2 DEF LocksInv

\* A session that begins has nothing yet.
LEMMA BeginInv ==
    ASSUME LocksInv, NEW p \in Sessions, NEW o \in Operations \ {<<"idle">>}, NEW known \in BOOLEAN,
           NEW T \in Seq(Batches), Locks!Begin(p, o, T), Orderly(o, known, T, {}),
           preflight' = [preflight EXCEPT ![p] = known]
    PROVE  LocksInv'
<1>1. /\ held[p] = {} /\ op' = [op EXCEPT ![p] = o] /\ todo' = [todo EXCEPT ![p] = T]
      /\ UNCHANGED <<held, attempt, locked>>
      /\ held \in [Sessions -> SUBSET AllLocks] /\ attempt \in [Sessions -> 0..RetryAttempts]
      /\ locked \subseteq Txs
  BY DEF Locks!Begin, LocksInv, LockTypes
<1>2. held' = [held EXCEPT ![p] = {}] /\ attempt' = [attempt EXCEPT ![p] = attempt[p]]
      /\ attempt[p] \in 0..RetryAttempts /\ locked' \subseteq Txs
  BY <1>1
<1>3. Moves(p, o, known, T, {}, attempt[p])
  BY <1>1, <1>2 DEF Moves
<1>4. QED
  BY <1>3, SessionStep

\* A unit of work that ends gives everything back.
LEMMA ReleaseInv ==
    ASSUME Locks!EngineLocksAssumption, LocksInv, NEW p \in Sessions, Locks!Release(p), locked' \subseteq Txs
    PROVE  LocksInv'
<1>1. <<"idle">> \in Operations /\ <<>> \in Seq(Batches) /\ 0 \in 0..RetryAttempts
  BY DEF Operations, Locks!EngineLocksAssumption
<1>2. /\ op' = [op EXCEPT ![p] = <<"idle">>] /\ preflight' = [preflight EXCEPT ![p] = FALSE]
      /\ todo' = [todo EXCEPT ![p] = <<>>] /\ held' = [held EXCEPT ![p] = {}]
      /\ attempt' = [attempt EXCEPT ![p] = 0]
  BY DEF Locks!Release
<1>3. Moves(p, <<"idle">>, FALSE, <<>>, {}, 0)
  BY <1>1, <1>2, IdleIsOrderly DEF Moves
<1>4. QED
  BY <1>3, SessionStep

LEMMA BeginningsInv ==
    ASSUME Locks!EngineLocksAssumption, LocksInv, NEW p \in Sessions,
           \/ \E t \in Txs : Locks!BeginPrepare(p, t) \/ Locks!BeginTerminal(p, t)
                               \/ Locks!BeginClearing(p, EqOf[t])
           \/ \E ts \in Txs \X Txs : Locks!BeginBatch(p, ts)
    PROVE  LocksInv'
<1>1. preflight[p] \in BOOLEAN /\ preflight = [preflight EXCEPT ![p] = preflight[p]]
  BY DEF LocksInv, LockTypes
<1>2. ASSUME NEW t \in Txs, Locks!BeginPrepare(p, t) PROVE LocksInv'
  <2> DEFINE o == <<"prepare", t>>  T == Locks!PrepareLocks(t)
  <2>1. o \in Operations \ {<<"idle">>} /\ o[1] = "prepare" /\ ~Bare(o, preflight[p])
    BY DEF Operations, Bare
  <2>2. /\ T \in Seq(Batches) /\ T # <<>> /\ T[1] \subseteq OwnerLocks
        /\ \A i \in DOMAIN T : i > 1 => \A l \in T[i] : Guards(l) \subseteq T[1]
    <3>1. T \in Seq(Batches) /\ Len(T) = 3 /\ T[1] = {Locks!Owner(EqOf[t])}
          /\ \A i \in 1..3 : \A l \in T[i] : Guards(l) = {Locks!Owner(EqOf[t])}
      BY PreparePlan
    <3>2. Locks!Owner(EqOf[t]) \in OwnerLocks
      BY LockKinds
    <3> HIDE DEF T
    <3>3. QED
      BY <3>1, <3>2
  <2>3. Locks!Begin(p, o, T) /\ preflight' = preflight
    BY <1>2 DEF Locks!BeginPrepare
  <2> HIDE DEF o, T
  <2>4. Orderly(o, preflight[p], T, {})
    BY <1>1, <2>1, <2>2, PlanIsOrderly
  <2>5. QED
    BY <1>1, <2>1, <2>2, <2>3, <2>4, BeginInv
<1>3. ASSUME NEW t \in Txs, Locks!BeginTerminal(p, t) PROVE LocksInv'
  <2> DEFINE o == <<"terminal", t>>  known == t \in locked  T == Locks!TerminalLocks(t, known)
  <2>1. o \in Operations \ {<<"idle">>} /\ known \in BOOLEAN
    BY DEF Operations
  <2>2. Locks!Begin(p, o, T) /\ preflight' = [preflight EXCEPT ![p] = known]
    BY <1>3 DEF Locks!BeginTerminal
  <2>3. T \in Seq(Batches) /\ Orderly(o, known, T, {})
    BY <2>1, TerminalPlan
  <2> HIDE DEF o, known, T
  <2>4. QED
    BY <2>1, <2>2, <2>3, BeginInv
<1>4. ASSUME NEW t \in Txs, Locks!BeginClearing(p, EqOf[t]) PROVE LocksInv'
  <2> DEFINE o == <<"clearing", EqOf[t]>>  O == {Locks!Owner(EqOf[t])}  T == <<O>>
  <2>1. o \in Operations \ {<<"idle">>} /\ o[1] = "clearing" /\ ~Bare(o, preflight[p])
    BY DEF Operations, Bare
  <2>2. Locks!Begin(p, o, T) /\ preflight' = preflight
    BY <1>4 DEF Locks!BeginClearing
  <2>3. O \in Batches /\ O \subseteq OwnerLocks
    BY LockKinds DEF Batches
  <2> HIDE DEF o, O
  <2>4. T \in Seq(Batches) /\ T # <<>> /\ T[1] = O /\ DOMAIN T = 1..1
    BY <2>3
  <2> HIDE DEF T
  <2>5. Orderly(o, preflight[p], T, {})
    BY <1>1, <2>1, <2>3, <2>4, PlanIsOrderly
  <2>6. QED
    BY <1>1, <2>1, <2>2, <2>4, <2>5, BeginInv
<1>5. ASSUME NEW ts \in Txs \X Txs, Locks!BeginBatch(p, ts) PROVE LocksInv'
  <2> DEFINE o == <<"batch", ts>>
             T == Locks!Owners(ts) \o Locks!PrepareLocks(ts[1]) \o Locks!PrepareLocks(ts[2])
  <2>1. o \in Operations \ {<<"idle">>}
    BY DEF Operations
  <2>2. Locks!Begin(p, o, T) /\ preflight' = preflight
    BY <1>5 DEF Locks!BeginBatch
  <2>3. T \in Seq(Batches) /\ Orderly(o, preflight[p], T, {})
    BY <1>1, BatchPlan
  <2> HIDE DEF o, T
  <2>4. QED
    BY <1>1, <2>1, <2>2, <2>3, BeginInv
<1>6. QED
  BY <1>2, <1>3, <1>4, <1>5

LEMMA TakeInv ==
    ASSUME Locks!EngineLocksAssumption, LocksInv, NEW p \in Sessions, Locks!Take(p)
    PROVE  LocksInv'
<1> DEFINE o == op[p]  known == preflight[p]  T == todo[p]  H == held[p]  l == Locks!Least(T[1])
           R == AfterTake(T)
<1>1. /\ o \in Operations /\ known \in BOOLEAN /\ H \in SUBSET AllLocks
      /\ T \in Seq(Batches) /\ T # <<>> /\ Orderly(o, known, T, H)
      /\ attempt[p] \in 0..RetryAttempts
      /\ (o = <<"idle">> => T = <<>>)
  BY DEF LocksInv, LockTypes, Locks!Take
<1>2. Head(T) = T[1]
  BY <1>1
<1>3. /\ held' = [held EXCEPT ![p] = H \cup {l}] /\ todo' = [todo EXCEPT ![p] = R]
      /\ \A q \in Sessions \ {p} : l \notin held[q]
      /\ op' = op /\ preflight' = preflight /\ attempt' = attempt /\ locked' = locked
  BY <1>2 DEF Locks!Take, Locks!TodoAfter, Locks!Awaited, Locks!Granted, AfterTake
<1>4. R \in Seq(Batches) /\ H \cup {l} \in SUBSET AllLocks /\ Orderly(o, known, R, H \cup {l})
  <2> HIDE DEF o, known, T, H
  <2>1. Waiting(o, known, T, H)
    BY <1>1 DEF Waiting
  <2>2. QED
    BY <2>1, TakeKeepsOrder
<1> HIDE DEF l, R
<1>5. \A q \in Sessions \ {p} : (H \cup {l}) \cap held[q] = {}
  BY <1>3 DEF LocksInv, OneHolder
<1>6. op' = [op EXCEPT ![p] = o] /\ preflight' = [preflight EXCEPT ![p] = known]
      /\ attempt' = [attempt EXCEPT ![p] = attempt[p]] /\ locked' \subseteq Txs
  BY <1>3 DEF LocksInv, LockTypes
<1>7. o # <<"idle">>
  BY <1>1
<1>8. Moves(p, o, known, R, H \cup {l}, attempt[p])
  <2> HIDE DEF o, known, H, T
  <2> QED
    BY <1>1, <1>3, <1>4, <1>5, <1>6, <1>7 DEF Moves
<1>9. QED
  BY <1>8, SessionStep

LEMMA RetryInv ==
    ASSUME Locks!EngineLocksAssumption, LocksInv, NEW p \in Sessions, Locks!PreflightRetry(p)
    PROVE  LocksInv'
<1> DEFINE t == op[p][2]  known == t \in locked  T == Locks!TerminalLocks(t, known)
<1>1. op[p] \in Operations /\ op[p][1] = "terminal" /\ op = [op EXCEPT ![p] = op[p]]
      /\ attempt[p] \in 0..RetryAttempts /\ attempt[p] + 1 < RetryAttempts /\ locked \subseteq Txs
  BY DEF LocksInv, LockTypes, Locks!PreflightRetry, Locks!PreflightSpoiled
<1>2. t \in Txs /\ op[p] = <<"terminal", t>>
  BY <1>1 DEF Operations
<1>3. /\ held' = [held EXCEPT ![p] = {}] /\ todo' = [todo EXCEPT ![p] = T]
      /\ preflight' = [preflight EXCEPT ![p] = known] /\ attempt' = [attempt EXCEPT ![p] = attempt[p] + 1]
      /\ op' = op /\ locked' = locked
  BY DEF Locks!PreflightRetry
<1>4. T \in Seq(Batches) /\ Orderly(op[p], known, T, {})
  <2>1. known \in BOOLEAN
    OBVIOUS
  <2> HIDE DEF t, known
  <2>2. Locks!TerminalLocks(t, known) \in Seq(Batches)
        /\ Orderly(<<"terminal", t>>, known, Locks!TerminalLocks(t, known), {})
    BY <1>2, <2>1, TerminalPlan
  <2>3. QED
    BY <1>2, <2>2
<1>5. attempt[p] + 1 \in 0..RetryAttempts /\ op[p] # <<"idle">> /\ known \in BOOLEAN
  BY <1>1 DEF Locks!EngineLocksAssumption
<1>6. op' = [op EXCEPT ![p] = op[p]] /\ locked' \subseteq Txs
      /\ \A q \in Sessions \ {p} : {} \cap held[q] = {}
  BY <1>1, <1>3
<1> HIDE DEF t, known, T
<1>7. Moves(p, op[p], known, T, {}, attempt[p] + 1)
  BY <1>1, <1>3, <1>4, <1>5, <1>6 DEF Moves
<1>8. QED
  BY <1>7, SessionStep

LEMMA TakeSegmentsInv ==
    ASSUME Locks!EngineLocksAssumption, LocksInv, NEW p \in Sessions, Locks!TakeSegments(p)
    PROVE  LocksInv'
<1> DEFINE t == op[p][2]  o == <<"finishing", t>>  S == {Locks!Seg(s) : s \in SegsOf[t]}  T == <<S>>
           H == held[p]
<1>1. /\ op[p] \in Operations /\ op[p][1] = "terminal" /\ preflight[p] = TRUE /\ todo[p] = <<>>
      /\ H \in SUBSET AllLocks /\ attempt[p] \in 0..RetryAttempts /\ locked \subseteq Txs
      /\ preflight = [preflight EXCEPT ![p] = TRUE] /\ held = [held EXCEPT ![p] = H]
      /\ attempt = [attempt EXCEPT ![p] = attempt[p]]
      /\ Orderly(op[p], preflight[p], todo[p], H)
  BY DEF LocksInv, LockTypes, Locks!TakeSegments
<1>2. t \in Txs /\ o \in Operations /\ o # <<"idle">> /\ o[1] = "finishing"
  BY <1>1 DEF Operations
<1>3. /\ op' = [op EXCEPT ![p] = o] /\ todo' = [todo EXCEPT ![p] = T]
      /\ held' = held /\ preflight' = preflight /\ attempt' = attempt /\ locked' = locked
  BY DEF Locks!TakeSegments, Locks!Segments
<1>4. S \in Batches /\ \A l \in S : Guards(l) = {Locks!Owner(EqOf[t])}
  BY <1>2, SegmentGuards DEF Batches
<1>5. Locks!Owner(EqOf[t]) \in H /\ \A l \in H : Guards(l) \subseteq H
  BY <1>1 DEF Orderly, SegmentsComeLast, HeldIsGuarded, Bare
<1> HIDE DEF S, o, H, t
<1>6. T \in Seq(Batches) /\ T # <<>> /\ T[1] = S /\ DOMAIN T = 1..1
  BY <1>4
<1> HIDE DEF T
<1>7. Orderly(o, TRUE, T, H)
  <2>1. ~Bare(o, TRUE) /\ o[1] # "terminal"
    BY <1>2 DEF Bare
  <2>2. HeldIsGuarded(o, TRUE, H)
    BY <1>5, <2>1 DEF HeldIsGuarded
  <2>3. NextIsGuarded(o, TRUE, T, H)
    BY <1>4, <1>5, <1>6, <2>1 DEF NextIsGuarded
  <2>4. LaterIsGuarded(T, H) /\ SegmentsComeLast(o, TRUE, T, H)
    BY <1>6, <2>1 DEF LaterIsGuarded, SegmentsComeLast
  <2>5. QED
    BY <2>2, <2>3, <2>4 DEF Orderly
<1>8. \A q \in Sessions \ {p} : H \cap held[q] = {}
  BY DEF LocksInv, OneHolder, H
<1>9. Moves(p, o, TRUE, T, H, attempt[p])
  BY <1>1, <1>2, <1>3, <1>6, <1>7, <1>8 DEF Moves
<1>10. QED
  BY <1>9, SessionStep

LEMMA EndingsInv ==
    ASSUME Locks!EngineLocksAssumption, LocksInv, NEW p \in Sessions,
           Locks!PreflightGivesUp(p) \/ Locks!Finish(p)
    PROVE  LocksInv'
<1>1. op[p] \in Operations /\ locked \subseteq Txs
  BY DEF LocksInv, LockTypes
<1>2. Locks!Release(p)
  BY DEF Locks!PreflightGivesUp, Locks!Finish
<1>3. locked' \subseteq Txs
  <2>1. op[p][1] = "prepare" => op[p][2] \in Txs
    BY <1>1 DEF Operations
  <2>2. op[p][1] = "batch" => op[p][2] \in Txs \X Txs
    BY <1>1 DEF Operations
  <2>3. QED
    BY <1>1, <2>1, <2>2 DEF Locks!PreflightGivesUp, Locks!Finish
<1>4. QED
  BY <1>2, <1>3, ReleaseInv

LEMMA LocksNextInv ==
    ASSUME Locks!EngineLocksAssumption, LocksInv, Locks!EngineLocksNext
    PROVE  LocksInv'
<1>1. PICK p \in Sessions :
        \/ \E t \in Txs : Locks!BeginPrepare(p, t) \/ Locks!BeginTerminal(p, t)
                            \/ Locks!BeginClearing(p, EqOf[t])
        \/ \E ts \in Txs \X Txs : Locks!BeginBatch(p, ts)
        \/ Locks!Take(p) \/ Locks!PreflightRetry(p) \/ Locks!TakeSegments(p)
        \/ Locks!PreflightGivesUp(p) \/ Locks!Finish(p)
  BY DEF Locks!EngineLocksNext
<1>2. QED
  BY <1>1, BeginningsInv, TakeInv, RetryInv, TakeSegmentsInv, EndingsInv

\* The heart of it.  Nobody waits for a segment, as whoever holds it has the same
\* owner; whoever waits for a payment waits for somebody who waits for nobody, or
\* holds nothing; so that a circle would consist of waits for owners, whose keys
\* would have to rise all the way around.
LEMMA NoCircle ==
    ASSUME Locks!EngineLocksAssumption, LocksInv
    PROVE  Locks!NoWaitCycle
<1> SUFFICES ASSUME NEW C \in SUBSET Sessions, C # {},
                    \A p \in C : \E q \in C : Locks!Waits(p, q)
             PROVE  FALSE
  BY DEF Locks!NoWaitCycle
<1> DEFINE L(p) == Locks!Least(todo[p][1])
<1>1. ASSUME NEW p \in C
      PROVE  /\ todo[p] # <<>> /\ todo[p] \in Seq(Batches) /\ todo[p][1] \in Batches
             /\ L(p) \in todo[p][1] /\ L(p) \in AllLocks
             /\ \E q \in C : q # p /\ L(p) \in held[q]
             /\ Orderly(op[p], preflight[p], todo[p], held[p])
  <2>1. todo[p] # <<>> /\ \E q \in C : q # p /\ Locks!Awaited(p) \in held[q]
    BY DEF Locks!Waits
  <2>2. todo[p] \in Seq(Batches) /\ Orderly(op[p], preflight[p], todo[p], held[p])
    BY DEF LocksInv, LockTypes
  <2>3. Head(todo[p]) = todo[p][1] /\ todo[p][1] \in Batches
    BY <2>1, <2>2
  <2>4. Locks!Awaited(p) = L(p)
    BY <2>3 DEF Locks!Awaited
  <2>5. L(p) \in todo[p][1]
    BY <2>3, LeastLock
  <2>6. L(p) \in AllLocks
    BY <2>3, <2>5 DEF Batches, AllLocks
  <2>7. QED
    BY <2>1, <2>2, <2>3, <2>4, <2>5, <2>6
<1>2. ASSUME NEW p \in C PROVE ~Bare(op[p], preflight[p]) \/ held[p] = {}
  BY <1>1 DEF Orderly, NextIsGuarded
<1>3. ASSUME NEW p \in C, NEW q \in C, p # q, L(p) \in held[q] PROVE Guards(L(p)) \subseteq held[q]
  <2>1. HeldIsGuarded(op[q], preflight[q], held[q])
    BY <1>1 DEF Orderly
  <2>2. ~Bare(op[q], preflight[q])
    BY <1>2, <1>3
  <2>3. QED
    BY <1>3, <2>1, <2>2 DEF HeldIsGuarded
<1>4. \A l \in AllLocks : Guards(l) # {}
  <2>1. \A l \in OwnerLocks : Guards(l) # {}
    BY LockKinds
  <2>2. \A l \in TxLocks : Guards(l) # {}
    BY LockKinds DEF TxLocks
  <2>3. \A l \in SegLocks : Guards(l) # {}
    BY SegmentGuards DEF SegLocks
  <2>4. QED
    BY <2>1, <2>2, <2>3 DEF AllLocks
<1>5. ASSUME NEW p \in C
      PROVE  ~(Guards(L(p)) \subseteq held[p])
  <2>1. PICK q \in C : q # p /\ L(p) \in held[q]
    BY <1>1
  <2>2. Guards(L(p)) \subseteq held[q]
    BY <1>3, <2>1
  <2>3. held[p] \cap held[q] = {}
    BY <2>1 DEF LocksInv, OneHolder
  <2>4. QED
    BY <1>1, <1>4, <2>2, <2>3
\* Whoever waits for an owner holds owners before it.
<1>6. ASSUME NEW p \in C, ~Bare(op[p], preflight[p])
      PROVE  L(p) \in OwnerLocks /\ \A h \in held[p] : h \in OwnerLocks /\ h[2] < L(p)[2]
  BY <1>1, <1>5, <1>6 DEF Orderly, NextIsGuarded
<1>7. ASSUME NEW p \in C PROVE \E q \in C : L(q) \in OwnerLocks /\ L(p) \in OwnerLocks /\ L(p)[2] < L(q)[2]
  <2>1. PICK q \in C : q # p /\ L(p) \in held[q]
    BY <1>1
  <2>2. ~Bare(op[q], preflight[q])
    BY <1>2, <2>1
  <2>3. QED
    BY <1>6, <2>1, <2>2
<1> HIDE DEF L
<1>8. PICK m \in Txs : \A u \in Txs : EqOf[u] <= EqOf[m]
  <2>1. \E l \in OwnerLocks : TRUE
    BY <1>7
  <2>2. Txs # {}
    BY <2>1 DEF OwnerLocks
  <2>3. QED
    BY <2>2 DEF Locks!EngineLocksAssumption
<1>9. \A p \in C : L(p)[2] \in Nat /\ L(p)[2] <= EqOf[m]
  <2>1. \A l \in OwnerLocks : l[2] \in Nat /\ l[2] <= EqOf[m]
    BY <1>8 DEF OwnerLocks, Locks!Owner, Locks!EngineLocksAssumption
  <2>2. QED
    BY <1>7, <2>1
<1> DEFINE gaps == {EqOf[m] - L(p)[2] : p \in C}
<1>10. EqOf[m] \in Nat
  BY DEF Locks!EngineLocksAssumption
<1>11. gaps \in SUBSET Nat /\ gaps # {}
  BY <1>9, <1>10
<1>12. PICK g \in gaps : \A h \in gaps : g <= h
  BY <1>11, LeastNumber
<1>13. PICK p \in C : g = EqOf[m] - L(p)[2]
  OBVIOUS
<1>14. PICK q \in C : L(p)[2] < L(q)[2]
  BY <1>7
<1>15. EqOf[m] - L(q)[2] \in gaps
  OBVIOUS
<1>16. EqOf[m] - L(p)[2] <= EqOf[m] - L(q)[2]
  BY <1>12, <1>13, <1>15
<1>17. L(p)[2] \in Nat /\ L(q)[2] \in Nat
  BY <1>9
<1>18. QED
  BY <1>10, <1>14, <1>16, <1>17

----------------------------------------------------------------------------
(* The cached graph. *)

GraphEntry == [cap : Nat, age : 0..(Ttl + 1), released : Nat, suspect : BOOLEAN]
LineEntry == [line : BOOLEAN, suspect : BOOLEAN]
Seen == [cap : Nat, line : BOOLEAN]
ReaderPcs == {"idle", "open", "building", "done", "topology"}

RowTypes ==
    /\ active \in BOOLEAN /\ limit \in Graphs!Amounts
    /\ debt \in Nat /\ back \in Graphs!Amounts /\ reserved \in Nat

CacheTypes ==
    /\ due \subseteq Graphs!Both
    /\ gcache = Off \/ gcache \in GraphEntry
    /\ tcache = Off \/ tcache \in LineEntry

ReadTypes ==
    /\ bpc \in [Readers -> ReaderPcs] /\ seen \in [Readers -> Seen]
    /\ built \in [Readers -> Nat] /\ overlapped \in [Readers -> BOOLEAN]

\* Without a change since its snapshot, what a request has seen is still so.
Fresh(b) == bpc[b] # "idle" /\ ~overlapped[b] => seen[b].cap = Graphs!TrueCapacity

\* A graph that is wrong by more than what was released is about to be dropped.
ErrorIsDue ==
    gcache # Off /\ ~gcache.suspect /\ "graph" \notin due =>
        gcache.cap <= Graphs!TrueCapacity /\ Graphs!TrueCapacity <= gcache.cap + gcache.released

\* The inductive invariant of the cached graph.
GraphsInv == RowTypes /\ CacheTypes /\ ReadTypes /\ ErrorIsDue /\ \A b \in Readers : Fresh(b)

LEMMA CapacityIsNat ==
    ASSUME MaxLimit \in Nat, NEW on \in BOOLEAN, NEW l \in Graphs!Amounts,
           NEW x \in Nat, NEW y \in Graphs!Amounts, NEW r \in Nat
    PROVE  Graphs!Capacity(on, l, x, y, r) \in Nat
BY DEF Graphs!Amounts, Graphs!Capacity, Graphs!Floor

LEMMA CapacityType ==
    ASSUME Graphs!GraphCacheAssumption, RowTypes
    PROVE  Graphs!TrueCapacity \in Nat
BY CapacityIsNat DEF RowTypes, Graphs!GraphCacheAssumption, Graphs!TrueCapacity

LEMMA GraphsInitInv ==
    ASSUME Graphs!GraphCacheAssumption, Graphs!GraphCacheInit
    PROVE  GraphsInv
<1>1. RowTypes
  BY DEF Graphs!GraphCacheInit, RowTypes, Graphs!GraphCacheAssumption, Graphs!Amounts
<1>2. Graphs!Nothing \in Seen
  BY DEF Graphs!Nothing, Seen
<1>3. CacheTypes /\ ReadTypes
  BY <1>2 DEF Graphs!GraphCacheInit, CacheTypes, ReadTypes, ReaderPcs
<1>4. ErrorIsDue /\ \A b \in Readers : Fresh(b)
  BY DEF Graphs!GraphCacheInit, ErrorIsDue, Fresh
<1>5. QED
  BY <1>1, <1>3, <1>4 DEF GraphsInv

\* A committed change: requests with a snapshot are overtaken, and the shared
\* graph is to be dropped unless a reservation was released and counted.
Counted ==
    /\ Graphs!TrueCapacity <= Graphs!TrueCapacity' /\ Graphs!TrueCapacity' <= Graphs!TrueCapacity + 1
    /\ gcache' = IF gcache = Off THEN Off ELSE [gcache EXCEPT !.released = gcache.released + 1]

LEMMA ChangeInv ==
    ASSUME Graphs!GraphCacheAssumption, GraphsInv, NEW what \in SUBSET Graphs!Both, Graphs!Committed(what),
           RowTypes', ("graph" \in what /\ gcache' = gcache) \/ Counted
    PROVE  GraphsInv'
<1>1. /\ due' = due \cup what
      /\ UNCHANGED <<tcache, bpc, seen, built>>
      /\ overlapped' = [b \in Readers |-> overlapped[b] \/ bpc[b] # "idle"]
  BY DEF Graphs!Committed
<1>2. Graphs!TrueCapacity \in Nat /\ Graphs!TrueCapacity' \in Nat
  <2>1. Graphs!TrueCapacity \in Nat
    BY CapacityType DEF GraphsInv
  <2>2. Graphs!TrueCapacity' \in Nat
    BY CapacityIsNat DEF RowTypes, Graphs!GraphCacheAssumption, Graphs!TrueCapacity
  <2>3. QED
    BY <2>1, <2>2
<1>3. gcache # Off => gcache.cap \in Nat /\ gcache.released \in Nat /\ gcache.suspect \in BOOLEAN
  BY DEF GraphsInv, CacheTypes, GraphEntry
<1>4. CASE "graph" \in what /\ gcache' = gcache
  <2>1. CacheTypes' /\ ErrorIsDue'
    BY <1>1, <1>4 DEF GraphsInv, CacheTypes, ErrorIsDue
  <2>2. ReadTypes' /\ \A b \in Readers : Fresh(b)'
    BY <1>1 DEF GraphsInv, ReadTypes, Fresh
  <2>3. QED
    BY <2>1, <2>2 DEF GraphsInv
<1>5. CASE Counted
  <2>1. CASE gcache = Off
    BY <1>1, <1>5, <2>1 DEF Counted, GraphsInv, CacheTypes, ReadTypes, ErrorIsDue, Fresh
  <2>2. CASE gcache # Off
    <3>1. /\ gcache \in GraphEntry
          /\ gcache' = [gcache EXCEPT !.released = gcache.released + 1]
      BY <1>5, <2>2 DEF Counted, GraphsInv, CacheTypes
    <3>2. /\ gcache' \in GraphEntry /\ gcache'.cap = gcache.cap /\ gcache'.suspect = gcache.suspect
          /\ gcache'.released = gcache.released + 1
      BY <3>1 DEF GraphEntry
    <3>3. CacheTypes'
      BY <1>1, <3>2 DEF GraphsInv, CacheTypes
    <3>4. ErrorIsDue'
      <4>1. SUFFICES ASSUME ~gcache.suspect, "graph" \notin due
                     PROVE  /\ gcache.cap <= Graphs!TrueCapacity'
                            /\ Graphs!TrueCapacity' <= gcache.cap + (gcache.released + 1)
        BY <1>1, <3>2 DEF ErrorIsDue
      <4>2. gcache.cap <= Graphs!TrueCapacity /\ Graphs!TrueCapacity <= gcache.cap + gcache.released
        BY <2>2, <4>1 DEF GraphsInv, ErrorIsDue
      <4>3. QED
        BY <1>2, <1>3, <1>5, <2>2, <4>2 DEF Counted
    <3>5. ReadTypes' /\ \A b \in Readers : Fresh(b)'
      BY <1>1 DEF GraphsInv, ReadTypes, Fresh
    <3>6. QED
      BY <3>3, <3>4, <3>5 DEF GraphsInv
  <2>3. QED
    BY <2>1, <2>2
<1>6. QED
  BY <1>4, <1>5

LEMMA ChangesInv ==
    ASSUME Graphs!GraphCacheAssumption, GraphsInv,
           \/ Graphs!PreparePayment \/ Graphs!CommitPayment \/ Graphs!CommitOpposite \/ Graphs!ReleasePayment
           \/ Graphs!ClearDebt \/ Graphs!RepairDebt \/ Graphs!UpdateLine \/ Graphs!CloseOrCreateLine
           \/ Graphs!InjectLine \/ Graphs!DriftLimit
    PROVE  GraphsInv'
<1>1. RowTypes /\ Graphs!Both = {"graph", "topology"} /\ MaxLimit \in Nat
  BY DEF GraphsInv, Graphs!Both, Graphs!GraphCacheAssumption
<1>2. ASSUME \/ Graphs!PreparePayment \/ Graphs!CommitPayment \/ Graphs!CommitOpposite \/ Graphs!ClearDebt
             \/ Graphs!RepairDebt
      PROVE  GraphsInv'
  <2>1. gcache' = gcache /\ Graphs!Committed(Graphs!Both)
    BY <1>2 DEF Graphs!PreparePayment, Graphs!CommitPayment, Graphs!CommitOpposite, Graphs!ClearDebt,
                Graphs!RepairDebt
  <2>2. RowTypes'
    <3>1. CASE Graphs!PreparePayment \/ Graphs!CommitPayment
      BY <1>1, <3>1 DEF Graphs!PreparePayment, Graphs!CommitPayment, RowTypes, Graphs!Amounts, Graphs!Floor
    <3>2. CASE Graphs!CommitOpposite
      BY <1>1, <3>2 DEF Graphs!CommitOpposite, RowTypes, Graphs!Amounts, Graphs!Floor
    <3>3. CASE Graphs!ClearDebt
      BY <1>1, <3>3 DEF Graphs!ClearDebt, RowTypes, Graphs!Amounts
    <3>4. CASE Graphs!RepairDebt
      BY <1>1, <3>4 DEF Graphs!RepairDebt, RowTypes, Graphs!Amounts
    <3>5. QED
      BY <1>2, <3>1, <3>2, <3>3, <3>4
  <2>3. QED
    BY <1>1, <2>1, <2>2, ChangeInv
<1>3. ASSUME Graphs!UpdateLine \/ Graphs!CloseOrCreateLine
      PROVE  GraphsInv'
  <2>1. gcache' = gcache /\ Graphs!Committed(Graphs!Both)
    BY <1>3 DEF Graphs!UpdateLine, Graphs!CloseOrCreateLine
  <2>2. active' \in BOOLEAN /\ limit' \in Graphs!Amounts /\ UNCHANGED <<debt, back, reserved>>
    BY <1>1, <1>3, Zenon DEF Graphs!UpdateLine, Graphs!CloseOrCreateLine, RowTypes
  <2>3. QED
    BY <1>1, <2>1, <2>2, ChangeInv DEF RowTypes
<1>4. ASSUME Graphs!InjectLine \/ Graphs!DriftLimit
      PROVE  GraphsInv'
  <2>1. gcache' = gcache /\ Graphs!Committed({"graph"})
    BY <1>4 DEF Graphs!InjectLine, Graphs!DriftLimit
  <2>2. active' \in BOOLEAN /\ limit' \in Graphs!Amounts /\ (debt' = debt \/ debt' = debt + 1)
        /\ UNCHANGED <<back, reserved>>
    BY <1>1, <1>4, Zenon DEF Graphs!InjectLine, Graphs!DriftLimit, RowTypes
  <2>3. RowTypes'
    BY <1>1, <2>2 DEF RowTypes
  <2>4. QED
    BY <1>1, <2>1, <2>3, ChangeInv
<1>5. ASSUME Graphs!ReleasePayment PROVE GraphsInv'
  <2>1. /\ reserved' = reserved - 1 /\ reserved > 0 /\ UNCHANGED <<active, limit, debt, back>>
        /\ gcache' = IF gcache = Off THEN Off ELSE [gcache EXCEPT !.released = gcache.released + 1]
        /\ Graphs!Committed({})
    BY <1>5 DEF Graphs!ReleasePayment
  <2>2. RowTypes'
    BY <1>1, <2>1 DEF RowTypes
  <2>3. Graphs!TrueCapacity <= Graphs!TrueCapacity' /\ Graphs!TrueCapacity' <= Graphs!TrueCapacity + 1
    BY <1>1, <2>1 DEF RowTypes, Graphs!Amounts, Graphs!TrueCapacity, Graphs!Capacity, Graphs!Floor
  <2>4. QED
    BY <2>1, <2>2, <2>3, ChangeInv DEF Counted
<1>6. QED
  BY <1>2, <1>3, <1>4, <1>5

\* Steps that change neither the line nor what is to be invalidated of it.
LEMMA SameLine ==
    ASSUME UNCHANGED Graphs!dbVars
    PROVE  Graphs!TrueCapacity' = Graphs!TrueCapacity
BY DEF Graphs!dbVars, Graphs!TrueCapacity

LEMMA CacheStepsInv ==
    ASSUME Graphs!GraphCacheAssumption, GraphsInv,
           Graphs!Tick \/ Graphs!LoseAnswer \/ \E c \in Graphs!Both : Graphs!Invalidate(c)
    PROVE  GraphsInv'
<1>1. /\ UNCHANGED Graphs!dbVars /\ UNCHANGED Graphs!readVars /\ due' \subseteq due
      /\ UNCHANGED <<active, limit, debt, back, reserved>>
      /\ UNCHANGED <<bpc, seen, built, overlapped>>
  BY DEF Graphs!Tick, Graphs!LoseAnswer, Graphs!Invalidate, Graphs!dbVars, Graphs!readVars
<1>2. Graphs!TrueCapacity' = Graphs!TrueCapacity
  BY <1>1, SameLine
<1>3. /\ gcache' = Off \/ gcache' \in GraphEntry
      /\ tcache' = Off \/ tcache' \in LineEntry
      /\ ErrorIsDue'
  <2>1. CASE Graphs!Tick
    <3>1. gcache \in GraphEntry /\ gcache.age <= Ttl /\ gcache' = [gcache EXCEPT !.age = gcache.age + 1]
          /\ due' = due /\ tcache' = tcache /\ gcache # Off
      BY <2>1 DEF Graphs!Tick, GraphsInv, CacheTypes
    <3>2. /\ gcache' \in GraphEntry /\ gcache'.cap = gcache.cap /\ gcache'.suspect = gcache.suspect
          /\ gcache'.released = gcache.released
      BY <3>1 DEF GraphEntry, Graphs!GraphCacheAssumption
    <3>3. QED
      BY <1>2, <3>1, <3>2 DEF GraphsInv, CacheTypes, ErrorIsDue
  <2>2. CASE \E c \in Graphs!Both : Graphs!Invalidate(c)
    <3>1. PICK c \in Graphs!Both : Graphs!Invalidate(c)
      BY <2>2
    <3>2. CASE c = "graph"
      BY <3>1, <3>2 DEF Graphs!Invalidate, ErrorIsDue, GraphsInv, CacheTypes
    <3>3. CASE c # "graph"
      <4>1. gcache' = gcache /\ ("graph" \in due' <=> "graph" \in due)
            /\ (tcache' = tcache \/ tcache' = Off)
        BY <3>1, <3>3 DEF Graphs!Invalidate
      <4>2. QED
        BY <1>2, <4>1 DEF GraphsInv, CacheTypes, ErrorIsDue
    <3>4. QED
      BY <3>2, <3>3
  <2>3. CASE Graphs!LoseAnswer
    <3>1. gcache' = Off \/ (gcache' \in GraphEntry /\ gcache'.suspect = TRUE)
      <4>1. CASE gcache = Off
        BY <2>3, <4>1 DEF Graphs!LoseAnswer
      <4>2. CASE gcache # Off
        <5>1. gcache \in GraphEntry /\ gcache' = [gcache EXCEPT !.suspect = TRUE]
          BY <2>3, <4>2 DEF Graphs!LoseAnswer, GraphsInv, CacheTypes
        <5>2. QED
          BY <5>1 DEF GraphEntry
      <4>3. QED
        BY <4>1, <4>2
    <3>2. tcache' = Off \/ tcache' \in LineEntry
      <4>1. CASE tcache = Off
        BY <2>3, <4>1 DEF Graphs!LoseAnswer
      <4>2. CASE tcache # Off
        <5>1. tcache \in LineEntry /\ tcache' = [tcache EXCEPT !.suspect = TRUE]
          BY <2>3, <4>2 DEF Graphs!LoseAnswer, GraphsInv, CacheTypes
        <5>2. QED
          BY <5>1 DEF LineEntry
      <4>3. QED
        BY <4>1, <4>2
    <3>3. QED
      BY <3>1, <3>2 DEF ErrorIsDue
  <2>4. QED
    BY <2>1, <2>2, <2>3
<1>4. RowTypes' /\ CacheTypes' /\ ReadTypes'
  BY <1>1, <1>3 DEF GraphsInv, RowTypes, CacheTypes, ReadTypes
<1>5. \A b \in Readers : Fresh(b)'
  BY <1>1, <1>2 DEF GraphsInv, Fresh
<1>6. QED
  BY <1>3, <1>4, <1>5 DEF GraphsInv

\* A step of one request: what it leaves of it, and of the caches.
Remembers(b, at, saw, has, over) ==
    /\ at \in ReaderPcs /\ saw \in Seen /\ has \in Nat /\ over \in BOOLEAN
    /\ bpc' = [bpc EXCEPT ![b] = at] /\ seen' = [seen EXCEPT ![b] = saw]
    /\ built' = [built EXCEPT ![b] = has] /\ overlapped' = [overlapped EXCEPT ![b] = over]
    /\ UNCHANGED <<active, limit, debt, back, reserved, due>>
    /\ at # "idle" /\ ~over => saw.cap = Graphs!TrueCapacity
    /\ gcache' = Off \/ gcache' \in GraphEntry
    /\ tcache' = Off \/ tcache' \in LineEntry
    /\ gcache' # gcache /\ gcache' # Off /\ ~gcache'.suspect =>
         /\ gcache'.cap <= Graphs!TrueCapacity
         /\ Graphs!TrueCapacity <= gcache'.cap + gcache'.released

LEMMA RequestStep ==
    ASSUME GraphsInv, NEW b \in Readers, NEW at, NEW saw, NEW has, NEW over,
           Remembers(b, at, saw, has, over)
    PROVE  GraphsInv'
<1>1. Graphs!TrueCapacity' = Graphs!TrueCapacity
  BY SameLine DEF Remembers, Graphs!dbVars
<1>2. ReadTypes'
  <2>1. bpc' \in [Readers -> ReaderPcs] /\ seen' \in [Readers -> Seen]
    BY DEF GraphsInv, ReadTypes, Remembers
  <2>2. built' \in [Readers -> Nat] /\ overlapped' \in [Readers -> BOOLEAN]
    BY DEF GraphsInv, ReadTypes, Remembers
  <2>3. QED
    BY <2>1, <2>2 DEF ReadTypes
<1>3. RowTypes' /\ CacheTypes'
  BY DEF GraphsInv, RowTypes, CacheTypes, Remembers
<1>4. ErrorIsDue'
  <2>1. CASE gcache' = gcache
    BY <1>1, <2>1 DEF GraphsInv, ErrorIsDue, Remembers
  <2>2. CASE gcache' # gcache
    BY <1>1, <2>2 DEF ErrorIsDue, Remembers
  <2>3. QED
    BY <2>1, <2>2
<1>5. ASSUME NEW c \in Readers PROVE Fresh(c)'
  <2>1. CASE c = b
    <3>1. bpc'[b] = at /\ seen'[b] = saw /\ overlapped'[b] = over
      BY DEF GraphsInv, ReadTypes, Remembers
    <3>2. QED
      BY <1>1, <2>1, <3>1 DEF Remembers, Fresh
  <2>2. CASE c # b
    <3>1. bpc'[c] = bpc[c] /\ seen'[c] = seen[c] /\ overlapped'[c] = overlapped[c]
      BY <2>2 DEF GraphsInv, ReadTypes, Remembers
    <3>2. QED
      BY <1>1, <3>1 DEF GraphsInv, Fresh
  <2>3. QED
    BY <2>1, <2>2
<1>6. QED
  BY <1>2, <1>3, <1>4, <1>5 DEF GraphsInv

LEMMA RequestsInv ==
    ASSUME Graphs!GraphCacheAssumption, GraphsInv, NEW b \in Readers,
           \/ Graphs!Open(b) \/ Graphs!Fetch(b) \/ Graphs!Build(b) \/ Graphs!Finish(b) \/ Graphs!BuildOwn(b)
           \/ Graphs!Return(b) \/ Graphs!ReadTopology(b) \/ Graphs!StoreTopology(b)
    PROVE  GraphsInv'
<1>1. /\ gcache = Off \/ gcache \in GraphEntry
      /\ tcache = Off \/ tcache \in LineEntry
      /\ bpc[b] \in ReaderPcs /\ seen[b] \in Seen
      /\ built[b] \in Nat /\ overlapped[b] \in BOOLEAN /\ Fresh(b)
  BY DEF GraphsInv, CacheTypes, ReadTypes
<1>2. /\ bpc = [bpc EXCEPT ![b] = bpc[b]] /\ seen = [seen EXCEPT ![b] = seen[b]]
      /\ built = [built EXCEPT ![b] = built[b]] /\ overlapped = [overlapped EXCEPT ![b] = overlapped[b]]
  BY DEF GraphsInv, ReadTypes
<1>3. Graphs!TrueCapacity \in Nat /\ active \in BOOLEAN
  BY CapacityType DEF GraphsInv, RowTypes
<1>4. seen[b].cap \in Nat /\ seen[b].line \in BOOLEAN
  BY <1>1 DEF Seen
<1>5. ASSUME Graphs!Open(b) PROVE GraphsInv'
  <2>1. /\ bpc' = [bpc EXCEPT ![b] = "open"] /\ seen' = [seen EXCEPT ![b] = Graphs!Snapshot]
        /\ UNCHANGED <<active, limit, debt, back, reserved, due, gcache, tcache, built, overlapped>>
    BY <1>5 DEF Graphs!Open, Graphs!Goto, Graphs!dbVars
  <2>2. Graphs!Snapshot \in Seen /\ Graphs!Snapshot.cap = Graphs!TrueCapacity
    BY <1>3 DEF Graphs!Snapshot, Seen
  <2>3. Remembers(b, "open", Graphs!Snapshot, built[b], overlapped[b])
    BY <1>1, <1>2, <2>1, <2>2 DEF Remembers, ReaderPcs
  <2>4. QED
    BY <2>3, RequestStep
<1>6. ASSUME Graphs!Fetch(b) PROVE GraphsInv'
  <2>1. /\ bpc[b] = "open" /\ bpc' = [bpc EXCEPT ![b] = "done"] /\ built' = [built EXCEPT ![b] = gcache.cap]
        /\ UNCHANGED <<active, limit, debt, back, reserved, due, gcache, tcache, seen, overlapped>>
        /\ gcache # Off
    BY <1>6 DEF Graphs!Fetch, Graphs!Goto, Graphs!dbVars, Graphs!Servable
  <2>2. gcache.cap \in Nat
    BY <1>1, <2>1 DEF GraphEntry
  <2>3. Remembers(b, "done", seen[b], gcache.cap, overlapped[b])
    BY <1>1, <1>2, <2>1, <2>2 DEF Remembers, ReaderPcs, Fresh
  <2>4. QED
    BY <2>3, RequestStep
<1>7. ASSUME Graphs!BuildOwn(b) PROVE GraphsInv'
  <2>1. /\ bpc[b] = "open" /\ bpc' = [bpc EXCEPT ![b] = "done"] /\ built' = [built EXCEPT ![b] = seen[b].cap]
        /\ UNCHANGED <<active, limit, debt, back, reserved, due, gcache, tcache, seen, overlapped>>
    BY <1>7 DEF Graphs!BuildOwn, Graphs!Goto, Graphs!dbVars
  <2>2. Remembers(b, "done", seen[b], seen[b].cap, overlapped[b])
    BY <1>1, <1>2, <1>4, <2>1 DEF Remembers, ReaderPcs, Fresh
  <2>3. QED
    BY <2>2, RequestStep
<1>8. ASSUME Graphs!Build(b) \/ Graphs!ReadTopology(b) PROVE GraphsInv'
  <2>1. /\ bpc[b] = "open" /\ (bpc' = [bpc EXCEPT ![b] = "building"] \/ bpc' = [bpc EXCEPT ![b] = "topology"])
        /\ UNCHANGED <<active, limit, debt, back, reserved, due, gcache, tcache, seen, built, overlapped>>
    BY <1>8 DEF Graphs!Build, Graphs!ReadTopology, Graphs!Goto, Graphs!dbVars
  <2>2. PICK at \in {"building", "topology"} : bpc' = [bpc EXCEPT ![b] = at]
    BY <2>1
  <2>3. Remembers(b, at, seen[b], built[b], overlapped[b])
    BY <1>1, <1>2, <2>1, <2>2 DEF Remembers, ReaderPcs, Fresh
  <2>4. QED
    BY <2>3, RequestStep
<1>9. ASSUME Graphs!Finish(b) PROVE GraphsInv'
  <2>1. /\ bpc[b] = "building" /\ bpc' = [bpc EXCEPT ![b] = "done"]
        /\ built' = [built EXCEPT ![b] = seen[b].cap]
        /\ gcache' = [cap |-> seen[b].cap, age |-> 0, released |-> 0, suspect |-> overlapped[b]]
        /\ UNCHANGED <<active, limit, debt, back, reserved, due, tcache, seen, overlapped>>
    BY <1>9 DEF Graphs!Finish, Graphs!Goto, Graphs!dbVars
  <2>2. /\ gcache' \in GraphEntry /\ gcache'.cap = seen[b].cap /\ gcache'.released = 0
        /\ gcache'.suspect = overlapped[b]
    BY <1>1, <1>4, <2>1 DEF GraphEntry, Graphs!GraphCacheAssumption
  <2>3. ~overlapped[b] => seen[b].cap = Graphs!TrueCapacity
    BY <1>1, <2>1 DEF Fresh
  <2>4. ~gcache'.suspect => /\ gcache'.cap <= Graphs!TrueCapacity
                            /\ Graphs!TrueCapacity <= gcache'.cap + gcache'.released
    BY <1>3, <2>2, <2>3
  <2>5. Remembers(b, "done", seen[b], seen[b].cap, overlapped[b])
    BY <1>1, <1>2, <1>4, <2>1, <2>2, <2>3, <2>4 DEF Remembers, ReaderPcs
  <2>6. QED
    BY <2>5, RequestStep
<1>10. ASSUME Graphs!Return(b) PROVE GraphsInv'
  <2>1. /\ bpc' = [bpc EXCEPT ![b] = "idle"] /\ Graphs!Forget(b)
        /\ UNCHANGED <<active, limit, debt, back, reserved, due, gcache, tcache>>
    BY <1>10 DEF Graphs!Return, Graphs!Goto, Graphs!dbVars
  <2>2. Graphs!Nothing \in Seen
    BY DEF Graphs!Nothing, Seen
  <2>3. Remembers(b, "idle", Graphs!Nothing, 0, FALSE)
    BY <1>1, <2>1, <2>2 DEF Remembers, ReaderPcs, Graphs!Forget
  <2>4. QED
    BY <2>3, RequestStep
<1>11. ASSUME Graphs!StoreTopology(b) PROVE GraphsInv'
  <2>1. /\ bpc[b] = "topology" /\ bpc' = [bpc EXCEPT ![b] = "done"]
        /\ tcache' = [line |-> seen[b].line, suspect |-> overlapped[b]]
        /\ UNCHANGED <<active, limit, debt, back, reserved, due, gcache, seen, built, overlapped>>
    BY <1>11 DEF Graphs!StoreTopology, Graphs!Goto, Graphs!dbVars
  <2>2. tcache' \in LineEntry
    BY <1>1, <1>4, <2>1 DEF LineEntry
  <2>3. Remembers(b, "done", seen[b], built[b], overlapped[b])
    BY <1>1, <1>2, <2>1, <2>2 DEF Remembers, ReaderPcs, Fresh
  <2>4. QED
    BY <2>3, RequestStep
<1>12. QED
  BY <1>5, <1>6, <1>7, <1>8, <1>9, <1>10, <1>11

LEMMA GraphsNextInv ==
    ASSUME Graphs!GraphCacheAssumption, GraphsInv, Graphs!GraphCacheNext
    PROVE  GraphsInv'
BY ChangesInv, CacheStepsInv, RequestsInv DEF Graphs!GraphCacheNext

----------------------------------------------------------------------------
(* The loop of commit. *)

CommitL == INSTANCE Lemmas WITH Participants <- Payers

\* The positions of the two modules are the same.
LEMMA CommitInflow ==
    ASSUME NEW m, NEW p
    PROVE  Commit!Inflow(m, p) = CommitL!Inflow(m, p) /\ Commit!NetPosition(m, p) = CommitL!Inflow(m, p)
<1>1. Commit!Inflow(m, p) = CommitL!Inflow(m, p)
  BY Zenon DEF Commit!Inflow, CommitL!Inflow, Commit!SumFunction, CommitL!SumFunction,
     Commit!SumFunctionOnSet, CommitL!SumFunctionOnSet, Commit!FoldFunctionOnSet, CommitL!FoldFunctionOnSet,
     Commit!MapThenFoldSet, CommitL!MapThenFoldSet
<1> QED BY <1>1, Zenon DEF Commit!NetPosition

\* A pair has been touched so far.
Begun(e) == rest[e] # total[e] \/ rest[Commit!Flip(e)] # total[Commit!Flip(e)]

\* The inductive invariant of the loop: the two rows of a pair differ by what has
\* been applied to them, and from the first flow on one of them is zero.
CommitInv ==
    /\ start \in [Commit!Pairs -> Nat] /\ total \in [Commit!Pairs -> Nat]
    /\ d \in [Commit!Pairs -> Nat] /\ rest \in [Commit!Pairs -> Nat]
    /\ \A e \in Commit!Pairs :
         /\ rest[e] <= total[e]
         /\ (d[e] - d[Commit!Flip(e)]) + (rest[e] - rest[Commit!Flip(e)])
              = (start[e] - start[Commit!Flip(e)]) + (total[e] - total[Commit!Flip(e)])
         /\ IF Begun(e) THEN d[e] = 0 \/ d[Commit!Flip(e)] = 0 ELSE d[e] = start[e]

LEMMA CommitPair ==
    ASSUME NEW e \in Commit!Pairs
    PROVE  /\ Commit!Flip(e) \in Commit!Pairs /\ Commit!Flip(Commit!Flip(e)) = e /\ Commit!Flip(e) # e
BY DEF Commit!Pairs, Commit!Flip

LEMMA CommitInitInv ==
    ASSUME Commit!LedgerCheckAssumption, Commit!LedgerInit
    PROVE  CommitInv
BY CommitPair DEF Commit!LedgerCheckAssumption, Commit!LedgerInit, CommitInv, Begun

LEMMA CommitNextInv ==
    ASSUME Commit!LedgerCheckAssumption, CommitInv, [Commit!LedgerNext]_commitVars
    PROVE  CommitInv'
<1>1. CASE UNCHANGED commitVars
  BY <1>1 DEF commitVars, CommitInv, Begun
<1>2. ASSUME NEW e \in Commit!Pairs, NEW amt \in 1..MaxAmount, Commit!ApplyOne(e, amt)
      PROVE  CommitInv'
  <2> DEFINE f == Commit!Flip(e)
             reduction == Commit!MinOf(amt, d[f])
             forward == d[e] + (amt - reduction)
             reverse == d[f] - reduction
             net == Commit!MinOf(forward, reverse)
  <2>1. f \in Commit!Pairs /\ Commit!Flip(f) = e /\ f # e
    BY CommitPair
  <2>2. /\ amt <= rest[e] /\ UNCHANGED <<start, total>>
        /\ d' = [d EXCEPT ![e] = forward - net, ![f] = reverse - net]
        /\ rest' = [rest EXCEPT ![e] = rest[e] - amt]
    BY <1>2 DEF Commit!ApplyOne, Commit!ApplyFlow
  <2>3. /\ d[e] \in Nat /\ d[f] \in Nat /\ rest[e] \in Nat /\ total[e] \in Nat /\ amt \in Nat /\ amt > 0
    BY <2>1 DEF CommitInv, Commit!LedgerCheckAssumption
  <2>4. /\ forward \in Nat /\ reverse \in Nat /\ net \in Nat
        /\ forward - net \in Nat /\ reverse - net \in Nat
        /\ forward - net = 0 \/ reverse - net = 0
        /\ (forward - net) - (reverse - net) = (d[e] - d[f]) + amt
    BY <2>3 DEF Commit!MinOf
  <2> HIDE DEF net, forward, reverse, f
  <2>5. /\ d'[e] = forward - net /\ d'[f] = reverse - net /\ rest'[e] = rest[e] - amt /\ rest'[f] = rest[f]
        /\ \A g \in Commit!Pairs : g # e /\ g # f => d'[g] = d[g] /\ rest'[g] = rest[g]
    BY <2>1, <2>2 DEF CommitInv
  <2>6. d' \in [Commit!Pairs -> Nat] /\ rest' \in [Commit!Pairs -> Nat]
    BY <2>1, <2>2, <2>3, <2>4 DEF CommitInv
  <2>7. ASSUME NEW g \in Commit!Pairs
        PROVE  /\ rest'[g] <= total[g]
               /\ (d'[g] - d'[Commit!Flip(g)]) + (rest'[g] - rest'[Commit!Flip(g)])
                    = (start[g] - start[Commit!Flip(g)]) + (total[g] - total[Commit!Flip(g)])
               /\ IF Begun(g)' THEN d'[g] = 0 \/ d'[Commit!Flip(g)] = 0 ELSE d'[g] = start[g]
    <3> DEFINE h == Commit!Flip(g)
    <3>1. h \in Commit!Pairs /\ Commit!Flip(h) = g /\ h # g
      BY CommitPair
    <3>2. /\ rest[g] <= total[g] /\ rest[h] <= total[h]
          /\ (d[g] - d[h]) + (rest[g] - rest[h]) = (start[g] - start[h]) + (total[g] - total[h])
          /\ IF Begun(g) THEN d[g] = 0 \/ d[h] = 0 ELSE d[g] = start[g]
          /\ {d[g], d[h], rest[g], rest[h], total[g], total[h], start[g], start[h]} \subseteq Nat
      BY <3>1 DEF CommitInv
    <3>3. Begun(g)' <=> (rest'[g] # total[g] \/ rest'[h] # total[h])
      BY <2>2 DEF Begun
    <3>4. CASE g = e
      <4>1. h = f
        BY <3>4 DEF f
      <4> QED BY <2>3, <2>4, <2>5, <3>2, <3>3, <3>4, <4>1
    <3>5. CASE g = f
      <4>1. h = e
        BY <2>1, <3>5
      <4> QED BY <2>3, <2>4, <2>5, <3>2, <3>3, <3>5, <4>1
    <3>6. CASE g # e /\ g # f
      <4>1. h # e /\ h # f
        BY <2>1, <3>1, <3>6 DEF f
      <4>2. d'[g] = d[g] /\ rest'[g] = rest[g] /\ d'[h] = d[h] /\ rest'[h] = rest[h]
        BY <2>5, <3>1, <3>6, <4>1
      <4>3. Begun(g)' <=> Begun(g)
        BY <3>3, <4>2 DEF Begun
      <4> QED BY <3>2, <4>2, <4>3
    <3> QED BY <3>4, <3>5, <3>6
  <2> QED BY <2>2, <2>6, <2>7 DEF CommitInv
<1> QED BY <1>1, <1>2 DEF Commit!LedgerNext

\* What the invariant says of the positions and of the end of the loop.
LEMMA CommitIsExact ==
    ASSUME Commit!LedgerCheckAssumption, CommitInv
    PROVE  Commit!OrderIsImmaterial /\ Commit!PositionsFollowFlows
<1>1. Commit!PositionsFollowFlows
  <2> SUFFICES ASSUME NEW p \in Payers
               PROVE  CommitL!Inflow(d, p) + CommitL!Inflow(rest, p)
                        = CommitL!Inflow(start, p) + CommitL!Inflow(total, p)
    BY CommitInflow DEF Commit!PositionsFollowFlows
  <2>1. CommitL!IsFiniteSet(Payers)
    BY Zenon DEF Commit!LedgerCheckAssumption, Commit!IsFiniteSet, CommitL!IsFiniteSet
  <2>2. CommitL!Pairs = Commit!Pairs /\ \A e : CommitL!Flip(e) = Commit!Flip(e)
    BY DEF CommitL!Pairs, Commit!Pairs, CommitL!Flip, Commit!Flip
  <2> DEFINE sum == [e \in Commit!Pairs |-> d[e] + rest[e]]
  <2>3. \A e \in Commit!Pairs :
          /\ {d[e], rest[e], start[e], total[e], d[Commit!Flip(e)], rest[Commit!Flip(e)],
              start[Commit!Flip(e)], total[Commit!Flip(e)]} \subseteq Int
          /\ sum[e] = d[e] + rest[e] /\ sum[Commit!Flip(e)] = d[Commit!Flip(e)] + rest[Commit!Flip(e)]
    BY CommitPair DEF CommitInv
  <2>4. /\ sum \in [Commit!Pairs -> Int] /\ d \in [Commit!Pairs -> Int] /\ rest \in [Commit!Pairs -> Int]
        /\ start \in [Commit!Pairs -> Int] /\ total \in [Commit!Pairs -> Int]
    BY <2>3 DEF CommitInv
  <2> HIDE DEF sum
  <2>5. \A e \in Commit!Pairs :
          /\ sum[e] - sum[Commit!Flip(e)] = (d[e] - d[Commit!Flip(e)]) + (rest[e] - rest[Commit!Flip(e)])
          /\ sum[e] - sum[Commit!Flip(e)] = (start[e] - start[Commit!Flip(e)]) + (total[e] - total[Commit!Flip(e)])
    BY <2>3 DEF CommitInv
  <2>6. CommitL!Inflow(sum, p) = CommitL!Inflow(d, p) + CommitL!Inflow(rest, p)
    BY <2>1, <2>2, <2>4, <2>5, CommitL!InflowAdds
  <2>7. CommitL!Inflow(sum, p) = CommitL!Inflow(start, p) + CommitL!Inflow(total, p)
    BY <2>1, <2>2, <2>4, <2>5, CommitL!InflowAdds
  <2> QED BY <2>6, <2>7
<1>2. ASSUME rest = Commit!NoFlow
      PROVE  d = Commit!ApplyFlows(start, total)
  <2>1. ASSUME NEW e \in Commit!Pairs
        PROVE  d[e] = Commit!ApplyFlows(start, total)[e]
    <3> DEFINE f == Commit!Flip(e)
               net == (start[e] - start[f]) + (total[e] - total[f])
    <3>1. f \in Commit!Pairs /\ rest[e] = 0 /\ rest[f] = 0
      BY <1>2, CommitPair DEF Commit!NoFlow
    <3>2. /\ d[e] - d[f] = net /\ {d[e], d[f], start[e], start[f], total[e], total[f]} \subseteq Nat
          /\ IF Begun(e) THEN d[e] = 0 \/ d[f] = 0 ELSE d[e] = start[e]
      BY <3>1 DEF CommitInv
    <3>3. Begun(e) <=> e \in Commit!Touched(total)
      BY <3>1, <3>2 DEF Begun, Commit!Touched
    <3>4. Commit!ApplyFlows(start, total)[e] =
            IF e \notin Commit!Touched(total) THEN start[e] ELSE IF net > 0 THEN net ELSE 0
      BY DEF Commit!ApplyFlows
    <3> QED BY <3>2, <3>3, <3>4
  <2> QED BY <2>1 DEF CommitInv, Commit!ApplyFlows
<1> QED BY <1>1, <1>2 DEF Commit!OrderIsImmaterial

----------------------------------------------------------------------------
(* Checkpoints and repairs. *)

\* The lines of a book.
LineTables == {ls \in [LineIds -> Book!Line \cup {Book!NoLine}] :
    \A i, j \in LineIds : i # j /\ Book!Live(ls[i]) /\ Book!Live(ls[j]) => ls[i].row # ls[j].row}

LEMMA BookPair ==
    ASSUME Book!IntegrityAssumption
    PROVE  /\ \A e \in Book!Pairs : /\ Book!Flip(e) \in Book!Pairs
                                       /\ Book!Flip(Book!Flip(e)) = e /\ Book!Flip(e) # e
           /\ Rows \subseteq Book!Pairs /\ \A e \in Rows : Book!Flip(e) \in Rows
BY DEF Book!IntegrityAssumption, Book!Pairs, Book!Flip

\* The limit of a pair is the one of its active line, of which there is one at most.
LEMMA LimitOfLine ==
    ASSUME Book!IntegrityAssumption, NEW ls \in LineTables, NEW e \in Rows
    PROVE  /\ Book!LimitOf(ls, e) \in Nat
           /\ \A i \in LineIds :
                ls[i].status = "active" /\ ls[i].row = e => Book!LimitOf(ls, e) = ls[i].limit
           /\ (\A i \in LineIds : ~(ls[i].status = "active" /\ ls[i].row = e)) =>
                Book!LimitOf(ls, e) = 0
<1> DEFINE on == {i \in LineIds : ls[i].status = "active" /\ ls[i].row = e}
<1>1. Book!LimitOf(ls, e) = IF on = {} THEN 0 ELSE ls[CHOOSE i \in on : TRUE].limit
  BY DEF Book!LimitOf
<1>2. \A i, j \in on : i = j
  BY DEF LineTables, Book!Live
<1>3. \A i \in on : i \in LineIds /\ ls[i].limit \in Nat
  <2> SUFFICES ASSUME NEW i \in on PROVE ls[i].limit \in Nat
    OBVIOUS
  <2>1. ls[i] \in Book!Line
    BY DEF LineTables, Book!NoLine
  <2> QED BY <2>1 DEF Book!Line, Book!IntegrityAssumption
<1>4. ASSUME on # {} PROVE (CHOOSE i \in on : TRUE) \in on
  BY <1>4
<1> QED BY <1>1, <1>2, <1>3, <1>4

\* A sorted list of finitely many ids has each of them once.
LEMMA SortedLists ==
    ASSUME NEW S \in SUBSET Nat, IsFiniteSet(S), NEW s \in Book!Sorted(S)
    PROVE  /\ Cardinality(S) \in Nat /\ s \in [1..Cardinality(S) -> S] /\ s \in Seq(Nat)
           /\ \A i, j \in 1..Cardinality(S) : i < j => s[i] < s[j]
           /\ \A x \in S : \E i \in 1..Cardinality(S) : s[i] = x
<1> DEFINE n == Cardinality(S)
<1>1. n \in Nat /\ Book!Cardinality(S) = n
  BY FS_CardinalityType, Zenon DEF Book!Cardinality, Cardinality
<1> HIDE DEF n
<1>2. s \in [1..n -> S] /\ \A i, j \in 1..n : i # j => s[i] # s[j]
  BY <1>1 DEF Book!Sorted, Book!SetToSeqs
<1>3. \A i, j \in 1..n : i < j => s[i] < s[j]
  <2>1. DOMAIN s = 1..n
    BY <1>2
  <2> QED BY <2>1 DEF Book!Sorted
<1>4. s \in Seq(Nat)
  <2>1. s \in [1..n -> Nat]
    BY <1>2
  <2> QED BY <1>1, <2>1
<1>5. s \in Injection(1..n, S)
  BY <1>2, Zenon DEF Injection, IsInjective
<1>6. Cardinality(1..n) = n
  BY <1>1, FS_Interval
<1>7. s \in Surjection(1..n, S)
  BY <1>5, <1>6, FS_Injection DEF n
<1> QED BY <1>1, <1>2, <1>3, <1>4, <1>7 DEF n, Surjection

\* There is one such list.
LEMMA SortedListsAgree ==
    ASSUME NEW S \in SUBSET Nat, IsFiniteSet(S), NEW s \in Book!Sorted(S), NEW t \in Book!Sorted(S)
    PROVE  s = t
<1> DEFINE n == Cardinality(S)
           Differ == {i \in 1..n : s[i] # t[i]}
<1>1. /\ n \in Nat /\ s \in [1..n -> S] /\ t \in [1..n -> S]
      /\ \A i, j \in 1..n : i < j => s[i] < s[j] /\ t[i] < t[j]
      /\ \A x \in S : (\E i \in 1..n : s[i] = x) /\ (\E i \in 1..n : t[i] = x)
  BY SortedLists
<1> HIDE DEF n
<1>2. SUFFICES ASSUME Differ # {} PROVE FALSE
  BY <1>1
<1>3. PICK i \in Differ : \A j \in Differ : i <= j
  <2>1. Differ \in SUBSET Nat
    BY <1>1
  <2> QED BY <1>2, <2>1, LeastNumber, Zenon
<1>4. i \in 1..n /\ s[i] \in Nat /\ t[i] \in Nat /\ s[i] \in S /\ t[i] \in S /\ s[i] # t[i]
  BY <1>1
<1>5. \A j \in 1..n : j < i => s[j] = t[j]
  BY <1>1, <1>3
<1>6. CASE s[i] < t[i]
  <2>1. PICK j \in 1..n : t[j] = s[i]
    BY <1>1, <1>4
  <2>2. CASE j < i
    <3>1. s[j] = s[i] /\ s[j] < s[i] /\ s[j] \in Nat
      BY <1>1, <1>4, <1>5, <2>1, <2>2
    <3> QED BY <1>4, <3>1
  <2>3. CASE j = i
    BY <1>4, <2>1, <2>3
  <2>4. CASE i < j
    <3>1. t[i] < t[j] /\ t[j] \in Nat
      BY <1>1, <1>4, <2>4
    <3> QED BY <1>4, <1>6, <2>1, <3>1
  <2> QED BY <1>1, <1>4, <2>2, <2>3, <2>4
<1>7. CASE t[i] < s[i]
  <2>1. PICK j \in 1..n : s[j] = t[i]
    BY <1>1, <1>4
  <2>2. CASE j < i
    <3>1. t[j] = t[i] /\ t[j] < t[i] /\ t[j] \in Nat
      BY <1>1, <1>4, <1>5, <2>1, <2>2
    <3> QED BY <1>4, <3>1
  <2>3. CASE j = i
    BY <1>4, <2>1, <2>3
  <2>4. CASE i < j
    <3>1. s[i] < s[j] /\ s[j] \in Nat
      BY <1>1, <1>4, <2>4
    <3> QED BY <1>4, <1>7, <2>1, <3>1
  <2> QED BY <1>1, <1>4, <2>2, <2>3, <2>4
<1> QED BY <1>4, <1>6, <1>7

\* The lines of a pair.
LEMMA LinesOfPair ==
    ASSUME Book!IntegrityAssumption, NEW ls, NEW e
    PROVE  IsFiniteSet(Book!LinesOf(ls, e)) /\ Book!LinesOf(ls, e) \in SUBSET Nat
BY FS_Subset DEF Book!LinesOf, Book!IntegrityAssumption, Book!IsFiniteSet, IsFiniteSet

----------------------------------------------------------------------------
\* The repair in progress: its work forgives only, netting keeps the difference of
\* the two rows of a pair, and the rows it has visited are as it wants them.
Repairing ==
    /\ repair.work \in [Book!Pairs -> Nat] /\ repair.base \in [Book!Pairs -> Nat]
    /\ repair.rest \subseteq Rows /\ repair.seen \subseteq Rows
    /\ repair.kind \in {"none", "net", "cap"}
    /\ repair = [kind |-> repair.kind, work |-> repair.work, base |-> repair.base, lines |-> repair.lines,
                 rest |-> repair.rest, seen |-> repair.seen]
    /\ \A e \in Book!Pairs : repair.work[e] <= repair.base[e] /\ repair.base[e] <= scope.debt + edits
    /\ repair.kind # "none" => repair.lines \in LineTables
    /\ repair.kind = "net" =>
         /\ \A e \in Book!Pairs : repair.work[e] - repair.work[Book!Flip(e)]
                                       = repair.base[e] - repair.base[Book!Flip(e)]
         /\ \A e \in Rows : e \notin repair.rest \/ e \in repair.seen =>
              repair.work[e] = 0 \/ repair.work[Book!Flip(e)] = 0
    /\ repair.kind = "cap" =>
         \A e \in Rows \ repair.rest : repair.work[e] <= Book!LimitOf(repair.lines, e)

\* What the repairs since the last change have achieved.
Repaired ==
    /\ recent \subseteq {"net", "cap"}
    /\ "net" \in recent => Book!DebtSymmetry(owed, Rows)
    /\ "cap" \in recent => Book!WithinLimits(owed, lines)

\* The stored checkpoints, and the snapshot of the one in progress.
Snapshots == [Book!Pairs -> Nat] \X LineTables
Orders == [Rows -> Seq(Nat)]
Stored == {Book!Checkpoint(s[1], s[2], o) : s \in Snapshots, o \in Orders}
Checkpointing ==
    /\ checkpoints \in Seq(Stored)
    /\ job \in Snapshots \cup {<<>>}
    /\ Len(checkpoints) <= scope.checkpoints + (IF job = <<>> THEN 1 ELSE 0)
    /\ \A i \in DOMAIN checkpoints : \E s \in Snapshots : \E o \in Book!LineOrders(s[2]) :
         checkpoints[i] = Book!Checkpoint(s[1], s[2], o)

\* The inductive invariant of a book.
BookInv ==
    /\ owed \in [Book!Pairs -> Nat] /\ lines \in LineTables
    /\ scope \in Scopes /\ edits \in 0..scope.edits
    /\ \A e \in Book!Pairs : owed[e] <= scope.debt + edits
    /\ Repairing /\ Repaired /\ Checkpointing

LEMMA NoRepairInv ==
    ASSUME Book!IntegrityAssumption, scope \in Scopes, edits \in Nat, repair = Book!NoRepair
    PROVE  Repairing
BY DEF Repairing, Book!NoRepair, Book!NoFlow, Book!IntegrityAssumption

LEMMA BookInitInv ==
    ASSUME Book!IntegrityAssumption, Book!IntegrityInit
    PROVE  BookInv
<1>1. PICK f \in [scope.rows -> 0..scope.debt] : owed = [e \in Book!Pairs |-> IF e \in scope.rows THEN f[e] ELSE 0]
  BY DEF Book!IntegrityInit
<1>2. scope \in Scopes /\ edits = 0 /\ scope.debt \in Nat /\ scope.edits \in Nat /\ scope.checkpoints \in Nat
  BY DEF Book!IntegrityInit, Book!IntegrityAssumption
<1>3. owed \in [Book!Pairs -> Nat] /\ \A e \in Book!Pairs : owed[e] <= scope.debt + edits
  BY <1>1, <1>2
<1>4. lines \in LineTables
  BY DEF Book!IntegrityInit, LineTables
<1>5. Repairing
  BY <1>2, NoRepairInv DEF Book!IntegrityInit
<1>6. Repaired
  BY DEF Book!IntegrityInit, Repaired
<1>7. Checkpointing
  BY <1>2 DEF Book!IntegrityInit, Checkpointing
<1> QED BY <1>2, <1>3, <1>4, <1>5, <1>6, <1>7 DEF BookInv

LEMMA PayInv ==
    ASSUME Book!IntegrityAssumption, BookInv, NEW e \in Rows, Book!Pay(e)
    PROVE  BookInv'
<1> DEFINE f == Book!Flip(e)
           reduction == Book!MinOf(1, owed[f])
           forward == owed[e] + (1 - reduction)
           reverse == owed[f] - reduction
           net == Book!MinOf(forward, reverse)
           cap == scope.debt + edits
<1>1. e \in Book!Pairs /\ f \in Book!Pairs /\ f # e
  BY BookPair
<1>2. owed' = [owed EXCEPT ![e] = forward - net, ![f] = reverse - net]
  BY DEF Book!Pay, Book!ApplyFlow
<1>3. /\ owed[e] \in Nat /\ owed[f] \in Nat /\ owed[e] <= cap /\ owed[f] <= cap /\ cap \in Nat
      /\ edits \in Nat /\ edits' = edits + 1 /\ edits < scope.edits /\ scope.edits \in Nat /\ scope.debt \in Nat
  BY <1>1 DEF BookInv, Book!Pay, Book!IntegrityAssumption
<1>4. /\ forward - net \in Nat /\ reverse - net \in Nat /\ forward - net <= cap + 1 /\ reverse - net <= cap + 1
  <2> HIDE DEF cap, f
  <2>1. owed[f] = 0 => reduction = 0 /\ forward = owed[e] + 1 /\ reverse = 0 /\ net = 0
    BY <1>3 DEF Book!MinOf
  <2>2. owed[f] > 0 => reduction = 1 /\ forward = owed[e] /\ reverse = owed[f] - 1 /\ net \in {forward, reverse}
                       /\ net <= forward /\ net <= reverse
    BY <1>3 DEF Book!MinOf
  <2> HIDE DEF net, forward, reverse, reduction
  <2> QED BY <1>3, <2>1, <2>2
<1> HIDE DEF forward, reverse, net, f
<1>5. owed' \in [Book!Pairs -> Nat] /\ \A g \in Book!Pairs : owed'[g] <= scope.debt + edits'
  BY <1>1, <1>2, <1>3, <1>4 DEF BookInv
<1>6. UNCHANGED <<lines, repair, job, checkpoints, scope>> /\ recent' = {}
  BY DEF Book!Pay
<1>7. Repairing'
  <2>1. \A g \in Book!Pairs : repair.base[g] <= scope.debt + edits'
    BY <1>3 DEF BookInv, Repairing
  <2> QED BY <1>6, <2>1 DEF BookInv, Repairing
<1>8. Repaired'
  BY <1>6 DEF Repaired
<1>9. Checkpointing'
  BY <1>6 DEF Checkpointing, BookInv
<1> QED BY <1>3, <1>5, <1>6, <1>7, <1>8, <1>9 DEF BookInv

LEMMA EditLineInv ==
    ASSUME Book!IntegrityAssumption, BookInv,
           NEW i \in LineIds, NEW line \in Book!Line, Book!EditLine(i, line)
    PROVE  BookInv'
<1>1. lines' \in LineTables
  <2>1. lines \in [LineIds -> Book!Line \cup {Book!NoLine}]
    BY DEF BookInv, LineTables
  <2>2. lines' = [lines EXCEPT ![i] = line]
    BY DEF Book!EditLine
  <2>3. \A j \in LineIds \ {i} : Book!Live(lines[j]) => lines[j].row # line.row
    <3>1. CASE lines[i] = Book!NoLine
      BY <3>1 DEF Book!EditLine
    <3>2. CASE lines[i] # Book!NoLine
      <4>1. Book!Live(lines[i]) /\ line.row = lines[i].row
        BY <3>2 DEF Book!EditLine
      <4> QED BY <4>1 DEF BookInv, LineTables
    <3> QED BY <3>1, <3>2
  <2>4. lines' \in [LineIds -> Book!Line \cup {Book!NoLine}]
    BY <2>1, <2>2
  <2>5. ASSUME NEW j \in LineIds, NEW k \in LineIds, j # k,
               Book!Live(lines'[j]), Book!Live(lines'[k])
        PROVE  lines'[j].row # lines'[k].row
    <3>1. CASE j = i
      BY <2>1, <2>2, <2>3, <2>5, <3>1
    <3>2. CASE k = i
      BY <2>1, <2>2, <2>3, <2>5, <3>2
    <3>3. CASE j # i /\ k # i
      BY <2>1, <2>2, <2>5, <3>3 DEF BookInv, LineTables
    <3> QED BY <3>1, <3>2, <3>3
  <2> QED BY <2>4, <2>5 DEF LineTables
<1>2. UNCHANGED <<owed, repair, job, checkpoints, scope>> /\ recent' = {}
  BY DEF Book!EditLine
<1>3. /\ edits \in Nat /\ edits' = edits + 1 /\ edits < scope.edits /\ scope.edits \in Nat /\ scope.debt \in Nat
      /\ edits' \in 0..scope.edits
  BY DEF BookInv, Book!EditLine, Book!IntegrityAssumption
<1>4. \A g \in Book!Pairs : owed[g] <= scope.debt + edits' /\ repair.base[g] <= scope.debt + edits'
  BY <1>3 DEF BookInv, Repairing
<1>5. Repairing'
  BY <1>2, <1>4 DEF BookInv, Repairing
<1>6. Repaired'
  BY <1>2 DEF Repaired
<1>7. Checkpointing'
  BY <1>2 DEF Checkpointing, BookInv
<1> QED BY <1>1, <1>2, <1>3, <1>4, <1>5, <1>6, <1>7 DEF BookInv

LEMMA BeginRepairInv ==
    ASSUME Book!IntegrityAssumption, BookInv, NEW kind \in {"net", "cap"}, Book!BeginRepair(kind)
    PROVE  BookInv'
<1>1. /\ repair' = [kind |-> kind, work |-> owed, base |-> owed, lines |-> lines,
                    rest |-> {e \in Rows : owed[e] > 0}, seen |-> {}]
      /\ UNCHANGED <<owed, lines, recent, job, checkpoints, edits, scope>>
  BY DEF Book!BeginRepair
<1>2. /\ repair'.kind = kind /\ repair'.work = owed /\ repair'.base = owed /\ repair'.lines = lines
      /\ repair'.rest = {e \in Rows : owed[e] > 0} /\ repair'.seen = {}
  BY <1>1
<1>3. \A e \in Rows : e \in Book!Pairs /\ owed[e] \in Nat /\ (e \notin repair'.rest => owed[e] = 0)
  BY <1>2, BookPair DEF BookInv
<1>4. \A e \in Rows \ repair'.rest : owed[e] <= Book!LimitOf(lines, e)
  BY <1>3, LimitOfLine DEF BookInv
<1>5. Repairing'
  BY <1>1, <1>2, <1>3, <1>4 DEF Repairing, BookInv
<1> QED BY <1>1, <1>5 DEF BookInv, Repaired, Checkpointing

LEMMA NetVisitInv ==
    ASSUME Book!IntegrityAssumption, BookInv, NEW e \in Rows, Book!NetVisit(e)
    PROVE  BookInv'
<1> DEFINE f == Book!Flip(e)
           x == repair.work[e]
           y == repair.work[f]
           mutual == repair.base[f] > 0 /\ {e, f} \cap repair.seen = {}
           netted == [repair.work EXCEPT ![e] = IF x > y THEN x - y ELSE 0, ![f] = IF y > x THEN y - x ELSE 0]
<1>1. /\ repair.kind = "net" /\ e \in repair.rest
      /\ repair' = [repair EXCEPT !.rest = @ \ {e}, !.seen = IF mutual THEN @ \cup {e} ELSE @,
                                  !.work = IF ~mutual THEN @ ELSE netted]
      /\ UNCHANGED <<owed, lines, recent, job, checkpoints, edits, scope>>
  BY DEF Book!NetVisit
<1>2. /\ repair'.kind = "net" /\ repair'.base = repair.base /\ repair'.lines = repair.lines
      /\ repair'.rest = repair.rest \ {e}
      /\ repair'.seen = (IF mutual THEN repair.seen \cup {e} ELSE repair.seen)
      /\ repair'.work = (IF ~mutual THEN repair.work ELSE netted)
      /\ repair' = [kind |-> repair'.kind, work |-> repair'.work, base |-> repair'.base, lines |-> repair'.lines,
                    rest |-> repair'.rest, seen |-> repair'.seen]
  BY <1>1 DEF BookInv, Repairing
<1>3. e \in Book!Pairs /\ f \in Book!Pairs /\ f \in Rows /\ f # e /\ Book!Flip(f) = e
  BY BookPair
<1>4. /\ x \in Nat /\ y \in Nat /\ x <= repair.base[e] /\ y <= repair.base[f]
      /\ repair.base[e] \in Nat /\ repair.base[f] \in Nat /\ x - y = repair.base[e] - repair.base[f]
      /\ repair.work \in [Book!Pairs -> Nat] /\ repair.base \in [Book!Pairs -> Nat]
  BY <1>1, <1>3 DEF BookInv, Repairing
<1>5. CASE ~mutual
  <2>1. x = 0 \/ y = 0
    <3>1. CASE repair.base[f] = 0
      BY <1>4, <3>1
    <3>2. CASE e \in repair.seen \/ f \in repair.seen
      BY <1>1, <1>3, <3>2 DEF BookInv, Repairing
    <3> QED BY <1>4, <1>5, <3>1, <3>2
  <2> QED BY <1>1, <1>2, <1>5, <2>1 DEF BookInv, Repairing, Repaired, Checkpointing
<1>6. CASE mutual
  <2>1. repair'.work = netted
    BY <1>2, <1>6
  <2>2. /\ repair'.work[e] = (IF x > y THEN x - y ELSE 0) /\ repair'.work[f] = (IF y > x THEN y - x ELSE 0)
        /\ \A g \in Book!Pairs : g # e /\ g # f => repair'.work[g] = repair.work[g]
        /\ repair'.work \in [Book!Pairs -> Nat]
    BY <1>3, <1>4, <2>1
  <2> HIDE DEF netted, mutual, f, x, y
  <2>3. /\ repair'.work[e] = 0 \/ repair'.work[f] = 0
        /\ repair'.work[e] <= repair.base[e] /\ repair'.work[f] <= repair.base[f]
        /\ repair'.work[e] - repair'.work[f] = repair.base[e] - repair.base[f]
        /\ repair'.work[f] - repair'.work[e] = repair.base[f] - repair.base[e]
    BY <1>4, <2>2
  <2>4. ASSUME NEW g \in Book!Pairs
        PROVE  /\ repair'.work[g] <= repair.base[g]
               /\ repair'.work[g] - repair'.work[Book!Flip(g)] = repair.base[g] - repair.base[Book!Flip(g)]
               /\ g \in Rows /\ (g \notin repair'.rest \/ g \in repair'.seen) =>
                    repair'.work[g] = 0 \/ repair'.work[Book!Flip(g)] = 0
    <3>1. CASE g = e
      BY <2>3, <3>1 DEF f
    <3>2. CASE g = f
      BY <1>3, <2>3, <3>2
    <3>3. CASE g # e /\ g # f
      <4>1. Book!Flip(g) \in Book!Pairs /\ Book!Flip(g) # e /\ Book!Flip(g) # f
        BY <1>3, <3>3, BookPair DEF f
      <4>2. repair'.work[g] = repair.work[g] /\ repair'.work[Book!Flip(g)] = repair.work[Book!Flip(g)]
        BY <2>2, <3>3, <4>1
      <4>3. g \notin repair'.rest \/ g \in repair'.seen => g \notin repair.rest \/ g \in repair.seen
        BY <1>2, <3>3
      <4> QED BY <1>1, <4>2, <4>3 DEF BookInv, Repairing
    <3> QED BY <3>1, <3>2, <3>3
  <2>5. repair'.seen \subseteq Rows /\ repair'.rest \subseteq Rows
    BY <1>2 DEF BookInv, Repairing
  <2>6. repair'.lines \in LineTables /\ \A g \in Book!Pairs : repair.base[g] <= scope.debt + edits
    BY <1>1, <1>2 DEF BookInv, Repairing
  <2>7. \A g \in Rows : g \in Book!Pairs
    BY BookPair
  <2>8. Repairing'
    BY <1>1, <1>2, <1>4, <2>2, <2>4, <2>5, <2>6, <2>7 DEF Repairing
  <2> QED BY <1>1, <2>8 DEF BookInv, Repaired, Checkpointing
<1> QED BY <1>5, <1>6

LEMMA CapVisitInv ==
    ASSUME Book!IntegrityAssumption, BookInv, NEW e \in Rows, Book!CapVisit(e)
    PROVE  BookInv'
<1> DEFINE top == Book!LimitOf(repair.lines, e)
           capped == IF repair.work[e] <= top THEN repair.work ELSE [repair.work EXCEPT ![e] = top]
<1>1. /\ repair.kind = "cap" /\ e \in repair.rest
      /\ repair' = [repair EXCEPT !.rest = @ \ {e}, !.work = IF repair.work[e] <= top THEN @ ELSE [@ EXCEPT ![e] = top]]
      /\ UNCHANGED <<owed, lines, recent, job, checkpoints, edits, scope>>
  BY DEF Book!CapVisit
<1>2. /\ repair'.kind = "cap" /\ repair'.base = repair.base /\ repair'.lines = repair.lines
      /\ repair'.rest = repair.rest \ {e} /\ repair'.seen = repair.seen /\ repair'.work = capped
      /\ repair' = [kind |-> repair'.kind, work |-> repair'.work, base |-> repair'.base, lines |-> repair'.lines,
                    rest |-> repair'.rest, seen |-> repair'.seen]
  BY <1>1 DEF BookInv, Repairing
<1>3. e \in Book!Pairs /\ top \in Nat
  BY <1>1, BookPair, LimitOfLine DEF BookInv, Repairing
<1>4. repair.work \in [Book!Pairs -> Nat] /\ \A g \in Book!Pairs : repair.work[g] <= repair.base[g] /\ repair.base[g] \in Nat
  BY <1>1 DEF BookInv, Repairing
<1>5. /\ capped \in [Book!Pairs -> Nat] /\ capped[e] <= top /\ capped[e] <= repair.work[e]
      /\ \A g \in Book!Pairs : g # e => capped[g] = repair.work[g]
  BY <1>3, <1>4
<1> HIDE DEF capped, top
<1>6. \A g \in Book!Pairs : capped[g] <= repair.base[g]
  BY <1>3, <1>4, <1>5
<1>7. \A g \in Rows \ repair'.rest : capped[g] <= Book!LimitOf(repair.lines, g)
  <2> SUFFICES ASSUME NEW g \in Rows, g \notin repair'.rest PROVE capped[g] <= Book!LimitOf(repair.lines, g)
    OBVIOUS
  <2>1. CASE g = e
    BY <1>5, <2>1 DEF top
  <2>2. CASE g # e
    BY <1>1, <1>2, <1>5, <2>2, BookPair DEF BookInv, Repairing
  <2> QED BY <2>1, <2>2
<1>8. Repairing'
  BY <1>1, <1>2, <1>5, <1>6, <1>7 DEF BookInv, Repairing
<1> QED BY <1>1, <1>8 DEF BookInv, Repaired, Checkpointing

LEMMA CommitRepairInv ==
    ASSUME Book!IntegrityAssumption, BookInv, Book!CommitRepair
    PROVE  BookInv' /\ \A e \in Rows : owed'[e] <= owed[e]
<1>1. /\ repair.kind \in {"net", "cap"} /\ repair.rest = {} /\ repair.base = owed /\ repair.lines = lines
      /\ owed' = repair.work /\ recent' = recent \cup {repair.kind} /\ repair' = Book!NoRepair
      /\ UNCHANGED <<lines, job, checkpoints, edits, repairs, scope>>
  BY DEF Book!CommitRepair, BookInv, Repairing
<1>2. /\ owed' \in [Book!Pairs -> Nat] /\ owed \in [Book!Pairs -> Nat] /\ lines \in LineTables /\ edits \in Nat /\ scope \in Scopes
      /\ \A e \in Book!Pairs : owed'[e] <= owed[e] /\ owed'[e] \in Nat /\ owed[e] \in Nat
                               /\ owed'[e] <= scope.debt + edits
      /\ \A e \in Rows : e \in Book!Pairs /\ Book!Flip(e) \in Book!Pairs
      /\ scope.debt \in Nat
  BY <1>1, BookPair DEF BookInv, Repairing, Book!IntegrityAssumption
<1>3. Repairing'
  BY <1>1, <1>2, NoRepairInv DEF Repairing, Book!NoRepair, Book!NoFlow, Book!IntegrityAssumption
<1>4. \A e \in Rows : Book!LimitOf(lines, e) \in Nat
  BY <1>2, LimitOfLine
<1>5. ASSUME "net" \in recent' PROVE Book!DebtSymmetry(owed', Rows)
  <2>1. CASE "net" \in recent
    <3>1. \A e \in Rows : owed[e] = 0 \/ owed[Book!Flip(e)] = 0
      BY <2>1 DEF BookInv, Repaired, Book!DebtSymmetry
    <3> QED BY <1>2, <3>1 DEF Book!DebtSymmetry
  <2>2. CASE repair.kind = "net"
    BY <1>1, <2>2 DEF BookInv, Repairing, Book!DebtSymmetry
  <2> QED BY <1>1, <1>5, <2>1, <2>2
<1>6. ASSUME "cap" \in recent' PROVE Book!WithinLimits(owed', lines)
  <2>1. CASE "cap" \in recent
    <3>1. \A e \in Rows : owed[e] <= Book!LimitOf(lines, e)
      BY <2>1 DEF BookInv, Repaired, Book!WithinLimits
    <3> QED BY <1>2, <1>4, <3>1 DEF Book!WithinLimits
  <2>2. CASE repair.kind = "cap"
    BY <1>1, <2>2 DEF BookInv, Repairing, Book!WithinLimits
  <2> QED BY <1>1, <1>6, <2>1, <2>2
<1>7. Repaired'
  <2>1. recent' \subseteq {"net", "cap"}
    BY <1>1 DEF BookInv, Repaired
  <2> QED BY <1>1, <1>5, <1>6, <2>1 DEF Repaired
<1> QED BY <1>1, <1>2, <1>3, <1>7 DEF BookInv, Checkpointing

LEMMA RepairFailsInv ==
    ASSUME Book!IntegrityAssumption, BookInv, Book!RepairFails
    PROVE  BookInv'
<1>1. repair' = Book!NoRepair /\ UNCHANGED <<owed, lines, recent, job, checkpoints, edits, scope>>
  BY DEF Book!RepairFails
<1>2. Repairing'
  BY <1>1 DEF BookInv, Repairing, Book!NoRepair, Book!NoFlow, Book!IntegrityAssumption
<1> QED BY <1>1, <1>2 DEF BookInv, Repaired, Checkpointing

\* A checkpoint of a snapshot, added to the stored ones.
LEMMA StoringInv ==
    ASSUME Book!IntegrityAssumption, BookInv, NEW s \in Snapshots, NEW o \in Book!LineOrders(s[2]),
           checkpoints' = Append(checkpoints, Book!Checkpoint(s[1], s[2], o)),
           \/ job' = <<>>
           \/ job' = job /\ Len(checkpoints) < scope.checkpoints,
           job = <<>> => Len(checkpoints) < scope.checkpoints,
           UNCHANGED scope
    PROVE  Checkpointing'
<1> DEFINE c == Book!Checkpoint(s[1], s[2], o)
<1>1. c \in Stored
  <2>1. o \in Orders
    <3>1. \A e \in Rows : o[e] \in Seq(Nat)
      <4> SUFFICES ASSUME NEW e \in Rows PROVE o[e] \in Seq(Nat)
        OBVIOUS
      <4>1. o[e] \in Book!Sorted(Book!LinesOf(s[2], e))
        BY DEF Book!LineOrders
      <4> QED BY <4>1, LinesOfPair, SortedLists
    <3>2. o = [e \in Rows |-> o[e]]
      BY DEF Book!LineOrders
    <3> QED BY <3>1, <3>2 DEF Orders
  <2> QED BY <2>1 DEF Stored
<1>2. checkpoints \in Seq(Stored) /\ Len(checkpoints) \in Nat /\ scope.checkpoints \in Nat
  BY DEF BookInv, Checkpointing, Book!IntegrityAssumption
<1> HIDE DEF c
<1>3. /\ checkpoints' \in Seq(Stored) /\ Len(checkpoints') = Len(checkpoints) + 1
      /\ \A i \in DOMAIN checkpoints' :
           IF i = Len(checkpoints) + 1 THEN checkpoints'[i] = c ELSE i \in DOMAIN checkpoints /\ checkpoints'[i] = checkpoints[i]
  BY <1>1, <1>2 DEF c
<1>4. \A i \in DOMAIN checkpoints' : \E t \in Snapshots : \E p \in Book!LineOrders(t[2]) :
        checkpoints'[i] = Book!Checkpoint(t[1], t[2], p)
  <2> SUFFICES ASSUME NEW i \in DOMAIN checkpoints'
               PROVE  \E t \in Snapshots : \E p \in Book!LineOrders(t[2]) :
                        checkpoints'[i] = Book!Checkpoint(t[1], t[2], p)
    OBVIOUS
  <2>1. CASE i = Len(checkpoints) + 1
    BY <1>3, <2>1 DEF c
  <2>2. CASE i # Len(checkpoints) + 1
    BY <1>3, <2>2 DEF BookInv, Checkpointing
  <2> QED BY <2>1, <2>2
<1>5. Len(checkpoints') <= scope.checkpoints + (IF job' = <<>> THEN 1 ELSE 0)
  <2>1. job # <<>> => Len(checkpoints) <= scope.checkpoints
    BY <1>2 DEF BookInv, Checkpointing
  <2> QED BY <1>2, <1>3, <2>1
<1>6. job' \in Snapshots \cup {<<>>}
  BY DEF BookInv, Checkpointing
<1>7. scope' = scope
  OBVIOUS
<1> QED BY <1>3, <1>4, <1>5, <1>6, <1>7 DEF Checkpointing

LEMMA CheckpointInv ==
    ASSUME Book!IntegrityAssumption, BookInv,
           Book!BeginCheckpoint \/ Book!StoreCheckpoint \/ Book!CheckpointFails \/ Book!Verify
    PROVE  BookInv'
<1>1. UNCHANGED <<owed, lines, repair, recent, edits, scope>>
  BY DEF Book!BeginCheckpoint, Book!StoreCheckpoint, Book!CheckpointFails, Book!Verify
<1>2. Repairing' /\ Repaired'
  BY <1>1 DEF BookInv, Repairing, Repaired
<1>3. Checkpointing'
  <2>1. CASE Book!BeginCheckpoint
    <3>1. checkpoints' = checkpoints /\ job' = <<owed, lines>> /\ Len(checkpoints) < scope.checkpoints
      BY <2>1 DEF Book!BeginCheckpoint
    <3>2. job' \in Snapshots
      BY <3>1 DEF BookInv, Snapshots
    <3>3. Len(checkpoints) \in Nat /\ scope.checkpoints \in Nat
      BY DEF BookInv, Checkpointing, Book!IntegrityAssumption
    <3>4. Len(checkpoints') <= scope.checkpoints + (IF job' = <<>> THEN 1 ELSE 0)
      BY <3>1, <3>3
    <3> QED BY <1>1, <3>1, <3>2, <3>4 DEF BookInv, Checkpointing
  <2>2. CASE Book!StoreCheckpoint
    <3>1. PICK o \in Book!LineOrders(job[2]) : checkpoints' = Append(checkpoints, Book!Checkpoint(job[1], job[2], o))
      BY <2>2 DEF Book!StoreCheckpoint
    <3>2. job \in Snapshots /\ job # <<>> /\ job' = <<>>
      BY <2>2 DEF BookInv, Checkpointing, Book!StoreCheckpoint
    <3> QED BY <1>1, <3>1, <3>2, StoringInv
  <2>3. CASE Book!Verify
    <3> DEFINE s == <<owed, lines>>
    <3>1. PICK o \in Book!LineOrders(lines) : checkpoints' = Append(checkpoints, Book!Checkpoint(owed, lines, o))
      BY <2>3 DEF Book!Verify
    <3>2. job' = job /\ Len(checkpoints) < scope.checkpoints
      BY <2>3 DEF Book!Verify
    <3>3. s \in Snapshots /\ s[1] = owed /\ s[2] = lines
      BY DEF BookInv, Snapshots
    <3> HIDE DEF s
    <3> QED BY <1>1, <3>1, <3>2, <3>3, StoringInv
  <2>4. CASE Book!CheckpointFails
    <3>1. job' = <<>> /\ job # <<>> /\ checkpoints' = checkpoints
      BY <2>4 DEF Book!CheckpointFails
    <3>2. Len(checkpoints) \in Nat /\ scope.checkpoints \in Nat
      BY DEF BookInv, Checkpointing, Book!IntegrityAssumption
    <3>3. Len(checkpoints') <= scope.checkpoints + (IF job' = <<>> THEN 1 ELSE 0)
      BY <3>1, <3>2 DEF BookInv, Checkpointing
    <3> QED BY <1>1, <3>1, <3>3 DEF BookInv, Checkpointing
  <2> QED BY <2>1, <2>2, <2>3, <2>4
<1> QED BY <1>1, <1>2, <1>3 DEF BookInv

LEMMA BookNextInv ==
    ASSUME Book!IntegrityAssumption, BookInv, [Book!IntegrityNext]_integrityVars
    PROVE  BookInv'
<1>1. CASE UNCHANGED integrityVars
  BY <1>1 DEF integrityVars, BookInv, Repairing, Repaired, Checkpointing
<1> QED BY <1>1, PayInv, EditLineInv, BeginRepairInv, NetVisitInv, CapVisitInv, CommitRepairInv,
           RepairFailsInv, CheckpointInv
        DEF Book!IntegrityNext

\* Equal rows have equal checksums, and equal checksums mean equal debts, limits
\* and verdicts.
LEMMA CheckpointsAgree ==
    ASSUME Book!IntegrityAssumption, NEW s \in Snapshots, NEW t \in Snapshots,
           NEW o \in Book!LineOrders(s[2]), NEW p \in Book!LineOrders(t[2])
    PROVE  /\ s = t => Book!Checksum(s[1], s[2], o) = Book!Checksum(t[1], t[2], p)
           /\ Book!Checksum(s[1], s[2], o) = Book!Checksum(t[1], t[2], p) =>
                /\ s[1] = t[1] /\ Book!Verdict(s[1], s[2]) = Book!Verdict(t[1], t[2])
                /\ \A e \in Rows : Book!LimitOf(s[2], e) = Book!LimitOf(t[2], e)
<1>1. /\ \A e \in Rows : o[e] \in Book!Sorted(Book!LinesOf(s[2], e)) /\ p[e] \in Book!Sorted(Book!LinesOf(t[2], e))
      /\ o = [e \in Rows |-> o[e]] /\ p = [e \in Rows |-> p[e]]
  BY DEF Book!LineOrders
<1>2. ASSUME s = t PROVE o = p
  <2>1. \A e \in Rows : o[e] = p[e]
    BY <1>1, <1>2, LinesOfPair, SortedListsAgree
  <2> QED BY <1>1, <2>1
<1> DEFINE Shown(ls, l) == [k \in DOMAIN l |-> <<ls[l[k]].limit, ls[l[k]].status>>]
<1>3. ASSUME Book!Checksum(s[1], s[2], o) = Book!Checksum(t[1], t[2], p)
      PROVE  s[1] = t[1] /\ \A e \in Rows : Shown(s[2], o[e]) = Shown(t[2], p[e])
  <2>1. [e \in Rows |-> Shown(s[2], o[e])] = [e \in Rows |-> Shown(t[2], p[e])] /\ s[1] = t[1]
    BY <1>3 DEF Book!Checksum
  <2> HIDE DEF Shown
  <2>2. ASSUME NEW e \in Rows PROVE Shown(s[2], o[e]) = Shown(t[2], p[e])
    <3>1. [g \in Rows |-> Shown(s[2], o[g])][e] = [g \in Rows |-> Shown(t[2], p[g])][e]
      BY <2>1
    <3> QED BY <3>1
  <2> QED BY <2>1, <2>2
\* An active line of one snapshot is shown at a place where the other shows one too.
<1>4. ASSUME NEW ls \in LineTables, NEW ms \in LineTables, NEW e \in Rows,
             NEW l \in Book!Sorted(Book!LinesOf(ls, e)), NEW m \in Book!Sorted(Book!LinesOf(ms, e)),
             Shown(ls, l) = Shown(ms, m),
             NEW i \in LineIds, ls[i].status = "active", ls[i].row = e
      PROVE  Book!LimitOf(ls, e) = Book!LimitOf(ms, e)
  <2>1. i \in Book!LinesOf(ls, e)
    BY <1>4 DEF Book!LinesOf
  <2>2. PICK k \in DOMAIN l : l[k] = i
    BY <2>1, LinesOfPair, SortedLists
  <2>3. DOMAIN l = DOMAIN m /\ ls[l[k]].limit = ms[m[k]].limit /\ ls[l[k]].status = ms[m[k]].status
    <3>1. DOMAIN Shown(ls, l) = DOMAIN l /\ DOMAIN Shown(ms, m) = DOMAIN m
      OBVIOUS
    <3>2. k \in DOMAIN m
      BY <1>4, <3>1
    <3>3. Shown(ls, l)[k] = <<ls[l[k]].limit, ls[l[k]].status>> /\ Shown(ms, m)[k] = <<ms[m[k]].limit, ms[m[k]].status>>
      BY <3>2
    <3> HIDE DEF Shown
    <3> QED BY <1>4, <3>1, <3>3
  <2>4. m[k] \in Book!LinesOf(ms, e)
    <3> DEFINE S == Book!LinesOf(ms, e)
    <3>1. S \in SUBSET Nat /\ IsFiniteSet(S)
      BY LinesOfPair
    <3>2. m \in [1..Cardinality(S) -> S]
      BY <3>1, SortedLists
    <3>3. k \in DOMAIN m
      BY <2>2, <2>3
    <3> QED BY <3>2, <3>3
  <2>5. m[k] \in LineIds /\ ms[m[k]].row = e /\ ms[m[k]].status = "active" /\ ms[m[k]].limit = ls[i].limit
    BY <1>4, <2>2, <2>3, <2>4 DEF Book!LinesOf
  <2>6. Book!LimitOf(ls, e) = ls[i].limit
    BY <1>4, LimitOfLine
  <2>7. Book!LimitOf(ms, e) = ms[m[k]].limit
    BY <2>5, LimitOfLine
  <2> QED BY <2>5, <2>6, <2>7
<1> HIDE DEF Shown
<1>5. ASSUME Book!Checksum(s[1], s[2], o) = Book!Checksum(t[1], t[2], p), NEW e \in Rows
      PROVE  Book!LimitOf(s[2], e) = Book!LimitOf(t[2], e)
  <2>1. s[2] \in LineTables /\ t[2] \in LineTables
    BY DEF Snapshots
  <2>2. Shown(s[2], o[e]) = Shown(t[2], p[e])
    BY <1>3, <1>5
  <2>3. CASE \E i \in LineIds : s[2][i].status = "active" /\ s[2][i].row = e
    BY <1>1, <1>4, <2>1, <2>2, <2>3
  <2>4. CASE \E i \in LineIds : t[2][i].status = "active" /\ t[2][i].row = e
    BY <1>1, <1>4, <2>1, <2>2, <2>4
  <2>5. CASE /\ \A i \in LineIds : ~(s[2][i].status = "active" /\ s[2][i].row = e)
             /\ \A i \in LineIds : ~(t[2][i].status = "active" /\ t[2][i].row = e)
    BY <2>1, <2>5, LimitOfLine
  <2> QED BY <2>3, <2>4, <2>5
<1>6. ASSUME Book!Checksum(s[1], s[2], o) = Book!Checksum(t[1], t[2], p)
      PROVE  Book!Verdict(s[1], s[2]) = Book!Verdict(t[1], t[2])
  <2>1. Book!WithinLimits(s[1], s[2]) <=> Book!WithinLimits(t[1], t[2])
    BY <1>3, <1>5, <1>6 DEF Book!WithinLimits
  <2> QED BY <1>3, <1>6, <2>1 DEF Book!Verdict
<1> QED BY <1>2, <1>3, <1>5, <1>6

BookL == INSTANCE Lemmas WITH Participants <- Parties

\* Rows with the same differences give everybody the same position.
LEMMA SamePositions ==
    ASSUME Book!IntegrityAssumption, NEW m \in [Book!Pairs -> Nat], NEW k \in [Book!Pairs -> Nat],
           \A e \in Book!Pairs : m[e] - m[Book!Flip(e)] = k[e] - k[Book!Flip(e)],
           NEW p \in Parties
    PROVE  Book!NetPosition(m, p) = Book!NetPosition(k, p)
<1>1. \A x : Book!NetPosition(x, p) = BookL!Inflow(x, p)
  BY Zenon DEF Book!NetPosition, Book!Inflow, BookL!Inflow, Book!SumFunction, BookL!SumFunction,
     Book!SumFunctionOnSet, BookL!SumFunctionOnSet, Book!FoldFunctionOnSet, BookL!FoldFunctionOnSet,
     Book!MapThenFoldSet, BookL!MapThenFoldSet
<1>2. BookL!IsFiniteSet(Parties)
  BY Zenon DEF Book!IntegrityAssumption, Book!IsFiniteSet, BookL!IsFiniteSet
<1>3. BookL!Pairs = Book!Pairs /\ \A e : BookL!Flip(e) = Book!Flip(e)
  BY DEF BookL!Pairs, Book!Pairs, BookL!Flip, Book!Flip
<1> DEFINE none == [e \in Book!Pairs |-> 0]
<1>4. none \in [Book!Pairs -> Int] /\ m \in [Book!Pairs -> Int] /\ k \in [Book!Pairs -> Int]
  OBVIOUS
<1>5. \A e \in Book!Pairs :
        /\ none[e] - none[Book!Flip(e)] = 0 /\ m[e] - m[Book!Flip(e)] \in Int
        /\ m[e] - m[Book!Flip(e)] = (k[e] - k[Book!Flip(e)]) + (none[e] - none[Book!Flip(e)])
        /\ k[e] - k[Book!Flip(e)] = (k[e] - k[Book!Flip(e)]) + (none[e] - none[Book!Flip(e)])
  BY <1>4, BookPair
<1> HIDE DEF none
<1>6. BookL!Inflow(m, p) = BookL!Inflow(k, p) + BookL!Inflow(none, p)
  BY <1>2, <1>3, <1>4, <1>5, BookL!InflowAdds
<1>7. BookL!Inflow(k, p) = BookL!Inflow(k, p) + BookL!Inflow(none, p)
  BY <1>2, <1>3, <1>4, <1>5, BookL!InflowAdds
<1> QED BY <1>1, <1>6, <1>7

\* What the invariant says of repairs and checkpoints.
LEMMA BookIsSafe ==
    ASSUME Book!IntegrityAssumption, BookInv
    PROVE  /\ Book!IntegrityTypeOK /\ Book!NettingIsNeutral /\ Book!RepairsHeal
           /\ Book!CheckpointsTell
<1>1. scope.debt \in Nat /\ scope.edits \in Nat /\ scope.checkpoints \in Nat /\ edits \in Nat /\ edits <= scope.edits
  BY DEF BookInv, Book!IntegrityAssumption
<1>2. Book!IntegrityTypeOK
  <2> DEFINE top == scope.debt + scope.edits
  <2>1. \A e \in Book!Pairs : /\ owed[e] \in Nat /\ owed[e] <= top
                              /\ repair.work[e] \in Nat /\ repair.work[e] <= top
                              /\ repair.base[e] \in Nat /\ repair.base[e] <= top
    BY <1>1 DEF BookInv, Repairing
  <2>2. owed \in [Book!Pairs -> 0..top] /\ repair.work \in [Book!Pairs -> 0..top] /\ repair.base \in [Book!Pairs -> 0..top]
    <3>1. top \in Nat
      BY <1>1
    <3> HIDE DEF top
    <3> QED BY <2>1, <3>1 DEF BookInv, Repairing
  <2>3. Len(checkpoints) <= scope.checkpoints + 1
    <3>1. Len(checkpoints) \in Nat
      BY DEF BookInv, Checkpointing
    <3> QED BY <1>1, <3>1 DEF BookInv, Checkpointing
  <2> QED BY <2>2, <2>3 DEF BookInv, Repairing, LineTables, Book!IntegrityTypeOK
<1>3. Book!NettingIsNeutral
  <2> SUFFICES ASSUME repair.kind = "net"
               PROVE  /\ \A p \in Parties : Book!NetPosition(repair.work, p) = Book!NetPosition(repair.base, p)
                      /\ \A e \in Rows : Book!Capacity(repair.work, repair.lines, e)
                                           = Book!Capacity(repair.base, repair.lines, e)
    BY DEF Book!NettingIsNeutral
  <2>1. /\ \A e \in Book!Pairs : repair.work[e] - repair.work[Book!Flip(e)] = repair.base[e] - repair.base[Book!Flip(e)]
        /\ repair.work \in [Book!Pairs -> Nat] /\ repair.base \in [Book!Pairs -> Nat] /\ repair.lines \in LineTables
    BY DEF BookInv, Repairing
  <2>2. ASSUME NEW e \in Rows
        PROVE  Book!Capacity(repair.work, repair.lines, e) = Book!Capacity(repair.base, repair.lines, e)
    <3>1. /\ Book!LimitOf(repair.lines, e) \in Nat
          /\ e \in Book!Pairs /\ Book!Flip(e) \in Book!Pairs
      BY <2>1, LimitOfLine, BookPair
    <3>2. {repair.work[e], repair.work[Book!Flip(e)], repair.base[e], repair.base[Book!Flip(e)]} \subseteq Nat
      BY <2>1, <3>1
    <3> QED BY <2>1, <3>1, <3>2 DEF Book!Capacity
  <2> QED BY <2>1, <2>2, SamePositions
<1>4. Book!RepairsHeal
  BY DEF BookInv, Repaired, Book!RepairsHeal, Book!Verdict
<1>5. Book!CheckpointsTell
  <2> SUFFICES ASSUME NEW i \in DOMAIN checkpoints, NEW j \in DOMAIN checkpoints
               PROVE  LET c == checkpoints[i]  k == checkpoints[j] IN
                      /\ c.of = k.of => c.sum = k.sum
                      /\ c.sum = k.sum =>
                           /\ c.verdict = k.verdict /\ c.of[1] = k.of[1]
                           /\ \A e \in Rows : Book!LimitOf(c.of[2], e) = Book!LimitOf(k.of[2], e)
    BY DEF Book!CheckpointsTell
  <2>1. PICK s \in Snapshots : \E o \in Book!LineOrders(s[2]) : checkpoints[i] = Book!Checkpoint(s[1], s[2], o)
    BY DEF BookInv, Checkpointing
  <2>2. PICK o \in Book!LineOrders(s[2]) : checkpoints[i] = Book!Checkpoint(s[1], s[2], o)
    BY <2>1
  <2>3. PICK t \in Snapshots : \E p \in Book!LineOrders(t[2]) : checkpoints[j] = Book!Checkpoint(t[1], t[2], p)
    BY DEF BookInv, Checkpointing
  <2>4. PICK p \in Book!LineOrders(t[2]) : checkpoints[j] = Book!Checkpoint(t[1], t[2], p)
    BY <2>3
  <2>5. /\ checkpoints[i].sum = Book!Checksum(s[1], s[2], o) /\ checkpoints[j].sum = Book!Checksum(t[1], t[2], p)
        /\ checkpoints[i].verdict = Book!Verdict(s[1], s[2]) /\ checkpoints[j].verdict = Book!Verdict(t[1], t[2])
        /\ checkpoints[i].of = <<s[1], s[2]>> /\ checkpoints[j].of = <<t[1], t[2]>>
    BY <2>2, <2>4 DEF Book!Checkpoint
  <2>6. checkpoints[i].of = checkpoints[j].of => s = t
    BY <2>5 DEF Snapshots
  <2> QED BY <2>5, <2>6, CheckpointsAgree
<1> QED BY <1>2, <1>3, <1>4, <1>5

\* A step that changes a debt while a repair runs, and is no payment, forgives.
LEMMA RepairsForgive ==
    ASSUME Book!IntegrityAssumption, BookInv, [Book!IntegrityNext]_integrityVars
    PROVE  Book!RepairsOnlyForgive
<1> SUFFICES ASSUME owed' # owed, edits' = edits PROVE \A e \in Rows : owed'[e] <= owed[e]
  BY DEF Book!RepairsOnlyForgive
<1>1. edits \in Nat
  BY DEF BookInv, Book!IntegrityAssumption
<1>2. UNCHANGED integrityVars => owed' = owed
  BY DEF integrityVars
<1>3. ASSUME NEW e \in Rows, Book!Pay(e) PROVE FALSE
  BY <1>1, <1>3 DEF Book!Pay
<1>4. \A i, l : Book!EditLine(i, l) => owed' = owed
  BY DEF Book!EditLine
<1>5. \A k, e : Book!BeginRepair(k) \/ Book!NetVisit(e) \/ Book!CapVisit(e) => owed' = owed
  BY DEF Book!BeginRepair, Book!NetVisit, Book!CapVisit
<1>6. Book!RepairFails => owed' = owed
  BY DEF Book!RepairFails
<1>7. Book!BeginCheckpoint \/ Book!StoreCheckpoint \/ Book!CheckpointFails \/ Book!Verify => owed' = owed
  BY DEF Book!BeginCheckpoint, Book!StoreCheckpoint, Book!CheckpointFails, Book!Verify
<1>8. Book!CommitRepair
  BY <1>2, <1>3, <1>4, <1>5, <1>6, <1>7 DEF Book!IntegrityNext
<1> QED BY <1>8, CommitRepairInv

----------------------------------------------------------------------------
(* The parts together. *)

\* What the run checks follows from the invariants.
LEMMA LocksAreSafe ==
    ASSUME Locks!EngineLocksAssumption, LocksInv
    PROVE  Locks!EngineLocksTypeOK /\ Locks!NoWaitCycle
<1>1. Locks!EngineLocksTypeOK
  BY DEF LocksInv, LockTypes, OneHolder, Locks!EngineLocksTypeOK
<1>2. QED
  BY <1>1, NoCircle

LEMMA GraphsAreSafe ==
    ASSUME Graphs!GraphCacheAssumption, GraphsInv
    PROVE  Graphs!GraphCacheTypeOK /\ Graphs!CachedGraphIsTrue
<1>1. Graphs!GraphCacheTypeOK
  BY DEF GraphsInv, RowTypes, CacheTypes, ReadTypes, GraphEntry, LineEntry, ReaderPcs, Graphs!GraphCacheTypeOK
<1>2. Graphs!CachedGraphIsTrue
  BY DEF GraphsInv, ErrorIsDue, Graphs!CachedGraphIsTrue
<1>3. QED
  BY <1>1, <1>2

PartInv ==
    /\ part = "locks" => LocksInv
    /\ part = "graphs" => GraphsInv
    /\ part = "commit" => CommitInv
    /\ part = "integrity" => BookInv

LEMMA PartInit == Init => PartInv
<1>1. Init => (part = "locks" => LocksInv) /\ (part = "graphs" => GraphsInv)
  BY DatabaseAssumption, LocksInitInv, GraphsInitInv DEF Init, DatabaseAssumption
<1>2. Init => (part = "commit" => CommitInv)
  BY DatabaseAssumption, CommitInitInv DEF Init, DatabaseAssumption
<1>3. Init => (part = "integrity" => BookInv)
  BY DatabaseAssumption, BookInitInv DEF Init, DatabaseAssumption
<1>4. QED
  BY <1>1, <1>2, <1>3 DEF PartInv

LEMMA PartNext == PartInv /\ [Next]_vars => PartInv'
<1> SUFFICES ASSUME PartInv, [Next]_vars PROVE PartInv'
  OBVIOUS
<1>1. /\ Locks!EngineLocksAssumption /\ Graphs!GraphCacheAssumption
      /\ Commit!LedgerCheckAssumption /\ Book!IntegrityAssumption
  BY DatabaseAssumption DEF DatabaseAssumption
<1>2. part' = part
  BY DEF Next, vars
<1>3. ASSUME part = "locks" PROVE LocksInv'
  <2>1. Locks!EngineLocksNext \/ UNCHANGED locksVars
    BY <1>3 DEF Next, vars, LocksStep
  <2>2. CASE UNCHANGED locksVars
    BY <1>3, <2>2 DEF PartInv, locksVars, LocksInv, LockTypes, OneHolder
  <2>3. QED
    BY <1>1, <1>3, <2>1, <2>2, LocksNextInv DEF PartInv
<1>4. ASSUME part = "graphs" PROVE GraphsInv'
  <2>1. Graphs!GraphCacheNext \/ UNCHANGED graphsVars
    BY <1>4 DEF Next, vars, GraphsStep
  <2>2. CASE UNCHANGED graphsVars
    BY <1>4, <2>2 DEF PartInv, graphsVars, GraphsInv, RowTypes, CacheTypes, ReadTypes,
                      ErrorIsDue, Fresh, Graphs!TrueCapacity
  <2>3. QED
    BY <1>1, <1>4, <2>1, <2>2, GraphsNextInv DEF PartInv
<1>5. ASSUME part = "commit" PROVE CommitInv'
  <2>1. Commit!LedgerNext \/ UNCHANGED commitVars
    BY <1>5 DEF Next, vars, CommitStep
  <2>2. QED
    BY <1>1, <1>5, <2>1, CommitNextInv DEF PartInv
<1>6. ASSUME part = "integrity" PROVE BookInv'
  <2>1. [Book!IntegrityNext]_integrityVars
    BY <1>6 DEF Next, vars, IntegrityStep
  <2>2. QED
    BY <1>1, <1>6, <2>1, BookNextInv DEF PartInv
<1>7. QED
  BY <1>2, <1>3, <1>4, <1>5, <1>6 DEF PartInv

\* Units of work of the engine that prepare, commit, abort, batch and clear never
\* wait for each other in a circle, and a lock has one holder, for any number of
\* sessions, payments and equivalents (engine.py).
THEOREM LocksNeverCircle == Spec => []NoWaitCycle
<1>1. PartInv => NoWaitCycle
  BY DatabaseAssumption, LocksAreSafe DEF PartInv, NoWaitCycle, DatabaseAssumption
<1>2. QED
  BY <1>1, PartInit, PartNext, PTL DEF Spec

\* Once the invalidations that are due are done, a cached graph that no change
\* overtook and of which no answer was lost promises what its line has, less at
\* most the reservations released since, for any number of readers, changes,
\* limits and times to live (router.py, build_graph and invalidate_cache).
THEOREM GraphsStayHonest == Spec => []GraphsAreHonest
<1>1. PartInv => GraphsAreHonest
  BY DatabaseAssumption, GraphsAreSafe DEF PartInv, GraphsAreHonest, DatabaseAssumption
<1>2. QED
  BY <1>1, PartInit, PartNext, PTL DEF Spec

\* Whatever the order in which commit applies the flows of a payment and however
\* its routes split them, the debts end in ApplyFlows, and at every point of the
\* loop everybody has gained what has been applied so far, for any finite number
\* of participants and any amounts (engine.py, commit and check_payment_delta).
THEOREM CommitsAreExact == Spec => []CommitLoopIsExact
<1>1. PartInv => CommitLoopIsExact
  BY DatabaseAssumption, CommitIsExact DEF PartInv, CommitLoopIsExact, DatabaseAssumption
<1>2. QED
  BY <1>1, PartInit, PartNext, PTL DEF Spec

\* Two checkpoints of equal rows have equal checksums, and equal checksums mean
\* equal debts, limits and verdicts, for any number of lines, debts and
\* checkpoints, whatever was paid, edited or repaired between them
\* (integrity.py, compute_integrity_checkpoint_for_equivalent).
THEOREM CheckpointsKeepTelling == Spec => []CheckpointsTell
<1>1. PartInv => CheckpointsTell
  BY DatabaseAssumption, BookIsSafe DEF PartInv, CheckpointsTell, DatabaseAssumption
<1>2. QED
  BY <1>1, PartInit, PartNext, PTL DEF Spec

\* Netting moves nobody's position and no capacity, both repairs together leave
\* a healthy equivalent, and no repair raises a debt or undoes a payment that was
\* committed while it ran, for any number of participants, lines and repairs
\* (integrity.py).
THEOREM RepairsKeepHealing == Spec => RepairsHeal
<1>1. PartInv => (part = "integrity" => Book!IntegrityTypeOK /\ Book!NettingIsNeutral /\ Book!RepairsHeal)
  BY DatabaseAssumption, BookIsSafe DEF PartInv, DatabaseAssumption
<1>2. PartInv /\ [Next]_vars => [part = "integrity" => Book!RepairsOnlyForgive]_vars
  <2> SUFFICES ASSUME PartInv, [Next]_vars, part = "integrity"
               PROVE  Book!RepairsOnlyForgive
    OBVIOUS
  <2>1. [Book!IntegrityNext]_integrityVars
    BY DEF Next, vars, IntegrityStep
  <2>2. QED
    BY <2>1, DatabaseAssumption, RepairsForgive DEF PartInv, DatabaseAssumption
<1>3. QED
  BY <1>1, <1>2, PartInit, PartNext, PTL DEF Spec, RepairsHeal
=============================================================================
