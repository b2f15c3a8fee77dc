-------------------------- MODULE SimulatorProofs --------------------------
(***************************************************************************)
(* Proofs about the parts of a simulator run, for every value of the       *)
(* constants of Simulator.                                                 *)
(***************************************************************************)
EXTENDS Simulator, Lemmas, SequenceTheorems

----------------------------------------------------------------------------
(* What a tick announces. *)

Items == [pay : Ticks!Pays, as : PaymentEnds]
ItemOf(s) == [pay |-> <<tick, s>>, as |-> result[s]]

\* The announcements of the payments of S, up to each number.
TellStep(h, S, s) ==
    IF s = 0 THEN <<>>
    ELSE IF s \in S THEN Append(h[s - 1], ItemOf(s)) ELSE h[s - 1]
Telling(S) == CHOOSE h : h = [s \in 0..Planned |-> TellStep(h, S, s)]

LEMMA TellIsTelling ==
    ASSUME NEW S
    PROVE  Ticks!Tell(S) <=> told' = told \o Telling(S)[Planned]
BY Zenon DEF Ticks!Tell, Ticks!Pay, Telling, TellStep, ItemOf

\* A list of announcements of this tick: the payments of S up to number n, in order.
Lists(q, S, n) ==
    /\ q \in Seq(Items)
    /\ \A i \in DOMAIN q : \E s \in S : s <= n /\ q[i] = ItemOf(s)
    /\ \A s \in S : s <= n => \E i \in DOMAIN q : q[i] = ItemOf(s)
    /\ \A i, j \in DOMAIN q : i < j => q[i].pay[2] < q[j].pay[2]

\* One announcement more.
LEMMA ListsGrow ==
    ASSUME NEW S \in SUBSET Ticks!Seqs, NEW n \in Ticks!Seqs, NEW q, Lists(q, S, n - 1),
           Planned \in Nat, ItemOf(n) \in Items
    PROVE  IF n \in S THEN Lists(Append(q, ItemOf(n)), S, n) ELSE Lists(q, S, n)
<1>1. Ticks!Seqs \subseteq Nat /\ S \subseteq Nat /\ n \in Nat
  BY DEF Ticks!Seqs
<1>2. CASE n \notin S
  BY <1>1, <1>2 DEF Lists
<1>3. CASE n \in S
  <2> DEFINE r == Append(q, ItemOf(n))
  <2>1. /\ r \in Seq(Items) /\ DOMAIN r = 1..(Len(q) + 1) /\ DOMAIN q = 1..Len(q) /\ Len(q) \in Nat
        /\ \A i \in DOMAIN q : r[i] = q[i]
        /\ r[Len(q) + 1] = ItemOf(n)
    BY DEF Lists
  <2> HIDE DEF r
  <2>2. \A i \in DOMAIN r : \E s \in S : s <= n /\ r[i] = ItemOf(s)
    BY <1>1, <1>3, <2>1 DEF Lists
  <2>3. \A s \in S : s <= n => \E i \in DOMAIN r : r[i] = ItemOf(s)
    <3>1. \A s \in S : s <= n => s = n \/ s <= n - 1
      BY <1>1
    <3>2. DOMAIN q \subseteq DOMAIN r /\ Len(q) + 1 \in DOMAIN r
      BY <2>1
    <3> QED BY <2>1, <3>1, <3>2 DEF Lists
  <2>4. \A s : ItemOf(s).pay[2] = s
    BY DEF ItemOf
  <2>5. \A i \in DOMAIN q : q[i].pay[2] < n
    BY <1>1, <2>4 DEF Lists
  <2>6. \A i, j \in DOMAIN r : i < j => r[i].pay[2] < r[j].pay[2]
    <3> SUFFICES ASSUME NEW i \in DOMAIN r, NEW j \in DOMAIN r, i < j
                 PROVE  r[i].pay[2] < r[j].pay[2]
      OBVIOUS
    <3>1. i \in DOMAIN q
      BY <2>1
    <3>2. CASE j \in DOMAIN q
      BY <2>1, <3>1, <3>2 DEF Lists
    <3>3. CASE j = Len(q) + 1
      BY <2>1, <2>4, <2>5, <3>1, <3>3
    <3> QED BY <2>1, <3>2, <3>3
  <2> QED BY <1>3, <2>1, <2>2, <2>3, <2>6 DEF Lists, r
<1> QED BY <1>2, <1>3

\* The announcements exist and are what they should be: number by number.
LEMMA TellingLists ==
    ASSUME Planned \in Nat, NEW S \in SUBSET Ticks!Seqs,
           \A s \in Ticks!Seqs : ItemOf(s) \in Items
    PROVE  Lists(Telling(S)[Planned], S, Planned)
<1> DEFINE Good(n) == \E h : h = [s \in 0..n |-> TellStep(h, S, s)] /\ \A s \in 0..n : Lists(h[s], S, s)
           Bad == {n \in 0..Planned : ~Good(n)}
<1>1. Good(0)
  <2> DEFINE h == [s \in 0..0 |-> <<>>]
  <2>1. h = [s \in 0..0 |-> TellStep(h, S, s)]
    BY DEF TellStep
  <2>2. \A s \in 0..0 : Lists(h[s], S, s)
    BY DEF Lists, Ticks!Seqs
  <2> HIDE DEF h
  <2> QED BY <2>1, <2>2
<1>2. ASSUME NEW n \in Ticks!Seqs, Good(n - 1) PROVE Good(n)
  <2>0. n \in Nat /\ n >= 1 /\ n - 1 \in Nat
    BY DEF Ticks!Seqs
  <2>1. PICK h : h = [s \in 0..(n - 1) |-> TellStep(h, S, s)] /\ \A s \in 0..(n - 1) : Lists(h[s], S, s)
    BY <1>2
  <2> DEFINE k == [s \in 0..n |-> TellStep(h, S, s)]
  <2>2. \A s \in 0..(n - 1) : k[s] = h[s]
    BY <2>0, <2>1
  <2>3. \A s \in 0..n : TellStep(h, S, s) = TellStep(k, S, s)
    <3> SUFFICES ASSUME NEW s \in 0..n PROVE TellStep(h, S, s) = TellStep(k, S, s)
      OBVIOUS
    <3>1. CASE s = 0
      BY <3>1 DEF TellStep
    <3>2. CASE s # 0
      <4>1. k[s - 1] = h[s - 1]
        BY <2>0, <2>2, <3>2
      <4> HIDE DEF k
      <4> QED BY <3>2, <4>1 DEF TellStep
    <3> QED BY <3>1, <3>2
  <2>4. k = [s \in 0..n |-> TellStep(k, S, s)]
    BY <2>3
  <2>5. Lists(k[n], S, n)
    <3>1. Lists(h[n - 1], S, n - 1)
      BY <2>0, <2>1
    <3>2. IF n \in S THEN Lists(Append(h[n - 1], ItemOf(n)), S, n) ELSE Lists(h[n - 1], S, n)
      BY <3>1, ListsGrow
    <3>3. k[n] = IF n \in S THEN Append(h[n - 1], ItemOf(n)) ELSE h[n - 1]
      BY <2>0 DEF TellStep
    <3> HIDE DEF k
    <3> QED BY <3>2, <3>3
  <2>6. \A s \in 0..n : s = n \/ s \in 0..(n - 1)
    BY <2>0
  <2> HIDE DEF k
  <2>7. \A s \in 0..n : Lists(k[s], S, s)
    BY <2>1, <2>2, <2>5, <2>6
  <2> QED BY <2>4, <2>7
<1>3. Good(Planned)
  <2>1. SUFFICES ASSUME Bad # {} PROVE FALSE
    OBVIOUS
  <2> HIDE DEF Good
  <2>2. Bad \in SUBSET Nat
    OBVIOUS
  <2>3. PICK n \in Bad : \A m \in Bad : n <= m
    BY <2>1, <2>2, LeastNumber
  <2>4. n \in Ticks!Seqs /\ n - 1 \in 0..Planned /\ n - 1 \notin Bad
    BY <1>1, <2>2, <2>3 DEF Ticks!Seqs
  <2> QED BY <1>2, <2>4
<1>4. PICK h : h = [s \in 0..Planned |-> TellStep(h, S, s)] /\ \A s \in 0..Planned : Lists(h[s], S, s)
  BY <1>3
<1>5. Telling(S) = [s \in 0..Planned |-> TellStep(Telling(S), S, s)]
  BY <1>4 DEF Telling
<1>6. \A s \in 0..Planned : Telling(S)[s] = h[s]
  <2> DEFINE g == Telling(S)
             Apart == {s \in 0..Planned : g[s] # h[s]}
  <2>1. SUFFICES ASSUME Apart # {} PROVE FALSE
    OBVIOUS
  <2>2. PICK n \in Apart : \A m \in Apart : n <= m
    <3>1. Apart \in SUBSET Nat
      OBVIOUS
    <3> HIDE DEF Apart
    <3> QED BY <2>1, <3>1, LeastNumber
  <2>3. g[n] = TellStep(g, S, n) /\ h[n] = TellStep(h, S, n)
    <3>1. n \in 0..Planned
      OBVIOUS
    <3>2. g = [s \in 0..Planned |-> TellStep(g, S, s)]
      BY <1>5
    <3> HIDE DEF g
    <3> QED BY <1>4, <3>1, <3>2, Zenon
  <2>4. CASE n = 0
    BY <2>2, <2>3, <2>4 DEF TellStep
  <2>5. CASE n # 0
    <3>1. n - 1 \in 0..Planned /\ n - 1 \notin Apart
      BY <2>2, <2>5
    <3>2. g[n - 1] = h[n - 1]
      BY <3>1
    <3> HIDE DEF g
    <3> QED BY <2>2, <2>3, <2>5, <3>2 DEF TellStep
  <2> QED BY <2>4, <2>5
<1> QED BY <1>4, <1>6
----------------------------------------------------------------------------
(* The tick. *)

\* The payments of this tick that are in the database.
Mine == {p \in durable : p[1] = tick}

\* The unit of work of the payments is open and nothing is decided about it.
Undecided == {"paid", "unwind", "decay", "tail"} \cup Ticks!Commits

Metrics ==
    [payload : 0..MaxTicks, flushed : 0..MaxTicks,
     rows : SUBSET (1..MaxTicks), staged : SUBSET (1..MaxTicks)]

TickTypes ==
    /\ Ticks!TickTypeOK /\ told \in Seq(Items)
    /\ pc \notin {"sleep", "ended"} => tick >= 1

\* How far the payments of the tick have come.
PhaseFits ==
    /\ phase => collected = Ticks!Seqs
    /\ \A s \in collected : result[s] # "none"
    /\ pc \in {"open", "plan"} => result = [s \in Ticks!Seqs |-> "none"]
    /\ pc \in {"open", "plan", "pay"} => ~phase
    /\ pc \in Undecided \cup Ticks!Undos \cup {"clearing", "audit"} => phase
    /\ ~phase => verdict = "none"
    /\ verdict = "none" /\ phase => pc \in Undecided \cup Ticks!Undos \cup {"ended"}
    /\ verdict \in {"rollback", "unknown"} => pc \in {"abort", "sleep", "ended"}
    /\ pc = "unwind" => verdict = "none"

\* What the open unit of work holds.
StagedFits ==
    /\ staged \subseteq Ticks!Accepted
    /\ pc \in {"sleep", "ended", "open", "plan", "clearing", "audit"} => staged = {}
    /\ verdict # "none" => staged = {}
    /\ pc = "pay" => staged = Ticks!Accepted
    /\ verdict = "none" /\ pc \in Undecided => staged = Ticks!Accepted

\* A commit that was not answered took effect for the whole tick, or for none of it.
InDoubt == Mine = Ticks!Accepted /\ tick \in doubt

\* What of the tick is in the database, given what is said about it.
DurableFits ==
    /\ verdict = "none" /\ pc \notin Ticks!Undos => Mine = {}
    /\ verdict = "none" /\ pc \in Ticks!Undos =>
         \/ staged = Ticks!Accepted /\ Mine = {} /\ commitErr # "lost"
         \/ staged = {} /\ InDoubt /\ commitErr \in {"lost", "cancelled"}
    /\ verdict = "commit" => Mine = Ticks!Accepted
    /\ verdict = "rollback" => Mine = {} \/ (InDoubt /\ commitErr = "lost")
    /\ verdict = "unknown" => Mine = {} \/ InDoubt

\* What was announced, over all ticks so far.
ToldFits ==
    /\ \A p \in durable : p[1] <= tick
    /\ \A i \in DOMAIN told : told[i].pay[1] <= tick
    /\ verdict = "none" => \A i \in DOMAIN told : told[i].pay[1] < tick
    /\ Ticks!AnnouncedIsDurable /\ Ticks!DurableIsAnnounced /\ Ticks!ToldOnceInOrder

\* The inductive invariant of the tick.
TicksInv ==
    TickTypes /\ PhaseFits /\ StagedFits /\ DurableFits /\ ToldFits /\ Ticks!ClearedIsTold

LEMMA TicksInitInv ==
    ASSUME Ticks!TickAssumption, Ticks!TickInit
    PROVE  TicksInv
<1> USE DEF Ticks!TickInit
<1>1. Planned \in Nat /\ MaxTicks \in Nat
  BY DEF Ticks!TickAssumption
<1>2. Mine = {} /\ Ticks!Accepted = {} /\ Ticks!Paid = {}
  BY DEF Mine, Ticks!Accepted, Ticks!Paid
<1>3. TickTypes
  <2>1. metrics \in [payload : 0..MaxTicks, flushed : 0..MaxTicks,
                     rows : SUBSET (1..MaxTicks), staged : SUBSET (1..MaxTicks)]
    BY <1>1
  <2>2. result \in [Ticks!Seqs -> PaymentEnds \cup {"none"}]
    OBVIOUS
  <2>3. {errors, failures, inRow, cycles, owed, decays, faults} \subseteq Nat
    OBVIOUS
  <2>4. told \in Seq(Items) /\ collected \subseteq Ticks!Seqs /\ staged \subseteq Ticks!Pays
        /\ durable \subseteq Ticks!Pays /\ doubt \subseteq 1..MaxTicks
    OBVIOUS
  <2>5. phase \in BOOLEAN /\ stopReq \in BOOLEAN
    OBVIOUS
  <2>6. /\ tick \in 0..MaxTicks /\ runState \in {"running", "paused", "stopped", "error"}
        /\ pc \in Ticks!Open \cup Ticks!Commits \cup Ticks!Undos \cup {"sleep", "paid", "unwind", "abort", "ended"}
        /\ cancels \in 0..2 /\ verdict \in {"none", "commit", "rollback", "unknown"}
        /\ commitErr \in {"none", "error", "cancelled", "lost"}
    BY <1>1
  <2>7. Ticks!TickTypeOK
    BY <2>1, <2>2, <2>3, <2>4, <2>5, <2>6, Zenon DEF Ticks!TickTypeOK
  <2> QED BY <2>4, <2>7 DEF TickTypes
<1>4. PhaseFits /\ StagedFits /\ DurableFits
  BY <1>2 DEF PhaseFits, StagedFits, DurableFits, Undecided, Ticks!Commits, Ticks!Undos
<1>5. ToldFits /\ Ticks!ClearedIsTold
  BY <1>2 DEF ToldFits, Ticks!AnnouncedIsDurable, Ticks!DurableIsAnnounced, Ticks!ToldOnceInOrder,
              Ticks!ClearedIsTold
<1> QED BY <1>3, <1>4, <1>5 DEF TicksInv

\* The states of the tick, one by one.
Labels ==
    Undecided \cup Ticks!Undos \cup {"open", "plan", "pay", "clearing", "audit", "sleep", "abort", "ended"}

\* How the tick goes on where nothing is decided about its payments.
GoesOn(from, to) ==
    \/ from = to
    \/ from = "sleep" /\ to = "ended"
    \/ from = "open" /\ to \in {"plan", "abort"}
    \/ from = "plan" /\ to \in {"pay", "abort"}
    \/ from = "pay" /\ to = "abort"
    \/ from = "paid" /\ to \in {"commitClearing", "decay"}
    \/ from = "clearing" /\ to = "decay"
    \/ from = "decay" /\ to \in {"commitDecay", "tail"}
    \/ from = "tail" /\ to = "commitTail"
    \/ from = "audit" /\ to = "sleep"

Counts == /\ errors \in Nat /\ failures \in Nat /\ inRow \in Nat
          /\ cycles \in Nat /\ owed \in Nat /\ decays \in Nat /\ faults \in Nat

LEMMA CountsAreNumbers ==
    TicksInv => /\ Counts /\ cancels \in 0..2 /\ tick \in Nat /\ tick <= MaxTicks
                /\ metrics \in Metrics /\ pc \in Labels
BY DEF TicksInv, TickTypes, Ticks!TickTypeOK, Counts, Metrics, Labels, Undecided, Ticks!Commits, Ticks!Undos, Ticks!Open

\* The types of what most steps change.
MovesTypes ==
    /\ Counts' /\ cancels' \in 0..2 /\ metrics' \in Metrics
    /\ runState' \in {"running", "paused", "stopped", "error"}
    /\ pc' \in Labels

LEMMA TypesKept ==
    ASSUME TicksInv, MovesTypes, tick' = tick, result' \in [Ticks!Seqs -> PaymentEnds \cup {"none"}],
           collected' \subseteq Ticks!Seqs, phase' \in BOOLEAN, stopReq' \in BOOLEAN,
           verdict' \in {"none", "commit", "rollback", "unknown"},
           commitErr' \in {"none", "error", "cancelled", "lost"},
           staged' \subseteq Ticks!Pays, durable' \subseteq Ticks!Pays, doubt' \subseteq 1..MaxTicks,
           told' \in Seq(Items), pc' \notin {"sleep", "ended"} => pc \notin {"sleep", "ended"}
    PROVE  TickTypes'
<1>1. {errors, failures, inRow, cycles, owed, decays, faults}' \subseteq Nat
  BY DEF MovesTypes, Counts
<1>2. pc' \in Ticks!Open \cup Ticks!Commits \cup Ticks!Undos \cup {"sleep", "paid", "unwind", "abort", "ended"}
  BY DEF MovesTypes, Labels, Undecided, Ticks!Open
<1>3. tick' \in 0..MaxTicks
  BY DEF TicksInv, TickTypes, Ticks!TickTypeOK
<1>4. Ticks!TickTypeOK'
  BY <1>1, <1>2, <1>3, Zenon DEF Ticks!TickTypeOK, MovesTypes, Metrics
<1>5. pc' \notin {"sleep", "ended"} => tick' >= 1
  BY DEF TicksInv, TickTypes
<1> QED BY <1>4, <1>5 DEF TickTypes

\* Steps that neither execute nor decide about payments.
LEMMA QuietInv ==
    ASSUME TicksInv, MovesTypes, pc' # "clearing" => owed' = 0, UNCHANGED stopReq,
           UNCHANGED <<tick, result, collected, phase, verdict, durable, told, doubt, commitErr>>,
           \/ GoesOn(pc, pc') /\ staged' = staged
           \/ pc \in Ticks!Open /\ pc' = "ended" /\ staged' = {}
    PROVE  TicksInv'
<1>1. Ticks!Accepted' = Ticks!Accepted /\ Mine' = Mine /\ Ticks!Paid' = Ticks!Paid
  BY DEF Ticks!Accepted, Mine, Ticks!Paid, Ticks!Pay
<1>0. TickTypes' /\ Ticks!ClearedIsTold'
  <2>1. pc' \notin {"sleep", "ended"} => pc \notin {"sleep", "ended"}
    BY DEF GoesOn
  <2>2. TickTypes /\ Ticks!TickTypeOK
    BY DEF TicksInv, TickTypes
  <2>3. staged' \subseteq Ticks!Pays /\ phase' \in BOOLEAN /\ stopReq' \in BOOLEAN
    BY <2>2 DEF Ticks!TickTypeOK
  <2>4. TickTypes'
    BY <2>1, <2>2, <2>3, TypesKept DEF Ticks!TickTypeOK, TickTypes
  <2> QED BY <2>4 DEF Ticks!ClearedIsTold
<1>2. ToldFits'
  BY <1>1 DEF TicksInv, ToldFits, Ticks!AnnouncedIsDurable, Ticks!DurableIsAnnounced, Ticks!ToldOnceInOrder
<1>3. PhaseFits'
  BY DEF TicksInv, PhaseFits, GoesOn, Undecided, Ticks!Commits, Ticks!Undos, Ticks!Open
<1>4. StagedFits'
  <2>1. pc \in {"open", "plan"} => Ticks!Accepted = {}
    BY DEF TicksInv, PhaseFits, Ticks!Accepted
  <2> QED BY <1>1, <2>1 DEF TicksInv, PhaseFits, StagedFits, GoesOn, Undecided, Ticks!Commits, Ticks!Undos, Ticks!Open
<1>5. DurableFits'
  <2>1. InDoubt' <=> InDoubt
    BY <1>1 DEF InDoubt
  <2>2. CASE pc' \in Ticks!Undos
    <3>1. pc' = pc /\ staged' = staged
      BY <2>2 DEF GoesOn, Ticks!Undos
    <3> QED BY <1>1, <2>1, <3>1 DEF TicksInv, DurableFits
  <2>3. CASE pc' \notin Ticks!Undos
    <3>1. pc \notin Ticks!Undos
      BY <2>3 DEF GoesOn, Ticks!Undos, Ticks!Open
    <3> QED BY <1>1, <2>1, <2>3, <3>1 DEF TicksInv, DurableFits
  <2> QED BY <2>2, <2>3
<1> QED BY <1>0, <1>2, <1>3, <1>4, <1>5 DEF TicksInv

\* What a flush of the metrics and a failure of the run leave.
LEMMA FailTypes ==
    ASSUME TicksInv
    PROVE  /\ \A m \in Metrics : Ticks!Flush(m) \subseteq Metrics
           /\ Ticks!FailRun => /\ metrics' \in Metrics
                               /\ runState' \in {"running", "paused", "stopped", "error"}
           /\ Ticks!FailErrors \in Nat
<1>1. \A m \in Metrics : Ticks!Flush(m) \subseteq Metrics
  <2> SUFFICES ASSUME NEW m \in Metrics PROVE Ticks!Flush(m) \subseteq Metrics
    OBVIOUS
  <2>1. CASE m.payload = 0 \/ m.flushed >= m.payload
    BY <2>1 DEF Ticks!Flush
  <2>2. CASE ~(m.payload = 0 \/ m.flushed >= m.payload)
    <3>1. m.payload \in 1..MaxTicks
      BY <2>2 DEF Metrics
    <3>2. [m EXCEPT !.flushed = m.payload, !.rows = @ \cup {m.payload}] \in Metrics
      BY <3>1 DEF Metrics
    <3> QED BY <2>2, <3>2 DEF Ticks!Flush
  <2> QED BY <2>1, <2>2
<1>2. metrics \in Metrics /\ runState \in {"running", "paused", "stopped", "error"}
  BY DEF TicksInv, TickTypes, Ticks!TickTypeOK, Metrics
<1>3. Ticks!FailRun => metrics' \in Metrics
  BY <1>1, <1>2 DEF Ticks!FailRun
<1> QED BY <1>1, <1>2, <1>3 DEF Ticks!FailRun, Ticks!FailErrors

\* The steps of the heartbeat around the payments.
LEMMA HeartbeatInv ==
    ASSUME Ticks!TickAssumption, TicksInv,
           \/ Ticks!HeartbeatEnds \/ Ticks!StopRun \/ Ticks!PauseRun \/ Ticks!FlushAfterStop
           \/ Ticks!Interrupted \/ Ticks!Raises \/ Ticks!Prepare \/ Ticks!Plan
    PROVE  TicksInv'
<1> USE CountsAreNumbers
<1>1. /\ runState \in {"running", "paused", "stopped", "error"}
      /\ pc # "clearing" => owed = 0
  BY DEF TicksInv, TickTypes, Ticks!TickTypeOK, Ticks!ClearedIsTold
<1> USE <1>1 DEF Ticks!payVars, Ticks!outcomes, Ticks!phaseVars, Ticks!dbVars, Ticks!countVars, Ticks!clearVars
<1>2. CASE Ticks!HeartbeatEnds \/ Ticks!StopRun \/ Ticks!PauseRun
  <2>1. MovesTypes
    BY <1>2 DEF Ticks!HeartbeatEnds, Ticks!StopRun, Ticks!PauseRun, MovesTypes, Counts, Labels
  <2>2. GoesOn(pc, pc')
    BY <1>2 DEF Ticks!HeartbeatEnds, Ticks!StopRun, Ticks!PauseRun, GoesOn
  <2> QED BY <1>2, <2>1, <2>2, QuietInv DEF Ticks!HeartbeatEnds, Ticks!StopRun, Ticks!PauseRun
<1>3. CASE Ticks!FlushAfterStop
  <2>1. MovesTypes
    BY <1>3, FailTypes DEF Ticks!FlushAfterStop, MovesTypes, Counts
  <2> QED BY <1>3, <2>1, QuietInv DEF Ticks!FlushAfterStop, GoesOn
<1>4. CASE Ticks!Interrupted
  <2>1. [metrics EXCEPT !.staged = {}] \in Metrics
    BY DEF Metrics
  <2>2. MovesTypes
    BY <1>4, <2>1 DEF Ticks!Interrupted, Ticks!TellCleared, MovesTypes, Counts, Labels
  <2> QED BY <1>4, <2>2, QuietInv DEF Ticks!Interrupted, Ticks!TellCleared
<1>5. CASE Ticks!Raises \/ Ticks!Prepare \/ Ticks!Plan
  <2>1. MovesTypes
    BY <1>5 DEF Ticks!Raises, Ticks!Prepare, Ticks!Plan, Ticks!Fault, MovesTypes, Counts, Labels
  <2>2. GoesOn(pc, pc') /\ pc' # "clearing" /\ pc # "clearing"
    BY <1>5 DEF Ticks!Raises, Ticks!Prepare, Ticks!Plan, GoesOn
  <2> QED BY <1>5, <2>1, <2>2, QuietInv DEF Ticks!Raises, Ticks!Prepare, Ticks!Plan
<1> QED BY <1>2, <1>3, <1>4, <1>5

LEMMA MetricsMove ==
    ASSUME NEW m \in Metrics, NEW t \in 1..MaxTicks, MaxTicks \in Nat
    PROVE  /\ [m EXCEPT !.payload = t, !.staged = @ \cup {t}, !.flushed = t] \in Metrics
           /\ [m EXCEPT !.payload = t, !.staged = @, !.flushed = @] \in Metrics
           /\ [m EXCEPT !.staged = {}] \in Metrics
           /\ [m EXCEPT !.rows = @ \cup m.staged, !.staged = {}] \in Metrics
<1>1. t \in 0..MaxTicks
  OBVIOUS
<1> QED BY <1>1 DEF Metrics

\* Clearing, decay, tail and audit.
LEMMA AfterPaymentsInv ==
    ASSUME Ticks!TickAssumption, TicksInv,
           \/ Ticks!MaybeClear \/ Ticks!ClearCycle \/ Ticks!ClearingFails \/ Ticks!ClearingEnds
           \/ (\E any \in BOOLEAN : Ticks!Decay(any))
           \/ (\E wrote \in BOOLEAN : Ticks!Persist(wrote)) \/ Ticks!Audit
    PROVE  TicksInv'
<1> USE CountsAreNumbers
<1>1. /\ runState \in {"running", "paused", "stopped", "error"}
      /\ pc # "clearing" => owed = 0
  BY DEF TicksInv, TickTypes, Ticks!TickTypeOK, Ticks!ClearedIsTold
<1> USE <1>1 DEF Ticks!payVars, Ticks!outcomes, Ticks!phaseVars, Ticks!dbVars, Ticks!countVars, Ticks!clearVars
<1>2. CASE Ticks!MaybeClear \/ Ticks!Audit
  <2>1. MovesTypes
    BY <1>2 DEF Ticks!MaybeClear, Ticks!Audit, MovesTypes, Counts, Labels, Undecided, Ticks!Commits
  <2>2. GoesOn(pc, pc') /\ pc' # "clearing" /\ pc # "clearing"
    BY <1>2 DEF Ticks!MaybeClear, Ticks!Audit, GoesOn
  <2> QED BY <1>2, <2>1, <2>2, QuietInv DEF Ticks!MaybeClear, Ticks!Audit
<1>3. CASE Ticks!ClearCycle \/ Ticks!ClearingFails \/ Ticks!ClearingEnds
  <2>1. MovesTypes
    BY <1>3 DEF Ticks!ClearCycle, Ticks!ClearingFails, Ticks!ClearingEnds, Ticks!MayClear, Ticks!TellCleared,
                Ticks!Fault, MovesTypes, Counts, Labels, Undecided
  <2>2. GoesOn(pc, pc') /\ (pc' # "clearing" => owed' = 0)
    BY <1>3 DEF Ticks!ClearCycle, Ticks!ClearingFails, Ticks!ClearingEnds, Ticks!MayClear, Ticks!TellCleared, GoesOn
  <2> QED BY <1>3, <2>1, <2>2, QuietInv DEF Ticks!ClearCycle, Ticks!ClearingFails, Ticks!ClearingEnds
<1>4. ASSUME NEW any \in BOOLEAN, Ticks!Decay(any) PROVE TicksInv'
  <2>0. /\ pc = "decay" /\ pc' \in {"commitDecay", "tail"} /\ decays' \in {decays, decays + 1}
        /\ UNCHANGED <<tick, runState, cancels, result, verdict, collected, phase, stopReq, staged, durable,
                       commitErr, doubt, told, errors, failures, inRow, cycles, owed, metrics, faults>>
    BY <1>4, Zenon DEF Ticks!Decay
  <2>1. MovesTypes
    BY <2>0 DEF MovesTypes, Counts, Labels, Undecided, Ticks!Commits
  <2>2. GoesOn(pc, pc') /\ pc' # "clearing" /\ pc # "clearing"
    BY <2>0 DEF GoesOn
  <2> QED BY <2>0, <2>1, <2>2, QuietInv
<1>5. ASSUME NEW wrote \in BOOLEAN, Ticks!Persist(wrote) PROVE TicksInv'
  <2>1. tick \in 1..MaxTicks /\ pc = "tail" /\ pc' = "commitTail" /\ metrics \in Metrics /\ MaxTicks \in Nat
    <3>1. pc = "tail" /\ pc' = "commitTail"
      BY <1>5, Zenon DEF Ticks!Persist
    <3>2. MaxTicks \in Nat
      BY DEF Ticks!TickAssumption
    <3> QED BY <3>1, <3>2 DEF TicksInv, TickTypes
  <2>2. metrics' \in Metrics
    <3> DEFINE inTurn == tick % WriteEvery = 0
    <3>1. CASE inTurn /\ wrote
      <4>1. metrics' = [metrics EXCEPT !.payload = tick, !.staged = @ \cup {tick}, !.flushed = tick]
        BY <1>5, <3>1, Zenon DEF Ticks!Persist
      <4> QED BY <2>1, <4>1, MetricsMove, Zenon
    <3>2. CASE ~(inTurn /\ wrote)
      <4>1. metrics' = [metrics EXCEPT !.payload = tick, !.staged = @, !.flushed = @]
        BY <1>5, <3>2, Zenon DEF Ticks!Persist
      <4> QED BY <2>1, <4>1, MetricsMove, Zenon
    <3> QED BY <3>1, <3>2
  <2>5. /\ faults' \in {faults, faults + 1}
        /\ UNCHANGED <<tick, runState, cancels, result, verdict, collected, phase, stopReq, staged, durable,
                       commitErr, doubt, told, errors, failures, inRow, cycles, owed, decays>>
    BY <1>5, Zenon DEF Ticks!Persist, Ticks!Sound, Ticks!Fault
  <2>3. MovesTypes
    BY <2>1, <2>2, <2>5 DEF MovesTypes, Counts, Labels, Undecided, Ticks!Commits
  <2>4. GoesOn(pc, pc')
    BY <2>1 DEF GoesOn
  <2> QED BY <2>1, <2>3, <2>4, <2>5, QuietInv
<1> QED BY <1>2, <1>3, <1>4, <1>5

\* A tick begins.
LEMMA WakeInv ==
    ASSUME Ticks!TickAssumption, TicksInv, Ticks!Wake
    PROVE  TicksInv'
<1> USE DEF Ticks!Wake, Ticks!dbVars, Ticks!countVars, Ticks!clearVars
<1>1. MaxTicks \in Nat /\ tick \in Nat /\ tick' \in 1..MaxTicks /\ tick' = tick + 1
  BY CountsAreNumbers DEF Ticks!TickAssumption
<1>2. staged' = {} /\ pc' = "open" /\ verdict' = "none" /\ owed' = 0
  BY DEF TicksInv, StagedFits, Ticks!ClearedIsTold
<1>3. Mine' = {}
  BY <1>1 DEF Mine, TicksInv, ToldFits, TickTypes, Ticks!TickTypeOK, Ticks!Pays
<1>4. Ticks!Accepted' = {}
  BY DEF Ticks!Accepted
<1>5. TickTypes'
  <2>1. {errors, failures, inRow, cycles, owed, decays, faults}' \subseteq Nat
    BY CountsAreNumbers DEF Counts
  <2>2. result' \in [Ticks!Seqs -> PaymentEnds \cup {"none"}]
    OBVIOUS
  <2>3. tick' \in 0..MaxTicks /\ collected' \subseteq Ticks!Seqs
    BY <1>1
  <2>7. phase' \in BOOLEAN /\ stopReq' \in BOOLEAN
    BY Zenon
  <2>4. pc' \in Ticks!Open
    BY DEF Ticks!Open
  <2>5. verdict' \in {"none", "commit", "rollback", "unknown"}
    BY <1>2
  <2>6. Ticks!TickTypeOK'
    BY <2>1, <2>2, <2>3, <2>4, <2>5, <2>7, Zenon DEF Ticks!TickTypeOK, TicksInv, TickTypes
  <2> QED BY <1>1, <2>6 DEF TicksInv, TickTypes
<1>6. PhaseFits'
  BY <1>2 DEF PhaseFits, Undecided, Ticks!Commits, Ticks!Undos
<1>7. StagedFits' /\ DurableFits'
  BY <1>2, <1>3, <1>4 DEF StagedFits, DurableFits, Undecided, Ticks!Commits, Ticks!Undos
<1>8. ToldFits'
  <2>1. Ticks!Paid' = Ticks!Paid
    BY DEF Ticks!Paid
  <2>2. /\ \A p \in durable : p[1] \in Nat
        /\ \A i \in DOMAIN told : told[i].pay[1] \in Nat
    <3>1. durable \subseteq Ticks!Pays /\ told \in Seq(Items) /\ \A p \in Ticks!Pays : p[1] \in Nat
      BY DEF TicksInv, TickTypes, Ticks!TickTypeOK, Ticks!Pays
    <3>2. \A i \in DOMAIN told : told[i] \in Items
      BY <3>1
    <3>3. \A i \in DOMAIN told : told[i].pay \in Ticks!Pays
      BY <3>2 DEF Items
    <3> QED BY <3>1, <3>3
  <2>3. /\ \A p \in durable : p[1] <= tick'
        /\ \A i \in DOMAIN told : told[i].pay[1] < tick'
    BY <1>1, <2>2 DEF TicksInv, ToldFits
  <2> QED BY <1>1, <2>1, <2>2, <2>3 DEF TicksInv, ToldFits, Ticks!AnnouncedIsDurable, Ticks!DurableIsAnnounced, Ticks!ToldOnceInOrder
<1> QED BY <1>2, <1>5, <1>6, <1>7, <1>8 DEF TicksInv, Ticks!ClearedIsTold

\* What stays true while the payments are executed.
Paying ==
    /\ pc = "pay" /\ phase = FALSE /\ verdict = "none" /\ staged = Ticks!Accepted
    /\ Mine = {} /\ owed = 0 /\ tick \in 1..MaxTicks

LEMMA PayingHolds ==
    ASSUME TicksInv, Ticks!TickAssumption, pc = "pay"
    PROVE  Paying
<1>1. phase \in BOOLEAN /\ tick >= 1
  BY DEF TicksInv, TickTypes, Ticks!TickTypeOK
<1>2. phase = FALSE
  BY <1>1 DEF TicksInv, PhaseFits
<1> QED BY <1>1, <1>2, CountsAreNumbers DEF TicksInv, PhaseFits, StagedFits, DurableFits, Ticks!ClearedIsTold,
           Paying, Ticks!TickAssumption, Ticks!Undos

\* A payment ends.
LEMMA ExecuteInv ==
    ASSUME Ticks!TickAssumption, TicksInv, NEW s \in Ticks!Seqs, NEW o \in PaymentEnds, Ticks!Execute(s, o)
    PROVE  TicksInv'
<1> USE DEF Ticks!Execute, Ticks!countVars, Ticks!clearVars
<1>1. Paying
  BY PayingHolds
<1>2. result \in [Ticks!Seqs -> PaymentEnds \cup {"none"}] /\ "none" \notin PaymentEnds
  BY DEF TicksInv, TickTypes, Ticks!TickTypeOK, Ticks!TickAssumption
<1>3. Ticks!Accepted' = IF o = "committed" THEN Ticks!Accepted \cup {<<tick, s>>} ELSE Ticks!Accepted
  BY <1>2 DEF Ticks!Accepted, Ticks!Pay
<1>4. staged' = Ticks!Accepted' /\ Mine' = {} /\ Ticks!Paid' = Ticks!Paid
  <2>1. staged' = Ticks!Accepted'
    BY <1>1, <1>3 DEF Ticks!Pay, Paying
  <2>2. Mine' = Mine /\ Ticks!Paid' = Ticks!Paid
    BY DEF Mine, Ticks!Paid
  <2> QED BY <1>1, <2>1, <2>2 DEF Paying
<1>5. TickTypes'
  <2>1. MovesTypes
    BY CountsAreNumbers DEF MovesTypes, Counts, TicksInv, TickTypes, Ticks!TickTypeOK
  <2>2. result' \in [Ticks!Seqs -> PaymentEnds \cup {"none"}]
    BY <1>2
  <2>3. staged' \subseteq Ticks!Pays
    BY <1>1, <1>2 DEF Paying, Ticks!Pays, Ticks!Pay, TicksInv, TickTypes, Ticks!TickTypeOK
  <2>4. phase' \in BOOLEAN /\ stopReq' \in BOOLEAN
    BY DEF TicksInv, TickTypes, Ticks!TickTypeOK
  <2> QED BY <2>1, <2>2, <2>3, <2>4, TypesKept DEF TicksInv, TickTypes, Ticks!TickTypeOK
<1>6. PhaseFits'
  BY <1>1, <1>2 DEF TicksInv, PhaseFits, Paying, Undecided, Ticks!Commits, Ticks!Undos, TickTypes, Ticks!TickTypeOK
<1>7. StagedFits' /\ DurableFits'
  BY <1>1, <1>4 DEF StagedFits, DurableFits, Paying, Undecided, Ticks!Commits, Ticks!Undos
<1>8. ToldFits'
  BY <1>1, <1>4 DEF TicksInv, ToldFits, Ticks!AnnouncedIsDurable, Ticks!DurableIsAnnounced, Ticks!ToldOnceInOrder, Paying
<1> QED BY <1>1, <1>5, <1>6, <1>7, <1>8 DEF TicksInv, Ticks!ClearedIsTold, Paying

\* The payments are received, one by one and then all: nothing of them changes.
LEMMA ReceivedInv ==
    ASSUME Ticks!TickAssumption, TicksInv, MovesTypes, pc = "pay",
           UNCHANGED <<tick, result, verdict, durable, told, doubt, commitErr, staged, owed>>,
           stopReq' \in BOOLEAN, collected' \subseteq Ticks!Seqs, \A q \in collected' : result[q] # "none",
           \/ pc' = "pay" /\ phase' = phase
           \/ pc' \in {"paid", "unwind"} /\ phase' = TRUE /\ collected' = Ticks!Seqs
    PROVE  TicksInv'
<1>1. Paying
  BY PayingHolds
<1>2. Ticks!Accepted' = Ticks!Accepted /\ Mine' = Mine /\ Ticks!Paid' = Ticks!Paid
  BY DEF Ticks!Accepted, Mine, Ticks!Paid, Ticks!Pay
<1>3. TickTypes'
  <2>1. phase' \in BOOLEAN
    BY <1>1 DEF Paying
  <2> QED BY <2>1, TypesKept DEF TicksInv, TickTypes, Ticks!TickTypeOK
<1>4. PhaseFits'
  BY <1>1 DEF PhaseFits, Paying, Undecided, Ticks!Commits, Ticks!Undos
<1>5. StagedFits' /\ DurableFits'
  BY <1>1, <1>2 DEF StagedFits, DurableFits, Paying, Undecided, Ticks!Commits, Ticks!Undos
<1>6. ToldFits'
  BY <1>1, <1>2 DEF TicksInv, ToldFits, Ticks!AnnouncedIsDurable, Ticks!DurableIsAnnounced, Ticks!ToldOnceInOrder, Paying
<1> QED BY <1>1, <1>3, <1>4, <1>5, <1>6 DEF TicksInv, Ticks!ClearedIsTold, Paying

LEMMA CollectInv ==
    ASSUME Ticks!TickAssumption, TicksInv, NEW s \in Ticks!Seqs, Ticks!Collect(s)
    PROVE  TicksInv'
<1>1. /\ pc = "pay" /\ pc' = "pay" /\ result[s] # "none" /\ collected' = collected \cup {s}
      /\ UNCHANGED <<tick, cancels, result, phase, verdict, staged, durable, commitErr, doubt, told,
                     failures, inRow, cycles, owed, decays, faults>>
      /\ \/ Ticks!FailRun /\ errors' = errors + Ticks!FailErrors
         \/ UNCHANGED <<runState, metrics, errors>>
  BY Zenon DEF Ticks!Collect, Ticks!dbVars, Ticks!clearVars
<1>2. stopReq' \in BOOLEAN
  BY Zenon DEF Ticks!Collect
<1>3. MovesTypes
  <2>1. runState \in {"running", "paused", "stopped", "error"} /\ metrics \in Metrics /\ Counts /\ cancels \in 0..2
    BY CountsAreNumbers DEF TicksInv, TickTypes, Ticks!TickTypeOK
  <2>2. /\ runState' \in {"running", "paused", "stopped", "error"} /\ metrics' \in Metrics /\ errors' \in Nat
    BY <1>1, <2>1, FailTypes DEF Counts
  <2>3. pc' \in Labels
    BY <1>1 DEF Labels, Undecided
  <2> QED BY <1>1, <2>1, <2>2, <2>3 DEF MovesTypes, Counts
<1>4. collected' \subseteq Ticks!Seqs /\ \A q \in collected' : result[q] # "none"
  BY <1>1 DEF TicksInv, PhaseFits, TickTypes, Ticks!TickTypeOK
<1> QED BY <1>1, <1>2, <1>3, <1>4, ReceivedInv

LEMMA PaymentsDoneInv ==
    ASSUME Ticks!TickAssumption, TicksInv, Ticks!PaymentsDone
    PROVE  TicksInv'
<1>1. /\ pc = "pay" /\ pc' \in {"paid", "unwind"} /\ phase' = TRUE /\ failures' = 0
      /\ collected = Ticks!Seqs /\ collected' = collected
      /\ UNCHANGED <<tick, cancels, result, verdict, staged, durable, commitErr, doubt, told,
                     inRow, cycles, owed, decays, faults>>
      /\ \/ Ticks!FailRun /\ errors' = errors + Ticks!FailErrors
         \/ UNCHANGED <<runState, metrics, errors>>
  BY Zenon DEF Ticks!PaymentsDone, Ticks!dbVars, Ticks!clearVars
<1>2. stopReq' \in BOOLEAN
  BY Zenon DEF Ticks!PaymentsDone
<1>3. MovesTypes
  <2>1. runState \in {"running", "paused", "stopped", "error"} /\ metrics \in Metrics /\ Counts /\ cancels \in 0..2
    BY CountsAreNumbers DEF TicksInv, TickTypes, Ticks!TickTypeOK
  <2>2. /\ runState' \in {"running", "paused", "stopped", "error"} /\ metrics' \in Metrics /\ errors' \in Nat
    BY <1>1, <2>1, FailTypes DEF Counts
  <2>3. pc' \in Labels
    BY <1>1 DEF Labels, Undecided
  <2> QED BY <1>1, <2>1, <2>2, <2>3 DEF MovesTypes, Counts
<1>4. \A q \in collected' : result[q] # "none"
  BY <1>1 DEF TicksInv, PhaseFits
<1> QED BY <1>1, <1>2, <1>3, <1>4, ReceivedInv

----------------------------------------------------------------------------
(* What the payments of a tick have come to is decided and announced. *)

\* What the first verdict adds to what viewers were told.
LEMMA ResolveTells ==
    ASSUME Ticks!TickAssumption, TicksInv, tick >= 1, UNCHANGED <<tick, result, phase>>,
           NEW v \in {"commit", "rollback", "unknown"}, Ticks!Resolve(v)
    PROVE  /\ told' \in Seq(Items) /\ Ticks!ToldOnceInOrder'
           /\ \A i \in DOMAIN told' : told'[i].pay[1] <= tick
           /\ IF verdict # "none" \/ ~phase THEN verdict' = verdict /\ Ticks!Paid' = Ticks!Paid
              ELSE /\ verdict' = v
                   /\ Ticks!Paid' = IF v = "commit" THEN Ticks!Paid \cup Ticks!Accepted ELSE Ticks!Paid
<1> DEFINE old == verdict # "none" \/ ~phase
           T == {s \in Ticks!Recorded : v = "commit" \/ result[s] # "committed"}
           q == Telling(T)[Planned]
<1>1. /\ told \in Seq(Items) /\ tick \in 1..MaxTicks /\ Planned \in Nat
      /\ result \in [Ticks!Seqs -> PaymentEnds \cup {"none"}] /\ Ticks!Seqs = 1..Planned
  BY CountsAreNumbers DEF TicksInv, TickTypes, Ticks!TickTypeOK, Ticks!TickAssumption, Ticks!Seqs
<1>2. CASE old
  <2>1. UNCHANGED <<verdict, told>>
    BY <1>2, Zenon DEF Ticks!Resolve
  <2>2. Ticks!Paid' = Ticks!Paid
    BY <2>1 DEF Ticks!Paid
  <2>3. Ticks!ToldOnceInOrder' /\ \A i \in DOMAIN told' : told'[i].pay[1] <= tick
    BY <2>1 DEF TicksInv, ToldFits, Ticks!ToldOnceInOrder
  <2> QED BY <1>1, <1>2, <2>1, <2>2, <2>3
<1>3. CASE ~old
  <2>1. verdict' = v /\ told' = told \o q
    <3>1. verdict' = v /\ Ticks!Tell(T)
      BY <1>3, Zenon DEF Ticks!Resolve
    <3> HIDE DEF T
    <3> QED BY <3>1, TellIsTelling
  <2>2. /\ Ticks!Recorded = Ticks!Seqs /\ \A i \in DOMAIN told : told[i].pay[1] < tick
        /\ \A s \in Ticks!Seqs : result[s] \in PaymentEnds
    <3>1. collected = Ticks!Seqs /\ verdict = "none"
      BY <1>3 DEF TicksInv, PhaseFits
    <3> QED BY <1>1, <3>1 DEF Ticks!Recorded, TicksInv, ToldFits, PhaseFits
  <2>3. T = {s \in Ticks!Seqs : v = "commit" \/ result[s] # "committed"}
    BY <2>2
  <2>4. \A s \in Ticks!Seqs : ItemOf(s) \in Items
    BY <1>1, <2>2 DEF ItemOf, Items, Ticks!Pays
  <2>5. T \in SUBSET Ticks!Seqs
    BY <2>3
  <2>6. Lists(q, T, Planned)
    <3> HIDE DEF T
    <3> QED BY <1>1, <2>4, <2>5, TellingLists
  <2> HIDE DEF q, T, old
  <2>7. q \in Seq(Items) /\ \A s \in T : s <= Planned
    BY <1>1, <2>5, <2>6 DEF Lists
  <2>8. /\ \A i \in DOMAIN q : \E s \in T : q[i] = ItemOf(s)
        /\ \A s \in T : \E i \in DOMAIN q : q[i] = ItemOf(s)
        /\ \A i, j \in DOMAIN q : i < j => q[i].pay[2] < q[j].pay[2]
    BY <2>6, <2>7 DEF Lists
  <2>9. /\ told' \in Seq(Items) /\ DOMAIN told = 1..Len(told) /\ DOMAIN q = 1..Len(q)
        /\ Len(told) \in Nat /\ Len(q) \in Nat /\ DOMAIN told' = 1..(Len(told) + Len(q))
        /\ \A i \in DOMAIN told' : told'[i] = IF i <= Len(told) THEN told[i] ELSE q[i - Len(told)]
    BY <1>1, <2>1, <2>7
  <2>10. \A s : ItemOf(s).pay = <<tick, s>> /\ ItemOf(s).pay[1] = tick /\ ItemOf(s).as = result[s]
    BY DEF ItemOf
  <2>11. \A i \in DOMAIN q : q[i].pay[1] = tick
    BY <2>8, <2>10
  <2>12. \A i \in DOMAIN told' : \/ i \in DOMAIN told /\ told'[i] = told[i]
                                 \/ i > Len(told) /\ i - Len(told) \in DOMAIN q /\ told'[i] = q[i - Len(told)]
    BY <2>9
  <2>13. \A i \in DOMAIN told' : told'[i].pay[1] <= tick
    <3>1. \A i \in DOMAIN told : told[i].pay[1] <= tick
      BY DEF TicksInv, ToldFits
    <3> QED BY <1>1, <2>11, <2>12, <3>1
  <2>14. Ticks!ToldOnceInOrder'
    <3> SUFFICES ASSUME NEW i \in DOMAIN told', NEW j \in DOMAIN told', i < j
                 PROVE  \/ told'[i].pay[1] < told'[j].pay[1]
                        \/ told'[i].pay[1] = told'[j].pay[1] /\ told'[i].pay[2] < told'[j].pay[2]
      BY DEF Ticks!ToldOnceInOrder
    <3>0. i \in Nat /\ j \in Nat
      BY <2>9
    <3>1. CASE j \in DOMAIN told /\ told'[j] = told[j]
      <4>1. i \in DOMAIN told /\ told'[i] = told[i]
        BY <2>9, <2>12, <3>0, <3>1
      <4> QED BY <3>1, <4>1 DEF TicksInv, ToldFits, Ticks!ToldOnceInOrder
    <3>2. CASE i \in DOMAIN told /\ told'[i] = told[i] /\ j - Len(told) \in DOMAIN q /\ told'[j] = q[j - Len(told)]
      BY <2>2, <2>11, <3>2
    <3>3. CASE /\ i - Len(told) \in DOMAIN q /\ told'[i] = q[i - Len(told)]
               /\ j - Len(told) \in DOMAIN q /\ told'[j] = q[j - Len(told)]
      <4>1. i - Len(told) < j - Len(told)
        BY <2>9, <3>0
      <4> QED BY <2>8, <2>11, <3>3, <4>1
    <3> QED BY <2>9, <2>12, <3>0, <3>1, <3>2, <3>3
  <2>15. Ticks!Paid' = IF v = "commit" THEN Ticks!Paid \cup Ticks!Accepted ELSE Ticks!Paid
    <3> DEFINE more == {q[i].pay : i \in {j \in DOMAIN q : q[j].as = "committed"}}
    <3>1. Ticks!Paid' = Ticks!Paid \cup more
      <4>1. \A i \in DOMAIN told : i \in DOMAIN told' /\ told'[i] = told[i]
        BY <2>9
      <4>2. \A i \in DOMAIN q : i + Len(told) \in DOMAIN told' /\ told'[i + Len(told)] = q[i]
        BY <2>9
      <4> QED BY <2>12, <4>1, <4>2 DEF Ticks!Paid
    <3>2. CASE v = "commit"
      <4>1. T = Ticks!Seqs
        BY <2>3, <3>2
      <4>2. more = Ticks!Accepted
        <5>1. Ticks!Accepted = {<<tick, s>> : s \in {r \in Ticks!Seqs : result[r] = "committed"}}
          BY DEF Ticks!Accepted, Ticks!Pay
        <5>2. more \subseteq Ticks!Accepted
          <6> SUFFICES ASSUME NEW i \in DOMAIN q, q[i].as = "committed" PROVE q[i].pay \in Ticks!Accepted
            OBVIOUS
          <6>1. PICK s \in Ticks!Seqs : q[i] = ItemOf(s)
            BY <2>8, <4>1
          <6>2. q[i].pay = <<tick, s>> /\ result[s] = "committed"
            BY <2>10, <6>1
          <6> QED BY <5>1, <6>2
        <5>3. Ticks!Accepted \subseteq more
          <6> SUFFICES ASSUME NEW s \in Ticks!Seqs, result[s] = "committed" PROVE <<tick, s>> \in more
            BY <5>1
          <6>1. PICK i \in DOMAIN q : q[i] = ItemOf(s)
            BY <2>8, <4>1
          <6> QED BY <2>10, <6>1
        <5> QED BY <5>2, <5>3
      <4> QED BY <3>1, <3>2, <4>2
    <3>3. CASE v # "commit"
      <4>1. \A i \in DOMAIN q : q[i].as # "committed"
        BY <2>3, <2>8, <2>10, <3>3
      <4> QED BY <3>1, <3>3, <4>1
    <3> QED BY <3>2, <3>3
  <2> QED BY <1>3, <2>1, <2>9, <2>13, <2>14, <2>15 DEF old
<1> QED BY <1>2, <1>3

\* How many payments ended so is a number.
LEMMA CountIsNumber ==
    ASSUME Ticks!TickAssumption, NEW S \in SUBSET Ticks!Seqs, NEW o
    PROVE  Ticks!Count(S, o) \in Nat
<1> DEFINE C == {s \in S : result[s] = o}
<1>1. IsFiniteSet(Ticks!Seqs)
  BY FS_Interval DEF Ticks!Seqs, Ticks!TickAssumption
<1>2. IsFiniteSet(C)
  BY <1>1, FS_Subset
<1>3. Ticks!Cardinality(C) = Cardinality(C)
  BY Zenon DEF Ticks!Cardinality, Cardinality
<1>4. Cardinality(C) \in Nat
  BY <1>2, FS_CardinalityType
<1> QED BY <1>3, <1>4, Zenon DEF Ticks!Count

LEMMA ToldErrorsIsNumber ==
    ASSUME Ticks!TickAssumption
    PROVE  Ticks!ToldErrors \in Nat
<1>1. Ticks!Recorded \in SUBSET Ticks!Seqs
  BY DEF Ticks!Recorded
<1>2. Ticks!Count(Ticks!Recorded, "timeout") + Ticks!Count(Ticks!Recorded, "error") \in Nat
  BY <1>1, CountIsNumber
<1> QED BY <1>2, Zenon DEF Ticks!ToldErrors

\* The payments were undecided and come to nothing, or to an unknown end.
LEMMA RolledBackInv ==
    ASSUME Ticks!TickAssumption, TicksInv, MovesTypes, owed' = owed, staged' = {},
           UNCHANGED <<tick, result, collected, phase, stopReq, durable, commitErr, doubt>>,
           pc \in Ticks!Undos \cup {"unwind", "abort"}, pc' \in {"abort", "sleep", "ended"},
           NEW v \in {"rollback", "unknown"}, Ticks!Resolve(v),
           pc \in Ticks!Undos /\ v = "rollback" => commitErr # "cancelled"
    PROVE  TicksInv'
<1> DEFINE old == verdict # "none" \/ ~phase
<1>1. /\ told' \in Seq(Items) /\ Ticks!ToldOnceInOrder'
      /\ \A i \in DOMAIN told' : told'[i].pay[1] <= tick
      /\ Ticks!Paid' = Ticks!Paid
      /\ IF old THEN verdict' = verdict ELSE verdict' = v
  <2>1. tick >= 1
    BY DEF TicksInv, TickTypes, Ticks!Undos
  <2> QED BY <2>1, ResolveTells
<1>2. Ticks!Accepted' = Ticks!Accepted /\ Mine' = Mine /\ (InDoubt' <=> InDoubt)
  BY DEF Ticks!Accepted, Mine, InDoubt, Ticks!Pay
<1>3. TickTypes' /\ Ticks!ClearedIsTold'
  <2>1. Ticks!TickTypeOK /\ TickTypes
    BY DEF TicksInv, TickTypes
  <2>2. verdict' \in {"none", "commit", "rollback", "unknown"} /\ staged' \subseteq Ticks!Pays
    BY <1>1, <2>1 DEF Ticks!TickTypeOK
  <2>3. phase' \in BOOLEAN /\ stopReq' \in BOOLEAN
    BY <2>1 DEF Ticks!TickTypeOK
  <2>4. pc \notin {"sleep", "ended"}
    BY DEF Ticks!Undos
  <2>5. TickTypes'
    BY <1>1, <2>1, <2>2, <2>3, <2>4, TypesKept DEF Ticks!TickTypeOK
  <2>6. pc # "clearing"
    BY DEF Ticks!Undos
  <2> QED BY <2>5, <2>6 DEF TicksInv, Ticks!ClearedIsTold
<1>4. phase \in BOOLEAN /\ (verdict' = "none" => old /\ verdict = "none" /\ ~phase)
  <2>1. phase \in BOOLEAN
    BY DEF TicksInv, TickTypes, Ticks!TickTypeOK
  <2> QED BY <1>1, <2>1
<1>5. PhaseFits'
  BY <1>1, <1>4 DEF TicksInv, PhaseFits, Undecided, Ticks!Commits, Ticks!Undos
<1>6. StagedFits'
  BY <1>4 DEF StagedFits, Undecided, Ticks!Commits
<1>7. DurableFits'
  <2>1. pc' \notin Ticks!Undos
    BY DEF Ticks!Undos
  <2>2. CASE old
    <3>1. pc \in Ticks!Undos => verdict # "none"
      BY <2>2 DEF TicksInv, PhaseFits
    <3>2. verdict' = verdict
      BY <1>1, <2>2
    <3> HIDE DEF old
    <3> QED BY <1>2, <2>1, <3>1, <3>2 DEF TicksInv, DurableFits
  <2>3. CASE ~old
    <3>1. verdict = "none" /\ verdict' = v
      BY <1>1, <2>3
    <3>2. pc = "unwind" \/ pc \in Ticks!Undos
      BY <2>3 DEF TicksInv, PhaseFits, Undecided, Ticks!Commits
    <3>3. CASE pc = "unwind"
      <4>1. Mine = {}
        BY <3>1, <3>3 DEF TicksInv, DurableFits, Ticks!Undos
      <4> QED BY <1>2, <3>1, <4>1 DEF DurableFits
    <3>4. CASE pc \in Ticks!Undos
      <4>1. \/ Mine = {}
            \/ InDoubt /\ commitErr \in {"lost", "cancelled"}
        BY <3>1, <3>4 DEF TicksInv, DurableFits
      <4> QED BY <1>2, <3>1, <3>4, <4>1 DEF DurableFits
    <3> QED BY <3>2, <3>3, <3>4
  <2> QED BY <2>2, <2>3
<1>8. ToldFits'
  <2>1. verdict' = "none" => \A i \in DOMAIN told' : told'[i].pay[1] < tick
    <3>1. old => UNCHANGED told
      BY Zenon DEF Ticks!Resolve
    <3> HIDE DEF old
    <3> QED BY <1>4, <3>1 DEF TicksInv, ToldFits
  <2> QED BY <1>1, <2>1 DEF TicksInv, ToldFits, Ticks!AnnouncedIsDurable, Ticks!DurableIsAnnounced
<1> QED BY <1>3, <1>5, <1>6, <1>7, <1>8 DEF TicksInv

\* The roll backs: after a failed commit, on request, and of a failed tick.
LEMMA RollBacksInv ==
    ASSUME Ticks!TickAssumption, TicksInv, NEW ok \in BOOLEAN,
           Ticks!UndoEnds(ok) \/ Ticks!UnwindEnds(ok) \/ Ticks!AbortEnds(ok)
    PROVE  TicksInv'
<1>1. /\ Counts /\ cancels \in 0..2 /\ metrics \in Metrics /\ Ticks!ToldErrors \in Nat /\ MaxTicks \in Nat
      /\ runState \in {"running", "paused", "stopped", "error"}
  BY CountsAreNumbers, ToldErrorsIsNumber DEF TicksInv, TickTypes, Ticks!TickTypeOK, Ticks!TickAssumption
<1>2. [metrics EXCEPT !.staged = {}] \in Metrics
  BY <1>1 DEF Metrics
<1>3. PICK v \in {"rollback", "unknown"} :
         Ticks!RollBack(ok, v) /\ (pc \in Ticks!Undos /\ v = "rollback" => commitErr # "cancelled")
  <2>1. CASE Ticks!UndoEnds(ok)
    <3>1. Ticks!RollBack(ok, Ticks!VerdictOf(ok))
      BY <2>1, Zenon DEF Ticks!UndoEnds
    <3>2. /\ Ticks!VerdictOf(ok) \in {"rollback", "unknown"}
          /\ Ticks!VerdictOf(ok) = "rollback" => commitErr # "cancelled"
      BY DEF Ticks!VerdictOf
    <3> QED BY <3>1, <3>2, Zenon
  <2>2. CASE Ticks!UnwindEnds(ok) \/ Ticks!AbortEnds(ok)
    <3>1. pc \in {"unwind", "abort"} /\ Ticks!RollBack(ok, IF ok THEN "rollback" ELSE "unknown")
      BY <2>2, Zenon DEF Ticks!UnwindEnds, Ticks!AbortEnds
    <3>2. pc \notin Ticks!Undos
      BY <3>1 DEF Ticks!Undos
    <3>3. (IF ok THEN "rollback" ELSE "unknown") \in {"rollback", "unknown"}
      BY Zenon
    <3> QED BY <3>1, <3>2, <3>3, Zenon
  <2> QED BY <2>1, <2>2
<1>4. /\ faults' \in {faults, faults + 1} /\ staged' = {} /\ Ticks!Resolve(v)
      /\ UNCHANGED <<durable, commitErr, doubt>>
  BY <1>3, Zenon DEF Ticks!RollBack, Ticks!Sound, Ticks!Fault
<1>5. /\ pc \in Ticks!Undos \cup {"unwind", "abort"} /\ pc' \in {"abort", "sleep", "ended"}
      /\ UNCHANGED <<tick, result, collected, phase, stopReq, cycles, owed, decays>>
      /\ cancels' \in {cancels, cancels - 1} /\ (cancels' = cancels - 1 => cancels > 0 \/ cancels' = cancels)
      /\ failures' \in {failures, failures + 1} /\ inRow' \in {0, inRow, inRow + 1}
      /\ runState' \in {runState, "error"}
  BY Zenon DEF Ticks!UndoEnds, Ticks!UnwindEnds, Ticks!AbortEnds, Ticks!clearVars
<1>6. errors' \in {errors + Ticks!ToldErrors, errors + Ticks!ToldErrors + 1, errors + Ticks!ToldErrors + 2}
  BY Zenon DEF Ticks!UndoEnds, Ticks!UnwindEnds, Ticks!AbortEnds
<1>7. metrics' = [metrics EXCEPT !.staged = {}] \/ metrics' \in Ticks!Flush([metrics EXCEPT !.staged = {}])
  BY Zenon DEF Ticks!UndoEnds, Ticks!UnwindEnds, Ticks!AbortEnds
<1>8. MovesTypes
  <2>1. metrics' \in Metrics
    BY <1>2, <1>7, FailTypes, Zenon
  <2>2. Counts'
    BY <1>1, <1>4, <1>5, <1>6 DEF Counts
  <2>3. cancels' \in 0..2 /\ runState' \in {"running", "paused", "stopped", "error"} /\ pc' \in Labels
    BY <1>1, <1>5 DEF Labels
  <2> QED BY <2>1, <2>2, <2>3 DEF MovesTypes
<1> QED BY <1>3, <1>4, <1>5, <1>8, RolledBackInv

\* What a commit that takes effect makes of the tick.
LEMMA LandTypes ==
    ASSUME Ticks!TickAssumption, TicksInv, pc \in Ticks!Commits
    PROVE  /\ tick \in 1..MaxTicks /\ phase = TRUE /\ verdict \in {"none", "commit"} /\ owed = 0
           /\ staged = (IF verdict = "none" THEN Ticks!Accepted ELSE {})
           /\ Mine = (IF verdict = "none" THEN {} ELSE Ticks!Accepted)
           /\ Ticks!Land => metrics' \in Metrics
<1>1. tick \in 1..MaxTicks /\ phase \in BOOLEAN /\ metrics \in Metrics /\ pc \notin Ticks!Undos /\ pc \in Undecided
  <2>1. MaxTicks \in Nat /\ pc \notin {"sleep", "ended"}
    BY DEF Ticks!TickAssumption, Ticks!Commits
  <2>2. tick >= 1 /\ phase \in BOOLEAN
    BY <2>1 DEF TicksInv, TickTypes, Ticks!TickTypeOK
  <2>3. pc \notin Ticks!Undos /\ pc \in Undecided
    BY DEF Ticks!Commits, Ticks!Undos, Undecided
  <2> QED BY <2>1, <2>2, <2>3, CountsAreNumbers
<1>2. phase = TRUE
  BY <1>1 DEF TicksInv, PhaseFits
<1>3. verdict \in {"none", "commit"} /\ owed = 0
  BY <1>1 DEF TicksInv, TickTypes, Ticks!TickTypeOK, PhaseFits, Ticks!Commits, Ticks!ClearedIsTold
<1>4. /\ staged = (IF verdict = "none" THEN Ticks!Accepted ELSE {})
      /\ Mine = (IF verdict = "none" THEN {} ELSE Ticks!Accepted)
  BY <1>1, <1>3 DEF TicksInv, StagedFits, DurableFits
<1>5. Ticks!Land => metrics' \in Metrics
  BY <1>1 DEF Ticks!Land, Metrics
<1> QED BY <1>1, <1>2, <1>3, <1>4, <1>5

\* The whole tick is in the database once the unit of work is.
LEMMA Landed ==
    ASSUME Ticks!TickAssumption, TicksInv, pc \in Ticks!Commits, durable' = durable \cup staged,
           UNCHANGED <<tick, result>>
    PROVE  /\ Ticks!Accepted' = Ticks!Accepted /\ Mine' = Ticks!Accepted
           /\ durable' \subseteq Ticks!Pays /\ \A p \in durable' : p[1] <= tick
           /\ \A p \in durable' : p \in durable \/ (p \in staged /\ p \in Ticks!Accepted /\ p[1] = tick)
<1>1. \A p \in Ticks!Accepted : p[1] = tick /\ p \in Ticks!Pays
  BY LandTypes DEF Ticks!Accepted, Ticks!Pay, Ticks!Pays
<1>2. staged \subseteq Ticks!Accepted
  BY DEF TicksInv, StagedFits
<1>3. Ticks!Accepted' = Ticks!Accepted
  BY DEF Ticks!Accepted, Ticks!Pay
<1>4. Mine' = Mine \cup staged
  BY <1>1, <1>2 DEF Mine
<1>5. Mine' = Ticks!Accepted
  BY <1>4, LandTypes
<1>6. durable \subseteq Ticks!Pays /\ (\A p \in durable : p[1] <= tick) /\ tick <= tick
  BY LandTypes DEF TicksInv, TickTypes, Ticks!TickTypeOK, ToldFits
<1>7. \A p \in durable' : p \in durable \/ (p \in staged /\ p \in Ticks!Accepted /\ p[1] = tick)
  <2> SUFFICES ASSUME NEW p \in durable', p \notin durable
               PROVE  p \in staged /\ p \in Ticks!Accepted /\ p[1] = tick
    OBVIOUS
  <2>1. p \in staged /\ p \in Ticks!Accepted
    BY <1>2
  <2> QED BY <1>1, <2>1, Zenon
<1>8. durable' \subseteq Ticks!Pays
  BY <1>1, <1>6, <1>7
<1>9. \A p \in durable' : p[1] <= tick
  BY <1>6, <1>7
<1> QED BY <1>3, <1>5, <1>7, <1>8, <1>9

\* A commit ends well: the tick is in the database, and announced if it was not before.
LEMMA CommitEndsInv ==
    ASSUME Ticks!TickAssumption, TicksInv, Ticks!CommitEnds
    PROVE  TicksInv'
<1>1. /\ pc \in Ticks!Commits /\ Ticks!Land /\ durable' = durable \cup staged /\ staged' = {} /\ commitErr' = "none"
      /\ Ticks!Resolve("commit") /\ errors' = errors + Ticks!ToldErrors
      /\ cancels' \in {cancels, cancels - 1} /\ (cancels' = cancels - 1 => cancels > 0 \/ cancels' = cancels)
      /\ UNCHANGED <<tick, runState, result, collected, phase, stopReq, doubt, failures, inRow, cycles, owed,
                     decays, faults>>
  BY Zenon DEF Ticks!CommitEnds, Ticks!clearVars, Ticks!Land
<1>2. pc' \in {"ended", "clearing", "tail", "audit"}
  BY DEF Ticks!CommitEnds, Ticks!AfterCommit, Ticks!Commits
<1>3. /\ Counts /\ cancels \in 0..2 /\ Ticks!ToldErrors \in Nat /\ runState \in {"running", "paused", "stopped", "error"}
      /\ commitErr' \in {"none", "error", "cancelled", "lost"}
  BY <1>1, CountsAreNumbers, ToldErrorsIsNumber DEF TicksInv, TickTypes, Ticks!TickTypeOK
<1>4. MovesTypes
  <2>1. metrics' \in Metrics
    BY <1>1, LandTypes
  <2>2. Counts' /\ cancels' \in 0..2
    BY <1>1, <1>3 DEF Counts
  <2>3. runState' \in {"running", "paused", "stopped", "error"} /\ pc' \in Labels
    BY <1>1, <1>2, <1>3 DEF Labels, Undecided
  <2> QED BY <2>1, <2>2, <2>3 DEF MovesTypes
<1>5. /\ told' \in Seq(Items) /\ Ticks!ToldOnceInOrder'
      /\ \A i \in DOMAIN told' : told'[i].pay[1] <= tick
      /\ verdict' = "commit"
      /\ Ticks!Paid' = IF verdict = "none" THEN Ticks!Paid \cup Ticks!Accepted ELSE Ticks!Paid
  <2>1. tick >= 1 /\ phase = TRUE /\ verdict \in {"none", "commit"}
    BY <1>1, LandTypes
  <2> QED BY <1>1, <2>1, ResolveTells
<1>6. TickTypes'
  <2>1. staged' \subseteq Ticks!Pays /\ durable' \subseteq Ticks!Pays
    BY <1>1, Landed
  <2>2. phase' \in BOOLEAN /\ stopReq' \in BOOLEAN /\ pc \notin {"sleep", "ended"}
    BY <1>1 DEF TicksInv, TickTypes, Ticks!TickTypeOK, Ticks!Commits
  <2>3. verdict' \in {"none", "commit", "rollback", "unknown"}
    BY <1>5
  <2>4. /\ result' \in [Ticks!Seqs -> PaymentEnds \cup {"none"}] /\ collected' \subseteq Ticks!Seqs /\ doubt' \subseteq 1..MaxTicks
    BY <1>1 DEF TicksInv, TickTypes, Ticks!TickTypeOK
  <2> QED BY <1>1, <1>3, <1>4, <1>5, <2>1, <2>2, <2>3, <2>4, TypesKept
<1>7. PhaseFits'
  <2>1. phase' = TRUE
    BY <1>1, LandTypes
  <2> QED BY <1>1, <1>2, <1>5, <2>1 DEF TicksInv, PhaseFits, Undecided, Ticks!Commits, Ticks!Undos
<1>8. StagedFits' /\ DurableFits'
  BY <1>1, <1>2, <1>5, Landed DEF StagedFits, DurableFits, Undecided, Ticks!Commits, Ticks!Undos
<1>9. ToldFits'
  <2>1. Ticks!Paid \subseteq durable /\ Ticks!Accepted \subseteq durable'
    BY <1>1, Landed DEF TicksInv, ToldFits, Ticks!AnnouncedIsDurable, Mine
  <2>2. Ticks!AnnouncedIsDurable'
    BY <1>1, <1>5, <2>1 DEF Ticks!AnnouncedIsDurable
  <2>3. durable' \ Ticks!Paid' \subseteq durable \ Ticks!Paid
    BY <1>1, <1>5, LandTypes
  <2>4. Ticks!DurableIsAnnounced'
    BY <1>1, <2>3 DEF TicksInv, ToldFits, Ticks!DurableIsAnnounced
  <2> QED BY <1>1, <1>5, <2>2, <2>4, Landed DEF ToldFits
<1>10. Ticks!ClearedIsTold'
  BY <1>1, LandTypes DEF Ticks!ClearedIsTold
<1> QED BY <1>6, <1>7, <1>8, <1>9, <1>10 DEF TicksInv

\* A commit fails for its caller; it may have taken effect.
LEMMA CommitFailsInv ==
    ASSUME Ticks!TickAssumption, TicksInv, NEW why \in {"error", "cancelled"}, NEW landed \in BOOLEAN,
           Ticks!CommitFails(why, landed)
    PROVE  TicksInv'
<1>1. /\ pc \in Ticks!Commits /\ pc' = Ticks!Undo(pc) /\ faults' = faults + 1
      /\ UNCHANGED <<tick, runState, cancels, result, verdict, collected, phase, stopReq, told, errors, failures,
                     inRow, cycles, owed, decays>>
      /\ \/ /\ Ticks!Land /\ durable' = durable \cup staged /\ staged' = {} /\ doubt' = doubt \cup {tick}
            /\ commitErr' \in {"lost", "cancelled"}
         \/ UNCHANGED <<durable, metrics, staged, doubt>> /\ commitErr' = why
  <2>1. /\ pc \in Ticks!Commits /\ pc' = Ticks!Undo(pc) /\ faults' = faults + 1
        /\ UNCHANGED <<tick, runState, cancels, result, verdict, collected, phase, stopReq, told, errors, failures,
                       inRow, cycles, owed, decays>>
    BY Zenon DEF Ticks!CommitFails, Ticks!Fault, Ticks!payVars, Ticks!outcomes, Ticks!phaseVars, Ticks!countVars,
                 Ticks!clearVars
  <2>2. CASE landed
    <3>1. Ticks!Land /\ durable' = durable \cup staged /\ staged' = {} /\ doubt' = doubt \cup {tick}
      BY <2>2, Zenon DEF Ticks!CommitFails, Ticks!Land
    <3>2. commitErr' = IF why = "error" THEN "lost" ELSE why
      BY <2>2, Zenon DEF Ticks!CommitFails
    <3>3. commitErr' \in {"lost", "cancelled"}
      BY <3>2
    <3> QED BY <2>1, <3>1, <3>3, Zenon
  <2>3. CASE ~landed
    <3>1. UNCHANGED <<durable, metrics, staged, doubt>> /\ commitErr' = why
      BY <2>3, Zenon DEF Ticks!CommitFails
    <3> QED BY <2>1, <3>1, Zenon
  <2> QED BY <2>2, <2>3
<1>2. pc' \in Ticks!Undos
  BY <1>1 DEF Ticks!Undo, Ticks!Commits, Ticks!Undos
<1>3. MovesTypes
  <2>1. metrics' \in Metrics
    BY <1>1, CountsAreNumbers, LandTypes
  <2>2. runState \in {"running", "paused", "stopped", "error"}
    BY DEF TicksInv, TickTypes, Ticks!TickTypeOK
  <2>3. pc' \in Labels
    BY <1>2 DEF Labels
  <2> QED BY <1>1, <2>1, <2>2, <2>3, CountsAreNumbers DEF MovesTypes, Counts
<1>4. Ticks!Accepted' = Ticks!Accepted /\ Ticks!Paid' = Ticks!Paid
  BY <1>1 DEF Ticks!Accepted, Ticks!Paid, Ticks!Pay
<1>5. TickTypes'
  <2>1. staged' \subseteq Ticks!Pays /\ durable' \subseteq Ticks!Pays /\ doubt' \subseteq 1..MaxTicks
    BY <1>1, LandTypes, Landed DEF TicksInv, TickTypes, Ticks!TickTypeOK
  <2>2. phase' \in BOOLEAN /\ stopReq' \in BOOLEAN /\ pc \notin {"sleep", "ended"}
    BY <1>1 DEF TicksInv, TickTypes, Ticks!TickTypeOK, Ticks!Commits
  <2>3. /\ result' \in [Ticks!Seqs -> PaymentEnds \cup {"none"}] /\ collected' \subseteq Ticks!Seqs
        /\ verdict' \in {"none", "commit", "rollback", "unknown"} /\ told' \in Seq(Items)
    BY <1>1 DEF TicksInv, TickTypes, Ticks!TickTypeOK
  <2>4. commitErr' \in {"none", "error", "cancelled", "lost"}
    BY <1>1
  <2> QED BY <1>1, <1>3, <2>1, <2>2, <2>3, <2>4, TypesKept
<1>6. PhaseFits'
  BY <1>1, <1>2, LandTypes DEF TicksInv, PhaseFits, Undecided, Ticks!Commits, Ticks!Undos
<1>7. StagedFits'
  <2>1. verdict # "none" => staged' = {}
    BY <1>1, LandTypes
  <2>2. staged' \subseteq Ticks!Accepted
    BY <1>1 DEF TicksInv, StagedFits
  <2> QED BY <1>1, <1>2, <1>4, <2>1, <2>2 DEF StagedFits, Undecided, Ticks!Commits, Ticks!Undos
<1>8. DurableFits'
  <2>1. CASE Ticks!Land /\ durable' = durable \cup staged /\ staged' = {} /\ doubt' = doubt \cup {tick}
             /\ commitErr' \in {"lost", "cancelled"}
    <3>1. InDoubt' /\ Mine' = Ticks!Accepted'
      BY <1>1, <2>1, Landed DEF InDoubt
    <3> QED BY <1>1, <1>2, <2>1, <3>1, LandTypes DEF DurableFits
  <2>2. CASE UNCHANGED <<durable, metrics, staged, doubt>> /\ commitErr' = why
    <3>1. Mine' = Mine
      BY <1>1, <2>2 DEF Mine
    <3> QED BY <1>1, <1>2, <1>4, <2>2, <3>1, LandTypes DEF DurableFits
  <2> QED BY <1>1, <2>1, <2>2
<1>9. ToldFits'
  <2>1. \A p \in durable' : p[1] <= tick
    BY <1>1, Landed DEF TicksInv, ToldFits
  <2>2. Ticks!AnnouncedIsDurable'
    BY <1>1, <1>4 DEF TicksInv, ToldFits, Ticks!AnnouncedIsDurable
  <2>3. Ticks!DurableIsAnnounced'
    BY <1>1, <1>4, Landed DEF TicksInv, ToldFits, Ticks!DurableIsAnnounced
  <2> QED BY <1>1, <2>1, <2>2, <2>3 DEF TicksInv, ToldFits, Ticks!ToldOnceInOrder
<1>10. Ticks!ClearedIsTold'
  BY <1>1, LandTypes DEF Ticks!ClearedIsTold
<1> QED BY <1>5, <1>6, <1>7, <1>8, <1>9, <1>10 DEF TicksInv

\* Every step of the tick keeps the invariant.
LEMMA TicksNextInv ==
    ASSUME Ticks!TickAssumption, TicksInv, [Ticks!TickNext]_ticksVars
    PROVE  TicksInv'
<1>1. CASE Ticks!TickNext
  <2>1. CASE \E s \in Ticks!Seqs : Ticks!Collect(s) \/ \E o \in PaymentEnds : Ticks!Execute(s, o)
    BY <2>1, CollectInv, ExecuteInv
  <2>2. CASE \E why \in {"error", "cancelled"}, landed \in BOOLEAN : Ticks!CommitFails(why, landed)
    BY <2>2, CommitFailsInv
  <2>3. CASE \E ok \in BOOLEAN : Ticks!UndoEnds(ok) \/ Ticks!UnwindEnds(ok) \/ Ticks!AbortEnds(ok)
    BY <2>3, RollBacksInv
  <2> QED BY <1>1, <2>1, <2>2, <2>3, WakeInv, HeartbeatInv, PaymentsDoneInv, CommitEndsInv, AfterPaymentsInv
       DEF Ticks!TickNext
<1>2. CASE UNCHANGED ticksVars
  BY <1>2 DEF ticksVars, TicksInv, TickTypes, Ticks!TickTypeOK, PhaseFits, StagedFits, DurableFits, InDoubt, Mine,
              Ticks!Accepted, Ticks!Pay, ToldFits, Ticks!Paid, Ticks!AnnouncedIsDurable, Ticks!DurableIsAnnounced,
              Ticks!ToldOnceInOrder, Ticks!ClearedIsTold
<1> QED BY <1>1, <1>2

----------------------------------------------------------------------------
(* The theorems about the tick. *)

TicksHold == part = "ticks" => TicksInv

LEMMA TicksHoldAlways == Spec => []TicksHold
<1>1. Init => TicksHold
  <2> SUFFICES ASSUME Init, part = "ticks" PROVE TicksInv
    BY DEF TicksHold
  <2>1. Ticks!TickInit
    BY DEF Init
  <2> QED BY <2>1, SimulatorAssumption, TicksInitInv DEF SimulatorAssumption
<1>2. TicksHold /\ [Next]_vars => TicksHold'
  <2> SUFFICES ASSUME TicksHold, [Next]_vars, part' = "ticks" PROVE TicksInv'
    BY DEF TicksHold
  <2>1. part = "ticks" /\ [Ticks!TickNext]_ticksVars
    BY DEF Next, vars, DriverStep, ViewerStep, driverVars, TicksStep, RunsStep, AdaptiveStep, DriftStep
  <2> QED BY <2>1, SimulatorAssumption, TicksNextInv DEF TicksHold, SimulatorAssumption
<1> QED BY <1>1, <1>2, PTL DEF Spec

\* resolve_commit_under_cancellation and the phases of a tick: whatever fails,
\* is cancelled or loses its answer, the payments of a tick are in the database
\* together or not at all, a refused one never is, "committed" is said of what
\* is there, and "rolled back" of what is not unless the answer was lost; for
\* any number of payments, ticks and faults.
THEOREM TicksStayAtomic == Spec => []TickIsAtomic
<1>1. TicksHold => TickIsAtomic
  <2> SUFFICES ASSUME TicksInv PROVE Ticks!TickTypeOK /\ Ticks!TickIsAtomic /\ Ticks!VerdictIsTrue
    BY DEF TicksHold, TickIsAtomic
  <2>1. verdict \in {"none", "commit", "rollback", "unknown"}
    BY DEF TicksInv, TickTypes, Ticks!TickTypeOK
  <2>2. Mine = {} \/ (Mine = Ticks!Accepted /\ pc # "pay")
    BY <2>1 DEF TicksInv, PhaseFits, DurableFits, InDoubt, Ticks!Undos
  <2>3. Ticks!TickIsAtomic
    BY <2>2 DEF Ticks!TickIsAtomic, Mine
  <2>4. \A p \in Ticks!Accepted : p[1] = tick
    BY DEF Ticks!Accepted, Ticks!Pay
  <2>5. Ticks!VerdictIsTrue
    BY <2>1, <2>4 DEF TicksInv, DurableFits, Ticks!VerdictIsTrue, Mine
  <2> QED BY <2>3, <2>5 DEF TicksInv, TickTypes
<1> QED BY <1>1, TicksHoldAlways, PTL

\* DeferredRealPaymentEffects and real_clearing_engine: a payment announced as
\* made is in the database, one in the database that was not announced is of a
\* tick whose commit failed for its caller, payments are announced once and in
\* the order planned over all ticks, and every cleared cycle is told of.
THEOREM ViewersStayInformed == Spec => []ViewersHearTheTruth
<1>1. TicksHold => ViewersHearTheTruth
  BY DEF TicksHold, TicksInv, ToldFits, ViewersHearTheTruth
<1> QED BY <1>1, TicksHoldAlways, PTL
----------------------------------------------------------------------------
(* The clearing request. *)

\* What was announced by a request: nothing while it goes on, and then all it counted.
AllAnnounced(r) ==
    announced[r] = IF clearPc[r] \in Clears!EndStates /\ counted[r] # {} THEN <<counted[r]>> ELSE <<>>

\* What a request counts is in the database, and the other way round.
ClearsInv ==
    /\ Clears!ClearingTypeOK
    /\ \A c \in open : clearedBy[c] = Clears!Nobody
    /\ \A r \in ClearingRequests, c \in Cycles : clearedBy[c] = r => c \in counted[r]
    /\ \A r \in ClearingRequests : \A c \in counted[r] : clearedBy[c] # Clears!Nobody
    /\ \A r \in ClearingRequests :
         /\ clearPc[r] = "shape" => todo[r] \subseteq counted[r]
         /\ clearPc[r] \in {"find", "try", "shape"} => rounds[r] < MaxRounds
         /\ AllAnnounced(r)
         /\ clearPc[r] \in {"ok", "failed"} => reported[r] = counted[r]

LEMMA ClearsInitInv ==
    ASSUME Clears!InteractClearingAssumption, Clears!ClearingInit
    PROVE  ClearsInv
<1> USE DEF Clears!ClearingInit, Clears!InteractClearingAssumption
<1>1. Clears!ClearingTypeOK
  <2>1. pending \in [ClearingRequests -> BOOLEAN]
    BY Zenon
  <2>2. announced \in [ClearingRequests -> Seq(SUBSET Cycles)]
    <3>1. <<>> \in Seq(SUBSET Cycles)
      OBVIOUS
    <3> QED BY <3>1
  <2>3. /\ open \subseteq Cycles /\ clearedBy \in [Cycles -> ClearingRequests \cup {Clears!Nobody}]
        /\ clearPc \in [ClearingRequests -> {"find", "try", "shape", "emit", "failing"} \cup Clears!EndStates]
        /\ todo \in [ClearingRequests -> SUBSET Cycles] /\ rounds \in [ClearingRequests -> 0..MaxRounds]
        /\ counted \in [ClearingRequests -> SUBSET Cycles] /\ reported \in [ClearingRequests -> SUBSET Cycles]
        /\ shaped \in [ClearingRequests -> SUBSET Cycles]
        /\ \A r \in ClearingRequests : shaped[r] \subseteq counted[r]
    OBVIOUS
  <2> QED BY <2>1, <2>2, <2>3, Zenon DEF Clears!ClearingTypeOK
<1>2. \A r \in ClearingRequests : AllAnnounced(r)
  BY DEF AllAnnounced, Clears!EndStates
<1>3. \A r \in ClearingRequests, c \in Cycles : clearedBy[c] # r
  OBVIOUS
<1> QED BY <1>1, <1>2, <1>3 DEF ClearsInv

\* A request goes on: nothing of what it has counted and announced changes.
LEMMA RequestGoesOn ==
    ASSUME Clears!InteractClearingAssumption, ClearsInv, NEW r \in ClearingRequests,
           Clears!Find(r) \/ (\E c \in Cycles : Clears!Skip(r, c)) \/ Clears!Shape(r) \/ Clears!Raise(r)
    PROVE  ClearsInv'
<1> USE DEF Clears!Goto, Clears!InteractClearingAssumption
<1>1. Clears!ClearingTypeOK
  BY DEF ClearsInv
<1>2. /\ UNCHANGED <<open, clearedBy, counted, announced, reported>>
      /\ \/ rounds' = rounds /\ shaped' = shaped
         \/ /\ shaped' = [shaped EXCEPT ![r] = @ \cup todo[r]] /\ todo[r] \subseteq counted[r]
            /\ rounds' = [rounds EXCEPT ![r] = rounds[r] + 1]
  BY DEF Clears!Find, Clears!Skip, Clears!Shape, Clears!Raise, ClearsInv
<1>3. /\ clearPc[r] \in {"find", "try", "shape"}
      /\ \E l \in {"find", "try", "emit", "failing"} : clearPc' = [clearPc EXCEPT ![r] = l]
      /\ (rounds' # rounds /\ clearPc'[r] = "find") => rounds[r] + 1 # MaxRounds
      /\ rounds' # rounds => clearPc'[r] \in {"find", "emit"}
  BY <1>1 DEF Clears!Find, Clears!Skip, Clears!Shape, Clears!Raise, Clears!ClearingTypeOK
<1>4. \E T \in SUBSET Cycles : todo' = [todo EXCEPT ![r] = T]
  BY <1>1 DEF Clears!Find, Clears!Skip, Clears!Shape, Clears!Raise, Clears!ClearingTypeOK
<1>5. pending' \in [ClearingRequests -> BOOLEAN]
  <2>1. pending \in [ClearingRequests -> BOOLEAN]
    BY <1>1 DEF Clears!ClearingTypeOK
  <2>2. pending' = pending \/ pending' = [pending EXCEPT ![r] = FALSE]
    BY Zenon DEF Clears!Find, Clears!Skip, Clears!Shape, Clears!Raise
  <2> QED BY <2>1, <2>2
<1>6. rounds[r] < MaxRounds
  BY <1>3 DEF ClearsInv
<1>7. Clears!ClearingTypeOK'
  <2>1. todo' \in [ClearingRequests -> SUBSET Cycles]
    BY <1>1, <1>4 DEF Clears!ClearingTypeOK
  <2>2. clearPc' \in [ClearingRequests -> {"find", "try", "shape", "emit", "failing"} \cup Clears!EndStates]
    BY <1>1, <1>3 DEF Clears!ClearingTypeOK
  <2>3. rounds' \in [ClearingRequests -> 0..MaxRounds]
    <3>1. rounds \in [ClearingRequests -> 0..MaxRounds] /\ rounds[r] + 1 \in 0..MaxRounds
      BY <1>1, <1>6 DEF Clears!ClearingTypeOK
    <3> QED BY <1>2, <3>1
  <2>4. shaped' \in [ClearingRequests -> SUBSET Cycles] /\ \A q \in ClearingRequests : shaped'[q] \subseteq counted'[q]
    <3>1. /\ shaped \in [ClearingRequests -> SUBSET Cycles] /\ todo[r] \subseteq Cycles /\ counted' = counted
          /\ \A q \in ClearingRequests : shaped[q] \subseteq counted[q]
      BY <1>1, <1>2 DEF Clears!ClearingTypeOK
    <3>2. CASE shaped' = shaped
      BY <3>1, <3>2
    <3>3. CASE shaped' = [shaped EXCEPT ![r] = @ \cup todo[r]] /\ todo[r] \subseteq counted[r]
      <4>1. shaped' \in [ClearingRequests -> SUBSET Cycles]
        BY <3>1, <3>3
      <4>2. \A q \in ClearingRequests : shaped'[q] = IF q = r THEN shaped[q] \cup todo[r] ELSE shaped[q]
        BY <3>1, <3>3
      <4> QED BY <3>1, <3>3, <4>1, <4>2
    <3> QED BY <1>2, <3>2, <3>3
  <2> QED BY <1>1, <1>2, <1>5, <2>1, <2>2, <2>3, <2>4, Zenon DEF Clears!ClearingTypeOK
<1>8. ASSUME NEW q \in ClearingRequests
      PROVE  /\ clearPc'[q] = "shape" => todo'[q] \subseteq counted'[q]
             /\ clearPc'[q] \in {"find", "try", "shape"} => rounds'[q] < MaxRounds
             /\ AllAnnounced(q)'
             /\ clearPc'[q] \in {"ok", "failed"} => reported'[q] = counted'[q]
  <2>1. CASE q # r
    <3>1. clearPc'[q] = clearPc[q] /\ todo'[q] = todo[q] /\ rounds'[q] = rounds[q]
      BY <1>1, <1>2, <1>3, <1>4, <2>1 DEF Clears!ClearingTypeOK
    <3> QED BY <1>2, <3>1 DEF ClearsInv, AllAnnounced
  <2>2. CASE q = r
    <3>1. clearPc'[r] \in {"find", "try", "emit", "failing"}
      BY <1>1, <1>3 DEF Clears!ClearingTypeOK
    <3>2. rounds[r] \in Nat /\ MaxRounds \in Nat
      BY <1>1 DEF Clears!ClearingTypeOK
    <3>3. rounds'[r] = rounds[r] \/ (rounds' # rounds /\ rounds'[r] = rounds[r] + 1)
      BY <1>1, <1>2, <3>2 DEF Clears!ClearingTypeOK
    <3>4. clearPc'[r] \in {"find", "try", "shape"} => rounds'[r] < MaxRounds
      BY <1>3, <1>6, <3>1, <3>2, <3>3
    <3>5. AllAnnounced(r)'
      BY <1>2, <1>3, <3>1 DEF ClearsInv, AllAnnounced, Clears!EndStates
    <3> QED BY <2>2, <3>1, <3>4, <3>5
  <2> QED BY <2>1, <2>2
<1> QED BY <1>2, <1>7, <1>8 DEF ClearsInv

\* A cycle is counted: in the database by this request, or found there.
LEMMA RequestCounts ==
    ASSUME Clears!InteractClearingAssumption, ClearsInv, NEW r \in ClearingRequests, NEW c \in Cycles,
           Clears!Clear(r, c) \/ Clears!Replay(r, c)
    PROVE  ClearsInv'
<1> USE DEF Clears!Goto, Clears!InteractClearingAssumption
<1>1. Clears!ClearingTypeOK
  BY DEF ClearsInv
<1>2. /\ clearPc[r] = "try" /\ clearPc' = [clearPc EXCEPT ![r] = "shape"]
      /\ counted' = [counted EXCEPT ![r] = counted[r] \cup {c}] /\ todo' = [todo EXCEPT ![r] = {c}]
      /\ UNCHANGED <<rounds, shaped, announced, reported>>
  BY DEF Clears!Clear, Clears!Replay, Clears!Count
<1>3. pending' \in [ClearingRequests -> BOOLEAN]
  <2>1. pending \in [ClearingRequests -> BOOLEAN]
    BY <1>1 DEF Clears!ClearingTypeOK
  <2>2. \E b \in BOOLEAN : pending' = [pending EXCEPT ![r] = b]
    BY Zenon DEF Clears!Clear, Clears!Replay, Clears!Count
  <2> QED BY <2>1, <2>2
<1>4. \/ clearedBy' = [clearedBy EXCEPT ![c] = r] /\ open' \subseteq open \ {c} /\ c \in open
      \/ clearedBy' = clearedBy /\ open' = open /\ clearedBy[c] # Clears!Nobody
  BY DEF Clears!Clear, Clears!Replay
<1>5. /\ \A d \in Cycles : clearedBy'[d] = clearedBy[d] \/ (d = c /\ clearedBy'[d] = r)
      /\ clearedBy'[c] # Clears!Nobody
      /\ clearedBy' \in [Cycles -> ClearingRequests \cup {Clears!Nobody}]
  <2>1. clearedBy \in [Cycles -> ClearingRequests \cup {Clears!Nobody}]
    BY <1>1 DEF Clears!ClearingTypeOK
  <2>2. CASE clearedBy' = [clearedBy EXCEPT ![c] = r]
    BY <2>1, <2>2
  <2>3. CASE clearedBy' = clearedBy /\ clearedBy[c] # Clears!Nobody
    BY <2>1, <2>3
  <2> QED BY <1>4, <2>2, <2>3
<1>6. counted'[r] = counted[r] \cup {c} /\ \A q \in ClearingRequests : counted[q] \subseteq counted'[q] /\ (q # r => counted'[q] = counted[q])
  BY <1>1, <1>2 DEF Clears!ClearingTypeOK
<1>7. Clears!ClearingTypeOK'
  <2>1. todo' \in [ClearingRequests -> SUBSET Cycles] /\ counted' \in [ClearingRequests -> SUBSET Cycles]
    BY <1>1, <1>2 DEF Clears!ClearingTypeOK
  <2>2. clearPc' \in [ClearingRequests -> {"find", "try", "shape", "emit", "failing"} \cup Clears!EndStates]
    BY <1>1, <1>2 DEF Clears!ClearingTypeOK
  <2>3. open' \subseteq Cycles
    BY <1>1, <1>4 DEF Clears!ClearingTypeOK
  <2>4. \A q \in ClearingRequests : shaped'[q] \subseteq counted'[q]
    BY <1>1, <1>2, <1>6 DEF Clears!ClearingTypeOK
  <2> QED BY <1>1, <1>2, <1>3, <1>5, <2>1, <2>2, <2>3, <2>4, Zenon DEF Clears!ClearingTypeOK
<1>8. ASSUME NEW q \in ClearingRequests
      PROVE  /\ clearPc'[q] = "shape" => todo'[q] \subseteq counted'[q]
             /\ clearPc'[q] \in {"find", "try", "shape"} => rounds'[q] < MaxRounds
             /\ AllAnnounced(q)'
             /\ clearPc'[q] \in {"ok", "failed"} => reported'[q] = counted'[q]
  <2>1. CASE q # r
    <3>1. clearPc'[q] = clearPc[q] /\ todo'[q] = todo[q] /\ rounds'[q] = rounds[q]
      BY <1>1, <1>2, <2>1 DEF Clears!ClearingTypeOK
    <3> QED BY <1>2, <1>6, <2>1, <3>1 DEF ClearsInv, AllAnnounced
  <2>2. CASE q = r
    <3>1. clearPc'[r] = "shape" /\ todo'[r] = {c} /\ rounds'[r] = rounds[r]
      BY <1>1, <1>2 DEF Clears!ClearingTypeOK
    <3>2. AllAnnounced(r)'
      BY <1>2, <3>1 DEF ClearsInv, AllAnnounced, Clears!EndStates
    <3>3. rounds[r] < MaxRounds
      BY <1>2 DEF ClearsInv
    <3> QED BY <1>6, <2>2, <3>1, <3>2, <3>3
  <2> QED BY <2>1, <2>2
<1>9. \A d \in open' : clearedBy'[d] = Clears!Nobody
  BY <1>1, <1>4 DEF ClearsInv, Clears!ClearingTypeOK
<1>10. \A q \in ClearingRequests, d \in Cycles : clearedBy'[d] = q => d \in counted'[q]
  BY <1>5, <1>6 DEF ClearsInv
<1>11. \A q \in ClearingRequests : \A d \in counted'[q] : clearedBy'[d] # Clears!Nobody
  <2> SUFFICES ASSUME NEW q \in ClearingRequests, NEW d \in counted'[q] PROVE clearedBy'[d] # Clears!Nobody
    OBVIOUS
  <2>1. d \in counted[q] \/ d = c
    BY <1>6
  <2>2. d \in Cycles
    BY <1>7 DEF Clears!ClearingTypeOK
  <2> QED BY <1>5, <2>1, <2>2 DEF ClearsInv
<1> QED BY <1>7, <1>8, <1>9, <1>10, <1>11 DEF ClearsInv

\* A request is over: what it has counted is announced.
LEMMA RequestEnds ==
    ASSUME Clears!InteractClearingAssumption, ClearsInv, NEW r \in ClearingRequests,
           Clears!ShapeRaisesCancellation(r) \/ Clears!Cancel(r) \/ Clears!Finish(r) \/ Clears!Fail(r)
    PROVE  ClearsInv'
<1> USE DEF Clears!Goto, Clears!End, Clears!EmitDone, Clears!EmitWithoutPatches, Clears!InteractClearingAssumption
<1>1. Clears!ClearingTypeOK
  BY DEF ClearsInv
<1>2. /\ clearPc[r] \in {"find", "try", "shape", "emit", "failing"}
      /\ todo' = [todo EXCEPT ![r] = {}]
      /\ announced' = [announced EXCEPT ![r] = IF counted[r] = {} THEN announced[r] ELSE Append(announced[r], counted[r])]
      /\ UNCHANGED <<open, clearedBy, rounds, counted, shaped>>
      /\ \/ clearPc' = [clearPc EXCEPT ![r] = "cancelled"] /\ reported' = reported
         \/ \E l \in {"ok", "failed"} : /\ clearPc' = [clearPc EXCEPT ![r] = l]
                                         /\ reported' = [reported EXCEPT ![r] = counted[r]]
  BY DEF Clears!ShapeRaisesCancellation, Clears!Cancel, Clears!Finish, Clears!Fail
<1>3. pending' \in [ClearingRequests -> BOOLEAN]
  <2>1. pending \in [ClearingRequests -> BOOLEAN]
    BY <1>1 DEF Clears!ClearingTypeOK
  <2>2. pending' = [pending EXCEPT ![r] = FALSE]
    BY Zenon DEF Clears!ShapeRaisesCancellation, Clears!Cancel, Clears!Finish, Clears!Fail
  <2> QED BY <2>1, <2>2
<1>4. announced[r] = <<>> /\ announced'[r] = IF counted[r] = {} THEN <<>> ELSE <<counted[r]>>
  <2>1. announced[r] = <<>>
    BY <1>2 DEF ClearsInv, AllAnnounced, Clears!EndStates
  <2>2. announced'[r] = IF counted[r] = {} THEN announced[r] ELSE Append(announced[r], counted[r])
    BY <1>1, <1>2 DEF Clears!ClearingTypeOK
  <2> QED BY <2>1, <2>2
<1>5. Clears!ClearingTypeOK'
  <2>1. todo' \in [ClearingRequests -> SUBSET Cycles]
    BY <1>1, <1>2 DEF Clears!ClearingTypeOK
  <2>2. clearPc' \in [ClearingRequests -> {"find", "try", "shape", "emit", "failing"} \cup Clears!EndStates]
    BY <1>1, <1>2 DEF Clears!ClearingTypeOK, Clears!EndStates
  <2>3. reported' \in [ClearingRequests -> SUBSET Cycles]
    BY <1>1, <1>2 DEF Clears!ClearingTypeOK
  <2>4. announced' \in [ClearingRequests -> Seq(SUBSET Cycles)]
    <3>1. counted[r] \in SUBSET Cycles /\ announced[r] \in Seq(SUBSET Cycles)
      BY <1>1 DEF Clears!ClearingTypeOK
    <3>2. (IF counted[r] = {} THEN announced[r] ELSE Append(announced[r], counted[r])) \in Seq(SUBSET Cycles)
      BY <3>1
    <3> QED BY <1>1, <1>2, <3>2 DEF Clears!ClearingTypeOK
  <2> QED BY <1>1, <1>2, <1>3, <2>1, <2>2, <2>3, <2>4, Zenon DEF Clears!ClearingTypeOK
<1>6. ASSUME NEW q \in ClearingRequests
      PROVE  /\ clearPc'[q] = "shape" => todo'[q] \subseteq counted'[q]
             /\ clearPc'[q] \in {"find", "try", "shape"} => rounds'[q] < MaxRounds
             /\ AllAnnounced(q)'
             /\ clearPc'[q] \in {"ok", "failed"} => reported'[q] = counted'[q]
  <2>1. CASE q # r
    <3>1. clearPc'[q] = clearPc[q] /\ todo'[q] = todo[q] /\ announced'[q] = announced[q] /\ reported'[q] = reported[q]
      BY <1>1, <1>2, <2>1 DEF Clears!ClearingTypeOK
    <3> QED BY <1>2, <3>1 DEF ClearsInv, AllAnnounced
  <2>2. CASE q = r
    <3>1. clearPc'[r] \in Clears!EndStates /\ (clearPc'[r] \in {"ok", "failed"} => reported'[r] = counted[r])
      BY <1>1, <1>2 DEF Clears!ClearingTypeOK, Clears!EndStates
    <3>2. AllAnnounced(r)'
      BY <1>2, <1>4, <3>1 DEF AllAnnounced
    <3> QED BY <1>2, <2>2, <3>1, <3>2 DEF Clears!EndStates
  <2> QED BY <2>1, <2>2
<1> QED BY <1>2, <1>5, <1>6 DEF ClearsInv

LEMMA ClearsNextInv ==
    ASSUME Clears!InteractClearingAssumption, ClearsInv, [Clears!ClearingNext]_clearVars
    PROVE  ClearsInv'
<1>1. ASSUME NEW r \in ClearingRequests, Clears!Step(r) \/ Clears!Raise(r) \/ Clears!Cancel(r) PROVE ClearsInv'
  BY <1>1, RequestGoesOn, RequestCounts, RequestEnds DEF Clears!Step
<1>2. ASSUME NEW c \in Cycles, Clears!OpenCycle(c) PROVE ClearsInv'
  <2>1. /\ clearedBy[c] = Clears!Nobody /\ open' = open \cup {c}
        /\ UNCHANGED <<clearedBy, clearPc, todo, rounds, counted, shaped, pending, announced, reported>>
    BY <1>2 DEF Clears!OpenCycle, Clears!requestVars
  <2>2. Clears!ClearingTypeOK'
    BY <2>1, Zenon DEF ClearsInv, Clears!ClearingTypeOK
  <2> QED BY <2>1, <2>2 DEF ClearsInv, AllAnnounced
<1>3. CASE UNCHANGED clearVars
  BY <1>3 DEF clearVars, ClearsInv, Clears!ClearingTypeOK, AllAnnounced
<1> QED BY <1>1, <1>2, <1>3 DEF Clears!ClearingNext

ClearsHold == part = "clears" => ClearsInv

LEMMA ClearsHoldAlways == Spec => []ClearsHold
<1>1. Init => ClearsHold
  <2> SUFFICES ASSUME Init, part = "clears" PROVE ClearsInv
    BY DEF ClearsHold
  <2>1. Clears!ClearingInit
    BY DEF Init
  <2> QED BY <2>1, SimulatorAssumption, ClearsInitInv DEF SimulatorAssumption
<1>2. ClearsHold /\ [Next]_vars => ClearsHold'
  <2> SUFFICES ASSUME ClearsHold, [Next]_vars, part' = "clears" PROVE ClearsInv'
    BY DEF ClearsHold
  <2>1. part = "clears" /\ [Clears!ClearingNext]_clearVars
    BY DEF Next, vars, DriverStep, ViewerStep, viewerVars, InjectStep, ActionsStep, ClearsStep, StreamStep, BusStep
  <2> QED BY <2>1, SimulatorAssumption, ClearsNextInv DEF ClearsHold, SimulatorAssumption
<1> QED BY <1>1, <1>2, PTL DEF Spec

\* action_clearing_real: whatever ends a request (an answer, a failure after some
\* cycles, a cancellation before, during or after a commit), each cycle that it
\* cleared has been announced, in one announcement, and its answer tells of it and
\* of none that is not in the database; for any number of requests and cycles.
THEOREM ClearingStaysAnnounced == Spec => []ClearingIsAnnounced
<1>1. ClearsHold => ClearingIsAnnounced
  <2> SUFFICES ASSUME ClearsInv
               PROVE  /\ Clears!ClearingTypeOK /\ Clears!DurableIsAnnounced
                      /\ Clears!AnnouncedAtMostOnce /\ Clears!AnswerTellsProgress
    BY DEF ClearsHold, ClearingIsAnnounced
  <2>1. Clears!AnnouncedAtMostOnce
    <3>1. \A x : Len(<<>>) <= 1 /\ Len(<<x>>) <= 1
      OBVIOUS
    <3>2. \A r \in ClearingRequests : announced[r] = <<>> \/ announced[r] = <<counted[r]>>
      BY DEF ClearsInv, AllAnnounced
    <3> QED BY <3>1, <3>2, Zenon DEF Clears!AnnouncedAtMostOnce
  <2>2. Clears!AnswerTellsProgress
    BY DEF ClearsInv, Clears!AnswerTellsProgress
  <2>3. Clears!DurableIsAnnounced
    <3> SUFFICES ASSUME NEW r \in ClearingRequests, NEW c \in Cycles, Clears!Over(r), clearedBy[c] = r
                 PROVE  c \in UNION Clears!Range(announced[r])
      BY DEF Clears!DurableIsAnnounced
    <3>1. c \in counted[r] /\ announced[r] = <<counted[r]>>
      BY DEF ClearsInv, AllAnnounced, Clears!Over
    <3>2. counted[r] \in Clears!Range(announced[r])
      BY <3>1 DEF Clears!Range
    <3> QED BY <3>1, <3>2
  <2> QED BY <2>1, <2>2, <2>3 DEF ClearsInv
<1> QED BY <1>1, ClearsHoldAlways, PTL
----------------------------------------------------------------------------
(* Viewers' actions. *)

\* The places of a request that is in progress, and of one that is past the seeding.
Arriving == {"seed", "wait", "seeding"}
Inside == {"scope", "transact", "mutate", "publish"}

\* One entry of the scenario to a live line, none to any other; before the seeding a
\* line of the scenario may be missing from the database.
Agrees(p) ==
    /\ view[p] = <<>> \/ Len(view[p]) = 1
    /\ Actions!Live(p) => Len(view[p]) = 1
    /\ seeded = TRUE /\ ~Actions!Live(p) => view[p] = <<>>

\* A committed change that memory does not have yet.
Ahead(p, op) ==
    /\ op = "create" => Actions!Live(p) /\ view[p] = <<>>
    /\ op = "update" => Actions!Live(p) /\ Len(view[p]) = 1
    /\ op = "close" => ~Actions!Live(p) /\ Len(view[p]) = 1

\* Where a request is says what it asks for, what it has done and what it found.
RequestFits(r) ==
    /\ actPc[r] \notin Actions!Ended => job[r] \in Actions!Jobs
    /\ actPc[r] = "seeding" => seeder = r
    /\ actPc[r] \in Inside => seeded = TRUE
    /\ actPc[r] \in {"mutate", "publish", "ok"} => done[r] = TRUE
    /\ actPc[r] \in Arriving \cup {"scope", "transact", "error"} => done[r] = FALSE
    /\ actPc[r] = "mutate" => job[r].op # "pay"
    /\ actPc[r] \in {"transact", "mutate"} => job[r].pair \in InRun

\* The seeding, under its lock.
SeedingFits ==
    /\ seeder # "free" => seeded = FALSE
    /\ seeded = TRUE => rows = TRUE

\* Without overlap one request at most is in progress, and the view agrees with
\* the lines memory has learned of but for what that request is about to change in it.
ViewFits ==
    overlapped = FALSE =>
        /\ \A r, q \in ActionRequests :
             actPc[r] \notin Actions!Ended /\ actPc[q] \notin Actions!Ended => r = q
        /\ \A p \in InRun \ astray :
             /\ (\A r \in ActionRequests : ~(actPc[r] = "mutate" /\ job[r].pair = p)) => Agrees(p)
             /\ \A r \in ActionRequests : actPc[r] = "mutate" /\ job[r].pair = p => Ahead(p, job[r].op)

ActionsInv ==
    /\ Actions!InteractTypeOK /\ SeedingFits
    /\ \A r \in ActionRequests : RequestFits(r)
    /\ Actions!LimitsCoverDebts /\ ViewFits

LEMMA LimitsArePositive ==
    ASSUME Actions!InteractAssumption
    PROVE  \A l \in Limits : l \in Nat /\ l > 0 /\ l # Actions!NoLine
<1>1. Limits \subseteq Nat \ {0}
  BY DEF Actions!InteractAssumption
<1> QED BY <1>1 DEF Actions!NoLine

LEMMA ActionsInitInv ==
    ASSUME Actions!InteractAssumption, Actions!InteractInit
    PROVE  ActionsInv
<1> USE DEF Actions!InteractInit, Actions!InteractAssumption
<1>1. seeded \in BOOLEAN /\ rows \in BOOLEAN /\ overlapped \in BOOLEAN /\ done \in [ActionRequests -> BOOLEAN]
  BY Zenon
<1>2. ASSUME NEW p \in LinePairs
      PROVE  view[p] \in Seq(Limits) /\ (view[p] = <<>> \/ Len(view[p]) = 1)
  <2>1. view[p] = <<>> \/ \E l \in Limits : view[p] = <<l>>
    OBVIOUS
  <2>2. \A l \in Limits : <<l>> \in Seq(Limits) /\ Len(<<l>>) = 1
    OBVIOUS
  <2>3. <<>> \in Seq(Limits)
    OBVIOUS
  <2> QED BY <2>1, <2>2, <2>3, Zenon
<1>9. view \in [LinePairs -> Seq(Limits)]
  BY <1>2
<1>3. Actions!InteractTypeOK
  BY <1>1, <1>9 DEF Actions!InteractTypeOK, Actions!Ended
<1>4. /\ seeder = "free" /\ seeded = FALSE /\ overlapped = FALSE
      /\ \A r \in ActionRequests : actPc[r] = "idle"
  BY Zenon
<1>5. SeedingFits /\ \A r \in ActionRequests : RequestFits(r)
  BY <1>4 DEF SeedingFits, RequestFits, Actions!Ended, Inside, Arriving
<1>6. Actions!LimitsCoverDebts
  BY DEF Actions!LimitsCoverDebts
<1>7. \A p \in InRun \ astray : Agrees(p)
  BY <1>2, <1>4 DEF Agrees, Actions!Live
<1>8. ViewFits
  BY <1>4, <1>7 DEF ViewFits, Actions!Ended
<1> QED BY <1>3, <1>5, <1>6, <1>8 DEF ActionsInv

\* A request that goes from one place to another and touches neither the rows nor
\* the view.
LEMMA RequestMoves ==
    ASSUME Actions!InteractAssumption, ActionsInv, NEW r \in ActionRequests, NEW l,
           actPc' = [actPc EXCEPT ![r] = l], actPc[r] # "mutate",
           l \in Actions!Ended \cup Arriving \cup {"scope", "transact", "publish"},
           UNCHANGED <<runEnd, seeded, rows, line, lent, view, astray>>,
           seeder' \in ActionRequests \cup {"tick", "free"},
           \A q \in ActionRequests : q # r => job'[q] = job[q] /\ done'[q] = done[q],
           \A q \in ActionRequests : q # r /\ actPc[q] = "seeding" => seeder' = seeder,
           seeder' # "free" => seeded = FALSE,
           done' \in [ActionRequests -> BOOLEAN], job' \in [ActionRequests -> Actions!Jobs \cup {Actions!NoJob}],
           arrived' \in 0..MaxActions, overlapped' \in BOOLEAN,
           overlapped' = FALSE => overlapped = FALSE,
           l \in Actions!Ended \/ actPc[r] \notin Actions!Ended
             \/ (overlapped' = FALSE => \A q \in ActionRequests : actPc[q] \in Actions!Ended),
           RequestFits(r)'
    PROVE  ActionsInv'
<1>1. Actions!InteractTypeOK'
  <2>1. actPc' \in [ActionRequests -> Actions!Ended \cup {"seed", "wait", "seeding", "scope",
                                                         "transact", "mutate", "publish"}]
    BY DEF ActionsInv, Actions!InteractTypeOK, Arriving
  <2>3. seeded' \in BOOLEAN /\ rows' \in BOOLEAN
    BY Zenon DEF ActionsInv, Actions!InteractTypeOK
  <2> QED BY <2>1, <2>3 DEF ActionsInv, Actions!InteractTypeOK
<1>2. \A q \in ActionRequests : q # r => actPc'[q] = actPc[q]
  BY DEF ActionsInv, Actions!InteractTypeOK
<1>3. ASSUME NEW q \in ActionRequests PROVE RequestFits(q)'
  BY <1>2 DEF ActionsInv, RequestFits
<1>4. SeedingFits'
  BY DEF ActionsInv, SeedingFits
<1>5. Actions!LimitsCoverDebts'
  BY DEF ActionsInv, Actions!LimitsCoverDebts, Actions!Live
<1>6. ViewFits'
  <2> SUFFICES ASSUME overlapped' = FALSE PROVE ViewFits'
    BY DEF ViewFits
  <2>1. actPc'[r] = l /\ l # "mutate"
    BY DEF ActionsInv, Actions!InteractTypeOK, Actions!Ended, Arriving
  <2>2. \A p \in InRun : (Agrees(p) => Agrees(p)') /\ \A op : Ahead(p, op) => Ahead(p, op)'
    BY DEF Agrees, Ahead, Actions!Live
  <2>3. \A q, t \in ActionRequests :
          actPc'[q] \notin Actions!Ended /\ actPc'[t] \notin Actions!Ended => q = t
    BY <1>2, <2>1 DEF ActionsInv, ViewFits
  <2>4. ASSUME NEW p \in InRun \ astray
        PROVE  /\ (\A q \in ActionRequests : ~(actPc'[q] = "mutate" /\ job'[q].pair = p)) => Agrees(p)'
               /\ \A q \in ActionRequests : actPc'[q] = "mutate" /\ job'[q].pair = p => Ahead(p, job[q].op)'
    <3>1. \A q \in ActionRequests : actPc[q] = "mutate" => q # r /\ actPc'[q] = "mutate" /\ job'[q] = job[q]
      BY <1>2
    <3>2. \A q \in ActionRequests : actPc'[q] = "mutate" => q # r /\ actPc[q] = "mutate" /\ job'[q] = job[q]
      BY <1>2, <2>1
    <3>3. /\ (\A q \in ActionRequests : ~(actPc[q] = "mutate" /\ job[q].pair = p)) => Agrees(p)
          /\ \A q \in ActionRequests : actPc[q] = "mutate" /\ job[q].pair = p => Ahead(p, job[q].op)
      BY DEF ActionsInv, ViewFits
    <3>4. ASSUME NEW q \in ActionRequests, actPc'[q] = "mutate", job'[q].pair = p PROVE Ahead(p, job[q].op)'
      <4>1. Ahead(p, job[q].op)
        BY <3>2, <3>3, <3>4
      <4> QED BY <3>2, <3>4, <4>1 DEF Ahead, Actions!Live
    <3>5. ASSUME \A q \in ActionRequests : ~(actPc'[q] = "mutate" /\ job'[q].pair = p) PROVE Agrees(p)'
      BY <2>2, <3>1, <3>3, <3>5
    <3> QED BY <3>4, <3>5
  <2> QED BY <2>3, <2>4 DEF ViewFits
<1> QED BY <1>1, <1>3, <1>4, <1>5, <1>6 DEF ActionsInv

LEMMA ArrivalsInv ==
    ASSUME Actions!InteractAssumption, ActionsInv, NEW r \in ActionRequests,
           \/ Actions!Refuse(r)
           \/ \E j \in Actions!Jobs, a \in Actions!Actors : Actions!Arrive(r, j, a)
    PROVE  ActionsInv'
<1> USE DEF Actions!Goto
<1>1. CASE Actions!Refuse(r)
  <2>1. /\ actPc[r] \in Actions!Ended /\ actPc' = [actPc EXCEPT ![r] = "error"] /\ arrived' = arrived + 1
        /\ arrived < MaxActions /\ done' = [done EXCEPT ![r] = FALSE]
        /\ UNCHANGED <<job, overlapped, runEnd, seeded, rows, seeder, line, lent, view, astray>>
    BY <1>1 DEF Actions!Refuse, Actions!db
  <2>2. done' \in [ActionRequests -> BOOLEAN] /\ overlapped' \in BOOLEAN /\ done'[r] = FALSE
    BY <2>1, Zenon DEF ActionsInv, Actions!InteractTypeOK
  <2>3. actPc'[r] = "error" /\ arrived' \in 0..MaxActions /\ job' \in [ActionRequests -> Actions!Jobs \cup {Actions!NoJob}]
    BY <2>1 DEF ActionsInv, Actions!InteractTypeOK, Actions!InteractAssumption
  <2>4. RequestFits(r)'
    BY <2>2, <2>3 DEF RequestFits, Actions!Ended, Inside, Arriving
  <2>5. \A q \in ActionRequests : q # r => job'[q] = job[q] /\ done'[q] = done[q]
    BY <2>1 DEF ActionsInv, Actions!InteractTypeOK
  <2> QED BY <2>1, <2>2, <2>3, <2>4, <2>5, RequestMoves
          DEF ActionsInv, SeedingFits, Actions!InteractTypeOK, Actions!Ended
<1>2. ASSUME NEW j \in Actions!Jobs, NEW a \in Actions!Actors, Actions!Arrive(r, j, a)
      PROVE  ActionsInv'
  <2>1. /\ actPc[r] \in Actions!Ended /\ actPc' = [actPc EXCEPT ![r] = "seed"] /\ arrived' = arrived + 1
        /\ arrived < MaxActions /\ done' = [done EXCEPT ![r] = FALSE] /\ job' = [job EXCEPT ![r] = j]
        /\ overlapped' = (overlapped \/ \E q \in ActionRequests : actPc[q] \notin Actions!Ended)
        /\ UNCHANGED <<runEnd, seeded, rows, seeder, line, lent, view, astray>>
    BY <1>2 DEF Actions!Arrive, Actions!db
  <2>2. done' \in [ActionRequests -> BOOLEAN] /\ overlapped' \in BOOLEAN /\ done'[r] = FALSE
    BY <2>1, Zenon DEF ActionsInv, Actions!InteractTypeOK
  <2>3. actPc'[r] = "seed" /\ arrived' \in 0..MaxActions /\ job'[r] = j
        /\ job' \in [ActionRequests -> Actions!Jobs \cup {Actions!NoJob}]
    BY <2>1 DEF ActionsInv, Actions!InteractTypeOK, Actions!InteractAssumption
  <2>4. RequestFits(r)'
    BY <2>2, <2>3 DEF RequestFits, Actions!Ended, Inside, Arriving
  <2>5. \A q \in ActionRequests : q # r => job'[q] = job[q] /\ done'[q] = done[q]
    BY <2>1 DEF ActionsInv, Actions!InteractTypeOK
  <2>6. overlapped' = FALSE => overlapped = FALSE /\ \A q \in ActionRequests : actPc[q] \in Actions!Ended
    BY <2>1, Zenon DEF ActionsInv, Actions!InteractTypeOK
  <2> QED BY <2>1, <2>2, <2>3, <2>4, <2>5, <2>6, RequestMoves
          DEF ActionsInv, SeedingFits, Actions!InteractTypeOK, Actions!Ended, Arriving
<1> QED BY <1>1, <1>2

\* The steps of a request that end it, or take it on without a change of rows or view.
LEMMA AnswersInv ==
    ASSUME Actions!InteractAssumption, ActionsInv, NEW r \in ActionRequests, NEW outcome \in {"ok", "error", "unknown"},
           actPc[r] \notin Actions!Ended \cup {"mutate"}, Actions!Answer(r, outcome),
           UNCHANGED <<runEnd, seeded, rows, line, lent, view, astray, done>>,
           seeder' \in ActionRequests \cup {"tick", "free"},
           \A q \in ActionRequests : q # r /\ actPc[q] = "seeding" => seeder' = seeder,
           seeder' # "free" => seeded = FALSE,
           outcome = "ok" => done[r] = TRUE, outcome = "error" => done[r] = FALSE
    PROVE  ActionsInv'
<1>1. /\ actPc' = [actPc EXCEPT ![r] = outcome] /\ job' = [job EXCEPT ![r] = Actions!NoJob]
      /\ UNCHANGED <<arrived, overlapped>>
  BY DEF Actions!Answer, Actions!Goto, Actions!arrivals
<1>2. done' \in [ActionRequests -> BOOLEAN] /\ overlapped' \in BOOLEAN
  BY <1>1, Zenon DEF ActionsInv, Actions!InteractTypeOK
<1>3. actPc'[r] = outcome /\ job' \in [ActionRequests -> Actions!Jobs \cup {Actions!NoJob}]
  BY <1>1 DEF ActionsInv, Actions!InteractTypeOK
<1>4. RequestFits(r)'
  BY <1>1, <1>3 DEF RequestFits, Actions!Ended, Inside, Arriving
<1>5. \A q \in ActionRequests : q # r => job'[q] = job[q] /\ done'[q] = done[q]
  BY <1>1 DEF ActionsInv, Actions!InteractTypeOK
<1> QED BY <1>1, <1>2, <1>3, <1>4, <1>5, RequestMoves
        DEF ActionsInv, SeedingFits, Actions!InteractTypeOK, Actions!Ended

LEMMA PassesInv ==
    ASSUME Actions!InteractAssumption, ActionsInv, NEW r \in ActionRequests,
           NEW l \in Arriving \cup {"scope", "transact"},
           actPc[r] \in Arriving \cup {"scope"}, Actions!Goto(r, l),
           UNCHANGED <<runEnd, seeded, rows, line, lent, view, astray, job, done, arrived, overlapped>>,
           seeder' \in ActionRequests \cup {"tick", "free"},
           \A q \in ActionRequests : q # r /\ actPc[q] = "seeding" => seeder' = seeder,
           seeder' # "free" => seeded = FALSE,
           l = "seeding" => seeder' = r,
           l \in Inside => seeded = TRUE,
           l = "transact" => job[r].pair \in InRun
    PROVE  ActionsInv'
<1>1. actPc' = [actPc EXCEPT ![r] = l]
  BY DEF Actions!Goto
<1>2. done' \in [ActionRequests -> BOOLEAN] /\ overlapped' \in BOOLEAN
  BY Zenon DEF ActionsInv, Actions!InteractTypeOK
<1>3. actPc'[r] = l /\ actPc[r] \notin Actions!Ended
  BY <1>1 DEF ActionsInv, Actions!InteractTypeOK, Actions!Ended, Arriving
<1>4. RequestFits(r)'
  BY <1>3 DEF ActionsInv, RequestFits, Actions!Ended, Inside, Arriving
<1> QED BY <1>1, <1>2, <1>3, <1>4, RequestMoves
        DEF ActionsInv, SeedingFits, Actions!InteractTypeOK, Actions!Ended, Arriving

LEMMA RequestStepsInv ==
    ASSUME Actions!InteractAssumption, ActionsInv, NEW r \in ActionRequests,
           \/ Actions!AlreadySeeded(r) \/ Actions!WaitForSeedLock(r) \/ Actions!TakeSeedLock(r)
           \/ Actions!EnterPerimeter(r) \/ Actions!PerimeterUnavailable(r)
           \/ Actions!Reject(r) \/ Actions!RejectPayment(r)
           \/ Actions!PublishTopology(r) \/ Actions!PublishPayment(r)
    PROVE  ActionsInv'
<1> USE DEF Actions!db, Actions!arrivals
<1>1. seeder \in ActionRequests \cup {"tick", "free"} /\ (seeder # "free" => seeded = FALSE) /\ seeded \in BOOLEAN
  BY Zenon DEF ActionsInv, SeedingFits, Actions!InteractTypeOK
<1>2. CASE Actions!AlreadySeeded(r)
  <2>1. actPc[r] = "seed" /\ seeded = TRUE /\ Actions!Goto(r, "scope")
    BY <1>1, <1>2, Zenon DEF Actions!AlreadySeeded
  <2> QED BY <1>1, <1>2, <2>1, PassesInv DEF Actions!AlreadySeeded, Arriving
<1>3. CASE Actions!WaitForSeedLock(r)
  BY <1>1, <1>3, PassesInv DEF Actions!WaitForSeedLock, Arriving, Inside
<1>4. CASE Actions!TakeSeedLock(r)
  <2>1. /\ actPc[r] = "wait" /\ seeder = "free"
        /\ UNCHANGED <<runEnd, seeded, rows, line, lent, view, astray, job, done, arrived, overlapped>>
        /\ \/ seeded = TRUE /\ Actions!Goto(r, "scope") /\ seeder' = seeder
           \/ seeded = FALSE /\ Actions!Goto(r, "seeding") /\ seeder' = r
    BY <1>1, <1>4, Zenon DEF Actions!TakeSeedLock
  <2>2. \A q \in ActionRequests : actPc[q] # "seeding"
    BY <2>1 DEF ActionsInv, RequestFits, Actions!InteractAssumption
  <2> QED BY <1>1, <2>1, <2>2, PassesInv DEF Arriving, Inside
<1>7. CASE Actions!EnterPerimeter(r)
  <2>1. CASE Actions!ResolveParticipants(job[r].pair)
    BY <1>1, <1>7, <2>1, PassesInv
       DEF ActionsInv, RequestFits, Actions!EnterPerimeter, Actions!ResolveParticipants, Arriving, Inside
  <2>2. CASE ~Actions!ResolveParticipants(job[r].pair)
    BY <1>1, <1>7, <2>2, AnswersInv DEF ActionsInv, RequestFits, Actions!EnterPerimeter, Actions!Ended
  <2> QED BY <2>1, <2>2
<1>8. CASE Actions!PerimeterUnavailable(r) \/ Actions!Reject(r) \/ Actions!RejectPayment(r)
  BY <1>1, <1>8, AnswersInv
     DEF ActionsInv, RequestFits, Actions!PerimeterUnavailable, Actions!Reject, Actions!RejectPayment, Actions!Ended
<1>9. CASE Actions!PublishTopology(r) \/ Actions!PublishPayment(r)
  BY <1>1, <1>9, AnswersInv
     DEF ActionsInv, RequestFits, Actions!PublishTopology, Actions!PublishPayment, Actions!Ended
<1> QED BY <1>2, <1>3, <1>4, <1>7, <1>8, <1>9

\* What seeding does to the lines: those of the scenario are there, others stay.
LEMMA SeededLines ==
    ASSUME Actions!InteractAssumption, ActionsInv, Actions!SeedLines, view' = view, lent' = lent
    PROVE  /\ line' \in [LinePairs -> Limits \cup {Actions!NoLine}]
           /\ Actions!LimitsCoverDebts'
           /\ \A p \in LinePairs : /\ Actions!Live(p) => line'[p] = line[p]
                                   /\ view[p] # <<>> => line'[p] # Actions!NoLine
                                   /\ view[p] = <<>> => line'[p] = line[p]
<1>1. line' = [p \in LinePairs |-> IF ~Actions!Live(p) /\ view[p] # <<>> THEN view[p][1] ELSE line[p]]
  BY DEF Actions!SeedLines
<1>2. ASSUME NEW p \in LinePairs PROVE line[p] \in Limits \cup {Actions!NoLine}
  BY DEF ActionsInv, Actions!InteractTypeOK
<1>3. ASSUME NEW p \in LinePairs, view[p] # <<>> PROVE view[p][1] \in Limits /\ view[p][1] # Actions!NoLine
  <2>1. view[p] \in Seq(Limits)
    BY DEF ActionsInv, Actions!InteractTypeOK
  <2>2. view[p][1] \in Limits
    BY <1>3, <2>1
  <2> QED BY <2>2 DEF Actions!InteractAssumption, Actions!NoLine
<1>4. \A p \in LinePairs : /\ Actions!Live(p) => line'[p] = line[p]
                           /\ view[p] # <<>> => line'[p] # Actions!NoLine
                           /\ view[p] = <<>> => line'[p] = line[p]
  BY <1>1, <1>3 DEF Actions!Live
<1>5. Actions!LimitsCoverDebts'
  BY <1>4 DEF ActionsInv, Actions!LimitsCoverDebts, Actions!Live
<1> QED BY <1>1, <1>2, <1>3, <1>4, <1>5

\* The seeding is durable, of a request or of the tick, and known to be or not.
LEMMA SeedingEnds ==
    ASSUME Actions!InteractAssumption, ActionsInv, Actions!SeedLines,
           seeded = FALSE, seeded' \in BOOLEAN, rows' = TRUE, seeder' = "free",
           UNCHANGED <<runEnd, lent, view, astray, done, arrived, overlapped>>,
           actPc' \in [ActionRequests -> Actions!Ended \cup Arriving \cup {"scope"}],
           job' \in [ActionRequests -> Actions!Jobs \cup {Actions!NoJob}],
           \A q \in ActionRequests :
             \/ actPc'[q] = actPc[q] /\ actPc[q] # "seeding" /\ job'[q] = job[q]
             \/ actPc[q] = "seeding" /\ actPc'[q] = "scope" /\ job'[q] = job[q] /\ seeded' = TRUE
             \/ actPc[q] = "seeding" /\ actPc'[q] = "error"
    PROVE  ActionsInv'
<1>1. /\ line' \in [LinePairs -> Limits \cup {Actions!NoLine}] /\ Actions!LimitsCoverDebts'
      /\ \A p \in LinePairs : /\ Actions!Live(p) => line'[p] = line[p]
                              /\ view[p] # <<>> => line'[p] # Actions!NoLine
                              /\ view[p] = <<>> => line'[p] = line[p]
  BY SeededLines
<1>2. done' \in [ActionRequests -> BOOLEAN] /\ overlapped' \in BOOLEAN /\ rows' \in BOOLEAN
  BY Zenon DEF ActionsInv, Actions!InteractTypeOK
<1>3. Actions!InteractTypeOK'
  BY <1>1, <1>2 DEF ActionsInv, Actions!InteractTypeOK, Arriving
<1>4. SeedingFits'
  BY DEF SeedingFits
<1>5. ASSUME NEW q \in ActionRequests PROVE RequestFits(q)'
  BY DEF ActionsInv, RequestFits, Actions!Ended, Arriving, Inside
<1>6. \A q \in ActionRequests : /\ actPc[q] # "mutate" /\ actPc'[q] # "mutate"
                                /\ actPc'[q] \notin Actions!Ended => actPc[q] \notin Actions!Ended
  BY DEF ActionsInv, RequestFits, Inside, Actions!Ended, Arriving
<1>7. ASSUME NEW p \in InRun, Agrees(p) PROVE Agrees(p)'
  BY <1>1, <1>7 DEF Agrees, Actions!Live, Actions!InteractAssumption
<1>8. ViewFits'
  BY <1>6, <1>7 DEF ActionsInv, ViewFits
<1> QED BY <1>1, <1>3, <1>4, <1>5, <1>8 DEF ActionsInv

\* What the transaction of a request does to the line it names.
LEMMA EffectKeepsLimits ==
    ASSUME Actions!InteractAssumption, ActionsInv, NEW j \in Actions!Jobs, Actions!Effect(j)
    PROVE  /\ line' \in [LinePairs -> Limits \cup {Actions!NoLine}] /\ lent' \in [LinePairs -> Nat]
           /\ Actions!LimitsCoverDebts'
           /\ \A p \in LinePairs : p # j.pair => line'[p] = line[p]
           /\ j.op = "create" => line[j.pair] = Actions!NoLine /\ line'[j.pair] # Actions!NoLine
           /\ j.op = "update" => line[j.pair] # Actions!NoLine /\ line'[j.pair] # Actions!NoLine
           /\ j.op = "close" => line[j.pair] # Actions!NoLine /\ line'[j.pair] = Actions!NoLine
           /\ j.op = "pay" => line' = line
<1> DEFINE p == j.pair
<1>1. p \in LinePairs /\ j.lim \in Limits /\ j.op \in Actions!Ops
  BY DEF Actions!Jobs
<1>2. j.lim \in Nat /\ j.lim > 0 /\ j.lim # Actions!NoLine
  BY <1>1, LimitsArePositive
<1>3. line \in [LinePairs -> Limits \cup {Actions!NoLine}] /\ lent \in [LinePairs -> Nat]
  BY DEF ActionsInv, Actions!InteractTypeOK
<1>4. \A q \in LinePairs : lent[q] > 0 => line[q] # Actions!NoLine /\ lent[q] <= line[q]
  BY DEF ActionsInv, Actions!LimitsCoverDebts, Actions!Live
<1>5. Actions!LimitsCoverDebts' <=> \A q \in LinePairs : lent'[q] > 0 => line'[q] # Actions!NoLine /\ lent'[q] <= line'[q]
  BY DEF Actions!LimitsCoverDebts, Actions!Live
<1> HIDE DEF p
<1>6. ASSUME line' = [line EXCEPT ![p] = j.lim], lent' = lent, j.lim >= lent[p]
      PROVE  line' \in [LinePairs -> Limits \cup {Actions!NoLine}] /\ line'[p] = j.lim /\ Actions!LimitsCoverDebts'
             /\ \A q \in LinePairs : q # p => line'[q] = line[q]
  BY <1>1, <1>2, <1>3, <1>4, <1>5, <1>6
<1>7. ASSUME line' = [line EXCEPT ![p] = Actions!NoLine], lent' = lent, lent[p] = 0
      PROVE  line' \in [LinePairs -> Limits \cup {Actions!NoLine}] /\ line'[p] = Actions!NoLine /\ Actions!LimitsCoverDebts'
             /\ \A q \in LinePairs : q # p => line'[q] = line[q]
  BY <1>1, <1>3, <1>4, <1>5, <1>7
<1>8. ASSUME lent' = [lent EXCEPT ![p] = lent[p] + 1], line' = line, line[p] # Actions!NoLine, lent[p] < line[p]
      PROVE  lent' \in [LinePairs -> Nat] /\ Actions!LimitsCoverDebts'
  <2>1. line[p] \in Nat
    BY <1>1, <1>3, <1>8, LimitsArePositive
  <2> QED BY <1>1, <1>3, <1>4, <1>5, <1>8, <2>1
<1>9. \/ j.op = "create" /\ line[p] = Actions!NoLine /\ j.lim >= lent[p] /\ line' = [line EXCEPT ![p] = j.lim] /\ lent' = lent
      \/ j.op = "update" /\ line[p] # Actions!NoLine /\ j.lim >= lent[p] /\ line' = [line EXCEPT ![p] = j.lim] /\ lent' = lent
      \/ j.op = "close" /\ line[p] # Actions!NoLine /\ lent[p] = 0 /\ line' = [line EXCEPT ![p] = Actions!NoLine] /\ lent' = lent
      \/ j.op = "pay" /\ line[p] # Actions!NoLine /\ lent[p] < line[p] /\ line' = line /\ lent' = [lent EXCEPT ![p] = lent[p] + 1]
  BY DEF p, Actions!Effect, Actions!TrustlineCreate, Actions!TrustlineUpdate, Actions!TrustlineClose,
         Actions!PaymentReal, Actions!Used, Actions!Live
<1>10. CASE j.op = "create" \/ j.op = "update"
  BY <1>2, <1>3, <1>6, <1>9, <1>10 DEF p
<1>11. CASE j.op = "close"
  BY <1>3, <1>7, <1>9, <1>11 DEF p
<1>12. CASE j.op = "pay"
  BY <1>3, <1>8, <1>9, <1>12 DEF p
<1> QED BY <1>1, <1>10, <1>11, <1>12 DEF Actions!Ops

\* What happens around the requests.
LEMMA AroundInv ==
    ASSUME Actions!InteractAssumption, ActionsInv,
           \/ \E p \in LinePairs : Actions!Elsewhere(p)
           \/ Actions!StopRun \/ Actions!TickTakesSeedLock \/ Actions!TickSeeds
           \/ \E r \in ActionRequests : Actions!SeedCommits(r) \/ Actions!SeedFails(r)
    PROVE  ActionsInv'
<1> USE DEF Actions!db, Actions!arrivals, Actions!requestVars
<1>1. /\ seeder \in ActionRequests \cup {"tick", "free"} /\ (seeder # "free" => seeded = FALSE)
      /\ \A r \in ActionRequests : actPc[r] = "seeding" => seeder = r
      /\ seeded \in BOOLEAN /\ rows \in BOOLEAN /\ done \in [ActionRequests -> BOOLEAN] /\ overlapped \in BOOLEAN
  BY Zenon DEF ActionsInv, SeedingFits, RequestFits, Actions!InteractTypeOK
<1>2. ASSUME UNCHANGED <<seeded, rows, line, view, astray, actPc, job, done, arrived, overlapped>>,
             runEnd' \in {"live", "terminal"}, lent' \in [LinePairs -> Nat], Actions!LimitsCoverDebts',
             seeder' = seeder \/ (seeder = "free" /\ seeded = FALSE /\ seeder' = "tick")
                \/ (seeder = "tick" /\ seeder' = "free")
      PROVE  ActionsInv'
  <2>1. Actions!InteractTypeOK'
    BY <1>1, <1>2 DEF ActionsInv, Actions!InteractTypeOK
  <2>2. SeedingFits'
    BY <1>2 DEF ActionsInv, SeedingFits
  <2>3. ASSUME NEW q \in ActionRequests PROVE RequestFits(q)'
    BY <1>1, <1>2 DEF ActionsInv, RequestFits, Actions!InteractAssumption
  <2>5. ViewFits'
    BY <1>2 DEF ActionsInv, ViewFits, Agrees, Ahead, Actions!Live
  <2> QED BY <1>2, <2>1, <2>2, <2>3, <2>5 DEF ActionsInv
<1>3. /\ lent \in [LinePairs -> Nat] /\ runEnd \in {"live", "terminal"}
      /\ UNCHANGED <<line, lent>> => Actions!LimitsCoverDebts'
  BY DEF ActionsInv, Actions!InteractTypeOK, Actions!LimitsCoverDebts, Actions!Live
<1>4. ASSUME NEW p \in LinePairs, Actions!Elsewhere(p) PROVE ActionsInv'
  <2>1. CASE lent[p] > 0 /\ lent' = [lent EXCEPT ![p] = lent[p] - 1] /\ line' = line
    <3>1. lent' \in [LinePairs -> Nat] /\ \A q \in LinePairs : lent'[q] <= lent[q]
      BY <1>3, <2>1
    <3>2. ASSUME NEW q \in LinePairs, lent'[q] > 0 PROVE line'[q] # Actions!NoLine /\ lent'[q] <= line'[q]
      <4>1. lent[q] \in Nat /\ lent'[q] \in Nat /\ lent'[q] <= lent[q]
        BY <1>3, <3>1
      <4>2. line[q] \in Limits \cup {Actions!NoLine}
        BY DEF ActionsInv, Actions!InteractTypeOK
      <4>3. line[q] \in Int
        BY <4>2, LimitsArePositive DEF Actions!NoLine
      <4>4. lent[q] > 0 => line[q] # Actions!NoLine /\ lent[q] <= line[q]
        BY DEF ActionsInv, Actions!LimitsCoverDebts, Actions!Live
      <4> QED BY <2>1, <3>2, <4>1, <4>3, <4>4
    <3>3. Actions!LimitsCoverDebts'
      BY <3>2 DEF Actions!LimitsCoverDebts, Actions!Live
    <3> QED BY <1>2, <1>3, <1>4, <2>1, <3>1, <3>3 DEF Actions!Elsewhere
  <2>2. CASE Actions!PaymentReal(p)
    <3> DEFINE j == [op |-> "pay", pair |-> p, lim |-> line[p]]
    <3>1. line[p] \in Limits
      BY <2>2 DEF ActionsInv, Actions!InteractTypeOK, Actions!PaymentReal, Actions!Live
    <3>2. j \in Actions!Jobs /\ Actions!Effect(j) /\ j.op = "pay"
      BY <2>2, <3>1 DEF Actions!Jobs, Actions!Ops, Actions!Effect
    <3> HIDE DEF j
    <3>3. lent' \in [LinePairs -> Nat] /\ Actions!LimitsCoverDebts' /\ line' = line
      BY <3>2, EffectKeepsLimits
    <3> QED BY <1>2, <1>3, <1>4, <3>3 DEF Actions!Elsewhere
  <2> QED BY <1>4, <2>1, <2>2 DEF Actions!Elsewhere
<1>5. CASE Actions!StopRun \/ Actions!TickTakesSeedLock
  <2>1. lent' = lent /\ UNCHANGED <<seeded, rows, line, view, astray, actPc, job, done, arrived, overlapped>>
        /\ runEnd' \in {"live", "terminal"}
        /\ (seeder' = seeder \/ (seeder = "free" /\ seeded = FALSE /\ seeder' = "tick"))
    BY <1>1, <1>3, <1>5, Zenon DEF Actions!StopRun, Actions!TickTakesSeedLock
  <2> QED BY <1>2, <1>3, <2>1
<1>6. CASE Actions!TickSeeds
  <2>1. /\ seeder = "tick" /\ seeder' = "free"
        /\ UNCHANGED <<runEnd, lent, view, astray, actPc, job, done, arrived, overlapped>>
        /\ \/ rows' = TRUE /\ Actions!SeedLines /\ seeded' \in BOOLEAN
           \/ UNCHANGED <<rows, seeded, line>>
    BY <1>1, <1>6, Zenon DEF Actions!TickSeeds, Actions!SeedRows
  <2>2. \A r \in ActionRequests : actPc[r] # "seeding" /\ actPc[r] \notin Inside
    BY <1>1, <2>1 DEF ActionsInv, RequestFits, Actions!InteractAssumption
  <2>3. actPc \in [ActionRequests -> Actions!Ended \cup Arriving \cup {"scope"}]
    BY <2>2 DEF ActionsInv, Actions!InteractTypeOK, Inside, Arriving
  <2>4. job \in [ActionRequests -> Actions!Jobs \cup {Actions!NoJob}]
    BY DEF ActionsInv, Actions!InteractTypeOK
  <2> QED BY <1>1, <1>2, <1>3, <2>1, <2>2, <2>3, <2>4, SeedingEnds
<1>7. ASSUME NEW r \in ActionRequests, Actions!SeedCommits(r) \/ Actions!SeedFails(r) PROVE ActionsInv'
  <2>1. /\ actPc[r] = "seeding" /\ seeder = r /\ seeder' = "free"
        /\ UNCHANGED <<runEnd, lent, view, astray, done, arrived, overlapped>>
    BY <1>1, <1>7 DEF Actions!SeedCommits, Actions!SeedFails, Actions!Answer
  <2>2. seeder # "free" /\ seeded = FALSE
    BY <1>1, <2>1 DEF Actions!InteractAssumption
  <2>3. \A q \in ActionRequests : actPc[q] = "seeding" => q = r
    BY <1>1, <2>1
  <2>4. \A q \in ActionRequests : actPc[q] \notin Inside
    BY <1>1, <2>2 DEF ActionsInv, RequestFits
  <2>5. job \in [ActionRequests -> Actions!Jobs \cup {Actions!NoJob}]
    BY DEF ActionsInv, Actions!InteractTypeOK
  <2>6. ASSUME NEW l \in {"scope", "error"}, actPc' = [actPc EXCEPT ![r] = l]
        PROVE  /\ actPc' \in [ActionRequests -> Actions!Ended \cup Arriving \cup {"scope"}]
               /\ actPc'[r] = l /\ \A q \in ActionRequests : q # r => actPc'[q] = actPc[q]
    BY <2>4, <2>6 DEF ActionsInv, Actions!InteractTypeOK, Inside, Arriving, Actions!Ended
  <2>7. CASE Actions!SeedCommits(r)
    <3>1. /\ actPc' = [actPc EXCEPT ![r] = "scope"] /\ rows' = TRUE /\ Actions!SeedLines
          /\ seeded' = TRUE /\ seeded' \in BOOLEAN /\ job' = job
      BY <2>7 DEF Actions!SeedCommits, Actions!SeedRows, Actions!Goto
    <3> QED BY <2>1, <2>2, <2>3, <2>5, <2>6, <3>1, SeedingEnds
  <2>8. CASE Actions!SeedFails(r)
    <3>1. /\ actPc' = [actPc EXCEPT ![r] = "error"] /\ seeded' = seeded
          /\ job' = [job EXCEPT ![r] = Actions!NoJob]
          /\ (rows' = TRUE /\ Actions!SeedLines) \/ UNCHANGED <<rows, line>>
      BY <2>8 DEF Actions!SeedFails, Actions!SeedRows, Actions!Answer, Actions!Goto
    <3>2. job' \in [ActionRequests -> Actions!Jobs \cup {Actions!NoJob}] /\ \A q \in ActionRequests : q # r => job'[q] = job[q]
      BY <2>5, <3>1
    <3>3. CASE rows' = TRUE /\ Actions!SeedLines
      BY <1>1, <2>1, <2>2, <2>3, <2>6, <3>1, <3>2, <3>3, SeedingEnds
    <3>4. CASE UNCHANGED <<rows, line>>
      <4>1. done[r] = FALSE
        BY <2>1 DEF ActionsInv, RequestFits, Arriving
      <4> QED BY <2>1, <2>2, <2>3, <2>8, <3>1, <3>4, <4>1, AnswersInv DEF Actions!SeedFails, Actions!Ended
    <3> QED BY <3>1, <3>3, <3>4
  <2> QED BY <1>7, <2>7, <2>8
<1> QED BY <1>4, <1>5, <1>6, <1>7

\* A request commits its change; the view is behind by that change, until the request
\* goes on, or for good when it ends there.
LEMMA CommittedInv ==
    ASSUME Actions!InteractAssumption, ActionsInv, NEW r \in ActionRequests,
           NEW l \in {"publish", "mutate", "unknown"}, actPc[r] = "transact", Actions!Effect(job[r]),
           done' = [done EXCEPT ![r] = TRUE], actPc' = [actPc EXCEPT ![r] = l],
           job' \in [ActionRequests -> Actions!Jobs \cup {Actions!NoJob}],
           \A q \in ActionRequests : q # r \/ l # "unknown" => job'[q] = job[q],
           UNCHANGED <<arrived, overlapped, runEnd, seeded, rows, seeder, view>>,
           astray' = astray \/ astray' = astray \cup {job[r].pair},
           job[r].op # "pay" /\ job[r].pair \notin astray' => l = "mutate" \/ job[r].op = "update",
           l = "mutate" => job[r].op # "pay"
    PROVE  ActionsInv'
<1> DEFINE p == job[r].pair
<1>2. job[r] \in Actions!Jobs /\ p \in InRun /\ seeded = TRUE
  BY DEF ActionsInv, RequestFits, Actions!Ended, Inside
<1>3. /\ line' \in [LinePairs -> Limits \cup {Actions!NoLine}] /\ lent' \in [LinePairs -> Nat]
      /\ Actions!LimitsCoverDebts'
      /\ \A q \in LinePairs : q # p => line'[q] = line[q]
      /\ job[r].op = "create" => line[p] = Actions!NoLine /\ line'[p] # Actions!NoLine
      /\ job[r].op = "update" => line[p] # Actions!NoLine /\ line'[p] # Actions!NoLine
      /\ job[r].op = "close" => line[p] # Actions!NoLine /\ line'[p] = Actions!NoLine
      /\ job[r].op = "pay" => line' = line
  BY <1>2, EffectKeepsLimits
<1>4. /\ done' \in [ActionRequests -> BOOLEAN] /\ done'[r] = TRUE /\ overlapped' \in BOOLEAN
      /\ seeded' \in BOOLEAN /\ rows' \in BOOLEAN
  BY Zenon DEF ActionsInv, Actions!InteractTypeOK
<1>5. /\ actPc'[r] = l
      /\ \A q \in ActionRequests : q # r => actPc'[q] = actPc[q] /\ done'[q] = done[q]
  BY DEF ActionsInv, Actions!InteractTypeOK
<1>6. Actions!InteractTypeOK'
  <2>1. astray' \subseteq InRun
    BY <1>2 DEF ActionsInv, Actions!InteractTypeOK
  <2>2. actPc' \in [ActionRequests -> Actions!Ended \cup {"seed", "wait", "seeding", "scope",
                                                         "transact", "mutate", "publish"}]
    BY DEF ActionsInv, Actions!InteractTypeOK, Actions!Ended
  <2> QED BY <1>3, <1>4, <2>1, <2>2 DEF ActionsInv, Actions!InteractTypeOK
<1>7. SeedingFits'
  BY DEF ActionsInv, SeedingFits
<1>8. ASSUME NEW q \in ActionRequests PROVE RequestFits(q)'
  <2>1. CASE q = r
    BY <1>2, <1>4, <1>5, <2>1 DEF RequestFits, Actions!Ended, Arriving, Inside
  <2>2. CASE q # r
    BY <1>5, <2>2 DEF ActionsInv, RequestFits
  <2> QED BY <2>1, <2>2
<1>9. ASSUME overlapped' = FALSE PROVE ViewFits'
  <2>1. \A q \in ActionRequests : actPc[q] \notin Actions!Ended => q = r
    BY <1>9 DEF ActionsInv, ViewFits, Actions!Ended
  <2>2. \A q \in ActionRequests : actPc'[q] \notin Actions!Ended => q = r
    BY <1>5, <2>1
  <2>3. \A q \in InRun \ astray : Agrees(q)
    BY <1>9, <2>1 DEF ActionsInv, ViewFits, Actions!Ended
  <2>4. ASSUME NEW q \in InRun \ astray', q # p \/ job[r].op \in {"pay", "update"} PROVE Agrees(q)'
    <3>1. line'[q] = line[q] \/ (q = p /\ line[q] # Actions!NoLine /\ line'[q] # Actions!NoLine)
      BY <1>3, <2>4 DEF Actions!InteractAssumption
    <3>2. Agrees(q)
      BY <2>3, <2>4
    <3> QED BY <3>1, <3>2 DEF Agrees, Actions!Live
  <2>5. l = "mutate" /\ p \notin astray => Ahead(p, job[r].op)'
    BY <1>2, <1>3, <2>3 DEF Agrees, Ahead, Actions!Live
  <2>6. \A q \in ActionRequests : actPc'[q] = "mutate" => q = r
    BY <1>5, <2>2 DEF Actions!Ended
  <2>7. ASSUME NEW q \in InRun \ astray'
        PROVE  /\ (\A t \in ActionRequests : ~(actPc'[t] = "mutate" /\ job'[t].pair = q)) => Agrees(q)'
               /\ \A t \in ActionRequests : actPc'[t] = "mutate" /\ job'[t].pair = q => Ahead(q, job[t].op)'
    <3>1. ASSUME \A t \in ActionRequests : ~(actPc'[t] = "mutate" /\ job'[t].pair = q) PROVE Agrees(q)'
      BY <1>5, <2>4, <2>7, <3>1
    <3>2. ASSUME NEW t \in ActionRequests, actPc'[t] = "mutate", job'[t].pair = q PROVE Ahead(q, job[t].op)'
      <4>1. l = "mutate" /\ t = r /\ q = p /\ job'[t] = job[r] /\ p \notin astray
        BY <1>5, <2>6, <2>7, <3>2
      <4> QED BY <2>5, <4>1 DEF Ahead, Actions!Live
    <3> QED BY <3>1, <3>2
  <2> QED BY <2>2, <2>7 DEF ViewFits
<1>10. ViewFits'
  BY <1>9 DEF ViewFits
<1> QED BY <1>3, <1>6, <1>7, <1>8, <1>10 DEF ActionsInv

LEMMA TransactInv ==
    ASSUME Actions!InteractAssumption, ActionsInv, NEW r \in ActionRequests,
           Actions!Transact(r) \/ Actions!LoseAnswer(r) \/ Actions!PaymentUnsettled(r)
    PROVE  ActionsInv'
<1> USE DEF Actions!db, Actions!arrivals
<1>1. job \in [ActionRequests -> Actions!Jobs \cup {Actions!NoJob}]
  BY DEF ActionsInv, Actions!InteractTypeOK
<1>2. CASE Actions!Transact(r)
  <2> DEFINE l == IF job[r].op = "pay" THEN "publish" ELSE "mutate"
  <2>1. /\ actPc[r] = "transact" /\ Actions!Effect(job[r]) /\ done' = [done EXCEPT ![r] = TRUE]
        /\ actPc' = [actPc EXCEPT ![r] = l]
        /\ UNCHANGED <<job, arrived, overlapped, runEnd, seeded, rows, seeder, view, astray>>
    BY <1>2 DEF Actions!Transact, Actions!Goto
  <2>2. l \in {"publish", "mutate", "unknown"} /\ (l = "mutate" <=> job[r].op # "pay")
    OBVIOUS
  <2> HIDE DEF l
  <2> QED BY <1>1, <2>1, <2>2, CommittedInv
<1>3. CASE Actions!LoseAnswer(r) \/ Actions!PaymentUnsettled(r)
  <2>1. /\ actPc[r] = "transact" /\ Actions!Answer(r, "unknown")
        /\ UNCHANGED <<runEnd, seeded, rows, seeder, view>>
        /\ \/ /\ Actions!Effect(job[r]) /\ done' = [done EXCEPT ![r] = TRUE]
              /\ \/ astray' = astray /\ job[r].op \in {"update", "pay"}
                 \/ astray' = astray \cup {job[r].pair}
           \/ UNCHANGED <<line, lent, done, astray>>
    BY <1>3 DEF Actions!LoseAnswer, Actions!PaymentUnsettled
  <2>2. /\ actPc' = [actPc EXCEPT ![r] = "unknown"] /\ job' = [job EXCEPT ![r] = Actions!NoJob]
        /\ UNCHANGED <<arrived, overlapped>>
    BY <2>1 DEF Actions!Answer, Actions!Goto
  <2>3. job' \in [ActionRequests -> Actions!Jobs \cup {Actions!NoJob}] /\ \A q \in ActionRequests : q # r => job'[q] = job[q]
    BY <1>1, <2>2
  <2>4. CASE UNCHANGED <<line, lent, done, astray>>
    <3>1. seeder \in ActionRequests \cup {"tick", "free"} /\ (seeder # "free" => seeded = FALSE)
      BY DEF ActionsInv, SeedingFits, Actions!InteractTypeOK
    <3> QED BY <2>1, <2>4, <3>1, AnswersInv DEF Actions!Ended
  <2>5. CASE /\ Actions!Effect(job[r]) /\ done' = [done EXCEPT ![r] = TRUE]
             /\ \/ astray' = astray /\ job[r].op \in {"update", "pay"}
                \/ astray' = astray \cup {job[r].pair}
    BY <2>1, <2>2, <2>3, <2>5, CommittedInv
  <2> QED BY <2>1, <2>4, <2>5
<1> QED BY <1>2, <1>3

\* The view takes over the change of the only request in progress.
LEMMA EntriesAgree ==
    ASSUME NEW s \in Seq(Limits), NEW lim \in Limits, NEW op \in {"create", "update", "close"}
    PROVE  /\ Actions!Entries(op, s, lim) \in Seq(Limits)
           /\ op = "create" /\ s = <<>> => Len(Actions!Entries(op, s, lim)) = 1
           /\ op = "update" /\ Len(s) = 1 => Len(Actions!Entries(op, s, lim)) = 1
           /\ op = "close" => Actions!Entries(op, s, lim) = <<>>
<1>1. \A t : t = <<>> => t \in Seq(Limits) /\ Len(t) = 0
  OBVIOUS
<1>2. CASE op = "create"
  <2>1. Actions!Entries(op, s, lim) = Append(s, lim)
    BY <1>2 DEF Actions!Entries
  <2>2. Append(s, lim) \in Seq(Limits) /\ Len(Append(s, lim)) = Len(s) + 1
    OBVIOUS
  <2> QED BY <1>1, <1>2, <2>1, <2>2
<1>3. CASE op = "update"
  <2>1. Actions!Entries(op, s, lim) = IF s = <<>> THEN <<lim>> ELSE [s EXCEPT ![1] = lim]
    BY <1>3 DEF Actions!Entries
  <2>2. <<lim>> \in Seq(Limits) /\ Len(<<lim>>) = 1
    OBVIOUS
  <2>3. s # <<>> => [s EXCEPT ![1] = lim] \in Seq(Limits) /\ Len([s EXCEPT ![1] = lim]) = Len(s)
    BY ExceptSeq
  <2>4. Actions!Entries(op, s, lim) \in Seq(Limits)
    BY <2>1, <2>2, <2>3, Zenon
  <2>5. Len(s) = 1 => Len(Actions!Entries(op, s, lim)) = 1
    BY <2>1, <2>2, <2>3, Zenon
  <2> QED BY <1>3, <2>4, <2>5, Zenon
<1>4. CASE op = "close"
  <2>1. Actions!Entries(op, s, lim) = <<>>
    BY <1>4 DEF Actions!Entries
  <2> QED BY <1>1, <1>4, <2>1, Zenon
<1> QED BY <1>2, <1>3, <1>4, Zenon

LEMMA MutateInv ==
    ASSUME Actions!InteractAssumption, ActionsInv, NEW r \in ActionRequests, Actions!Mutate(r)
    PROVE  ActionsInv'
<1> DEFINE p == job[r].pair
           e == Actions!Entries(job[r].op, view[p], job[r].lim)
<1>1. /\ actPc[r] = "mutate" /\ view' = [view EXCEPT ![p] = e]
      /\ actPc' = [actPc EXCEPT ![r] = "publish"]
      /\ UNCHANGED <<job, done, arrived, overlapped, runEnd, seeded, rows, seeder, line, lent, astray>>
  BY DEF Actions!Mutate, Actions!MutateSnapshot, Actions!Goto, Actions!arrivals, Actions!db
<1>2. job[r] \in Actions!Jobs /\ p \in InRun /\ p \in LinePairs /\ done[r] = TRUE /\ job[r].op # "pay" /\ seeded = TRUE
  BY <1>1 DEF ActionsInv, RequestFits, Actions!Ended, Inside, Actions!InteractAssumption
<1>3. job[r].op \in {"create", "update", "close"} /\ job[r].lim \in Limits /\ view[p] \in Seq(Limits)
  BY <1>2 DEF Actions!Jobs, Actions!Ops, ActionsInv, Actions!InteractTypeOK
<1>4. /\ e \in Seq(Limits)
      /\ job[r].op = "create" /\ view[p] = <<>> => Len(e) = 1
      /\ job[r].op = "update" /\ Len(view[p]) = 1 => Len(e) = 1
      /\ job[r].op = "close" => e = <<>>
  BY <1>3, EntriesAgree
<1> HIDE DEF e
<1>5. /\ actPc'[r] = "publish" /\ view'[p] = e /\ view' \in [LinePairs -> Seq(Limits)]
      /\ \A q \in ActionRequests : q # r => actPc'[q] = actPc[q]
      /\ \A q \in LinePairs : q # p => view'[q] = view[q]
  BY <1>1, <1>2, <1>4 DEF ActionsInv, Actions!InteractTypeOK
<1>6. /\ done' \in [ActionRequests -> BOOLEAN] /\ overlapped' \in BOOLEAN
      /\ seeded' \in BOOLEAN /\ rows' \in BOOLEAN
  BY <1>1, Zenon DEF ActionsInv, Actions!InteractTypeOK
<1>7. Actions!InteractTypeOK'
  BY <1>1, <1>5, <1>6 DEF ActionsInv, Actions!InteractTypeOK
<1>8. SeedingFits' /\ Actions!LimitsCoverDebts'
  BY <1>1 DEF ActionsInv, SeedingFits, Actions!LimitsCoverDebts, Actions!Live
<1>9. ASSUME NEW q \in ActionRequests PROVE RequestFits(q)'
  <2>1. CASE q = r
    BY <1>1, <1>2, <1>5, <2>1 DEF RequestFits, Actions!Ended, Arriving, Inside
  <2>2. CASE q # r
    BY <1>1, <1>5, <2>2 DEF ActionsInv, RequestFits
  <2> QED BY <2>1, <2>2
<1>10. ASSUME overlapped' = FALSE PROVE ViewFits'
  <2>1. \A q \in ActionRequests : actPc[q] \notin Actions!Ended => q = r
    BY <1>1, <1>10 DEF ActionsInv, ViewFits, Actions!Ended
  <2>2. \A q \in ActionRequests : actPc'[q] # "mutate" /\ (actPc'[q] \notin Actions!Ended => q = r)
    BY <1>5, <2>1 DEF Actions!Ended
  <2>3. (p \notin astray => Ahead(p, job[r].op)) /\ \A q \in InRun \ astray : q # p => Agrees(q)
    BY <1>1, <1>2, <1>10, <2>1 DEF ActionsInv, ViewFits, Actions!Ended
  <2>4. ASSUME NEW q \in InRun \ astray, q # p PROVE Agrees(q)'
    <3>1. view'[q] = view[q]
      BY <1>5, <2>4 DEF Actions!InteractAssumption
    <3> QED BY <1>1, <2>3, <2>4, <3>1 DEF Agrees, Actions!Live
  <2>5. ASSUME NEW q \in InRun \ astray, q = p PROVE Agrees(q)'
    <3>1. Len(<<>>) = 0
      OBVIOUS
    <3> QED BY <1>1, <1>3, <1>4, <1>5, <2>3, <2>5, <3>1 DEF Agrees, Ahead, Actions!Live
  <2>6. \A q \in InRun \ astray' : Agrees(q)'
    BY <1>1, <2>4, <2>5
  <2> HIDE DEF p
  <2> QED BY <2>2, <2>6, Zenon DEF ViewFits
<1>11. ViewFits'
  BY <1>10 DEF ViewFits
<1> QED BY <1>7, <1>8, <1>9, <1>11 DEF ActionsInv

LEMMA ActionsNextInv ==
    ASSUME Actions!InteractAssumption, ActionsInv, Actions!InteractNext
    PROVE  ActionsInv'
<1>1. ASSUME NEW r \in ActionRequests, Actions!Work(r) PROVE ActionsInv'
  BY <1>1, RequestStepsInv, AroundInv, TransactInv, MutateInv DEF Actions!Work
<1> QED BY <1>1, ArrivalsInv, AroundInv DEF Actions!InteractNext

\* What the requests promise, from the invariant.
LEMMA ActionsAreSafe ==
    ASSUME Actions!InteractAssumption, ActionsInv
    PROVE  /\ Actions!SeedPrecedesUse /\ Actions!LimitsCoverDebts
           /\ Actions!AnswersAreTrue /\ Actions!SnapshotFollowsLines
<1>1. Actions!SeedPrecedesUse
  BY DEF ActionsInv, RequestFits, SeedingFits, Inside, Actions!SeedPrecedesUse
<1>2. Actions!AnswersAreTrue
  BY DEF ActionsInv, RequestFits, Actions!AnswersAreTrue
<1>3. ASSUME Actions!Quiet, ~overlapped, NEW p \in InRun \ astray
      PROVE  Actions!TrustlinesList(p) = IF Actions!Live(p) THEN <<line[p]>> ELSE <<>>
  <2>1. seeded = TRUE /\ overlapped = FALSE
    BY <1>3, Zenon DEF ActionsInv, Actions!InteractTypeOK, Actions!Quiet
  <2>2. Agrees(p)
    BY <1>3, <2>1 DEF ActionsInv, ViewFits, Actions!Quiet, Actions!Ended
  <2>3. view[p] \in Seq(Limits)
    BY DEF ActionsInv, Actions!InteractTypeOK, Actions!InteractAssumption
  <2>4. CASE Actions!Live(p)
    <3>1. DOMAIN view[p] = 1..1
      BY <2>2, <2>3, <2>4 DEF Agrees
    <3>2. Actions!TrustlinesList(p) = [i \in 1..1 |-> line[p]]
      BY <2>4, <3>1 DEF Actions!TrustlinesList, Actions!EnrichedLimit
    <3> QED BY <2>4, <3>2
  <2>5. CASE ~Actions!Live(p)
    <3>1. view[p] = <<>>
      BY <2>1, <2>2, <2>5 DEF Agrees
    <3> QED BY <2>5, <3>1 DEF Actions!TrustlinesList
  <2> QED BY <2>4, <2>5
<1>4. Actions!SnapshotFollowsLines
  BY <1>3 DEF Actions!SnapshotFollowsLines
<1> QED BY <1>1, <1>2, <1>4 DEF ActionsInv

LEMMA ActionsStutterInv ==
    ASSUME ActionsInv, UNCHANGED actionVars
    PROVE  ActionsInv'
<1>1. UNCHANGED <<runEnd, seeded, rows, seeder, line, lent, view, astray, actPc, job, done, arrived, overlapped>>
  BY DEF actionVars
<1>2. Actions!InteractTypeOK' /\ Actions!LimitsCoverDebts' /\ SeedingFits'
  BY <1>1, Zenon DEF ActionsInv, Actions!InteractTypeOK, Actions!LimitsCoverDebts, Actions!Live, SeedingFits
<1>3. ASSUME NEW r \in ActionRequests PROVE RequestFits(r)'
  BY <1>1 DEF ActionsInv, RequestFits
<1>4. ViewFits'
  BY <1>1 DEF ActionsInv, ViewFits, Agrees, Ahead, Actions!Live
<1> QED BY <1>2, <1>3, <1>4 DEF ActionsInv

ActionsHold == part = "actions" => ActionsInv

LEMMA ActionsHoldAlways == Spec => []ActionsHold
<1>1. Init => ActionsHold
  <2> SUFFICES ASSUME Init, part = "actions" PROVE ActionsInv
    BY DEF ActionsHold
  <2>1. Actions!InteractInit
    BY DEF Init
  <2> QED BY <2>1, SimulatorAssumption, ActionsInitInv DEF SimulatorAssumption
<1>2. ActionsHold /\ [Next]_vars => ActionsHold'
  <2> SUFFICES ASSUME ActionsHold, [Next]_vars, part' = "actions" PROVE ActionsInv'
    BY DEF ActionsHold
  <2>1. part = "actions" /\ [Actions!InteractNext]_actionVars
    BY DEF Next, vars, DriverStep, ViewerStep, viewerVars, InjectStep, ActionsStep, ClearsStep, StreamStep, BusStep
  <2>2. Actions!InteractAssumption
    BY SimulatorAssumption DEF SimulatorAssumption
  <2> QED BY <2>1, <2>2, ActionsNextInv, ActionsStutterInv DEF ActionsHold
<1> QED BY <1>1, <1>2, PTL DEF Spec

\* The actions of simulator.py (trustline-create, -update, -close, payment-real): any
\* number of requests that race with each other, with the seeding of the run and with
\* payments of others, whatever lines earlier runs left and whichever commits are not
\* answered, find the rows of the scenario and leave no debt above its limit; a
\* declared error means that nothing of the request is durable and a success that it
\* is.  As long as none has overlapped another, the view between two of them shows
\* each live line once, with its limit, and no other, but for the pairs whose row
\* memory never learned of.
THEOREM ActionsStayTrue == Spec => []ActionsAreTrue
<1>1. ActionsHold => ActionsAreTrue
  <2>1. Actions!InteractAssumption
    BY SimulatorAssumption DEF SimulatorAssumption
  <2> QED BY <2>1, ActionsAreSafe DEF ActionsHold, ActionsAreTrue, ActionsInv
<1> QED BY <1>1, ActionsHoldAlways, PTL
----------------------------------------------------------------------------
(* Events of a scenario. *)

Rows == [part : [Pids -> Inject!Status], line : [Inject!Pairs -> Inject!Status], debt : [Inject!Pairs -> Nat]]
Memory == [part : [Pids -> Inject!Status], line : [Inject!Pairs -> Inject!Status], edges : SUBSET Inject!Pairs]
Session == [part : [Pids -> Inject!Status], line : [Inject!Pairs -> Inject!Status], debt : [Inject!Pairs -> Nat],
            objs : SUBSET Inject!Pairs, addedLines : SUBSET Inject!Pairs, addedDebts : SUBSET Inject!Pairs,
            clash : BOOLEAN, broken : BOOLEAN]
Tidings == [parts : SUBSET Pids, lines : SUBSET Inject!Pairs, frozen : SUBSET Pids, total : Nat,
            edges : SUBSET Inject!Pairs]

EventTypes ==
    /\ script \in Scripts /\ db \in Rows /\ mem \in Memory /\ tx \in Session /\ news \in Tidings
    /\ seen \in [part : [Pids -> Inject!Status], line : [Inject!Pairs -> Inject!Status]]
    /\ known \in SUBSET Pids /\ injectPc \in {"idle", "scan", "apply"}
    /\ cur \in Nat /\ pos \in 0..MaxEffects /\ fired \in SUBSET (1..Len(script))
    /\ commits \in [1..Len(script) -> Nat] /\ eventTick \in Nat
    /\ strays \in [parts : SUBSET Pids, lines : SUBSET Inject!Pairs]

\* An event that is not marked has not been committed; the one being applied is not marked.
MarksFit ==
    /\ \A i \in 1..Len(script) : commits[i] <= 1 /\ (i \notin fired => commits[i] = 0)
    /\ injectPc = "scan" => cur >= 1
    /\ injectPc = "apply" => cur \in 1..Len(script) /\ cur \notin fired

\* What memory has, the database has; the planner's edges are the active lines.
MemoryFits ==
    /\ \A p \in Pids : mem.part[p] # "none" => db.part[p] # "none"
    /\ \A e \in Inject!Pairs : mem.line[e] # "none" => db.line[e] # "none"
    /\ Inject!EdgesAreActiveLines

\* What a query of the session shows covers the database and what memory will be told.
SessionFits ==
    /\ \A p \in Pids : db.part[p] # "none" \/ p \in news.parts => tx.part[p] # "none"
    /\ \A e \in Inject!Pairs : db.line[e] # "none" => tx.line[e] # "none"
    /\ \A e \in news.lines : e \in tx.addedLines \/ tx.line[e] # "none"
    /\ \A e \in Inject!Pairs : tx.debt[e] > 0 => tx.line[e] # "none" /\ tx.debt[e] <= InjectLimit
    /\ news.total <= script[cur].cap

\* An event without a freeze, and one of freezes: what the commit will leave in the
\* database is what memory and the viewers will be told.
Grows ==
    /\ news.frozen = {} /\ tx.objs = {}
    /\ \A p \in Pids : tx.part[p] = IF p \in news.parts THEN "active" ELSE db.part[p]
    /\ \A e \in Inject!Pairs :
         (IF e \in tx.addedLines THEN "active" ELSE tx.line[e])
           = IF e \in news.lines THEN "active" ELSE db.line[e]
Freezes ==
    /\ news.parts = {} /\ news.lines = {} /\ tx.addedLines = {}
    /\ \A p \in Pids : tx.part[p] = IF p \in news.frozen THEN "suspended" ELSE db.part[p]
    /\ \A p \in news.frozen : db.part[p] # "none"
    /\ tx.line = db.line
    /\ tx.objs = {e \in Inject!Pairs : db.line[e] = "active" /\ \E p \in news.frozen : Inject!Incident(e, p)}

OnlyGrows(i) == \A k \in DOMAIN script[i].effects : script[i].effects[k].op # "freeze_participant"
OnlyFreezes(i) ==
    \A k \in DOMAIN script[i].effects :
        /\ script[i].effects[k].op \in {"freeze_participant", "inject_debt"}
        /\ script[i].effects[k].op = "freeze_participant" => script[i].effects[k].freezeLines = TRUE

\* What memory did not miss, it has as the database has it.
Same(d, m) ==
    /\ \A p \in Pids \ strays.parts : m.part[p] = d.part[p]
    /\ \A e \in Inject!Pairs \ strays.lines : m.line[e] = d.line[e]

WholeFits ==
    /\ Inject!FreezesAreWhole => Same(db, mem) /\ seen.line = mem.line
    /\ injectPc = "apply" /\ OnlyGrows(cur) => Grows
    /\ injectPc = "apply" /\ OnlyFreezes(cur) => Freezes

InjectInv ==
    /\ EventTypes /\ MarksFit /\ MemoryFits /\ Inject!InjectedWithinLimit
    /\ injectPc = "apply" => SessionFits
    /\ WholeFits

LEMMA EffectShapes ==
    ASSUME NEW eff \in Inject!EffectRecords
    PROVE  /\ eff.op \in {"inject_debt", "create_trustline", "add_participant", "freeze_participant"}
           /\ eff.op = "inject_debt" => eff.pair \in Inject!Pairs /\ eff.amount \in Nat /\ eff.amount > 0
           /\ eff.op = "create_trustline" => eff.pair \in Inject!Pairs
           /\ eff.op = "add_participant" => eff.pid \in Pids /\ eff.pair \in Inject!Pairs \cup {<<>>}
           /\ eff.op = "freeze_participant" => eff.pid \in Pids /\ eff.freezeLines \in BOOLEAN
<1>1. CASE eff \in [op : {"inject_debt"}, pair : Inject!Pairs, amount : Nat \ {0}]
  BY <1>1
<1>2. CASE eff \in [op : {"create_trustline"}, pair : Inject!Pairs]
  BY <1>2
<1>3. CASE eff \in [op : {"add_participant"}, pid : Pids, pair : Inject!Pairs \cup {<<>>}]
  BY <1>3
<1>4. CASE eff \in [op : {"freeze_participant"}, pid : Pids, freezeLines : BOOLEAN]
  BY <1>4, Zenon
<1> QED BY <1>1, <1>2, <1>3, <1>4 DEF Inject!EffectRecords

\* The effects of the event being applied.
LEMMA EffectsOfEvent ==
    ASSUME Inject!InjectAssumption, script \in Scripts, cur \in 1..Len(script)
    PROVE  /\ script[cur].cap \in Nat /\ script[cur].at \in Nat
           /\ script[cur].effects \in Seq(Inject!EffectRecords)
           /\ Len(Inject!Effects) \in 0..MaxEffects
           /\ \A k \in 1..Len(Inject!Effects) : /\ k \in DOMAIN script[cur].effects
                                                /\ Inject!Effects[k] = script[cur].effects[k]
                                                /\ Inject!Effects[k] \in Inject!EffectRecords
<1>1. script[cur] \in Inject!Events
  <2>1. script \in Seq(Inject!Events)
    BY DEF Inject!InjectAssumption
  <2> QED BY <2>1
<1>2. /\ script[cur].cap \in Nat /\ script[cur].at \in Nat
      /\ script[cur].effects \in Seq(Inject!EffectRecords)
  BY <1>1 DEF Inject!Events
<1> DEFINE s == script[cur].effects
           n == Inject!Min({Len(s), MaxEffects})
<1>3. n \in 0..Len(s) /\ n \in 0..MaxEffects
  <2>1. Len(s) \in Nat /\ MaxEffects \in Nat
    BY <1>2 DEF Inject!InjectAssumption
  <2>2. \E x \in {Len(s), MaxEffects} : \A y \in {Len(s), MaxEffects} : x <= y
    BY <2>1
  <2>3. n \in {Len(s), MaxEffects} /\ \A y \in {Len(s), MaxEffects} : n <= y
    BY <2>2 DEF Inject!Min
  <2> QED BY <2>1, <2>3
<1>4. Inject!Effects = SubSeq(s, 1, n)
  BY DEF Inject!Effects
<1> HIDE DEF n
<1>5. Len(SubSeq(s, 1, n)) = n /\ \A k \in 1..n : SubSeq(s, 1, n)[k] = s[k] /\ k \in 1..Len(s) /\ s[k] \in Inject!EffectRecords
  BY <1>2, <1>3
<1>6. DOMAIN s = 1..Len(s)
  BY <1>2
<1> QED BY <1>2, <1>3, <1>4, <1>5, <1>6

LEMMA ViewTypes ==
    ASSUME NEW d \in Rows
    PROVE  /\ Inject!View(d) \in Session
           /\ Inject!View(d).part = d.part /\ Inject!View(d).line = d.line /\ Inject!View(d).debt = d.debt
           /\ Inject!View(d).objs = {} /\ Inject!View(d).addedLines = {} /\ Inject!View(d).addedDebts = {}
  BY DEF Rows, Session, Inject!View

LEMMA NoTidings ==
    /\ Inject!NoNews \in Tidings /\ Inject!NoNews.parts = {} /\ Inject!NoNews.lines = {}
    /\ Inject!NoNews.frozen = {} /\ Inject!NoNews.total = 0
  BY DEF Tidings, Inject!NoNews

LEMMA DifferTypes ==
    ASSUME NEW d, NEW m
    PROVE  /\ Inject!Differ(d, m) \in [parts : SUBSET Pids, lines : SUBSET Inject!Pairs]
           /\ \A p \in Pids : p \notin Inject!Differ(d, m).parts => m.part[p] = d.part[p]
           /\ \A e \in Inject!Pairs : e \notin Inject!Differ(d, m).lines => m.line[e] = d.line[e]
  BY DEF Inject!Differ

LEMMA InjectInitInv ==
    ASSUME Inject!InjectAssumption, Inject!InjectInit
    PROVE  InjectInv
<1> USE DEF Inject!InjectInit
<1>1. FirstLines \subseteq Inject!Pairs /\ MaxEffects \in Nat /\ Founders \subseteq Pids
  BY DEF Inject!InjectAssumption
<1>2. mem \in Memory /\ seen \in [part : [Pids -> Inject!Status], line : [Inject!Pairs -> Inject!Status]]
  BY <1>1 DEF Memory, Inject!Status
<1>3. Len(script) \in Nat
  BY DEF Inject!InjectAssumption
<1>9. /\ db \in Rows /\ Inject!Covered(db)
      /\ \A p \in Founders : db.part[p] # "none"
      /\ \A e \in FirstLines : db.line[e] # "none"
  BY DEF Inject!InjectAssumption, Rows
<1>4. EventTypes
  BY <1>1, <1>2, <1>3, <1>9, ViewTypes, NoTidings, DifferTypes DEF EventTypes
<1>5. MarksFit
  BY DEF MarksFit
<1>6. MemoryFits
  BY <1>1, <1>9 DEF MemoryFits, Inject!EdgesAreActiveLines
<1>7. Inject!InjectedWithinLimit
  BY <1>9 DEF Inject!InjectedWithinLimit
<1>8. WholeFits
  BY DifferTypes DEF WholeFits, Same
<1> QED BY <1>4, <1>5, <1>6, <1>7, <1>8 DEF InjectInv

\* Steps that leave the database and memory alone and end outside an event.
Outside ==
    /\ UNCHANGED <<script, db, mem, seen, commits, strays>>
    /\ injectPc' \in {"idle", "scan"} /\ tx' \in Session /\ news' \in Tidings /\ known' \in SUBSET Pids
    /\ cur' \in Nat /\ (injectPc' = "scan" => cur' >= 1)
    /\ pos' \in 0..MaxEffects /\ eventTick' \in Nat
    /\ fired' = fired \/ (fired' = fired \cup {cur} /\ cur \in 1..Len(script))

LEMMA OutsideInv ==
    ASSUME Inject!InjectAssumption, InjectInv, Outside
    PROVE  InjectInv'
<1> USE DEF Outside
<1>1. EventTypes'
  BY DEF InjectInv, EventTypes
<1>2. MarksFit'
  BY DEF InjectInv, MarksFit
<1>3. MemoryFits' /\ Inject!InjectedWithinLimit'
  BY DEF InjectInv, MemoryFits, Inject!InjectedWithinLimit, Inject!Covered, Inject!EdgesAreActiveLines
<1>4. WholeFits'
  BY DEF InjectInv, WholeFits, Same, Inject!FreezesAreWhole
<1> QED BY <1>1, <1>2, <1>3, <1>4 DEF InjectInv

LEMMA OutsideSteps ==
    ASSUME Inject!InjectAssumption, InjectInv,
           \/ Inject!StartTick \/ Inject!EndTick \/ Inject!PassOver \/ Inject!MarkFired
           \/ Inject!TickFails \/ Inject!CommitFails
    PROVE  InjectInv'
<1>1. /\ db \in Rows /\ tx \in Session /\ news \in Tidings /\ known \in SUBSET Pids /\ Len(script) \in Nat
      /\ cur \in Nat /\ pos \in 0..MaxEffects /\ eventTick \in Nat /\ MaxEffects \in Nat /\ 0 \in 0..MaxEffects
      /\ injectPc = "scan" => cur >= 1
      /\ injectPc = "apply" => cur \in 1..Len(script)
  BY DEF InjectInv, EventTypes, MarksFit, Inject!InjectAssumption
<1>2. ASSUME Inject!StartTick PROVE Outside
  <2>1. known' \in SUBSET Pids
    BY <1>2 DEF Inject!StartTick
  <2>2. /\ UNCHANGED <<script, db, mem, seen, commits, strays, tx, news, pos, fired>>
        /\ injectPc' = "scan" /\ cur' = 1 /\ eventTick' = eventTick + 1
    BY <1>2 DEF Inject!StartTick
  <2> QED BY <1>1, <2>1, <2>2 DEF Outside
<1>3. ASSUME Inject!EndTick PROVE Outside
  <2>1. /\ UNCHANGED <<script, db, mem, seen, commits, strays, tx, news, pos, fired, cur, eventTick, known>>
        /\ injectPc' = "idle"
    BY <1>3 DEF Inject!EndTick
  <2> QED BY <1>1, <2>1 DEF Outside
<1>4. ASSUME Inject!PassOver PROVE Outside
  BY <1>1, <1>4 DEF Outside, Inject!PassOver
<1>5. ASSUME Inject!MarkFired PROVE Outside
  BY <1>1, <1>5 DEF Outside, Inject!MarkFired
<1>6. ASSUME Inject!TickFails PROVE Outside
  BY <1>1, <1>6, ViewTypes, NoTidings DEF Outside, Inject!TickFails
<1>7. ASSUME Inject!CommitFails PROVE Outside
  <2>1. db' = db /\ tx' = Inject!View(db')
    BY <1>7 DEF Inject!CommitFails, Inject!EndInject
  <2>2. tx' \in Session
    BY <1>1, <2>1, ViewTypes
  <2> QED BY <1>1, <1>7, <2>2, NoTidings DEF Outside, Inject!CommitFails, Inject!EndInject
<1>8. Outside
  BY <1>2, <1>3, <1>4, <1>5, <1>6, <1>7
<1> QED BY <1>8, OutsideInv

LEMMA BeginInv ==
    ASSUME Inject!InjectAssumption, InjectInv, Inject!BeginInject
    PROVE  InjectInv'
<1>1. /\ injectPc = "scan" /\ cur <= Len(script) /\ cur \notin fired
      /\ injectPc' = "apply" /\ pos' = 0 /\ tx' = Inject!View(db) /\ news' = Inject!NoNews
      /\ UNCHANGED <<script, db, mem, seen, known, cur, fired, commits, strays, eventTick>>
  BY DEF Inject!BeginInject, Inject!Due
<1>2. /\ db \in Rows /\ script \in Scripts /\ MaxEffects \in Nat /\ Len(script) \in Nat /\ cur \in Nat /\ cur >= 1
  BY <1>1 DEF InjectInv, EventTypes, MarksFit, Inject!InjectAssumption
<1>3. cur \in 1..Len(script) /\ script[cur].cap \in Nat
  BY <1>1, <1>2, EffectsOfEvent
<1>4. /\ tx' \in Session /\ tx'.part = db.part /\ tx'.line = db.line /\ tx'.debt = db.debt
      /\ tx'.objs = {} /\ tx'.addedLines = {} /\ tx'.addedDebts = {}
      /\ news' \in Tidings /\ news'.parts = {} /\ news'.lines = {} /\ news'.frozen = {} /\ news'.total = 0
  BY <1>1, <1>2, ViewTypes, NoTidings
<1>5. EventTypes'
  BY <1>1, <1>2, <1>4 DEF InjectInv, EventTypes
<1>6. MarksFit' /\ MemoryFits' /\ Inject!InjectedWithinLimit'
  BY <1>1, <1>3 DEF InjectInv, MarksFit, MemoryFits, Inject!InjectedWithinLimit, Inject!Covered, Inject!EdgesAreActiveLines
<1>7. SessionFits'
  BY <1>1, <1>3, <1>4 DEF InjectInv, SessionFits, Inject!InjectedWithinLimit, Inject!Covered
<1>8. WholeFits'
  <2>1. Grows'
    BY <1>1, <1>4 DEF Grows
  <2>2. Freezes'
    BY <1>1, <1>4 DEF Freezes
  <2> QED BY <1>1, <2>1, <2>2 DEF InjectInv, WholeFits, Same, Inject!FreezesAreWhole
<1> QED BY <1>5, <1>6, <1>7, <1>8 DEF InjectInv

\* An effect, or the lack of one, within an event.
EffectFits ==
    /\ injectPc = "apply" /\ pos < Len(Inject!Effects) /\ pos' = pos + 1
    /\ UNCHANGED <<script, db, mem, seen, injectPc, cur, fired, commits, strays, eventTick>>
    /\ tx' \in Session /\ news' \in Tidings /\ known' \in SUBSET Pids /\ SessionFits'
    /\ OnlyGrows(cur) => Grows'
    /\ OnlyFreezes(cur) => Freezes'

LEMMA EffectFitsInv ==
    ASSUME Inject!InjectAssumption, InjectInv, EffectFits
    PROVE  InjectInv'
<1> USE DEF EffectFits
<1>1. cur \in 1..Len(script) /\ script \in Scripts /\ pos \in Nat /\ MaxEffects \in Nat
  BY DEF InjectInv, EventTypes, MarksFit, Inject!InjectAssumption
<1>2. pos' \in 0..MaxEffects
  BY <1>1, EffectsOfEvent
<1>3. EventTypes'
  BY <1>2 DEF InjectInv, EventTypes
<1>4. MarksFit' /\ MemoryFits' /\ Inject!InjectedWithinLimit'
  BY DEF InjectInv, MarksFit, MemoryFits, Inject!InjectedWithinLimit, Inject!Covered, Inject!EdgesAreActiveLines
<1>5. WholeFits'
  BY DEF InjectInv, WholeFits, Same, Inject!FreezesAreWhole, OnlyGrows, OnlyFreezes
<1> QED BY <1>3, <1>4, <1>5 DEF InjectInv

\* A session in which only debts, or what is not looked at here, changed.
LEMMA DebtInv ==
    ASSUME Inject!InjectAssumption, InjectInv, injectPc = "apply",
           NEW eff \in Inject!EffectRecords, eff.op = "inject_debt", Inject!InjectDebt(eff),
           UNCHANGED <<script, db, cur>>
    PROVE  /\ tx' \in Session /\ news' \in Tidings /\ known' \in SUBSET Pids /\ SessionFits'
           /\ Grows => Grows'
           /\ Freezes => Freezes'
<1> DEFINE e == eff.pair
           new == IF e \in tx.addedDebts THEN eff.amount ELSE tx.debt[e] + eff.amount
<1>1. e \in Inject!Pairs /\ eff.amount \in Nat /\ eff.amount > 0
  BY EffectShapes
<1>2. tx \in Session /\ news \in Tidings /\ known \in SUBSET Pids /\ SessionFits
  BY DEF InjectInv, EventTypes
<1>3. CASE UNCHANGED <<tx, news, known>>
  BY <1>2, <1>3 DEF SessionFits, Grows, Freezes
<1>4. CASE /\ news.total + eff.amount <= script[cur].cap /\ tx.line[e] = "active"
           /\ (IF e \in tx.addedDebts THEN 0 ELSE tx.debt[e]) + eff.amount <= InjectLimit
           /\ tx' = [tx EXCEPT !.debt[e] = new,
                               !.addedDebts = IF tx.debt[e] = 0 THEN tx.addedDebts \cup {e} ELSE tx.addedDebts,
                               !.clash = tx.clash \/ e \in tx.addedDebts]
           /\ news' = [news EXCEPT !.total = news.total + eff.amount, !.edges = news.edges \cup {e}]
           /\ known' = known
  <2>1. tx.debt \in [Inject!Pairs -> Nat] /\ tx.debt[e] \in Nat
    BY <1>1, <1>2 DEF Session
  <2>2. new \in Nat /\ new <= InjectLimit
    BY <1>1, <1>4, <2>1 DEF Inject!InjectAssumption
  <2> HIDE DEF new
  <2>3. /\ tx'.part = tx.part /\ tx'.line = tx.line /\ tx'.debt = [tx.debt EXCEPT ![e] = new] /\ tx'.objs = tx.objs
        /\ tx'.addedLines = tx.addedLines
    BY <1>2, <1>4 DEF Session
  <2>4. tx' \in Session
    BY <1>1, <1>2, <1>4, <2>1, <2>2 DEF Session
  <2>5. /\ news' \in Tidings /\ news'.parts = news.parts /\ news'.lines = news.lines
        /\ news'.frozen = news.frozen /\ news'.total = news.total + eff.amount
    <3>1. news.total + eff.amount \in Nat /\ news.edges \cup {e} \in SUBSET Inject!Pairs
      BY <1>1, <1>2 DEF Tidings
    <3> HIDE DEF e
    <3> QED BY <1>2, <1>4, <3>1 DEF Tidings
  <2>6. SessionFits'
    BY <1>1, <1>2, <1>4, <2>1, <2>2, <2>3, <2>5 DEF SessionFits
  <2>7. (Grows => Grows') /\ (Freezes => Freezes')
    BY <2>3, <2>5 DEF Grows, Freezes
  <2> QED BY <1>2, <1>4, <2>4, <2>5, <2>6, <2>7
<1> QED BY <1>3, <1>4 DEF Inject!InjectDebt, Inject!WithinCap, Inject!DebtFits

LEMMA PairEnds ==
    ASSUME NEW e \in Inject!Pairs
    PROVE  e[1] \in Pids /\ e[2] \in Pids
  BY DEF Inject!Pairs

\* What an added line does to the session.
LEMMA AddedLine ==
    ASSUME NEW t \in Session, NEW e \in Inject!Pairs
    PROVE  /\ Inject!AddLine(t, e) \in Session
           /\ Inject!AddLine(t, e).part = t.part /\ Inject!AddLine(t, e).line = t.line
           /\ Inject!AddLine(t, e).debt = t.debt /\ Inject!AddLine(t, e).objs = t.objs
           /\ Inject!AddLine(t, e).addedLines = t.addedLines \cup {e}
<1> DEFINE a == t.addedLines \cup {e}
<1>1. \E b \in BOOLEAN : Inject!AddLine(t, e) = [t EXCEPT !.addedLines = a, !.clash = b]
  <2> DEFINE c == t.clash \/ e \in t.addedLines \/ Inject!Dangling(t, e)
  <2>1. c \in BOOLEAN
    OBVIOUS
  <2>2. Inject!AddLine(t, e) = [t EXCEPT !.addedLines = a, !.clash = c]
    BY DEF Inject!AddLine
  <2> HIDE DEF c
  <2> QED BY <2>1, <2>2, Zenon
<1>2. PICK b \in BOOLEAN : Inject!AddLine(t, e) = [t EXCEPT !.addedLines = a, !.clash = b]
  BY <1>1
<1>3. a \in SUBSET Inject!Pairs
  BY DEF Session
<1> HIDE DEF a
<1>4. /\ Inject!AddLine(t, e) \in Session
      /\ Inject!AddLine(t, e).part = t.part /\ Inject!AddLine(t, e).line = t.line
      /\ Inject!AddLine(t, e).debt = t.debt /\ Inject!AddLine(t, e).objs = t.objs
      /\ Inject!AddLine(t, e).addedLines = a
  BY <1>2, <1>3 DEF Session
<1> QED BY <1>4 DEF a

LEMMA NewLineInv ==
    ASSUME Inject!InjectAssumption, InjectInv, injectPc = "apply",
           NEW eff \in Inject!EffectRecords, eff.op = "create_trustline", Inject!CreateTrustline(eff),
           UNCHANGED <<script, db, cur>>
    PROVE  /\ tx' \in Session /\ news' \in Tidings /\ known' \in SUBSET Pids /\ SessionFits'
           /\ Grows => Grows'
<1> DEFINE e == eff.pair
<1>1. e \in Inject!Pairs
  BY EffectShapes
<1>2. tx \in Session /\ news \in Tidings /\ known \in SUBSET Pids /\ SessionFits
  BY DEF InjectInv, EventTypes
<1>3. CASE UNCHANGED <<tx, news, known>>
  BY <1>2, <1>3 DEF SessionFits, Grows
<1>4. CASE /\ tx' = Inject!AddLine(tx, e)
           /\ news' = [news EXCEPT !.lines = news.lines \cup {e}]
           /\ known' = known \cup {e[1], e[2]}
  <2>1. /\ tx' \in Session /\ tx'.part = tx.part /\ tx'.line = tx.line /\ tx'.debt = tx.debt
        /\ tx'.objs = tx.objs /\ tx'.addedLines = tx.addedLines \cup {e}
    BY <1>1, <1>2, <1>4, AddedLine
  <2>2. known' \in SUBSET Pids
    BY <1>1, <1>2, <1>4, PairEnds
  <2>3. /\ news' \in Tidings /\ news'.parts = news.parts /\ news'.lines = news.lines \cup {e}
        /\ news'.frozen = news.frozen /\ news'.total = news.total
    BY <1>1, <1>2, <1>4 DEF Tidings
  <2>4. SessionFits'
    BY <1>1, <1>2, <2>1, <2>3 DEF SessionFits
  <2>5. Grows => Grows'
    BY <1>1, <2>1, <2>3 DEF Grows
  <2> QED BY <2>1, <2>2, <2>3, <2>4, <2>5
<1> QED BY <1>3, <1>4 DEF Inject!CreateTrustline

\* What a flush shows to the queries: nothing that was there is gone.
LEMMA Flushed ==
    ASSUME NEW t \in Session
    PROVE  /\ Inject!Flush(t) \in Session
           /\ Inject!Flush(t).part = t.part /\ Inject!Flush(t).debt = t.debt
           /\ Inject!Flush(t).line = [e \in Inject!Pairs |-> IF e \in t.addedLines THEN "active"
                                                             ELSE IF e \in t.objs THEN "frozen" ELSE t.line[e]]
           /\ Inject!Flush(t).objs = {} /\ Inject!Flush(t).addedLines = {}
<1> DEFINE l == [e \in Inject!Pairs |-> IF e \in t.addedLines THEN "active"
                                        ELSE IF e \in t.objs THEN "frozen" ELSE t.line[e]]
<1>1. l \in [Inject!Pairs -> Inject!Status]
  BY DEF Session, Inject!Status
<1>2. Inject!Flush(t) = [t EXCEPT !.line = l, !.addedLines = {}, !.addedDebts = {}, !.objs = {}]
  BY DEF Inject!Flush
<1> HIDE DEF l
<1>3. /\ Inject!Flush(t) \in Session
      /\ Inject!Flush(t).part = t.part /\ Inject!Flush(t).debt = t.debt /\ Inject!Flush(t).line = l
      /\ Inject!Flush(t).objs = {} /\ Inject!Flush(t).addedLines = {}
  BY <1>1, <1>2 DEF Session
<1> QED BY <1>3 DEF l

LEMMA NewcomerInv ==
    ASSUME Inject!InjectAssumption, InjectInv, injectPc = "apply",
           NEW eff \in Inject!EffectRecords, eff.op = "add_participant", Inject!AddParticipant(eff),
           UNCHANGED <<script, db, cur>>
    PROVE  /\ tx' \in Session /\ news' \in Tidings /\ known' \in SUBSET Pids /\ SessionFits'
           /\ Grows => Grows'
<1> DEFINE p == eff.pid
           f == Inject!Flush(tx)
           t == [f EXCEPT !.part[p] = "active"]
           linked == eff.pair # <<>> /\ Inject!Findable(t, eff.pair[1]) /\ Inject!Findable(t, eff.pair[2])
                     /\ t.line[eff.pair] = "none"
<1>1. p \in Pids /\ (linked => eff.pair \in Inject!Pairs)
  BY EffectShapes
<1>2. tx \in Session /\ news \in Tidings /\ known \in SUBSET Pids /\ SessionFits
  BY DEF InjectInv, EventTypes
<1>3. \/ UNCHANGED <<tx, news, known>>
      \/ tx' = [tx EXCEPT !.broken = TRUE] /\ UNCHANGED <<news, known>>
      \/ /\ tx.part[p] = "none"
         /\ tx' = IF linked THEN Inject!AddLine(t, eff.pair) ELSE t
         /\ news' = [news EXCEPT !.parts = news.parts \cup {p},
                                 !.lines = IF linked THEN news.lines \cup {eff.pair} ELSE news.lines]
         /\ known' = known \cup {p}
  BY DEF Inject!AddParticipant
<1>4. /\ t \in Session /\ t.part = [tx.part EXCEPT ![p] = "active"] /\ t.debt = tx.debt /\ t.objs = {} /\ t.addedLines = {}
      /\ \A e \in Inject!Pairs : t.line[e] = IF e \in tx.addedLines THEN "active"
                                             ELSE IF e \in tx.objs THEN "frozen" ELSE tx.line[e]
  <2>1. f \in Session /\ f.part = tx.part /\ f.debt = tx.debt /\ f.objs = {} /\ f.addedLines = {}
    BY <1>2, Flushed
  <2>2. \A e \in Inject!Pairs : f.line[e] = IF e \in tx.addedLines THEN "active"
                                            ELSE IF e \in tx.objs THEN "frozen" ELSE tx.line[e]
    BY <1>2, Flushed
  <2> HIDE DEF f
  <2>3. f.part \in [Pids -> Inject!Status] /\ [f.part EXCEPT ![p] = "active"] \in [Pids -> Inject!Status]
    BY <1>1, <2>1 DEF Session, Inject!Status
  <2>4. /\ t \in Session /\ t.part = [f.part EXCEPT ![p] = "active"] /\ t.line = f.line
        /\ t.debt = f.debt /\ t.objs = f.objs /\ t.addedLines = f.addedLines
    BY <2>1, <2>3 DEF Session
  <2> QED BY <2>1, <2>2, <2>4
<1> HIDE DEF t, linked
<1>5. CASE UNCHANGED <<tx, news, known>>
  BY <1>2, <1>5 DEF SessionFits, Grows
<1>6. CASE tx' = [tx EXCEPT !.broken = TRUE] /\ UNCHANGED <<news, known>>
  <2>1. /\ tx' \in Session /\ tx'.part = tx.part /\ tx'.line = tx.line /\ tx'.debt = tx.debt
        /\ tx'.objs = tx.objs /\ tx'.addedLines = tx.addedLines
    BY <1>2, <1>6 DEF Session
  <2> QED BY <1>2, <1>6, <2>1 DEF SessionFits, Grows
<1>7. CASE /\ tx.part[p] = "none"
           /\ tx' = IF linked THEN Inject!AddLine(t, eff.pair) ELSE t
           /\ news' = [news EXCEPT !.parts = news.parts \cup {p},
                                   !.lines = IF linked THEN news.lines \cup {eff.pair} ELSE news.lines]
           /\ known' = known \cup {p}
  <2> DEFINE added == IF linked THEN {eff.pair} ELSE {}
  <2>1. /\ tx' \in Session /\ tx'.part = t.part /\ tx'.line = t.line /\ tx'.debt = t.debt
        /\ tx'.objs = {} /\ tx'.addedLines = added
    <3>1. CASE linked
      <4>1. tx' = Inject!AddLine(t, eff.pair) /\ added = {eff.pair} /\ eff.pair \in Inject!Pairs
        BY <1>1, <1>7, <3>1
      <4>2. t.addedLines \cup {eff.pair} = {eff.pair}
        BY <1>4
      <4> QED BY <1>4, <4>1, <4>2, AddedLine
    <3>2. CASE ~linked
      BY <1>4, <1>7, <3>2
    <3> QED BY <3>1, <3>2
  <2>2. added \subseteq Inject!Pairs /\ known' \in SUBSET Pids
    BY <1>1, <1>2, <1>7
  <2>3. news' = [news EXCEPT !.parts = news.parts \cup {p}, !.lines = news.lines \cup added]
    BY <1>7
  <2> HIDE DEF added
  <2>4. /\ news' \in Tidings /\ news'.parts = news.parts \cup {p} /\ news'.lines = news.lines \cup added
        /\ news'.frozen = news.frozen /\ news'.total = news.total
    BY <1>1, <1>2, <2>2, <2>3 DEF Tidings
  <2>5. /\ tx.part \in [Pids -> Inject!Status] /\ tx'.part[p] = "active"
        /\ \A q \in Pids : q # p => tx'.part[q] = tx.part[q]
    BY <1>1, <1>2, <1>4, <2>1 DEF Session
  <2>6. SessionFits'
    <3>1. \A e \in Inject!Pairs : tx.line[e] # "none" => tx'.line[e] # "none"
      BY <1>4, <2>1
    <3>2. \A e \in news'.lines : e \in tx'.addedLines \/ tx'.line[e] # "none"
      BY <1>2, <1>4, <2>1, <2>4 DEF SessionFits, Tidings
    <3> QED BY <1>1, <1>2, <1>4, <2>1, <2>4, <2>5, <3>1, <3>2 DEF SessionFits
  <2>7. ASSUME Grows PROVE Grows'
    BY <1>1, <1>4, <2>1, <2>2, <2>4, <2>5, <2>7 DEF Grows
  <2> QED BY <2>1, <2>2, <2>4, <2>6, <2>7
<1> QED BY <1>3, <1>5, <1>6, <1>7

LEMMA FreezeInv ==
    ASSUME Inject!InjectAssumption, InjectInv, injectPc = "apply",
           NEW eff \in Inject!EffectRecords, eff.op = "freeze_participant", Inject!FreezeEffect(eff),
           UNCHANGED <<script, db, cur>>
    PROVE  /\ tx' \in Session /\ news' \in Tidings /\ known' \in SUBSET Pids /\ SessionFits'
           /\ eff.freezeLines = TRUE /\ Freezes => Freezes'
<1> DEFINE p == eff.pid
           hit == {e \in Inject!Pairs : Inject!Incident(e, p) /\ tx.line[e] = "active"}
           o == IF eff.freezeLines THEN tx.objs \cup hit ELSE tx.objs
<1>1. p \in Pids
  BY EffectShapes
<1>2. tx \in Session /\ news \in Tidings /\ known \in SUBSET Pids /\ SessionFits
  BY DEF InjectInv, EventTypes
<1>3. CASE UNCHANGED <<tx, news, known>> /\ tx.part[p] \in {"none", "suspended"}
  BY <1>2, <1>3 DEF SessionFits, Freezes
<1>4. CASE /\ tx.part[p] \notin {"none", "suspended"}
           /\ tx' = [tx EXCEPT !.part[p] = "suspended", !.objs = o]
           /\ news' = [news EXCEPT !.frozen = news.frozen \cup {p}]
           /\ known' = known
  <2>1. o \in SUBSET Inject!Pairs
    BY <1>2 DEF Session
  <2>2. [tx.part EXCEPT ![p] = "suspended"] \in [Pids -> Inject!Status]
    BY <1>2 DEF Session, Inject!Status
  <2> HIDE DEF o
  <2>3. /\ tx' \in Session /\ tx'.part = [tx.part EXCEPT ![p] = "suspended"] /\ tx'.line = tx.line /\ tx'.debt = tx.debt
        /\ tx'.objs = o /\ tx'.addedLines = tx.addedLines
    BY <1>2, <1>4, <2>1, <2>2 DEF Session
  <2>4. /\ news' \in Tidings /\ news'.parts = news.parts /\ news'.lines = news.lines
        /\ news'.frozen = news.frozen \cup {p} /\ news'.total = news.total
    BY <1>1, <1>2, <1>4 DEF Tidings
  <2>5. tx'.part[p] = "suspended" /\ \A q \in Pids : q # p => tx'.part[q] = tx.part[q]
    BY <1>1, <1>2, <2>3 DEF Session
  <2>6. SessionFits'
    BY <1>1, <1>2, <2>3, <2>4, <2>5 DEF SessionFits
  <2>7. ASSUME eff.freezeLines = TRUE, Freezes PROVE Freezes'
    <3>1. o = tx.objs \cup hit
      BY <2>7 DEF o
    <3>2. p \notin news.frozen /\ db.part[p] # "none"
      BY <1>1, <1>4, <2>7 DEF Freezes
    <3>3. o = {e \in Inject!Pairs : db.line[e] = "active" /\ \E q \in news.frozen \cup {p} : Inject!Incident(e, q)}
      BY <2>7, <3>1 DEF Freezes
    <3> QED BY <1>1, <2>3, <2>4, <2>5, <2>7, <3>2, <3>3 DEF Freezes
  <2> QED BY <1>2, <1>4, <2>3, <2>4, <2>6, <2>7
<1> QED BY <1>3, <1>4 DEF Inject!FreezeEffect

LEMMA EffectStepsInv ==
    ASSUME Inject!InjectAssumption, InjectInv, Inject!ApplyEffect \/ Inject!SkipEffect
    PROVE  InjectInv'
<1> DEFINE eff == Inject!Effects[pos + 1]
<1>1. /\ injectPc = "apply" /\ pos < Len(Inject!Effects) /\ pos' = pos + 1
      /\ UNCHANGED <<script, db, mem, seen, injectPc, cur, fired, commits, strays, eventTick>>
      /\ \/ UNCHANGED <<tx, news, known>>
         \/ eff.op = "inject_debt" /\ Inject!InjectDebt(eff)
         \/ eff.op = "create_trustline" /\ Inject!CreateTrustline(eff)
         \/ eff.op = "add_participant" /\ Inject!AddParticipant(eff)
         \/ eff.op = "freeze_participant" /\ Inject!FreezeEffect(eff)
  BY DEF Inject!ApplyEffect, Inject!SkipEffect
<1>2. cur \in 1..Len(script) /\ script \in Scripts /\ pos \in Nat
  BY <1>1 DEF InjectInv, EventTypes, MarksFit
<1>3. /\ eff \in Inject!EffectRecords /\ pos + 1 \in DOMAIN script[cur].effects
      /\ eff = script[cur].effects[pos + 1]
  <2>1. pos + 1 \in 1..Len(Inject!Effects)
    BY <1>1, <1>2, EffectsOfEvent
  <2> QED BY <1>2, <2>1, EffectsOfEvent
<1> HIDE DEF eff
<1>4. /\ OnlyGrows(cur) => eff.op # "freeze_participant"
      /\ OnlyFreezes(cur) => /\ eff.op \in {"freeze_participant", "inject_debt"}
                             /\ eff.op = "freeze_participant" => eff.freezeLines = TRUE
  BY <1>3 DEF OnlyGrows, OnlyFreezes
<1>5. tx \in Session /\ news \in Tidings /\ known \in SUBSET Pids /\ SessionFits
      /\ (OnlyGrows(cur) => Grows) /\ (OnlyFreezes(cur) => Freezes)
  BY <1>1 DEF InjectInv, EventTypes, WholeFits
<1>6. EffectFits
  <2>1. CASE UNCHANGED <<tx, news, known>>
    BY <1>1, <1>5, <2>1 DEF EffectFits, SessionFits, Grows, Freezes
  <2>2. CASE eff.op = "inject_debt" /\ Inject!InjectDebt(eff)
    BY <1>1, <1>3, <1>5, <2>2, DebtInv DEF EffectFits
  <2>3. CASE eff.op = "create_trustline" /\ Inject!CreateTrustline(eff)
    BY <1>1, <1>3, <1>4, <1>5, <2>3, NewLineInv DEF EffectFits
  <2>4. CASE eff.op = "add_participant" /\ Inject!AddParticipant(eff)
    BY <1>1, <1>3, <1>4, <1>5, <2>4, NewcomerInv DEF EffectFits
  <2>5. CASE eff.op = "freeze_participant" /\ Inject!FreezeEffect(eff)
    BY <1>1, <1>3, <1>4, <1>5, <2>5, FreezeInv DEF EffectFits
  <2> QED BY <1>1, <2>1, <2>2, <2>3, <2>4, <2>5
<1> QED BY <1>6, EffectFitsInv

\* What the commit leaves in the database and in memory.
LEMMA CommitEffects ==
    ASSUME Inject!InjectAssumption, InjectInv, injectPc = "apply",
           NEW d, d = [part |-> Inject!Flush(tx).part, line |-> Inject!Flush(tx).line, debt |-> Inject!Flush(tx).debt],
           NEW m, m = Inject!InvalidateCaches(mem, news),
           NEW v, v = Inject!BroadcastTopology(seen, mem, news)
    PROVE  /\ d \in Rows /\ m \in Memory
           /\ v \in [part : [Pids -> Inject!Status], line : [Inject!Pairs -> Inject!Status]]
           /\ \A p \in Pids : m.part[p] # "none" => d.part[p] # "none"
           /\ \A e \in Inject!Pairs : m.line[e] # "none" => d.line[e] # "none"
           /\ m.edges = {e \in Inject!Pairs : m.line[e] = "active"}
           /\ \A e \in Inject!Pairs : d.debt[e] > 0 => d.line[e] # "none" /\ d.debt[e] <= InjectLimit
           /\ \A p \in Pids : mem.part[p] # "none" => d.part[p] # "none"
           /\ \A e \in Inject!Pairs : mem.line[e] # "none" => d.line[e] # "none"
           /\ Same(db, mem) /\ seen.line = mem.line /\ (Grows \/ Freezes)
                => Same(d, m) /\ v.line = m.line
<1> DEFINE hit(e) == \E p \in news.frozen : Inject!Incident(e, p)
           new(e) == IF e \in news.lines THEN "active" ELSE mem.line[e]
<1>1. /\ tx \in Session /\ news \in Tidings /\ mem \in Memory /\ db \in Rows /\ SessionFits /\ MemoryFits
      /\ seen \in [part : [Pids -> Inject!Status], line : [Inject!Pairs -> Inject!Status]]
  BY DEF InjectInv, EventTypes
<1>2. /\ d.part = tx.part /\ d.debt = tx.debt
      /\ d.line = [e \in Inject!Pairs |-> IF e \in tx.addedLines THEN "active"
                                          ELSE IF e \in tx.objs THEN "frozen" ELSE tx.line[e]]
  BY <1>1, Flushed
<1>3. d \in Rows
  <2>1. Inject!Flush(tx) \in Session
    BY <1>1, Flushed
  <2> QED BY <2>1 DEF Session, Rows
<1>4. /\ m.part = [p \in Pids |-> IF p \in news.frozen /\ (mem.part[p] # "none" \/ p \in news.parts) THEN "suspended"
                                  ELSE IF p \in news.parts THEN "active" ELSE mem.part[p]]
      /\ m.line = [e \in Inject!Pairs |-> IF hit(e) /\ new(e) = "active" THEN "frozen" ELSE new(e)]
      /\ m.edges = {e \in mem.edges \cup news.lines : ~hit(e)}
      /\ m = [part |-> m.part, line |-> m.line, edges |-> m.edges]
  BY DEF Inject!InvalidateCaches
<1>5. m \in Memory
  <2>1. m.part \in [Pids -> Inject!Status]
    BY <1>1, <1>4 DEF Memory, Inject!Status
  <2>2. m.line \in [Inject!Pairs -> Inject!Status]
    BY <1>1, <1>4 DEF Memory, Inject!Status
  <2>3. m.edges \in SUBSET Inject!Pairs
    BY <1>1, <1>4 DEF Memory, Tidings
  <2> QED BY <1>4, <2>1, <2>2, <2>3 DEF Memory
<1>6. /\ ~Inject!Affected(mem, news) => v = seen
      /\ Inject!Affected(mem, news) =>
           v = [part |-> [p \in Pids |-> IF p \in news.frozen THEN "suspended"
                                         ELSE IF p \in news.parts THEN "active" ELSE seen.part[p]],
                line |-> [e \in Inject!Pairs |-> IF mem.line[e] = "active" /\ hit(e) THEN "frozen"
                                                 ELSE IF e \in news.lines THEN "active" ELSE seen.line[e]]]
  BY DEF Inject!BroadcastTopology, Inject!FrozenEdges
<1>7. v \in [part : [Pids -> Inject!Status], line : [Inject!Pairs -> Inject!Status]]
  BY <1>1, <1>6 DEF Inject!Status
<1>8. ~Inject!Affected(mem, news) => news.lines = {} /\ \A e \in Inject!Pairs : mem.line[e] # "none" => ~hit(e)
  BY DEF Inject!Affected
<1> HIDE DEF hit
<1>9. ASSUME NEW p \in Pids, m.part[p] # "none" PROVE d.part[p] # "none"
  BY <1>1, <1>2, <1>4, <1>9 DEF SessionFits, MemoryFits
<1>10. ASSUME NEW e \in Inject!Pairs, m.line[e] # "none" PROVE d.line[e] # "none"
  BY <1>1, <1>2, <1>4, <1>10 DEF SessionFits, MemoryFits
<1>11. m.edges = {e \in Inject!Pairs : m.line[e] = "active"}
  BY <1>1, <1>4 DEF MemoryFits, Inject!EdgesAreActiveLines, Tidings
<1>12. ASSUME NEW e \in Inject!Pairs, d.debt[e] > 0 PROVE d.line[e] # "none" /\ d.debt[e] <= InjectLimit
  BY <1>1, <1>2, <1>12 DEF SessionFits
<1>13. ASSUME Same(db, mem), seen.line = mem.line, Grows
       PROVE  Same(d, m) /\ v.line = m.line
  <2>1. news.frozen = {} /\ \A e : ~hit(e)
    BY <1>13 DEF Grows, hit
  <2>2. ASSUME NEW p \in Pids \ strays.parts PROVE m.part[p] = d.part[p]
    BY <1>2, <1>4, <1>13, <2>1 DEF Grows, Same
  <2>3. ASSUME NEW e \in Inject!Pairs
        PROVE  (e \notin strays.lines => m.line[e] = d.line[e]) /\ v.line[e] = m.line[e]
    <3>1. m.line[e] = IF e \in news.lines THEN "active" ELSE mem.line[e]
      BY <1>4, <2>1
    <3>2. d.line[e] = IF e \in tx.addedLines THEN "active" ELSE tx.line[e]
      BY <1>2, <1>13 DEF Grows
    <3>3. v.line[e] = IF e \in news.lines THEN "active" ELSE mem.line[e]
      BY <1>6, <1>8, <1>13, <2>1
    <3> QED BY <1>13, <3>1, <3>2, <3>3 DEF Grows, Same
  <2> QED BY <1>5, <1>7, <2>2, <2>3 DEF Memory, Same
<1>14. ASSUME Same(db, mem), seen.line = mem.line, Freezes
       PROVE  Same(d, m) /\ v.line = m.line
  <2>1. news.parts = {} /\ news.lines = {} /\ tx.addedLines = {} /\ tx.line = db.line
    BY <1>14 DEF Freezes
  <2>2. ASSUME NEW p \in Pids \ strays.parts PROVE m.part[p] = d.part[p]
    BY <1>2, <1>4, <1>14, <2>1 DEF Freezes, Same
  <2>3. \A e \in Inject!Pairs : e \in tx.objs <=> db.line[e] = "active" /\ hit(e)
    BY <1>14 DEF Freezes, hit
  <2>4. ASSUME NEW e \in Inject!Pairs
        PROVE  (e \notin strays.lines => m.line[e] = d.line[e]) /\ v.line[e] = m.line[e]
    <3>1. m.line[e] = IF mem.line[e] = "active" /\ hit(e) THEN "frozen" ELSE mem.line[e]
      BY <1>4, <2>1
    <3>2. d.line[e] = IF db.line[e] = "active" /\ hit(e) THEN "frozen" ELSE db.line[e]
      BY <1>2, <2>1, <2>3
    <3>3. v.line[e] = IF mem.line[e] = "active" /\ hit(e) THEN "frozen" ELSE mem.line[e]
      <4>1. CASE Inject!Affected(mem, news)
        BY <1>6, <1>14, <2>1, <4>1
      <4>2. CASE ~Inject!Affected(mem, news)
        BY <1>6, <1>8, <1>14, <4>2
      <4> QED BY <4>1, <4>2
    <3> QED BY <1>14, <3>1, <3>2, <3>3 DEF Same
  <2> QED BY <1>5, <1>7, <2>2, <2>4 DEF Memory, Same
<1>15. /\ \A p \in Pids : mem.part[p] # "none" => d.part[p] # "none"
       /\ \A e \in Inject!Pairs : mem.line[e] # "none" => d.line[e] # "none"
  BY <1>1, <1>2 DEF SessionFits, MemoryFits
<1> QED BY <1>3, <1>5, <1>7, <1>9, <1>10, <1>11, <1>12, <1>13, <1>14, <1>15

\* The commit, answered or not.
LEMMA CommitInjectInv ==
    ASSUME Inject!InjectAssumption, InjectInv, Inject!CommitInject \/ Inject!LoseCommitAnswer
    PROVE  InjectInv'
<1>1. /\ injectPc = "apply"
      /\ db' = [part |-> Inject!Flush(tx).part, line |-> Inject!Flush(tx).line, debt |-> Inject!Flush(tx).debt]
      /\ commits' = [commits EXCEPT ![cur] = commits[cur] + 1]
      /\ fired' = fired \cup {cur} /\ cur' = cur + 1 /\ injectPc' = "scan" /\ pos' = 0
      /\ tx' = Inject!View(db') /\ news' = Inject!NoNews /\ UNCHANGED <<script, known, eventTick>>
  BY DEF Inject!CommitInject, Inject!LoseCommitAnswer, Inject!Persist, Inject!EndInject
<1>11. mem \in Memory /\ seen \in [part : [Pids -> Inject!Status], line : [Inject!Pairs -> Inject!Status]]
       /\ strays \in [parts : SUBSET Pids, lines : SUBSET Inject!Pairs] /\ MemoryFits
  BY DEF InjectInv, EventTypes
<1>12. \/ /\ mem' = Inject!InvalidateCaches(mem, news) /\ strays' = strays
          /\ seen' = Inject!BroadcastTopology(seen, mem, news)
       \/ /\ mem' = mem /\ seen' = seen
          /\ strays' = [parts |-> strays.parts \cup Inject!Differ(db', mem).parts,
                        lines |-> strays.lines \cup Inject!Differ(db', mem).lines]
  BY DEF Inject!CommitInject, Inject!LoseCommitAnswer
<1>2. /\ db' \in Rows /\ mem' \in Memory /\ strays' \in [parts : SUBSET Pids, lines : SUBSET Inject!Pairs]
      /\ seen' \in [part : [Pids -> Inject!Status], line : [Inject!Pairs -> Inject!Status]]
      /\ \A p \in Pids : mem'.part[p] # "none" => db'.part[p] # "none"
      /\ \A e \in Inject!Pairs : mem'.line[e] # "none" => db'.line[e] # "none"
      /\ mem'.edges = {e \in Inject!Pairs : mem'.line[e] = "active"}
      /\ \A e \in Inject!Pairs : db'.debt[e] > 0 => db'.line[e] # "none" /\ db'.debt[e] <= InjectLimit
      /\ Same(db, mem) /\ seen.line = mem.line /\ (Grows \/ Freezes)
           => Same(db, mem)' /\ seen'.line = mem'.line
  <2>1. CASE /\ mem' = Inject!InvalidateCaches(mem, news) /\ strays' = strays
             /\ seen' = Inject!BroadcastTopology(seen, mem, news)
    <3>1. Same(db', mem') => Same(db, mem)'
      BY <2>1 DEF Same
    <3> QED BY <1>1, <1>11, <2>1, <3>1, CommitEffects
  <2>2. CASE /\ mem' = mem /\ seen' = seen
             /\ strays' = [parts |-> strays.parts \cup Inject!Differ(db', mem).parts,
                           lines |-> strays.lines \cup Inject!Differ(db', mem).lines]
    <3> DEFINE x == Inject!Differ(db', mem)
    <3>1. /\ db' \in Rows
          /\ \A p \in Pids : mem.part[p] # "none" => db'.part[p] # "none"
          /\ \A e \in Inject!Pairs : mem.line[e] # "none" => db'.line[e] # "none"
          /\ \A e \in Inject!Pairs : db'.debt[e] > 0 => db'.line[e] # "none" /\ db'.debt[e] <= InjectLimit
      BY <1>1, CommitEffects
    <3>2. /\ x \in [parts : SUBSET Pids, lines : SUBSET Inject!Pairs]
          /\ \A p \in Pids : p \notin x.parts => mem.part[p] = db'.part[p]
          /\ \A e \in Inject!Pairs : e \notin x.lines => mem.line[e] = db'.line[e]
      BY DifferTypes
    <3> HIDE DEF x
    <3>3. strays' \in [parts : SUBSET Pids, lines : SUBSET Inject!Pairs]
      BY <1>11, <2>2, <3>2 DEF x
    <3>4. Same(db, mem)'
      BY <2>2, <3>2 DEF Same, x
    <3> QED BY <1>11, <2>2, <3>1, <3>3, <3>4 DEF MemoryFits, Inject!EdgesAreActiveLines
  <2> QED BY <1>12, <2>1, <2>2
<1>3. cur \in 1..Len(script) /\ cur \notin fired /\ Len(script) \in Nat /\ commits \in [1..Len(script) -> Nat]
      /\ MaxEffects \in Nat /\ commits[cur] = 0
  BY <1>1 DEF InjectInv, EventTypes, MarksFit, Inject!InjectAssumption
<1>4. tx' \in Session /\ news' \in Tidings
  BY <1>1, <1>2, ViewTypes, NoTidings
<1>5. commits' \in [1..Len(script) -> Nat] /\ commits'[cur] = 1
      /\ \A i \in 1..Len(script) : i # cur => commits'[i] = commits[i]
  BY <1>1, <1>3
<1>6. fired' \in SUBSET (1..Len(script)) /\ cur' \in Nat /\ cur' >= 1 /\ pos' \in 0..MaxEffects
  BY <1>1, <1>3 DEF InjectInv, EventTypes
<1>7. EventTypes'
  BY <1>1, <1>2, <1>4, <1>5, <1>6 DEF InjectInv, EventTypes
<1>8. MarksFit'
  BY <1>1, <1>5, <1>6 DEF InjectInv, MarksFit
<1>9. MemoryFits' /\ Inject!InjectedWithinLimit'
  BY <1>2 DEF MemoryFits, Inject!InjectedWithinLimit, Inject!Covered, Inject!EdgesAreActiveLines
<1>10. WholeFits'
  <2>1. ASSUME Inject!FreezesAreWhole PROVE Same(db, mem)' /\ seen'.line = mem'.line
    <3>1. DOMAIN script = 1..Len(script)
      BY DEF InjectInv, EventTypes, Inject!InjectAssumption
    <3>2. OnlyGrows(cur) \/ OnlyFreezes(cur)
      <4> DEFINE effs == script[cur].effects
      <4>2. \/ \A k \in DOMAIN effs : effs[k].op # "freeze_participant"
            \/ \A k \in DOMAIN effs : /\ effs[k].op \in {"freeze_participant", "inject_debt"}
                                      /\ effs[k].op = "freeze_participant" => effs[k].freezeLines
        BY <1>3, <2>1, <3>1 DEF Inject!FreezesAreWhole
      <4>3. ASSUME NEW k \in DOMAIN effs, effs[k].op = "freeze_participant", effs[k].freezeLines
            PROVE  effs[k].freezeLines = TRUE
        <5>1. effs[k] \in Inject!EffectRecords
          BY <1>3, EffectsOfEvent DEF InjectInv, EventTypes
        <5>2. effs[k].freezeLines \in BOOLEAN
          BY <4>3, <5>1, EffectShapes
        <5> QED BY <4>3, <5>2, Zenon
      <4> QED BY <4>2, <4>3 DEF OnlyGrows, OnlyFreezes
    <3> QED BY <1>1, <1>2, <2>1, <3>2 DEF InjectInv, WholeFits
  <2> QED BY <1>1, <2>1 DEF WholeFits, Inject!FreezesAreWhole
<1> QED BY <1>1, <1>7, <1>8, <1>9, <1>10 DEF InjectInv

LEMMA InjectNextInv ==
    ASSUME Inject!InjectAssumption, InjectInv, Inject!InjectNext
    PROVE  InjectInv'
  BY OutsideSteps, BeginInv, EffectStepsInv, CommitInjectInv DEF Inject!InjectNext

LEMMA InjectStutterInv ==
    ASSUME InjectInv, UNCHANGED injectVars
    PROVE  InjectInv'
<1>1. UNCHANGED <<script, db, tx, mem, seen, known, news, injectPc, cur, pos, fired, commits, strays, eventTick>>
  BY DEF injectVars
<1>2. EventTypes' /\ MarksFit' /\ MemoryFits' /\ Inject!InjectedWithinLimit'
  BY <1>1 DEF InjectInv, EventTypes, MarksFit, MemoryFits, Inject!InjectedWithinLimit, Inject!Covered, Inject!EdgesAreActiveLines
<1>3. (SessionFits => SessionFits') /\ (Grows => Grows') /\ (Freezes => Freezes')
  BY <1>1 DEF SessionFits, Grows, Freezes
<1>4. WholeFits'
  BY <1>1, <1>3 DEF InjectInv, WholeFits, Same, Inject!FreezesAreWhole, OnlyGrows, OnlyFreezes
<1> QED BY <1>1, <1>2, <1>3, <1>4 DEF InjectInv

\* What the events promise, from the invariant.
LEMMA EventsAreSafe ==
    ASSUME Inject!InjectAssumption, InjectInv
    PROVE  /\ Inject!InjectTypeOK /\ Inject!AppliedOnce /\ Inject!MemoryHasRows
           /\ Inject!EdgesAreActiveLines /\ Inject!InjectedWithinLimit /\ Inject!InjectedWithinCap
           /\ Inject!MemoryFollowsRows /\ Inject!ViewerSeesLines
<1>1. Inject!InjectTypeOK
  BY DEF InjectInv, EventTypes, Rows, Memory, Inject!InjectTypeOK
<1>2. Inject!AppliedOnce
  BY DEF InjectInv, EventTypes, MarksFit, Inject!AppliedOnce
<1>3. Inject!MemoryHasRows /\ Inject!EdgesAreActiveLines
  BY DEF InjectInv, MemoryFits, Inject!MemoryHasRows
<1>4. Inject!InjectedWithinCap
  BY DEF InjectInv, SessionFits, Inject!InjectedWithinCap
<1>5. Inject!MemoryFollowsRows /\ Inject!ViewerSeesLines
  BY DEF InjectInv, WholeFits, Same, Inject!MemoryFollowsRows, Inject!ViewerSeesLines
<1> QED BY <1>1, <1>2, <1>3, <1>4, <1>5 DEF InjectInv

EventsHold == part = "inject" => InjectInv

LEMMA EventsHoldAlways == Spec => []EventsHold
<1>0. Inject!InjectAssumption
  BY SimulatorAssumption DEF SimulatorAssumption
<1>1. Init => EventsHold
  <2> SUFFICES ASSUME Init, part = "inject" PROVE InjectInv
    BY DEF EventsHold
  <2>1. Inject!InjectInit
    BY DEF Init
  <2> QED BY <1>0, <2>1, InjectInitInv
<1>2. EventsHold /\ [Next]_vars => EventsHold'
  <2> SUFFICES ASSUME EventsHold, [Next]_vars, part' = "inject" PROVE InjectInv'
    BY DEF EventsHold
  <2>1. part = "inject" /\ [Inject!InjectNext]_injectVars
    BY DEF Next, vars, DriverStep, ViewerStep, viewerVars, InjectStep, ActionsStep, ClearsStep, StreamStep, BusStep
  <2> QED BY <1>0, <2>1, InjectNextInv, InjectStutterInv DEF EventsHold
<1> QED BY <1>1, <1>2, PTL DEF Spec

\* inject_executor.py and cache_invalidator.py: over any list of events, any order of
\* effects, any rows an earlier run left, flushes and commits that fail and commits
\* that are durable and not answered, an event is committed at most once and as a
\* whole; memory has nothing without its row, the planner's edges are the active
\* lines, no injected debt is above its limit and no event above its cap.  Where lines
\* are frozen with their participant, and not in an event that adds participants or
\* lines, memory has the very rows of the database but for those it missed something
\* of, and a viewer sees memory's lines.
THEOREM EventsStayApplied == Spec => []EventsApplyOnce
<1>1. EventsHold => EventsApplyOnce
  <2>1. Inject!InjectAssumption
    BY SimulatorAssumption DEF SimulatorAssumption
  <2> QED BY <2>1, EventsAreSafe DEF EventsHold, EventsApplyOnce
<1> QED BY <1>1, EventsHoldAlways, PTL
----------------------------------------------------------------------------
(* The lifecycle of runs. *)

\* A writer that is no longer referenced has a stop call that waits for it.
Awaited(r) == \E call \in draining : call[2] = r

\* Only runs that this process created are in memory, have rows on their way or are
\* being stopped; a heartbeat has a writer, and a writer that is referenced has its
\* run in memory; shutdown has yet to stop the runs with such a writer; a slot holds a
\* run of its owner.
RunsInv ==
    /\ Runs!LifecycleTypeOK /\ IsFiniteSet(table) /\ Runs!StaleRunsReconciled
    /\ \A r \in RunIds : writer[r] # "on" => ~Runs!Beating(r)
    /\ \A r \in RunIds : writer[r] = "leaving" => Awaited(r)
    /\ \A r \in RunIds : writer[r] = "on" => r \in table
    /\ \A r \in table : born[r] = starts
    /\ \A call \in stopping \cup draining : born[call[2]] = starts
    /\ \A r \in RunIds : writes[r] # {} => born[r] = starts
    /\ process = "closing" => \A r \in table : r \in halting \/ writer[r] # "on"
    /\ process = "down" => table = {}
    /\ \A o \in Owners : slot[o] # Off => OwnerOf[slot[o]] = o

LEMMA RunsInitInv ==
    ASSUME Runs!LifecycleAssumption, Runs!LifecycleInit
    PROVE  RunsInv
<1> USE DEF Runs!LifecycleInit, Runs!LifecycleAssumption
<1>1. cancelled \in [RunIds -> BOOLEAN] /\ reconciled \in BOOLEAN
  BY Zenon
<1>2. /\ table \subseteq RunIds /\ halting \subseteq RunIds
      /\ stopping \subseteq Runs!Calls /\ draining \subseteq Runs!Calls
      /\ state \in [RunIds -> Runs!RunStates] /\ heartbeat \in [RunIds -> Runs!Beats]
      /\ writer \in [RunIds -> {"none", "on", "leaving"}]
      /\ slot \in [Owners -> RunIds \cup {Off}] /\ stored \in [RunIds -> Runs!Rows]
      /\ writes \in [RunIds -> SUBSET Runs!Rows] /\ process \in {"up", "closing", "down"}
      /\ starts \in 1..MaxStarts /\ born \in [RunIds -> 0..MaxStarts]
  BY DEF Runs!RunStates, Runs!Beats, Runs!Rows
<1>3. Runs!LifecycleTypeOK
  BY <1>1, <1>2, Zenon DEF Runs!LifecycleTypeOK
<1>4. \A r \in RunIds : ~Runs!Beating(r)
  BY DEF Runs!Beating
<1>7. Runs!StaleRunsReconciled
  BY DEF Runs!StaleRunsReconciled, Runs!StaleRow
<1>8. IsFiniteSet(table)
  BY FS_EmptySet
<1> QED BY <1>3, <1>4, <1>7, <1>8 DEF RunsInv

\* What a step leaves of a run's tasks: none of them is started, and none is left alone.
TasksOnlyEnd ==
    \A r \in RunIds : /\ Runs!Beating(r)' => Runs!Beating(r)
                      /\ writer'[r] = "on" => writer[r] = "on"
                      /\ writer'[r] # "on" => ~Runs!Beating(r)'
                      /\ writer'[r] = "leaving" => Awaited(r)'

\* A row is on its way only for a run of this process.
RowsAreOurs ==
    \/ writes' = writes
    \/ \E r \in RunIds, s \in Runs!Rows :
         born[r] = starts /\ writes' = [writes EXCEPT ![r] = @ \cup {s}]

\* Steps that leave the table and the process alone.
LEMMA RunsQuietInv ==
    ASSUME RunsInv, UNCHANGED <<table, process, starts, born, reconciled, stored>>, TasksOnlyEnd, RowsAreOurs,
           state' \in [RunIds -> Runs!RunStates], heartbeat' \in [RunIds -> Runs!Beats],
           cancelled' \in [RunIds -> BOOLEAN], writer' \in [RunIds -> {"none", "on", "leaving"}],
           slot' \in [Owners -> RunIds \cup {Off}],
           \A o \in Owners : slot'[o] \in {slot[o], Off} \/ OwnerOf[slot'[o]] = o,
           halting' \subseteq RunIds, stopping' \subseteq Runs!Calls, draining' \subseteq Runs!Calls,
           \A call \in stopping' \cup draining' : call \in stopping \cup draining \/ call[2] \in table,
           \A r \in RunIds : r \in halting => r \in halting' \/ writer'[r] # "on" \/ r \notin table
    PROVE  RunsInv'
<1>1. Runs!LifecycleTypeOK
  BY DEF RunsInv
<1>2. writes' \in [RunIds -> SUBSET Runs!Rows] /\ \A r \in RunIds : writes'[r] # {} => born[r] = starts
  <2>1. writes \in [RunIds -> SUBSET Runs!Rows] /\ \A r \in RunIds : writes[r] # {} => born[r] = starts
    BY <1>1 DEF Runs!LifecycleTypeOK, RunsInv
  <2>2. ASSUME NEW r \in RunIds, NEW s \in Runs!Rows, born[r] = starts,
               writes' = [writes EXCEPT ![r] = @ \cup {s}]
        PROVE  writes' \in [RunIds -> SUBSET Runs!Rows] /\ \A q \in RunIds : writes'[q] # {} => born[q] = starts
    BY <2>1, <2>2
  <2> QED BY <2>1, <2>2 DEF RowsAreOurs
<1>3. Runs!LifecycleTypeOK'
  BY <1>1, <1>2, Zenon DEF Runs!LifecycleTypeOK
<1>5. Runs!StaleRunsReconciled'
  BY DEF RunsInv, Runs!StaleRunsReconciled
<1>6. \A r \in RunIds : /\ writer'[r] # "on" => ~Runs!Beating(r)'
                        /\ writer'[r] = "leaving" => Awaited(r)'
                        /\ writer'[r] = "on" => r \in table'
  BY Zenon DEF RunsInv, TasksOnlyEnd
<1>7. /\ \A r \in table' : born'[r] = starts'
      /\ \A call \in (stopping \cup draining)' : born'[call[2]] = starts'
      /\ process' = "down" => table' = {}
      /\ \A o \in Owners : slot'[o] # Off => OwnerOf[slot'[o]] = o
      /\ IsFiniteSet(table')
  BY DEF RunsInv
<1>8. process' = "closing" => \A r \in table' : r \in halting' \/ writer'[r] # "on"
  BY <1>1 DEF RunsInv, TasksOnlyEnd, Runs!LifecycleTypeOK
<1> QED BY <1>2, <1>3, <1>5, <1>6, <1>7, <1>8, Zenon DEF RunsInv

\* A row that is written is one of these.
LEMMA SaveIsOurs ==
    ASSUME NEW r \in RunIds, NEW s, born[r] = starts, Runs!Save(r, s)
    PROVE  RowsAreOurs /\ stored' = stored
BY DEF Runs!Save, RowsAreOurs, Runs!RowOf, Runs!Rows

\* The facts a step of one run needs of the state before it.
LEMMA RunsTypes ==
    ASSUME Runs!LifecycleAssumption, RunsInv
    PROVE  /\ state \in [RunIds -> Runs!RunStates] /\ heartbeat \in [RunIds -> Runs!Beats]
           /\ slot \in [Owners -> RunIds \cup {Off}] /\ OwnerOf \in [RunIds -> Owners]
           /\ cancelled \in [RunIds -> BOOLEAN] /\ writer \in [RunIds -> {"none", "on", "leaving"}]
           /\ table \subseteq RunIds /\ halting \subseteq RunIds
           /\ stopping \subseteq Runs!Calls /\ draining \subseteq Runs!Calls
  BY DEF RunsInv, Runs!LifecycleTypeOK, Runs!LifecycleAssumption

\* pause, resume, set_intensity, restart and fail_run: the tasks are not touched.
LEMMA CommandInv ==
    ASSUME Runs!LifecycleAssumption, RunsInv, NEW r \in RunIds, Runs!Command(r) \/ Runs!FailRun(r)
    PROVE  RunsInv'
<1>1. /\ state \in [RunIds -> Runs!RunStates] /\ heartbeat \in [RunIds -> Runs!Beats]
      /\ slot \in [Owners -> RunIds \cup {Off}] /\ OwnerOf \in [RunIds -> Owners]
      /\ writer \in [RunIds -> {"none", "on", "leaving"}]
      /\ halting \subseteq RunIds /\ stopping \subseteq Runs!Calls /\ draining \subseteq Runs!Calls
  BY RunsTypes
<1>2. cancelled \in [RunIds -> BOOLEAN]
  BY RunsTypes
<1>3. /\ r \in table /\ born[r] = starts
      /\ UNCHANGED <<table, process, starts, born, reconciled, heartbeat, cancelled, writer,
                     stopping, draining, halting>>
  BY DEF Runs!Command, Runs!Pause, Runs!Resume, Runs!SetIntensity, Runs!Restart, Runs!FailRun, Runs!hostVars,
         Runs!memoryVars, Runs!callVars, RunsInv
<1>4. TasksOnlyEnd
  <2>1. \A q \in RunIds : /\ writer[q] # "on" => ~Runs!Beating(q)
                          /\ writer[q] = "leaving" => Awaited(q)
    BY DEF RunsInv
  <2>2. \A q \in RunIds : (Runs!Beating(q)' <=> Runs!Beating(q)) /\ (Awaited(q)' <=> Awaited(q))
    BY <1>3 DEF Runs!Beating, Awaited
  <2> QED BY <1>3, <2>1, <2>2, Zenon DEF TasksOnlyEnd
<1>5. state' \in [RunIds -> Runs!RunStates]
  BY <1>1 DEF Runs!Command, Runs!Pause, Runs!Resume, Runs!SetIntensity, Runs!Restart, Runs!FailRun, Runs!memoryVars,
              Runs!RunStates
<1>7. slot' = slot \/ slot' = [slot EXCEPT ![OwnerOf[r]] = r]
  BY Zenon DEF Runs!Command, Runs!Pause, Runs!Resume, Runs!SetIntensity, Runs!Restart, Runs!FailRun, Runs!memoryVars
<1>8. /\ slot' \in [Owners -> RunIds \cup {Off}]
      /\ \A o \in Owners : slot'[o] \in {slot[o], Off} \/ OwnerOf[slot'[o]] = o
  BY <1>1, <1>7
<1>9. RowsAreOurs /\ stored' = stored
  <2>1. CASE writes' = writes /\ stored' = stored
    BY <2>1 DEF RowsAreOurs
  <2>2. CASE \E s : Runs!Save(r, s)
    BY <1>3, <2>2, SaveIsOurs
  <2>3. \/ writes' = writes /\ stored' = stored
        \/ \E s : Runs!Save(r, s)
    BY Zenon DEF Runs!Command, Runs!Pause, Runs!Resume, Runs!SetIntensity, Runs!Restart, Runs!FailRun, Runs!rowVars
  <2> QED BY <2>1, <2>2, <2>3
<1> QED BY <1>1, <1>2, <1>3, <1>4, <1>5, <1>8, <1>9, RunsQuietInv

\* Only runs that were created are being stopped, and a writer that a call waits for
\* is no longer referenced.
WaitsInv ==
    /\ \A call \in stopping \cup draining : state[call[2]] # "none"
    /\ \A call \in draining : writer[call[2]] # "on"

\* A step that forgets no run's creation, starts no writer but a new run's, and waits
\* for no other.
LEMMA WaitsKept ==
    ASSUME WaitsInv, stopping \cup draining \subseteq Runs!Calls,
           \A q \in RunIds : /\ state[q] # "none" => state'[q] # "none"
                             /\ writer'[q] = "on" => writer[q] = "on" \/ state[q] = "none",
           \A call \in stopping' \cup draining' : call \in stopping \cup draining \/ state'[call[2]] # "none",
           \A call \in draining' : call \in draining \/ writer'[call[2]] # "on"
    PROVE  WaitsInv'
<1>1. \A call \in stopping \cup draining : call[2] \in RunIds
  BY DEF Runs!Calls
<1> QED BY <1>1 DEF WaitsInv

LEMMA WaitsNextInv ==
    ASSUME Runs!LifecycleAssumption, RunsInv, WaitsInv, [Runs!LifecycleNext]_runsVars
    PROVE  WaitsInv'
<1>1. /\ state \in [RunIds -> Runs!RunStates] /\ writer \in [RunIds -> {"none", "on", "leaving"}]
      /\ stopping \cup draining \subseteq Runs!Calls
  BY RunsTypes
<1>2. ASSUME NEW o \in Owners, NEW r \in RunIds, Runs!Create(o, r) PROVE WaitsInv'
  <2>1. /\ state[r] = "none" /\ state' = [state EXCEPT ![r] = "running"] /\ writer' = [writer EXCEPT ![r] = "on"]
        /\ UNCHANGED <<stopping, draining>>
    BY <1>2 DEF Runs!Create, Runs!callVars
  <2> QED BY <1>1, <2>1, WaitsKept
<1>3. ASSUME NEW r \in RunIds, Runs!Command(r) \/ Runs!FailRun(r) PROVE WaitsInv'
  <2>1. UNCHANGED <<writer, stopping, draining>>
        /\ (state' = state \/ \E x \in {"running", "paused", "error"} : state' = [state EXCEPT ![r] = x])
    <3>1. UNCHANGED <<writer, stopping, draining>>
      BY <1>3 DEF Runs!Command, Runs!Pause, Runs!Resume, Runs!SetIntensity, Runs!Restart, Runs!FailRun,
                  Runs!memoryVars, Runs!callVars
    <3>2. \A x \in Runs!RunStates : x = state[r] => state = [state EXCEPT ![r] = x]
      BY <1>1
    <3> QED BY <1>1, <1>3, <3>1, <3>2 DEF Runs!Command, Runs!Pause, Runs!Resume, Runs!SetIntensity, Runs!Restart,
                  Runs!FailRun, Runs!memoryVars
  <2> QED BY <1>1, <2>1, WaitsKept
<1>4. ASSUME NEW c \in {"client", "shutdown"}, NEW r \in RunIds, Runs!StopCall(c, r) PROVE WaitsInv'
  <2>1. <<c, r>>[2] = r
    OBVIOUS
  <2>2. CASE Runs!Stop(c, r)
    <3>1. state' = [state EXCEPT ![r] = "stopped"] /\ stopping' = stopping \cup {<<c, r>>} /\ UNCHANGED <<writer, draining>>
      BY <2>2 DEF Runs!Stop
    <3> QED BY <1>1, <2>1, <3>1, WaitsKept
  <2>3. CASE Runs!StopJoined(c, r)
    <3>1. /\ <<c, r>> \in stopping /\ stopping' \subseteq stopping /\ state' = state
          /\ \/ writer' = [writer EXCEPT ![r] = "leaving"] /\ draining' = draining \cup {<<c, r>>}
             \/ UNCHANGED <<writer, draining>>
      BY <2>3 DEF Runs!StopJoined, Runs!StopReturned
    <3> QED BY <1>1, <2>1, <3>1, WaitsKept
  <2>4. CASE Runs!WriterJoined(c, r)
    <3>1. /\ draining' \subseteq draining /\ UNCHANGED <<state, stopping>>
          /\ writer' = [writer EXCEPT ![r] = "none"]
      BY <2>4 DEF Runs!WriterJoined, Runs!StopReturned
    <3> QED BY <1>1, <3>1, WaitsKept
  <2> QED BY <1>4, <2>2, <2>3, <2>4 DEF Runs!StopCall
<1>5. ASSUME \/ \E r \in RunIds : Runs!Beat(r) \/ Runs!WriteEnds(r)
             \/ \E o \in Owners : Runs!CreateRefused(o)
             \/ Runs!ShutdownBegins \/ Runs!ShutdownEnds \/ UNCHANGED runsVars
      PROVE  WaitsInv'
  <2>1. UNCHANGED <<state, writer, stopping, draining>>
    BY <1>5 DEF Runs!Beat, Runs!Wake, Runs!TickEnds, Runs!Cancelled, Runs!WriteEnds, Runs!CreateRefused,
                Runs!ShutdownBegins, Runs!ShutdownEnds, Runs!memoryVars, Runs!callVars, runsVars
  <2> QED BY <2>1 DEF WaitsInv
<1>6. ASSUME Runs!Crash \/ Runs!Start PROVE WaitsInv'
  <2>1. stopping' = {} /\ draining' = {}
    BY <1>6 DEF Runs!Crash, Runs!Start, Runs!callVars
  <2> QED BY <2>1 DEF WaitsInv
<1>7. CASE \E call \in Runs!Calls : Runs!StopCall(call[1], call[2])
  <2>1. PICK call \in Runs!Calls : Runs!StopCall(call[1], call[2])
    BY <1>7
  <2>2. call[1] \in {"client", "shutdown"} /\ call[2] \in RunIds
    BY DEF Runs!Calls
  <2> QED BY <1>4, <2>1, <2>2
<1> QED BY <1>2, <1>3, <1>5, <1>6, <1>7, Zenon DEF Runs!LifecycleNext

\* A stop call: the heartbeat is cancelled, then the writer is waited for.
LEMMA StopInv ==
    ASSUME Runs!LifecycleAssumption, RunsInv, WaitsInv, NEW c \in {"client", "shutdown"}, NEW r \in RunIds,
           Runs!StopCall(c, r)
    PROVE  RunsInv'
<1>1. /\ state \in [RunIds -> Runs!RunStates] /\ heartbeat \in [RunIds -> Runs!Beats]
      /\ slot \in [Owners -> RunIds \cup {Off}] /\ OwnerOf \in [RunIds -> Owners]
      /\ writer \in [RunIds -> {"none", "on", "leaving"}] /\ "stopped" \in Runs!RunStates
      /\ halting \subseteq RunIds /\ stopping \subseteq Runs!Calls /\ draining \subseteq Runs!Calls
      /\ <<c, r>> \in Runs!Calls
  BY RunsTypes DEF Runs!RunStates, Runs!Calls
<1>2. cancelled \in [RunIds -> BOOLEAN]
  BY RunsTypes
<1>3. \A q \in RunIds : /\ writer[q] # "on" => ~Runs!Beating(q)
                        /\ writer[q] = "leaving" => Awaited(q)
  BY DEF RunsInv
<1>4. CASE Runs!Stop(c, r)
  <2>1. /\ r \in table /\ state' = [state EXCEPT ![r] = "stopped"] /\ slot' = Runs!ClearActive(r)
        /\ stopping' = stopping \cup {<<c, r>>}
        /\ UNCHANGED <<table, heartbeat, writer, draining, halting, stored, writes, process, starts, born, reconciled>>
    BY <1>4, Zenon DEF Runs!Stop, Runs!MayStop, Runs!rowVars, Runs!hostVars
  <2>2. cancelled' \in [RunIds -> BOOLEAN]
    <3>1. cancelled' = [cancelled EXCEPT ![r] = cancelled[r] \/ Runs!Beating(r)]
      BY <1>4, Zenon DEF Runs!Stop
    <3>2. (cancelled[r] \/ Runs!Beating(r)) \in BOOLEAN
      BY Zenon
    <3> HIDE DEF Runs!Beating
    <3> QED BY <1>2, <3>1, <3>2
  <2>3. slot' = slot \/ slot' = [slot EXCEPT ![OwnerOf[r]] = Off]
    BY <1>1, <2>1 DEF Runs!ClearActive
  <2>4. slot' \in [Owners -> RunIds \cup {Off}] /\ \A o \in Owners : slot'[o] \in {slot[o], Off}
    BY <1>1, <2>3
  <2>5. TasksOnlyEnd
    <3>1. \A q \in RunIds : (Runs!Beating(q)' <=> Runs!Beating(q)) /\ (Awaited(q)' <=> Awaited(q))
      BY <2>1 DEF Runs!Beating, Awaited
    <3> QED BY <1>3, <2>1, <3>1, Zenon DEF TasksOnlyEnd
  <2>6. RowsAreOurs
    BY <2>1 DEF RowsAreOurs
  <2>7. <<c, r>>[2] = r
    OBVIOUS
  <2>8. stopping' \subseteq Runs!Calls /\ draining' \subseteq Runs!Calls /\ halting' \subseteq RunIds
    BY <1>1, <2>1
  <2>9. \A call \in stopping' \cup draining' : call \in stopping \cup draining \/ call[2] \in table
    BY <2>1, <2>7
  <2>10. state' \in [RunIds -> Runs!RunStates]
    BY <1>1, <2>1
  <2> QED BY <1>1, <2>1, <2>2, <2>4, <2>5, <2>6, <2>8, <2>9, <2>10, RunsQuietInv
<1>5. ASSUME <<c, r>> \in stopping \cup draining, Runs!StopReturned(c, r),
             stopping' \subseteq stopping, draining' \subseteq draining, draining \ draining' \subseteq {<<c, r>>},
             \/ writer' = writer /\ draining' = draining /\ (writer[r] # "on" \/ r \notin table)
             \/ writer' = [writer EXCEPT ![r] = "none"] /\ ~Runs!Beating(r)
      PROVE  RunsInv'
  <2>1. /\ halting' = IF c = "shutdown" THEN halting \ {r} ELSE halting
        /\ UNCHANGED <<table, state, heartbeat, cancelled, slot, process, starts, born, reconciled>>
        /\ Runs!Save(r, state[r])
    BY <1>5 DEF Runs!StopReturned, Runs!hostVars
  <2>2. <<c, r>>[2] = r /\ born[r] = starts
    <3>1. <<c, r>>[2] = r
      OBVIOUS
    <3> QED BY <1>5, <3>1 DEF RunsInv
  <2>3. RowsAreOurs /\ stored' = stored
    BY <2>1, <2>2, SaveIsOurs
  <2>4. writer' \in [RunIds -> {"none", "on", "leaving"}]
    BY <1>1, <1>5
  <2>5. ASSUME NEW q \in RunIds
        PROVE  /\ writer'[q] = "on" => writer[q] = "on"
               /\ writer'[q] # "on" => ~Runs!Beating(q)
               /\ writer'[q] = "leaving" => Awaited(q)'
    <3>1. q = r \/ draining' = draining => (Awaited(q) => Awaited(q)' \/ (q = r /\ draining' # draining))
      BY DEF Awaited
    <3>2. q # r /\ Awaited(q) => Awaited(q)'
      BY <1>5, <2>2 DEF Awaited
    <3>3. CASE writer' = writer /\ draining' = draining
      BY <1>3, <3>1, <3>2, <3>3
    <3>4. CASE writer' = [writer EXCEPT ![r] = "none"] /\ ~Runs!Beating(r)
      <4>1. writer'[q] = IF q = r THEN "none" ELSE writer[q]
        BY <1>1, <3>4
      <4> QED BY <1>3, <3>2, <3>4, <4>1
    <3> QED BY <1>5, <3>3, <3>4
  <2>6. \A q \in RunIds : Runs!Beating(q)' <=> Runs!Beating(q)
    BY <2>1 DEF Runs!Beating
  <2>7. TasksOnlyEnd
    BY <2>5, <2>6, Zenon DEF TasksOnlyEnd
  <2>8. \A q \in RunIds : q \in halting => q \in halting' \/ writer'[q] # "on" \/ q \notin table
    BY <1>1, <1>5, <2>1
  <2>9. stopping' \subseteq Runs!Calls /\ draining' \subseteq Runs!Calls /\ halting' \subseteq RunIds
        /\ \A call \in stopping' \cup draining' : call \in stopping \cup draining \/ call[2] \in table
    BY <1>1, <1>5, <2>1
  <2> QED BY <1>1, <1>2, <2>1, <2>3, <2>4, <2>7, <2>8, <2>9, RunsQuietInv
<1>6. CASE Runs!StopJoined(c, r)
  <2>1. /\ <<c, r>> \in stopping /\ ~Runs!Beating(r) /\ stopping' = stopping \ {<<c, r>>}
    BY <1>6 DEF Runs!StopJoined
  <2>2. CASE writer[r] = "on" /\ r \in table
    <3>1. /\ writer' = [writer EXCEPT ![r] = "leaving"] /\ draining' = draining \cup {<<c, r>>}
          /\ UNCHANGED <<table, state, heartbeat, cancelled, halting, slot, stored, writes, process, starts, born, reconciled>>
      BY <1>6, <2>2 DEF Runs!StopJoined, Runs!rowVars, Runs!hostVars
    <3>2. <<c, r>>[2] = r
      OBVIOUS
    <3>3. ASSUME NEW q \in RunIds
          PROVE  /\ writer'[q] = "on" => writer[q] = "on"
                 /\ writer'[q] # "on" => ~Runs!Beating(q)
                 /\ writer'[q] = "leaving" => Awaited(q)'
      <4>1. writer'[q] = IF q = r THEN "leaving" ELSE writer[q]
        BY <1>1, <3>1
      <4>2. (Awaited(q) => Awaited(q)') /\ Awaited(r)'
        BY <3>1, <3>2 DEF Awaited
      <4> QED BY <1>3, <2>1, <4>1, <4>2
    <3>4. \A q \in RunIds : Runs!Beating(q)' <=> Runs!Beating(q)
      BY <3>1 DEF Runs!Beating
    <3>5. TasksOnlyEnd /\ RowsAreOurs
      BY <3>1, <3>3, <3>4, Zenon DEF TasksOnlyEnd, RowsAreOurs
    <3>6. stopping' \subseteq Runs!Calls /\ draining' \subseteq Runs!Calls /\ halting' \subseteq RunIds
          /\ \A call \in stopping' \cup draining' : call \in stopping \cup draining \/ call[2] \in table
      BY <1>1, <2>1, <3>1
    <3>7. writer' \in [RunIds -> {"none", "on", "leaving"}]
      BY <1>1, <3>1
    <3> QED BY <1>1, <1>2, <3>1, <3>5, <3>6, <3>7, RunsQuietInv
  <2>3. CASE ~(writer[r] = "on" /\ r \in table)
    <3>1. Runs!StopReturned(c, r) /\ UNCHANGED <<writer, draining>>
      BY <1>6, <2>3 DEF Runs!StopJoined
    <3> QED BY <1>5, <2>1, <2>3, <3>1
  <2> QED BY <2>2, <2>3
<1>7. CASE Runs!WriterJoined(c, r)
  <2>1. /\ <<c, r>> \in draining /\ draining' = draining \ {<<c, r>>} /\ stopping' = stopping
        /\ writer' = [writer EXCEPT ![r] = "none"] /\ Runs!StopReturned(c, r)
    BY <1>7 DEF Runs!WriterJoined
  <2>2. ~Runs!Beating(r)
    <3>1. <<c, r>>[2] = r
      OBVIOUS
    <3> QED BY <2>1, <3>1 DEF RunsInv, WaitsInv
  <2> QED BY <1>5, <2>1, <2>2
<1> QED BY <1>4, <1>6, <1>7 DEF Runs!StopCall

\* The heartbeat.
LEMMA BeatInv ==
    ASSUME Runs!LifecycleAssumption, RunsInv, NEW r \in RunIds, Runs!Beat(r)
    PROVE  RunsInv'
<1>1. /\ state \in [RunIds -> Runs!RunStates] /\ heartbeat \in [RunIds -> Runs!Beats]
      /\ slot \in [Owners -> RunIds \cup {Off}] /\ writer \in [RunIds -> {"none", "on", "leaving"}]
      /\ halting \subseteq RunIds /\ stopping \subseteq Runs!Calls /\ draining \subseteq Runs!Calls
  BY RunsTypes
<1>2. cancelled \in [RunIds -> BOOLEAN]
  BY RunsTypes
<1>3. UNCHANGED <<table, state, writer, process, starts, born, reconciled, slot, stopping, draining, halting>>
  BY DEF Runs!Beat, Runs!Wake, Runs!TickEnds, Runs!Cancelled, Runs!hostVars, Runs!callVars
<1>4. \E l \in {"sleep", "tick", "done"} : Runs!Beating(r) /\ heartbeat' = [heartbeat EXCEPT ![r] = l]
  BY <1>1 DEF Runs!Beat, Runs!Wake, Runs!TickEnds, Runs!Cancelled, Runs!BeatEnds, Runs!Beating
<1>5. heartbeat' \in [RunIds -> Runs!Beats] /\ \A q \in RunIds : Runs!Beating(q)' => Runs!Beating(q)
  <2>1. {"sleep", "tick", "done"} \subseteq Runs!Beats
    BY DEF Runs!Beats
  <2> QED BY <1>1, <1>4, <2>1 DEF Runs!Beating
<1>7. cancelled' \in [RunIds -> BOOLEAN]
  <2>1. cancelled' = cancelled \/ cancelled' = [cancelled EXCEPT ![r] = FALSE]
    BY Zenon DEF Runs!Beat, Runs!Wake, Runs!TickEnds, Runs!Cancelled, Runs!BeatEnds
  <2> QED BY <1>2, <2>1
<1>8. TasksOnlyEnd
  <2>1. \A q \in RunIds : /\ writer[q] # "on" => ~Runs!Beating(q)
                          /\ writer[q] = "leaving" => Awaited(q)
    BY DEF RunsInv
  <2>2. \A q \in RunIds : Awaited(q)' <=> Awaited(q)
    BY <1>3 DEF Awaited
  <2> QED BY <1>3, <1>5, <2>1, <2>2, Zenon DEF TasksOnlyEnd
<1>9. RowsAreOurs /\ stored' = stored
  <2>1. CASE writes' = writes /\ stored' = stored
    BY <2>1 DEF RowsAreOurs
  <2>2. CASE Runs!Save(r, state[r])
    <3>1. born[r] = starts
      BY <1>4 DEF RunsInv
    <3> QED BY <2>2, <3>1, SaveIsOurs
  <2> QED BY <2>1, <2>2, Zenon DEF Runs!Beat, Runs!Wake, Runs!TickEnds, Runs!Cancelled, Runs!rowVars
<1>10. \A q \in RunIds : q \in halting => q \in halting' \/ writer'[q] # "on" \/ q \notin table
  BY <1>3
<1> QED BY <1>1, <1>3, <1>5, <1>7, <1>8, <1>9, <1>10, RunsQuietInv

\* create_run, and the table that pruning leaves.
LEMMA CreateInv ==
    ASSUME Runs!LifecycleAssumption, RunsInv, NEW o \in Owners, NEW r \in RunIds, Runs!Create(o, r)
    PROVE  RunsInv'
<1>1. Runs!LifecycleTypeOK
  BY DEF RunsInv
<1>2. /\ process = "up" /\ state[r] = "none" /\ OwnerOf[r] = o
      /\ state' = [state EXCEPT ![r] = "running"] /\ heartbeat' = [heartbeat EXCEPT ![r] = "sleep"]
      /\ slot' = [slot EXCEPT ![o] = r] /\ born' = [born EXCEPT ![r] = starts]
      /\ writer' = [writer EXCEPT ![r] = "on"]
      /\ Runs!Prune(table \cup {r}) /\ Runs!Save(r, "running")
      /\ UNCHANGED <<stopping, draining, halting, process, starts, stored>>
  BY DEF Runs!Create, Runs!Save, Runs!callVars
<1>3. cancelled' = cancelled /\ reconciled' = reconciled
  BY Zenon DEF Runs!Create
<1>4. /\ table' \subseteq table \cup {r} /\ r \in table'
      /\ \A q \in table \ table' : q \in Runs!Prunable(table \cup {r})
  <2>1. r \notin Runs!Prunable(table \cup {r})
    BY <1>2 DEF Runs!Prunable
  <2> HIDE DEF Runs!Prunable
  <2> QED BY <1>2, <2>1 DEF Runs!Prune
<1>5. /\ table \subseteq RunIds /\ stopping \cup draining \subseteq Runs!Calls
      /\ born \in [RunIds -> 0..MaxStarts] /\ starts \in 1..MaxStarts
      /\ writes \in [RunIds -> SUBSET Runs!Rows] /\ heartbeat \in [RunIds -> Runs!Beats]
      /\ slot \in [Owners -> RunIds \cup {Off}] /\ state \in [RunIds -> Runs!RunStates]
      /\ writer \in [RunIds -> {"none", "on", "leaving"}]
      /\ MaxStarts \in Nat /\ OwnerOf \in [RunIds -> Owners] /\ "running" \in Runs!RunStates /\ "sleep" \in Runs!Beats
  BY <1>1 DEF Runs!LifecycleTypeOK, Runs!LifecycleAssumption, Runs!RunStates, Runs!Beats
<1>7. writes' = [writes EXCEPT ![r] = @ \cup {Runs!RowOf("running")}] /\ Runs!RowOf("running") \in Runs!Rows
  BY <1>2 DEF Runs!Save, Runs!RowOf, Runs!Rows
<1>8. /\ writer' \in [RunIds -> {"none", "on", "leaving"}] /\ writer'[r] = "on"
      /\ \A q \in RunIds : q # r => writer'[q] = writer[q]
  BY <1>2, <1>5
<1>9. Runs!LifecycleTypeOK'
  <2>1. /\ state' \in [RunIds -> Runs!RunStates] /\ heartbeat' \in [RunIds -> Runs!Beats]
        /\ slot' \in [Owners -> RunIds \cup {Off}] /\ writes' \in [RunIds -> SUBSET Runs!Rows]
        /\ table' \subseteq RunIds
    BY <1>2, <1>4, <1>5, <1>7
  <2>2. born' \in [RunIds -> 0..MaxStarts]
    BY <1>2, <1>5
  <2> QED BY <1>1, <1>2, <1>3, <1>8, <2>1, <2>2, Zenon DEF Runs!LifecycleTypeOK
<1>10. \A q \in RunIds : q # r => (Runs!Beating(q)' <=> Runs!Beating(q)) /\ (Awaited(q)' <=> Awaited(q))
  BY <1>2, <1>5 DEF Runs!Beating, Awaited
<1>11. ASSUME NEW q \in RunIds, writer'[q] = "on" PROVE q \in table'
  <2>1. CASE q = r
    BY <1>4, <2>1
  <2>2. CASE q # r
    <3>1. writer[q] = "on" /\ q \in table
      BY <1>8, <1>11, <2>2 DEF RunsInv
    <3> QED BY <1>4, <3>1 DEF Runs!Prunable
  <2> QED BY <2>1, <2>2
<1>12. \A q \in RunIds : /\ writer'[q] # "on" => ~Runs!Beating(q)'
                         /\ writer'[q] = "leaving" => Awaited(q)'
  BY <1>8, <1>10 DEF RunsInv
<1>13. \A q \in RunIds : born'[q] = IF q = r THEN starts ELSE born[q]
  BY <1>2, <1>5
<1>14. Runs!StaleRunsReconciled'
  <2>1. \A q \in RunIds : born'[q] < starts' => born[q] < starts
    BY <1>2, <1>5, <1>13
  <2> QED BY <1>2, <1>3, <2>1 DEF RunsInv, Runs!StaleRunsReconciled
<1>15. /\ \A q \in table' : born'[q] = starts'
       /\ \A call \in (stopping \cup draining)' : born'[call[2]] = starts'
       /\ \A q \in RunIds : writes'[q] # {} => born'[q] = starts'
       /\ process' \notin {"down", "closing"}
  <2>1. \A q \in table : q \in RunIds /\ born[q] = starts
    BY <1>5 DEF RunsInv
  <2>2. \A q \in RunIds : q # r => writes'[q] = writes[q]
    BY <1>5, <1>7
  <2>3. \A q \in RunIds : writes[q] # {} => born[q] = starts
    BY DEF RunsInv
  <2>4. \A call \in stopping \cup draining : call[2] \in RunIds /\ born[call[2]] = starts
    BY <1>5 DEF RunsInv, Runs!Calls
  <2> QED BY <1>2, <1>4, <1>13, <2>1, <2>2, <2>3, <2>4
<1>16. \A p \in Owners : slot'[p] # Off => OwnerOf[slot'[p]] = p
  BY <1>2, <1>5 DEF RunsInv
<1>17. IsFiniteSet(table')
  <2>1. IsFiniteSet(table \cup {r})
    BY FS_AddElement DEF RunsInv
  <2> QED BY <1>4, <2>1, FS_Subset
<1> QED BY <1>9, <1>11, <1>12, <1>14, <1>15, <1>16, <1>17, Zenon DEF RunsInv

\* A refused create, and a row that reaches the database.
LEMMA RefusedInv ==
    ASSUME Runs!LifecycleAssumption, RunsInv, NEW o \in Owners, Runs!CreateRefused(o)
    PROVE  RunsInv'
<1>1. /\ slot' = [slot EXCEPT ![o] = Off]
      /\ UNCHANGED <<table, state, heartbeat, cancelled, writer, stopping, draining, halting, stored, writes,
                     process, starts, born, reconciled>>
  BY Zenon DEF Runs!CreateRefused, Runs!rowVars, Runs!hostVars, Runs!callVars
<1>2. slot \in [Owners -> RunIds \cup {Off}]
  BY RunsTypes
<1>4. \A q \in RunIds : (Runs!Beating(q)' <=> Runs!Beating(q)) /\ (Awaited(q)' <=> Awaited(q))
  BY <1>1 DEF Runs!Beating, Awaited
<1>5. \A q \in RunIds : (writer[q] # "on" => ~Runs!Beating(q)) /\ (writer[q] = "leaving" => Awaited(q))
  BY DEF RunsInv
<1>6. TasksOnlyEnd
  BY <1>1, <1>4, <1>5, Zenon DEF TasksOnlyEnd
<1>7. RowsAreOurs
  BY <1>1 DEF RowsAreOurs
<1>8. slot' \in [Owners -> RunIds \cup {Off}] /\ \A p \in Owners : slot'[p] \in {slot[p], Off}
  BY <1>1, <1>2
<1>9. cancelled' \in [RunIds -> BOOLEAN]
  BY <1>1, RunsTypes
<1> QED BY <1>1, <1>6, <1>7, <1>8, <1>9, RunsTypes, RunsQuietInv

LEMMA WriteEndsInv ==
    ASSUME Runs!LifecycleAssumption, RunsInv, NEW r \in RunIds, Runs!WriteEnds(r)
    PROVE  RunsInv'
<1>1. Runs!LifecycleTypeOK
  BY DEF RunsInv
<1>2. UNCHANGED <<table, state, heartbeat, cancelled, writer, stopping, draining, halting, slot,
                  process, starts, born, reconciled>>
  BY DEF Runs!WriteEnds, Runs!memoryVars, Runs!hostVars, Runs!callVars
<1>3. PICK s \in writes[r] : /\ writes' = [writes EXCEPT ![r] = @ \ {s}]
                             /\ stored' \in {stored, [stored EXCEPT ![r] = s]}
  BY DEF Runs!WriteEnds
<1>4. /\ writes \in [RunIds -> SUBSET Runs!Rows] /\ stored \in [RunIds -> Runs!Rows] /\ s \in Runs!Rows
      /\ born[r] = starts /\ starts \in Nat
  BY <1>1, <1>3 DEF Runs!LifecycleTypeOK, RunsInv
<1>5. /\ writes' \in [RunIds -> SUBSET Runs!Rows] /\ stored' \in [RunIds -> Runs!Rows]
      /\ \A q \in RunIds : writes'[q] \subseteq writes[q] /\ (q # r => stored'[q] = stored[q])
  BY <1>3, <1>4
<1>6. Runs!LifecycleTypeOK'
  BY <1>1, <1>2, <1>5, Zenon DEF Runs!LifecycleTypeOK
<1>7. Runs!StaleRunsReconciled'
  BY <1>2, <1>4, <1>5 DEF RunsInv, Runs!StaleRunsReconciled
<1>8. \A q \in RunIds : /\ writer'[q] # "on" => ~Runs!Beating(q)'
                        /\ writer'[q] = "leaving" => Awaited(q)'
                        /\ writer'[q] = "on" => q \in table'
  BY <1>2, Zenon DEF RunsInv, Runs!Beating, Awaited
<1>9. \A q \in RunIds : writes'[q] # {} => born'[q] = starts'
  BY <1>2, <1>5 DEF RunsInv
<1> QED BY <1>2, <1>6, <1>7, <1>8, <1>9, Zenon DEF RunsInv

\* Shutdown, a crash and the next start: nothing of a process outlives it but what a
\* stop call waits for.
LEMMA ProcessInv ==
    ASSUME Runs!LifecycleAssumption, RunsInv,
           Runs!ShutdownBegins \/ Runs!ShutdownEnds \/ Runs!Crash \/ Runs!Start
    PROVE  RunsInv'
<1>1. Runs!LifecycleTypeOK
  BY DEF RunsInv
<1>2. CASE Runs!ShutdownBegins
  <2>1. /\ process' = "closing" /\ halting' = table
        /\ UNCHANGED <<table, state, heartbeat, cancelled, writer, stopping, draining, slot, stored, writes,
                       starts, born, reconciled>>
    BY <1>2 DEF Runs!ShutdownBegins, Runs!rowVars
  <2>2. process' \in {"up", "closing", "down"} /\ process' # "down" /\ process' # "up" /\ halting' \subseteq RunIds
    BY <1>1, <2>1 DEF Runs!LifecycleTypeOK
  <2>3. Runs!LifecycleTypeOK'
    BY <1>1, <2>1, <2>2, Zenon DEF Runs!LifecycleTypeOK
  <2>4. Runs!StaleRunsReconciled'
    BY <2>2, Zenon DEF Runs!StaleRunsReconciled
  <2>5. \A q \in RunIds : /\ writer'[q] # "on" => ~Runs!Beating(q)'
                          /\ writer'[q] = "leaving" => Awaited(q)'
    BY <2>1, Zenon DEF RunsInv, Runs!Beating, Awaited
  <2> QED BY <2>1, <2>2, <2>3, <2>4, <2>5, Zenon DEF RunsInv
<1>3. CASE Runs!ShutdownEnds
  <2>1. /\ process = "closing" /\ process' = "down" /\ halting = {} /\ table' = {} /\ slot' = [o \in Owners |-> Off]
        /\ UNCHANGED <<state, heartbeat, cancelled, writer, stopping, draining, halting, stored, writes,
                       starts, born, reconciled>>
    BY <1>3 DEF Runs!ShutdownEnds, Runs!Forget, Runs!callVars, Runs!rowVars
  <2>2. \A q \in RunIds : writer[q] # "on"
    BY <2>1 DEF RunsInv
  <2>3. /\ slot' \in [Owners -> RunIds \cup {Off}] /\ process' \in {"up", "closing", "down"} /\ table' \subseteq RunIds
        /\ \A o \in Owners : slot'[o] = Off
    BY <2>1
  <2>4. Runs!LifecycleTypeOK'
    BY <1>1, <2>1, <2>3, Zenon DEF Runs!LifecycleTypeOK
  <2>5. Runs!StaleRunsReconciled' /\ process' # "closing"
    <3>1. process' # "up" /\ process' # "closing"
      BY <2>1
    <3> QED BY <3>1, Zenon DEF Runs!StaleRunsReconciled
  <2>6. \A q \in RunIds : /\ writer'[q] # "on" => ~Runs!Beating(q)'
                          /\ writer'[q] = "leaving" => Awaited(q)'
                          /\ writer'[q] # "on"
    BY <2>1, <2>2, Zenon DEF RunsInv, Runs!Beating, Awaited
  <2>7. IsFiniteSet(table')
    BY <2>1, FS_EmptySet
  <2>8. \A q \in table' : born'[q] = starts'
    BY <2>1
  <2> QED BY <2>1, <2>3, <2>4, <2>5, <2>6, <2>7, <2>8, Zenon DEF RunsInv
<1>4. CASE Runs!Crash
  <2>1. /\ process' = "down" /\ table' = {} /\ slot' = [o \in Owners |-> Off]
        /\ stopping' = {} /\ draining' = {} /\ halting' = {}
        /\ state' = [r \in RunIds |-> IF state[r] = "none" THEN "none" ELSE "stopped"]
        /\ heartbeat' = [r \in RunIds |-> IF state[r] = "none" THEN "none" ELSE "done"]
        /\ writer' = [r \in RunIds |-> "none"] /\ writes' = [r \in RunIds |-> {}]
        /\ stored' \in [RunIds -> Runs!Rows] /\ UNCHANGED <<starts, born>>
    BY <1>4 DEF Runs!Crash, Runs!Forget
  <2>2. cancelled' \in [RunIds -> BOOLEAN] /\ reconciled' = reconciled
    <3>1. cancelled' = [r \in RunIds |-> FALSE] /\ reconciled' = reconciled
      BY <1>4, Zenon DEF Runs!Crash
    <3> QED BY <3>1
  <2>3. /\ state' \in [RunIds -> Runs!RunStates] /\ slot' \in [Owners -> RunIds \cup {Off}]
        /\ heartbeat' \in [RunIds -> Runs!Beats] /\ writer' \in [RunIds -> {"none", "on", "leaving"}]
        /\ writes' \in [RunIds -> SUBSET Runs!Rows]
        /\ process' \in {"up", "closing", "down"} /\ table' \subseteq RunIds
        /\ stopping' \subseteq Runs!Calls /\ draining' \subseteq Runs!Calls /\ halting' \subseteq RunIds
    BY <2>1 DEF Runs!RunStates, Runs!Beats
  <2>4. Runs!LifecycleTypeOK'
    BY <1>1, <2>1, <2>2, <2>3, Zenon DEF Runs!LifecycleTypeOK
  <2>5. process' # "up" /\ process' # "closing"
    BY <2>1
  <2>6. Runs!StaleRunsReconciled'
    BY <2>5, Zenon DEF Runs!StaleRunsReconciled
  <2>7. /\ \A r \in RunIds : ~Runs!Beating(r)' /\ writer'[r] = "none" /\ writes'[r] = {}
        /\ \A o \in Owners : slot'[o] = Off
    BY <2>1 DEF Runs!Beating
  <2>8. IsFiniteSet(table')
    BY <2>1, FS_EmptySet
  <2> QED BY <2>1, <2>4, <2>5, <2>6, <2>7, <2>8 DEF RunsInv
<1>5. CASE Runs!Start
  <2>1. /\ process = "down" /\ process' = "up" /\ \A r \in RunIds : writes[r] = {}
        /\ stopping = {} /\ draining = {} /\ starts < MaxStarts /\ starts' = starts + 1
        /\ state' = [r \in RunIds |-> IF state[r] = "none" THEN "none" ELSE "stopped"]
        /\ UNCHANGED <<table, heartbeat, cancelled, writer, stopping, draining, halting, slot, writes, born>>
    BY <1>5 DEF Runs!Start, Runs!callVars
  <2>2. reconciled' \in BOOLEAN
    BY <1>5, Zenon DEF Runs!Start
  <2>3. table = {}
    BY <2>1 DEF RunsInv
  <2>4. stored' \in [RunIds -> Runs!Rows] /\ (reconciled' => \A r \in RunIds : ~Runs!StaleRow(stored'[r]))
    <3>1. stored \in [RunIds -> Runs!Rows]
      BY <1>1 DEF Runs!LifecycleTypeOK
    <3>2. CASE reconciled'
      <4>1. stored' = [r \in RunIds |-> IF Runs!StaleRow(stored[r]) THEN "over" ELSE stored[r]]
        BY <1>5, <3>2, Zenon DEF Runs!Start
      <4> QED BY <3>1, <4>1 DEF Runs!StaleRow, Runs!Rows
    <3>3. CASE ~reconciled'
      <4>1. stored' = [r \in RunIds |-> stored[r]]
        BY <1>5, <3>3, Zenon DEF Runs!Start
      <4> QED BY <3>1, <3>3, <4>1
    <3> QED BY <3>2, <3>3
  <2>5. Runs!LifecycleTypeOK'
    <3>1. /\ starts' \in 1..MaxStarts /\ process' \in {"up", "closing", "down"}
          /\ state' \in [RunIds -> Runs!RunStates]
      BY <1>1, <2>1 DEF Runs!LifecycleTypeOK, Runs!LifecycleAssumption, Runs!RunStates
    <3> QED BY <1>1, <2>1, <2>2, <2>4, <3>1, Zenon DEF Runs!LifecycleTypeOK
  <2>6. Runs!StaleRunsReconciled'
    <3>1. ASSUME reconciled', NEW r \in RunIds PROVE ~Runs!StaleRow(stored[r])'
      BY <2>4, <3>1 DEF Runs!StaleRow
    <3> QED BY <3>1, Zenon DEF Runs!StaleRunsReconciled
  <2>7. \A q \in RunIds : /\ writer'[q] # "on" => ~Runs!Beating(q)'
                          /\ writer'[q] = "leaving" => Awaited(q)'
                          /\ writer'[q] = "on" => q \in table'
    BY <2>1, Zenon DEF RunsInv, Runs!Beating, Awaited
  <2>8. /\ \A r \in RunIds : writes'[r] = {}
        /\ \A r \in table' : born'[r] = starts'
        /\ \A call \in (stopping \cup draining)' : born'[call[2]] = starts'
        /\ process' # "down" /\ process' # "closing"
    BY <2>1, <2>3
  <2> QED BY <2>1, <2>5, <2>6, <2>7, <2>8, Zenon DEF RunsInv
<1> QED BY <1>2, <1>3, <1>4, <1>5

LEMMA RunsNextInv ==
    ASSUME Runs!LifecycleAssumption, RunsInv, WaitsInv, [Runs!LifecycleNext]_runsVars
    PROVE  RunsInv'
<1>1. CASE Runs!LifecycleNext
  <2>1. CASE \E o \in Owners : Runs!CreateRefused(o) \/ \E r \in RunIds : Runs!Create(o, r)
    BY <2>1, RefusedInv, CreateInv
  <2>2. CASE \E r \in RunIds : Runs!Command(r) \/ Runs!Beat(r) \/ Runs!FailRun(r) \/ Runs!WriteEnds(r)
    BY <2>2, CommandInv, BeatInv, WriteEndsInv
  <2>3. CASE \E call \in Runs!Calls : Runs!StopCall(call[1], call[2])
    <3>1. PICK call \in Runs!Calls : Runs!StopCall(call[1], call[2])
      BY <2>3
    <3>2. call[1] \in {"client", "shutdown"} /\ call[2] \in RunIds
      BY DEF Runs!Calls
    <3> QED BY <3>1, <3>2, StopInv
  <2> QED BY <1>1, <2>1, <2>2, <2>3, ProcessInv DEF Runs!LifecycleNext
<1>2. CASE UNCHANGED runsVars
  BY <1>2, Zenon DEF runsVars, RunsInv, Runs!LifecycleTypeOK, Runs!StaleRunsReconciled, Runs!Beating, Awaited
<1> QED BY <1>1, <1>2

LEMMA RunsAreIdle ==
    ASSUME RunsInv
    PROVE  Runs!LifecycleTypeOK /\ Runs!ForgottenRunsAreIdle /\ Runs!StaleRunsReconciled
<1>1. ASSUME NEW r \in RunIds \ table
      PROVE  ~Runs!Beating(r) /\ (writer[r] # "none" => \E call \in draining : call[2] = r)
  <2>1. writer[r] \in {"none", "leaving"}
    BY DEF RunsInv, Runs!LifecycleTypeOK
  <2> QED BY <2>1 DEF RunsInv, Awaited
<1> QED BY <1>1, Zenon DEF RunsInv, Runs!ForgottenRunsAreIdle

\* The slot of an owner: with one run to an owner, a create cannot take it.
LEMMA SlotStep ==
    ASSUME Runs!LifecycleAssumption, MaxPerOwner = 1, RunsInv, [Runs!LifecycleNext]_runsVars
    PROVE  Runs!SlotIsKept
<1> SUFFICES ASSUME NEW o \in Owners, slot[o] \in Runs!ActiveRuns, process' = process
             PROVE  slot'[o] = slot[o] \/ state'[slot[o]] = "stopped"
  BY DEF Runs!SlotIsKept
<1>1. /\ slot \in [Owners -> RunIds \cup {Off}] /\ state \in [RunIds -> Runs!RunStates] /\ OwnerOf \in [RunIds -> Owners]
      /\ slot[o] \in table /\ state[slot[o]] \in Runs!ActiveStates /\ table \subseteq RunIds /\ Off \notin RunIds
      /\ OwnerOf[slot[o]] = o
  BY DEF RunsInv, Runs!LifecycleTypeOK, Runs!ActiveRuns, Runs!LifecycleAssumption
<1>2. CASE UNCHANGED slot
  BY <1>2
<1>3. CASE \E p \in Owners : Runs!CreateRefused(p)
  <2>1. PICK p \in Owners : Runs!CreateRefused(p)
    BY <1>3
  <2>2. Runs!Stale(p) /\ slot' = [slot EXCEPT ![p] = Off]
    BY <2>1 DEF Runs!CreateRefused
  <2>3. p # o
    BY <1>1, <2>2 DEF Runs!Stale
  <2> QED BY <1>1, <2>2, <2>3
<1>4. CASE \E p \in Owners, r \in RunIds : Runs!Create(p, r)
  <2>1. PICK p \in Owners, r \in RunIds : Runs!Create(p, r)
    BY <1>4
  <2>2. Runs!Cardinality(Runs!ActiveRunsOf(p)) < 1 /\ slot' = [slot EXCEPT ![p] = r]
    BY <2>1 DEF Runs!Create
  <2>3. ASSUME p = o PROVE FALSE
    <3> DEFINE mine == Runs!ActiveRunsOf(o)
    <3>1. slot[o] \in mine /\ mine \subseteq table
      BY <1>1 DEF Runs!ActiveRunsOf, Runs!ActiveRuns
    <3>2. IsFiniteSet(mine)
      BY <3>1, FS_Subset DEF RunsInv
    <3>3. Runs!Cardinality(mine) = Cardinality(mine)
      BY Zenon DEF Runs!Cardinality, Cardinality
    <3> HIDE DEF mine
    <3>4. Cardinality(mine) \in Nat /\ Cardinality(mine) # 0
      BY <3>1, <3>2, FS_CardinalityType, FS_EmptySet
    <3> QED BY <2>2, <2>3, <3>3, <3>4 DEF mine
  <2> QED BY <1>1, <2>2, <2>3
<1>5. CASE \E call \in Runs!Calls : Runs!StopCall(call[1], call[2])
  <2>1. PICK call \in Runs!Calls : Runs!StopCall(call[1], call[2])
    BY <1>5
  <2> DEFINE c == call[1]
             r == call[2]
  <2>2. r \in RunIds
    BY DEF Runs!Calls
  <2>3. CASE Runs!Stop(c, r)
    BY <1>1, <2>2, <2>3 DEF Runs!Stop, Runs!ClearActive
  <2>4. CASE Runs!StopJoined(c, r) \/ Runs!WriterJoined(c, r)
    BY <2>4, <1>2 DEF Runs!StopJoined, Runs!WriterJoined, Runs!StopReturned
  <2> QED BY <2>1, <2>3, <2>4 DEF Runs!StopCall
<1>6. CASE \E r \in RunIds : Runs!Restart(r)
  <2>1. PICK r \in RunIds : Runs!Restart(r)
    BY <1>6
  <2>2. CASE slot' = slot
    BY <2>2
  <2>3. CASE slot[OwnerOf[r]] \notin RunIds \ {r} /\ slot' = [slot EXCEPT ![OwnerOf[r]] = r]
    BY <1>1, <2>3
  <2> QED BY <2>1, <2>2, <2>3 DEF Runs!Restart
<1>7. CASE \E r \in RunIds : \/ Runs!Pause(r) \/ Runs!Resume(r) \/ Runs!SetIntensity(r)
                             \/ Runs!Beat(r) \/ Runs!FailRun(r) \/ Runs!WriteEnds(r)
  <2>1. UNCHANGED slot
    BY <1>7, Zenon DEF Runs!Pause, Runs!Resume, Runs!SetIntensity, Runs!Beat, Runs!Wake, Runs!TickEnds,
                Runs!Cancelled, Runs!FailRun, Runs!WriteEnds, Runs!memoryVars
  <2> QED BY <1>2, <2>1
<1>8. CASE Runs!ShutdownBegins \/ Runs!ShutdownEnds \/ Runs!Crash \/ Runs!Start
  BY <1>8 DEF Runs!ShutdownBegins, Runs!ShutdownEnds, Runs!Crash, Runs!Start
<1>9. CASE UNCHANGED runsVars
  BY <1>2, <1>9 DEF runsVars
<1> QED BY <1>3, <1>4, <1>5, <1>6, <1>7, <1>8, <1>9, Zenon DEF Runs!LifecycleNext, Runs!Command

RunsHold == part = "runs" => RunsInv /\ WaitsInv

LEMMA RunsHoldAlways == Spec => []RunsHold
<1>1. Init => RunsHold
  <2> SUFFICES ASSUME Init, part = "runs" PROVE RunsInv /\ WaitsInv
    BY DEF RunsHold
  <2>1. Runs!LifecycleInit
    BY DEF Init
  <2>2. WaitsInv
    BY <2>1 DEF Runs!LifecycleInit, WaitsInv
  <2> QED BY <2>1, <2>2, SimulatorAssumption, RunsInitInv DEF SimulatorAssumption
<1>2. RunsHold /\ [Next]_vars => RunsHold'
  <2> SUFFICES ASSUME RunsHold, [Next]_vars, part' = "runs" PROVE RunsInv' /\ WaitsInv'
    BY DEF RunsHold
  <2>1. part = "runs" /\ [Runs!LifecycleNext]_runsVars
    BY DEF Next, vars, DriverStep, ViewerStep, driverVars, TicksStep, RunsStep, AdaptiveStep, DriftStep
  <2> QED BY <2>1, SimulatorAssumption, RunsNextInv, WaitsNextInv DEF RunsHold, SimulatorAssumption
<1> QED BY <1>1, <1>2, PTL DEF Spec

\* run_lifecycle.py: a run that was pruned or forgotten has no heartbeat left, and no
\* writer but one that a stop call under way waits for, over any race of stop calls,
\* pruning, shutdown and crash; after a start that reconciled, no row shows a run of an
\* earlier process as active, whatever rows were still on their way; and with one run
\* to an owner (the default of SIMULATOR_MAX_ACTIVE_RUNS_PER_OWNER) the run in its
\* owner's slot keeps it until it is stopped itself.
THEOREM RunsStayAccountedFor ==
    ASSUME MaxPerOwner = 1
    PROVE  Spec => RunsAreAccountedFor
<1>1. RunsHold => (part = "runs" => Runs!LifecycleTypeOK /\ Runs!ForgottenRunsAreIdle /\ Runs!StaleRunsReconciled)
  BY RunsAreIdle DEF RunsHold
<1>2. RunsHold /\ [Next]_vars => [part = "runs" => Runs!SlotIsKept]_vars
  <2> SUFFICES ASSUME RunsHold, Next, part = "runs" PROVE Runs!SlotIsKept
    BY DEF RunsHold
  <2>1. [Runs!LifecycleNext]_runsVars
    BY DEF Next, DriverStep, ViewerStep, driverVars, TicksStep, RunsStep, AdaptiveStep, DriftStep
  <2> QED BY <2>1, SimulatorAssumption, SlotStep DEF RunsHold, SimulatorAssumption
<1> QED BY <1>1, <1>2, RunsHoldAlways, PTL DEF Spec, RunsAreAccountedFor
----------------------------------------------------------------------------
(* Trust drift. *)

Share(n, rate) == (n * rate) \div 100

\* A share of a limit is a limit, above it from a hundred percent on and below it up to there.
LEMMA Shares ==
    ASSUME NEW n \in Nat, NEW rate \in Nat
    PROVE  Share(n, rate) \in Nat /\ (rate >= 100 => Share(n, rate) >= n) /\ (rate <= 100 => Share(n, rate) <= n)
<1> DEFINE x == n * rate
<1>1. x \in Nat /\ (rate >= 100 => x >= n * 100) /\ (rate <= 100 => x <= n * 100)
  <2>1. x \in Nat
    OBVIOUS
  <2>2. CASE rate >= 100
    <3>1. PICK k \in Nat : rate = 100 + k
      <4>1. rate - 100 \in Nat /\ rate = 100 + (rate - 100)
        BY <2>2
      <4> QED BY <4>1
    <3>2. x = n * 100 + n * k /\ n * k \in Nat
      BY <3>1
    <3> QED BY <2>1, <2>2, <3>1, <3>2
  <2>3. CASE rate <= 100
    <3>1. PICK k \in Nat : rate + k = 100
      <4>1. 100 - rate \in Nat /\ rate + (100 - rate) = 100
        BY <2>3
      <4> QED BY <4>1
    <3>2. n * 100 = x + n * k /\ n * k \in Nat
      BY <3>1
    <3> HIDE DEF x
    <3> QED BY <2>1, <2>3, <3>1, <3>2
  <2> QED BY <2>1, <2>2, <2>3
<1> HIDE DEF x
<1>2. x \div 100 \in Nat /\ (x >= n * 100 => x \div 100 >= n) /\ (x <= n * 100 => x \div 100 <= n)
  BY <1>1
<1> QED BY <1>1, <1>2 DEF Share, x

Cap == Share(original, MaxGrowth)
Floor == Share(original, MinLimit)

\* The numbers of a line and of its tick.
DriftNumbers ==
    /\ limit \in Nat /\ memory \in Nat /\ debt \in Nat /\ snap \in Nat /\ debt + extra \in Nat /\ extra \in Int
    /\ original \in Nat /\ original \in Originals
    /\ unheard \in [Drift!Writers -> Nat \cup {-1}] /\ target \in Nat \cup {-1}
    /\ driftTick \in 0..MaxDriftTicks /\ lastClearing \in -1..MaxDriftTicks

DriftFlags ==
    /\ frozen \in {"no", "row", "both"} /\ driftDoubt \in BOOLEAN /\ edited \in BOOLEAN
    /\ driftPc \in {"idle", "planned", "cleared", "growing", "grown", "decaying"}

\* The tick pays within the limit, and will decay to no less than the debt it read.
TickInv ==
    /\ driftPc # "planned" => extra = 0
    /\ driftPc = "planned" => debt + extra <= limit \/ debt + extra <= debt
    /\ target # -1 => driftPc = "decaying" /\ target >= snap

\* Without a doubt at most one commit has not been heard of, and it made the limit.
Heard ==
    \/ \A w \in Drift!Writers : unheard[w] = -1 /\ limit = memory
    \/ \E w \in Drift!Writers : limit = unheard[w] /\ \A v \in Drift!Writers \ {w} : unheard[v] = -1

Follows == driftDoubt \/ Heard

\* Whatever may become the limit is within the bounds, and so is what may become owed.
Within(n) == n \in Nat /\ Floor <= n /\ n <= Cap
BoundsInv ==
    (original > 0 /\ ~edited) =>
        /\ Within(limit) /\ Within(memory) /\ snap <= Cap /\ debt <= Cap /\ debt + extra <= Cap
        /\ target # -1 => Within(target)
        /\ \A w \in Drift!Writers : unheard[w] # -1 => Within(unheard[w])

DriftInv == DriftNumbers /\ DriftFlags /\ TickInv /\ Follows /\ BoundsInv

\* What growth and decay come to.
LEMMA DriftBounds ==
    ASSUME Drift!DriftAssumption, DriftNumbers
    PROVE  /\ Cap \in Nat /\ Floor \in Nat /\ original <= Cap /\ Floor <= original
           /\ Drift!Grown \in Nat /\ (limit <= Drift!Grown \/ Drift!Grown = Cap) /\ Drift!Grown <= Cap
           /\ Drift!Decayed \in Nat /\ snap <= Drift!Decayed /\ Floor <= Drift!Decayed
           /\ Drift!Decayed <= memory \/ Drift!Decayed = Floor \/ Drift!Decayed = snap
           /\ Drift!Percent(original, MaxGrowth) = Cap /\ Drift!Percent(original, MinLimit) = Floor
<1>1. /\ GrowthRate \in Nat /\ DecayRate \in Nat /\ MaxGrowth \in Nat /\ MinLimit \in Nat
      /\ DecayRate <= 100 /\ MinLimit <= 100 /\ MaxGrowth >= 100
  BY DEF Drift!DriftAssumption
<1>2. Cap \in Nat /\ original <= Cap
  BY <1>1, Shares DEF Cap, DriftNumbers
<1>3. Floor \in Nat /\ Floor <= original
  BY <1>1, Shares DEF Floor, DriftNumbers
<1>4. Share(limit, 100 + GrowthRate) \in Nat /\ limit <= Share(limit, 100 + GrowthRate)
  <2>1. 100 + GrowthRate \in Nat /\ 100 + GrowthRate >= 100
    BY <1>1
  <2> QED BY <2>1, Shares DEF DriftNumbers
<1>5. Share(memory, 100 - DecayRate) \in Nat /\ Share(memory, 100 - DecayRate) <= memory
  <2>1. 100 - DecayRate \in Nat /\ 100 - DecayRate <= 100
    BY <1>1
  <2> QED BY <2>1, Shares DEF DriftNumbers
<1>6. Drift!Grown = Drift!MinOf(Share(limit, 100 + GrowthRate), Cap)
  BY Zenon DEF Drift!Grown, Drift!Percent, Share, Cap
<1>7. Drift!Decayed = Drift!MaxOf(Drift!MaxOf(Share(memory, 100 - DecayRate), Floor), snap)
  BY Zenon DEF Drift!Decayed, Drift!Percent, Share, Floor
<1>8. Drift!Grown \in Nat /\ (limit <= Drift!Grown \/ Drift!Grown = Cap) /\ Drift!Grown <= Cap
  BY <1>2, <1>4, <1>6 DEF Drift!MinOf, DriftNumbers
<1>9. /\ Drift!Decayed \in Nat /\ snap <= Drift!Decayed /\ Floor <= Drift!Decayed
      /\ Drift!Decayed <= memory \/ Drift!Decayed = Floor \/ Drift!Decayed = snap
  BY <1>2, <1>3, <1>5, <1>7 DEF Drift!MaxOf, DriftNumbers
<1>10. Drift!Percent(original, MaxGrowth) = Cap /\ Drift!Percent(original, MinLimit) = Floor
  BY Zenon DEF Drift!Percent, Cap, Floor, Share
<1> QED BY <1>2, <1>3, <1>8, <1>9, <1>10

\* Both are within the bounds if what they start from is.
LEMMA DriftWithin ==
    ASSUME Drift!DriftAssumption, DriftInv, original > 0, ~edited
    PROVE  Within(Drift!Grown) /\ Within(Drift!Decayed)
<1>1. Within(limit) /\ Within(memory) /\ snap <= Cap /\ snap \in Nat
  BY DEF DriftInv, BoundsInv, DriftNumbers
<1>2. DriftNumbers
  BY DEF DriftInv
<1> HIDE DEF Drift!Grown, Drift!Decayed, Cap, Floor
<1>3. Within(Drift!Grown)
  BY <1>1, <1>2, DriftBounds DEF Within
<1>4. Within(Drift!Decayed)
  <2>1. /\ Cap \in Nat /\ Floor \in Nat /\ original <= Cap /\ Floor <= original /\ original \in Nat
        /\ Drift!Decayed \in Nat /\ Floor <= Drift!Decayed
        /\ Drift!Decayed <= memory \/ Drift!Decayed = Floor \/ Drift!Decayed = snap
    BY <1>2, DriftBounds DEF DriftNumbers
  <2>2. Drift!Decayed <= Cap
    BY <1>1, <2>1 DEF Within
  <2> QED BY <2>1, <2>2 DEF Within
<1> QED BY <1>3, <1>4

\* A commit of a limit.
LEMMA LimitEnded ==
    ASSUME DriftNumbers, DriftFlags, Follows, NEW w \in Drift!Writers, NEW new \in Nat \cup {-1},
           NEW outcome \in Drift!Outcomes, Drift!LimitEnds(w, new, outcome), memory' = memory
    PROVE  /\ limit' = limit \/ (limit' = new /\ new # -1)
           /\ outcome = "failed" => limit' = limit /\ unheard' = unheard
           /\ unheard' \in [Drift!Writers -> Nat \cup {-1}]
           /\ \A v \in Drift!Writers : unheard'[v] \in {unheard[v], new}
           /\ driftDoubt' \in BOOLEAN /\ Follows'
<1> DEFINE written == new # -1 /\ outcome # "failed"
           met == \E v \in Drift!Writers : unheard[v] # -1
<1>1. /\ limit' = IF written /\ frozen = "no" THEN new ELSE limit
      /\ unheard' = [unheard EXCEPT ![w] = IF written /\ outcome = "done" THEN new ELSE unheard[w]]
  BY DEF Drift!LimitEnds, Drift!NoLimit
<1>2. driftDoubt' = (driftDoubt \/ (written /\ (outcome = "lost" \/ frozen # "no" \/ met)))
  BY Zenon DEF Drift!LimitEnds, Drift!NoLimit
<1>3. driftDoubt' \in BOOLEAN /\ (~driftDoubt' => ~driftDoubt /\ (written => outcome # "lost" /\ frozen = "no" /\ ~met))
  BY <1>2, Zenon
<1>4. unheard \in [Drift!Writers -> Nat \cup {-1}]
  BY DEF DriftNumbers
<1>5. unheard' \in [Drift!Writers -> Nat \cup {-1}] /\ \A v \in Drift!Writers : unheard'[v] \in {unheard[v], new}
  BY <1>1, <1>4
<1>6. ASSUME ~written PROVE limit' = limit /\ unheard' = unheard
  BY <1>1, <1>4, <1>6
<1>7. ASSUME ~driftDoubt' PROVE Heard'
  <2>1. CASE ~written
    <3>1. Heard
      BY <1>3, <1>7 DEF Follows
    <3> QED BY <1>6, <2>1, <3>1 DEF Heard
  <2>2. CASE written
    <3>1. outcome = "done" /\ frozen = "no" /\ ~met
      BY <1>3, <1>7, <2>2 DEF Drift!Outcomes
    <3>2. limit' = new /\ unheard'[w] = new /\ \A v \in Drift!Writers \ {w} : unheard'[v] = -1
      BY <1>1, <1>4, <2>2, <3>1
    <3> QED BY <3>2 DEF Heard
  <2> QED BY <2>1, <2>2
<1>8. Follows'
  BY <1>7, Zenon DEF Follows
<1> QED BY <1>1, <1>3, <1>5, <1>6, <1>8

LEMMA DriftInitInv ==
    ASSUME Drift!DriftAssumption, Drift!DriftInit
    PROVE  DriftInv
<1>1. /\ original \in Originals /\ limit = original /\ memory = original /\ frozen = "no"
      /\ unheard = [w \in Drift!Writers |-> -1] /\ debt = 0 /\ extra = 0 /\ snap = 0 /\ target = -1
      /\ lastClearing = -1 /\ driftTick = 0 /\ driftPc = "idle"
  BY DEF Drift!DriftInit, Drift!NoLimit
<1>2. driftDoubt \in BOOLEAN /\ edited \in BOOLEAN
  BY Zenon DEF Drift!DriftInit
<1>3. DriftNumbers
  BY <1>1 DEF DriftNumbers, Drift!DriftAssumption
<1>4. DriftFlags
  BY <1>1, <1>2 DEF DriftFlags
<1>5. TickInv /\ Follows
  BY <1>1 DEF TickInv, Follows, Heard
<1>6. BoundsInv
  <2> HIDE DEF Cap, Floor
  <2> QED BY <1>1, <1>3, DriftBounds DEF BoundsInv, Within, DriftNumbers
<1> QED BY <1>3, <1>4, <1>5, <1>6 DEF DriftInv

\* Steps that write no limit.
LEMMA DriftQuiet ==
    ASSUME Drift!DriftAssumption, DriftInv, DriftNumbers', DriftFlags', TickInv',
           UNCHANGED <<original, limit, memory, unheard>>, driftDoubt' = driftDoubt, edited' = edited,
           snap' \in {snap, debt, 0}, debt' <= limit \/ debt' <= debt \/ debt' <= debt + extra,
           debt' + extra' <= limit \/ debt' + extra' <= debt \/ debt' + extra' <= debt + extra,
           target' # -1 => target' = target \/ target' = Drift!Decayed
    PROVE  DriftInv'
<1>1. Follows'
  <2>1. Heard' <=> Heard
    BY DEF Heard
  <2> QED BY <2>1, Zenon DEF Follows, DriftInv
<1>2. BoundsInv'
  <2> SUFFICES ASSUME original' > 0, ~edited' PROVE BoundsInv'
    BY Zenon DEF BoundsInv
  <2>1. original > 0 /\ ~edited
    BY Zenon
  <2>2. Cap' = Cap /\ Floor' = Floor
    BY DEF Cap, Floor
  <2>3. Within(Drift!Decayed)
    BY <2>1, DriftWithin
  <2>4. /\ Within(limit) /\ Within(memory) /\ snap <= Cap /\ debt <= Cap /\ debt + extra <= Cap
        /\ target # -1 => Within(target)
        /\ \A w \in Drift!Writers : unheard[w] # -1 => Within(unheard[w])
    BY <2>1, Zenon DEF BoundsInv, DriftInv
  <2>5. Cap \in Nat /\ debt \in Nat /\ debt + extra \in Nat /\ debt' \in Nat /\ debt' + extra' \in Nat
        /\ snap \in Nat
    BY DriftBounds DEF DriftInv, DriftNumbers
  <2> HIDE DEF Cap, Floor, Drift!Decayed
  <2>6. snap' <= Cap /\ debt' <= Cap /\ debt' + extra' <= Cap
    BY <2>4, <2>5 DEF Within
  <2>7. target' # -1 => Within(target')
    BY <2>3, <2>4
  <2> QED BY <2>2, <2>4, <2>6, <2>7 DEF BoundsInv, Within
<1> QED BY <1>1, <1>2 DEF DriftInv

\* Steps that write a limit: the new one comes from growth, decay or a viewer.
LEMMA DriftWrites ==
    ASSUME Drift!DriftAssumption, DriftInv, DriftNumbers', DriftFlags', TickInv', Follows',
           NEW new \in Nat \cup {-1}, original' = original, memory' = memory, snap' = snap, target' \in {target, -1},
           extra' = 0, debt' \in {debt, debt + extra}, ~edited' => ~edited,
           limit' = limit \/ (limit' = new /\ new # -1),
           \A v \in Drift!Writers : unheard'[v] \in {unheard[v], new},
           (original > 0 /\ ~edited' /\ new # -1) => Within(new) \/ (limit' = limit /\ unheard' = unheard)
    PROVE  DriftInv'
<1>1. BoundsInv'
  <2> SUFFICES ASSUME original' > 0, ~edited' PROVE BoundsInv'
    BY Zenon DEF BoundsInv
  <2>1. original > 0 /\ ~edited
    BY Zenon
  <2>2. Cap' = Cap /\ Floor' = Floor
    BY DEF Cap, Floor
  <2>3. /\ Within(limit) /\ Within(memory) /\ snap <= Cap /\ debt <= Cap /\ debt + extra <= Cap
        /\ target # -1 => Within(target)
        /\ \A w \in Drift!Writers : unheard[w] # -1 => Within(unheard[w])
    BY <2>1, Zenon DEF BoundsInv, DriftInv
  <2>4. new # -1 => Within(new) \/ (limit' = limit /\ unheard' = unheard)
    BY <2>1, Zenon
  <2> HIDE DEF Cap, Floor, Within
  <2>5. Within(limit') /\ \A w \in Drift!Writers : unheard'[w] # -1 => Within(unheard'[w])
    BY <2>3, <2>4
  <2>6. target' # -1 => Within(target')
    BY <2>3
  <2>7. debt' <= Cap /\ debt' + extra' <= Cap
    <3>1. debt \in Nat /\ debt + extra \in Nat
      BY DEF DriftInv, DriftNumbers
    <3> QED BY <2>3, <3>1
  <2> QED BY <2>2, <2>3, <2>5, <2>6, <2>7 DEF BoundsInv, Within
<1> QED BY <1>1 DEF DriftInv

\* Payments, of viewers and of the tick.
LEMMA PaysInv ==
    ASSUME Drift!DriftAssumption, DriftInv, NEW change \in {-1, 1}, Drift!Pay(change) \/ Drift!TickPays(change)
    PROVE  DriftInv' /\ Drift!UncoveredOnlyAfterTheRead
<1>1. DriftNumbers /\ DriftFlags /\ TickInv
  BY DEF DriftInv
<1>2. /\ UNCHANGED <<limit, memory, unheard, frozen, original, lastClearing, snap, target, driftTick, driftPc>>
      /\ debt + extra + change \in 0..Drift!MaxOf(limit, debt + extra)
      /\ \/ driftPc # "planned" /\ debt' = debt + change /\ extra' = extra
         \/ driftPc = "planned" /\ debt' = debt /\ extra' = extra + change
  BY DEF Drift!Pay, Drift!TickPays, Drift!Payable, Drift!Reached, Drift!lineVars, Drift!tickVars
<1>3. driftDoubt' = driftDoubt /\ edited' = edited
  BY Zenon DEF Drift!Pay, Drift!TickPays, Drift!lineVars
<1>4. /\ limit \in Nat /\ debt \in Nat /\ debt + extra \in Nat /\ extra \in Int
      /\ debt + extra + change \in Nat
      /\ debt + extra + change <= limit \/ debt + extra + change <= debt + extra
  BY <1>1, <1>2 DEF DriftNumbers, Drift!MaxOf
<1>5. DriftNumbers'
  <2>1. debt' \in Nat /\ extra' \in Int /\ debt' + extra' \in Nat
    BY <1>1, <1>2, <1>4 DEF TickInv
  <2> QED BY <1>1, <1>2, <2>1 DEF DriftNumbers
<1>6. DriftFlags'
  BY <1>1, <1>2, <1>3, Zenon DEF DriftFlags
<1>7. TickInv'
  BY <1>1, <1>2, <1>4 DEF TickInv
<1>8. /\ debt' <= limit \/ debt' <= debt \/ debt' <= debt + extra
      /\ debt' + extra' <= limit \/ debt' + extra' <= debt \/ debt' + extra' <= debt + extra
  BY <1>1, <1>2, <1>4 DEF TickInv
<1>9. DriftInv'
  BY <1>2, <1>3, <1>5, <1>6, <1>7, <1>8, DriftQuiet
<1>10. debt <= limit => debt' <= limit'
  BY <1>1, <1>2, <1>4 DEF TickInv
<1> QED BY <1>5, <1>9, <1>10 DEF Drift!UncoveredOnlyAfterTheRead, DriftNumbers

\* Steps that leave limit and debt alone, and those of the tick that write none.
LEMMA LoadInv ==
    ASSUME Drift!DriftAssumption, DriftInv,
           \/ \E ok \in BOOLEAN : Drift!Freeze(ok) \/ Drift!LoadDebts(ok) \/ Drift!CommitPayments(ok)
           \/ Drift!DecayReads
           \/ \E amount \in 1..debt : Drift!Clear(amount)
    PROVE  DriftInv' /\ Drift!UncoveredOnlyAfterTheRead
<1>1. DriftNumbers /\ DriftFlags /\ TickInv
  BY DEF DriftInv
<1>2. UNCHANGED <<original, limit, memory, unheard, lastClearing>>
  BY DEF Drift!Freeze, Drift!LoadDebts, Drift!CommitPayments, Drift!DecayReads, Drift!Clear, Drift!lineVars
<1>3. driftDoubt' = driftDoubt /\ edited' = edited
  BY Zenon DEF Drift!Freeze, Drift!LoadDebts, Drift!CommitPayments, Drift!DecayReads, Drift!Clear, Drift!lineVars
<1>4. frozen' \in {"no", "row", "both"}
  BY <1>1 DEF Drift!Freeze, Drift!LoadDebts, Drift!CommitPayments, Drift!DecayReads, Drift!Clear, DriftFlags
<1>5. /\ limit \in Nat /\ debt \in Nat /\ debt + extra \in Nat /\ extra \in Int /\ snap \in Nat
      /\ driftTick \in 0..MaxDriftTicks /\ MaxDriftTicks \in Nat /\ target \in Nat \cup {-1}
      /\ debt + 0 = debt /\ 0 \in Int
  BY <1>1 DEF DriftNumbers, Drift!DriftAssumption
<1>6. Drift!Decayed \in Nat /\ snap <= Drift!Decayed
  BY <1>1, DriftBounds
<1> HIDE DEF Drift!Decayed
<1>7. \/ UNCHANGED <<debt, extra, snap, target, driftTick, driftPc>>
      \/ /\ driftPc = "idle" /\ driftPc' = "planned" /\ driftTick < MaxDriftTicks /\ driftTick' = driftTick + 1
         /\ snap' \in {debt, 0} /\ UNCHANGED <<debt, extra, target>>
      \/ /\ driftPc = "planned" /\ driftPc' \in {"cleared", "idle"} /\ extra' = 0 /\ debt' \in {debt, debt + extra}
         /\ UNCHANGED <<snap, target, driftTick>>
      \/ /\ driftPc \in {"cleared", "grown"} /\ driftPc' = "decaying" /\ target' \in {-1, Drift!Decayed}
         /\ UNCHANGED <<debt, extra, snap, driftTick>>
      \/ /\ driftPc = "cleared" /\ driftPc' = "growing" /\ \E amount \in 1..debt : debt' = debt - amount
         /\ UNCHANGED <<extra, snap, target, driftTick>>
  <2>1. CASE \E ok \in BOOLEAN : Drift!Freeze(ok)
    BY <2>1 DEF Drift!Freeze, Drift!tickVars
  <2>2. CASE \E ok \in BOOLEAN : Drift!LoadDebts(ok)
    BY <2>2 DEF Drift!LoadDebts, Drift!Reached
  <2>3. CASE \E ok \in BOOLEAN : Drift!CommitPayments(ok)
    BY <2>3 DEF Drift!CommitPayments, Drift!Reached
  <2>4. CASE Drift!DecayReads
    BY <2>4 DEF Drift!DecayReads, Drift!Reached, Drift!DecayTarget, Drift!NoLimit
  <2>5. CASE \E amount \in 1..debt : Drift!Clear(amount)
    BY <2>5 DEF Drift!Clear, Drift!Reached
  <2> QED BY <2>1, <2>2, <2>3, <2>4, <2>5
<1>8. /\ debt' \in Nat /\ extra' \in Int /\ debt' + extra' \in Nat /\ snap' \in Nat /\ snap' \in {snap, debt, 0}
      /\ driftTick' \in 0..MaxDriftTicks /\ target' \in Nat \cup {-1}
      /\ debt' <= debt \/ debt' <= debt + extra
      /\ debt' + extra' <= debt \/ debt' + extra' <= debt + extra
  BY <1>1, <1>5, <1>6, <1>7 DEF TickInv
<1>9. DriftNumbers'
  BY <1>1, <1>2, <1>8 DEF DriftNumbers
<1>10. DriftFlags'
  <2>1. driftPc' \in {"idle", "planned", "cleared", "growing", "grown", "decaying"}
    BY <1>1, <1>7 DEF DriftFlags
  <2> QED BY <1>1, <1>3, <1>4, <2>1, Zenon DEF DriftFlags
<1>11. TickInv'
  BY <1>1, <1>2, <1>5, <1>6, <1>7 DEF TickInv
<1>12. target' # -1 => target' = target \/ target' = Drift!Decayed
  BY <1>7
<1>13. DriftInv'
  BY <1>2, <1>3, <1>8, <1>9, <1>10, <1>11, <1>12, DriftQuiet
<1>14. debt <= limit => debt' <= limit'
  BY <1>1, <1>2, <1>5, <1>7 DEF TickInv
<1> QED BY <1>2, <1>5, <1>8, <1>13, <1>14 DEF Drift!UncoveredOnlyAfterTheRead

\* A writer hears of its commit.
LEMMA HearInv ==
    ASSUME Drift!DriftAssumption, DriftInv, NEW w \in Drift!Writers, Drift!Hear(w)
    PROVE  DriftInv' /\ Drift!UncoveredOnlyAfterTheRead
<1>1. DriftNumbers /\ DriftFlags /\ TickInv /\ Follows
  BY DEF DriftInv
<1>2. /\ unheard[w] # -1 /\ memory' = unheard[w] /\ unheard' = [unheard EXCEPT ![w] = -1]
      /\ UNCHANGED <<limit, frozen, debt, extra, original, lastClearing, snap, target, driftTick, driftPc>>
  BY DEF Drift!Hear, Drift!NoLimit, Drift!tickVars
<1>3. driftDoubt' = driftDoubt /\ edited' = edited
  BY Zenon DEF Drift!Hear
<1>4. unheard \in [Drift!Writers -> Nat \cup {-1}]
  BY <1>1 DEF DriftNumbers
<1>5. /\ memory' \in Nat /\ unheard' \in [Drift!Writers -> Nat \cup {-1}] /\ unheard'[w] = -1
      /\ \A v \in Drift!Writers : unheard'[v] \in {unheard[v], -1}
  BY <1>2, <1>4
<1>6. DriftNumbers'
  BY <1>1, <1>2, <1>5 DEF DriftNumbers
<1>7. DriftFlags'
  BY <1>1, <1>2, <1>3, Zenon DEF DriftFlags
<1>8. TickInv'
  BY <1>1, <1>2 DEF TickInv
<1>9. Follows'
  <2>1. Heard => Heard'
    BY <1>2, <1>4, <1>5 DEF Heard
  <2> QED BY <1>1, <1>3, <2>1, Zenon DEF Follows
<1>10. BoundsInv'
  <2> SUFFICES ASSUME original' > 0, ~edited' PROVE BoundsInv'
    BY Zenon DEF BoundsInv
  <2>1. original > 0 /\ ~edited
    BY <1>2, <1>3, Zenon
  <2>2. Cap' = Cap /\ Floor' = Floor
    BY <1>2 DEF Cap, Floor
  <2>3. /\ Within(limit) /\ snap <= Cap /\ debt <= Cap /\ debt + extra <= Cap /\ (target # -1 => Within(target))
        /\ \A v \in Drift!Writers : unheard[v] # -1 => Within(unheard[v])
    BY <2>1, Zenon DEF BoundsInv, DriftInv
  <2> HIDE DEF Cap, Floor, Within
  <2>4. Within(memory') /\ \A v \in Drift!Writers : unheard'[v] # -1 => Within(unheard'[v])
    BY <1>2, <1>5, <2>3
  <2> QED BY <1>2, <2>2, <2>3, <2>4 DEF BoundsInv, Within
<1> QED BY <1>1, <1>2, <1>6, <1>7, <1>8, <1>9, <1>10 DEF DriftInv, Drift!UncoveredOnlyAfterTheRead, DriftNumbers

\* action_trustline_update.
LEMMA ViewerInv ==
    ASSUME Drift!DriftAssumption, DriftInv, NEW new \in ViewerLimits, NEW outcome \in Drift!Outcomes,
           Drift!ViewerUpdates(new, outcome)
    PROVE  DriftInv' /\ Drift!UncoveredOnlyAfterTheRead
<1>1. DriftNumbers /\ DriftFlags /\ TickInv /\ Follows
  BY DEF DriftInv
<1>2. /\ driftPc # "planned" /\ new >= debt /\ Drift!LimitEnds("viewer", new, outcome)
      /\ UNCHANGED <<memory, frozen, debt, extra, original, lastClearing, snap, target, driftTick, driftPc>>
  BY DEF Drift!ViewerUpdates, Drift!tickVars
<1>3. edited' \in BOOLEAN /\ (~edited' => ~edited /\ outcome = "failed")
  BY Zenon DEF Drift!ViewerUpdates
<1>4. new \in Nat /\ new \in Nat \cup {-1} /\ new # -1 /\ "viewer" \in Drift!Writers
  BY DEF Drift!DriftAssumption, Drift!Writers
<1>5. /\ limit' = limit \/ (limit' = new /\ new # -1)
      /\ outcome = "failed" => limit' = limit /\ unheard' = unheard
      /\ unheard' \in [Drift!Writers -> Nat \cup {-1}]
      /\ \A v \in Drift!Writers : unheard'[v] \in {unheard[v], new}
  BY <1>1, <1>2, <1>4, LimitEnded
<1>6. driftDoubt' \in BOOLEAN /\ Follows'
  BY <1>1, <1>2, <1>4, LimitEnded
<1>7. DriftNumbers' /\ TickInv' /\ extra' = 0 /\ extra = 0
  BY <1>1, <1>2, <1>4, <1>5 DEF DriftNumbers, TickInv
<1>8. DriftFlags'
  BY <1>1, <1>2, <1>3, <1>6, Zenon DEF DriftFlags
<1>9. (original > 0 /\ ~edited' /\ new # -1) => Within(new) \/ (limit' = limit /\ unheard' = unheard)
  BY <1>3, <1>5, Zenon
<1>10. ~edited' => ~edited
  BY <1>3, Zenon
<1>11. DriftInv'
  <2> HIDE DEF Within
  <2> QED BY <1>2, <1>4, <1>5, <1>6, <1>7, <1>8, <1>9, <1>10, DriftWrites
<1>12. debt <= limit => debt' <= limit'
  BY <1>2, <1>5
<1> QED BY <1>7, <1>11, <1>12 DEF Drift!UncoveredOnlyAfterTheRead, DriftNumbers

\* The tick commits a limit: growth after a clearing, decay at its end.
LEMMA TickWritesInv ==
    ASSUME Drift!DriftAssumption, DriftInv, NEW outcome \in Drift!Outcomes,
           Drift!Grow(outcome) \/ Drift!DecayWithPayments(outcome) \/ Drift!DecayEnds(outcome)
    PROVE  DriftInv' /\ Drift!UncoveredOnlyAfterTheRead
<1>1. DriftNumbers /\ DriftFlags /\ TickInv /\ Follows
  BY DEF DriftInv
<1>2. UNCHANGED <<memory, frozen, original, snap, driftTick>>
  BY DEF Drift!Grow, Drift!DecayWithPayments, Drift!DecayEnds
<1>3. edited' = edited
  BY Zenon DEF Drift!Grow, Drift!DecayWithPayments, Drift!DecayEnds
<1>4. /\ Drift!Grown \in Nat /\ Drift!Decayed \in Nat /\ snap <= Drift!Decayed
      /\ limit <= Drift!Grown \/ Drift!Grown = Cap
      /\ Drift!Percent(original, MaxGrowth) = Cap /\ Cap \in Nat
  BY <1>1, DriftBounds
<1>5. original > 0 /\ ~edited => Within(Drift!Grown) /\ Within(Drift!Decayed) /\ (target # -1 => Within(target))
  BY DriftWithin, Zenon DEF DriftInv, BoundsInv
<1> HIDE DEF Drift!Grown, Drift!Decayed, Within, Cap
<1>6. /\ limit \in Nat /\ debt \in Nat /\ debt + extra \in Nat /\ extra \in Int /\ snap \in Nat
      /\ driftTick \in 0..MaxDriftTicks /\ MaxDriftTicks \in Nat /\ target \in Nat \cup {-1} /\ original \in Nat
      /\ lastClearing \in -1..MaxDriftTicks
  BY <1>1 DEF DriftNumbers, Drift!DriftAssumption
<1>7. PICK new \in Nat \cup {-1} :
        /\ Drift!LimitEnds("tick", new, outcome)
        /\ new # -1 => \/ driftPc = "growing" /\ new = Drift!Grown /\ original > 0
                       \/ driftPc = "planned" /\ new = Drift!Decayed /\ original > 0
                       \/ driftPc = "decaying" /\ new = target
  <2>1. CASE Drift!Grow(outcome)
    BY <1>4, <2>1 DEF Drift!Grow, Drift!NoLimit, Drift!Reached
  <2>2. CASE Drift!DecayWithPayments(outcome)
    BY <1>4, <2>2 DEF Drift!DecayWithPayments, Drift!NoLimit, Drift!Reached, Drift!DecayTarget, Drift!Overloaded
  <2>3. CASE Drift!DecayEnds(outcome)
    BY <1>6, <2>3 DEF Drift!DecayEnds, Drift!Reached
  <2> QED BY <2>1, <2>2, <2>3
<1>8. /\ extra' = 0 /\ debt' \in {debt, debt + extra} /\ target' \in {target, -1} /\ lastClearing' \in {lastClearing, driftTick}
      /\ driftPc' # "planned" /\ driftPc' \in {"idle", "grown"} /\ (driftPc # "planned" => debt' = debt)
      /\ driftPc \in {"growing", "planned", "decaying"} /\ target' = -1
  <2>1. driftPc # "planned" => extra = 0
    BY <1>1 DEF TickInv
  <2>2. target = -1 \/ driftPc = "decaying"
    BY <1>1 DEF TickInv
  <2>3. CASE Drift!Grow(outcome)
    BY <2>1, <2>2, <2>3 DEF Drift!Grow, Drift!Reached
  <2>4. CASE Drift!DecayWithPayments(outcome)
    BY <2>1, <2>2, <2>4 DEF Drift!DecayWithPayments, Drift!Reached
  <2>5. CASE Drift!DecayEnds(outcome)
    BY <2>1, <2>2, <2>5 DEF Drift!DecayEnds, Drift!Reached, Drift!NoLimit
  <2> QED BY <2>3, <2>4, <2>5
<1>9. "tick" \in Drift!Writers
  BY DEF Drift!Writers
<1>10. /\ limit' = limit \/ (limit' = new /\ new # -1)
       /\ unheard' \in [Drift!Writers -> Nat \cup {-1}]
       /\ \A v \in Drift!Writers : unheard'[v] \in {unheard[v], new}
  BY <1>1, <1>2, <1>7, <1>9, LimitEnded
<1>11. driftDoubt' \in BOOLEAN /\ Follows'
  BY <1>1, <1>2, <1>7, <1>9, LimitEnded
<1>12. DriftNumbers'
  <2>1. limit' \in Nat
    BY <1>6, <1>7, <1>10
  <2>2. debt' \in Nat /\ extra' \in Int /\ debt' + extra' \in Nat
    <3>1. debt' \in Nat /\ extra' = 0
      BY <1>6, <1>8, Zenon
    <3>2. \A n \in Nat : n + 0 \in Nat /\ 0 \in Int
      OBVIOUS
    <3> QED BY <3>1, <3>2, Zenon
  <2>3. target' \in Nat \cup {-1} /\ lastClearing' \in -1..MaxDriftTicks
    BY <1>6, <1>8
  <2> QED BY <1>1, <1>2, <1>10, <2>1, <2>2, <2>3 DEF DriftNumbers
<1>13. DriftFlags'
  <2>1. driftPc' \in {"idle", "planned", "cleared", "growing", "grown", "decaying"}
    BY <1>8
  <2> QED BY <1>1, <1>2, <1>3, <1>11, <2>1, Zenon DEF DriftFlags
<1>14. TickInv'
  BY <1>8 DEF TickInv
<1>15. (original > 0 /\ ~edited' /\ new # -1) => Within(new)
  BY <1>3, <1>5, <1>7, Zenon
<1>16. ~edited' => ~edited
  BY <1>3, Zenon
<1>17. DriftInv'
  BY <1>2, <1>8, <1>10, <1>11, <1>12, <1>13, <1>14, <1>15, <1>16, DriftWrites
<1>18. ASSUME debt <= limit, debt' > limit'
       PROVE  \/ driftPc \in {"planned", "decaying"} /\ snap < debt'
              \/ driftPc = "growing" /\ limit > Cap
  <2>1. debt' <= limit /\ debt' \in Nat
    BY <1>1, <1>6, <1>8, <1>18 DEF TickInv
  <2>2. limit' = new /\ new # -1
    BY <1>6, <1>10, <1>18, <2>1
  <2>3. CASE driftPc = "growing"
    BY <1>4, <1>6, <1>7, <1>8, <1>18, <2>1, <2>2, <2>3
  <2>4. CASE driftPc \in {"planned", "decaying"}
    BY <1>1, <1>4, <1>6, <1>7, <1>18, <2>1, <2>2, <2>4 DEF TickInv
  <2> QED BY <1>8, <2>3, <2>4
<1> QED BY <1>4, <1>17, <1>18, Zenon DEF Drift!UncoveredOnlyAfterTheRead

LEMMA DriftNextInv ==
    ASSUME Drift!DriftAssumption, DriftInv, [Drift!DriftNext]_driftVars
    PROVE  DriftInv' /\ Drift!UncoveredOnlyAfterTheRead
<1>1. CASE UNCHANGED driftVars
  <2>1. DriftInv'
    <3>1. DriftNumbers' /\ TickInv'
      BY <1>1, Zenon DEF driftVars, DriftInv, DriftNumbers, TickInv
    <3>2. DriftFlags' /\ Follows'
      BY <1>1, Zenon DEF driftVars, DriftInv, DriftFlags, Follows, Heard
    <3>3. Cap' = Cap /\ Floor' = Floor
      BY <1>1, Zenon DEF driftVars, Cap, Floor, Share
    <3>4. BoundsInv'
      <4> HIDE DEF Cap, Floor
      <4> QED BY <1>1, <3>3, Zenon DEF driftVars, DriftInv, BoundsInv, Within
    <3> QED BY <3>1, <3>2, <3>4, Zenon DEF DriftInv
  <2>2. debt' = debt /\ limit' = limit /\ debt \in Nat /\ limit \in Nat
    BY <1>1 DEF driftVars, DriftInv, DriftNumbers
  <2> QED BY <2>1, <2>2 DEF Drift!UncoveredOnlyAfterTheRead
<1>2. CASE Drift!DriftNext
  BY <1>2, PaysInv, HearInv, ViewerInv, LoadInv, TickWritesInv, Zenon DEF Drift!DriftNext
<1> QED BY <1>1, <1>2

\* What the invariant says of a line.
LEMMA DriftShows ==
    ASSUME Drift!DriftAssumption, DriftInv
    PROVE  Drift!DriftTypeOK /\ Drift!MemoryFollowsLimit /\ Drift!DriftStaysInBounds
<1>1. Drift!DriftTypeOK
  <2>1. {limit, memory, debt, snap, debt + extra} \subseteq Nat
    BY DEF DriftInv, DriftNumbers
  <2> QED BY <2>1, Zenon DEF DriftInv, DriftNumbers, DriftFlags, Drift!DriftTypeOK, Drift!NoLimit
<1>2. Drift!MemoryFollowsLimit
  <2>1. "tick" \in Drift!Writers
    BY DEF Drift!Writers
  <2> QED BY <2>1, Zenon DEF DriftInv, Follows, Heard, Drift!MemoryFollowsLimit, Drift!NoLimit
<1>3. Drift!DriftStaysInBounds
  <2> SUFFICES ASSUME original > 0, ~edited
               PROVE  limit \in Drift!Percent(original, MinLimit)..Drift!MaxOf(original, Drift!Percent(original, MaxGrowth))
    BY Zenon DEF Drift!DriftStaysInBounds
  <2>1. /\ Drift!Percent(original, MinLimit) = Floor /\ Drift!Percent(original, MaxGrowth) = Cap
        /\ Cap \in Nat /\ Floor \in Nat /\ original <= Cap /\ original \in Nat
    BY DriftBounds DEF DriftInv, DriftNumbers
  <2>2. Within(limit)
    BY Zenon DEF DriftInv, BoundsInv
  <2>3. limit \in Floor..Drift!MaxOf(original, Cap)
    <3> HIDE DEF Cap, Floor
    <3> QED BY <2>1, <2>2 DEF Within, Drift!MaxOf
  <2> QED BY <2>1, <2>3, Zenon
<1> QED BY <1>1, <1>2, <1>3

DriftHolds == part = "drift" => DriftInv

\* trust_drift_engine.py: a limit that no viewer changes stays within the share and the
\* multiple of its original value; the scenario shows the limit of the row, or will when
\* its writer hears of the commit, unless a commit was never answered or met another;
\* and a step takes a limit below its debt only if the debt has risen since the tick
\* read it, or if growth cuts a limit above the multiple.  For any limits of viewers,
\* rates and thresholds, and over any order of payments, edits, freezes and ticks.
THEOREM DriftStaysBounded == Spec => DriftIsBounded
<1>1. Drift!DriftAssumption
  BY SimulatorAssumption DEF SimulatorAssumption
<1>2. Init => DriftHolds
  <2> SUFFICES ASSUME Init, part = "drift" PROVE DriftInv
    BY DEF DriftHolds
  <2>1. Drift!DriftInit
    BY DEF Init
  <2> QED BY <1>1, <2>1, DriftInitInv
<1>3. DriftHolds /\ [Next]_vars => DriftHolds' /\ [part = "drift" => Drift!UncoveredOnlyAfterTheRead]_vars
  <2> SUFFICES ASSUME DriftHolds, [Next]_vars
               PROVE  DriftHolds' /\ (part = "drift" => Drift!UncoveredOnlyAfterTheRead)
    OBVIOUS
  <2>1. part' = part /\ (part = "drift" => [Drift!DriftNext]_driftVars)
    BY DEF Next, vars, DriverStep, ViewerStep, driverVars, TicksStep, RunsStep, AdaptiveStep, DriftStep
  <2> QED BY <1>1, <2>1, DriftNextInv DEF DriftHolds
<1>4. DriftHolds => (part = "drift" => Drift!DriftTypeOK /\ Drift!MemoryFollowsLimit /\ Drift!DriftStaysInBounds)
  BY <1>1, DriftShows DEF DriftHolds
<1> QED BY <1>2, <1>3, <1>4, PTL DEF Spec, DriftIsBounded
----------------------------------------------------------------------------
(* The bus and its sockets. *)

Scheduled == [sub : 1..MaxRenewals, pub : 1..MaxPubs]

BusTypes ==
    /\ pubs \in Seq(Kinds) /\ Len(pubs) <= MaxPubs
    /\ subs \subseteq Bus!SubIds
    /\ events \in [Bus!SubIds -> SUBSET Kinds]
    /\ matched \in [Bus!SubIds -> SUBSET (1..MaxPubs)]
    /\ dropped \in [Bus!SubIds -> SUBSET (1..MaxPubs)]
    /\ callbacks \in [Sockets -> Seq(Scheduled)]
    /\ busQueue \in [Sockets -> Seq(1..MaxPubs)]
    /\ sent \in [Sockets -> Seq(1..MaxPubs)]
    /\ gen \in [Sockets -> 0..MaxRenewals]
    /\ handler \in [Sockets -> Bus!HandlerStates]
    /\ hand \in [Sockets -> 0..MaxPubs]
    /\ busWriter \in [Sockets -> {"none", "running", "failed"}]

\* The messages m of a subscription number g are on their way, sent or dropped.
OnTheWay(m, st, h, q, cb, g, d) ==
    \A n \in m :
        \/ n = h \/ n \in d
        \/ \E i \in DOMAIN st : st[i] = n
        \/ \E i \in DOMAIN q : q[i] = n
        \/ \E i \in DOMAIN cb : cb[i] = [sub |-> g, pub |-> n]

\* What is queued, scheduled, or held for a client that was told what it is
\* subscribed to, is of a kind that its subscription asked for.
AsAsked(s) ==
    /\ \A i \in DOMAIN busQueue[s] :
         gen[s] >= 1 /\ pubs[busQueue[s][i]] \in events[<<s, gen[s]>>]
    /\ \A i \in DOMAIN callbacks[s] :
         /\ callbacks[s][i].sub <= gen[s]
         /\ pubs[callbacks[s][i].pub] \in events[<<s, callbacks[s][i].sub>>]
    /\ handler[s] = "listening" /\ hand[s] # 0 =>
         gen[s] >= 1 /\ pubs[hand[s]] \in events[<<s, gen[s]>>]

NotLost(s) ==
    /\ handler[s] = "listening" /\ busWriter[s] # "failed" /\ <<s, gen[s]>> \in subs =>
         OnTheWay(matched[<<s, gen[s]>>], sent[s], hand[s], busQueue[s], callbacks[s], gen[s],
                  dropped[<<s, gen[s]>>])
    /\ handler[s] = "switching" /\ <<s, gen[s]>> \in subs =>
         OnTheWay(matched[<<s, gen[s]>>], sent[s], 0, busQueue[s], callbacks[s], gen[s],
                  dropped[<<s, gen[s]>>])

\* The inductive invariant of the bus.
BusInv ==
    /\ BusTypes
    /\ \A s \in Sockets : Len(busQueue[s]) <= BusMax
    /\ \A s \in Sockets : InLine(sent[s], hand[s], busQueue[s], callbacks[s], Len(pubs))
    /\ \A s \in Sockets : AsAsked(s)
    /\ \A s \in Sockets : NotLost(s)
    /\ \A i \in Bus!SubIds : i[2] > gen[i[1]] => matched[i] = {}
    /\ \A i \in subs : i = <<i[1], gen[i[1]]>> /\ handler[i[1]] # "closed"

BusAssumed == BusMax \in Nat \ {0} /\ MaxPubs \in Nat \ {0} /\ MaxRenewals \in Nat \ {0}

LEMMA BusInitInv ==
    ASSUME BusAssumed, Bus!BusInit
    PROVE  BusInv
<1>1. \A T : <<>> \in Seq(T)
  OBVIOUS
<1>2. ASSUME NEW s \in Sockets
      PROVE  /\ callbacks[s] = <<>> /\ busQueue[s] = <<>> /\ sent[s] = <<>> /\ gen[s] = 0
             /\ handler[s] = "listening" /\ hand[s] = 0 /\ busWriter[s] = "none"
  BY Zenon DEF Bus!BusInit
<1>3. /\ callbacks \in [Sockets -> Seq(Scheduled)] /\ busQueue \in [Sockets -> Seq(1..MaxPubs)]
      /\ sent \in [Sockets -> Seq(1..MaxPubs)] /\ pubs \in Seq(Kinds)
  BY <1>1, Zenon DEF Bus!BusInit
<1>4. /\ Len(pubs) = 0 /\ DOMAIN pubs = {} /\ subs = {}
      /\ \A s \in Sockets : /\ DOMAIN callbacks[s] = {} /\ DOMAIN busQueue[s] = {} /\ DOMAIN sent[s] = {}
                            /\ Len(busQueue[s]) = 0
  <2>1. Len(<<>>) = 0 /\ DOMAIN <<>> = {}
    OBVIOUS
  <2> QED BY <1>2, <2>1, Zenon DEF Bus!BusInit
<1>5. BusTypes
  <2>1. /\ gen \in [Sockets -> 0..MaxRenewals] /\ hand \in [Sockets -> 0..MaxPubs]
        /\ Len(pubs) <= MaxPubs
    BY <1>4 DEF Bus!BusInit, BusAssumed
  <2>2. /\ handler \in [Sockets -> Bus!HandlerStates]
        /\ busWriter \in [Sockets -> {"none", "running", "failed"}]
        /\ events \in [Bus!SubIds -> SUBSET Kinds]
        /\ matched \in [Bus!SubIds -> SUBSET (1..MaxPubs)]
        /\ dropped \in [Bus!SubIds -> SUBSET (1..MaxPubs)]
        /\ subs \subseteq Bus!SubIds
    BY Zenon DEF Bus!BusInit, Bus!HandlerStates
  <2> QED BY <1>3, <2>1, <2>2, Zenon DEF BusTypes
<1>6. \A s \in Sockets : InLine(sent[s], hand[s], busQueue[s], callbacks[s], Len(pubs))
  <2> SUFFICES ASSUME NEW s \in Sockets PROVE InLine(sent[s], hand[s], busQueue[s], callbacks[s], Len(pubs))
    OBVIOUS
  <2>1. /\ DOMAIN callbacks[s] = {} /\ DOMAIN busQueue[s] = {} /\ DOMAIN sent[s] = {}
        /\ hand[s] = 0 /\ Len(pubs) = 0
    BY <1>2, <1>4
  <2> QED BY <2>1 DEF InLine
<1>7. \A s \in Sockets : AsAsked(s)
  BY <1>2, <1>4, Zenon DEF AsAsked
<1>8. \A s \in Sockets : Len(busQueue[s]) <= BusMax
  <2>1. 0 <= BusMax
    BY DEF BusAssumed
  <2> QED BY <1>4, <2>1, Zenon
<1>9. \A i \in Bus!SubIds : matched[i] = {}
  BY Zenon DEF Bus!BusInit
<1> QED BY <1>4, <1>5, <1>6, <1>7, <1>8, <1>9, Zenon DEF BusInv, NotLost

LEMMA LinesHaveTypes ==
    ASSUME BusAssumed, BusTypes, NEW s \in Sockets
    PROVE  LineTypes(sent[s], hand[s], busQueue[s], callbacks[s], Len(pubs))
<1>1. /\ sent[s] \in Seq(1..MaxPubs) /\ busQueue[s] \in Seq(1..MaxPubs) /\ callbacks[s] \in Seq(Scheduled)
      /\ hand[s] \in 0..MaxPubs /\ Len(pubs) \in Nat
  BY DEF BusTypes
<1>2. 1..MaxPubs \subseteq Nat /\ 0..MaxPubs \subseteq Nat /\ Scheduled \subseteq Posted
  BY DEF BusAssumed, Scheduled, Posted
<1>3. sent[s] \in Seq(Nat) /\ busQueue[s] \in Seq(Nat) /\ callbacks[s] \in Seq(Posted)
  BY <1>1, <1>2, Wider, Zenon
<1> QED BY <1>1, <1>2, <1>3 DEF LineTypes

\* A step of one socket leaves the line of every other as it is.
SameElsewhere(s) ==
    \A r \in Sockets \ {s} :
        /\ sent'[r] = sent[r] /\ hand'[r] = hand[r] /\ busQueue'[r] = busQueue[r]
        /\ callbacks'[r] = callbacks[r] /\ gen'[r] = gen[r] /\ handler'[r] = handler[r]
        /\ busWriter'[r] = busWriter[r]
        /\ \A g \in 1..MaxRenewals :
             /\ events'[<<r, g>>] = events[<<r, g>>] /\ matched'[<<r, g>>] = matched[<<r, g>>]
             /\ dropped'[<<r, g>>] = dropped[<<r, g>>]
             /\ <<r, g>> \in subs' <=> <<r, g>> \in subs

LEMMA OneSocketStep ==
    ASSUME BusAssumed, BusInv, NEW s \in Sockets, BusTypes', SameElsewhere(s), pubs' = pubs,
           Len(busQueue'[s]) <= BusMax,
           InLine(sent'[s], hand'[s], busQueue'[s], callbacks'[s], Len(pubs)),
           AsAsked(s)', NotLost(s)',
           \A g \in 1..MaxRenewals : g > gen'[s] => matched'[<<s, g>>] = {},
           \A g \in 1..MaxRenewals : <<s, g>> \in subs' => g = gen'[s] /\ handler'[s] # "closed"
    PROVE  BusInv'
<1>1. \A r \in Sockets : Len(busQueue'[r]) <= BusMax
  BY DEF BusInv, SameElsewhere
<1>2. \A r \in Sockets : InLine(sent'[r], hand'[r], busQueue'[r], callbacks'[r], Len(pubs'))
  <2> SUFFICES ASSUME NEW r \in Sockets \ {s}
               PROVE  InLine(sent'[r], hand'[r], busQueue'[r], callbacks'[r], Len(pubs'))
    OBVIOUS
  <2>1. InLine(sent[r], hand[r], busQueue[r], callbacks[r], Len(pubs))
    BY DEF BusInv
  <2> QED BY <2>1, Zenon DEF SameElsewhere
<1>3. ASSUME NEW r \in Sockets \ {s} PROVE AsAsked(r)' /\ NotLost(r)'
  <2>1. AsAsked(r) /\ NotLost(r)
    BY DEF BusInv
  <2>2. /\ gen[r] \in 0..MaxRenewals
        /\ \A i \in DOMAIN callbacks[r] : callbacks[r][i].sub \in 1..MaxRenewals
    <3>1. \A T : \A q \in Seq(T) : \A i \in DOMAIN q : q[i] \in T
      OBVIOUS
    <3>2. callbacks[r] \in Seq(Scheduled) /\ gen[r] \in 0..MaxRenewals
      BY DEF BusInv, BusTypes
    <3>3. \A i \in DOMAIN callbacks[r] : callbacks[r][i] \in Scheduled
      BY <3>1, <3>2, Zenon
    <3> QED BY <3>2, <3>3 DEF Scheduled
  <2>3. AsAsked(r)'
    <3>0. /\ handler'[r] = handler[r] /\ hand'[r] = hand[r] /\ busQueue'[r] = busQueue[r]
          /\ callbacks'[r] = callbacks[r] /\ gen'[r] = gen[r] /\ pubs' = pubs
          /\ \A g \in 1..MaxRenewals : events'[<<r, g>>] = events[<<r, g>>]
      BY Zenon DEF SameElsewhere
    <3>1. gen[r] >= 1 => gen[r] \in 1..MaxRenewals
      BY <2>2
    <3>2. /\ \A i \in DOMAIN busQueue[r] :
               gen[r] >= 1 /\ pubs[busQueue[r][i]] \in events'[<<r, gen[r]>>]
          /\ handler[r] = "listening" /\ hand[r] # 0 =>
               gen[r] >= 1 /\ pubs[hand[r]] \in events'[<<r, gen[r]>>]
      <4> HIDE <2>2
      <4> QED BY <2>1, <3>0, <3>1, Zenon DEF AsAsked
    <3>3. \A i \in DOMAIN callbacks[r] :
            /\ callbacks[r][i].sub <= gen[r]
            /\ pubs[callbacks[r][i].pub] \in events'[<<r, callbacks[r][i].sub>>]
      <4> SUFFICES ASSUME NEW i \in DOMAIN callbacks[r]
                   PROVE  /\ callbacks[r][i].sub <= gen[r]
                          /\ pubs[callbacks[r][i].pub] \in events'[<<r, callbacks[r][i].sub>>]
        OBVIOUS
      <4>1. callbacks[r][i].sub \in 1..MaxRenewals
        BY <2>2
      <4>2. events'[<<r, callbacks[r][i].sub>>] = events[<<r, callbacks[r][i].sub>>]
        BY <3>0, <4>1, Zenon
      <4> QED BY <2>1, <4>2, Zenon DEF AsAsked
    <3> QED BY <3>0, <3>2, <3>3, Zenon DEF AsAsked
  <2>4. ~(<<r, gen[r]>> \in subs') \/ gen[r] \in 1..MaxRenewals
    BY <2>2 DEF BusTypes, Bus!SubIds
  <2>5. NotLost(r)'
    <3>1. CASE <<r, gen[r]>> \in subs'
      <4> DEFINE g == gen[r]
      <4>1. g \in 1..MaxRenewals
        BY <2>4, <3>1
      <4> HIDE DEF g
      <4>2. /\ sent'[r] = sent[r] /\ hand'[r] = hand[r] /\ busQueue'[r] = busQueue[r]
            /\ callbacks'[r] = callbacks[r] /\ gen'[r] = g /\ gen[r] = g
            /\ handler'[r] = handler[r] /\ busWriter'[r] = busWriter[r]
            /\ matched'[<<r, g>>] = matched[<<r, g>>] /\ dropped'[<<r, g>>] = dropped[<<r, g>>]
            /\ <<r, g>> \in subs
        BY <3>1, <4>1, Zenon DEF SameElsewhere, g
      <4> QED BY <2>1, <4>2, Zenon DEF NotLost
    <3>2. CASE <<r, gen[r]>> \notin subs'
      BY <3>2, Zenon DEF NotLost, SameElsewhere
    <3> QED BY <3>1, <3>2
  <2> QED BY <2>3, <2>5
<1>4. \A i \in Bus!SubIds : i[2] > gen'[i[1]] => matched'[i] = {}
  <2> SUFFICES ASSUME NEW r \in Sockets, NEW g \in 1..MaxRenewals, g > gen'[r] PROVE matched'[<<r, g>>] = {}
    BY DEF Bus!SubIds
  <2>1. <<r, g>> \in Bus!SubIds /\ <<r, g>>[1] = r /\ <<r, g>>[2] = g
    BY DEF Bus!SubIds
  <2>2. g > gen[r] => matched[<<r, g>>] = {}
    BY <2>1 DEF BusInv
  <2> QED BY <2>2 DEF SameElsewhere
<1>5. ASSUME NEW i \in subs' PROVE i = <<i[1], gen'[i[1]]>> /\ handler'[i[1]] # "closed"
  <2>1. PICK r \in Sockets, g \in 1..MaxRenewals : i = <<r, g>>
    BY DEF BusTypes, Bus!SubIds
  <2>2. i[1] = r /\ i[2] = g
    BY <2>1
  <2>3. CASE r # s
    <3>1. <<r, g>> \in subs
      BY <2>1, <2>3 DEF SameElsewhere
    <3>2. <<r, g>> = <<r, gen[r]>> /\ handler[r] # "closed"
      BY <3>1, <2>1, <2>2 DEF BusInv
    <3> QED BY <2>1, <2>2, <2>3, <3>2 DEF SameElsewhere
  <2>4. CASE r = s
    BY <2>1, <2>2, <2>4
  <2> QED BY <2>3, <2>4
<1> QED BY <1>1, <1>2, <1>3, <1>4, <1>5 DEF BusInv

\* What is on the way stays so through each step of the line.
WayTypes(m, st, h, q, cb) ==
    /\ m \subseteq 1..MaxPubs /\ st \in Seq(1..MaxPubs) /\ h \in 0..MaxPubs /\ q \in Seq(1..MaxPubs)
    /\ cb \in Seq(Scheduled)

LEMMA WayTaken ==
    ASSUME NEW m, NEW st, NEW q, NEW cb, NEW g, NEW d, WayTypes(m, st, 0, q, cb), q # <<>>,
           OnTheWay(m, st, 0, q, cb, g, d)
    PROVE  OnTheWay(m, st, Head(q), Tail(q), cb, g, d)
<1>1. \A n \in m : n # 0
  BY DEF WayTypes
<1>2. /\ Head(q) = q[1]
      /\ \A i \in DOMAIN q : i = 1 \/ (i - 1 \in DOMAIN Tail(q) /\ q[i] = Tail(q)[i - 1])
  BY TakeFirst DEF WayTypes
<1> DEFINE x == Head(q)  rest == Tail(q)
<1> HIDE DEF x, rest
<1> QED BY <1>1, <1>2 DEF OnTheWay, x, rest

LEMMA WaySent ==
    ASSUME NEW m, NEW st, NEW h, NEW q, NEW cb, NEW g, NEW d, WayTypes(m, st, h, q, cb), h # 0,
           OnTheWay(m, st, h, q, cb, g, d)
    PROVE  OnTheWay(m, Append(st, h), 0, q, cb, g, d)
<1>1. st \in Seq(1..MaxPubs) /\ h \in 1..MaxPubs
  BY DEF WayTypes
<1>2. /\ \A i \in DOMAIN st : i \in DOMAIN Append(st, h) /\ Append(st, h)[i] = st[i]
      /\ Len(st) + 1 \in DOMAIN Append(st, h) /\ Append(st, h)[Len(st) + 1] = h
  BY <1>1, PutLast
<1> DEFINE new == Append(st, h)  last1 == Len(st) + 1
<1> HIDE DEF new, last1
<1> QED BY <1>2, Zenon DEF OnTheWay, new

LEMMA WayScheduled ==
    ASSUME NEW m, NEW st, NEW h, NEW q, NEW cb, NEW g, NEW d, WayTypes(m, st, h, q, cb),
           NEW n, [sub |-> g, pub |-> n] \in Scheduled,
           OnTheWay(m, st, h, q, cb, g, d)
    PROVE  OnTheWay(m \cup {n}, st, h, q, Append(cb, [sub |-> g, pub |-> n]), g, d)
<1> DEFINE x == [sub |-> g, pub |-> n]  new == Append(cb, x)
<1>2. /\ \A i \in DOMAIN cb : i \in DOMAIN new /\ new[i] = cb[i]
      /\ Len(cb) + 1 \in DOMAIN new /\ new[Len(cb) + 1] = x
  BY PutLast DEF WayTypes
<1> HIDE DEF new
<1> QED BY <1>2, Zenon DEF OnTheWay, new

LEMMA WayDelivered ==
    ASSUME NEW m, NEW st, NEW h, NEW q, NEW cb, NEW g, NEW d, WayTypes(m, st, h, q, cb), cb # <<>>,
           OnTheWay(m, st, h, q, cb, g, d)
    PROVE  /\ Head(cb).sub # g => OnTheWay(m, st, h, q, Tail(cb), g, d)
           /\ OnTheWay(m, st, h, Append(q, Head(cb).pub), Tail(cb), g, d)
           /\ OnTheWay(m, st, h, q, Tail(cb), g, d \cup {Head(cb).pub})
<1> DEFINE x == Head(cb)  rest == Tail(cb)  new == Append(q, x.pub)
<1>1. /\ x \in Scheduled /\ x = cb[1]
      /\ \A i \in DOMAIN cb : i = 1 \/ (i - 1 \in DOMAIN rest /\ cb[i] = rest[i - 1])
  BY TakeFirst DEF WayTypes
<1>2. x.pub \in 1..MaxPubs
  BY <1>1 DEF Scheduled
<1>3. /\ \A i \in DOMAIN q : i \in DOMAIN new /\ new[i] = q[i]
      /\ Len(q) + 1 \in DOMAIN new /\ new[Len(q) + 1] = x.pub
  BY <1>2, PutLast DEF WayTypes
<1>4. ASSUME NEW n \in m, NEW i \in DOMAIN cb, cb[i] = [sub |-> g, pub |-> n]
      PROVE  (x.sub = g /\ x.pub = n) \/ \E j \in DOMAIN rest : rest[j] = [sub |-> g, pub |-> n]
  <2>1. CASE i = 1
    <3>1. x = [sub |-> g, pub |-> n]
      BY <1>1, <1>4, <2>1
    <3> QED BY <3>1
  <2>2. CASE i - 1 \in DOMAIN rest /\ cb[i] = rest[i - 1]
    BY <1>4, <2>2, Zenon
  <2> QED BY <1>1, <2>1, <2>2
<1> HIDE DEF new, rest, x
<1>5. x.sub # g => OnTheWay(m, st, h, q, rest, g, d)
  BY <1>4, Zenon DEF OnTheWay
<1>6. OnTheWay(m, st, h, new, rest, g, d)
  BY <1>3, <1>4, Zenon DEF OnTheWay
<1>7. OnTheWay(m, st, h, q, rest, g, d \cup {x.pub})
  BY <1>4, Zenon DEF OnTheWay
<1> QED BY <1>5, <1>6, <1>7 DEF new, rest, x

\* What the invariant says of one socket.
SocketFacts(s) ==
    /\ LineTypes(sent[s], hand[s], busQueue[s], callbacks[s], Len(pubs))
    /\ InLine(sent[s], hand[s], busQueue[s], callbacks[s], Len(pubs))
    /\ Len(busQueue[s]) <= BusMax /\ AsAsked(s) /\ NotLost(s)
    /\ \A g \in 1..MaxRenewals : g > gen[s] => matched[<<s, g>>] = {}
    /\ \A g \in 1..MaxRenewals : <<s, g>> \in subs => g = gen[s] /\ handler[s] # "closed"

LEMMA FactsOfSocket ==
    ASSUME BusAssumed, BusInv, NEW s \in Sockets
    PROVE  SocketFacts(s)
<1>1. BusTypes
  BY DEF BusInv
<1>2. LineTypes(sent[s], hand[s], busQueue[s], callbacks[s], Len(pubs))
  BY <1>1, LinesHaveTypes
<1>3. ASSUME NEW g \in 1..MaxRenewals
      PROVE  /\ g > gen[s] => matched[<<s, g>>] = {}
             /\ <<s, g>> \in subs => g = gen[s] /\ handler[s] # "closed"
  <2>1. <<s, g>> \in Bus!SubIds /\ <<s, g>>[1] = s /\ <<s, g>>[2] = g
    BY DEF Bus!SubIds
  <2>2. \A i \in Bus!SubIds : i[2] > gen[i[1]] => matched[i] = {}
    BY DEF BusInv
  <2>3. \A i \in subs : i = <<i[1], gen[i[1]]>> /\ handler[i[1]] # "closed"
    BY DEF BusInv
  <2>4. g > gen[s] => matched[<<s, g>>] = {}
    BY <2>1, <2>2
  <2>5. <<s, g>> \in subs => <<s, g>> = <<s, gen[s]>> /\ handler[s] # "closed"
    BY <2>1, <2>3
  <2> QED BY <2>4, <2>5
<1> QED BY <1>2, <1>3 DEF BusInv, SocketFacts

LEMMA WriterTakesInv ==
    ASSUME BusAssumed, BusInv, NEW s \in Sockets, Bus!WriterTakes(s)
    PROVE  BusInv'
<1>1. BusTypes /\ SocketFacts(s)
  BY FactsOfSocket DEF BusInv
<1> DEFINE q == busQueue[s]
<1>2. /\ q \in Seq(1..MaxPubs) /\ q # <<>> /\ handler[s] = "listening" /\ busWriter[s] = "running"
      /\ hand[s] = 0
  BY <1>1 DEF BusTypes, Bus!WriterTakes
<1>3. /\ Head(q) \in 1..MaxPubs /\ Head(q) = q[1] /\ 1 \in DOMAIN q /\ Len(q) >= 1
      /\ Tail(q) \in Seq(1..MaxPubs) /\ Len(Tail(q)) = Len(q) - 1
      /\ \A i \in DOMAIN Tail(q) : i + 1 \in DOMAIN q /\ Tail(q)[i] = q[i + 1]
      /\ \A i \in DOMAIN q : i = 1 \/ (i - 1 \in DOMAIN Tail(q) /\ q[i] = Tail(q)[i - 1])
  BY <1>2, TakeFirst
<1>4. /\ hand' = [hand EXCEPT ![s] = Head(q)] /\ busQueue' = [busQueue EXCEPT ![s] = Tail(q)]
      /\ UNCHANGED <<pubs, subs, events, callbacks, matched, dropped, gen, handler, busWriter, sent>>
  BY DEF Bus!WriterTakes, Bus!busVars
<1>5. hand'[s] = Head(q) /\ busQueue'[s] = Tail(q)
  BY <1>1, <1>4 DEF BusTypes
<1>6. BusTypes'
  <2>1. hand' \in [Sockets -> 0..MaxPubs]
    BY <1>1, <1>3, <1>4 DEF BusTypes
  <2>2. busQueue' \in [Sockets -> Seq(1..MaxPubs)]
    BY <1>1, <1>3, <1>4, Zenon DEF BusTypes
  <2> QED BY <1>1, <1>4, <2>1, <2>2 DEF BusTypes
<1>7. SameElsewhere(s)
  BY <1>1, <1>4, Zenon DEF BusTypes, SameElsewhere
<1>8. InLine(sent'[s], hand'[s], busQueue'[s], callbacks'[s], Len(pubs))
  <2>1. InLine(sent[s], Head(q), Tail(q), callbacks[s], Len(pubs))
    BY <1>1, <1>2, LineTaken DEF SocketFacts
  <2> QED BY <1>4, <1>5, <2>1, Zenon
<1>9. AsAsked(s)'
  <2> DEFINE x == Head(q)  rest == Tail(q)
  <2> HIDE DEF x, rest, q
  <2>1. AsAsked(s) /\ busQueue[s] = q
    BY <1>1 DEF SocketFacts, q
  <2>2. 1 \in DOMAIN q /\ x = q[1] /\ \A i \in DOMAIN rest : i + 1 \in DOMAIN q /\ rest[i] = q[i + 1]
    BY <1>3 DEF x, rest
  <2>3. /\ \A i \in DOMAIN rest : gen[s] >= 1 /\ pubs[rest[i]] \in events[<<s, gen[s]>>]
        /\ gen[s] >= 1 /\ pubs[x] \in events[<<s, gen[s]>>]
    BY <2>1, <2>2, Zenon DEF AsAsked
  <2>4. hand'[s] = x /\ busQueue'[s] = rest
    BY <1>5 DEF x, rest
  <2> QED BY <1>4, <2>1, <2>3, <2>4, Zenon DEF AsAsked
<1>10. NotLost(s)'
  <2>1. ASSUME <<s, gen[s]>> \in subs
        PROVE  OnTheWay(matched[<<s, gen[s]>>], sent[s], Head(q), Tail(q), callbacks[s], gen[s], dropped[<<s, gen[s]>>])
    <3>1. OnTheWay(matched[<<s, gen[s]>>], sent[s], 0, q, callbacks[s], gen[s], dropped[<<s, gen[s]>>])
      BY <1>1, <1>2, <2>1 DEF SocketFacts, NotLost
    <3>2. WayTypes(matched[<<s, gen[s]>>], sent[s], 0, q, callbacks[s])
      BY <1>1, <2>1 DEF BusTypes, WayTypes, BusAssumed
    <3> HIDE DEF q
    <3> QED BY <1>2, <3>1, <3>2, WayTaken
  <2> QED BY <1>2, <1>4, <1>5, <2>1, Zenon DEF NotLost
<1>11. Len(busQueue'[s]) <= BusMax
  BY <1>1, <1>3, <1>5 DEF SocketFacts, BusAssumed
<1> QED BY <1>1, <1>4, <1>6, <1>7, <1>8, <1>9, <1>10, <1>11, OneSocketStep DEF SocketFacts

\* The writer ends what it does with the message it holds, or loses it.
LEMMA HandEmptied ==
    ASSUME BusAssumed, BusInv, NEW s \in Sockets, Bus!WriterEnds(s)
    PROVE  /\ hand' = [hand EXCEPT ![s] = 0] /\ hand' \in [Sockets -> 0..MaxPubs] /\ hand'[s] = 0
           /\ sent' \in [Sockets -> Seq(1..MaxPubs)]
           /\ \A r \in Sockets \ {s} : sent'[r] = sent[r] /\ hand'[r] = hand[r]
           /\ InLine(sent'[s], 0, busQueue[s], callbacks[s], Len(pubs))
           /\ \A i \in DOMAIN sent[s] : i \in DOMAIN sent'[s] /\ sent'[s][i] = sent[s][i]
<1>1. BusTypes /\ SocketFacts(s)
  BY FactsOfSocket DEF BusInv
<1>2. /\ hand' = [hand EXCEPT ![s] = 0] /\ hand' \in [Sockets -> 0..MaxPubs] /\ hand'[s] = 0
      /\ \A r \in Sockets \ {s} : hand'[r] = hand[r]
  BY <1>1 DEF BusTypes, Bus!WriterEnds, BusAssumed
<1>3. InLine(sent[s], 0, busQueue[s], callbacks[s], Len(pubs))
  BY <1>1, LineSent DEF SocketFacts
<1>4. CASE UNCHANGED sent
  BY <1>1, <1>2, <1>3, <1>4 DEF BusTypes
<1>5. CASE hand[s] # 0 /\ sent' = [sent EXCEPT ![s] = Append(@, hand[s])]
  <2>1. hand[s] \in 1..MaxPubs /\ sent[s] \in Seq(1..MaxPubs)
    BY <1>1, <1>5 DEF BusTypes
  <2>2. /\ Append(sent[s], hand[s]) \in Seq(1..MaxPubs)
        /\ \A i \in DOMAIN sent[s] : /\ i \in DOMAIN Append(sent[s], hand[s])
                                     /\ Append(sent[s], hand[s])[i] = sent[s][i]
    BY <2>1, PutLast
  <2>3. sent'[s] = Append(sent[s], hand[s]) /\ \A r \in Sockets \ {s} : sent'[r] = sent[r]
    BY <1>1, <1>5, Zenon DEF BusTypes
  <2>4. sent' \in [Sockets -> Seq(1..MaxPubs)]
    BY <1>1, <1>5, <2>2, Zenon DEF BusTypes
  <2>5. InLine(sent'[s], 0, busQueue[s], callbacks[s], Len(pubs))
    <3>1. InLine(Append(sent[s], hand[s]), 0, busQueue[s], callbacks[s], Len(pubs))
      BY <1>1, <1>5, LineSent DEF SocketFacts
    <3> QED BY <2>3, <3>1, Zenon
  <2> QED BY <1>2, <2>2, <2>3, <2>4, <2>5, Zenon
<1> QED BY <1>4, <1>5 DEF Bus!WriterEnds

LEMMA WriterSendsInv ==
    ASSUME BusAssumed, BusInv, NEW s \in Sockets, Bus!WriterSends(s)
    PROVE  BusInv'
<1>1. BusTypes /\ SocketFacts(s)
  BY FactsOfSocket DEF BusInv
<1>2. /\ handler[s] = "listening" /\ busWriter[s] = "running" /\ hand[s] # 0
      /\ sent' = [sent EXCEPT ![s] = Append(@, hand[s])] /\ hand' = [hand EXCEPT ![s] = 0]
      /\ UNCHANGED <<pubs, subs, events, callbacks, matched, dropped, busQueue, gen, handler, busWriter>>
  BY DEF Bus!WriterSends, Bus!busVars
<1>3. Bus!WriterEnds(s)
  BY <1>2 DEF Bus!WriterEnds
<1>4. /\ hand' \in [Sockets -> 0..MaxPubs] /\ hand'[s] = 0 /\ sent' \in [Sockets -> Seq(1..MaxPubs)]
      /\ \A r \in Sockets \ {s} : sent'[r] = sent[r] /\ hand'[r] = hand[r]
      /\ InLine(sent'[s], 0, busQueue[s], callbacks[s], Len(pubs))
  BY <1>3, HandEmptied
<1>5. BusTypes'
  BY <1>1, <1>2, <1>4, Zenon DEF BusTypes
<1>6. SameElsewhere(s)
  BY <1>2, <1>4, Zenon DEF SameElsewhere
<1>7. AsAsked(s)'
  BY <1>1, <1>2, <1>4, Zenon DEF SocketFacts, AsAsked
<1>8. NotLost(s)'
  <2>1. ASSUME <<s, gen[s]>> \in subs
        PROVE  OnTheWay(matched[<<s, gen[s]>>], Append(sent[s], hand[s]), 0, busQueue[s], callbacks[s], gen[s], dropped[<<s, gen[s]>>])
    <3>1. OnTheWay(matched[<<s, gen[s]>>], sent[s], hand[s], busQueue[s], callbacks[s], gen[s], dropped[<<s, gen[s]>>])
      BY <1>1, <1>2, <2>1 DEF SocketFacts, NotLost
    <3>2. WayTypes(matched[<<s, gen[s]>>], sent[s], hand[s], busQueue[s], callbacks[s])
      BY <1>1, <2>1 DEF BusTypes, WayTypes, BusAssumed
    <3> QED BY <1>2, <3>1, <3>2, WaySent
  <2>2. sent'[s] = Append(sent[s], hand[s])
    BY <1>1, <1>2, Zenon DEF BusTypes
  <2> QED BY <1>2, <1>4, <2>1, <2>2, Zenon DEF NotLost
<1>9. /\ InLine(sent'[s], hand'[s], busQueue'[s], callbacks'[s], Len(pubs))
      /\ Len(busQueue'[s]) <= BusMax
  BY <1>1, <1>2, <1>4, Zenon DEF SocketFacts
<1> QED BY <1>1, <1>2, <1>5, <1>6, <1>7, <1>8, <1>9, OneSocketStep DEF SocketFacts

LEMMA WriterFailsInv ==
    ASSUME BusAssumed, BusInv, NEW s \in Sockets, Bus!WriterFails(s)
    PROVE  BusInv'
<1>1. BusTypes /\ SocketFacts(s)
  BY FactsOfSocket DEF BusInv
<1>2. /\ handler[s] = "listening" /\ hand' = [hand EXCEPT ![s] = 0]
      /\ busWriter' = [busWriter EXCEPT ![s] = "failed"]
      /\ UNCHANGED <<pubs, subs, events, callbacks, matched, dropped, busQueue, gen, handler, sent>>
  BY DEF Bus!WriterFails, Bus!busVars
<1>3. /\ hand' \in [Sockets -> 0..MaxPubs] /\ hand'[s] = 0
      /\ busWriter' \in [Sockets -> {"none", "running", "failed"}] /\ busWriter'[s] = "failed"
      /\ \A r \in Sockets \ {s} : busWriter'[r] = busWriter[r] /\ hand'[r] = hand[r]
  BY <1>1, <1>2 DEF BusTypes, BusAssumed
<1>4. BusTypes'
  BY <1>1, <1>2, <1>3, Zenon DEF BusTypes
<1>5. SameElsewhere(s)
  BY <1>2, <1>3, Zenon DEF SameElsewhere
<1>6. AsAsked(s)'
  BY <1>1, <1>2, <1>3, Zenon DEF SocketFacts, AsAsked
<1>7. NotLost(s)'
  <2>1. "switching" # "listening"
    OBVIOUS
  <2> QED BY <1>2, <1>3, <2>1, Zenon DEF NotLost
<1>8. InLine(sent[s], 0, busQueue[s], callbacks[s], Len(pubs))
  BY <1>1, LineSent DEF SocketFacts
<1>9. /\ InLine(sent'[s], hand'[s], busQueue'[s], callbacks'[s], Len(pubs))
      /\ Len(busQueue'[s]) <= BusMax
  BY <1>1, <1>2, <1>3, <1>8, Zenon DEF SocketFacts
<1> QED BY <1>1, <1>2, <1>4, <1>5, <1>6, <1>7, <1>9, OneSocketStep DEF SocketFacts

\* The client leaves, or its loop is closed.
LEMMA SocketEndsInv ==
    ASSUME BusAssumed, BusInv, NEW s \in Sockets, Bus!Leave(s) \/ Bus!LoopCloses(s)
    PROVE  BusInv'
<1>1. BusTypes /\ SocketFacts(s)
  BY FactsOfSocket DEF BusInv
<1>2. /\ UNCHANGED <<pubs, subs, events, matched, dropped, busQueue, gen, hand, busWriter, sent>>
      /\ \E h \in {"closing", "aborted"} : handler' = [handler EXCEPT ![s] = h]
      /\ UNCHANGED callbacks \/ callbacks' = [callbacks EXCEPT ![s] = <<>>]
  BY DEF Bus!Leave, Bus!LoopCloses, Bus!busVars
<1>3. /\ handler' \in [Sockets -> Bus!HandlerStates] /\ handler'[s] \in {"closing", "aborted"}
      /\ \A r \in Sockets \ {s} : handler'[r] = handler[r]
  BY <1>1, <1>2 DEF BusTypes, Bus!HandlerStates
<1>4. /\ callbacks' \in [Sockets -> Seq(Scheduled)] /\ callbacks'[s] \in {callbacks[s], <<>>}
      /\ \A r \in Sockets \ {s} : callbacks'[r] = callbacks[r]
  <2>1. <<>> \in Seq(Scheduled)
    OBVIOUS
  <2> QED BY <1>1, <1>2, <2>1, Zenon DEF BusTypes
<1>5. BusTypes'
  BY <1>1, <1>2, <1>3, <1>4, Zenon DEF BusTypes
<1>6. SameElsewhere(s)
  BY <1>2, <1>3, <1>4, Zenon DEF SameElsewhere
<1>7. handler'[s] \notin {"listening", "switching", "closed"}
  BY <1>3
<1>8. AsAsked(s)'
  <2>1. DOMAIN <<>> = {}
    OBVIOUS
  <2> QED BY <1>1, <1>2, <1>4, <1>7, <2>1, Zenon DEF SocketFacts, AsAsked
<1>9. NotLost(s)'
  BY <1>7, Zenon DEF NotLost
<1>10. /\ InLine(sent'[s], hand'[s], busQueue'[s], callbacks'[s], Len(pubs))
       /\ Len(busQueue'[s]) <= BusMax
  <2>1. InLine(sent[s], hand[s], busQueue[s], <<>>, Len(pubs))
    BY <1>1, LineCut DEF SocketFacts
  <2> QED BY <1>1, <1>2, <1>4, <2>1, Zenon DEF SocketFacts
<1> QED BY <1>1, <1>2, <1>5, <1>6, <1>7, <1>8, <1>9, <1>10, OneSocketStep DEF SocketFacts

LEMMA StartWriterInv ==
    ASSUME BusAssumed, BusInv, NEW s \in Sockets, Bus!StartWriter(s)
    PROVE  BusInv'
<1>1. BusTypes /\ SocketFacts(s)
  BY FactsOfSocket DEF BusInv
<1>2. /\ handler[s] = "switching" /\ Bus!WriterEnds(s)
      /\ busWriter' = [busWriter EXCEPT ![s] = "running"]
      /\ handler' = [handler EXCEPT ![s] = "listening"]
      /\ UNCHANGED <<pubs, subs, events, callbacks, matched, dropped, busQueue, gen>>
  BY DEF Bus!StartWriter, Bus!busVars
<1>3. /\ hand' \in [Sockets -> 0..MaxPubs] /\ hand'[s] = 0 /\ sent' \in [Sockets -> Seq(1..MaxPubs)]
      /\ \A r \in Sockets \ {s} : sent'[r] = sent[r] /\ hand'[r] = hand[r]
      /\ InLine(sent'[s], 0, busQueue[s], callbacks[s], Len(pubs))
      /\ \A i \in DOMAIN sent[s] : i \in DOMAIN sent'[s] /\ sent'[s][i] = sent[s][i]
  BY <1>2, HandEmptied
<1>4. /\ busWriter' \in [Sockets -> {"none", "running", "failed"}] /\ busWriter'[s] = "running"
      /\ handler' \in [Sockets -> Bus!HandlerStates] /\ handler'[s] = "listening"
      /\ \A r \in Sockets \ {s} : busWriter'[r] = busWriter[r] /\ handler'[r] = handler[r]
  BY <1>1, <1>2 DEF BusTypes, Bus!HandlerStates
<1>5. BusTypes'
  BY <1>1, <1>2, <1>3, <1>4, Zenon DEF BusTypes
<1>6. SameElsewhere(s)
  BY <1>2, <1>3, <1>4, Zenon DEF SameElsewhere
<1>7. AsAsked(s)'
  BY <1>1, <1>2, <1>3, <1>4, Zenon DEF SocketFacts, AsAsked
<1>8. NotLost(s)'
  <2>1. "switching" # "listening"
    OBVIOUS
  <2>2. ASSUME <<s, gen[s]>> \in subs
        PROVE  OnTheWay(matched[<<s, gen[s]>>], sent'[s], 0, busQueue[s], callbacks[s], gen[s], dropped[<<s, gen[s]>>])
    <3>1. OnTheWay(matched[<<s, gen[s]>>], sent[s], 0, busQueue[s], callbacks[s], gen[s], dropped[<<s, gen[s]>>])
      BY <1>1, <1>2, <2>2 DEF SocketFacts, NotLost
    <3> QED BY <1>3, <3>1, Zenon DEF OnTheWay
  <2> QED BY <1>2, <1>3, <1>4, <2>1, <2>2, Zenon DEF NotLost
<1>9. /\ InLine(sent'[s], hand'[s], busQueue'[s], callbacks'[s], Len(pubs))
      /\ Len(busQueue'[s]) <= BusMax
  BY <1>1, <1>2, <1>3, Zenon DEF SocketFacts
<1>10. handler'[s] # "closed"
  BY <1>4
<1> QED BY <1>1, <1>2, <1>5, <1>6, <1>7, <1>8, <1>9, <1>10, OneSocketStep DEF SocketFacts

LEMMA CloseInv ==
    ASSUME BusAssumed, BusInv, NEW s \in Sockets, Bus!Close(s)
    PROVE  BusInv'
<1>1. BusTypes /\ SocketFacts(s)
  BY FactsOfSocket DEF BusInv
<1>2. /\ Bus!WriterEnds(s)
      /\ busWriter' = [busWriter EXCEPT ![s] = "none"] /\ subs' = subs \ {<<s, gen[s]>>}
      /\ handler' = [handler EXCEPT ![s] = "closed"]
      /\ UNCHANGED <<pubs, events, callbacks, matched, dropped, busQueue, gen>>
  BY DEF Bus!Close, Bus!Current
<1>3. /\ hand' \in [Sockets -> 0..MaxPubs] /\ hand'[s] = 0 /\ sent' \in [Sockets -> Seq(1..MaxPubs)]
      /\ \A r \in Sockets \ {s} : sent'[r] = sent[r] /\ hand'[r] = hand[r]
      /\ InLine(sent'[s], 0, busQueue[s], callbacks[s], Len(pubs))
  BY <1>2, HandEmptied
<1>4. /\ busWriter' \in [Sockets -> {"none", "running", "failed"}] /\ busWriter'[s] = "none"
      /\ handler' \in [Sockets -> Bus!HandlerStates] /\ handler'[s] = "closed"
      /\ \A r \in Sockets \ {s} : busWriter'[r] = busWriter[r] /\ handler'[r] = handler[r]
  BY <1>1, <1>2 DEF BusTypes, Bus!HandlerStates
<1>5. /\ \A r \in Sockets \ {s} : \A g \in 1..MaxRenewals : <<r, g>> \in subs' <=> <<r, g>> \in subs
      /\ \A g \in 1..MaxRenewals : <<s, g>> \notin subs'
      /\ subs' \subseteq subs
  BY <1>1, <1>2 DEF SocketFacts
<1>6. BusTypes'
  BY <1>1, <1>2, <1>3, <1>4, <1>5, Zenon DEF BusTypes
<1>7. SameElsewhere(s)
  BY <1>2, <1>3, <1>4, <1>5, Zenon DEF SameElsewhere
<1>8. AsAsked(s)'
  BY <1>1, <1>2, <1>3, Zenon DEF SocketFacts, AsAsked
<1>9. NotLost(s)'
  <2>1. handler'[s] \notin {"listening", "switching"}
    BY <1>4
  <2> QED BY <2>1, Zenon DEF NotLost
<1>10. /\ InLine(sent'[s], hand'[s], busQueue'[s], callbacks'[s], Len(pubs))
       /\ Len(busQueue'[s]) <= BusMax
  BY <1>1, <1>2, <1>3, Zenon DEF SocketFacts
<1> QED BY <1>1, <1>2, <1>5, <1>6, <1>7, <1>8, <1>9, <1>10, OneSocketStep DEF SocketFacts

LEMMA ResubscribeInv ==
    ASSUME BusAssumed, BusInv, NEW s \in Sockets, NEW kinds \in SUBSET Kinds, Bus!Resubscribe(s, kinds)
    PROVE  BusInv'
<1> DEFINE g == gen[s] + 1
<1>1. BusTypes /\ SocketFacts(s)
  BY FactsOfSocket DEF BusInv
<1>2. /\ handler[s] = "listening" /\ gen[s] < MaxRenewals
      /\ subs' = (subs \ {<<s, gen[s]>>}) \cup {<<s, g>>}
      /\ events' = [events EXCEPT ![<<s, g>>] = kinds]
      /\ gen' = [gen EXCEPT ![s] = g] /\ busQueue' = [busQueue EXCEPT ![s] = <<>>]
      /\ handler' = [handler EXCEPT ![s] = "switching"]
      /\ UNCHANGED <<pubs, callbacks, matched, dropped, hand, busWriter, sent>>
  BY DEF Bus!Resubscribe, Bus!Current
<1>3. g \in 1..MaxRenewals /\ gen[s] \in 0..MaxRenewals /\ g = gen[s] + 1 /\ g > gen[s]
  BY <1>1, <1>2 DEF BusTypes, BusAssumed
<1> HIDE DEF g
<1>4. /\ gen' \in [Sockets -> 0..MaxRenewals] /\ gen'[s] = g
      /\ handler' \in [Sockets -> Bus!HandlerStates] /\ handler'[s] = "switching"
      /\ \A r \in Sockets \ {s} : gen'[r] = gen[r] /\ handler'[r] = handler[r]
  BY <1>1, <1>2, <1>3 DEF BusTypes, Bus!HandlerStates
<1>5. /\ busQueue' \in [Sockets -> Seq(1..MaxPubs)] /\ busQueue'[s] = <<>>
      /\ \A r \in Sockets \ {s} : busQueue'[r] = busQueue[r]
  <2>1. <<>> \in Seq(1..MaxPubs)
    OBVIOUS
  <2> QED BY <1>1, <1>2, <2>1, Zenon DEF BusTypes
<1>6. /\ <<s, g>> \in Bus!SubIds /\ events' \in [Bus!SubIds -> SUBSET Kinds]
      /\ \A h \in 1..MaxRenewals : h # g => events'[<<s, h>>] = events[<<s, h>>]
      /\ \A r \in Sockets \ {s} : \A h \in 1..MaxRenewals : events'[<<r, h>>] = events[<<r, h>>]
  <2>1. \A r \in Sockets, h \in 1..MaxRenewals : <<r, h>> \in Bus!SubIds
    BY DEF Bus!SubIds
  <2>2. \A r \in Sockets, h \in 1..MaxRenewals : r # s \/ h # g => <<r, h>> # <<s, g>>
    OBVIOUS
  <2> QED BY <1>1, <1>2, <1>3, <2>1, <2>2, Zenon DEF BusTypes
<1>7. /\ subs' \subseteq Bus!SubIds
      /\ \A r \in Sockets \ {s} : \A h \in 1..MaxRenewals : <<r, h>> \in subs' <=> <<r, h>> \in subs
      /\ \A h \in 1..MaxRenewals : <<s, h>> \in subs' => h = g
  BY <1>1, <1>2, <1>6 DEF BusTypes, SocketFacts
<1>8. BusTypes'
  BY <1>1, <1>2, <1>4, <1>5, <1>6, <1>7, Zenon DEF BusTypes
<1>9. SameElsewhere(s)
  BY <1>2, <1>4, <1>5, <1>6, <1>7, Zenon DEF SameElsewhere
<1>10. DOMAIN <<>> = {} /\ Len(<<>>) = 0
  OBVIOUS
<1>11. AsAsked(s)'
  <2>1. ASSUME NEW i \in DOMAIN callbacks[s]
        PROVE  /\ callbacks[s][i].sub <= g
               /\ pubs[callbacks[s][i].pub] \in events'[<<s, callbacks[s][i].sub>>]
    <3>1. callbacks[s][i] \in Scheduled
      <4>1. \A T : \A q \in Seq(T) : \A k \in DOMAIN q : q[k] \in T
        OBVIOUS
      <4>2. callbacks[s] \in Seq(Scheduled)
        BY <1>1 DEF BusTypes
      <4> QED BY <4>1, <4>2, Zenon
    <3>2. callbacks[s][i].sub \in 1..MaxRenewals
      BY <3>1 DEF Scheduled
    <3>3. callbacks[s][i].sub <= gen[s] /\ pubs[callbacks[s][i].pub] \in events[<<s, callbacks[s][i].sub>>]
      BY <1>1 DEF SocketFacts, AsAsked
    <3>4. callbacks[s][i].sub <= g /\ callbacks[s][i].sub # g
      BY <1>3, <3>2, <3>3
    <3> QED BY <1>6, <3>2, <3>3, <3>4, Zenon
  <2>2. "switching" # "listening"
    OBVIOUS
  <2> QED BY <1>2, <1>4, <1>5, <1>10, <2>1, <2>2, Zenon DEF AsAsked
<1>12. NotLost(s)'
  <2>1. matched'[<<s, g>>] = {}
    BY <1>1, <1>2, <1>3 DEF SocketFacts
  <2>2. "switching" # "listening"
    OBVIOUS
  <2> QED BY <1>4, <2>1, <2>2, Zenon DEF NotLost, OnTheWay
<1>13. InLine(sent[s], hand[s], <<>>, callbacks[s], Len(pubs))
  BY <1>1, LineCut DEF SocketFacts
<1>14. /\ InLine(sent'[s], hand'[s], busQueue'[s], callbacks'[s], Len(pubs))
       /\ Len(busQueue'[s]) <= BusMax
  <2>1. 0 <= BusMax
    BY DEF BusAssumed
  <2> QED BY <1>2, <1>5, <1>10, <1>13, <2>1, Zenon
<1>15. \A h \in 1..MaxRenewals : h > gen'[s] => matched'[<<s, h>>] = {}
  BY <1>1, <1>2, <1>3, <1>4 DEF SocketFacts
<1>16. handler'[s] # "closed"
  BY <1>4
<1> QED BY <1>1, <1>2, <1>4, <1>7, <1>8, <1>9, <1>11, <1>12, <1>14, <1>15, <1>16, OneSocketStep

LEMMA DeliverInv ==
    ASSUME BusAssumed, BusInv, NEW s \in Sockets, Bus!DeliverIfActive(s)
    PROVE  BusInv'
<1> DEFINE cb == callbacks[s]  x == Head(cb)  q == busQueue[s]  i == <<s, x.sub>>
           living == i \in subs  full == Len(q) >= BusMax
<1>1. BusTypes /\ SocketFacts(s)
  BY FactsOfSocket DEF BusInv
<1>2. /\ cb # <<>> /\ callbacks' = [callbacks EXCEPT ![s] = Tail(cb)]
      /\ busQueue' = [busQueue EXCEPT ![s] = IF living /\ ~full THEN Append(q, x.pub) ELSE q]
      /\ dropped' = [dropped EXCEPT ![i] = IF living /\ full THEN @ \cup {x.pub} ELSE @]
      /\ UNCHANGED <<pubs, subs, events, matched, gen, handler, hand, busWriter, sent>>
  BY DEF Bus!DeliverIfActive
<1>3. cb \in Seq(Scheduled) /\ q \in Seq(1..MaxPubs)
  BY <1>1 DEF BusTypes
<1>4. /\ x \in Scheduled /\ x = cb[1] /\ 1 \in DOMAIN cb /\ Tail(cb) \in Seq(Scheduled)
      /\ \A k \in DOMAIN Tail(cb) : k + 1 \in DOMAIN cb /\ Tail(cb)[k] = cb[k + 1]
  BY <1>2, <1>3, TakeFirst
<1>5. x.pub \in 1..MaxPubs /\ x.sub \in 1..MaxRenewals
  BY <1>4 DEF Scheduled
<1>6. /\ Append(q, x.pub) \in Seq(1..MaxPubs) /\ Len(Append(q, x.pub)) = Len(q) + 1
      /\ \A k \in DOMAIN Append(q, x.pub) : \/ k \in DOMAIN q /\ Append(q, x.pub)[k] = q[k]
                                            \/ Append(q, x.pub)[k] = x.pub
  <2>1. /\ Append(q, x.pub) \in Seq(1..MaxPubs) /\ Len(Append(q, x.pub)) = Len(q) + 1
        /\ \A k \in DOMAIN q : Append(q, x.pub)[k] = q[k]
        /\ \A k \in DOMAIN Append(q, x.pub) : k \in DOMAIN q \/ Append(q, x.pub)[k] = x.pub
    BY <1>3, <1>5, PutLast
  <2> QED BY <2>1, Zenon
<1>7. /\ i \in Bus!SubIds /\ (living => x.sub = gen[s] /\ i = <<s, gen[s]>>)
      /\ \A r \in Sockets, g \in 1..MaxRenewals : r # s => <<r, g>> # i
      /\ \A r \in Sockets, g \in 1..MaxRenewals : <<r, g>> \in Bus!SubIds
  BY <1>1, <1>5 DEF Bus!SubIds, SocketFacts
<1>8. /\ InLine(sent[s], hand[s], q, Tail(cb), Len(pubs))
      /\ InLine(sent[s], hand[s], Append(q, x.pub), Tail(cb), Len(pubs))
  BY <1>1, <1>2, LineDelivered DEF SocketFacts
<1>9. /\ callbacks'[s] = Tail(cb) /\ callbacks' \in [Sockets -> Seq(Scheduled)]
      /\ \A r \in Sockets \ {s} : callbacks'[r] = callbacks[r]
  BY <1>1, <1>2, <1>4, Zenon DEF BusTypes
<1>10. /\ busQueue'[s] = IF living /\ ~full THEN Append(q, x.pub) ELSE q
       /\ busQueue' \in [Sockets -> Seq(1..MaxPubs)]
       /\ \A r \in Sockets \ {s} : busQueue'[r] = busQueue[r]
  BY <1>1, <1>2, <1>3, <1>6, Zenon DEF BusTypes
<1>11. /\ dropped' \in [Bus!SubIds -> SUBSET (1..MaxPubs)]
       /\ dropped'[i] = IF living /\ full THEN dropped[i] \cup {x.pub} ELSE dropped[i]
       /\ \A j \in Bus!SubIds : j # i => dropped'[j] = dropped[j]
  BY <1>1, <1>2, <1>5, <1>7 DEF BusTypes
<1>12. BusTypes'
  BY <1>1, <1>2, <1>9, <1>10, <1>11, Zenon DEF BusTypes
<1>13. SameElsewhere(s)
  BY <1>2, <1>7, <1>9, <1>10, <1>11, Zenon DEF SameElsewhere
<1> HIDE DEF cb, x, q, i, living, full
<1>14. AsAsked(s)'
  <2>1. AsAsked(s) /\ callbacks[s] = cb /\ busQueue[s] = q
    BY <1>1 DEF SocketFacts, cb, q
  <2>2. \A k \in DOMAIN Tail(cb) : /\ Tail(cb)[k].sub <= gen[s]
                                   /\ pubs[Tail(cb)[k].pub] \in events[<<s, Tail(cb)[k].sub>>]
    BY <1>4, <2>1, Zenon DEF AsAsked
  <2>3. living => gen[s] >= 1 /\ pubs[x.pub] \in events[<<s, gen[s]>>]
    <3>1. x.sub >= 1 /\ pubs[x.pub] \in events[<<s, x.sub>>]
      BY <1>4, <1>5, <2>1 DEF AsAsked
    <3> QED BY <1>7, <3>1
  <2>4. \A k \in DOMAIN busQueue'[s] : gen[s] >= 1 /\ pubs[busQueue'[s][k]] \in events[<<s, gen[s]>>]
    <3>1. \A k \in DOMAIN q : gen[s] >= 1 /\ pubs[q[k]] \in events[<<s, gen[s]>>]
      BY <2>1, Zenon DEF AsAsked
    <3> QED BY <1>6, <1>10, <2>3, <3>1, Zenon
  <2> QED BY <1>2, <1>9, <2>1, <2>2, <2>4, Zenon DEF AsAsked
<1>15. ASSUME NEW h \in 0..MaxPubs, <<s, gen[s]>> \in subs,
              OnTheWay(matched[<<s, gen[s]>>], sent[s], h, q, cb, gen[s], dropped[<<s, gen[s]>>])
       PROVE  OnTheWay(matched[<<s, gen[s]>>], sent[s], h, busQueue'[s], Tail(cb), gen[s], dropped'[<<s, gen[s]>>])
  <2>1. WayTypes(matched[<<s, gen[s]>>], sent[s], h, q, cb)
    BY <1>1, <1>3, <1>15 DEF BusTypes, WayTypes
  <2>2. /\ Head(cb).sub # gen[s] =>
             OnTheWay(matched[<<s, gen[s]>>], sent[s], h, q, Tail(cb), gen[s], dropped[<<s, gen[s]>>])
        /\ OnTheWay(matched[<<s, gen[s]>>], sent[s], h, Append(q, Head(cb).pub), Tail(cb), gen[s], dropped[<<s, gen[s]>>])
        /\ OnTheWay(matched[<<s, gen[s]>>], sent[s], h, q, Tail(cb), gen[s], dropped[<<s, gen[s]>>] \cup {Head(cb).pub})
    BY <1>2, <1>15, <2>1, WayDelivered
  <2>3. <<s, gen[s]>> \in Bus!SubIds
    BY <1>1, <1>15 DEF BusTypes
  <2>4. CASE ~living
    <3>1. Head(cb).sub # gen[s]
      BY <1>15, <2>4 DEF living, i, x
    <3>2. dropped'[<<s, gen[s]>>] = dropped[<<s, gen[s]>>]
      BY <1>11, <2>3, <2>4, Zenon
    <3> QED BY <1>10, <2>2, <2>4, <3>1, <3>2, Zenon
  <2>5. CASE living /\ full
    <3>1. dropped'[<<s, gen[s]>>] = dropped[<<s, gen[s]>>] \cup {Head(cb).pub}
      BY <1>7, <1>11, <2>5, Zenon DEF x
    <3> QED BY <1>10, <2>2, <2>5, <3>1, Zenon
  <2>6. CASE living /\ ~full
    <3>1. dropped'[<<s, gen[s]>>] = dropped[<<s, gen[s]>>]
      BY <1>7, <1>11, <2>6, Zenon
    <3> QED BY <1>10, <2>2, <2>6, <3>1, Zenon DEF x
  <2> QED BY <2>4, <2>5, <2>6
<1>16. NotLost(s)'
  <2>1. NotLost(s) /\ callbacks[s] = cb /\ busQueue[s] = q /\ hand[s] \in 0..MaxPubs
    BY <1>1 DEF SocketFacts, BusTypes, cb, q
  <2>2. 0 \in 0..MaxPubs
    BY DEF BusAssumed
  <2> QED BY <1>2, <1>9, <1>15, <2>1, <2>2, Zenon DEF NotLost
<1>17. /\ InLine(sent'[s], hand'[s], busQueue'[s], callbacks'[s], Len(pubs))
       /\ Len(busQueue'[s]) <= BusMax
  <2>1. InLine(sent'[s], hand'[s], busQueue'[s], callbacks'[s], Len(pubs))
    BY <1>2, <1>8, <1>9, <1>10, Zenon
  <2>2. Len(q) \in Nat /\ Len(q) <= BusMax
    BY <1>1, <1>3 DEF SocketFacts, q
  <2>3. ~full => Len(q) + 1 <= BusMax
    BY <2>2 DEF full, BusAssumed
  <2> QED BY <1>6, <1>10, <2>1, <2>2, <2>3, Zenon
<1> QED BY <1>1, <1>2, <1>12, <1>13, <1>14, <1>16, <1>17, OneSocketStep DEF SocketFacts

LEMMA BusPublishInv ==
    ASSUME BusAssumed, BusInv, NEW kind \in Kinds, Bus!Publish(kind)
    PROVE  BusInv'
<1> DEFINE n    == Len(pubs) + 1
           hits == {i \in subs : kind \in events[i]}
           gone == {i \in hits : handler[i[1]] = "aborted"}
           hit(s) == <<s, gen[s]>> \in hits \ gone
           new(s) == [sub |-> gen[s], pub |-> n]
<1>1. BusTypes /\ \A s \in Sockets : SocketFacts(s)
  BY FactsOfSocket DEF BusInv
<1>2. /\ n <= MaxPubs /\ pubs' = Append(pubs, kind) /\ subs' = subs \ gone
      /\ callbacks' = [s \in Sockets |-> IF \E i \in hits \ gone : i[1] = s
                                         THEN Append(callbacks[s], new(s)) ELSE callbacks[s]]
      /\ matched' = [i \in Bus!SubIds |-> IF i \in hits THEN matched[i] \cup {n} ELSE matched[i]]
      /\ dropped' = [i \in Bus!SubIds |-> IF i \in gone THEN dropped[i] \cup {n} ELSE dropped[i]]
      /\ UNCHANGED <<events, busQueue, gen, handler, hand, busWriter, sent>>
  BY DEF Bus!Publish, Bus!socketVars
<1>3. pubs \in Seq(Kinds) /\ n \in 1..MaxPubs
  BY <1>1, <1>2 DEF BusTypes
<1>4. /\ pubs' \in Seq(Kinds) /\ Len(pubs') = n /\ pubs'[n] = kind
      /\ \A k \in 1..Len(pubs) : pubs'[k] = pubs[k]
  <2>1. /\ Append(pubs, kind) \in Seq(Kinds) /\ Len(Append(pubs, kind)) = Len(pubs) + 1
        /\ \A k \in DOMAIN pubs : Append(pubs, kind)[k] = pubs[k]
        /\ Append(pubs, kind)[Len(pubs) + 1] = kind
    BY <1>3, PutLast
  <2>2. DOMAIN pubs = 1..Len(pubs)
    BY <1>3
  <2> QED BY <1>2, <2>1, <2>2
<1>5. ASSUME NEW s \in Sockets
      PROVE  /\ (\E i \in hits \ gone : i[1] = s) <=> hit(s)
             /\ hit(s) => gen[s] \in 1..MaxRenewals /\ kind \in events[<<s, gen[s]>>] /\ handler[s] # "aborted"
             /\ <<s, gen[s]>> \in subs /\ handler[s] # "aborted" => (hit(s) <=> <<s, gen[s]>> \in hits)
             /\ handler[s] # "aborted" => <<s, gen[s]>> \notin gone
  <2>1. \A i \in subs : i = <<i[1], gen[i[1]]>>
    BY DEF BusInv
  <2>2. <<s, gen[s]>>[1] = s
    OBVIOUS
  <2>3. <<s, gen[s]>> \in subs => gen[s] \in 1..MaxRenewals
    BY <1>1 DEF BusTypes, Bus!SubIds
  <2> QED BY <2>1, <2>2, <2>3, Zenon
<1> HIDE DEF n, hits, gone, hit, new
<1>6. ASSUME NEW s \in Sockets, hit(s) PROVE new(s) \in Scheduled /\ new(s).pub = Len(pubs) + 1
  BY <1>3, <1>5, <1>6 DEF Scheduled, new, n
<1>7. ASSUME NEW s \in Sockets
      PROVE  callbacks'[s] = IF hit(s) THEN Append(callbacks[s], new(s)) ELSE callbacks[s]
  BY <1>2, <1>5, Zenon
<1>8. callbacks' \in [Sockets -> Seq(Scheduled)]
  <2>1. ASSUME NEW s \in Sockets PROVE callbacks'[s] \in Seq(Scheduled)
    <3>1. callbacks[s] \in Seq(Scheduled)
      BY <1>1 DEF BusTypes
    <3>2. hit(s) => Append(callbacks[s], new(s)) \in Seq(Scheduled)
      BY <1>6, <3>1, PutLast
    <3> QED BY <1>7, <3>1, <3>2, Zenon
  <2>2. callbacks' = [s \in Sockets |-> callbacks'[s]]
    BY <1>2, Zenon
  <2> QED BY <2>1, <2>2, Zenon
<1>9. /\ matched' \in [Bus!SubIds -> SUBSET (1..MaxPubs)] /\ dropped' \in [Bus!SubIds -> SUBSET (1..MaxPubs)]
      /\ subs' \subseteq subs /\ hits \subseteq subs /\ gone \subseteq hits
  BY <1>1, <1>2, <1>3 DEF BusTypes, hits, gone
<1>10. BusTypes'
  BY <1>1, <1>2, <1>3, <1>4, <1>8, <1>9 DEF BusTypes
<1>11. ASSUME NEW s \in Sockets
       PROVE  InLine(sent'[s], hand'[s], busQueue'[s], callbacks'[s], Len(pubs'))
  <2>1. CASE hit(s)
    <3>1. InLine(sent[s], hand[s], busQueue[s], Append(callbacks[s], new(s)), Len(pubs) + 1)
      <4>1. new(s) \in Posted /\ new(s).pub = Len(pubs) + 1
        BY <1>6, <2>1 DEF Scheduled, Posted
      <4> QED BY <1>1, <4>1, LineScheduled DEF SocketFacts
    <3> QED BY <1>2, <1>4, <1>7, <2>1, <3>1, Zenon DEF n
  <2>2. CASE ~hit(s)
    <3>1. InLine(sent[s], hand[s], busQueue[s], callbacks[s], Len(pubs) + 1)
      BY <1>1, LineLater DEF SocketFacts
    <3> QED BY <1>2, <1>4, <1>7, <2>2, <3>1, Zenon DEF n
  <2> QED BY <2>1, <2>2
<1>12. ASSUME NEW s \in Sockets PROVE AsAsked(s)'
  <2>1. AsAsked(s) /\ InLine(sent[s], hand[s], busQueue[s], callbacks[s], Len(pubs))
    BY <1>1 DEF SocketFacts
  <2>2. /\ \A k \in DOMAIN busQueue[s] : busQueue[s][k] \in 1..Len(pubs)
        /\ \A k \in DOMAIN callbacks[s] : callbacks[s][k].pub \in 1..Len(pubs)
        /\ hand[s] # 0 => hand[s] \in 1..Len(pubs)
    <3>1. \A T : \A q \in Seq(T) : \A k \in DOMAIN q : q[k] \in T
      OBVIOUS
    <3>2. /\ busQueue[s] \in Seq(1..MaxPubs) /\ callbacks[s] \in Seq(Scheduled) /\ hand[s] \in 0..MaxPubs
      BY <1>1 DEF BusTypes
    <3>3. /\ \A k \in DOMAIN busQueue[s] : busQueue[s][k] \in 1..MaxPubs
          /\ \A k \in DOMAIN callbacks[s] : callbacks[s][k] \in Scheduled
      BY <3>1, <3>2, Zenon
    <3>4. \A k \in DOMAIN callbacks[s] : callbacks[s][k].pub \in 1..MaxPubs
      BY <3>3 DEF Scheduled
    <3>5. Len(pubs) \in Nat
      BY <1>3
    <3> QED BY <2>1, <3>2, <3>3, <3>4, <3>5 DEF InLine
  <2>3. /\ \A k \in DOMAIN busQueue[s] : gen[s] >= 1 /\ pubs'[busQueue[s][k]] \in events[<<s, gen[s]>>]
        /\ \A k \in DOMAIN callbacks[s] : /\ callbacks[s][k].sub <= gen[s]
                                          /\ pubs'[callbacks[s][k].pub] \in events[<<s, callbacks[s][k].sub>>]
        /\ handler[s] = "listening" /\ hand[s] # 0 => gen[s] >= 1 /\ pubs'[hand[s]] \in events[<<s, gen[s]>>]
    BY <1>4, <2>1, <2>2, Zenon DEF AsAsked
  <2>4. CASE ~hit(s)
    BY <1>2, <1>7, <2>3, <2>4, Zenon DEF AsAsked
  <2>5. CASE hit(s)
    <3>1. new(s).sub <= gen[s] /\ pubs'[new(s).pub] \in events[<<s, new(s).sub>>]
      BY <1>1, <1>4, <1>5, <2>5 DEF new, BusTypes
    <3>2. /\ \A k \in DOMAIN callbacks[s] : Append(callbacks[s], new(s))[k] = callbacks[s][k]
          /\ \A k \in DOMAIN Append(callbacks[s], new(s)) :
               k \in DOMAIN callbacks[s] \/ Append(callbacks[s], new(s))[k] = new(s)
      <4>1. callbacks[s] \in Seq(Scheduled)
        BY <1>1 DEF BusTypes
      <4> QED BY <1>6, <2>5, <4>1, PutLast
    <3> QED BY <1>2, <1>7, <2>3, <2>5, <3>1, <3>2, Zenon DEF AsAsked
  <2> QED BY <2>4, <2>5
<1>13. ASSUME NEW s \in Sockets, NEW h \in 0..MaxPubs, handler[s] # "aborted", <<s, gen[s]>> \in subs,
              OnTheWay(matched[<<s, gen[s]>>], sent[s], h, busQueue[s], callbacks[s], gen[s], dropped[<<s, gen[s]>>])
       PROVE  OnTheWay(matched'[<<s, gen[s]>>], sent[s], h, busQueue[s], callbacks'[s], gen[s], dropped'[<<s, gen[s]>>])
  <2>1. <<s, gen[s]>> \in Bus!SubIds
    BY <1>1, <1>13 DEF BusTypes
  <2>2. dropped'[<<s, gen[s]>>] = dropped[<<s, gen[s]>>]
    BY <1>2, <1>5, <1>13, <2>1, Zenon
  <2>3. CASE hit(s)
    <3>1. matched'[<<s, gen[s]>>] = matched[<<s, gen[s]>>] \cup {n}
      BY <1>2, <1>5, <1>13, <2>1, <2>3, Zenon
    <3>2. WayTypes(matched[<<s, gen[s]>>], sent[s], h, busQueue[s], callbacks[s])
      BY <1>1, <1>13 DEF BusTypes, WayTypes
    <3>3. [sub |-> gen[s], pub |-> n] \in Scheduled
      BY <1>6, <2>3 DEF new
    <3>4. OnTheWay(matched[<<s, gen[s]>>] \cup {n}, sent[s], h, busQueue[s],
                   Append(callbacks[s], [sub |-> gen[s], pub |-> n]), gen[s], dropped[<<s, gen[s]>>])
      BY <1>13, <3>2, <3>3, WayScheduled
    <3> QED BY <1>7, <2>2, <2>3, <3>1, <3>4, Zenon DEF new
  <2>4. CASE ~hit(s)
    <3>1. matched'[<<s, gen[s]>>] = matched[<<s, gen[s]>>]
      BY <1>2, <1>5, <1>13, <2>1, <2>4, Zenon
    <3> QED BY <1>7, <1>13, <2>2, <2>4, <3>1, Zenon
  <2> QED BY <2>3, <2>4
<1>14. ASSUME NEW s \in Sockets PROVE NotLost(s)'
  <2>1. NotLost(s) /\ hand[s] \in 0..MaxPubs /\ 0 \in 0..MaxPubs
    BY <1>1 DEF SocketFacts, BusTypes, BusAssumed
  <2>2. "listening" # "aborted" /\ "switching" # "aborted"
    OBVIOUS
  <2>3. <<s, gen[s]>> \in subs' => <<s, gen[s]>> \in subs
    BY <1>9
  <2> QED BY <1>2, <1>13, <2>1, <2>2, <2>3, Zenon DEF NotLost
<1>15. ASSUME NEW i \in Bus!SubIds, i[2] > gen'[i[1]] PROVE matched'[i] = {}
  <2>1. matched[i] = {}
    BY <1>2, <1>15 DEF BusInv
  <2>2. i \notin subs
    <3>1. PICK r \in Sockets, g \in 1..MaxRenewals : i = <<r, g>>
      BY DEF Bus!SubIds
    <3>2. g > gen[r] /\ gen[r] \in 0..MaxRenewals
      BY <1>1, <1>2, <1>15, <3>1 DEF BusTypes
    <3>3. i \in subs => g = gen[r]
      BY <1>1, <3>1 DEF SocketFacts
    <3> QED BY <3>2, <3>3
  <2> QED BY <1>2, <1>9, <2>1, <2>2, Zenon
<1>16. \A i \in subs' : i = <<i[1], gen'[i[1]]>> /\ handler'[i[1]] # "closed"
  BY <1>2, <1>9, Zenon DEF BusInv
<1>17. \A s \in Sockets : Len(busQueue'[s]) <= BusMax
  BY <1>2, Zenon DEF BusInv
<1> QED BY <1>10, <1>11, <1>12, <1>14, <1>15, <1>16, <1>17 DEF BusInv

LEMMA BusNextInv ==
    ASSUME Bus!BusAssumption, BusInv, [Bus!BusNext]_busVars
    PROVE  BusInv'
<1>1. BusAssumed
  BY DEF Bus!BusAssumption, BusAssumed
<1>2. CASE UNCHANGED busVars
  BY <1>2 DEF busVars, BusInv, BusTypes, AsAsked, NotLost
<1>3. ASSUME NEW kind \in Kinds, Bus!Publish(kind) PROVE BusInv'
  BY <1>1, <1>3, BusPublishInv
<1>4. ASSUME NEW s \in Sockets, Bus!SocketRuns(s) PROVE BusInv'
  BY <1>1, <1>4, DeliverInv, StartWriterInv, WriterTakesInv, WriterSendsInv, CloseInv DEF Bus!SocketRuns
<1>5. ASSUME NEW s \in Sockets, NEW kinds \in SUBSET Kinds, Bus!Resubscribe(s, kinds) PROVE BusInv'
  BY <1>1, <1>5, ResubscribeInv
<1>6. ASSUME NEW s \in Sockets, Bus!WriterFails(s) \/ Bus!Leave(s) \/ Bus!LoopCloses(s) PROVE BusInv'
  BY <1>1, <1>6, WriterFailsInv, SocketEndsInv
<1> QED BY <1>2, <1>3, <1>4, <1>5, <1>6, Zenon DEF Bus!BusNext

\* What the invariant says of the bus.
LEMMA BusIsHonest ==
    ASSUME BusInv
    PROVE  /\ Bus!BusTypeOK /\ Bus!AtMostOnceInOrder
           /\ Bus!NothingVanishes /\ Bus!SubscriptionEndsWithSocket
<1>1. Bus!BusTypeOK
  <2>1. {matched, dropped} \subseteq [Bus!SubIds -> SUBSET (1..MaxPubs)]
    BY DEF BusInv, BusTypes
  <2>2. \A s \in Sockets :
          /\ callbacks[s] \in Seq([sub : 1..MaxRenewals, pub : 1..MaxPubs])
          /\ busQueue[s] \in Seq(1..MaxPubs) /\ Len(busQueue[s]) <= BusMax /\ sent[s] \in Seq(1..MaxPubs)
    BY DEF BusInv, BusTypes, Scheduled
  <2> QED BY <2>1, <2>2, Zenon DEF BusInv, BusTypes, Bus!BusTypeOK
<1>2. Bus!AtMostOnceInOrder
  BY DEF BusInv, InLine, Bus!AtMostOnceInOrder
<1>3. Bus!SubscriptionEndsWithSocket
  BY DEF BusInv, Bus!SubscriptionEndsWithSocket, Bus!Current
<1>4. Bus!NothingVanishes
  <2> SUFFICES ASSUME NEW s \in Sockets, <<s, gen[s]>> \in subs, handler[s] = "listening",
                      busWriter[s] # "failed", NEW n \in matched[<<s, gen[s]>>]
               PROVE  n \in Bus!Seen(sent[s]) \cup {hand[s]} \cup Bus!Seen(busQueue[s])
                              \cup {callbacks[s][i].pub : i \in DOMAIN callbacks[s]}
                              \cup dropped[<<s, gen[s]>>]
    BY Zenon DEF Bus!NothingVanishes, Bus!Current
  <2>1. OnTheWay(matched[<<s, gen[s]>>], sent[s], hand[s], busQueue[s], callbacks[s], gen[s],
                 dropped[<<s, gen[s]>>])
    BY DEF BusInv, NotLost
  <2>2. (\E i \in DOMAIN callbacks[s] : callbacks[s][i] = [sub |-> gen[s], pub |-> n]) =>
        \E i \in DOMAIN callbacks[s] : callbacks[s][i].pub = n
    OBVIOUS
  <2>3. \/ n = hand[s] \/ n \in dropped[<<s, gen[s]>>]
        \/ \E i \in DOMAIN sent[s] : sent[s][i] = n
        \/ \E i \in DOMAIN busQueue[s] : busQueue[s][i] = n
        \/ \E i \in DOMAIN callbacks[s] : callbacks[s][i].pub = n
    BY <2>1, <2>2, Zenon DEF OnTheWay
  <2> QED BY <2>3, Zenon DEF Bus!Seen
<1> QED BY <1>1, <1>2, <1>3, <1>4

LEMMA BusSendsWhatWasAsked ==
    ASSUME BusAssumed, BusInv, [Bus!BusNext]_busVars
    PROVE  Bus!OnlyWhatWasAsked
<1> SUFFICES ASSUME NEW s \in Sockets, handler[s] = "listening", sent'[s] # sent[s]
             PROVE  /\ Len(sent'[s]) = Len(sent[s]) + 1
                    /\ pubs[sent'[s][Len(sent'[s])]] \in events[<<s, gen[s]>>]
  BY DEF Bus!OnlyWhatWasAsked, Bus!Current
<1>0. BusTypes /\ AsAsked(s)
  BY DEF BusInv
<1>1. UNCHANGED sent \/ \E r \in Sockets : Bus!StartWriter(r) \/ Bus!WriterSends(r) \/ Bus!Close(r)
  BY DEF Bus!BusNext, busVars, Bus!SocketRuns, Bus!Publish, Bus!socketVars, Bus!DeliverIfActive,
         Bus!WriterTakes, Bus!Resubscribe, Bus!WriterFails, Bus!Leave, Bus!LoopCloses
<1>2. PICK r \in Sockets : Bus!StartWriter(r) \/ Bus!WriterSends(r) \/ Bus!Close(r)
  BY <1>1
<1>3. r = s
  BY <1>0, <1>2, Zenon DEF Bus!StartWriter, Bus!WriterSends, Bus!Close, Bus!WriterEnds, BusTypes
<1>4. Bus!WriterSends(s)
  BY <1>2, <1>3 DEF Bus!StartWriter, Bus!Close
<1>5. sent'[s] = Append(sent[s], hand[s]) /\ hand[s] # 0
  BY <1>0, <1>4, Zenon DEF Bus!WriterSends, BusTypes
<1>6. sent[s] \in Seq(1..MaxPubs) /\ hand[s] \in 1..MaxPubs
  BY <1>0, <1>5 DEF BusTypes
<1>7. Len(sent'[s]) = Len(sent[s]) + 1 /\ sent'[s][Len(sent[s]) + 1] = hand[s]
  BY <1>5, <1>6, PutLast
<1> QED BY <1>0, <1>5, <1>7, Zenon DEF AsAsked

----------------------------------------------------------------------------
(* The event stream. *)

StreamTypes ==
    /\ log \in Seq(Stream!Events) /\ oldest \in 1..(Len(log) + 1) /\ ended \in BOOLEAN
    /\ sub \in [Clients -> Stream!SubStates] /\ streamPc \in [Clients -> Stream!StreamStates]
    /\ queue \in [Clients -> Seq(Nat)] /\ tail \in [Clients -> Seq(Nat)] /\ outbox \in [Clients -> Seq(Nat)]
    /\ hello \in [Clients -> 0..Len(log)] /\ cursor \in [Clients -> 0..Len(log)]
    /\ breaks \in 0..MaxBreaks

\* What a stream holds fits the place p it is at: its subscription s, its queue q,
\* tail t and outbox o, and the status h made for it.
FitsPlace(p, s, q, t, o, h) ==
    /\ p = "off" => s = "none"
    /\ p \in {"draining", "replaying"} => s \in {"bootstrap", "closed"}
    /\ p \in {"flushing", "streaming"} => s \in {"live", "closed"}
    /\ s = "none" => q = <<>> /\ o = <<>>
    /\ s = "closed" => q = <<0>>
    /\ s # "bootstrap" => t = <<>>
    /\ p = "draining" /\ s = "bootstrap" => q # <<>> /\ q[Len(q)] = h
    /\ p = "replaying" /\ s = "bootstrap" => q = <<>>
    /\ p = "streaming" => o = <<>>

\* The events in a queue; the queue of a closed subscription holds none.
Queued(s, q) == IF s = "closed" THEN <<>> ELSE q

AheadOf(s, q, t, o) == Elems(o) \cup Elems(Queued(s, q)) \cup Elems(t)

\* The state of one client with cursor k, where the log has n events and F are the
\* ones the client is owed.
Sound(p, s, q, t, o, h, k, n, F) ==
    /\ FitsPlace(p, s, q, t, o, h)
    /\ Len(q) <= StreamMax
    /\ Ranked(k, o, Queued(s, q), t, n)
    /\ Gapless(k, AheadOf(s, q, t, o), F, s)

OwedTo(c) == {j \in 1..Len(log) : Stream!Owed(c, log[j])}
ClientSound(c) ==
    Sound(streamPc[c], sub[c], queue[c], tail[c], outbox[c], hello[c], cursor[c], Len(log), OwedTo(c))

\* The inductive invariant of the stream.
StreamInv == StreamTypes /\ \A c \in Clients : ClientSound(c)

\* sorted(), as a sequence.
LEMMA InOrderLists ==
    ASSUME NEW n \in Nat, NEW S \in SUBSET (1..n)
    PROVE  /\ Stream!InOrder(S) \in Seq(S) /\ Ascending(Stream!InOrder(S)) /\ Elems(Stream!InOrder(S)) = S
           /\ Stream!InOrder(S) \in Seq(Nat) /\ Len(Stream!InOrder(S)) \in Nat
<1> DEFINE q == Stream!InOrder(S)
<1>1. q \in [1..Cardinality(S) -> S] /\ Ascending(q)
  <2>1. Stream!Cardinality(S) = Cardinality(S)
    BY Zenon DEF Stream!Cardinality, Cardinality
  <2>2. q = CHOOSE r \in [1..Cardinality(S) -> S] : Ascending(r)
    BY <2>1, Zenon DEF Stream!InOrder, Ascending
  <2>3. \E r \in [1..Cardinality(S) -> S] : Ascending(r)
    BY ListedInOrder
  <2> QED BY <2>2, <2>3, Zenon
<1> HIDE DEF q
<1>2. q \in Seq(S) /\ q \in Seq(Nat) /\ Len(q) \in Nat /\ Elems(q) = S
  BY <1>1, ListedInOrder
<1> QED BY <1>1, <1>2 DEF q

SoundTypes(p, s, q, t, o, h, k, n, F) ==
    /\ p \in Stream!StreamStates /\ s \in Stream!SubStates
    /\ q \in Seq(Nat) /\ t \in Seq(Nat) /\ o \in Seq(Nat)
    /\ h \in Nat /\ k \in Nat /\ n \in Nat /\ k <= n
    /\ F \subseteq 1..n

LEMMA QueuedTypes ==
    ASSUME NEW s, NEW q \in Seq(Nat)
    PROVE  Queued(s, q) \in Seq(Nat)
BY DEF Queued

LEMMA AheadNumbers ==
    ASSUME NEW p, NEW s, NEW q, NEW t, NEW o, NEW h, NEW k, NEW n, NEW F, SoundTypes(p, s, q, t, o, h, k, n, F),
           Ranked(k, o, Queued(s, q), t, n)
    PROVE  /\ RankTypes(k, o, Queued(s, q), t, n)
           /\ AheadOf(s, q, t, o) \in SUBSET Nat /\ \A x \in AheadOf(s, q, t, o) : k < x /\ x <= n
           /\ F \in SUBSET Nat /\ \A j \in F : j < n + 1
<1>1. Queued(s, q) \in Seq(Nat)
  BY QueuedTypes DEF SoundTypes
<1>2. RankTypes(k, o, Queued(s, q), t, n)
  BY <1>1, Zenon DEF RankTypes, SoundTypes
<1>3. Elems(o) \subseteq Nat /\ Elems(Queued(s, q)) \subseteq Nat /\ Elems(t) \subseteq Nat
  BY <1>1, ElemsOfSeq DEF SoundTypes
<1>4. \A x \in AheadOf(s, q, t, o) : k < x /\ x <= n
  BY DEF AheadOf, Elems, Ranked
<1>5. F \in SUBSET Nat /\ \A j \in F : j < n + 1
  BY DEF SoundTypes
<1> QED BY <1>2, <1>3, <1>4, <1>5, Zenon DEF AheadOf

\* An event a client is not owed, or one that comes when it is not subscribed.
LEMMA SoundLater ==
    ASSUME NEW p, NEW s, NEW q, NEW t, NEW o, NEW h, NEW k, NEW n, NEW F, SoundTypes(p, s, q, t, o, h, k, n, F),
           Sound(p, s, q, t, o, h, k, n, F)
    PROVE  /\ Sound(p, s, q, t, o, h, k, n + 1, F)
           /\ s \notin Lasting => Sound(p, s, q, t, o, h, k, n + 1, F \cup {n + 1})
<1>1. /\ RankTypes(k, o, Queued(s, q), t, n)
      /\ AheadOf(s, q, t, o) \in SUBSET Nat /\ \A x \in AheadOf(s, q, t, o) : k < x /\ x <= n
      /\ F \in SUBSET Nat /\ \A j \in F : j < n + 1
  BY AheadNumbers DEF Sound
<1>2. Ranked(k, o, Queued(s, q), t, n + 1)
  BY <1>1, RankLater DEF Sound
<1>3. ASSUME s \notin Lasting PROVE Gapless(k, AheadOf(s, q, t, o), F \cup {n + 1}, s)
  <2>1. n + 1 \in Nat /\ k \in Nat /\ \A x \in AheadOf(s, q, t, o) : x < n + 1
    BY <1>1 DEF SoundTypes
  <2> QED BY <1>1, <1>3, <2>1, GapLater DEF Sound
<1> QED BY <1>2, <1>3 DEF Sound

\* A subscription without room is closed.
LEMMA SoundClosed ==
    ASSUME NEW p, NEW s, NEW q, NEW t, NEW o, NEW h, NEW k, NEW n, NEW F, SoundTypes(p, s, q, t, o, h, k, n, F),
           Sound(p, s, q, t, o, h, k, n, F), s \in Lasting, StreamMax \in Nat \ {0}
    PROVE  Sound(p, "closed", <<0>>, <<>>, o, h, k, n + 1, F \cup {n + 1})
<1> DEFINE Q == Elems(Queued(s, q)) \cup Elems(t)
<1>1. /\ RankTypes(k, o, Queued(s, q), t, n)
      /\ AheadOf(s, q, t, o) \in SUBSET Nat /\ \A x \in AheadOf(s, q, t, o) : k < x /\ x <= n
      /\ F \in SUBSET Nat /\ \A j \in F : j < n + 1
  BY AheadNumbers DEF Sound
<1>2. n + 1 \in Nat /\ k \in Nat /\ k <= n
  BY DEF SoundTypes
<1>3. AheadOf(s, q, t, o) = Elems(o) \cup Q /\ Elems(o) \in SUBSET Nat /\ Q \in SUBSET Nat
  BY <1>1, Zenon DEF AheadOf
<1>4. \A x \in Elems(o), y \in Q : x < y
  BY RankShort DEF Sound
<1>5. "closed" \notin Lasting
  BY DEF Lasting
<1>6. Gapless(k, Elems(o), F, "closed")
  <2>1. Gapless(k, Elems(o) \cup Q, F, s)
    BY <1>3 DEF Sound
  <2> HIDE DEF Q
  <2> QED BY <1>1, <1>2, <1>3, <1>4, <1>5, <2>1, GapClosed
<1>7. Gapless(k, Elems(o), F \cup {n + 1}, "closed")
  <2>1. \A x \in Elems(o) : x < n + 1
    <3>1. \A x \in Elems(o) : x \in AheadOf(s, q, t, o)
      BY <1>3, Zenon
    <3> QED BY <1>1, <1>2, <3>1 DEF SoundTypes
  <2> QED BY <1>1, <1>2, <1>3, <1>5, <1>6, <2>1, GapLater
<1>8. Queued("closed", <<0>>) = <<>> /\ AheadOf("closed", <<0>>, <<>>, o) = Elems(o)
  BY NoElems DEF AheadOf, Queued
<1>9. Ranked(k, o, <<>>, <<>>, n + 1)
  <2>1. Ranked(k, o, <<>>, <<>>, n)
    BY RankShort DEF Sound
  <2>2. RankTypes(k, o, <<>>, <<>>, n)
    BY <1>1, NoElems DEF RankTypes
  <2> QED BY <2>1, <2>2, RankLater
<1>10. FitsPlace(p, "closed", <<0>>, <<>>, o, h)
  <2>1. p # "off"
    BY DEF Sound, FitsPlace, Lasting
  <2> QED BY <2>1 DEF Sound, FitsPlace, SoundTypes
<1>11. Len(<<0>>) <= StreamMax
  OBVIOUS
<1> QED BY <1>7, <1>8, <1>9, <1>10, <1>11 DEF Sound

\* An event for the queue, or for the tail.
LEMMA SoundQueued ==
    ASSUME NEW p, NEW q, NEW t, NEW o, NEW h, NEW k, NEW n, NEW F, SoundTypes(p, "live", q, t, o, h, k, n, F),
           Sound(p, "live", q, t, o, h, k, n, F), Len(q) < StreamMax, StreamMax \in Nat \ {0}
    PROVE  Sound(p, "live", Append(q, n + 1), t, o, h, k, n + 1, F \cup {n + 1})
<1> DEFINE L == AheadOf("live", q, t, o)
<1>1. /\ RankTypes(k, o, Queued("live", q), t, n)
      /\ L \in SUBSET Nat /\ \A x \in L : k < x /\ x <= n
      /\ F \in SUBSET Nat /\ \A j \in F : j < n + 1
  BY AheadNumbers DEF Sound
<1>2. n + 1 \in Nat /\ k \in Nat /\ k <= n /\ q \in Seq(Nat)
  BY DEF SoundTypes
<1>3. t = <<>> /\ \A r : Queued("live", r) = r
  BY DEF Sound, FitsPlace, Queued
<1>4. Ranked(k, o, Append(q, n + 1), <<>>, n + 1)
  BY <1>1, <1>2, <1>3, RankQueue DEF Sound
<1>5. AheadOf("live", Append(q, n + 1), t, o) = L \cup {n + 1}
  <2>1. Elems(Append(q, n + 1)) = Elems(q) \cup {n + 1}
    BY <1>2, ElemsOfSeq
  <2>2. Queued("live", Append(q, n + 1)) = Append(q, n + 1) /\ Queued("live", q) = q
    BY DEF Queued
  <2> QED BY <2>1, <2>2 DEF AheadOf
<1>6. Gapless(k, L \cup {n + 1}, F \cup {n + 1}, "live")
  <2>1. Gapless(k, L, F, "live") /\ "live" \in Lasting
    BY DEF Sound, Lasting
  <2> HIDE DEF L
  <2> QED BY <1>1, <1>2, <2>1, GapGrown
<1>7. Len(Append(q, n + 1)) <= StreamMax /\ Append(q, n + 1) # <<>>
  BY <1>2
<1>8. FitsPlace(p, "live", Append(q, n + 1), t, o, h)
  BY DEF Sound, FitsPlace, SoundTypes
<1> QED BY <1>3, <1>4, <1>5, <1>6, <1>7, <1>8 DEF Sound

LEMMA SoundTail ==
    ASSUME NEW p, NEW q, NEW t, NEW o, NEW h, NEW k, NEW n, NEW F, SoundTypes(p, "bootstrap", q, t, o, h, k, n, F),
           Sound(p, "bootstrap", q, t, o, h, k, n, F)
    PROVE  Sound(p, "bootstrap", q, Append(t, n + 1), o, h, k, n + 1, F \cup {n + 1})
<1> DEFINE L == AheadOf("bootstrap", q, t, o)
<1>1. /\ RankTypes(k, o, Queued("bootstrap", q), t, n)
      /\ L \in SUBSET Nat /\ \A x \in L : k < x /\ x <= n
      /\ F \in SUBSET Nat /\ \A j \in F : j < n + 1
  BY AheadNumbers DEF Sound
<1>2. n + 1 \in Nat /\ k \in Nat /\ k <= n /\ t \in Seq(Nat)
  BY DEF SoundTypes
<1>4. Ranked(k, o, Queued("bootstrap", q), Append(t, n + 1), n + 1)
  BY <1>1, <1>2, RankTail DEF Sound
<1>5. AheadOf("bootstrap", q, Append(t, n + 1), o) = L \cup {n + 1}
  <2>1. Elems(Append(t, n + 1)) = Elems(t) \cup {n + 1}
    BY <1>2, ElemsOfSeq
  <2> QED BY <2>1, Zenon DEF AheadOf
<1>6. Gapless(k, L \cup {n + 1}, F \cup {n + 1}, "bootstrap")
  <2>1. Gapless(k, L, F, "bootstrap") /\ "bootstrap" \in Lasting
    BY DEF Sound, Lasting
  <2> HIDE DEF L
  <2> QED BY <1>1, <1>2, <2>1, GapGrown
<1>8. FitsPlace(p, "bootstrap", q, Append(t, n + 1), o, h)
  BY DEF Sound, FitsPlace, SoundTypes
<1> QED BY <1>4, <1>5, <1>6, <1>8 DEF Sound

\* A stream that ended, with whatever cursor the client has then.
LEMMA SoundEnded ==
    ASSUME NEW h, NEW k, NEW n, NEW F, StreamMax \in Nat \ {0}
    PROVE  Sound("off", "none", <<>>, <<>>, <<>>, h, k, n, F)
<1>1. Queued("none", <<>>) = <<>> /\ AheadOf("none", <<>>, <<>>, <<>>) = {}
  BY NoElems DEF Queued, AheadOf
<1>2. Ranked(k, <<>>, <<>>, <<>>, n)
  BY NoElems DEF Ranked
<1>3. Gapless(k, {}, F, "none")
  BY NoGap DEF Lasting
<1>4. FitsPlace("off", "none", <<>>, <<>>, <<>>, h)
  BY DEF FitsPlace
<1>5. Len(<<>>) <= StreamMax
  BY NoElems
<1> QED BY <1>1, <1>2, <1>3, <1>4, <1>5 DEF Sound

\* A subscription starts with the events the client has missed, all after its cursor,
\* and its own status.
LEMMA SoundSubscribed ==
    ASSUME NEW k \in Nat, NEW n \in Nat, k <= n, NEW F \in SUBSET (1..n), NEW S \in SUBSET (1..n),
           NEW r \in Seq(Nat), Ascending(r), Elems(r) = S, Len(r) + 1 <= StreamMax,
           k = 0 => S = {}, \A x \in S : k < x, k > 0 => \A j \in F : k < j => j \in S
    PROVE  Sound("draining", "bootstrap", Append(r, n + 1), <<>>, <<>>, n + 1, k, n + 1, F)
<1> DEFINE q == Append(r, n + 1)
<1>1. /\ q \in Seq(Nat) /\ Len(q) = Len(r) + 1 /\ Elems(q) = S \cup {n + 1}
      /\ q[Len(q)] = n + 1 /\ q # <<>>
  <2>1. n + 1 \in Nat
    OBVIOUS
  <2>2. q \in Seq(Nat) /\ Len(q) = Len(r) + 1 /\ Len(q) \in DOMAIN q /\ q[Len(q)] = n + 1
    BY <2>1, PutLast
  <2>3. Elems(q) = S \cup {n + 1}
    BY <2>1, ElemsOfSeq
  <2>4. q # <<>>
    OBVIOUS
  <2> QED BY <2>2, <2>3, <2>4
<1>2. Queued("bootstrap", q) = q /\ AheadOf("bootstrap", q, <<>>, <<>>) = S \cup {n + 1}
  BY <1>1, NoElems DEF Queued, AheadOf
<1>3. /\ \A i \in DOMAIN r : r[i] \in S
      /\ \A x \in S : x \in Nat /\ k < x /\ x <= n
  BY DEF Elems
<1>4. Ascending(q) /\ \A i \in DOMAIN q : k < q[i] /\ q[i] <= n + 1
  <2>1. /\ \A i \in DOMAIN r : i \in DOMAIN q /\ q[i] = r[i] /\ i < Len(r) + 1 /\ i \in Nat
        /\ \A i \in DOMAIN q : i \in DOMAIN r \/ (i = Len(r) + 1 /\ q[i] = n + 1)
    BY PutLast
  <2> HIDE DEF q
  <2> QED BY <1>3, <2>1 DEF Ascending
<1> HIDE DEF q
<1>5. Ranked(k, <<>>, q, <<>>, n + 1)
  BY <1>4, NoElems DEF Ranked, Ascending
<1>6. Gapless(k, S \cup {n + 1}, F, "bootstrap")
  <2> SUFFICES ASSUME NEW j \in F, (k > 0 /\ k < j) \/ \E x \in S \cup {n + 1} : x < j
               PROVE  j \in S \cup {n + 1}
    BY DEF Gapless
  <2>1. j \in Nat /\ j <= n
    OBVIOUS
  <2>2. k > 0
    BY <1>3, <2>1
  <2>3. k < j
    BY <1>3, <2>1
  <2> QED BY <2>2, <2>3
<1>7. FitsPlace("draining", "bootstrap", q, <<>>, <<>>, n + 1)
  BY <1>1 DEF FitsPlace
<1>8. Sound("draining", "bootstrap", q, <<>>, <<>>, n + 1, k, n + 1, F)
  BY <1>1, <1>2, <1>5, <1>6, <1>7 DEF Sound
<1> QED BY <1>8 DEF q

\* The stream takes the first event of its queue.
LEMMA SoundDrained ==
    ASSUME NEW s, NEW q, NEW t, NEW o, NEW h, NEW k, NEW n, NEW F, SoundTypes("draining", s, q, t, o, h, k, n, F),
           Sound("draining", s, q, t, o, h, k, n, F), q # <<>>, Head(q) # 0, StreamMax \in Nat \ {0}
    PROVE  Sound(IF Head(q) = h THEN "replaying" ELSE "draining", s, Tail(q), t, Append(o, Head(q)), h, k, n, F)
<1> DEFINE x == Head(q)  rest == Tail(q)
<1>1. s = "bootstrap" /\ q[Len(q)] = h
  <2>1. s \in {"bootstrap", "closed"} /\ (s = "closed" => q = <<0>>) /\ (s = "bootstrap" => q[Len(q)] = h)
    BY DEF Sound, FitsPlace
  <2> QED BY <2>1
<1>2. \A r : Queued(s, r) = r
  BY <1>1 DEF Queued
<1>3. RankTypes(k, o, q, t, n) /\ Ranked(k, o, q, t, n)
  BY <1>2, AheadNumbers DEF Sound
<1>4. Ranked(k, Append(o, x), rest, t, n)
  BY <1>3, RankDrain
<1>5. /\ x \in Nat /\ rest \in Seq(Nat) /\ Len(rest) = Len(q) - 1 /\ Len(q) \in Nat /\ Len(q) >= 1
      /\ x = q[1] /\ 1 \in DOMAIN q /\ Len(q) \in DOMAIN q
      /\ Len(q) > 1 => rest # <<>> /\ rest[Len(rest)] = h
      /\ Len(q) = 1 => rest = <<>>
  <2>1. q \in Seq(Nat)
    BY DEF SoundTypes
  <2>2. /\ x \in Nat /\ x = q[1] /\ 1 \in DOMAIN q /\ Len(q) >= 1
        /\ rest \in Seq(Nat) /\ Len(rest) = Len(q) - 1
        /\ \A i \in DOMAIN rest : i + 1 \in DOMAIN q /\ rest[i] = q[i + 1]
    BY <2>1, TakeFirst
  <2>3. Len(q) \in Nat /\ Len(q) \in DOMAIN q
    BY <2>1, <2>2
  <2> HIDE DEF x, rest
  <2>4. /\ Len(rest) > 0 => rest # <<>> /\ Len(rest) \in DOMAIN rest
        /\ Len(rest) = 0 => rest = <<>>
    BY <2>2
  <2>5. Len(q) > 1 => rest[Len(rest)] = h
    BY <1>1, <2>2, <2>3, <2>4
  <2> QED BY <2>2, <2>3, <2>4, <2>5
<1>6. AheadOf(s, rest, t, Append(o, x)) = AheadOf(s, q, t, o)
  <2>1. Elems(q) = {x} \cup Elems(rest)
    BY ElemsOfSeq DEF SoundTypes
  <2>2. Elems(Append(o, x)) = Elems(o) \cup {x}
    BY <1>5, ElemsOfSeq DEF SoundTypes
  <2> HIDE DEF x, rest
  <2>3. Queued(s, rest) = rest /\ Queued(s, q) = q
    BY <1>2
  <2> QED BY <2>1, <2>2, <2>3 DEF AheadOf
<1>7. x = h => Len(q) = 1
  <2>1. \A i, j \in DOMAIN q : i < j => q[i] < q[j]
    BY <1>3 DEF Ranked
  <2>2. \A i \in DOMAIN q : q[i] \in Int
    BY DEF SoundTypes
  <2> HIDE DEF x, rest
  <2>3. ASSUME Len(q) > 1 PROVE x < h
    BY <1>1, <1>5, <2>1, <2>3
  <2> QED BY <1>1, <1>5, <2>2, <2>3
<1>8. x # h => Len(q) > 1
  <2> HIDE DEF x, rest
  <2> QED BY <1>1, <1>5
<1> DEFINE p == IF x = h THEN "replaying" ELSE "draining"
<1>9. FitsPlace(p, s, rest, t, Append(o, x), h)
  <2> HIDE DEF x, rest
  <2> QED BY <1>1, <1>5, <1>7, <1>8 DEF FitsPlace
<1>10. Len(rest) <= StreamMax
  <2>1. Len(q) <= StreamMax
    BY DEF Sound
  <2> HIDE DEF x, rest
  <2> QED BY <1>5, <2>1
<1> QED
  <2>1. Gapless(k, AheadOf(s, q, t, o), F, s)
    BY DEF Sound
  <2> HIDE DEF x, rest, p
  <2>2. Sound(p, s, rest, t, Append(o, x), h, k, n, F)
    BY <1>2, <1>4, <1>6, <1>9, <1>10, <2>1 DEF Sound
  <2> QED BY <2>2 DEF p, x, rest

\* No owed event lies between a cursor and the next number.
NextFor(k, F, h) == k < h /\ (k > 0 => \A j \in (k + 1)..(h - 1) : j \notin F)

LEMMA FirstIsNext ==
    ASSUME NEW k \in Nat, NEW F \in SUBSET Nat, NEW s, NEW h \in Nat, NEW M \in SUBSET Nat,
           Gapless(k, {h} \cup M, F, s), \A x \in M : h < x, k < h
    PROVE  NextFor(k, F, h)
BY DEF Gapless, NextFor

\* The first event of the outbox is sent.
LEMMA SoundSent ==
    ASSUME NEW p, NEW s, NEW q, NEW t, NEW o, NEW h, NEW k, NEW n, NEW F, SoundTypes(p, s, q, t, o, h, k, n, F),
           Sound(p, s, q, t, o, h, k, n, F), o # <<>>
    PROVE  /\ Sound(p, s, q, t, Tail(o), h, Head(o), n, F)
           /\ NextFor(k, F, Head(o)) /\ Head(o) \in 1..n
<1> DEFINE x == Head(o)  rest == Tail(o)  M == Elems(rest) \cup Elems(Queued(s, q)) \cup Elems(t)
<1>1. RankTypes(k, o, Queued(s, q), t, n) /\ AheadOf(s, q, t, o) \in SUBSET Nat /\ F \in SUBSET Nat /\ k \in Nat /\ n \in Nat
  <2>1. Ranked(k, o, Queued(s, q), t, n)
    BY DEF Sound
  <2>2. RankTypes(k, o, Queued(s, q), t, n) /\ AheadOf(s, q, t, o) \in SUBSET Nat /\ F \in SUBSET Nat
    BY <2>1, AheadNumbers
  <2> QED BY <2>2 DEF SoundTypes
<1>2. /\ Ranked(x, rest, Queued(s, q), t, n) /\ k < x /\ x <= n
      /\ \A y \in M : x < y
  BY <1>1, RankSent DEF Sound
<1>3. x \in Nat /\ Elems(o) = {x} \cup Elems(rest)
  BY ElemsOfSeq DEF SoundTypes
<1> HIDE DEF x, rest
<1>4. AheadOf(s, q, t, o) = {x} \cup M /\ AheadOf(s, q, t, rest) = M
  BY <1>3 DEF AheadOf
<1>5. Gapless(k, {x} \cup M, F, s) /\ M \in SUBSET Nat
  BY <1>1, <1>4 DEF Sound
<1> HIDE DEF M
<1>6. Gapless(x, M, F, s)
  BY <1>1, <1>2, <1>3, <1>5, GapSent
<1>7. NextFor(k, F, x)
  BY <1>1, <1>2, <1>3, <1>5, FirstIsNext
<1>8. FitsPlace(p, s, q, t, rest, h)
  BY DEF Sound, FitsPlace, SoundTypes
<1>9. Sound(p, s, q, t, rest, h, x, n, F)
  BY <1>2, <1>4, <1>6, <1>8 DEF Sound
<1>10. x \in 1..n
  BY <1>1, <1>2, <1>3
<1> QED BY <1>7, <1>9, <1>10 DEF x, rest

\* The first event of the queue is sent.
LEMMA SoundSentLive ==
    ASSUME NEW s, NEW q, NEW t, NEW o, NEW h, NEW k, NEW n, NEW F, SoundTypes("streaming", s, q, t, o, h, k, n, F),
           Sound("streaming", s, q, t, o, h, k, n, F), q # <<>>, Head(q) # 0, StreamMax \in Nat \ {0}
    PROVE  /\ Sound("streaming", s, Tail(q), t, o, h, Head(q), n, F)
           /\ NextFor(k, F, Head(q)) /\ Head(q) \in 1..n
<1> DEFINE x == Head(q)  rest == Tail(q)  M == Elems(rest)
<1>1. s = "live" /\ t = <<>> /\ o = <<>>
  <2>1. /\ s \in {"live", "closed"} /\ (s = "closed" => q = <<0>>)
        /\ s # "bootstrap" => t = <<>>
        /\ o = <<>>
    BY DEF Sound, FitsPlace
  <2> QED BY <2>1
<1>2. \A r : Queued(s, r) = r
  BY <1>1 DEF Queued
<1>3. /\ RankTypes(k, q, <<>>, t, n) /\ Ranked(k, q, <<>>, t, n)
      /\ F \in SUBSET Nat /\ k \in Nat /\ n \in Nat
  <2>1. Ranked(k, o, q, t, n)
    BY <1>2 DEF Sound
  <2>2. F \in SUBSET Nat
    BY AheadNumbers DEF Sound
  <2> QED BY <2>1, <2>2, RankShort, NoElems DEF RankTypes, SoundTypes
<1>4. /\ Ranked(x, rest, <<>>, t, n) /\ k < x /\ x <= n
      /\ \A y \in M : x < y
  BY <1>3, RankSent
<1>5. x \in Nat /\ Elems(q) = {x} \cup Elems(rest) /\ M \in SUBSET Nat /\ Len(rest) <= StreamMax
  <2>1. q \in Seq(Nat)
    BY DEF SoundTypes
  <2>2. Tail(q) \in Seq(Nat) /\ Len(rest) = Len(q) - 1 /\ Len(q) \in Nat
    BY <2>1, TakeFirst
  <2>3. Len(q) <= StreamMax
    BY DEF Sound
  <2>4. Len(rest) <= StreamMax
    BY <2>2, <2>3
  <2> QED BY <2>1, <2>2, <2>4, ElemsOfSeq
<1> HIDE DEF x, rest
<1>6. AheadOf(s, q, t, o) = {x} \cup M /\ AheadOf(s, rest, t, o) = M
  <2>1. Queued(s, rest) = rest /\ Queued(s, q) = q
    BY <1>2
  <2> QED BY <1>1, <1>5, <2>1, NoElems DEF AheadOf
<1>7. Gapless(k, {x} \cup M, F, s)
  BY <1>6 DEF Sound
<1>8. Ranked(x, o, rest, t, n)
  BY <1>1, <1>4, NoElems DEF Ranked
<1> HIDE DEF M
<1>9. Gapless(x, M, F, s)
  BY <1>3, <1>4, <1>5, <1>7, GapSent
<1>10. NextFor(k, F, x)
  BY <1>3, <1>4, <1>5, <1>7, FirstIsNext
<1>11. FitsPlace("streaming", s, rest, t, o, h)
  BY <1>1 DEF FitsPlace
<1>12. Sound("streaming", s, rest, t, o, h, x, n, F)
  BY <1>2, <1>5, <1>6, <1>8, <1>9, <1>11 DEF Sound
<1>13. x \in 1..n
  BY <1>3, <1>4, <1>5
<1> QED BY <1>10, <1>12, <1>13 DEF x, rest

\* The bootstrap is over: the tail is next, then the queue.
LEMMA SoundFinished ==
    ASSUME NEW s, NEW q, NEW t, NEW o, NEW h, NEW k, NEW n, NEW F, SoundTypes("replaying", s, q, t, o, h, k, n, F),
           Sound("replaying", s, q, t, o, h, k, n, F), o = <<>>, s \in Lasting
    PROVE  Sound("flushing", "live", q, <<>>, t, h, k, n, F)
<1>1. s = "bootstrap" /\ q = <<>>
  BY DEF Sound, FitsPlace, Lasting
<1>2. Queued("live", q) = <<>> /\ Queued(s, q) = <<>>
  BY <1>1 DEF Queued
<1>3. AheadOf("live", q, <<>>, t) = Elems(t) /\ AheadOf(s, q, t, o) = Elems(t)
  BY <1>2, NoElems DEF AheadOf
<1>4. Ranked(k, t, <<>>, <<>>, n)
  BY RankShort DEF Sound
<1>5. Gapless(k, Elems(t), F, "live")
  BY <1>3 DEF Sound, Gapless, Lasting
<1>6. FitsPlace("flushing", "live", q, <<>>, t, h)
  BY <1>1 DEF FitsPlace
<1> QED BY <1>2, <1>3, <1>4, <1>5, <1>6 DEF Sound

LEMMA SoundFlushed ==
    ASSUME NEW s, NEW q, NEW t, NEW h, NEW k, NEW n, NEW F, Sound("flushing", s, q, t, <<>>, h, k, n, F)
    PROVE  Sound("streaming", s, q, t, <<>>, h, k, n, F)
BY DEF Sound, FitsPlace

StreamAssumed == Stream!SseAssumption

LEMMA ClientTyped ==
    ASSUME StreamTypes, NEW c \in Clients
    PROVE  /\ SoundTypes(streamPc[c], sub[c], queue[c], tail[c], outbox[c], hello[c], cursor[c], Len(log), OwedTo(c))
           /\ Len(log) \in Nat
BY DEF StreamTypes, SoundTypes, OwedTo

\* A step of the stream of c.
MovesTo(c, p, s, q, t, o, k) ==
    /\ log' = log /\ hello' = hello /\ ended' = ended
    /\ streamPc' = [streamPc EXCEPT ![c] = p] /\ sub' = [sub EXCEPT ![c] = s]
    /\ queue' = [queue EXCEPT ![c] = q] /\ tail' = [tail EXCEPT ![c] = t]
    /\ outbox' = [outbox EXCEPT ![c] = o] /\ cursor' = [cursor EXCEPT ![c] = k]

LEMMA Kept ==
    ASSUME StreamTypes, NEW c \in Clients
    PROVE  /\ streamPc = [streamPc EXCEPT ![c] = streamPc[c]] /\ sub = [sub EXCEPT ![c] = sub[c]]
           /\ queue = [queue EXCEPT ![c] = queue[c]] /\ tail = [tail EXCEPT ![c] = tail[c]]
           /\ outbox = [outbox EXCEPT ![c] = outbox[c]] /\ cursor = [cursor EXCEPT ![c] = cursor[c]]
BY DEF StreamTypes

LEMMA MoveKeeps ==
    ASSUME StreamInv, NEW c \in Clients, NEW p \in Stream!StreamStates, NEW s \in Stream!SubStates,
           NEW q \in Seq(Nat), NEW t \in Seq(Nat), NEW o \in Seq(Nat), NEW k \in 0..Len(log),
           MovesTo(c, p, s, q, t, o, k), oldest' \in 1..(Len(log) + 1), breaks' \in 0..MaxBreaks,
           Sound(p, s, q, t, o, hello[c], k, Len(log), OwedTo(c))
    PROVE  StreamInv'
<1>1. StreamTypes'
  <2>1. queue' \in [Clients -> Seq(Nat)] /\ tail' \in [Clients -> Seq(Nat)] /\ outbox' \in [Clients -> Seq(Nat)]
    BY DEF StreamInv, StreamTypes, MovesTo
  <2>2. /\ log' \in Seq(Stream!Events) /\ oldest' \in 1..(Len(log') + 1)
        /\ sub' \in [Clients -> Stream!SubStates] /\ streamPc' \in [Clients -> Stream!StreamStates]
        /\ hello' \in [Clients -> 0..Len(log')] /\ cursor' \in [Clients -> 0..Len(log')]
        /\ breaks' \in 0..MaxBreaks
    BY DEF StreamInv, StreamTypes, MovesTo
  <2>3. ended' \in BOOLEAN
    BY Zenon DEF StreamInv, StreamTypes, MovesTo
  <2> QED BY <2>1, <2>2, <2>3 DEF StreamTypes
<1>2. ASSUME NEW d \in Clients PROVE ClientSound(d)'
  <2>1. OwedTo(d)' = OwedTo(d) /\ Len(log') = Len(log) /\ hello'[d] = hello[d]
    BY DEF MovesTo, OwedTo
  <2>2. CASE d = c
    <3>1. /\ streamPc'[d] = p /\ sub'[d] = s /\ cursor'[d] = k
          /\ queue'[d] = q /\ tail'[d] = t /\ outbox'[d] = o
      BY <2>2, Zenon DEF StreamInv, StreamTypes, MovesTo
    <3> QED BY <2>1, <2>2, <3>1 DEF ClientSound
  <2>3. CASE d # c
    <3>1. /\ streamPc'[d] = streamPc[d] /\ sub'[d] = sub[d] /\ cursor'[d] = cursor[d]
          /\ queue'[d] = queue[d] /\ tail'[d] = tail[d] /\ outbox'[d] = outbox[d]
      BY <2>3, Zenon DEF StreamInv, StreamTypes, MovesTo
    <3> QED BY <2>1, <3>1 DEF ClientSound, StreamInv
  <2> QED BY <2>2, <2>3
<1> QED BY <1>1, <1>2, Zenon DEF StreamInv

\* What a step of the stream is for the readers of the log.
LogStep == [Stream!Log!LogNext]_(Stream!Log!logVars)

LEMMA SendIsRead ==
    ASSUME StreamInv, NEW c \in Clients, NEW h \in 1..Len(log), NextFor(cursor[c], OwedTo(c), h),
           log' = log, cursor' = [cursor EXCEPT ![c] = h]
    PROVE  LogStep
<1>1. h \in DOMAIN log /\ h > cursor[c] /\ Len(log) \in Nat /\ cursor[c] \in Nat
  BY DEF StreamInv, StreamTypes, NextFor
<1>2. ASSUME cursor[c] > 0, NEW j \in (cursor[c] + 1)..(h - 1) PROVE ~Stream!Owed(c, log[j])
  <2>1. j \in 1..Len(log) /\ j \notin OwedTo(c)
    BY <1>1, <1>2 DEF NextFor
  <2> QED BY <2>1 DEF OwedTo
<1> QED BY <1>1, <1>2 DEF LogStep, Stream!Log!LogNext, Stream!Log!Read

LEMMA SameLog ==
    ASSUME log' = log, cursor' = cursor
    PROVE  LogStep
BY DEF LogStep, Stream!Log!logVars

\* The end of a stream, with a cursor of the client's.
LEMMA EndKeeps ==
    ASSUME StreamAssumed, StreamInv, NEW c \in Clients, Stream!EndStream(c), NEW k \in 0..Len(log),
           cursor' = [cursor EXCEPT ![c] = k], UNCHANGED <<log, oldest, ended>>, breaks' \in 0..MaxBreaks
    PROVE  StreamInv'
<1>1. MovesTo(c, "off", "none", <<>>, <<>>, <<>>, k)
  BY DEF MovesTo, Stream!EndStream
<1>2. Sound("off", "none", <<>>, <<>>, <<>>, hello[c], k, Len(log), OwedTo(c))
  BY SoundEnded DEF StreamAssumed, Stream!SseAssumption
<1>3. oldest' \in 1..(Len(log) + 1)
  BY DEF StreamInv, StreamTypes
<1>4. "off" \in Stream!StreamStates /\ "none" \in Stream!SubStates /\ <<>> \in Seq(Nat)
  BY DEF Stream!StreamStates, Stream!SubStates
<1> QED BY <1>1, <1>2, <1>3, <1>4, MoveKeeps

LEMMA DrainKeeps ==
    ASSUME StreamAssumed, StreamInv, NEW c \in Clients, Stream!Drain(c)
    PROVE  StreamInv' /\ LogStep
<1> DEFINE q == queue[c]  o == outbox[c]
<1>0. LogStep
  BY SameLog DEF Stream!Drain
<1>1. streamPc[c] = "draining" /\ q # <<>> /\ UNCHANGED <<log, oldest, ended, cursor, breaks>>
  BY DEF Stream!Drain
<1>2. CASE Head(q) = 0
  <2>1. cursor[c] \in 0..Len(log) /\ cursor' = [cursor EXCEPT ![c] = cursor[c]] /\ breaks' \in 0..MaxBreaks
    BY <1>1, Kept DEF StreamInv, StreamTypes
  <2>2. Stream!EndStream(c)
    BY <1>2 DEF Stream!Drain
  <2> QED BY <1>0, <1>1, <2>1, <2>2, EndKeeps
<1>3. CASE Head(q) # 0
  <2> DEFINE p == IF Head(q) = hello[c] THEN "replaying" ELSE "draining"
  <2>1. MovesTo(c, p, sub[c], Tail(q), tail[c], Append(o, Head(q)), cursor[c])
    BY <1>1, <1>3, Kept DEF Stream!Drain, MovesTo, StreamInv
  <2>2. SoundTypes("draining", sub[c], q, tail[c], o, hello[c], cursor[c], Len(log), OwedTo(c))
    BY <1>1, ClientTyped DEF StreamInv
  <2>3. Sound("draining", sub[c], q, tail[c], o, hello[c], cursor[c], Len(log), OwedTo(c))
    BY <1>1 DEF StreamInv, ClientSound
  <2>4. Sound(p, sub[c], Tail(q), tail[c], Append(o, Head(q)), hello[c], cursor[c], Len(log), OwedTo(c))
    BY <1>1, <1>3, <2>2, <2>3, SoundDrained DEF StreamAssumed, Stream!SseAssumption
  <2>5. Tail(q) \in Seq(Nat) /\ Append(o, Head(q)) \in Seq(Nat) /\ tail[c] \in Seq(Nat)
    BY <1>1, <2>2, ElemsOfSeq DEF SoundTypes
  <2>6. /\ sub[c] \in Stream!SubStates /\ cursor[c] \in 0..Len(log) /\ p \in Stream!StreamStates
        /\ oldest' \in 1..(Len(log) + 1) /\ breaks' \in 0..MaxBreaks
    BY <1>1 DEF StreamInv, StreamTypes, Stream!StreamStates
  <2> HIDE DEF p, q, o
  <2> QED BY <1>0, <2>1, <2>4, <2>5, <2>6, MoveKeeps
<1> QED BY <1>2, <1>3

LEMMA PrefixKeeps ==
    ASSUME StreamAssumed, StreamInv, NEW c \in Clients, Stream!SendPrefix(c)
    PROVE  StreamInv' /\ LogStep
<1> DEFINE o == outbox[c]
<1>1. streamPc[c] = "replaying" /\ o # <<>> /\ UNCHANGED <<log, oldest, ended, breaks>>
  BY DEF Stream!SendPrefix
<1>2. MovesTo(c, streamPc[c], sub[c], queue[c], tail[c], Tail(o), Head(o))
  BY Kept DEF Stream!SendPrefix, Stream!Send, MovesTo, StreamInv, Stream!subVars
<1>3. SoundTypes(streamPc[c], sub[c], queue[c], tail[c], o, hello[c], cursor[c], Len(log), OwedTo(c))
  BY ClientTyped DEF StreamInv
<1>4. Sound(streamPc[c], sub[c], queue[c], tail[c], o, hello[c], cursor[c], Len(log), OwedTo(c))
  BY DEF StreamInv, ClientSound
<1>5. /\ Sound(streamPc[c], sub[c], queue[c], tail[c], Tail(o), hello[c], Head(o), Len(log), OwedTo(c))
      /\ NextFor(cursor[c], OwedTo(c), Head(o)) /\ Head(o) \in 1..Len(log)
  BY <1>1, <1>3, <1>4, SoundSent
<1>6. Tail(o) \in Seq(Nat) /\ queue[c] \in Seq(Nat) /\ tail[c] \in Seq(Nat)
  BY <1>1, <1>3, ElemsOfSeq DEF SoundTypes
<1>7. /\ sub[c] \in Stream!SubStates /\ streamPc[c] \in Stream!StreamStates
      /\ oldest' \in 1..(Len(log) + 1) /\ breaks' \in 0..MaxBreaks /\ Len(log) \in Nat
  BY <1>1 DEF StreamInv, StreamTypes
<1>8. log' = log /\ cursor' = [cursor EXCEPT ![c] = Head(o)]
  BY <1>2 DEF MovesTo
<1> HIDE DEF o
<1>9. LogStep
  BY <1>5, <1>8, SendIsRead
<1>10. Head(o) \in 0..Len(log)
  BY <1>5, <1>7
<1> QED BY <1>2, <1>5, <1>6, <1>7, <1>9, <1>10, MoveKeeps

LEMMA FinishKeeps ==
    ASSUME StreamAssumed, StreamInv, NEW c \in Clients, Stream!FinishBootstrap(c)
    PROVE  StreamInv' /\ LogStep
<1>0. LogStep
  BY SameLog DEF Stream!FinishBootstrap
<1>1. streamPc[c] = "replaying" /\ outbox[c] = <<>> /\ UNCHANGED <<log, oldest, ended, cursor, breaks>>
  BY DEF Stream!FinishBootstrap
<1>2. CASE ~Stream!Registered(c) \/ log[hello[c]].ended
  <2>1. cursor[c] \in 0..Len(log) /\ cursor' = [cursor EXCEPT ![c] = cursor[c]] /\ breaks' \in 0..MaxBreaks
    BY <1>1, Kept DEF StreamInv, StreamTypes
  <2>2. Stream!EndStream(c)
    BY <1>2 DEF Stream!FinishBootstrap
  <2> QED BY <1>0, <1>1, <2>1, <2>2, EndKeeps
<1>3. CASE ~(~Stream!Registered(c) \/ log[hello[c]].ended)
  <2>1. MovesTo(c, "flushing", "live", queue[c], <<>>, tail[c], cursor[c])
    BY <1>1, <1>3, Kept DEF Stream!FinishBootstrap, MovesTo, StreamInv
  <2>2. SoundTypes("replaying", sub[c], queue[c], tail[c], outbox[c], hello[c], cursor[c], Len(log), OwedTo(c))
    BY <1>1, ClientTyped DEF StreamInv
  <2>3. Sound("replaying", sub[c], queue[c], tail[c], outbox[c], hello[c], cursor[c], Len(log), OwedTo(c))
    BY <1>1 DEF StreamInv, ClientSound
  <2>4. sub[c] \in Lasting
    BY <1>3 DEF Stream!Registered, Lasting
  <2>5. Sound("flushing", "live", queue[c], <<>>, tail[c], hello[c], cursor[c], Len(log), OwedTo(c))
    BY <1>1, <2>2, <2>3, <2>4, SoundFinished
  <2>6. queue[c] \in Seq(Nat) /\ tail[c] \in Seq(Nat) /\ <<>> \in Seq(Nat)
    BY <2>2 DEF SoundTypes
  <2>7. /\ "live" \in Stream!SubStates /\ cursor[c] \in 0..Len(log) /\ "flushing" \in Stream!StreamStates
        /\ oldest' \in 1..(Len(log) + 1) /\ breaks' \in 0..MaxBreaks
    BY <1>1 DEF StreamInv, StreamTypes, Stream!StreamStates, Stream!SubStates
  <2> QED BY <1>0, <2>1, <2>5, <2>6, <2>7, MoveKeeps
<1> QED BY <1>2, <1>3

LEMMA TailKeeps ==
    ASSUME StreamAssumed, StreamInv, NEW c \in Clients, Stream!SendTail(c)
    PROVE  StreamInv' /\ LogStep
<1> DEFINE o == outbox[c]
<1>1. streamPc[c] = "flushing" /\ UNCHANGED <<log, oldest, ended, breaks>>
  BY DEF Stream!SendTail
<1>2. SoundTypes(streamPc[c], sub[c], queue[c], tail[c], o, hello[c], cursor[c], Len(log), OwedTo(c))
  BY ClientTyped DEF StreamInv
<1>3. Sound(streamPc[c], sub[c], queue[c], tail[c], o, hello[c], cursor[c], Len(log), OwedTo(c))
  BY DEF StreamInv, ClientSound
<1>4. /\ sub[c] \in Stream!SubStates /\ streamPc[c] \in Stream!StreamStates /\ cursor[c] \in 0..Len(log)
      /\ "streaming" \in Stream!StreamStates
      /\ oldest' \in 1..(Len(log) + 1) /\ breaks' \in 0..MaxBreaks /\ Len(log) \in Nat
  BY <1>1 DEF StreamInv, StreamTypes, Stream!StreamStates
<1>5. queue[c] \in Seq(Nat) /\ tail[c] \in Seq(Nat) /\ o \in Seq(Nat) /\ <<>> \in Seq(Nat)
  BY <1>2 DEF SoundTypes
<1>6. CASE o = <<>>
  <2>1. MovesTo(c, "streaming", sub[c], queue[c], tail[c], <<>>, cursor[c])
    BY <1>1, <1>6, Kept DEF Stream!SendTail, MovesTo, StreamInv, Stream!subVars
  <2>2. Sound("streaming", sub[c], queue[c], tail[c], <<>>, hello[c], cursor[c], Len(log), OwedTo(c))
    BY <1>1, <1>3, <1>6, SoundFlushed
  <2>3. LogStep
    BY <1>1, <1>6, SameLog DEF Stream!SendTail
  <2> QED BY <1>4, <1>5, <2>1, <2>2, <2>3, MoveKeeps
<1>7. CASE o # <<>>
  <2>1. /\ Sound(streamPc[c], sub[c], queue[c], tail[c], Tail(o), hello[c], Head(o), Len(log), OwedTo(c))
        /\ NextFor(cursor[c], OwedTo(c), Head(o)) /\ Head(o) \in 1..Len(log)
    BY <1>2, <1>3, <1>7, SoundSent
  <2>2. Tail(o) \in Seq(Nat)
    BY <1>5, <1>7, ElemsOfSeq
  <2>3. cursor' = [cursor EXCEPT ![c] = Head(o)]
    BY <1>7 DEF Stream!SendTail, Stream!Send
  <2>4. CASE log[Head(o)].ended
    <3>1. Stream!EndStream(c)
      BY <1>7, <2>4 DEF Stream!SendTail
    <3> HIDE DEF o
    <3>2. Head(o) \in 0..Len(log)
      BY <1>4, <2>1
    <3> QED BY <1>1, <1>4, <2>1, <2>3, <3>1, <3>2, EndKeeps, SendIsRead
  <2>5. CASE ~log[Head(o)].ended
    <3>1. MovesTo(c, streamPc[c], sub[c], queue[c], tail[c], Tail(o), Head(o))
      BY <1>1, <1>7, <2>3, <2>5, Kept DEF Stream!SendTail, MovesTo, StreamInv, Stream!subVars
    <3> HIDE DEF o
    <3>2. Head(o) \in 0..Len(log)
      BY <1>4, <2>1
    <3>3. StreamInv'
      BY <1>4, <1>5, <2>1, <2>2, <3>1, <3>2, MoveKeeps
    <3> QED BY <1>1, <2>1, <2>3, <3>3, SendIsRead
  <2> QED BY <2>4, <2>5
<1> QED BY <1>6, <1>7

LEMMA LiveKeeps ==
    ASSUME StreamAssumed, StreamInv, NEW c \in Clients, Stream!SendLive(c)
    PROVE  StreamInv' /\ LogStep
<1> DEFINE q == queue[c]
<1>1. streamPc[c] = "streaming" /\ q # <<>> /\ UNCHANGED <<log, oldest, ended, breaks>>
  BY DEF Stream!SendLive
<1>2. SoundTypes("streaming", sub[c], q, tail[c], outbox[c], hello[c], cursor[c], Len(log), OwedTo(c))
  BY <1>1, ClientTyped DEF StreamInv
<1>3. Sound("streaming", sub[c], q, tail[c], outbox[c], hello[c], cursor[c], Len(log), OwedTo(c))
  BY <1>1 DEF StreamInv, ClientSound
<1>4. /\ sub[c] \in Stream!SubStates /\ "streaming" \in Stream!StreamStates /\ cursor[c] \in 0..Len(log)
      /\ oldest' \in 1..(Len(log) + 1) /\ breaks' \in 0..MaxBreaks /\ Len(log) \in Nat
  BY <1>1 DEF StreamInv, StreamTypes, Stream!StreamStates
<1>5. q \in Seq(Nat) /\ tail[c] \in Seq(Nat) /\ outbox[c] \in Seq(Nat)
  BY <1>2 DEF SoundTypes
<1>6. CASE Head(q) = 0
  <2>1. Stream!EndStream(c) /\ cursor' = cursor /\ cursor' = [cursor EXCEPT ![c] = cursor[c]]
    BY <1>6, Kept DEF Stream!SendLive, StreamInv
  <2> QED BY <1>1, <1>4, <2>1, EndKeeps, SameLog
<1>7. CASE Head(q) # 0
  <2>1. /\ Sound("streaming", sub[c], Tail(q), tail[c], outbox[c], hello[c], Head(q), Len(log), OwedTo(c))
        /\ NextFor(cursor[c], OwedTo(c), Head(q)) /\ Head(q) \in 1..Len(log)
    BY <1>1, <1>2, <1>3, <1>7, SoundSentLive DEF StreamAssumed, Stream!SseAssumption
  <2>2. Tail(q) \in Seq(Nat)
    BY <1>1, <1>5, ElemsOfSeq
  <2>3. cursor' = [cursor EXCEPT ![c] = Head(q)]
    BY <1>7 DEF Stream!SendLive, Stream!Send
  <2>4. CASE log[Head(q)].ended
    <3>1. Stream!EndStream(c)
      BY <1>7, <2>4 DEF Stream!SendLive
    <3> HIDE DEF q
    <3>2. Head(q) \in 0..Len(log)
      BY <1>4, <2>1
    <3> QED BY <1>1, <1>4, <2>1, <2>3, <3>1, <3>2, EndKeeps, SendIsRead
  <2>5. CASE ~log[Head(q)].ended
    <3>1. MovesTo(c, "streaming", sub[c], Tail(q), tail[c], outbox[c], Head(q))
      BY <1>1, <1>7, <2>3, <2>5, Kept DEF Stream!SendLive, MovesTo, StreamInv, Stream!streamVars
    <3> HIDE DEF q
    <3>2. Head(q) \in 0..Len(log)
      BY <1>4, <2>1
    <3>3. StreamInv'
      BY <1>4, <1>5, <2>1, <2>2, <3>1, <3>2, MoveKeeps
    <3> QED BY <1>1, <2>1, <2>3, <3>3, SendIsRead
  <2> QED BY <2>4, <2>5
<1> QED BY <1>6, <1>7

LEMMA DisconnectKeeps ==
    ASSUME StreamAssumed, StreamInv, NEW c \in Clients, Stream!Disconnect(c)
    PROVE  StreamInv' /\ LogStep
<1>1. Stream!EndStream(c) /\ UNCHANGED <<log, oldest, ended, cursor>>
  BY DEF Stream!Disconnect
<1>2. breaks' \in 0..MaxBreaks
  BY DEF Stream!Disconnect, StreamInv, StreamTypes, StreamAssumed, Stream!SseAssumption
<1>3. cursor[c] \in 0..Len(log) /\ cursor' = [cursor EXCEPT ![c] = cursor[c]]
  BY <1>1, Kept DEF StreamInv, StreamTypes
<1> QED BY <1>1, <1>2, <1>3, EndKeeps, SameLog

\* The client that is told to refresh gives up its cursor.
LEMMA RefreshKeeps ==
    ASSUME StreamAssumed, StreamInv, NEW c \in Clients, Stream!ReplayUnavailable(c)
    PROVE  StreamInv' /\ LogStep
<1>1. /\ streamPc[c] = "off" /\ cursor' = [cursor EXCEPT ![c] = 0] /\ oldest' \in oldest..(Len(log) + 1)
      /\ UNCHANGED <<log, ended, sub, queue, tail, streamPc, outbox, hello, breaks>>
  BY DEF Stream!ReplayUnavailable, Stream!subVars, Stream!streamVars
<1>2. FitsPlace(streamPc[c], sub[c], queue[c], tail[c], outbox[c], hello[c])
  BY DEF StreamInv, ClientSound, Sound
<1>3. sub[c] = "none" /\ queue[c] = <<>> /\ outbox[c] = <<>> /\ tail[c] = <<>>
  BY <1>1, <1>2 DEF FitsPlace
<1>4. MovesTo(c, "off", "none", <<>>, <<>>, <<>>, 0)
  BY <1>1, <1>3, Kept DEF MovesTo, StreamInv
<1>5. Sound("off", "none", <<>>, <<>>, <<>>, hello[c], 0, Len(log), OwedTo(c))
  BY SoundEnded DEF StreamAssumed, Stream!SseAssumption
<1>6. oldest' \in 1..(Len(log) + 1) /\ breaks' \in 0..MaxBreaks /\ 0 \in 0..Len(log)
  BY <1>1 DEF StreamInv, StreamTypes
<1>7. "off" \in Stream!StreamStates /\ "none" \in Stream!SubStates /\ <<>> \in Seq(Nat)
  BY DEF Stream!StreamStates, Stream!SubStates
<1>8. StreamInv'
  BY <1>4, <1>5, <1>6, <1>7, MoveKeeps
<1>9. LogStep
  BY <1>1 DEF LogStep, Stream!Log!LogNext, Stream!Log!Refresh
<1> QED BY <1>8, <1>9

LEMMA LogGrows ==
    ASSUME StreamTypes, NEW e \in Stream!Events, log' = Append(log, e)
    PROVE  /\ log' \in Seq(Stream!Events) /\ Len(log') = Len(log) + 1 /\ Len(log) \in Nat
           /\ \A c \in Clients : /\ Stream!Owed(c, e) => OwedTo(c)' = OwedTo(c) \cup {Len(log) + 1}
                                 /\ ~Stream!Owed(c, e) => OwedTo(c)' = OwedTo(c)
<1> DEFINE n == Len(log) + 1
<1>1. /\ log' \in Seq(Stream!Events) /\ Len(log') = n /\ Len(log) \in Nat
      /\ log'[n] = e /\ \A i \in 1..Len(log) : log'[i] = log[i]
      /\ 1..n = (1..Len(log)) \cup {n} /\ n \notin 1..Len(log)
  BY DEF StreamTypes
<1> HIDE DEF n
<1>2. ASSUME NEW c \in Clients
      PROVE  /\ Stream!Owed(c, e) => OwedTo(c)' = OwedTo(c) \cup {n}
             /\ ~Stream!Owed(c, e) => OwedTo(c)' = OwedTo(c)
  <2>1. OwedTo(c)' = {j \in 1..n : Stream!Owed(c, log'[j])}
    BY <1>1 DEF OwedTo
  <2>2. \A j \in 1..n : \/ j \in 1..Len(log) /\ log'[j] = log[j]
                        \/ j = n /\ log'[j] = e
    BY <1>1, Zenon
  <2>3. \A j \in OwedTo(c)' : j \in OwedTo(c) \/ (j = n /\ Stream!Owed(c, e))
    BY <2>1, <2>2, Zenon DEF OwedTo
  <2>4. \A j \in OwedTo(c) : j \in OwedTo(c)'
    BY <1>1, <2>1, Zenon DEF OwedTo
  <2>5. Stream!Owed(c, e) => n \in OwedTo(c)'
    BY <1>1, <2>1, Zenon
  <2> QED BY <2>3, <2>4, <2>5
<1> QED BY <1>1, <1>2 DEF n

\* The types of what an event, published or made for a subscriber, leaves.
GrowTypes(e) ==
    /\ log' = Append(log, e) /\ oldest' \in 1..(Len(log) + 2) /\ ended' \in BOOLEAN
    /\ sub' \in [Clients -> Stream!SubStates] /\ streamPc' \in [Clients -> Stream!StreamStates]
    /\ queue' \in [Clients -> Seq(Nat)] /\ tail' \in [Clients -> Seq(Nat)] /\ outbox' \in [Clients -> Seq(Nat)]
    /\ hello' \in [Clients -> 0..(Len(log) + 1)] /\ cursor' \in [Clients -> 0..Len(log)]
    /\ breaks' \in 0..MaxBreaks

LEMMA GrowTyped ==
    ASSUME StreamTypes, NEW e \in Stream!Events, GrowTypes(e)
    PROVE  StreamTypes'
<1>1. log' \in Seq(Stream!Events) /\ Len(log') = Len(log) + 1 /\ Len(log) \in Nat
  BY LogGrows DEF GrowTypes
<1>2. oldest' \in 1..(Len(log') + 1) /\ cursor' \in [Clients -> 0..Len(log')]
  BY <1>1 DEF GrowTypes
<1>3. hello' \in [Clients -> 0..Len(log')]
  BY <1>1 DEF GrowTypes
<1> QED BY <1>1, <1>2, <1>3, Zenon DEF StreamTypes, GrowTypes

LEMMA PublishKeeps ==
    ASSUME StreamAssumed, StreamInv, NEW e \in Stream!Events, Stream!Publish(e), ~e.hello, ended' \in BOOLEAN
    PROVE  StreamInv' /\ LogStep
<1> DEFINE n == Len(log) + 1
           Target(c) == Stream!Registered(c) /\ Stream!Concerns(c, e)
           Full(c) == \/ sub[c] = "bootstrap" /\ Len(tail[c]) >= StreamMax
                      \/ sub[c] = "live" /\ Len(queue[c]) >= StreamMax
<1>1. /\ log' = Append(log, e) /\ Stream!Dispatch(n, e)
      /\ oldest' \in oldest..n
      /\ UNCHANGED <<streamPc, outbox, hello, cursor, breaks>>
  BY DEF Stream!Publish, Stream!Prune, Stream!streamVars
<1>2. /\ sub' = [c \in Clients |-> IF Target(c) /\ Full(c) THEN "closed" ELSE sub[c]]
      /\ queue' = [c \in Clients |->
                     IF Target(c) /\ Full(c) THEN <<0>>
                     ELSE IF Target(c) /\ sub[c] = "live" THEN Append(queue[c], n)
                     ELSE queue[c]]
      /\ tail' = [c \in Clients |->
                    IF Target(c) /\ Full(c) THEN <<>>
                    ELSE IF Target(c) /\ sub[c] = "bootstrap" THEN Append(tail[c], n)
                    ELSE tail[c]]
  BY <1>1 DEF Stream!Dispatch
<1>3. /\ Len(log') = n /\ Len(log) \in Nat
      /\ \A c \in Clients : /\ Stream!Owed(c, e) => OwedTo(c)' = OwedTo(c) \cup {n}
                            /\ ~Stream!Owed(c, e) => OwedTo(c)' = OwedTo(c)
  BY <1>1, LogGrows DEF StreamInv
<1>4. n \in Nat /\ StreamMax \in Nat \ {0}
  BY <1>3 DEF StreamAssumed, Stream!SseAssumption
<1> HIDE DEF n, Target, Full
<1>5. \A c \in Clients : Stream!Owed(c, e) <=> Stream!Concerns(c, e)
  BY DEF Stream!Owed
<1>6. StreamTypes'
  <2>1. /\ \A c \in Clients : queue[c] \in Seq(Nat) /\ Append(queue[c], n) \in Seq(Nat)
        /\ \A c \in Clients : tail[c] \in Seq(Nat) /\ Append(tail[c], n) \in Seq(Nat)
        /\ <<0>> \in Seq(Nat) /\ <<>> \in Seq(Nat)
    BY <1>4 DEF StreamInv, StreamTypes
  <2>2. queue' \in [Clients -> Seq(Nat)] /\ tail' \in [Clients -> Seq(Nat)]
    BY <1>2, <2>1, Zenon
  <2>3. sub' \in [Clients -> Stream!SubStates]
    <3>1. "closed" \in Stream!SubStates /\ \A c \in Clients : sub[c] \in Stream!SubStates
      BY DEF StreamInv, StreamTypes, Stream!SubStates
    <3> QED BY <1>2, <3>1, Zenon
  <2>4. /\ oldest' \in 1..(Len(log) + 2) /\ hello' \in [Clients -> 0..(Len(log) + 1)]
        /\ cursor' \in [Clients -> 0..Len(log)] /\ breaks' \in 0..MaxBreaks
    BY <1>1, <1>3 DEF StreamInv, StreamTypes, n
  <2>5. streamPc' \in [Clients -> Stream!StreamStates] /\ outbox' \in [Clients -> Seq(Nat)]
    BY <1>1, Zenon DEF StreamInv, StreamTypes
  <2>6. GrowTypes(e)
    BY <1>1, <2>2, <2>3, <2>4, <2>5, Zenon DEF GrowTypes
  <2> QED BY <2>6, GrowTyped DEF StreamInv
<1>7. ASSUME NEW c \in Clients PROVE ClientSound(c)'
  <2> DEFINE p == streamPc[c]  s == sub[c]  q == queue[c]  t == tail[c]  o == outbox[c]  h == hello[c]
             k == cursor[c]  F == OwedTo(c)
  <2>1. SoundTypes(p, s, q, t, o, h, k, Len(log), F) /\ Sound(p, s, q, t, o, h, k, Len(log), F)
    BY ClientTyped DEF StreamInv, ClientSound
  <2>2. streamPc'[c] = p /\ outbox'[c] = o /\ hello'[c] = h /\ cursor'[c] = k
    BY <1>1
  <2>3. CASE Target(c) /\ Full(c)
    <3>1. sub'[c] = "closed" /\ queue'[c] = <<0>> /\ tail'[c] = <<>>
      BY <1>2, <2>3, Zenon
    <3>2. OwedTo(c)' = F \cup {n} /\ s \in Lasting
      BY <1>3, <1>5, <2>3 DEF Target, Stream!Registered, Lasting
    <3>3. Sound(p, "closed", <<0>>, <<>>, o, h, k, n, F \cup {n})
      BY <1>4, <2>1, <3>2, SoundClosed DEF n
    <3> QED BY <1>3, <2>2, <3>1, <3>2, <3>3 DEF ClientSound
  <2>4. CASE Target(c) /\ ~Full(c) /\ s = "live"
    <3>1. sub'[c] = s /\ queue'[c] = Append(q, n) /\ tail'[c] = t
      <4>1. s # "bootstrap"
        BY <2>4
      <4> QED BY <1>2, <2>4, <4>1, Zenon
    <3>2. OwedTo(c)' = F \cup {n}
      BY <1>3, <1>5, <2>4 DEF Target
    <3>3. Len(q) < StreamMax
      BY <1>4, <2>1, <2>4 DEF Full, SoundTypes
    <3>4. Sound(p, s, Append(q, n), t, o, h, k, n, F \cup {n})
      <4>1. SoundTypes(p, "live", q, t, o, h, k, Len(log), F) /\ Sound(p, "live", q, t, o, h, k, Len(log), F)
        BY <2>1, <2>4
      <4>2. Sound(p, "live", Append(q, n), t, o, h, k, n, F \cup {n})
        BY <1>4, <3>3, <4>1, SoundQueued DEF n
      <4> QED BY <2>4, <4>2
    <3> QED BY <1>3, <2>2, <3>1, <3>2, <3>4 DEF ClientSound
  <2>5. CASE Target(c) /\ ~Full(c) /\ s = "bootstrap"
    <3>1. sub'[c] = s /\ queue'[c] = q /\ tail'[c] = Append(t, n)
      <4>1. s # "live"
        BY <2>5
      <4> QED BY <1>2, <2>5, <4>1, Zenon
    <3>2. OwedTo(c)' = F \cup {n}
      BY <1>3, <1>5, <2>5 DEF Target
    <3>4. Sound(p, s, q, Append(t, n), o, h, k, n, F \cup {n})
      <4>1. SoundTypes(p, "bootstrap", q, t, o, h, k, Len(log), F) /\ Sound(p, "bootstrap", q, t, o, h, k, Len(log), F)
        BY <2>1, <2>5
      <4>2. Sound(p, "bootstrap", q, Append(t, n), o, h, k, n, F \cup {n})
        BY <4>1, SoundTail DEF n
      <4> QED BY <2>5, <4>2
    <3> QED BY <1>3, <2>2, <3>1, <3>2, <3>4 DEF ClientSound
  <2>6. CASE ~Target(c)
    <3>1. sub'[c] = s /\ queue'[c] = q /\ tail'[c] = t
      BY <1>2, <2>6, Zenon
    <3>2. Sound(p, s, q, t, o, h, k, n, F) /\ (s \notin Lasting => Sound(p, s, q, t, o, h, k, n, F \cup {n}))
      BY <2>1, SoundLater DEF n
    <3>3. OwedTo(c)' = F \/ (OwedTo(c)' = F \cup {n} /\ s \notin Lasting)
      BY <1>3, <1>5, <2>6 DEF Target, Stream!Registered, Lasting
    <3> QED BY <1>3, <2>2, <3>1, <3>2, <3>3 DEF ClientSound
  <2>7. Target(c) => s = "live" \/ s = "bootstrap"
    BY DEF Target, Stream!Registered
  <2> QED BY <2>3, <2>4, <2>5, <2>6, <2>7
<1>8. LogStep
  BY <1>1 DEF LogStep, Stream!Log!LogNext, Stream!Log!Write
<1> QED BY <1>6, <1>7, <1>8, Zenon DEF StreamInv

LEMMA SubscribeKeeps ==
    ASSUME StreamAssumed, StreamInv, NEW c \in Clients, Stream!Subscribe(c)
    PROVE  StreamInv' /\ LogStep
<1> DEFINE n == Len(log) + 1  e == [topic |-> "status", ended |-> ended, hello |-> TRUE]  k == cursor[c]
<1>1. PICK first \in oldest..n :
         LET replay == IF k = 0 THEN <<>> ELSE Stream!Replay(c, first)
         IN  /\ k = 0 => first = oldest
             /\ k > 0 => Stream!Retained(c, first)
             /\ Stream!Fits(c, replay)
             /\ \E kept \in first..n : kept > n - BufferMax /\ oldest' = kept
             /\ queue' = [queue EXCEPT ![c] = Append(replay, n)]
  BY DEF Stream!Subscribe
<1> DEFINE r == IF k = 0 THEN <<>> ELSE Stream!Replay(c, first)
           S == IF k = 0 THEN {} ELSE Stream!Missed(c, first)
<1>2. /\ streamPc[c] = "off" /\ log' = Append(log, e)
      /\ sub' = [sub EXCEPT ![c] = "bootstrap"] /\ tail' = [tail EXCEPT ![c] = <<>>]
      /\ streamPc' = [streamPc EXCEPT ![c] = "draining"] /\ hello' = [hello EXCEPT ![c] = n]
      /\ UNCHANGED <<ended, outbox, cursor, breaks>>
  BY DEF Stream!Subscribe
<1>3. e \in Stream!Events /\ \A d \in Clients : ~Stream!Owed(d, e)
  <2>1. ended \in BOOLEAN
    BY DEF StreamInv, StreamTypes
  <2> QED BY <2>1, Zenon DEF Stream!Events, Stream!Owed
<1> HIDE DEF e
<1>4. /\ Len(log') = n /\ Len(log) \in Nat /\ n \in Nat
      /\ \A d \in Clients : OwedTo(d)' = OwedTo(d)
  BY <1>2, <1>3, LogGrows DEF StreamInv
<1>5. /\ queue' = [queue EXCEPT ![c] = Append(r, n)] /\ Stream!Fits(c, r)
      /\ k > 0 => Stream!Retained(c, first)
      /\ oldest' \in first..n /\ first \in 1..n
  <2>1. first \in 1..n
    BY <1>1, <1>4 DEF StreamInv, StreamTypes
  <2> QED BY <1>1, <2>1
<1>6. k \in Nat /\ k <= Len(log) /\ OwedTo(c) \in SUBSET (1..Len(log)) /\ StreamMax \in Nat \ {0}
  BY <1>4 DEF StreamInv, StreamTypes, OwedTo, StreamAssumed, Stream!SseAssumption
<1>7. S \in SUBSET (1..Len(log)) /\ (k = 0 => S = {}) /\ \A x \in S : k < x
  BY <1>4, <1>5, <1>6 DEF Stream!Missed
<1>8. k > 0 => \A j \in OwedTo(c) : k < j => j \in S
  <2> SUFFICES ASSUME k > 0, NEW j \in OwedTo(c), k < j PROVE j \in Stream!Missed(c, first)
    BY <1>6
  <2>1. j \in 1..Len(log) /\ Stream!Concerns(c, log[j])
    BY DEF OwedTo, Stream!Owed
  <2>2. k = Len(log) \/ k >= first - 1
    BY <1>5 DEF Stream!Retained
  <2>3. j \in first..Len(log)
    BY <1>4, <1>5, <1>6, <2>1, <2>2
  <2> QED BY <2>1, <2>3 DEF Stream!Missed
<1>9. r \in Seq(Nat) /\ Ascending(r) /\ Elems(r) = S
  <2>1. CASE k = 0
    BY <2>1, NoElems DEF Ascending
  <2>2. CASE k # 0
    <3>1. S = Stream!Missed(c, first) /\ r = Stream!InOrder(S)
      BY <2>2 DEF Stream!Replay
    <3> HIDE DEF S, r
    <3> QED BY <1>4, <1>7, <3>1, InOrderLists
  <2> QED BY <2>1, <2>2
<1>10. Len(r) + 1 <= StreamMax
  <2>1. CASE k = 0
    BY <1>6, <2>1
  <2>2. CASE k > 0
    BY <1>5, <2>2 DEF Stream!Fits
  <2> QED BY <1>6, <2>1, <2>2
<1> HIDE DEF r, S
<1>11. Sound("draining", "bootstrap", Append(r, n), <<>>, <<>>, n, k, n, OwedTo(c))
  BY <1>4, <1>6, <1>7, <1>8, <1>9, <1>10, SoundSubscribed
<1>12. outbox[c] = <<>>
  <2>1. FitsPlace(streamPc[c], sub[c], queue[c], tail[c], outbox[c], hello[c])
    BY DEF StreamInv, ClientSound, Sound
  <2> QED BY <1>2, <2>1 DEF FitsPlace
<1>13. StreamTypes'
  <2>1. Append(r, n) \in Seq(Nat) /\ <<>> \in Seq(Nat)
    BY <1>4, <1>9
  <2>2. queue' \in [Clients -> Seq(Nat)] /\ tail' \in [Clients -> Seq(Nat)] /\ outbox' \in [Clients -> Seq(Nat)]
    BY <1>2, <1>5, <2>1 DEF StreamInv, StreamTypes
  <2>3. sub' \in [Clients -> Stream!SubStates] /\ streamPc' \in [Clients -> Stream!StreamStates]
    BY <1>2 DEF StreamInv, StreamTypes, Stream!SubStates, Stream!StreamStates
  <2>4. /\ oldest' \in 1..(Len(log) + 2) /\ hello' \in [Clients -> 0..(Len(log) + 1)]
        /\ cursor' \in [Clients -> 0..Len(log)] /\ breaks' \in 0..MaxBreaks
    <3>1. oldest' \in 1..(Len(log) + 2)
      BY <1>4, <1>5
    <3>2. ASSUME NEW d \in Clients PROVE hello'[d] \in 0..(Len(log) + 1)
      <4>1. hello \in [Clients -> 0..Len(log)]
        BY DEF StreamInv, StreamTypes
      <4>2. hello[d] \in 0..Len(log) /\ (hello'[d] = hello[d] \/ hello'[d] = n)
        BY <1>2, <4>1
      <4> QED BY <1>4, <4>2
    <3>3. hello' \in [Clients -> 0..(Len(log) + 1)]
      BY <1>2, <3>2 DEF StreamInv, StreamTypes
    <3> QED BY <1>2, <3>1, <3>3 DEF StreamInv, StreamTypes
  <2>5. ended' \in BOOLEAN
    BY <1>2, Zenon DEF StreamInv, StreamTypes
  <2>6. GrowTypes(e)
    BY <1>2, <2>2, <2>3, <2>4, <2>5, Zenon DEF GrowTypes
  <2> QED BY <1>3, <2>6, GrowTyped DEF StreamInv
<1>14. ASSUME NEW d \in Clients PROVE ClientSound(d)'
  <2>1. OwedTo(d)' = OwedTo(d) /\ cursor'[d] = cursor[d] /\ outbox'[d] = outbox[d]
    BY <1>2, <1>4
  <2>2. CASE d = c
    <3>1. /\ streamPc'[d] = "draining" /\ sub'[d] = "bootstrap" /\ hello'[d] = n
          /\ queue'[d] = Append(r, n) /\ tail'[d] = <<>>
      BY <1>2, <1>5, <2>2, Zenon DEF StreamInv, StreamTypes
    <3> QED BY <1>4, <1>11, <1>12, <2>1, <2>2, <3>1 DEF ClientSound
  <2>3. CASE d # c
    <3>1. /\ streamPc'[d] = streamPc[d] /\ sub'[d] = sub[d] /\ hello'[d] = hello[d]
          /\ queue'[d] = queue[d] /\ tail'[d] = tail[d]
      BY <1>2, <1>5, <2>3, Zenon DEF StreamInv, StreamTypes
    <3>2. Sound(streamPc[d], sub[d], queue[d], tail[d], outbox[d], hello[d], cursor[d], n, OwedTo(d))
      BY ClientTyped, SoundLater DEF StreamInv, ClientSound
    <3> QED BY <1>4, <2>1, <3>1, <3>2 DEF ClientSound
  <2> QED BY <2>2, <2>3
<1>15. LogStep
  BY <1>2, <1>3 DEF LogStep, Stream!Log!LogNext, Stream!Log!Write
<1> QED BY <1>13, <1>14, <1>15, Zenon DEF StreamInv

LEMMA StreamInitInv ==
    ASSUME StreamAssumed, Stream!SseInit
    PROVE  StreamInv /\ Stream!Log!LogInit
<1> USE DEF Stream!SseInit
<1>1. queue \in [Clients -> Seq(Nat)] /\ tail \in [Clients -> Seq(Nat)] /\ outbox \in [Clients -> Seq(Nat)]
  <2>1. <<>> \in Seq(Nat)
    OBVIOUS
  <2> QED BY <2>1, Zenon
<1>2. ended \in BOOLEAN
  BY Zenon
<1>3. StreamTypes
  <2>1. Len(log) = 0 /\ log \in Seq(Stream!Events) /\ oldest \in 1..(Len(log) + 1)
    OBVIOUS
  <2>2. hello \in [Clients -> 0..Len(log)] /\ cursor \in [Clients -> 0..Len(log)]
    BY <2>1
  <2>3. sub \in [Clients -> Stream!SubStates] /\ streamPc \in [Clients -> Stream!StreamStates]
    BY DEF Stream!SubStates, Stream!StreamStates
  <2>4. breaks \in 0..MaxBreaks
    BY DEF StreamAssumed, Stream!SseAssumption
  <2> QED BY <1>1, <1>2, <2>1, <2>2, <2>3, <2>4, Zenon DEF StreamTypes
<1>4. ASSUME NEW c \in Clients PROVE ClientSound(c)
  <2>1. queue[c] = <<>> /\ tail[c] = <<>> /\ outbox[c] = <<>> /\ sub[c] = "none" /\ streamPc[c] = "off"
    BY Zenon
  <2> QED BY <2>1, SoundEnded DEF ClientSound, StreamAssumed, Stream!SseAssumption
<1>5. Stream!Log!LogInit
  BY DEF Stream!Log!LogInit
<1> QED BY <1>3, <1>4, <1>5, Zenon DEF StreamInv

\* Every step keeps the invariant, and is a step of the log or none.
LEMMA StreamNextInv ==
    ASSUME StreamAssumed, StreamInv, [Stream!SseNext]_streamVars
    PROVE  StreamInv' /\ LogStep
<1>1. CASE UNCHANGED streamVars
  <2>1. StreamTypes' = StreamTypes /\ \A c \in Clients : ClientSound(c)' = ClientSound(c)
    BY <1>1 DEF streamVars, StreamTypes, ClientSound, OwedTo
  <2> QED BY <1>1, <2>1, SameLog DEF streamVars, StreamInv
<1>2. ASSUME NEW topic \in Topics, Stream!PublishTopic(topic) PROVE StreamInv' /\ LogStep
  <2> DEFINE e == [topic |-> topic, ended |-> FALSE, hello |-> FALSE]
  <2>1. e \in Stream!Events /\ ~e.hello
    BY DEF Stream!Events
  <2>2. Stream!Publish(e) /\ ended' \in BOOLEAN
    BY <1>2, Zenon DEF Stream!PublishTopic, StreamInv, StreamTypes
  <2> HIDE DEF e
  <2> QED BY <2>1, <2>2, PublishKeeps
<1>3. ASSUME Stream!PublishStatus PROVE StreamInv' /\ LogStep
  <2>1. PICK x \in BOOLEAN : Stream!Publish([topic |-> "status", ended |-> x, hello |-> FALSE]) /\ ended' = x
    BY <1>3, Zenon DEF Stream!PublishStatus
  <2> DEFINE e == [topic |-> "status", ended |-> x, hello |-> FALSE]
  <2>2. e \in Stream!Events /\ ~e.hello
    BY Zenon DEF Stream!Events
  <2>3. Stream!Publish(e) /\ ended' \in BOOLEAN
    BY <2>1, Zenon
  <2> HIDE DEF e
  <2> QED BY <2>2, <2>3, PublishKeeps
<1>4. ASSUME NEW c \in Clients, Stream!Subscribe(c) PROVE StreamInv' /\ LogStep
  BY <1>4, SubscribeKeeps
<1>5. ASSUME NEW c \in Clients, Stream!ReplayUnavailable(c) PROVE StreamInv' /\ LogStep
  BY <1>5, RefreshKeeps
<1>6. ASSUME NEW c \in Clients, Stream!StreamRuns(c) PROVE StreamInv' /\ LogStep
  BY <1>6, DrainKeeps, PrefixKeeps, FinishKeeps, TailKeeps, LiveKeeps DEF Stream!StreamRuns
<1>7. ASSUME NEW c \in Clients, Stream!Disconnect(c) PROVE StreamInv' /\ LogStep
  BY <1>7, DisconnectKeeps
<1> QED BY <1>1, <1>2, <1>3, <1>4, <1>5, <1>6, <1>7 DEF Stream!SseNext

LEMMA StreamIsHonest ==
    ASSUME StreamAssumed, StreamInv
    PROVE  Stream!SseTypeOK /\ Stream!QueueHasRoom
<1>1. ASSUME NEW c \in Clients, NEW s \in {queue[c], tail[c], outbox[c]} PROVE s \in Seq(0..Len(log))
  <2>1. queue[c] \in Seq(Nat) /\ tail[c] \in Seq(Nat) /\ outbox[c] \in Seq(Nat) /\ Len(log) \in Nat /\ cursor[c] \in Nat
    BY DEF StreamInv, StreamTypes
  <2>2. Sound(streamPc[c], sub[c], queue[c], tail[c], outbox[c], hello[c], cursor[c], Len(log), OwedTo(c))
    BY DEF StreamInv, ClientSound
  <2>3. Ranked(cursor[c], outbox[c], Queued(sub[c], queue[c]), tail[c], Len(log))
    BY <2>2 DEF Sound
  <2>4. ASSUME NEW q \in Seq(Nat), \A i \in DOMAIN q : q[i] <= Len(log) PROVE q \in Seq(0..Len(log))
    <3>1. \A i \in 1..Len(q) : q[i] \in 0..Len(log)
      BY <2>1, <2>4
    <3> QED BY <3>1
  <2>5. outbox[c] \in Seq(0..Len(log)) /\ tail[c] \in Seq(0..Len(log))
    BY <2>1, <2>3, <2>4 DEF Ranked
  <2>6. queue[c] \in Seq(0..Len(log))
    <3>1. CASE sub[c] = "closed"
      <4>1. queue[c] = <<0>>
        BY <2>2, <3>1 DEF Sound, FitsPlace
      <4>2. 0 \in 0..Len(log)
        BY <2>1
      <4> QED BY <4>1, <4>2
    <3>2. CASE sub[c] # "closed"
      <4>1. Queued(sub[c], queue[c]) = queue[c]
        BY <3>2 DEF Queued
      <4> QED BY <2>1, <2>3, <2>4, <4>1 DEF Ranked
    <3> QED BY <3>1, <3>2
  <2> QED BY <2>5, <2>6
<1>2. Stream!QueueHasRoom
  BY DEF Stream!QueueHasRoom, StreamInv, ClientSound, Sound
<1> QED BY <1>1, <1>2, Zenon DEF Stream!SseTypeOK, StreamInv, StreamTypes

StreamMoves == [Stream!SseNext]_streamVars

LEMMA StreamStepIs ==
    ASSUME [Next]_vars
    PROVE  StreamMoves
BY DEF StreamMoves, Next, vars, DriverStep, ViewerStep, viewerVars, InjectStep, ActionsStep, ClearsStep, StreamStep, BusStep

LEMMA StreamHoldsAlways == Spec => []StreamInv
<1>0. StreamAssumed
  BY SimulatorAssumption DEF SimulatorAssumption, StreamAssumed
<1>1. Init => StreamInv
  BY <1>0, StreamInitInv DEF Init
<1>2. StreamInv /\ [Next]_vars => StreamInv'
  BY <1>0, StreamStepIs, StreamNextInv DEF StreamMoves
<1> QED BY <1>1, <1>2, PTL DEF Spec

\* sse_broadcast.py implements EventLog: over any number of overflows, disconnects,
\* replays and refreshes, the cursor of a client only moves to a later event of the
\* run, and between two events it is sent there is none it should have been given.
THEOREM NoEventIsSkipped == Spec => NoEventSkipped
<1>0. StreamAssumed
  BY SimulatorAssumption DEF SimulatorAssumption, StreamAssumed
<1>1. Init => Stream!Log!LogInit
  BY <1>0, StreamInitInv DEF Init
<1>2. StreamInv /\ [Next]_vars => [Stream!Log!LogNext]_(Stream!Log!logVars)
  BY <1>0, StreamStepIs, StreamNextInv DEF StreamMoves, LogStep
<1> QED BY <1>1, <1>2, StreamHoldsAlways, PTL DEF Spec, NoEventSkipped, Stream!NoEventSkipped, Stream!Log!LogSpec

BusHold == part = "bus" => BusInv

LEMMA BusHoldsAlways == Spec => []BusHold
<1>0. Bus!BusAssumption
  BY SimulatorAssumption DEF SimulatorAssumption
<1>1. Init => BusHold
  <2> SUFFICES ASSUME Init, part = "bus" PROVE BusInv
    BY DEF BusHold
  <2>1. Bus!BusInit
    BY DEF Init
  <2> QED BY <1>0, <2>1, BusInitInv DEF BusAssumed, Bus!BusAssumption
<1>2. BusHold /\ [Next]_vars => BusHold'
  <2> SUFFICES ASSUME BusHold, [Next]_vars, part' = "bus" PROVE BusInv'
    BY DEF BusHold
  <2>1. part = "bus" /\ [Bus!BusNext]_busVars
    BY DEF Next, vars, DriverStep, ViewerStep, viewerVars, InjectStep, ActionsStep, ClearsStep, StreamStep, BusStep
  <2> QED BY <1>0, <2>1, BusNextInv DEF BusHold
<1> QED BY <1>1, <1>2, PTL DEF Spec

\* sse_broadcast.py, event_bus.py and api/v1/websocket.py: no queue of a stream ever
\* holds more than it has room for, so that subscribe never fails half way; a socket
\* is sent every message at most once and in order, none that matched disappears
\* while its connection works except those that a full queue dropped, nothing is
\* scheduled for a subscription that is gone, and a client that was told what it is
\* subscribed to is sent nothing else.
THEOREM QueuesStayHonest == Spec => QueuesAreHonest
<1>0. Bus!BusAssumption /\ StreamAssumed
  BY SimulatorAssumption DEF SimulatorAssumption, StreamAssumed
<1>1. StreamInv /\ BusHold =>
        /\ part = "stream" => Stream!SseTypeOK /\ Stream!QueueHasRoom
        /\ part = "bus" =>
             /\ Bus!BusTypeOK /\ Bus!AtMostOnceInOrder
             /\ Bus!NothingVanishes /\ Bus!SubscriptionEndsWithSocket
  BY <1>0, StreamIsHonest, BusIsHonest DEF BusHold
<1>2. BusHold /\ [Next]_vars => [part = "bus" => Bus!OnlyWhatWasAsked]_vars
  <2> SUFFICES ASSUME BusHold, Next, part = "bus" PROVE Bus!OnlyWhatWasAsked
    BY DEF BusHold
  <2>1. [Bus!BusNext]_busVars
    BY DEF Next, DriverStep, ViewerStep, viewerVars, InjectStep, ActionsStep, ClearsStep, StreamStep, BusStep
  <2> QED BY <1>0, <2>1, BusSendsWhatWasAsked DEF BusHold, BusAssumed, Bus!BusAssumption
<1> QED BY <1>1, <1>2, StreamHoldsAlways, BusHoldsAlways, PTL DEF Spec, QueuesAreHonest
----------------------------------------------------------------------------
(* The pace of clearing. *)

\* sorted(equivalents) is InOrder.
LEMMA SortedLists ==
    ASSUME NEW n \in Nat, NEW S \in SUBSET (1..n)
    PROVE  Adaptive!Sorted(S) \in Seq(S) /\ Ascending(Adaptive!Sorted(S)) /\ Elems(Adaptive!Sorted(S)) = S
<1>1. Adaptive!Sorted(S) = Stream!InOrder(S)
  BY Zenon DEF Adaptive!Sorted, Stream!InOrder, Adaptive!Cardinality, Stream!Cardinality
<1> QED BY <1>1, InOrderLists

LEMMA SameCardinality ==
    ASSUME NEW S
    PROVE  /\ Adaptive!Cardinality(S) = Cardinality(S)
           /\ Adaptive!IsFiniteSet(S) <=> IsFiniteSet(S)
BY Zenon DEF Adaptive!Cardinality, Cardinality, Adaptive!IsFiniteSet, IsFiniteSet

\* The greatest and the least of a few numbers.
LEMMA GreatestIs ==
    ASSUME NEW S \in SUBSET Int, NEW m \in S, \A y \in S : m >= y
    PROVE  Adaptive!Max(S) = m
<1>1. \A x \in S : (\A y \in S : x >= y) => x = m
  OBVIOUS
<1> QED BY <1>1, Zenon DEF Adaptive!Max

LEMMA LeastIs ==
    ASSUME NEW S \in SUBSET Int, NEW m \in S, \A y \in S : m =< y
    PROVE  Adaptive!Min(S) = m
<1>1. \A x \in S : (\A y \in S : x =< y) => x = m
  OBVIOUS
<1> QED BY <1>1, Zenon DEF Adaptive!Min

Higher(a, b) == IF a >= b THEN a ELSE b
Lower(a, b) == IF a <= b THEN a ELSE b

LEMMA OfTwo ==
    ASSUME NEW a \in Int, NEW b \in Int
    PROVE  /\ Adaptive!Max({a, b}) = Higher(a, b) /\ Higher(a, b) \in Int
           /\ Adaptive!Min({a, b}) = Lower(a, b) /\ Lower(a, b) \in Int
<1>1. Adaptive!Max({a, b}) = Higher(a, b)
  <2>1. CASE a >= b
    BY <2>1, GreatestIs DEF Higher
  <2>2. CASE ~(a >= b)
    BY <2>2, GreatestIs DEF Higher
  <2> QED BY <2>1, <2>2
<1>2. Adaptive!Min({a, b}) = Lower(a, b)
  <2>1. CASE a <= b
    BY <2>1, LeastIs DEF Lower
  <2>2. CASE ~(a <= b)
    BY <2>2, LeastIs DEF Lower
  <2> QED BY <2>1, <2>2
<1> QED BY <1>1, <1>2 DEF Higher, Lower

LEMMA OfThree ==
    ASSUME NEW a \in Int, NEW b \in Int, NEW c \in Int
    PROVE  /\ Adaptive!Max({a, b, c}) \in {a, b, c} /\ \A x \in {a, b, c} : x <= Adaptive!Max({a, b, c})
           /\ Adaptive!Min({a, b, c}) \in {a, b, c}
<1>1. \E m \in {a, b, c} : \A y \in {a, b, c} : m >= y
  OBVIOUS
<1>2. \E m \in {a, b, c} : \A y \in {a, b, c} : m =< y
  OBVIOUS
<1> QED BY <1>1, <1>2, GreatestIs, LeastIs

LEMMA ClampType ==
    ASSUME NEW v \in Int, NEW lo \in Int, NEW hi \in Int
    PROVE  /\ Adaptive!Clamp(v, lo, hi) \in Int /\ Adaptive!Clamp(v, lo, hi) >= lo
           /\ lo <= hi => Adaptive!Clamp(v, lo, hi) <= hi
<1>1. Adaptive!Clamp(v, lo, hi) = Higher(lo, Lower(hi, v))
  <2>1. Adaptive!Min({hi, v}) = Lower(hi, v) /\ Lower(hi, v) \in Int
    BY OfTwo, Zenon
  <2>2. Adaptive!Max({lo, Lower(hi, v)}) = Higher(lo, Lower(hi, v))
    BY <2>1, OfTwo, Zenon
  <2> QED BY <2>1, <2>2, Zenon DEF Adaptive!Clamp
<1> QED BY <1>1 DEF Higher, Lower

\* What the configuration is made of.
Config(c) ==
    /\ c.window \in Nat /\ c.window >= 1 /\ c.high \in Int /\ c.low \in Int
    /\ c.minInterval \in Nat /\ c.maxInterval \in Int
    /\ c.depthMin \in Int /\ c.depthMax \in Int /\ c.ceiling \in Int

LEMMA ConfigTypes ==
    ASSUME Adaptive!AdaptiveAssumption, cfg \in Configs
    PROVE  Config(cfg)
BY DEF Adaptive!AdaptiveAssumption, Config

\* Sums over a window.
LEMMA SumsAreNumbers ==
    ASSUME Adaptive!AdaptiveAssumption, NEW w \in Seq(Signals)
    PROVE  Adaptive!Attempted(w) \in Nat /\ Adaptive!Refused(w) \in Nat
<1>1. \A f : Adaptive!SumFunction(f) = SumFunctionOnSet(f, DOMAIN f)
  BY Zenon DEF Adaptive!SumFunction, Adaptive!SumFunctionOnSet, SumFunctionOnSet,
     Adaptive!FoldFunctionOnSet, FoldFunctionOnSet, Adaptive!MapThenFoldSet, MapThenFoldSet
<1>2. IsFiniteSet(DOMAIN w)
  <2>1. DOMAIN w = 1..Len(w) /\ Len(w) \in Nat
    OBVIOUS
  <2> QED BY <2>1, FS_Interval
<1>3. \A i \in DOMAIN w : w[i][1] \in Nat /\ w[i][2] \in Nat
  <2>1. \A i \in DOMAIN w : w[i] \in Signals
    OBVIOUS
  <2> QED BY <2>1 DEF Adaptive!AdaptiveAssumption
<1>4. ASSUME NEW f, DOMAIN f = DOMAIN w, \A i \in DOMAIN w : f[i] \in Nat
      PROVE  Adaptive!SumFunction(f) \in Nat
  <2>1. IsFiniteSet(DOMAIN w) /\ DOMAIN w \in SUBSET DOMAIN w
    BY <1>2
  <2>2. SumFunctionOnSet(f, DOMAIN w) \in Nat
    BY <1>4, <2>1, SumType
  <2> QED BY <1>1, <1>4, <2>2
<1> DEFINE a == [i \in DOMAIN w |-> w[i][1]]  r == [i \in DOMAIN w |-> w[i][2]]
<1>5. DOMAIN a = DOMAIN w /\ DOMAIN r = DOMAIN w /\ \A i \in DOMAIN w : a[i] \in Nat /\ r[i] \in Nat
  BY <1>3
<1>6. Adaptive!Attempted(w) = Adaptive!SumFunction(a) /\ Adaptive!Refused(w) = Adaptive!SumFunction(r)
  BY Zenon DEF Adaptive!Attempted, Adaptive!Refused
<1> HIDE DEF a, r
<1> QED BY <1>4, <1>5, <1>6

\* _make_run_decision and _make_min_budget_decision give a number.
LEMMA DepthsAreNumbers ==
    ASSUME Adaptive!AdaptiveAssumption, cfg \in Configs, NEW w \in Seq(Signals)
    PROVE  Adaptive!ScaledDepth(w) \in Int /\ Adaptive!LeastDepth \in Int
<1> DEFINE a == Adaptive!Attempted(w)  r == Adaptive!Refused(w)
           span == (cfg.high - cfg.low) * a
           above == Adaptive!Clamp(100 * r - cfg.low * a, 0, Adaptive!Max({0, span}))
           raw == IF cfg.high <= cfg.low THEN cfg.depthMax
                  ELSE IF span = 0 THEN cfg.depthMin
                  ELSE cfg.depthMin + ((cfg.depthMax - cfg.depthMin) * above) \div span
<1>1. a \in Nat /\ r \in Nat
  BY SumsAreNumbers
<1>2. Config(cfg)
  BY ConfigTypes
<1>3. /\ cfg.high \in Int /\ cfg.low \in Int /\ cfg.depthMin \in Int /\ cfg.depthMax \in Int /\ cfg.ceiling \in Int
  BY <1>2 DEF Config
<1>4. Adaptive!ScaledDepth(w) = Adaptive!Clamp(raw, cfg.depthMin, Adaptive!Min({cfg.depthMax, cfg.ceiling}))
  BY DEF Adaptive!ScaledDepth
<1> HIDE DEF a, r
<1>5. span \in Int /\ 100 * r - cfg.low * a \in Int
  BY <1>1, <1>3
<1>6. above \in Int
  <2>1. 0 \in Int /\ span \in Int
    BY <1>5
  <2>2. Adaptive!Max({0, span}) \in Int
    BY <2>1, OfTwo, Zenon
  <2> QED BY <1>5, <2>2, ClampType
<1>7. raw \in Int
  <2>1. CASE cfg.high <= cfg.low \/ span = 0
    BY <1>3, <2>1
  <2>2. CASE ~(cfg.high <= cfg.low) /\ span # 0
    <3>1. cfg.high - cfg.low \in Nat
      BY <1>3, <2>2
    <3>2. span \in Nat
      <4>1. \A x, y \in Nat : x * y \in Nat
        OBVIOUS
      <4> QED BY <1>1, <3>1, <4>1
    <3>3. (cfg.depthMax - cfg.depthMin) * above \in Int
      BY <1>3, <1>6
    <3> HIDE DEF span, above
    <3>4. \A n \in Int, k \in Nat : k # 0 => n \div k \in Int
      OBVIOUS
    <3>5. ((cfg.depthMax - cfg.depthMin) * above) \div span \in Int
      BY <2>2, <3>2, <3>3, <3>4
    <3> QED BY <1>3, <2>2, <3>5
  <2> QED BY <2>1, <2>2
<1> HIDE DEF raw, above, span
<1>8. Adaptive!ScaledDepth(w) \in Int
  <2>1. Adaptive!Min({cfg.depthMax, cfg.ceiling}) \in Int
    BY <1>3, OfTwo, Zenon
  <2> QED BY <1>3, <1>4, <1>7, <2>1, ClampType
<1>9. Adaptive!LeastDepth \in Int
  <2>1. Adaptive!Min({cfg.depthMin, cfg.depthMax, cfg.ceiling}) \in Int
    <3>1. Adaptive!Min({cfg.depthMin, cfg.depthMax, cfg.ceiling}) \in {cfg.depthMin, cfg.depthMax, cfg.ceiling}
      BY <1>3, OfThree, Zenon
    <3> QED BY <1>3, <3>1, Zenon
  <2>2. 1 \in Int
    OBVIOUS
  <2> QED BY <2>1, <2>2, OfTwo, Zenon DEF Adaptive!LeastDepth
<1> QED BY <1>8, <1>9

\* The depth a clearing is given.
LEMMA EffectiveInBounds ==
    ASSUME Adaptive!AdaptiveAssumption, cfg \in Configs, NEW d \in Int
    PROVE  /\ Adaptive!Effective(d) \in Nat
           /\ Adaptive!Effective(d) \in 1..Adaptive!Max({1, EngineDepth})
           /\ Adaptive!Effective(d) <= Adaptive!Max({1, cfg.depthMin, cfg.depthMax})
<1> DEFINE lo == Adaptive!Max({1, cfg.depthMin})
           hi == Adaptive!Max({lo, Adaptive!Min({cfg.depthMax, cfg.ceiling})})
           v == Adaptive!Clamp(d, lo, hi)
           top == Adaptive!Max({1, cfg.depthMin, cfg.depthMax})
<1>1. /\ cfg.depthMin \in Int /\ cfg.depthMax \in Int /\ cfg.ceiling \in Int /\ EngineDepth \in Nat
  BY ConfigTypes DEF Config, Adaptive!AdaptiveAssumption
<1>2. 1 \in Int /\ EngineDepth \in Int
  BY <1>1
<1>3. lo = Higher(1, cfg.depthMin) /\ lo \in Int
  <2>1. Adaptive!Max({1, cfg.depthMin}) = Higher(1, cfg.depthMin) /\ Higher(1, cfg.depthMin) \in Int
    BY <1>1, <1>2, OfTwo, Zenon
  <2> QED BY <2>1
<1>4. top \in {1, cfg.depthMin, cfg.depthMax} /\ \A x \in {1, cfg.depthMin, cfg.depthMax} : x <= top
  BY <1>1, <1>2, OfThree, Zenon
<1>5. top \in Int /\ 1 <= top /\ cfg.depthMin <= top /\ cfg.depthMax <= top
  BY <1>1, <1>2, <1>4, Zenon
<1>6. Adaptive!Min({cfg.depthMax, cfg.ceiling}) = Lower(cfg.depthMax, cfg.ceiling) /\ Lower(cfg.depthMax, cfg.ceiling) \in Int
  BY <1>1, OfTwo, Zenon
<1>7. hi = Higher(lo, Lower(cfg.depthMax, cfg.ceiling)) /\ hi \in Int
  <2> HIDE DEF lo
  <2>1. /\ Adaptive!Max({lo, Lower(cfg.depthMax, cfg.ceiling)}) = Higher(lo, Lower(cfg.depthMax, cfg.ceiling))
        /\ Higher(lo, Lower(cfg.depthMax, cfg.ceiling)) \in Int
    BY <1>3, <1>6, OfTwo, Zenon
  <2> QED BY <1>6, <2>1
<1>8. Adaptive!Effective(d) = Adaptive!Max({1, Adaptive!Min({v, EngineDepth})})
  BY Zenon DEF Adaptive!Effective
<1> HIDE DEF lo, top, hi
<1>9. lo <= hi /\ hi <= top
  BY <1>1, <1>3, <1>5, <1>7 DEF Higher, Lower
<1>10. v \in Int /\ v <= hi
  BY <1>3, <1>7, <1>9, ClampType
<1> HIDE DEF v
<1>11. Adaptive!Min({v, EngineDepth}) = Lower(v, EngineDepth) /\ Lower(v, EngineDepth) \in Int
  BY <1>2, <1>10, OfTwo, Zenon
<1>12. Adaptive!Max({1, EngineDepth}) = Higher(1, EngineDepth)
  BY <1>2, OfTwo, Zenon
<1>13. Adaptive!Effective(d) = Higher(1, Lower(v, EngineDepth))
  <2>1. Adaptive!Max({1, Lower(v, EngineDepth)}) = Higher(1, Lower(v, EngineDepth))
    BY <1>2, <1>11, OfTwo, Zenon
  <2> QED BY <1>8, <1>11, <2>1
<1>14. /\ Higher(1, Lower(v, EngineDepth)) \in 1..Higher(1, EngineDepth)
       /\ Higher(1, Lower(v, EngineDepth)) <= top
  BY <1>1, <1>5, <1>7, <1>9, <1>10 DEF Higher, Lower
<1> QED BY <1>12, <1>13, <1>14 DEF top

\* How long to wait after so many clearings in a row that yielded nothing.
Lag(z) == IF z = 0 THEN 0 ELSE Adaptive!Interval(z)

LEMMA LagType ==
    ASSUME Adaptive!AdaptiveAssumption, cfg \in Configs, NEW z \in Nat
    PROVE  Lag(z) \in Nat /\ (z # 0 => Lag(z) > 0)
<1> DEFINE base == Adaptive!Max({1, cfg.minInterval})
           top == Adaptive!Max({base, cfg.maxInterval})
           exp == Adaptive!Max({0, z - 1})
           x == Adaptive!Min({top, base * 2^exp})
<1>1. cfg.minInterval \in Int /\ cfg.maxInterval \in Int /\ 0 \in Int /\ 1 \in Int /\ z - 1 \in Int
  BY ConfigTypes DEF Config
<1>2. base \in Int /\ base >= 1
  <2>1. base = Higher(1, cfg.minInterval)
    BY <1>1, OfTwo, Zenon
  <2> QED BY <1>1, <2>1 DEF Higher
<1>3. exp \in Nat
  <2>1. exp = Higher(0, z - 1)
    BY <1>1, OfTwo, Zenon
  <2> QED BY <1>1, <2>1 DEF Higher
<1> HIDE DEF base, exp
<1>4. top \in Int
  <2>1. Adaptive!Max({base, cfg.maxInterval}) = Higher(base, cfg.maxInterval) /\ Higher(base, cfg.maxInterval) \in Int
    BY <1>1, <1>2, OfTwo, Zenon
  <2> QED BY <2>1
<1> HIDE DEF top
<1>5. base * 2^exp \in Int
  BY <1>2, <1>3
<1>6. x \in Int
  <2>1. Adaptive!Min({top, base * 2^exp}) = Lower(top, base * 2^exp) /\ Lower(top, base * 2^exp) \in Int
    BY <1>4, <1>5, OfTwo, Zenon
  <2> QED BY <2>1
<1>7. Adaptive!Interval(z) = Adaptive!Max({base, x})
  BY Zenon DEF Adaptive!Interval, base, top, exp
<1> HIDE DEF x
<1>8. Adaptive!Max({base, x}) = Higher(base, x)
  BY <1>2, <1>6, OfTwo, Zenon
<1> QED BY <1>2, <1>6, <1>7, <1>8 DEF Lag, Higher

Entries == [cleared : Int, zeros : Nat, waited : Nat]
Jobs == [eq : Eqs, depth : Nat]

PaceTypes ==
    /\ cfg \in Configs
    /\ now \in [Sims -> Nat] /\ \A s \in Sims : now[s] <= MaxTick[s]
    /\ window \in [Eqs -> Seq(Signals)] /\ \A e \in Eqs : Len(window[e]) <= cfg.window
    /\ last \in [Eqs -> Nat \cup {-1}] /\ streak \in [Eqs -> Nat] /\ backoff \in [Eqs -> Nat]
    /\ active \in [Eqs -> BOOLEAN] /\ armed \in [Eqs -> BOOLEAN] /\ crossed \subseteq Eqs
    /\ due \in [Sims -> Seq(Jobs)] /\ ledger \in [Sims -> [Eqs -> Entries]]

\* An equivalent has waited long enough for the tick of a run.
Ready(s, e) ==
    last[e] >= 0 => now[s] - last[e] >= cfg.minInterval /\ now[s] - last[e] >= backoff[e]

\* What the ticks are to clear: each equivalent once, and one that never was crossed
\* not too soon, and by no other run.
DueInv ==
    /\ \A s \in Sims : \A i, j \in DOMAIN due[s] : due[s][i].eq = due[s][j].eq => i = j
    /\ \A s \in Sims : \A e \in Adaptive!Pending(s) \ crossed :
         Ready(s, e) /\ \A x \in Sims \ {s} : e \notin Adaptive!Pending(x)
    /\ Adaptive!DepthInBounds

\* The policy's memory of an equivalent is what a run has noted, unless another run
\* has cleared it since, after as long a wait as the first had to observe.
NotedAs(m, l, z) ==
    m.cleared >= 0 =>
        \/ l = m.cleared /\ z = m.zeros
        \/ l - m.cleared >= cfg.minInterval /\ l - m.cleared >= Lag(m.zeros)

BackoffInv ==
    /\ \A e \in Eqs : backoff[e] = Lag(streak[e])
    /\ \A s \in Sims, e \in Eqs \ crossed : NotedAs(ledger[s][e], last[e], streak[e])

\* Only a full window switches an equivalent on.
SwitchInv == \A e \in Eqs : active[e] => Len(window[e]) = cfg.window /\ armed[e]

PaceInv == PaceTypes /\ DueInv /\ BackoffInv /\ SwitchInv

LEMMA EqsAreFinite ==
    ASSUME Adaptive!AdaptiveAssumption
    PROVE  /\ IsFiniteSet(Eqs) /\ Cardinality(Eqs) \in Nat /\ Eqs = 1..Cardinality(Eqs)
           /\ \A S \in SUBSET Eqs : IsFiniteSet(S) /\ Cardinality(S) \in Nat
<1>1. Adaptive!IsFiniteSet(Eqs) /\ Eqs = 1..Adaptive!Cardinality(Eqs)
  BY DEF Adaptive!AdaptiveAssumption
<1>2. IsFiniteSet(Eqs) /\ Eqs = 1..Cardinality(Eqs)
  BY <1>1, SameCardinality
<1>3. \A S \in SUBSET Eqs : IsFiniteSet(S)
  BY <1>2, FS_Subset
<1> QED BY <1>2, <1>3, FS_CardinalityType

LEMMA PaceInitInv ==
    ASSUME Adaptive!AdaptiveAssumption, Adaptive!AdaptiveInit
    PROVE  PaceInv
<1>1. /\ cfg \in Configs /\ now = [s \in Sims |-> 0] /\ window = [e \in Eqs |-> <<>>]
      /\ last = [e \in Eqs |-> -1] /\ streak = [e \in Eqs |-> 0] /\ backoff = [e \in Eqs |-> 0]
      /\ due = [s \in Sims |-> <<>>] /\ crossed = {}
      /\ ledger = [s \in Sims |-> [e \in Eqs |-> [cleared |-> -1, zeros |-> 0, waited |-> 0]]]
  BY DEF Adaptive!AdaptiveInit
<1>2. active = [e \in Eqs |-> FALSE] /\ armed = [e \in Eqs |-> FALSE]
  BY Zenon DEF Adaptive!AdaptiveInit
<1>3. cfg.window \in Nat /\ MaxTick \in [Sims -> Nat]
  BY <1>1, ConfigTypes DEF Adaptive!AdaptiveAssumption, Config
<1>4. PaceTypes
  <2>1. ledger \in [Sims -> [Eqs -> Entries]]
    <3>1. [cleared |-> -1, zeros |-> 0, waited |-> 0] \in Entries
      BY DEF Entries
    <3> QED BY <1>1, <3>1
  <2>2. active \in [Eqs -> BOOLEAN] /\ armed \in [Eqs -> BOOLEAN]
    BY <1>2, Zenon
  <2>3. window \in [Eqs -> Seq(Signals)] /\ \A e \in Eqs : Len(window[e]) <= cfg.window
    BY <1>1, <1>3
  <2>4. due \in [Sims -> Seq(Jobs)]
    BY <1>1
  <2>5. /\ now \in [Sims -> Nat] /\ \A s \in Sims : now[s] <= MaxTick[s]
        /\ last \in [Eqs -> Nat \cup {-1}] /\ streak \in [Eqs -> Nat] /\ backoff \in [Eqs -> Nat]
    BY <1>1, <1>3
  <2> QED BY <1>1, <2>1, <2>2, <2>3, <2>4, <2>5 DEF PaceTypes
<1>5. \A s \in Sims : DOMAIN due[s] = {}
  BY <1>1
<1>6. DueInv
  BY <1>5 DEF DueInv, Adaptive!DepthInBounds, Adaptive!Pending
<1>7. BackoffInv
  BY <1>1 DEF BackoffInv, NotedAs, Lag
<1>8. SwitchInv
  BY <1>2, Zenon DEF SwitchInv
<1> QED BY <1>4, <1>6, <1>7, <1>8 DEF PaceInv

\* What the invariant says of the runs.
LEMMA PaceShows ==
    ASSUME Adaptive!AdaptiveAssumption, PaceInv
    PROVE  Adaptive!AdaptiveTypeOK /\ Adaptive!DepthInBounds /\ Adaptive!BackoffHolds
<1>1. PaceTypes /\ DueInv /\ BackoffInv
  BY DEF PaceInv
<1>2. Config(cfg) /\ cfg \in Configs /\ MaxTick \in [Sims -> Nat]
  BY <1>1, ConfigTypes DEF PaceTypes, Adaptive!AdaptiveAssumption
<1>3. \A s \in Sims : Adaptive!Pending(s) \subseteq Eqs
  <2>1. \A s \in Sims : \A i \in DOMAIN due[s] : due[s][i] \in Jobs
    BY <1>1 DEF PaceTypes
  <2> QED BY <2>1 DEF Jobs, Adaptive!Pending
<1>4. Adaptive!AdaptiveTypeOK
  <2>1. \A e \in Eqs : Adaptive!ToSet(window[e]) \subseteq Signals
    BY <1>1 DEF PaceTypes, Adaptive!ToSet
  <2>2. \A s \in Sims : now[s] \in 0..MaxTick[s]
    BY <1>1, <1>2 DEF PaceTypes
  <2>3. \A e \in Eqs : last[e] \in Nat \cup {-1}
    BY <1>1 DEF PaceTypes
  <2> QED BY <1>1, <1>3, <2>1, <2>2, <2>3, Zenon DEF PaceTypes, Adaptive!AdaptiveTypeOK
<1>5. Adaptive!DepthInBounds
  BY <1>1 DEF DueInv
<1>6. Adaptive!BackoffHolds
  <2> SUFFICES ASSUME NEW s \in Sims, NEW e \in Adaptive!Pending(s) \ crossed, ledger[s][e].cleared >= 0
               PROVE  now[s] - ledger[s][e].cleared >= Adaptive!Max({cfg.minInterval, Lag(ledger[s][e].zeros)})
    BY Zenon DEF Adaptive!BackoffHolds, Lag
  <2>1. e \in Eqs \ crossed
    BY <1>3
  <2>2. PICK m \in Entries : m = ledger[s][e]
    BY <1>1, <2>1 DEF PaceTypes
  <2>3. /\ m.cleared \in Int /\ m.zeros \in Nat /\ last[e] \in Int /\ now[s] \in Int /\ cfg.minInterval \in Nat
        /\ streak[e] \in Nat
    BY <1>1, <1>2, <2>1 DEF Entries, PaceTypes, Config
  <2>4. Lag(m.zeros) \in Nat
    BY <1>2, <2>3, LagType
  <2>5. /\ last[e] = m.cleared /\ streak[e] = m.zeros
        \/ (last[e] - m.cleared >= cfg.minInterval /\ last[e] - m.cleared >= Lag(m.zeros))
    BY <1>1, <2>1, <2>2 DEF BackoffInv, NotedAs
  <2>6. last[e] >= 0 => now[s] - last[e] >= cfg.minInterval /\ now[s] - last[e] >= Lag(streak[e])
    BY <1>1, <2>1 DEF DueInv, Ready, BackoffInv
  <2>7. now[s] - m.cleared >= cfg.minInterval /\ now[s] - m.cleared >= Lag(m.zeros)
    BY <2>2, <2>3, <2>4, <2>5, <2>6
  <2>8. Adaptive!Max({cfg.minInterval, Lag(m.zeros)}) = Higher(cfg.minInterval, Lag(m.zeros))
    <3>1. cfg.minInterval \in Int /\ Lag(m.zeros) \in Int
      BY <2>3, <2>4
    <3> QED BY <3>1, OfTwo, Zenon
  <2>9. now[s] - m.cleared >= Higher(cfg.minInterval, Lag(m.zeros))
    BY <2>7 DEF Higher
  <2> QED BY <2>2, <2>8, <2>9
<1> QED BY <1>4, <1>5, <1>6
----------------------------------------------------------------------------
\* record_tick_signals: the window grows until it is full.
LEMMA WindowSlides ==
    ASSUME Adaptive!AdaptiveAssumption, cfg \in Configs, NEW w \in Seq(Signals), Len(w) <= cfg.window,
           NEW x \in Signals
    PROVE  /\ Adaptive!Slide(w, x) \in Seq(Signals)
           /\ Len(Adaptive!Slide(w, x)) <= cfg.window /\ Len(Adaptive!Slide(w, x)) >= Len(w)
<1> DEFINE longer == Append(w, x)
<1>1. cfg.window \in Nat /\ cfg.window >= 1
  BY ConfigTypes DEF Config
<1>2. longer \in Seq(Signals) /\ Len(longer) = Len(w) + 1 /\ Len(w) \in Nat /\ longer # <<>>
  BY PutLast
<1> HIDE DEF longer
<1>3. Tail(longer) \in Seq(Signals) /\ Len(Tail(longer)) = Len(longer) - 1
  BY <1>2, TakeFirst
<1>4. Adaptive!Slide(w, x) = IF Len(longer) > cfg.window THEN Tail(longer) ELSE longer
  BY DEF Adaptive!Slide, longer
<1> QED BY <1>1, <1>2, <1>3, <1>4

\* The caps leave a beginning of the list.
LEMMA CapKeepsFirst ==
    ASSUME Adaptive!AdaptiveAssumption, NEW S \in SUBSET Eqs
    PROVE  LET take == Adaptive!Capped(Adaptive!Sorted(S))
           IN  /\ take \in Seq(S) /\ (take = <<>> <=> S = {})
               /\ \A i, j \in DOMAIN take : take[i] = take[j] => i = j
<1> DEFINE list == Adaptive!Sorted(S)
<1>1. S \subseteq Nat /\ list \in Seq(S) /\ Ascending(list) /\ Elems(list) = S
  <2>1. PICK n \in Nat : Eqs = 1..n
    BY EqsAreFinite
  <2>2. S \in SUBSET (1..n)
    BY <2>1, Zenon
  <2>3. 1..n \subseteq Nat
    OBVIOUS
  <2>4. S \subseteq Nat
    BY <2>2, <2>3, Zenon
  <2> QED BY <2>2, <2>4, SortedLists, Zenon
<1> HIDE DEF list
<1>2. MaxEqPerTick \in Nat
  BY DEF Adaptive!AdaptiveAssumption
<1>3. list = <<>> <=> S = {}
  <2>1. DOMAIN list = 1..Len(list) /\ Len(list) \in Nat /\ (list = <<>> <=> Len(list) = 0)
    BY <1>1
  <2>2. DOMAIN list = {} <=> Len(list) = 0
    BY <2>1
  <2>3. DOMAIN list = {} <=> S = {}
    BY <1>1, Zenon DEF Elems
  <2> QED BY <2>1, <2>2, <2>3
<1>4. \A i, j \in DOMAIN list : list[i] = list[j] => i = j
  <2>1. \A i \in DOMAIN list : list[i] \in S /\ i \in Nat
    BY <1>1
  <2>2. \A i \in DOMAIN list : list[i] \in Nat
    BY <1>1, <2>1, Zenon
  <2> QED BY <1>1, <2>1, <2>2 DEF Ascending
<1>5. CASE MaxEqPerTick > 0 /\ Len(list) > MaxEqPerTick
  <2> DEFINE take == SubSeq(list, 1, MaxEqPerTick)
  <2>1. Len(list) \in Nat /\ DOMAIN list = 1..Len(list)
    BY <1>1
  <2>2. /\ take \in Seq(S) /\ Len(take) = MaxEqPerTick /\ DOMAIN take = 1..MaxEqPerTick
        /\ \A i \in DOMAIN take : i \in DOMAIN list /\ take[i] = list[i]
    BY <1>1, <1>2, <1>5, <2>1
  <2>3. take # <<>> /\ list # <<>>
    BY <1>5, <2>1, <2>2
  <2>4. Adaptive!Capped(list) = take
    BY <1>5 DEF Adaptive!Capped
  <2> HIDE DEF take
  <2> QED BY <1>3, <1>4, <2>2, <2>3, <2>4 DEF list
<1>6. CASE ~(MaxEqPerTick > 0 /\ Len(list) > MaxEqPerTick)
  <2>1. Adaptive!Capped(list) = list
    BY <1>6 DEF Adaptive!Capped
  <2> QED BY <1>1, <1>3, <1>4, <2>1 DEF list
<1> QED BY <1>5, <1>6

\* A tick begins.
LEMMA TickBegins ==
    ASSUME Adaptive!AdaptiveAssumption, PaceTypes, NEW s \in Sims, NEW sig \in [Eqs -> Signals],
           Adaptive!Begins(s, sig)
    PROVE  /\ due[s] = <<>> /\ Adaptive!Pending(s) = {}
           /\ now' \in [Sims -> Nat] /\ now'[s] = now[s] + 1 /\ \A x \in Sims : now'[x] <= MaxTick[x]
           /\ \A x \in Sims \ {s} : now'[x] = now[x]
           /\ window' = [e \in Eqs |-> Adaptive!Slide(window[e], sig[e])]
           /\ window' \in [Eqs -> Seq(Signals)]
           /\ \A e \in Eqs : Len(window'[e]) <= cfg.window
           /\ \A e \in Eqs : Len(window[e]) = cfg.window => Len(window'[e]) = cfg.window
<1>1. /\ due[s] = <<>> /\ now[s] < MaxTick[s] /\ now' = [now EXCEPT ![s] = now[s] + 1]
      /\ window' = [e \in Eqs |-> Adaptive!Slide(window[e], sig[e])]
  BY DEF Adaptive!Begins
<1>2. DOMAIN due[s] = {}
  BY <1>1
<1>3. Adaptive!Pending(s) = {}
  BY <1>2, Zenon DEF Adaptive!Pending
<1>4. now \in [Sims -> Nat] /\ MaxTick \in [Sims -> Nat] /\ \A x \in Sims : now[x] <= MaxTick[x]
  BY DEF PaceTypes, Adaptive!AdaptiveAssumption
<1>5. now' \in [Sims -> Nat] /\ now'[s] = now[s] + 1 /\ \A x \in Sims \ {s} : now'[x] = now[x]
  BY <1>1, <1>4
<1>6. \A x \in Sims : now'[x] <= MaxTick[x]
  BY <1>1, <1>4, <1>5
<1>7. \A e \in Eqs : /\ Adaptive!Slide(window[e], sig[e]) \in Seq(Signals)
                     /\ Len(Adaptive!Slide(window[e], sig[e])) <= cfg.window
                     /\ Len(Adaptive!Slide(window[e], sig[e])) >= Len(window[e])
  <2>1. cfg \in Configs /\ \A e \in Eqs : window[e] \in Seq(Signals) /\ Len(window[e]) <= cfg.window /\ sig[e] \in Signals
    BY DEF PaceTypes
  <2> QED BY <2>1, WindowSlides
<1>8. window' \in [Eqs -> Seq(Signals)] /\ \A e \in Eqs : Len(window'[e]) <= cfg.window /\ Len(window'[e]) >= Len(window[e])
  BY <1>1, <1>7
<1>9. \A e \in Eqs : Len(window[e]) = cfg.window => Len(window'[e]) = cfg.window
  <2>1. \A e \in Eqs : Len(window[e]) \in Nat /\ Len(window'[e]) \in Nat
    BY <1>8 DEF PaceTypes
  <2>2. cfg.window \in Nat
    BY ConfigTypes DEF PaceTypes, Config
  <2> QED BY <1>8, <2>1, <2>2
<1> QED BY <1>1, <1>3, <1>5, <1>6, <1>8, <1>9

\* A run notes how long an equivalent waits, and nothing else.
LEMMA EntryWaits ==
    ASSUME NEW m \in Entries, NEW W \in Nat
    PROVE  /\ [m EXCEPT !.waited = W] \in Entries
           /\ [m EXCEPT !.waited = W].cleared = m.cleared /\ [m EXCEPT !.waited = W].zeros = m.zeros
BY DEF Entries

LEMMA LedgerWaits ==
    ASSUME ledger \in [Sims -> [Eqs -> Entries]], NEW s \in Sims, NEW L, ledger' = [ledger EXCEPT ![s] = L],
           L = [e \in Eqs |-> L[e]],
           \A e \in Eqs : L[e] \in Entries /\ L[e].cleared = ledger[s][e].cleared /\ L[e].zeros = ledger[s][e].zeros
    PROVE  /\ ledger' \in [Sims -> [Eqs -> Entries]]
           /\ \A x \in Sims, e \in Eqs :
                ledger'[x][e].cleared = ledger[x][e].cleared /\ ledger'[x][e].zeros = ledger[x][e].zeros
<1>1. L \in [Eqs -> Entries]
  BY Zenon
<1>2. ledger' \in [Sims -> [Eqs -> Entries]] /\ \A x \in Sims : ledger'[x] = IF x = s THEN L ELSE ledger[x]
  BY <1>1
<1> QED BY <1>2

\* Steps that clear nothing.
LEMMA PaceQuiet ==
    ASSUME PaceInv, PaceTypes', DueInv', SwitchInv', cfg' = cfg, UNCHANGED <<last, streak, backoff>>,
           crossed \subseteq crossed',
           \A x \in Sims, e \in Eqs :
                ledger'[x][e].cleared = ledger[x][e].cleared /\ ledger'[x][e].zeros = ledger[x][e].zeros
    PROVE  PaceInv'
<1>1. BackoffInv
  BY DEF PaceInv
<1>2. (\A e \in Eqs : backoff[e] = Lag(streak[e]))'
  BY <1>1, Zenon DEF BackoffInv, Lag, Adaptive!Interval
<1>3. ASSUME NEW s \in Sims, NEW e \in Eqs \ crossed' PROVE NotedAs(ledger[s][e], last[e], streak[e])'
  <2>1. NotedAs(ledger[s][e], last[e], streak[e])
    BY <1>1 DEF BackoffInv
  <2> QED BY <2>1, Zenon DEF NotedAs, Lag, Adaptive!Interval
<1> QED BY <1>2, <1>3, Zenon DEF PaceInv, BackoffInv

\* Steps after which the tick of a run has nothing left to clear.
LEMMA NothingDue ==
    ASSUME PaceTypes, DueInv, NEW s \in Sims, due' = [due EXCEPT ![s] = <<>>], cfg' = cfg,
           UNCHANGED <<last, backoff, crossed>>, \A x \in Sims \ {s} : now'[x] = now[x]
    PROVE  DueInv' /\ due' \in [Sims -> Seq(Jobs)]
<1>1. due \in [Sims -> Seq(Jobs)]
  BY DEF PaceTypes
<1>2. due' \in [Sims -> Seq(Jobs)] /\ DOMAIN due'[s] = {} /\ \A x \in Sims \ {s} : due'[x] = due[x]
  <2>1. <<>> \in Seq(Jobs) /\ DOMAIN <<>> = {}
    OBVIOUS
  <2> QED BY <1>1, <2>1
<1>3. Adaptive!Pending(s)' = {} /\ \A x \in Sims \ {s} : Adaptive!Pending(x)' = Adaptive!Pending(x)
  BY <1>2 DEF Adaptive!Pending
<1>4. \A x \in Sims : \A i, j \in DOMAIN due'[x] : due'[x][i].eq = due'[x][j].eq => i = j
  BY <1>2, Zenon DEF DueInv
<1>5. Adaptive!DepthInBounds'
  BY <1>2, Zenon DEF DueInv, Adaptive!DepthInBounds
<1>6. ASSUME NEW x \in Sims, NEW e \in Adaptive!Pending(x)' \ crossed'
      PROVE  Ready(x, e)' /\ \A y \in Sims \ {x} : e \notin Adaptive!Pending(y)'
  <2>1. x # s /\ e \in Adaptive!Pending(x) \ crossed
    BY <1>3
  <2>2. Ready(x, e) /\ \A y \in Sims \ {x} : e \notin Adaptive!Pending(y)
    BY <2>1, Zenon DEF DueInv
  <2>3. Ready(x, e)'
    BY <2>1, <2>2 DEF Ready
  <2> QED BY <1>3, <2>2, <2>3
<1> QED BY <1>2, <1>4, <1>5, <1>6, Zenon DEF DueInv

\* A guardrail stops the tick before anything is evaluated.
LEMMA GuardedKeepsPace ==
    ASSUME Adaptive!AdaptiveAssumption, PaceInv, NEW s \in Sims, NEW sig \in [Eqs -> Signals],
           Adaptive!Guarded(s, sig)
    PROVE  PaceInv' /\ Adaptive!HysteresisHolds
<1> DEFINE L == [e \in Eqs |-> [ledger[s][e] EXCEPT !.waited = 0]]
<1>1. /\ Adaptive!Begins(s, sig) /\ UNCHANGED <<last, streak, backoff, due, crossed>>
      /\ cfg' = cfg /\ active' = active /\ armed' = armed /\ ledger' = [ledger EXCEPT ![s] = L]
  BY Zenon DEF Adaptive!Guarded, Adaptive!NoneWaits
<1>2. PaceTypes /\ DueInv /\ SwitchInv
  BY DEF PaceInv
<1>3. /\ due[s] = <<>> /\ now' \in [Sims -> Nat] /\ \A x \in Sims : now'[x] <= MaxTick[x]
      /\ \A x \in Sims \ {s} : now'[x] = now[x]
      /\ window' \in [Eqs -> Seq(Signals)]
      /\ \A e \in Eqs : Len(window'[e]) <= cfg.window
      /\ \A e \in Eqs : Len(window[e]) = cfg.window => Len(window'[e]) = cfg.window
  BY <1>1, <1>2, TickBegins
<1>4. /\ ledger' \in [Sims -> [Eqs -> Entries]]
      /\ \A x \in Sims, e \in Eqs :
           ledger'[x][e].cleared = ledger[x][e].cleared /\ ledger'[x][e].zeros = ledger[x][e].zeros
  <2>1. ledger \in [Sims -> [Eqs -> Entries]]
    BY <1>2 DEF PaceTypes
  <2>2. L = [e \in Eqs |-> L[e]] /\ 0 \in Nat
    OBVIOUS
  <2>3. \A e \in Eqs : L[e] \in Entries /\ L[e].cleared = ledger[s][e].cleared /\ L[e].zeros = ledger[s][e].zeros
    <3>1. \A e \in Eqs : ledger[s][e] \in Entries
      BY <2>1
    <3> QED BY <2>2, <3>1, EntryWaits, Zenon
  <2> HIDE DEF L
  <2> QED BY <1>1, <2>1, <2>2, <2>3, LedgerWaits
<1>5. DueInv' /\ due' \in [Sims -> Seq(Jobs)]
  <2>1. due' = [due EXCEPT ![s] = <<>>]
    BY <1>1, <1>2, <1>3 DEF PaceTypes
  <2> QED BY <1>1, <1>2, <1>3, <2>1, NothingDue
<1>6. PaceTypes'
  BY <1>1, <1>2, <1>3, <1>4, <1>5, Zenon DEF PaceTypes
<1>7. SwitchInv'
  BY <1>1, <1>2, <1>3, Zenon DEF SwitchInv
<1>8. PaceInv'
  BY <1>1, <1>4, <1>5, <1>6, <1>7, PaceQuiet, Zenon
<1>9. \A x \in Sims : now'[x] # now[x] => DOMAIN due'[x] = {}
  <2>1. DOMAIN <<>> = {}
    OBVIOUS
  <2> QED BY <1>1, <1>3, <2>1
<1> QED BY <1>8, <1>9, Zenon DEF Adaptive!HysteresisHolds

\* The payments are lost, or the time is spent.
LEMMA StopKeepsPace ==
    ASSUME Adaptive!AdaptiveAssumption, PaceInv, NEW s \in Sims,
           Adaptive!PaymentsLost(s) \/ Adaptive!BudgetSpent(s)
    PROVE  PaceInv' /\ Adaptive!HysteresisHolds
<1> DEFINE L == [e \in Eqs |-> [ledger[s][e] EXCEPT !.waited = 0]]
<1>1. /\ due' = [due EXCEPT ![s] = <<>>] /\ UNCHANGED <<now, window, last, streak, backoff, crossed>>
      /\ cfg' = cfg /\ active' = active /\ armed' = armed
      /\ ledger' = ledger \/ ledger' = [ledger EXCEPT ![s] = L]
  BY Zenon DEF Adaptive!PaymentsLost, Adaptive!BudgetSpent, Adaptive!NoneWaits
<1>2. PaceTypes /\ DueInv /\ SwitchInv
  BY DEF PaceInv
<1>3. /\ ledger' \in [Sims -> [Eqs -> Entries]]
      /\ \A x \in Sims, e \in Eqs :
           ledger'[x][e].cleared = ledger[x][e].cleared /\ ledger'[x][e].zeros = ledger[x][e].zeros
  <2>1. ledger \in [Sims -> [Eqs -> Entries]]
    BY <1>2 DEF PaceTypes
  <2>2. L = [e \in Eqs |-> L[e]] /\ 0 \in Nat
    OBVIOUS
  <2>3. \A e \in Eqs : L[e] \in Entries /\ L[e].cleared = ledger[s][e].cleared /\ L[e].zeros = ledger[s][e].zeros
    <3>1. \A e \in Eqs : ledger[s][e] \in Entries
      BY <2>1
    <3> QED BY <2>2, <3>1, EntryWaits, Zenon
  <2> HIDE DEF L
  <2>4. CASE ledger' = [ledger EXCEPT ![s] = L]
    BY <2>1, <2>2, <2>3, <2>4, LedgerWaits
  <2> QED BY <1>1, <2>1, <2>4
<1>4. DueInv' /\ due' \in [Sims -> Seq(Jobs)]
  BY <1>1, <1>2, NothingDue
<1>5. PaceTypes' /\ SwitchInv'
  BY <1>1, <1>2, <1>3, <1>4, Zenon DEF PaceTypes, SwitchInv
<1>6. PaceInv'
  BY <1>1, <1>3, <1>4, <1>5, PaceQuiet, Zenon
<1>7. \A x \in Sims : now'[x] = now[x]
  BY <1>1
<1> QED BY <1>6, <1>7, Zenon DEF Adaptive!HysteresisHolds

\* _maybe_run_adaptive decides: an equivalent is chosen only if it is not too soon, and
\* with a full window only if clearing is on.
LEMMA TickKeepsPace ==
    ASSUME Adaptive!AdaptiveAssumption, PaceInv, NEW s \in Sims, NEW sig \in [Eqs -> Signals],
           Adaptive!Tick(s, sig)
    PROVE  PaceInv' /\ Adaptive!HysteresisHolds
<1> DEFINE t == now[s] + 1
           w == [e \in Eqs |-> Adaptive!Slide(window[e], sig[e])]
           on == [e \in Eqs |-> IF Len(w[e]) >= cfg.window THEN Adaptive!Hysteresis(active[e], w[e]) ELSE active[e]]
           wish == {e \in Eqs : Adaptive!Wanted(e, w[e], on[e], t)}
           take == Adaptive!Capped(Adaptive!Sorted(wish))
           list == [i \in DOMAIN take |-> [eq |-> take[i], depth |-> Adaptive!Effective(Adaptive!Depth(w[take[i]]))]]
           arm == [e \in Eqs |-> Adaptive!AtLeast(w[e], cfg.high) \/ (armed[e] /\ Adaptive!AtLeast(w[e], cfg.low))]
           L == [e \in Eqs |-> [ledger[s][e] EXCEPT !.waited = IF e \in wish THEN ledger[s][e].waited + 1 ELSE 0]]
<1>1. Adaptive!Begins(s, sig) /\ active' = on /\ due' = [due EXCEPT ![s] = list] /\ armed' = arm
  BY Zenon DEF Adaptive!Tick
<1>2. /\ crossed' = crossed \cup {e \in Adaptive!ToSet(take) : \E x \in Sims \ {s} : e \in Adaptive!Pending(x)}
      /\ UNCHANGED <<last, streak, backoff>> /\ cfg' = cfg
  BY Zenon DEF Adaptive!Tick
<1>3. ledger' = [ledger EXCEPT ![s] = L]
  BY DEF Adaptive!Tick
<1>4. PaceTypes /\ DueInv /\ SwitchInv
  BY DEF PaceInv
<1>5. /\ due[s] = <<>> /\ now' \in [Sims -> Nat] /\ now'[s] = t /\ \A x \in Sims : now'[x] <= MaxTick[x]
      /\ \A x \in Sims \ {s} : now'[x] = now[x]
      /\ w = window' /\ w \in [Eqs -> Seq(Signals)]
      /\ \A e \in Eqs : Len(w[e]) <= cfg.window
      /\ \A e \in Eqs : Len(window[e]) = cfg.window => Len(w[e]) = cfg.window
  BY <1>1, <1>4, TickBegins
<1>6. cfg \in Configs /\ cfg.window \in Nat /\ \A e \in Eqs : Len(w[e]) \in Nat
  BY <1>4, <1>5, ConfigTypes DEF PaceTypes, Config
<1> HIDE DEF w, t
<1>7. /\ on \in [Eqs -> BOOLEAN] /\ arm \in [Eqs -> BOOLEAN]
      /\ \A e \in Eqs : on[e] => Len(w[e]) = cfg.window /\ arm[e]
  <2>1. \A e \in Eqs : active[e] \in BOOLEAN
    BY <1>4 DEF PaceTypes
  <2>2. \A e \in Eqs : Adaptive!Hysteresis(active[e], w[e]) \in BOOLEAN
    BY <2>1, Zenon DEF Adaptive!Hysteresis
  <2>3. on \in [Eqs -> BOOLEAN] /\ arm \in [Eqs -> BOOLEAN]
    BY <2>1, <2>2, Zenon
  <2>4. \A e \in Eqs : active[e] => Len(w[e]) = cfg.window /\ armed[e]
    BY <1>4, <1>5, Zenon DEF SwitchInv
  <2>5. \A e \in Eqs : Len(w[e]) >= cfg.window => Len(w[e]) = cfg.window
    BY <1>5, <1>6
  <2>6. \A e \in Eqs : Len(w[e]) = cfg.window => Len(w[e]) >= cfg.window
    BY <1>6
  <2>7. \A e \in Eqs : Adaptive!Hysteresis(active[e], w[e]) => arm[e]
    BY <2>1, <2>4, Zenon DEF Adaptive!Hysteresis
  <2> QED BY <2>3, <2>4, <2>5, <2>6, <2>7, Zenon
<1>8. \A e \in wish : e \in Eqs /\ ~Adaptive!Blocked(e, t) /\ (Len(w[e]) = cfg.window => on[e])
  <2>1. \A e \in Eqs : Len(w[e]) = cfg.window => ~(Len(w[e]) < cfg.window)
    BY <1>6
  <2> HIDE DEF on
  <2> QED BY <2>1, Zenon DEF Adaptive!Wanted
<1>9. wish \in SUBSET Eqs
  BY Zenon
<1> HIDE DEF wish, on, arm
<1>10. take \in Seq(wish) /\ \A i, j \in DOMAIN take : take[i] = take[j] => i = j
  BY <1>9, CapKeepsFirst
<1>11. Adaptive!ToSet(take) = {take[i] : i \in DOMAIN take}
  BY Zenon DEF Adaptive!ToSet
<1> HIDE DEF take
<1>12. \A i \in DOMAIN take : take[i] \in wish /\ take[i] \in Eqs
  BY <1>9, <1>10
<1>13. \A i \in DOMAIN take :
         /\ Adaptive!Effective(Adaptive!Depth(w[take[i]])) \in Nat
         /\ Adaptive!Effective(Adaptive!Depth(w[take[i]])) \in 1..Adaptive!Max({1, EngineDepth})
         /\ Adaptive!Effective(Adaptive!Depth(w[take[i]])) <= Adaptive!Max({1, cfg.depthMin, cfg.depthMax})
  <2> SUFFICES ASSUME NEW i \in DOMAIN take
               PROVE  LET d == Adaptive!Depth(w[take[i]])
                      IN  /\ Adaptive!Effective(d) \in Nat
                          /\ Adaptive!Effective(d) \in 1..Adaptive!Max({1, EngineDepth})
                          /\ Adaptive!Effective(d) <= Adaptive!Max({1, cfg.depthMin, cfg.depthMax})
    OBVIOUS
  <2>1. w[take[i]] \in Seq(Signals)
    BY <1>5, <1>12
  <2>2. Adaptive!Depth(w[take[i]]) \in Int
    BY <1>6, <2>1, DepthsAreNumbers, Zenon DEF Adaptive!Depth
  <2> QED BY <1>6, <2>2, EffectiveInBounds
<1>14. /\ list \in Seq(Jobs) /\ DOMAIN list = DOMAIN take
       /\ \A i \in DOMAIN list : list[i].eq = take[i] /\ list[i].depth = Adaptive!Effective(Adaptive!Depth(w[take[i]]))
  <2>1. DOMAIN take = 1..Len(take) /\ Len(take) \in Nat
    BY <1>10
  <2>2. \A i \in DOMAIN take : list[i] \in Jobs
    BY <1>12, <1>13 DEF Jobs
  <2> QED BY <2>1, <2>2
<1> HIDE DEF list
<1>15. /\ due' \in [Sims -> Seq(Jobs)] /\ due'[s] = list /\ \A x \in Sims \ {s} : due'[x] = due[x]
  BY <1>1, <1>4, <1>14 DEF PaceTypes
<1>16. /\ Adaptive!Pending(s)' = Adaptive!ToSet(take)
       /\ \A x \in Sims \ {s} : Adaptive!Pending(x)' = Adaptive!Pending(x)
  BY <1>11, <1>14, <1>15 DEF Adaptive!Pending
<1>17. DueInv'
  <2>1. \A x \in Sims : \A i, j \in DOMAIN due'[x] : due'[x][i].eq = due'[x][j].eq => i = j
    <3>1. \A i, j \in DOMAIN due'[s] : due'[s][i].eq = due'[s][j].eq => i = j
      BY <1>10, <1>14, <1>15
    <3> QED BY <1>4, <1>15, <3>1, Zenon DEF DueInv
  <2>2. Adaptive!DepthInBounds'
    <3>1. \A i \in DOMAIN due'[s] : /\ due'[s][i].depth \in 1..Adaptive!Max({1, EngineDepth})
                                    /\ due'[s][i].depth <= Adaptive!Max({1, cfg'.depthMin, cfg'.depthMax})
      BY <1>2, <1>13, <1>14, <1>15
    <3> QED BY <1>2, <1>4, <1>15, <3>1, Zenon DEF DueInv, Adaptive!DepthInBounds
  <2>3. ASSUME NEW x \in Sims, NEW e \in Adaptive!Pending(x)' \ crossed'
        PROVE  Ready(x, e)' /\ \A y \in Sims \ {x} : e \notin Adaptive!Pending(y)'
    <3>1. CASE x = s
      <4>1. e \in wish /\ \A y \in Sims \ {s} : e \notin Adaptive!Pending(y)
        BY <1>2, <1>11, <1>12, <1>16, <2>3, <3>1
      <4>2. ~Adaptive!Blocked(e, t) /\ e \in Eqs
        BY <1>8, <4>1
      <4>3. last[e] \in Int /\ backoff[e] \in Nat /\ t \in Int /\ cfg.minInterval \in Nat
        BY <1>4, <1>5, <1>6, <4>2, ConfigTypes DEF PaceTypes, Config
      <4>4. last[e] >= 0 => t - last[e] >= cfg.minInterval /\ t - last[e] >= backoff[e]
        BY <4>2, <4>3 DEF Adaptive!Blocked
      <4>5. Ready(x, e)'
        BY <1>2, <1>5, <3>1, <4>4 DEF Ready
      <4> QED BY <1>16, <3>1, <4>1, <4>5
    <3>2. CASE x # s
      <4>1. e \in Adaptive!Pending(x) \ crossed /\ e \notin Adaptive!Pending(s)'
        BY <1>2, <1>16, <2>3, <3>2
      <4>2. Ready(x, e) /\ \A y \in Sims \ {x} : e \notin Adaptive!Pending(y)
        BY <1>4, <4>1, Zenon DEF DueInv
      <4>3. Ready(x, e)'
        BY <1>2, <1>5, <3>2, <4>2 DEF Ready
      <4> QED BY <1>16, <4>1, <4>2, <4>3
    <3> QED BY <3>1, <3>2
  <2> QED BY <2>1, <2>2, <2>3, Zenon DEF DueInv
<1>18. /\ ledger' \in [Sims -> [Eqs -> Entries]]
       /\ \A x \in Sims, e \in Eqs :
            ledger'[x][e].cleared = ledger[x][e].cleared /\ ledger'[x][e].zeros = ledger[x][e].zeros
  <2>1. ledger \in [Sims -> [Eqs -> Entries]]
    BY <1>4 DEF PaceTypes
  <2>2. L = [e \in Eqs |-> L[e]]
    OBVIOUS
  <2>3. \A e \in Eqs : (IF e \in wish THEN ledger[s][e].waited + 1 ELSE 0) \in Nat
    BY <2>1 DEF Entries
  <2>4. \A e \in Eqs : L[e] \in Entries /\ L[e].cleared = ledger[s][e].cleared /\ L[e].zeros = ledger[s][e].zeros
    <3>1. \A e \in Eqs : ledger[s][e] \in Entries
      BY <2>1
    <3> QED BY <2>3, <3>1, EntryWaits, Zenon
  <2> HIDE DEF L
  <2> QED BY <1>3, <2>1, <2>2, <2>4, LedgerWaits
<1>19. crossed' \subseteq Eqs /\ crossed \subseteq crossed'
  BY <1>2, <1>4, <1>11, <1>12 DEF PaceTypes
<1>20. PaceTypes'
  BY <1>1, <1>2, <1>4, <1>5, <1>7, <1>15, <1>18, <1>19, Zenon DEF PaceTypes
<1>21. SwitchInv'
  BY <1>1, <1>2, <1>5, <1>7, Zenon DEF SwitchInv
<1>22. PaceInv'
  BY <1>2, <1>17, <1>18, <1>19, <1>20, <1>21, PaceQuiet, Zenon
<1>23. Adaptive!HysteresisHolds
  <2>1. \A i \in DOMAIN due'[s] : Len(window'[due'[s][i].eq]) = cfg.window => armed'[due'[s][i].eq]
    <3>1. \A e \in wish : Len(w[e]) = cfg.window => arm[e]
      BY <1>7, <1>8, Zenon
    <3>2. \A i \in DOMAIN due'[s] : due'[s][i].eq \in wish
      BY <1>12, <1>14, <1>15
    <3> QED BY <1>1, <1>5, <3>1, <3>2, Zenon
  <2> QED BY <1>5, <2>1, Zenon DEF Adaptive!HysteresisHolds
<1> QED BY <1>22, <1>23

\* update_clearing_result: the equivalent was ready, so that whoever had noted an
\* earlier clearing of it has waited long enough.
LEMMA ClearedKeepsPace ==
    ASSUME Adaptive!AdaptiveAssumption, PaceInv, NEW s \in Sims, NEW y, Adaptive!Cleared(s, y), due[s] # <<>>,
           due' = [due EXCEPT ![s] = Tail(due[s])] \/ due' = [due EXCEPT ![s] = <<>>],
           UNCHANGED <<now, window, crossed>>, cfg' = cfg, active' = active, armed' = armed
    PROVE  PaceInv'
<1>1. PaceTypes /\ DueInv /\ BackoffInv /\ SwitchInv
  BY DEF PaceInv
<1>2. Config(cfg) /\ cfg \in Configs /\ cfg.minInterval \in Nat
  BY <1>1, ConfigTypes DEF PaceTypes, Config
<1>3. due \in [Sims -> Seq(Jobs)] /\ due[s] \in Seq(Jobs)
  BY <1>1 DEF PaceTypes
<1>4. PICK f \in Eqs : f = Head(due[s]).eq /\ f = due[s][1].eq /\ 1 \in DOMAIN due[s]
  <2>1. Head(due[s]) \in Jobs /\ Head(due[s]) = due[s][1] /\ 1 \in DOMAIN due[s]
    BY <1>3, TakeFirst
  <2> QED BY <2>1 DEF Jobs
<1>5. PICK n \in Nat : n = now[s]
  BY <1>1 DEF PaceTypes
<1>6. PICK z \in Nat : z = IF y = "some" THEN 0 ELSE streak[f] + 1
  BY <1>1 DEF PaceTypes
<1>7. /\ last' = [last EXCEPT ![f] = n] /\ streak' = [streak EXCEPT ![f] = z]
      /\ backoff' = [backoff EXCEPT ![f] = Lag(z)]
  BY <1>4, <1>5, <1>6, Zenon DEF Adaptive!Cleared, Lag
<1>8. PICK r \in Entries : /\ r.cleared = n /\ r.zeros = z
                          /\ ledger' = [ledger EXCEPT ![s] = [ledger[s] EXCEPT ![f] = r]]
  <2> DEFINE r == [cleared |-> n, zeros |-> z, waited |-> 0]
  <2>1. ledger' = [ledger EXCEPT ![s] = [ledger[s] EXCEPT ![f] = r]]
    BY <1>4, <1>5, <1>6 DEF Adaptive!Cleared
  <2>2. r \in Entries /\ r.cleared = n /\ r.zeros = z
    BY DEF Entries
  <2> HIDE DEF r
  <2> QED BY <2>1, <2>2
<1>9. Lag(z) \in Nat
  BY <1>2, LagType
<1>10. /\ ledger' \in [Sims -> [Eqs -> Entries]] /\ ledger'[s][f] = r
       /\ \A x \in Sims, e \in Eqs : x # s \/ e # f => ledger'[x][e] = ledger[x][e]
  <2>1. ledger \in [Sims -> [Eqs -> Entries]] /\ [ledger[s] EXCEPT ![f] = r] \in [Eqs -> Entries]
    BY <1>1 DEF PaceTypes
  <2> QED BY <1>8, <2>1
<1>11. \A e \in Eqs : /\ e # f => last'[e] = last[e] /\ streak'[e] = streak[e] /\ backoff'[e] = backoff[e]
                      /\ e = f => last'[e] = n /\ streak'[e] = z /\ backoff'[e] = Lag(z)
  BY <1>1, <1>7 DEF PaceTypes
<1>12. /\ due' \in [Sims -> Seq(Jobs)] /\ \A x \in Sims \ {s} : due'[x] = due[x]
       /\ \A i \in DOMAIN due'[s] : i + 1 \in DOMAIN due[s] /\ due'[s][i] = due[s][i + 1] /\ i \in Nat /\ i + 1 # 1
  <2>1. CASE due' = [due EXCEPT ![s] = Tail(due[s])]
    <3>1. /\ Tail(due[s]) \in Seq(Jobs)
          /\ \A i \in DOMAIN Tail(due[s]) : i + 1 \in DOMAIN due[s] /\ Tail(due[s])[i] = due[s][i + 1]
      BY <1>3, TakeFirst
    <3>2. \A i \in DOMAIN Tail(due[s]) : i \in Nat /\ i + 1 # 1
      BY <3>1
    <3> QED BY <1>3, <2>1, <3>1, <3>2
  <2>2. CASE due' = [due EXCEPT ![s] = <<>>]
    BY <1>3, <2>2
  <2> QED BY <2>1, <2>2
<1>13. /\ Adaptive!Pending(s)' \subseteq Adaptive!Pending(s) \ {f} /\ f \in Adaptive!Pending(s)
       /\ \A x \in Sims \ {s} : Adaptive!Pending(x)' = Adaptive!Pending(x)
  <2>1. \A i \in DOMAIN due'[s] : due'[s][i].eq # due[s][1].eq
    BY <1>1, <1>4, <1>12, Zenon DEF DueInv
  <2> QED BY <1>4, <1>12, <2>1 DEF Adaptive!Pending
<1>14. \A x \in Sims : Adaptive!Pending(x) \subseteq Eqs
  <2>1. \A x \in Sims : \A i \in DOMAIN due[x] : due[x][i] \in Jobs
    BY <1>3
  <2> QED BY <2>1 DEF Jobs, Adaptive!Pending
<1>15. PaceTypes'
  <2>1. last' \in [Eqs -> Nat \cup {-1}] /\ streak' \in [Eqs -> Nat] /\ backoff' \in [Eqs -> Nat]
    <3>1. last \in [Eqs -> Nat \cup {-1}] /\ streak \in [Eqs -> Nat] /\ backoff \in [Eqs -> Nat]
      BY <1>1 DEF PaceTypes
    <3> QED BY <1>7, <1>9, <3>1
  <2> QED BY <1>1, <1>10, <1>12, <2>1, Zenon DEF PaceTypes
<1>16. ASSUME f \notin crossed
       PROVE  /\ last[f] \in Int /\ (last[f] >= 0 => n - last[f] >= cfg.minInterval /\ n - last[f] >= Lag(streak[f]))
              /\ \A x \in Sims \ {s} : f \notin Adaptive!Pending(x)
  <2>1. /\ Ready(s, f) /\ backoff[f] = Lag(streak[f]) /\ last[f] \in Int
        /\ \A x \in Sims \ {s} : f \notin Adaptive!Pending(x)
    BY <1>1, <1>13, <1>16 DEF DueInv, BackoffInv, PaceTypes
  <2> QED BY <1>5, <2>1 DEF Ready
<1>17. DueInv'
  <2>1. \A x \in Sims : \A i, j \in DOMAIN due'[x] : due'[x][i].eq = due'[x][j].eq => i = j
    <3>1. ASSUME NEW i \in DOMAIN due'[s], NEW j \in DOMAIN due'[s], due'[s][i].eq = due'[s][j].eq
          PROVE  i = j
      <4>1. PICK a \in DOMAIN due[s], b \in DOMAIN due[s] :
              a = i + 1 /\ b = j + 1 /\ due'[s][i] = due[s][a] /\ due'[s][j] = due[s][b]
        BY <1>12
      <4>2. a = b
        BY <1>1, <3>1, <4>1, Zenon DEF DueInv
      <4> QED BY <1>12, <4>1, <4>2
    <3> QED BY <1>1, <1>12, <3>1, Zenon DEF DueInv
  <2>2. Adaptive!DepthInBounds'
    <3>1. Adaptive!DepthInBounds
      BY <1>1 DEF DueInv
    <3>2. \A i \in DOMAIN due'[s] : /\ due'[s][i].depth \in 1..Adaptive!Max({1, EngineDepth})
                                    /\ due'[s][i].depth <= Adaptive!Max({1, cfg.depthMin, cfg.depthMax})
      BY <1>12, <3>1, Zenon DEF Adaptive!DepthInBounds
    <3> QED BY <1>12, <3>1, <3>2, Zenon DEF Adaptive!DepthInBounds
  <2>3. ASSUME NEW x \in Sims, NEW e \in Adaptive!Pending(x)' \ crossed'
        PROVE  Ready(x, e)' /\ \A q \in Sims \ {x} : e \notin Adaptive!Pending(q)'
    <3>1. e \in Adaptive!Pending(x) \ crossed /\ e \in Eqs
      BY <1>13, <1>14, <2>3
    <3>2. e # f
      BY <1>13, <1>16, <2>3, <3>1
    <3>3. Ready(x, e) /\ \A q \in Sims \ {x} : e \notin Adaptive!Pending(q)
      BY <1>1, <3>1, Zenon DEF DueInv
    <3>4. Ready(x, e)'
      BY <1>11, <3>1, <3>2, <3>3 DEF Ready
    <3> QED BY <1>13, <3>3, <3>4
  <2> QED BY <2>1, <2>2, <2>3, Zenon DEF DueInv
<1>18. BackoffInv'
  <2>1. ASSUME NEW x \in Sims, NEW e \in Eqs \ crossed' PROVE NotedAs(ledger'[x][e], last'[e], streak'[e])
    <3>1. CASE x = s /\ e = f
      BY <1>8, <1>10, <1>11, <3>1 DEF NotedAs
    <3>2. CASE ~(x = s /\ e = f)
      <4>1. PICK m \in Entries : m = ledger[x][e] /\ m = ledger'[x][e]
        BY <1>1, <1>10, <3>2 DEF PaceTypes
      <4>2. NotedAs(m, last[e], streak[e])
        BY <1>1, <2>1, <4>1 DEF BackoffInv
      <4>3. CASE e # f
        BY <1>11, <4>1, <4>2, <4>3
      <4>4. CASE e = f
        <5>1. m.cleared \in Int /\ m.zeros \in Nat
          BY DEF Entries
        <5>2. Lag(m.zeros) \in Nat /\ Lag(streak[f]) \in Nat
          BY <1>1, <1>2, <5>1, LagType DEF PaceTypes
        <5>3. last[f] \in Int /\ (last[f] >= 0 => n - last[f] >= cfg.minInterval /\ n - last[f] >= Lag(streak[f]))
          BY <1>16, <2>1, <4>4
        <5>4. m.cleared >= 0 => n - m.cleared >= cfg.minInterval /\ n - m.cleared >= Lag(m.zeros)
          BY <1>2, <4>2, <4>4, <5>1, <5>2, <5>3 DEF NotedAs
        <5> QED BY <1>11, <4>1, <4>4, <5>4 DEF NotedAs
      <4> QED BY <4>3, <4>4
    <3> QED BY <3>1, <3>2
  <2>2. \A e \in Eqs : backoff'[e] = Lag(streak'[e])
    BY <1>1, <1>11 DEF BackoffInv
  <2>3. (\A e \in Eqs : backoff[e] = Lag(streak[e]))'
    BY <2>2, Zenon DEF Lag, Adaptive!Interval
  <2>4. (\A x \in Sims, e \in Eqs \ crossed : NotedAs(ledger[x][e], last[e], streak[e]))'
    BY <2>1, Zenon DEF NotedAs, Lag, Adaptive!Interval
  <2> QED BY <2>3, <2>4, Zenon DEF BackoffInv
<1>19. SwitchInv'
  BY <1>1, Zenon DEF SwitchInv
<1> QED BY <1>15, <1>17, <1>18, <1>19 DEF PaceInv

LEMMA PaceNextInv ==
    ASSUME Adaptive!AdaptiveAssumption, PaceInv, [Adaptive!AdaptiveNext]_adaptiveVars
    PROVE  PaceInv' /\ Adaptive!HysteresisHolds
<1>1. CASE Adaptive!AdaptiveNext
  <2>1. PICK s \in Sims :
          \/ \E sig \in [Eqs -> Signals] : Adaptive!Tick(s, sig) \/ Adaptive!Guarded(s, sig)
          \/ \E yield \in {"some", "zero", "timeout", "failed"} : Adaptive!ClearOne(s, yield)
          \/ Adaptive!ClearingCancelled(s)
          \/ Adaptive!PaymentsLost(s) \/ Adaptive!BudgetSpent(s)
    BY <1>1, Zenon DEF Adaptive!AdaptiveNext
  <2>2. CASE \E y : Adaptive!ClearOne(s, y) \/ Adaptive!ClearingCancelled(s)
    <3>1. PICK y : /\ Adaptive!Cleared(s, y) /\ due[s] # <<>> /\ UNCHANGED <<now, window, crossed>>
                   /\ due' = [due EXCEPT ![s] = Tail(due[s])] \/ due' = [due EXCEPT ![s] = <<>>]
                   /\ cfg' = cfg /\ active' = active /\ armed' = armed
      BY <2>2, Zenon DEF Adaptive!ClearOne, Adaptive!ClearingCancelled
    <3>2. PaceInv'
      BY <3>1, ClearedKeepsPace
    <3> QED BY <3>1, <3>2 DEF Adaptive!HysteresisHolds
  <2> QED BY <2>1, <2>2, TickKeepsPace, GuardedKeepsPace, StopKeepsPace
<1>2. CASE UNCHANGED adaptiveVars
  <2>1. /\ UNCHANGED <<now, window, last, streak, backoff, due, crossed, ledger>>
        /\ cfg' = cfg /\ active' = active /\ armed' = armed
    BY <1>2, Zenon DEF adaptiveVars
  <2>2. PaceTypes' /\ SwitchInv'
    BY <2>1, Zenon DEF PaceInv, PaceTypes, SwitchInv
  <2>3. DueInv'
    <3>1. DueInv
      BY DEF PaceInv
    <3>2. \A x \in Sims : Adaptive!Pending(x)' = Adaptive!Pending(x)
      BY <2>1, Zenon DEF Adaptive!Pending
    <3>3. \A x \in Sims : \A e : Ready(x, e) => Ready(x, e)'
      BY <2>1, Zenon DEF Ready
    <3>4. Adaptive!DepthInBounds'
      BY <2>1, <3>1, Zenon DEF DueInv, Adaptive!DepthInBounds
    <3>5. (\A x \in Sims : \A i, j \in DOMAIN due[x] : due[x][i].eq = due[x][j].eq => i = j)'
      BY <2>1, <3>1, Zenon DEF DueInv
    <3>6. (\A x \in Sims : \A e \in Adaptive!Pending(x) \ crossed :
             Ready(x, e) /\ \A y \in Sims \ {x} : e \notin Adaptive!Pending(y))'
      <4> SUFFICES ASSUME NEW x \in Sims, NEW e, e \in Adaptive!Pending(x)', e \notin crossed'
                   PROVE  Ready(x, e)' /\ \A y \in Sims \ {x} : e \notin Adaptive!Pending(y)'
        OBVIOUS
      <4>1. e \in Adaptive!Pending(x) /\ e \notin crossed
        BY <2>1, <3>2
      <4>2. Ready(x, e) /\ \A y \in Sims \ {x} : e \notin Adaptive!Pending(y)
        BY <3>1, <4>1 DEF DueInv
      <4> QED BY <3>2, <3>3, <4>2
    <3> QED BY <3>4, <3>5, <3>6, Zenon DEF DueInv
  <2>4. PaceInv'
    BY <2>1, <2>2, <2>3, PaceQuiet
  <2> QED BY <2>1, <2>4 DEF Adaptive!HysteresisHolds
<1> QED BY <1>1, <1>2

PaceHold == part = "adaptive" => PaceInv

\* adaptive_clearing_policy.py and real_tick_clearing_coordinator.py: for any number of
\* runs whose ticks interleave on one coordinator, and for any configuration, the
\* depth stays within the engine's and the configured bounds, an equivalent is chosen
\* with hysteresis, and, unless two runs were clearing it at once, it is cleared again
\* only after the cooldown and the backoff that its fruitless clearings call for.
THEOREM ClearingStaysPaced == Spec => ClearingIsPaced
<1>1. Adaptive!AdaptiveAssumption
  BY SimulatorAssumption DEF SimulatorAssumption
<1>2. Init => PaceHold
  <2> SUFFICES ASSUME Init, part = "adaptive" PROVE PaceInv
    BY DEF PaceHold
  <2>1. Adaptive!AdaptiveInit
    BY DEF Init
  <2> QED BY <1>1, <2>1, PaceInitInv
<1>3. PaceHold /\ [Next]_vars => PaceHold' /\ [part = "adaptive" => Adaptive!HysteresisHolds]_vars
  <2> SUFFICES ASSUME PaceHold, [Next]_vars
               PROVE  PaceHold' /\ (part = "adaptive" => Adaptive!HysteresisHolds)
    OBVIOUS
  <2>1. part' = part /\ (part = "adaptive" => [Adaptive!AdaptiveNext]_adaptiveVars)
    BY DEF Next, vars, DriverStep, ViewerStep, driverVars, TicksStep, RunsStep, AdaptiveStep, DriftStep
  <2> QED BY <1>1, <2>1, PaceNextInv DEF PaceHold
<1>4. PaceHold => (part = "adaptive" =>
                     Adaptive!AdaptiveTypeOK /\ Adaptive!DepthInBounds /\ Adaptive!BackoffHolds)
  BY <1>1, PaceShows DEF PaceHold
<1> QED BY <1>2, <1>3, <1>4, PTL DEF Spec, ClearingIsPaced
=============================================================================
