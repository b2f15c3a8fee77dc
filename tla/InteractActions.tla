-------------------------- MODULE InteractActions --------------------------
(***************************************************************************)
(* app/api/v1/simulator.py: the actions a viewer applies to a real run     *)
(* (trustline-create, -update, -close, payment-real), the lazy seeding of  *)
(* the scenario they start with (real_scenario_seeder.py) and the view of  *)
(* the lines that snapshot_builder.py derives.                             *)
(*                                                                         *)
(* A pair is a trust line <<creditor, debtor>> in one equivalent.  Every   *)
(* transaction of the database is serializable and is one step; what runs  *)
(* between two awaits of a request is one step.  The scenario kept in      *)
(* memory is changed after the commit, in a step of its own, and not at    *)
(* all when the answer of the commit is lost.  A request ends with "ok",   *)
(* with a declared error, or with an answer that leaves its outcome open   *)
(* ("unknown": a 500, ENGINE_TIMEOUT, PAYMENT_REJECTED).                   *)
(***************************************************************************)
EXTENDS Integers, Sequences

CONSTANTS
    Requests,     \* bound: requests in progress at a time
    Pairs,        \* the pairs a request may name
    InRun,        \* the pairs whose two participants are in the scenario
    Limits,       \* bound: limits a request may set
    MaxRequests   \* bound: requests of a behaviour

\* What the constants must satisfy; every instance assumes it.
InteractAssumption ==
    /\ InRun \subseteq Pairs
    /\ Limits \subseteq Nat \ {0}
    /\ MaxRequests \in Nat
    /\ {"tick", "free"} \cap Requests = {}

VARIABLES
    runState,  \* run.state: "live" or "terminal"
    seeded,    \* run._real_seeded
    rows,      \* the scenario's participants and equivalents are in the database
    seeder,    \* who holds run._real_seeding_lock
    line,      \* limit of the live row of a pair, NoLine when there is none
    debt,      \* what the debtor of a pair owes its creditor
    snap,      \* limits of the pair's entries in run._scenario_raw["trustlines"]
    pc,        \* where each request is
    job,       \* what each request asks for
    done,      \* the request's change is durable
    arrived,   \* requests so far
    overlapped, \* history: a request arrived while another was in progress
    astray     \* history: pairs whose row memory never learned of

db == <<line, debt>>
arrivals == <<arrived, overlapped>>
requestVars == <<pc, job, done, arrivals>>
vars == <<runState, seeded, rows, seeder, db, snap, astray, requestVars>>

NoLine == -1
Ops == {"create", "update", "close", "pay"}
Jobs == [op : Ops, pair : Pairs, lim : Limits]
NoJob == [op |-> "none"]
Ended == {"idle", "ok", "error", "unknown"}

InteractTypeOK ==
    /\ runState \in {"live", "terminal"}
    /\ seeded \in BOOLEAN /\ rows \in BOOLEAN
    /\ seeder \in Requests \cup {"tick", "free"}
    /\ line \in [Pairs -> Limits \cup {NoLine}]
    /\ debt \in [Pairs -> Nat]
    /\ snap \in [Pairs -> Seq(Limits)]
    /\ pc \in [Requests -> Ended \cup {"seed", "wait", "seeding", "scope",
                                       "transact", "mutate", "publish"}]
    /\ job \in [Requests -> Jobs \cup {NoJob}]
    /\ done \in [Requests -> BOOLEAN]
    /\ arrived \in 0..MaxRequests /\ overlapped \in BOOLEAN
    /\ astray \subseteq InRun

\* The database is shared by all runs: an earlier one may have left lines that
\* this scenario has, and lines that it does not have.  The rows of a pair outside
\* the scenario are never read.
InteractInit ==
    /\ runState = "live" /\ seeded = FALSE /\ rows \in BOOLEAN /\ seeder = "free"
    /\ snap \in [Pairs -> {<<>>} \cup {<<l>> : l \in Limits}]
    /\ \A p \in Pairs \ InRun : snap[p] = <<>>
    /\ line \in [Pairs -> Limits \cup {NoLine}]
    /\ \A p \in Pairs : line[p] # NoLine => p \in InRun /\ rows
    /\ debt = [p \in Pairs |-> 0]
    /\ pc = [r \in Requests |-> "idle"]
    /\ job = [r \in Requests |-> NoJob]
    /\ done = [r \in Requests |-> FALSE]
    /\ arrived = 0 /\ overlapped = FALSE
    /\ astray = {p \in InRun : line[p] # NoLine /\ snap[p] = <<>>}

Live(p) == line[p] # NoLine

Goto(r, label) == pc' = [pc EXCEPT ![r] = label]

\* A request ends; what it asked for is forgotten.
Answer(r, outcome) ==
    /\ Goto(r, outcome)
    /\ job' = [job EXCEPT ![r] = NoJob]
    /\ UNCHANGED arrivals

-----------------------------------------------------------------------------
(* The door: the run exists, the actor owns it, it is not over. *)

Actors == {"owner", "other", "admin"}

CheckRunAccess(actor) == actor = "admin" \/ actor = "owner"

GetRunChecked(actor) == CheckRunAccess(actor) /\ runState # "terminal"

Arrive(r, j, actor) ==
    /\ pc[r] \in Ended /\ arrived < MaxRequests
    /\ GetRunChecked(actor)
    /\ arrived' = arrived + 1
    /\ overlapped' = (overlapped \/ \E q \in Requests : pc[q] \notin Ended)
    /\ Goto(r, "seed")
    /\ job' = [job EXCEPT ![r] = j]
    /\ done' = [done EXCEPT ![r] = FALSE]
    /\ UNCHANGED <<runState, seeded, rows, seeder, db, snap, astray>>

\* Actions disabled, access denied, run over, self loop, malformed amount.
Refuse(r) ==
    /\ pc[r] \in Ended /\ arrived < MaxRequests
    /\ arrived' = arrived + 1
    /\ Goto(r, "error")
    /\ done' = [done EXCEPT ![r] = FALSE]
    /\ UNCHANGED <<job, overlapped, runState, seeded, rows, seeder, db, snap, astray>>

StopRun ==
    /\ runState = "live"
    /\ runState' = "terminal"
    /\ UNCHANGED <<seeded, rows, seeder, db, snap, astray, requestVars>>

-----------------------------------------------------------------------------
(* Seeding: under the run's lock, with the flag checked before and after. *)

\* The equivalents and the participants the database lacks are added.
SeedRows == rows' = TRUE

\* The rows that seeding adds: a pair with a live row keeps it.
SeedLines ==
    line' = [p \in Pairs |->
                IF ~Live(p) /\ snap[p] # <<>> THEN snap[p][1] ELSE line[p]]

AlreadySeeded(r) ==
    /\ pc[r] = "seed" /\ seeded
    /\ Goto(r, "scope")
    /\ UNCHANGED <<job, done, arrivals, runState, seeded, rows, seeder, db, snap, astray>>

WaitForSeedLock(r) ==
    /\ pc[r] = "seed" /\ ~seeded
    /\ Goto(r, "wait")
    /\ UNCHANGED <<job, done, arrivals, runState, seeded, rows, seeder, db, snap, astray>>

\* Mutant: the flag is set when seeding starts.
TakeSeedLockEarly(r) ==
    /\ pc[r] = "wait" /\ seeder = "free"
    /\ IF seeded
       THEN Goto(r, "scope") /\ UNCHANGED seeder
       ELSE Goto(r, "seeding") /\ seeder' = r
    /\ seeded' = TRUE
    /\ UNCHANGED <<job, done, arrivals, runState, rows, db, snap, astray>>

TakeSeedLock(r) ==
    /\ pc[r] = "wait" /\ seeder = "free"
    /\ IF seeded
       THEN Goto(r, "scope") /\ UNCHANGED seeder
       ELSE Goto(r, "seeding") /\ seeder' = r
    /\ UNCHANGED <<job, done, arrivals, runState, seeded, rows, db, snap, astray>>

SeedCommits(r) ==
    /\ pc[r] = "seeding"
    /\ SeedRows /\ SeedLines /\ seeded' = TRUE
    /\ seeder' = "free"
    /\ Goto(r, "scope")
    /\ UNCHANGED <<job, done, arrivals, runState, debt, snap, astray>>

\* Scenario unavailable, or an error before the commit or in it, its answer lost
\* included: 503 SEEDING_FAILED.
SeedFails(r) ==
    /\ pc[r] = "seeding"
    /\ seeder' = "free"
    /\ (SeedRows /\ SeedLines) \/ UNCHANGED <<rows, line>>
    /\ Answer(r, "error")
    /\ UNCHANGED <<done, runState, seeded, debt, snap, astray>>

\* The tick of a running run seeds under the same lock.
TickTakesSeedLock ==
    /\ runState = "live" /\ ~seeded /\ seeder = "free"
    /\ seeder' = "tick"
    /\ UNCHANGED <<runState, seeded, rows, db, snap, astray, requestVars>>

TickSeeds ==
    /\ seeder = "tick"
    /\ seeder' = "free"
    /\ \/ SeedRows /\ SeedLines /\ seeded' \in {seeded, TRUE}
       \/ UNCHANGED <<rows, seeded, line>>
    /\ UNCHANGED <<runState, debt, snap, astray, requestVars>>

-----------------------------------------------------------------------------
(* The perimeter and the participants of the request. *)

ResolveParticipants(p) == p \in InRun /\ rows

EnterPerimeter(r) ==
    /\ pc[r] = "scope"
    /\ IF ResolveParticipants(job[r].pair)
       THEN Goto(r, "transact") /\ UNCHANGED <<job, arrivals>>
       ELSE Answer(r, "error")
    /\ UNCHANGED <<done, runState, seeded, rows, seeder, db, snap, astray>>

\* The snapshot cannot be built: 503 RUN_PERIMETER_UNAVAILABLE.
PerimeterUnavailable(r) ==
    /\ pc[r] = "scope"
    /\ Answer(r, "error")
    /\ UNCHANGED <<done, runState, seeded, rows, seeder, db, snap, astray>>

-----------------------------------------------------------------------------
(* The transaction: reads, checks, write, readback, commit. *)

Used(p) == debt[p]

\* TRUSTLINE_EXISTS and USED_EXCEEDS_NEW_LIMIT are the failing guards.
TrustlineCreate(p, lim) ==
    /\ ~Live(p) /\ lim >= Used(p)
    /\ line' = [line EXCEPT ![p] = lim]
    /\ UNCHANGED debt

TrustlineUpdate(p, lim) ==
    /\ Live(p) /\ lim >= Used(p)
    /\ line' = [line EXCEPT ![p] = lim]
    /\ UNCHANGED debt

\* The reverse debt of the pair is not modelled apart from this one.
TrustlineClose(p) ==
    /\ Live(p) /\ Used(p) = 0
    /\ line' = [line EXCEPT ![p] = NoLine]
    /\ UNCHANGED debt

\* The debtor pays the creditor one unit over their line; without room on it
\* the answer is NO_ROUTE or INSUFFICIENT_CAPACITY.
PaymentReal(p) ==
    /\ Live(p) /\ Used(p) < line[p]
    /\ debt' = [debt EXCEPT ![p] = @ + 1]
    /\ UNCHANGED line

Effect(j) ==
    \/ j.op = "create" /\ TrustlineCreate(j.pair, j.lim)
    \/ j.op = "update" /\ TrustlineUpdate(j.pair, j.lim)
    \/ j.op = "close"  /\ TrustlineClose(j.pair)
    \/ j.op = "pay"    /\ PaymentReal(j.pair)

Transact(r) ==
    /\ pc[r] = "transact"
    /\ Effect(job[r])
    /\ done' = [done EXCEPT ![r] = TRUE]
    /\ Goto(r, IF job[r].op = "pay" THEN "publish" ELSE "mutate")
    /\ UNCHANGED <<job, arrivals, runState, seeded, rows, seeder, snap, astray>>

\* A guard fails, or the unique index refuses a second live line: the transaction
\* is rolled back and the answer is a declared error.
Reject(r) ==
    /\ pc[r] = "transact" /\ job[r].op # "pay"
    /\ Answer(r, "error")
    /\ UNCHANGED <<done, runState, seeded, rows, seeder, db, snap, astray>>

\* A statement or the commit raises, and the request with it: the change is
\* rolled back, or it is durable and memory does not learn of it.  A limit that
\* only the row has is still shown, as the view takes the limits of live rows.
LoseAnswer(r) ==
    /\ pc[r] = "transact" /\ job[r].op # "pay"
    /\ \/ /\ Effect(job[r])
          /\ done' = [done EXCEPT ![r] = TRUE]
          /\ astray' = IF job[r].op = "update" THEN astray ELSE astray \cup {job[r].pair}
       \/ UNCHANGED <<db, done, astray>>
    /\ Answer(r, "unknown")
    /\ UNCHANGED <<runState, seeded, rows, seeder, snap>>

\* CONFLICT, NO_ROUTE, INSUFFICIENT_CAPACITY: the payment did not take place.
RejectPayment(r) ==
    /\ pc[r] = "transact" /\ job[r].op = "pay"
    /\ Answer(r, "error")
    /\ UNCHANGED <<done, runState, seeded, rows, seeder, db, snap, astray>>

\* ENGINE_TIMEOUT, PAYMENT_REJECTED: the payment service could not tell, or could
\* not clean up; the payment may be committed, or be committed later (Elsewhere).
PaymentUnsettled(r) ==
    /\ pc[r] = "transact" /\ job[r].op = "pay"
    /\ \/ Effect(job[r]) /\ done' = [done EXCEPT ![r] = TRUE]
       \/ UNCHANGED <<db, done>>
    /\ Answer(r, "unknown")
    /\ UNCHANGED <<runState, seeded, rows, seeder, snap, astray>>

\* A payment or a clearing outside these requests, or a late one of theirs,
\* repays a unit or lends one.
Elsewhere(p) ==
    /\ \/ debt[p] > 0 /\ debt' = [debt EXCEPT ![p] = @ - 1] /\ UNCHANGED line
       \/ PaymentReal(p)
    /\ UNCHANGED <<runState, seeded, rows, seeder, snap, astray, requestVars>>

-----------------------------------------------------------------------------
(* After the commit: the scenario in memory, the router's cache, the event. *)

\* An update changes the first entry of the pair, and adds one if there is none.
Entries(op, s, lim) ==
    CASE op = "create" -> Append(s, lim)
      [] op = "update" -> IF s = <<>> THEN <<lim>> ELSE [s EXCEPT ![1] = lim]
      [] op = "close"  -> <<>>

MutateSnapshot(p, op, lim) == snap' = [snap EXCEPT ![p] = Entries(op, @, lim)]

Mutate(r) ==
    /\ pc[r] = "mutate"
    /\ MutateSnapshot(job[r].pair, job[r].op, job[r].lim)
    /\ Goto(r, "publish")
    /\ UNCHANGED <<job, done, arrivals, runState, seeded, rows, seeder, db, astray>>

\* The events are best effort: a failure does not change the answer.
PublishTopology(r) ==
    /\ pc[r] = "publish" /\ job[r].op # "pay"
    /\ Answer(r, "ok")
    /\ UNCHANGED <<done, runState, seeded, rows, seeder, db, snap, astray>>

PublishPayment(r) ==
    /\ pc[r] = "publish" /\ job[r].op = "pay"
    /\ Answer(r, "ok")
    /\ UNCHANGED <<done, runState, seeded, rows, seeder, db, snap, astray>>

-----------------------------------------------------------------------------
Work(r) ==
    \/ AlreadySeeded(r) \/ WaitForSeedLock(r) \/ TakeSeedLock(r)
    \/ SeedCommits(r) \/ SeedFails(r)
    \/ EnterPerimeter(r) \/ PerimeterUnavailable(r)
    \/ Transact(r) \/ Reject(r) \/ LoseAnswer(r)
    \/ RejectPayment(r) \/ PaymentUnsettled(r)
    \/ Mutate(r) \/ PublishTopology(r) \/ PublishPayment(r)

InteractNext ==
    \/ \E r \in Requests : Work(r) \/ Refuse(r)
    \/ \E r \in Requests, j \in Jobs, a \in Actors : Arrive(r, j, a)
    \/ \E p \in Pairs : Elsewhere(p)
    \/ StopRun \/ TickTakesSeedLock \/ TickSeeds

InteractSpec == InteractInit /\ [][InteractNext]_vars

-----------------------------------------------------------------------------
(* Properties. *)

\* Whatever interrupts the seeding, a request past it finds the rows of the
\* scenario, and the flag never says more than the database.
SeedPrecedesUse ==
    /\ seeded => rows
    /\ \A r \in Requests : pc[r] \in {"scope", "transact", "mutate", "publish"} => rows
    /\ \A r, q \in Requests : pc[r] = "seeding" /\ pc[q] = "seeding" => r = q

\* The routes build trust lines without the service: no order of creates,
\* updates, closes and payments leaves a debt above its limit or on no line.
LimitsCoverDebts ==
    \A p \in Pairs : debt[p] > 0 => Live(p) /\ debt[p] <= line[p]

\* The answer tells what happened to the database, where it says anything: a
\* declared error means that nothing of the request is durable, a success that
\* it is.  A 500, ENGINE_TIMEOUT and PAYMENT_REJECTED leave it open.
AnswersAreTrue ==
    \A r \in Requests :
        /\ pc[r] = "error" => ~done[r]
        /\ pc[r] = "ok" => done[r]

\* A link of the snapshot has the limit of the live row, if there is one.
EnrichedLimit(p, entry) == IF Live(p) THEN line[p] ELSE entry

\* The lines a viewer is shown: one per entry of the scenario.
TrustlinesList(p) == [i \in DOMAIN snap[p] |-> EnrichedLimit(p, snap[p][i])]

Quiet == seeded /\ \A r \in Requests : pc[r] \in Ended

\* While requests come one after the other, and none is in progress, the view shows
\* the lines of the database: each live line once, with its limit, and no closed one.
\* Left out are the pairs whose row memory never learned of: an earlier run's
\* line that the scenario lacks, and a change whose commit was not answered.
SnapshotFollowsLines ==
    Quiet /\ ~overlapped => \A p \in InRun \ astray :
                TrustlinesList(p) = IF Live(p) THEN <<line[p]>> ELSE <<>>
=============================================================================
