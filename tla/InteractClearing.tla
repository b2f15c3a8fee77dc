-------------------------- MODULE InteractClearing --------------------------
(***************************************************************************)
(* app/api/v1/simulator.py, action_clearing_real: a request that clears    *)
(* cycle after cycle of its run and tells the viewers what was cleared.    *)
(* The request's task can be cancelled at any await; a clearing that the   *)
(* cancellation meets during its commit is drained and reported            *)
(* (core/clearing/service.py, ClearingCommittedAfterCancellation).         *)
(***************************************************************************)
EXTENDS Naturals, Sequences, Functions

CONSTANTS
    Requests,   \* bound: clearing requests of the run
    Cycles,     \* bound: cycles of debts
    MaxRounds   \* range(0, 100) of the loop

Nobody == "nobody"

\* What the constants must satisfy; every instance assumes it.
InteractClearingAssumption == MaxRounds \in Nat \ {0} /\ Nobody \notin Requests

VARIABLES
    open,       \* cycles whose debts all exist
    clearedBy,  \* the request whose transaction cleared a cycle
    pc,         \* where each request is
    todo,       \* cycles of this round still to be tried
    rounds,     \* rounds made
    counted,    \* cycles in cleared_count and total
    shaped,     \* cycles in executed, with their edges
    pending,    \* commit_cancellation is set
    told,       \* the announcements of each request, each a set of cycles
    reported    \* cycles the answer tells of

requestVars == <<pc, todo, rounds, counted, shaped, pending, told, reported>>
vars == <<open, clearedBy, requestVars>>

EndStates == {"ok", "failed", "cancelled"}

ClearingTypeOK ==
    /\ open \subseteq Cycles
    /\ clearedBy \in [Cycles -> Requests \cup {Nobody}]
    /\ pc \in [Requests -> {"find", "try", "shape", "emit", "failing"} \cup EndStates]
    /\ todo \in [Requests -> SUBSET Cycles]
    /\ rounds \in [Requests -> 0..MaxRounds]
    /\ counted \in [Requests -> SUBSET Cycles] /\ shaped \in [Requests -> SUBSET Cycles]
    /\ \A r \in Requests : shaped[r] \subseteq counted[r]
    /\ pending \in [Requests -> BOOLEAN]
    /\ told \in [Requests -> Seq(SUBSET Cycles)]
    /\ reported \in [Requests -> SUBSET Cycles]

ClearingInit ==
    /\ open \in SUBSET Cycles
    /\ clearedBy = [c \in Cycles |-> Nobody]
    /\ pc = [r \in Requests |-> "find"]
    /\ todo = [r \in Requests |-> {}]
    /\ rounds = [r \in Requests |-> 0]
    /\ counted = [r \in Requests |-> {}]
    /\ shaped = [r \in Requests |-> {}]
    /\ pending = [r \in Requests |-> FALSE]
    /\ told = [r \in Requests |-> <<>>]
    /\ reported = [r \in Requests |-> {}]

Goto(r, label) == pc' = [pc EXCEPT ![r] = label]

\* Nothing is sent when nothing was cleared.
EmitDone(r) ==
    told' = [told EXCEPT ![r] = IF counted[r] = {} THEN @ ELSE Append(@, counted[r])]

EmitWithoutPatches(r) == EmitDone(r)

End(r, outcome) ==
    /\ Goto(r, outcome)
    /\ todo' = [todo EXCEPT ![r] = {}]
    /\ pending' = [pending EXCEPT ![r] = FALSE]
    /\ UNCHANGED <<rounds, counted, shaped>>

-----------------------------------------------------------------------------
(* The loop. *)

Find(r) ==
    /\ pc[r] = "find"
    /\ Goto(r, IF open = {} THEN "emit" ELSE "try")
    /\ todo' = [todo EXCEPT ![r] = open]
    /\ UNCHANGED <<open, clearedBy, rounds, counted, shaped, pending, told, reported>>

\* What follows the return of an amount: it is counted before anything else.
Count(r, c, cancelled) ==
    /\ counted' = [counted EXCEPT ![r] = @ \cup {c}]
    /\ pending' = [pending EXCEPT ![r] = cancelled]
    /\ todo' = [todo EXCEPT ![r] = {c}]
    /\ Goto(r, "shape")
    /\ UNCHANGED <<rounds, shaped, told, reported>>

\* The clearing commits.  Its debts that are paid off disappear, and with them
\* other cycles; a cancellation that came during the commit is kept.
Clear(r, c) ==
    /\ pc[r] = "try" /\ c \in todo[r] \cap open
    /\ clearedBy' = [clearedBy EXCEPT ![c] = r]
    /\ \E gone \in SUBSET (open \ {c}) : open' = open \ (gone \cup {c})
    /\ \E cancelled \in BOOLEAN : Count(r, c, cancelled)

\* A debt of the cycle is gone and the transaction of this very cycle is
\* found committed: its amount is returned, whichever request committed it.
Replay(r, c) ==
    /\ pc[r] = "try" /\ c \in todo[r] \ open
    /\ clearedBy[c] # Nobody
    /\ Count(r, c, FALSE)
    /\ UNCHANGED <<open, clearedBy>>

\* None is returned: the next candidate; after the last one the loop ends.
Skip(r, c) ==
    /\ pc[r] = "try" /\ c \in todo[r]
    /\ c \in open \/ clearedBy[c] = Nobody
    /\ todo' = [todo EXCEPT ![r] = @ \ {c}]
    /\ Goto(r, IF todo[r] = {c} THEN "emit" ELSE "try")
    /\ UNCHANGED <<open, clearedBy, rounds, counted, shaped, pending, told, reported>>

\* The cycle's edges are added to the answer; a kept cancellation is raised.
Shape(r) ==
    /\ pc[r] = "shape" /\ ~pending[r]
    /\ shaped' = [shaped EXCEPT ![r] = @ \cup todo[r]]
    /\ rounds' = [rounds EXCEPT ![r] = @ + 1]
    /\ todo' = [todo EXCEPT ![r] = {}]
    /\ Goto(r, IF rounds[r] + 1 = MaxRounds THEN "emit" ELSE "find")
    /\ UNCHANGED <<open, clearedBy, counted, pending, told, reported>>

\* Mutant: the kept cancellation is raised past the handler.
ShapeRaisesSilently(r) ==
    /\ pc[r] = "shape" /\ pending[r]
    /\ End(r, "cancelled")
    /\ UNCHANGED <<open, clearedBy, told, reported>>

ShapeRaisesCancellation(r) ==
    /\ pc[r] = "shape" /\ pending[r]
    /\ EmitWithoutPatches(r)
    /\ End(r, "cancelled")
    /\ UNCHANGED <<open, clearedBy, reported>>

\* find_cycles, the clearing (nothing committed) or the shaping raises.
Raise(r) ==
    /\ pc[r] \in {"find", "try", "shape"}
    /\ Goto(r, "failing")
    /\ todo' = [todo EXCEPT ![r] = {}]
    /\ pending' = [pending EXCEPT ![r] = FALSE]
    /\ UNCHANGED <<open, clearedBy, rounds, counted, shaped, told, reported>>

-----------------------------------------------------------------------------
(* The ends. *)

\* The task is cancelled while it awaits: a search, a clearing that has not
\* reached its commit, or the patches of the announcement.
Cancel(r) ==
    /\ \/ pc[r] \in {"find", "try"}
       \/ pc[r] \in {"emit", "failing"} /\ counted[r] # {}
    /\ EmitWithoutPatches(r)
    /\ End(r, "cancelled")
    /\ UNCHANGED <<open, clearedBy, reported>>

Finish(r) ==
    /\ pc[r] = "emit"
    /\ EmitDone(r)
    /\ reported' = [reported EXCEPT ![r] = counted[r]]
    /\ End(r, "ok")
    /\ UNCHANGED <<open, clearedBy>>

\* CLEARING_FAILED, with partial_cleared_cycles and partial_cleared_amount.
Fail(r) ==
    /\ pc[r] = "failing"
    /\ EmitDone(r)
    /\ reported' = [reported EXCEPT ![r] = counted[r]]
    /\ End(r, "failed")
    /\ UNCHANGED <<open, clearedBy>>

\* Payments make new debts.
OpenCycle(c) ==
    /\ c \notin open /\ clearedBy[c] = Nobody
    /\ open' = open \cup {c}
    /\ UNCHANGED <<clearedBy, requestVars>>

-----------------------------------------------------------------------------
Step(r) ==
    \/ Find(r) \/ (\E c \in Cycles : Clear(r, c) \/ Replay(r, c) \/ Skip(r, c))
    \/ Shape(r) \/ ShapeRaisesCancellation(r) \/ Finish(r) \/ Fail(r)

ClearingNext ==
    \/ \E r \in Requests : Step(r) \/ Raise(r) \/ Cancel(r)
    \/ \E c \in Cycles : OpenCycle(c)

\* The event loop resumes every request; it need neither fail nor be cancelled.
ClearingSpec ==
    /\ ClearingInit /\ [][ClearingNext]_vars
    /\ \A r \in Requests : WF_vars(Step(r))

-----------------------------------------------------------------------------
(* Properties. *)

Over(r) == pc[r] \in EndStates

\* Whatever ends the request, cancellation and failure included, every cycle
\* it cleared durably has been announced to the viewers of the run.
DurableIsAnnounced ==
    \A r \in Requests, c \in Cycles :
        Over(r) /\ clearedBy[c] = r => c \in UNION Range(told[r])

\* A request announces at most once, so that no viewer adds up its progress
\* twice: the handlers that announce are never run one after the other.
AnnouncedAtMostOnce == \A r \in Requests : Len(told[r]) <= 1

\* An answer tells of every cycle the request cleared and of none that is
\* not durable, a failed one included.
AnswerTellsProgress ==
    \A r \in Requests : pc[r] \in {"ok", "failed"} =>
        /\ \A c \in Cycles : clearedBy[c] = r => c \in reported[r]
        /\ \A c \in reported[r] : clearedBy[c] # Nobody

\* A request ends, without a failure or a cancellation to end it: it tries a
\* candidate once in a round, though payments make new cycles meanwhile.
RequestsEnd == \A r \in Requests : <>Over(r)
=============================================================================
