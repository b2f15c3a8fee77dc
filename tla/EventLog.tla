------------------------------ MODULE EventLog ------------------------------
(***************************************************************************)
(* What a simulator run promises the readers of its event stream: one log, *)
(* and a cursor per reader that never passes an event meant for the reader *)
(* without delivering it.  A reader that gives its cursor up refreshes its *)
(* state and starts anew at some later point of the log.                   *)
(***************************************************************************)
EXTENDS Naturals, Sequences

CONSTANTS
    Readers,
    Events,
    Owed(_, _)      \* Owed(c, event): the event is meant for reader c

VARIABLES
    log,            \* events, in the order of their ids
    cursor          \* id of the last event each reader received, 0 for none

logVars == <<log, cursor>>

LogInit == log = <<>> /\ cursor = [c \in Readers |-> 0]

Write == \E event \in Events : log' = Append(log, event) /\ UNCHANGED cursor

Read(c) ==
    /\ \E i \in DOMAIN log :
         /\ i > cursor[c]
         /\ cursor[c] > 0 => \A j \in (cursor[c] + 1)..(i - 1) : ~Owed(c, log[j])
         /\ cursor' = [cursor EXCEPT ![c] = i]
    /\ UNCHANGED log

Refresh(c) == cursor' = [cursor EXCEPT ![c] = 0] /\ UNCHANGED log

LogNext == Write \/ \E c \in Readers : Read(c) \/ Refresh(c)

LogSpec == LogInit /\ [][LogNext]_logVars
=============================================================================
