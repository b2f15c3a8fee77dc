---------------------------- MODULE SseBroadcast ----------------------------
(***************************************************************************)
(* app/core/simulator/sse_broadcast.py and the stream of                   *)
(* app/api/v1/simulator.py that serves it: the event stream of one run.    *)
(* Publishing happens under one lock; each subscriber has a bounded queue  *)
(* and is closed, not skipped, when it overflows.  A client that comes     *)
(* back names the last event it received and is given the rest from the    *)
(* replay buffer, or is told to refresh.  Events are identified by their   *)
(* number; the buffer always holds the newest ones, from oldest on.        *)
(***************************************************************************)
EXTENDS Integers, Sequences, FiniteSets

CONSTANTS
    Clients,
    Topics,         \* equivalents whose events are streamed
    TopicOf,        \* the equivalent each client listens to
    BufferMax,      \* replay buffer
    QueueMax,       \* subscriber queue
    MaxSubs,        \* connections of the run
    MaxEvents,      \* bound: events of the run
    MaxBreaks       \* bound: connections that break

\* What the constants must satisfy; every instance assumes it.
SseAssumption ==
    /\ TopicOf \in [Clients -> Topics]
    /\ {BufferMax, QueueMax} \subseteq Nat \ {0}
    /\ {MaxSubs, MaxEvents, MaxBreaks} \subseteq Nat
    /\ "status" \notin Topics

VARIABLES
    log,        \* every event of the run, by number
    oldest,     \* number of the oldest event the buffer retains
    ended,      \* the run is stopped or failed
    sub,        \* "none", "bootstrap", "live", or "closed" by an overflow
    queue,      \* the subscriber's queue of event numbers; 0 is the close marker
    tail,       \* events that arrived during the bootstrap
    pc,         \* where the client's stream is
    outbox,     \* events the stream holds and is about to send
    hello,      \* number of the status event made for this subscription
    cursor,     \* Last-Event-ID the client holds, 0 for none
    breaks

subVars    == <<sub, queue, tail>>
streamVars == <<pc, outbox, hello>>
sseVars    == <<log, oldest, ended, subVars, streamVars, cursor, breaks>>

\* ended: a status that reports a terminal run; hello: made for one subscriber.
Events == [topic : Topics \cup {"status"}, ended : BOOLEAN, hello : BOOLEAN]

SubStates    == {"none", "bootstrap", "live", "closed"}
StreamStates == {"off", "draining", "replaying", "flushing", "streaming"}

SseInit ==
    /\ log = <<>> /\ oldest = 1 /\ ended = FALSE
    /\ sub    = [c \in Clients |-> "none"]
    /\ queue  = [c \in Clients |-> <<>>]
    /\ tail   = [c \in Clients |-> <<>>]
    /\ pc     = [c \in Clients |-> "off"]
    /\ outbox = [c \in Clients |-> <<>>]
    /\ hello  = [c \in Clients |-> 0]
    /\ cursor = [c \in Clients |-> 0]
    /\ breaks = 0

Registered(c) == sub[c] \in {"bootstrap", "live"}
Concerns(c, event) == event.topic \in {"status", TopicOf[c]}

\* The buffer drops what is too old and what is too much, never the event that
\* is just appended.
Prune(n) ==
    \E first \in oldest..n : first > n - BufferMax /\ oldest' = first

(***************************************************************************)
(* _dispatch_locked: every registered subscriber the event concerns gets   *)
(* it, in its queue or, while it is still being given its prefix, in its   *)
(* tail.  A subscriber without room is closed: what it has not taken yet   *)
(* is thrown away and replaced by the marker that ends its stream.         *)
(***************************************************************************)
Dispatch(n, event) ==
    LET Target(c) == Registered(c) /\ Concerns(c, event)
        Full(c) == \/ sub[c] = "bootstrap" /\ Len(tail[c]) >= QueueMax
                   \/ sub[c] = "live" /\ Len(queue[c]) >= QueueMax
    IN  /\ sub' = [c \in Clients |-> IF Target(c) /\ Full(c) THEN "closed" ELSE sub[c]]
        /\ queue' = [c \in Clients |->
                       IF Target(c) /\ Full(c) THEN <<0>>
                       ELSE IF Target(c) /\ sub[c] = "live" THEN Append(queue[c], n)
                       ELSE queue[c]]
        /\ tail' = [c \in Clients |->
                      IF Target(c) /\ Full(c) THEN <<>>
                      ELSE IF Target(c) /\ sub[c] = "bootstrap" THEN Append(tail[c], n)
                      ELSE tail[c]]

\* publish_event: number, buffer and queues under one lock.
Publish(event) ==
    LET n == Len(log) + 1
    IN  /\ n <= MaxEvents
        /\ log' = Append(log, event)
        /\ Prune(n)
        /\ Dispatch(n, event)
        /\ UNCHANGED <<streamVars, cursor, breaks>>

PublishTopic(topic) ==
    /\ Publish([topic |-> topic, ended |-> FALSE, hello |-> FALSE])
    /\ UNCHANGED ended

\* The run changes state, stop and restart included, and says so to everybody.
PublishStatus ==
    \E e \in BOOLEAN :
        /\ Publish([topic |-> "status", ended |-> e, hello |-> FALSE])
        /\ ended' = e

\* The client can be given everything after its cursor: it is no number the run
\* has not reached, and nothing after it has left the buffer.
Retained(c, first) == cursor[c] = Len(log) \/ cursor[c] >= first - 1

\* What it has missed, in the order of the numbers.
Missed(c, first) == {i \in first..Len(log) : i > cursor[c] /\ Concerns(c, log[i])}
InOrder(S) ==
    CHOOSE q \in [1..Cardinality(S) -> S] : \A i, j \in DOMAIN q : i < j => q[i] < q[j]
Replay(c, first) == InOrder(Missed(c, first))

Fits(c, replay) == cursor[c] > 0 => Len(replay) + 1 <= QueueMax

\* subscribe: replay and a status of its own are queued before any publication
\* can see the subscription.  Looking at the buffer prunes it.
Subscribe(c) ==
    LET n == Len(log) + 1
    IN  /\ pc[c] = "off"
        /\ Cardinality({d \in Clients : Registered(d)}) < MaxSubs
        /\ n <= MaxEvents
        /\ \E first \in oldest..n :
             LET replay == IF cursor[c] = 0 THEN <<>> ELSE Replay(c, first)
             IN  /\ cursor[c] = 0 => first = oldest
                 /\ cursor[c] > 0 => Retained(c, first)
                 /\ Fits(c, replay)
                 /\ \E kept \in first..n : kept > n - BufferMax /\ oldest' = kept
                 /\ queue' = [queue EXCEPT ![c] = Append(replay, n)]
        /\ log' = Append(log, [topic |-> "status", ended |-> ended, hello |-> TRUE])
        /\ sub'   = [sub EXCEPT ![c] = "bootstrap"]
        /\ tail'  = [tail EXCEPT ![c] = <<>>]
        /\ pc'    = [pc EXCEPT ![c] = "draining"]
        /\ hello' = [hello EXCEPT ![c] = n]
        /\ UNCHANGED <<ended, outbox, cursor, breaks>>

\* 410: the client refreshes its state and gives up its cursor.
ReplayUnavailable(c) ==
    /\ pc[c] = "off" /\ cursor[c] > 0
    /\ \E first \in oldest..(Len(log) + 1) :
         /\ ~Retained(c, first) \/ ~Fits(c, Replay(c, first))
         /\ oldest' = first
    /\ cursor' = [cursor EXCEPT ![c] = 0]
    /\ UNCHANGED <<log, ended, subVars, streamVars, breaks>>

----------------------------------------------------------------------------
(* _run_events_stream *)

\* The stream ends and is unsubscribed, whatever the reason.
EndStream(c) ==
    /\ pc'     = [pc EXCEPT ![c] = "off"]
    /\ outbox' = [outbox EXCEPT ![c] = <<>>]
    /\ sub'    = [sub EXCEPT ![c] = "none"]
    /\ queue'  = [queue EXCEPT ![c] = <<>>]
    /\ tail'   = [tail EXCEPT ![c] = <<>>]
    /\ UNCHANGED hello

\* Take the queue apart up to the status made for this subscription.
Drain(c) ==
    /\ pc[c] = "draining" /\ queue[c] # <<>>
    /\ IF Head(queue[c]) = 0
       THEN EndStream(c)
       ELSE /\ queue'  = [queue EXCEPT ![c] = Tail(@)]
            /\ outbox' = [outbox EXCEPT ![c] = Append(@, Head(queue[c]))]
            /\ pc'     = [pc EXCEPT ![c] = IF Head(queue[c]) = hello[c]
                                           THEN "replaying" ELSE @]
            /\ UNCHANGED <<sub, tail, hello>>
    /\ UNCHANGED <<log, oldest, ended, cursor, breaks>>

Send(c, n) == cursor' = [cursor EXCEPT ![c] = n]

\* Send the prefix and the status, whatever happens to the subscription.
SendPrefix(c) ==
    /\ pc[c] = "replaying" /\ outbox[c] # <<>>
    /\ Send(c, Head(outbox[c]))
    /\ outbox' = [outbox EXCEPT ![c] = Tail(@)]
    /\ UNCHANGED <<log, oldest, ended, subVars, pc, hello, breaks>>

\* Mutant: events that arrived during the bootstrap are forgotten.
FinishForgetsTail(c) ==
    /\ pc[c] = "replaying" /\ outbox[c] = <<>>
    /\ IF ~Registered(c) \/ log[hello[c]].ended
       THEN EndStream(c)
       ELSE /\ tail' = [tail EXCEPT ![c] = <<>>]
            /\ sub'  = [sub EXCEPT ![c] = "live"]
            /\ pc'   = [pc EXCEPT ![c] = "flushing"]
            /\ UNCHANGED <<queue, outbox, hello>>
    /\ UNCHANGED <<log, oldest, ended, cursor, breaks>>

\* finish_replay_bootstrap: the tail is taken and later events go to the queue.
FinishBootstrap(c) ==
    /\ pc[c] = "replaying" /\ outbox[c] = <<>>
    /\ IF ~Registered(c) \/ log[hello[c]].ended
       THEN EndStream(c)
       ELSE /\ outbox' = [outbox EXCEPT ![c] = tail[c]]
            /\ tail' = [tail EXCEPT ![c] = <<>>]
            /\ sub'  = [sub EXCEPT ![c] = "live"]
            /\ pc'   = [pc EXCEPT ![c] = "flushing"]
            /\ UNCHANGED <<queue, hello>>
    /\ UNCHANGED <<log, oldest, ended, cursor, breaks>>

\* A status that reports the end of the run is the last event of a stream.
SendTail(c) ==
    /\ pc[c] = "flushing"
    /\ IF outbox[c] = <<>>
       THEN /\ pc' = [pc EXCEPT ![c] = "streaming"]
            /\ UNCHANGED <<cursor, outbox, hello, subVars>>
       ELSE /\ Send(c, Head(outbox[c]))
            /\ IF log[Head(outbox[c])].ended
               THEN EndStream(c)
               ELSE /\ outbox' = [outbox EXCEPT ![c] = Tail(@)]
                    /\ UNCHANGED <<pc, hello, subVars>>
    /\ UNCHANGED <<log, oldest, ended, breaks>>

SendLive(c) ==
    /\ pc[c] = "streaming" /\ queue[c] # <<>>
    /\ IF Head(queue[c]) = 0
       THEN EndStream(c) /\ UNCHANGED cursor
       ELSE /\ Send(c, Head(queue[c]))
            /\ IF log[Head(queue[c])].ended
               THEN EndStream(c)
               ELSE /\ queue' = [queue EXCEPT ![c] = Tail(@)]
                    /\ UNCHANGED <<sub, tail, streamVars>>
    /\ UNCHANGED <<log, oldest, ended, breaks>>

StreamRuns(c) ==
    Drain(c) \/ SendPrefix(c) \/ FinishBootstrap(c) \/ SendTail(c) \/ SendLive(c)

\* The connection breaks; what was on its way is lost.
Disconnect(c) ==
    /\ pc[c] # "off" /\ breaks < MaxBreaks
    /\ breaks' = breaks + 1
    /\ EndStream(c)
    /\ UNCHANGED <<log, oldest, ended, cursor>>

SseNext ==
    \/ \E topic \in Topics : PublishTopic(topic)
    \/ PublishStatus
    \/ \E c \in Clients :
         Subscribe(c) \/ ReplayUnavailable(c) \/ StreamRuns(c) \/ Disconnect(c)

SseSpec == SseInit /\ [][SseNext]_sseVars

\* The server's event loop keeps every open stream going.
SseFairSpec == SseSpec /\ \A c \in Clients : WF_sseVars(StreamRuns(c))

----------------------------------------------------------------------------
\* Type invariant of the stream's state.
SseTypeOK ==
    /\ log \in Seq(Events)
    /\ oldest \in 1..(Len(log) + 1)
    /\ ended \in BOOLEAN
    /\ sub \in [Clients -> SubStates]
    /\ \A c \in Clients :
         \A s \in {queue[c], tail[c], outbox[c]} : s \in Seq(0..Len(log))
    /\ pc \in [Clients -> StreamStates]
    /\ hello \in [Clients -> 0..Len(log)]
    /\ cursor \in [Clients -> 0..Len(log)]
    /\ breaks \in 0..MaxBreaks

\* put_nowait never meets a full queue where the code does not expect it, so
\* that subscribe cannot fail half way with its event already numbered.
QueueHasRoom == \A c \in Clients : Len(queue[c]) <= QueueMax

\* An event meant for client c: the statuses made for other subscribers are not.
Owed(c, event) == Concerns(c, event) /\ ~event.hello

Log == INSTANCE EventLog WITH Readers <- Clients

\* Refinement: over any number of overflows, disconnects and replays a client
\* never passes an event meant for it.
NoEventSkipped == Log!LogSpec

\* A subscription that overflowed ends its stream, so that the client comes back.
ClosedIsNoticed ==
    \A c \in Clients : sub[c] = "closed" ~> (pc[c] = "off" \/ sub[c] # "closed")

\* Whatever is published after a client subscribed reaches it, unless its stream
\* ends first: the events of the bootstrap tail and of the queue both come out.
EventsArrive ==
    \A c \in Clients : \A n \in 1..MaxEvents :
        (n <= Len(log) /\ Registered(c) /\ Owed(c, log[n]) /\ hello[c] < n)
            ~> (cursor[c] >= n \/ pc[c] = "off")
=============================================================================
