------------------------------ MODULE EventBus ------------------------------
(***************************************************************************)
(* app/utils/event_bus.py and the socket of app/api/v1/websocket.py that   *)
(* listens to it.  A publication schedules a callback on the loop of every *)
(* subscription it matches; the callback puts the message into the         *)
(* subscription's bounded queue; a writer task takes it out and sends it.  *)
(* A client may subscribe again, leave, or lose the loop that served it,   *)
(* between any two of these steps.  Subscriptions of a socket are numbered *)
(* and publications are numbered; all sockets belong to the recipient.     *)
(***************************************************************************)
EXTENDS Integers, Sequences

CONSTANTS
    Sockets,
    Kinds,          \* event names
    QueueMax,       \* maxsize of a subscription's queue
    MaxPubs,        \* bound: publications
    MaxSubs         \* bound: subscriptions of one socket

\* What the constants must satisfy; every instance assumes it.
BusAssumption == {QueueMax, MaxPubs, MaxSubs} \subseteq Nat \ {0}

VARIABLES
    pubs,       \* kinds of the publications so far
    subs,       \* _subs: <<socket, number>> of the active subscriptions
    events,     \* kinds a subscription asked for
    callbacks,  \* scheduled deliveries of each socket's loop, in order
    queue,      \* queue of the socket's newest subscription
    gen,        \* number of the socket's newest subscription
    handler,    \* where the socket's handler is
    hand,       \* message the writer took and has not sent, 0 for none
    writer,     \* "none", "running" or "failed": the writer task
    sent,       \* publications sent over the socket
    matched,    \* history: publications scheduled for a subscription
    dropped     \* EVENT_BUS_DROPPED_TOTAL: publications a subscription missed

busVars    == <<pubs, subs, events, callbacks, matched, dropped>>
socketVars == <<queue, gen, handler, hand, writer, sent>>
allVars    == <<busVars, socketVars>>

SubIds == Sockets \X (1..MaxSubs)
Current(s) == <<s, gen[s]>>

\* "listening" waits for the client; "switching" and "closing" wait for the
\* cancelled writer; "aborted": the loop is closed and nothing runs on it.
HandlerStates == {"listening", "switching", "closing", "closed", "aborted"}

BusInit ==
    /\ pubs = <<>> /\ subs = {}
    /\ events    = [i \in SubIds |-> {}]
    /\ matched   = [i \in SubIds |-> {}]
    /\ dropped   = [i \in SubIds |-> {}]
    /\ callbacks = [s \in Sockets |-> <<>>]
    /\ queue     = [s \in Sockets |-> <<>>]
    /\ gen       = [s \in Sockets |-> 0]
    /\ handler   = [s \in Sockets |-> "listening"]
    /\ hand      = [s \in Sockets |-> 0]
    /\ writer    = [s \in Sockets |-> "none"]
    /\ sent      = [s \in Sockets |-> <<>>]

\* publish: a subscription whose loop is closed is removed and counted.
Publish(kind) ==
    LET n    == Len(pubs) + 1
        hits == {i \in subs : kind \in events[i]}
        gone == {i \in hits : handler[i[1]] = "aborted"}
    IN  /\ n <= MaxPubs
        /\ pubs' = Append(pubs, kind)
        /\ callbacks' = [s \in Sockets |->
                           IF \E i \in hits \ gone : i[1] = s
                           THEN Append(callbacks[s], [sub |-> gen[s], pub |-> n])
                           ELSE callbacks[s]]
        /\ subs'    = subs \ gone
        /\ matched' = [i \in SubIds |-> IF i \in hits THEN matched[i] \cup {n} ELSE matched[i]]
        /\ dropped' = [i \in SubIds |-> IF i \in gone THEN dropped[i] \cup {n} ELSE dropped[i]]
        /\ UNCHANGED <<events, socketVars>>

\* Mutant: a message that finds no room is neither queued nor counted.
DeliverQuietly(s) ==
    LET next   == Head(callbacks[s])
        i      == <<s, next.sub>>
        active == i \in subs
        full   == Len(queue[s]) >= QueueMax
    IN  /\ handler[s] # "aborted" /\ callbacks[s] # <<>>
        /\ callbacks' = [callbacks EXCEPT ![s] = Tail(@)]
        /\ queue' = [queue EXCEPT ![s] = IF active /\ ~full THEN Append(@, next.pub) ELSE @]
        /\ UNCHANGED <<pubs, subs, events, matched, dropped, gen, handler, hand, writer, sent>>

\* _deliver_if_active: the newest message is dropped when the queue is full.
DeliverIfActive(s) ==
    LET next   == Head(callbacks[s])
        i      == <<s, next.sub>>
        active == i \in subs
        full   == Len(queue[s]) >= QueueMax
    IN  /\ handler[s] # "aborted" /\ callbacks[s] # <<>>
        /\ callbacks' = [callbacks EXCEPT ![s] = Tail(@)]
        /\ queue' = [queue EXCEPT ![s] = IF active /\ ~full THEN Append(@, next.pub) ELSE @]
        /\ dropped' = [dropped EXCEPT ![i] = IF active /\ full THEN @ \cup {next.pub} ELSE @]
        /\ UNCHANGED <<pubs, subs, events, matched, gen, handler, hand, writer, sent>>

----------------------------------------------------------------------------
(* ws_events *)

\* A subscribe message: off the bus and on again without a pause, then cancel
\* the writer of the old queue, whose messages are lost with it.
Resubscribe(s, kinds) ==
    LET i == <<s, gen[s] + 1>>
    IN  /\ handler[s] = "listening" /\ gen[s] < MaxSubs
        /\ subs'    = (subs \ {Current(s)}) \cup {i}
        /\ events'  = [events EXCEPT ![i] = kinds]
        /\ gen'     = [gen EXCEPT ![s] = @ + 1]
        /\ queue'   = [queue EXCEPT ![s] = <<>>]
        /\ handler' = [handler EXCEPT ![s] = "switching"]
        /\ UNCHANGED <<pubs, callbacks, matched, dropped, hand, writer, sent>>

\* The cancelled writer ends; what it held was sent just before, or is lost.
WriterEnds(s) ==
    /\ hand'   = [hand EXCEPT ![s] = 0]
    /\ \/ hand[s] # 0 /\ sent' = [sent EXCEPT ![s] = Append(@, hand[s])]
       \/ UNCHANGED sent

\* The old writer has ended; a new one is created for the new queue and the
\* client is told that it is subscribed.
StartWriter(s) ==
    /\ handler[s] = "switching"
    /\ WriterEnds(s)
    /\ writer'  = [writer EXCEPT ![s] = "running"]
    /\ handler' = [handler EXCEPT ![s] = "listening"]
    /\ UNCHANGED <<busVars, queue, gen>>

\* _writer: get, then send.
WriterTakes(s) ==
    /\ handler[s] = "listening" /\ writer[s] = "running" /\ hand[s] = 0 /\ queue[s] # <<>>
    /\ hand'  = [hand EXCEPT ![s] = Head(queue[s])]
    /\ queue' = [queue EXCEPT ![s] = Tail(@)]
    /\ UNCHANGED <<busVars, gen, handler, writer, sent>>

WriterSends(s) ==
    /\ handler[s] = "listening" /\ writer[s] = "running" /\ hand[s] # 0
    /\ sent' = [sent EXCEPT ![s] = Append(@, hand[s])]
    /\ hand' = [hand EXCEPT ![s] = 0]
    /\ UNCHANGED <<busVars, queue, gen, handler, writer>>

\* The connection is broken: the writer task ends with its message, which the
\* handler notices only when it next waits for the client.
WriterFails(s) ==
    /\ handler[s] = "listening" /\ writer[s] = "running" /\ hand[s] # 0
    /\ hand'   = [hand EXCEPT ![s] = 0]
    /\ writer' = [writer EXCEPT ![s] = "failed"]
    /\ UNCHANGED <<busVars, queue, gen, handler, sent>>

\* The client leaves, or the handler fails or is cancelled, where it waits; the
\* finally block cancels the writer and waits for it.
Leave(s) ==
    /\ handler[s] \in {"listening", "switching"}
    /\ handler' = [handler EXCEPT ![s] = "closing"]
    /\ UNCHANGED <<busVars, queue, gen, hand, writer, sent>>

\* The writer has ended: off the bus, and the socket is closed.
Close(s) ==
    /\ handler[s] = "closing"
    /\ WriterEnds(s)
    /\ writer'  = [writer EXCEPT ![s] = "none"]
    /\ subs'    = subs \ {Current(s)}
    /\ handler' = [handler EXCEPT ![s] = "closed"]
    /\ UNCHANGED <<pubs, events, callbacks, matched, dropped, queue, gen>>

\* The loop of the socket is closed under it: no finally block runs, and what
\* was scheduled never happens.
LoopCloses(s) ==
    /\ handler[s] # "aborted"
    /\ handler'   = [handler EXCEPT ![s] = "aborted"]
    /\ callbacks' = [callbacks EXCEPT ![s] = <<>>]
    /\ UNCHANGED <<pubs, subs, events, matched, dropped, queue, gen, hand, writer, sent>>

SocketRuns(s) ==
    DeliverIfActive(s) \/ StartWriter(s) \/ WriterTakes(s) \/ WriterSends(s) \/ Close(s)

BusNext ==
    \/ \E kind \in Kinds : Publish(kind)
    \/ \E s \in Sockets :
         \/ SocketRuns(s)
         \/ \E kinds \in SUBSET Kinds : Resubscribe(s, kinds)
         \/ WriterFails(s) \/ Leave(s) \/ LoopCloses(s)

BusSpec == BusInit /\ [][BusNext]_allVars

\* Each loop goes on with what is ready: callbacks, the writer and the handler,
\* whose receive_text fails on a broken connection.
BusFairSpec ==
    /\ BusSpec
    /\ \A s \in Sockets :
         /\ WF_allVars(DeliverIfActive(s))
         /\ WF_allVars(StartWriter(s) \/ Close(s))
         /\ WF_allVars(WriterTakes(s) \/ WriterSends(s))
         /\ WF_allVars(writer[s] = "failed" /\ Leave(s))

----------------------------------------------------------------------------
\* Type invariant of the bus and its sockets.
BusTypeOK ==
    /\ pubs \in Seq(Kinds) /\ Len(pubs) <= MaxPubs
    /\ subs \subseteq SubIds
    /\ events \in [SubIds -> SUBSET Kinds]
    /\ {matched, dropped} \subseteq [SubIds -> SUBSET (1..MaxPubs)]
    /\ \A s \in Sockets :
         /\ callbacks[s] \in Seq([sub : 1..MaxSubs, pub : 1..MaxPubs])
         /\ queue[s] \in Seq(1..MaxPubs) /\ Len(queue[s]) <= QueueMax
         /\ sent[s] \in Seq(1..MaxPubs)
    /\ gen \in [Sockets -> 0..MaxSubs]
    /\ handler \in [Sockets -> HandlerStates]
    /\ hand \in [Sockets -> 0..MaxPubs]
    /\ writer \in [Sockets -> {"none", "running", "failed"}]

\* At most once, and in the order of publication, over any number of
\* subscriptions: the client sees no message twice and none out of order.
AtMostOnceInOrder ==
    \A s \in Sockets : \A i, j \in DOMAIN sent[s] : i < j => sent[s][i] < sent[s][j]

Seen(q) == {q[i] : i \in DOMAIN q}

\* While a subscription is on the bus and its connection works, each publication it matched is sent, held
\* by the writer, queued, scheduled, or counted as dropped; none just vanishes.
NothingVanishes ==
    \A s \in Sockets :
        Current(s) \in subs /\ handler[s] = "listening" /\ writer[s] # "failed" =>
            matched[Current(s)] \subseteq
                Seen(sent[s]) \cup {hand[s]} \cup Seen(queue[s])
                \cup {callbacks[s][i].pub : i \in DOMAIN callbacks[s]}
                \cup dropped[Current(s)]

\* A socket has one subscription on the bus, and none once it is closed: nothing
\* is scheduled for clients that are gone.
SubscriptionEndsWithSocket ==
    \A i \in subs : i = Current(i[1]) /\ handler[i[1]] # "closed"

\* Once a client has been told what it is subscribed to, it is sent nothing else:
\* neither what is left of its former queue nor what was scheduled for it.
OnlyWhatWasAsked ==
    \A s \in Sockets :
        handler[s] = "listening" /\ sent'[s] # sent[s] =>
            /\ Len(sent'[s]) = Len(sent[s]) + 1
            /\ pubs[sent'[s][Len(sent'[s])]] \in events[Current(s)]

\* A message scheduled for a subscription comes out of the socket, or is counted
\* as dropped, unless the client subscribes again or the socket ends.
MessagesArrive ==
    \A i \in SubIds : \A n \in 1..MaxPubs :
        (n \in matched[i])
            ~> (\/ n \in Seen(sent[i[1]]) \cup dropped[i]
                \/ gen[i[1]] # i[2] \/ handler[i[1]] \in {"closing", "closed", "aborted"})
=============================================================================
