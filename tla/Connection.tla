----------------------------- MODULE Connection -----------------------------
(***************************************************************************)
(* One client's connection to the daemon: the reader, writer and forwarder   *)
(* tasks of _handle_connection with their bounded queues, the PubSub bus     *)
(* behind them, the socket, and DaemonConnection with its read loop, pending *)
(* requests and event queue on the other side.  PubSub._lock is never held   *)
(* across a suspension, so subscribe, unsubscribe and publish are atomic.    *)
(***************************************************************************)
EXTENDS Integers, SequencesExt

CONSTANTS
    QueueCap,     \* _TOPIC_CONFIG: topic -> queue size, 0 is unbounded
    OutCap,       \* maxsize of the outbound queue
    HighWater,    \* frames in one direction of the socket above which drain() waits
    MaxRequests,  \* bound on the client's requests
    MaxEvents,    \* bound on the events of all topics together
    MaxSubs       \* bound on subscribe, unsubscribe and bad frames together

ASSUME QueueCapAssumption ==
    \A t \in DOMAIN QueueCap : QueueCap[t] \in Nat
ASSUME CapAssumption == OutCap \in Nat \ {0} /\ HighWater \in Nat
ASSUME BoundAssumption ==
    MaxRequests \in Nat /\ MaxEvents \in Nat /\ MaxSubs \in Nat

Topics == DOMAIN QueueCap
Requests == 1 .. MaxRequests

VARIABLES
    \* The server's side
    rd,        \* _reader: "start", "hello", "loop", "dispatch", "respond", "done"
    serving,   \* id of the request that is dispatched; 0 when there is none
    wr,        \* _writer: "get", "drain", "done"
    fw,        \* _forwarder of each topic: "none", "get", "put"
    hand,      \* event that the forwarder is putting; 0 when there is none
    outbound,  \* frames for the writer
    stop,      \* the connection's stop event
    open,      \* _handle_connection has not finished
    subbed,    \* topics in subs, and in PubSub._subs for this connection
    queue,     \* Subscriber.queue of each topic
    sent,      \* events published on each topic
    \* The socket
    c2s, s2c,
    \* The client's side
    client,    \* "connecting", "refused", "ready", "closed"
    looping,   \* _read_loop is running
    pending,   \* _pending: requests whose future is not resolved
    answers,   \* requests whose future got its result, in this order
    evq,       \* _event_queue
    received,  \* events that events() has yielded, per topic
    ended,     \* events() has returned
    asked,     \* requests made so far
    subs       \* counter behind MaxSubs

server == <<rd, serving, wr, fw, hand, outbound, stop, open, subbed, queue>>
peer   == <<client, looping, pending, answers, evq, received, ended, asked, subs>>
vars   == <<server, sent, c2s, s2c, peer>>

----------------------------------------------------------------------------
(* Frames *)

Frame(kind, arg) == [kind |-> kind, arg |-> arg, topic |-> "none"]
Event(t, n) == [kind |-> "event", arg |-> n, topic |-> t]
\* A hello of this major version; any other argument is another version.
Hello == Frame("hello", 0)
Control(kind, t) == [kind |-> kind, arg |-> 0, topic |-> t]

\* The client has closed its end of the socket.
Gone == client \in {"refused", "closed"}

\* The sentinel None of _event_queue.
Sentinel == Frame("none", 0)

----------------------------------------------------------------------------
(* PubSub *)

\* Mutant of Offer: a full queue refuses the new event and keeps the oldest.
Offer_DropsNewest(t, n) ==
    IF QueueCap[t] > 0 /\ Len(queue[t]) >= QueueCap[t]
    THEN queue[t] ELSE Append(queue[t], n)

\* Subscriber.put_nowait: a full drop_oldest queue loses its head.  The queue of
\* the "disconnect" topic is unbounded, so no subscriber is ever disconnected.
Offer(t, n) ==
    IF QueueCap[t] > 0 /\ Len(queue[t]) >= QueueCap[t]
    THEN Append(Tail(queue[t]), n) ELSE Append(queue[t], n)

\* Some part of the daemon publishes an event.
Publish(t) ==
    /\ MapThenSumSet(LAMBDA u : sent[u], Topics) < MaxEvents
    /\ sent' = [sent EXCEPT ![t] = @ + 1]
    /\ queue' = IF t \in subbed THEN [queue EXCEPT ![t] = Offer(t, sent[t] + 1)]
                ELSE queue
    /\ UNCHANGED <<rd, serving, wr, fw, hand, outbound, stop, open, subbed,
                   c2s, s2c, peer>>

----------------------------------------------------------------------------
(* _forwarder *)

\* queue.get() returns an event.
ForwarderGets(t) ==
    /\ fw[t] = "get"
    /\ queue[t] # <<>>
    /\ hand' = [hand EXCEPT ![t] = Head(queue[t])]
    /\ queue' = [queue EXCEPT ![t] = Tail(@)]
    /\ fw' = [fw EXCEPT ![t] = "put"]
    /\ UNCHANGED <<rd, serving, wr, outbound, stop, open, subbed, sent, c2s, s2c, peer>>

\* outbound.put() returns; the loop goes on unless stop is set.
ForwarderPuts(t) ==
    /\ fw[t] = "put"
    /\ Len(outbound) < OutCap
    /\ outbound' = Append(outbound, Event(t, hand[t]))
    /\ hand' = [hand EXCEPT ![t] = 0]
    /\ fw' = [fw EXCEPT ![t] = IF stop THEN "none" ELSE "get"]
    /\ UNCHANGED <<rd, serving, wr, stop, open, subbed, queue, sent, c2s, s2c, peer>>

\* The one-second timeout of queue.get() finds stop set.
ForwarderStops(t) ==
    /\ fw[t] = "get"
    /\ stop
    /\ fw' = [fw EXCEPT ![t] = "none"]
    /\ UNCHANGED <<rd, serving, wr, hand, outbound, stop, open, subbed, queue,
                   sent, c2s, s2c, peer>>

----------------------------------------------------------------------------
(* _writer *)

\* A frame, or after HEARTBEAT_INTERVAL without one a ping, is written.  The
\* reader's task starts first, so its hello precedes every other frame.
WriterTakes ==
    /\ open
    /\ rd # "start"
    /\ wr = "get"
    /\ ~Gone
    /\ \/ /\ outbound # <<>>
          /\ s2c' = Append(s2c, Head(outbound))
          /\ outbound' = Tail(outbound)
       \/ /\ outbound = <<>>
          /\ s2c' = Append(s2c, Frame("ping", 0))
          /\ UNCHANGED outbound
    /\ wr' = "drain"
    /\ UNCHANGED <<rd, serving, fw, hand, stop, open, subbed, queue, sent, c2s, peer>>

\* drain() returns.
WriterDrained ==
    /\ open
    /\ wr = "drain"
    /\ Len(s2c) <= HighWater
    /\ wr' = IF stop THEN "done" ELSE "get"
    /\ UNCHANGED <<rd, serving, fw, hand, outbound, stop, open, subbed, queue,
                   sent, c2s, s2c, peer>>

\* Mutant of WriterBroken: the error is ignored.
WriterBroken_Ignored ==
    /\ open
    /\ rd # "start"
    /\ wr \in {"get", "drain"}
    /\ Gone
    /\ wr' = "get"
    /\ UNCHANGED <<rd, serving, fw, hand, outbound, stop, open, subbed, queue,
                   sent, c2s, s2c, peer>>

\* ConnectionResetError or BrokenPipeError, of the write of a frame or a ping or
\* of a drain() that waits: the client is gone.
WriterBroken ==
    /\ open
    /\ rd # "start"
    /\ wr \in {"get", "drain"}
    /\ Gone
    /\ stop' = TRUE
    /\ wr' = "done"
    /\ UNCHANGED <<rd, serving, fw, hand, outbound, open, subbed, queue, sent,
                   c2s, s2c, peer>>

----------------------------------------------------------------------------
(* _reader *)

\* The handshake's first half.
ReaderGreets ==
    /\ rd = "start"
    /\ s2c' = Append(s2c, Hello)
    /\ rd' = "hello"
    /\ UNCHANGED <<serving, wr, fw, hand, outbound, stop, open, subbed, queue,
                   sent, c2s, peer>>

\* The client's hello arrives.  One that does not fit is answered with an error
\* and ends the connection.
ReaderHello ==
    /\ rd = "hello"
    /\ c2s # <<>>
    /\ c2s' = Tail(c2s)
    /\ \/ /\ Head(c2s) = Hello
          /\ rd' = "loop"
          /\ UNCHANGED <<s2c, stop>>
       \/ /\ Head(c2s) # Hello
          /\ rd' = "done"
          /\ s2c' = Append(s2c, Frame("response", 0))
          /\ stop' = TRUE
    /\ UNCHANGED <<serving, wr, fw, hand, outbound, open, subbed, queue, sent, peer>>

\* The client closed: end of the handshake or of the main loop.
ReaderEOF ==
    /\ rd \in {"hello", "loop"}
    /\ Gone
    /\ c2s = <<>>
    /\ rd' = "done"
    /\ stop' = TRUE
    /\ UNCHANGED <<serving, wr, fw, hand, outbound, open, subbed, queue, sent,
                   c2s, s2c, peer>>

\* read_frame of the main loop returns frame f.
Reads(f) ==
    /\ rd = "loop"
    /\ c2s # <<>>
    /\ f = Head(c2s)
    /\ c2s' = Tail(c2s)

\* A request is handed to rpc.dispatch.
ReaderRequest(f) ==
    /\ Reads(f)
    /\ f.kind = "request"
    /\ rd' = "dispatch"
    /\ serving' = f.arg
    /\ UNCHANGED <<wr, fw, hand, outbound, stop, open, subbed, queue, sent, s2c, peer>>

\* The other frames; the loop goes on unless stop is set.
ReaderNext(p) == rd' = IF stop THEN "done" ELSE p

ReaderSubscribe(f) ==
    /\ Reads(f)
    /\ f.kind = "subscribe"
    /\ f.topic \in Topics
    /\ ReaderNext("loop")
    /\ IF f.topic \in subbed THEN UNCHANGED <<subbed, queue, fw>>
       ELSE /\ subbed' = subbed \cup {f.topic}
            /\ queue' = [queue EXCEPT ![f.topic] = <<>>]
            /\ fw' = [fw EXCEPT ![f.topic] = "get"]
    /\ UNCHANGED <<serving, wr, hand, outbound, stop, open, sent, s2c, peer>>

\* Remove the subscriber and cancel its forwarder, whatever that holds.
ReaderUnsubscribe(f) ==
    /\ Reads(f)
    /\ f.kind = "unsubscribe"
    /\ ReaderNext("loop")
    /\ subbed' = subbed \ {f.topic}
    /\ fw' = [fw EXCEPT ![f.topic] = "none"]
    /\ hand' = [hand EXCEPT ![f.topic] = 0]
    /\ queue' = [queue EXCEPT ![f.topic] = <<>>]
    /\ UNCHANGED <<serving, wr, outbound, stop, open, sent, s2c, peer>>

\* A line that is not a frame is skipped.
ReaderBadFrame(f) ==
    /\ Reads(f)
    /\ f.kind = "bad"
    /\ ReaderNext("loop")
    /\ UNCHANGED <<serving, wr, fw, hand, outbound, stop, open, subbed, queue,
                   sent, s2c, peer>>

\* A topic without an entry in _TOPIC_CONFIG ends the task with a KeyError; a
\* frame over the size limit (FrameTooLargeError) does the same.
ReaderRaises(f) ==
    /\ Reads(f)
    /\ f.kind = "subscribe" /\ f.topic \notin Topics
    /\ rd' = "done"
    /\ UNCHANGED <<serving, wr, fw, hand, outbound, stop, open, subbed, queue,
                   sent, s2c, peer>>

\* The handler returns or raises: dispatch makes a response of either.
Dispatched ==
    /\ rd = "dispatch"
    /\ rd' = "respond"
    /\ UNCHANGED <<serving, wr, fw, hand, outbound, stop, open, subbed, queue,
                   sent, c2s, s2c, peer>>

\* Mutant of ReaderResponds: a full outbound queue drops the response.
ReaderResponds_MayDrop ==
    /\ rd = "respond"
    /\ outbound' = IF Len(outbound) < OutCap
                   THEN Append(outbound, Frame("response", serving)) ELSE outbound
    /\ ReaderNext("loop")
    /\ serving' = 0
    /\ UNCHANGED <<wr, fw, hand, stop, open, subbed, queue, sent, c2s, s2c, peer>>

\* outbound.put(response) returns.
ReaderResponds ==
    /\ rd = "respond"
    /\ Len(outbound) < OutCap
    /\ outbound' = Append(outbound, Frame("response", serving))
    /\ ReaderNext("loop")
    /\ serving' = 0
    /\ UNCHANGED <<wr, fw, hand, stop, open, subbed, queue, sent, c2s, s2c, peer>>

----------------------------------------------------------------------------
(* End of the connection on the server *)

\* All tasks are cancelled, all subscriptions dropped, the socket is closed;
\* the local variables of _handle_connection are gone.
Dropped ==
    /\ open' = FALSE
    /\ rd' = "done"
    /\ wr' = "done"
    /\ serving' = 0
    /\ fw' = [t \in Topics |-> "none"]
    /\ hand' = [t \in Topics |-> 0]
    /\ queue' = [t \in Topics |-> <<>>]
    /\ subbed' = {}
    /\ outbound' = <<>>
    /\ stop' = FALSE
    /\ c2s' = <<>>
    /\ UNCHANGED <<sent, s2c, peer>>

\* asyncio.wait returns: the reader or the writer has ended.
HandlerEnds ==
    /\ open
    /\ rd = "done" \/ wr = "done"
    /\ Dropped

\* The daemon ends.
DaemonEnds ==
    /\ open
    /\ Dropped

----------------------------------------------------------------------------
(* DaemonConnection *)

\* connect(): the server's hello has arrived; a version that does not fit
\* closes the connection.  Another client program may answer with a hello that
\* the daemon does not accept.
ClientHello ==
    /\ client = "connecting"
    /\ s2c # <<>>
    /\ s2c' = Tail(s2c)
    /\ \/ /\ Head(s2c) = Hello
          /\ client' = "ready"
          /\ looping' = TRUE
          /\ \E h \in {Hello, Frame("hello", 1)} : c2s' = Append(c2s, h)
       \/ /\ client' = "refused"
          /\ UNCHANGED <<looping, c2s>>
    /\ UNCHANGED <<server, sent, pending, answers, evq, received, ended, asked, subs>>

\* connect(): the daemon is gone before its hello.
ClientRefused ==
    /\ client = "connecting"
    /\ s2c = <<>>
    /\ ~open
    /\ client' = "refused"
    /\ UNCHANGED <<server, sent, c2s, s2c, looping, pending, answers, evq,
                   received, ended, asked, subs>>

\* request(): the frame is written, once drain() lets the client write, and the
\* future awaited; with the daemon gone the write raises instead.
Request ==
    /\ client = "ready"
    /\ asked < MaxRequests
    /\ Len(c2s) <= HighWater
    /\ asked' = asked + 1
    /\ IF open THEN /\ c2s' = Append(c2s, Frame("request", asked + 1))
                    /\ pending' = pending \cup {asked + 1}
       ELSE UNCHANGED <<c2s, pending>>
    /\ UNCHANGED <<server, sent, s2c, client, looping, answers, evq, received,
                   ended, subs>>

\* Subscribe, unsubscribe and malformed frames of a client.
ClientSends(f) ==
    /\ client = "ready"
    /\ open
    /\ subs < MaxSubs
    /\ Len(c2s) <= HighWater
    /\ subs' = subs + 1
    /\ c2s' = Append(c2s, f)
    /\ UNCHANGED <<server, sent, s2c, client, looping, pending, answers, evq,
                   received, ended, asked>>

\* _read_loop: a response resolves its future, an event is queued, the rest is
\* ignored.
ClientReads ==
    /\ looping
    /\ s2c # <<>>
    /\ s2c' = Tail(s2c)
    /\ LET f == Head(s2c) IN
       /\ IF f.kind = "response" /\ f.arg \in pending
          THEN /\ pending' = pending \ {f.arg}
               /\ answers' = Append(answers, f.arg)
          ELSE UNCHANGED <<pending, answers>>
       /\ evq' = IF f.kind = "event" THEN Append(evq, f) ELSE evq
    /\ UNCHANGED <<server, sent, c2s, client, looping, received, ended, asked, subs>>

\* Mutant of ClientLoopEnds: no sentinel.
ClientLoopEnds_Silent ==
    /\ looping
    /\ (s2c = <<>> /\ ~open) \/ s2c # <<>>
    /\ looping' = FALSE
    /\ UNCHANGED <<server, sent, c2s, s2c, client, pending, answers, evq, received,
                   ended, asked, subs>>

\* _read_loop ends, at the end of the stream or at a frame it cannot read.
ClientLoopEnds ==
    /\ looping
    /\ (s2c = <<>> /\ ~open) \/ s2c # <<>>
    /\ looping' = FALSE
    /\ evq' = Append(evq, Sentinel)
    /\ UNCHANGED <<server, sent, c2s, s2c, client, pending, answers, received,
                   ended, asked, subs>>

\* events(): the next item.
ClientConsumes ==
    /\ client \in {"ready", "closed"}
    /\ ~ended
    /\ evq # <<>>
    /\ evq' = Tail(evq)
    /\ IF Head(evq) = Sentinel
       THEN ended' = TRUE /\ UNCHANGED received
       ELSE /\ received' = [received EXCEPT ![Head(evq).topic] =
                                Append(@, Head(evq).arg)]
            /\ UNCHANGED ended
    /\ UNCHANGED <<server, sent, c2s, s2c, client, looping, pending, answers,
                   asked, subs>>

\* close(): the read loop is cancelled and the socket closed.  With frames left
\* unread the socket is reset, and what the client sent is lost as well.
ClientCloses ==
    /\ client = "ready"
    /\ client' = "closed"
    /\ looping' = FALSE
    /\ evq' = IF looping THEN Append(evq, Sentinel) ELSE evq
    /\ s2c' = <<>>
    /\ c2s' = IF s2c = <<>> THEN c2s ELSE <<>>
    /\ UNCHANGED <<server, sent, pending, answers, received, ended, asked, subs>>

----------------------------------------------------------------------------

Init ==
    /\ rd = "start" /\ wr = "get" /\ serving = 0
    /\ fw = [t \in Topics |-> "none"]
    /\ hand = [t \in Topics |-> 0]
    /\ queue = [t \in Topics |-> <<>>]
    /\ subbed = {}
    /\ outbound = <<>> /\ stop = FALSE /\ open = TRUE
    /\ sent = [t \in Topics |-> 0]
    /\ c2s = <<>> /\ s2c = <<>>
    /\ client = "connecting" /\ looping = FALSE
    /\ pending = {} /\ answers = <<>>
    /\ evq = <<>>
    /\ received = [t \in Topics |-> <<>>]
    /\ ended = FALSE
    /\ asked = 0 /\ subs = 0

\* What a client may send besides requests.  "voice" is a Topic that
\* _TOPIC_CONFIG does not have.
Inputs == {Control("subscribe", t) : t \in Topics \cup {"voice"}}
          \cup {Control("unsubscribe", t) : t \in Topics}
          \cup {Frame("bad", 0)}

ReaderStep ==
    \/ ReaderGreets \/ ReaderHello \/ ReaderEOF
    \/ \E f \in Range(c2s) :
        \/ ReaderRequest(f) \/ ReaderSubscribe(f) \/ ReaderUnsubscribe(f)
        \/ ReaderBadFrame(f) \/ ReaderRaises(f)
    \/ ReaderResponds

ForwarderStep(t) == ForwarderGets(t) \/ ForwarderPuts(t) \/ ForwarderStops(t)
WriterStep == WriterTakes \/ WriterDrained \/ WriterBroken

ClientStep ==
    \/ ClientHello \/ ClientRefused \/ Request \/ ClientReads \/ ClientLoopEnds
    \/ ClientConsumes \/ ClientCloses
    \/ \E f \in Inputs : ClientSends(f)

Next ==
    \/ ReaderStep \/ Dispatched
    \/ WriterStep \/ HandlerEnds \/ DaemonEnds
    \/ \E t \in Topics : ForwarderStep(t) \/ Publish(t)
    \/ ClientStep

Spec == Init /\ [][Next]_vars

\* The server's event loop starts the reader, wakes the writer (its heartbeat at
\* the latest) and the handler.  Nothing is assumed of RPC handlers (Dispatched),
\* of forwarders and publishers, or of the client.
Fairness == WF_vars(ReaderGreets) /\ WF_vars(WriterStep) /\ WF_vars(HandlerEnds)

FairSpec == Spec /\ Fairness

----------------------------------------------------------------------------
(* Properties *)

\* The arguments of the frames of a kind and topic in a sequence, in their order.
ArgsOf(kind, t, frames) ==
    LET args[n \in 0 .. Len(frames)] ==
            IF n = 0 THEN <<>>
            ELSE IF frames[n].kind = kind /\ frames[n].topic = t
                 THEN Append(args[n - 1], frames[n].arg)
                 ELSE args[n - 1]
    IN  args[Len(frames)]

\* The events of topic t, and the ids of the requests or responses.
EventsOf(t, frames) == ArgsOf("event", t, frames)
IdsOf(kind, frames) == ArgsOf(kind, "none", frames)

\* A sequence of n, or an empty one for the 0 that says that there is none.
Held(n) == IF n = 0 THEN <<>> ELSE <<n>>

\* Where the events of topic t are between Publish and events(), oldest first.
\* Once the client has closed only what it had read can still be yielded.
InFlight(t) ==
    IF Gone THEN EventsOf(t, evq)
    ELSE EventsOf(t, evq \o s2c \o outbound) \o Held(hand[t]) \o queue[t]

\* The refinement mapping: the topics are event streams, which the events leave by
\* six queues and the cancellation of whatever task holds one.
Subscribed == IF Gone THEN {} ELSE subbed

Stream == INSTANCE EventStream WITH
    Lossy <- {t \in Topics : QueueCap[t] > 0}, open <- Subscribed,
    inflight <- [t \in Topics |-> InFlight(t)]

\* Every topic implements EventStream: its events reach events() in order and
\* once, and only a full bounded queue or the end of a subscription loses one.
EventsAreStreamed == Stream!Spec

\* While the daemon serves the connection no request is lost, answered twice or
\* overtaken: the answers given, the responses and the requests under way are
\* 1, 2, 3, ... in this order.
RequestsConserved ==
    open /\ looping =>
        LET way == answers \o IdsOf("response", s2c \o outbound) \o Held(serving)
                   \o IdsOf("request", c2s)
        IN  rd # "done" => way = [i \in 1 .. asked |-> i]

\* A client that goes away is noticed, and its subscriptions end, even if an
\* RPC handler hangs and nobody publishes: by the heartbeat at the latest.
GoneClientIsDropped == Gone ~> ~open

\* An events() iterator never waits for a read loop that is gone: however the
\* loop ended, the iterator has ended or the sentinel is still ahead of it, behind
\* every event that was read.
IteratorIsReleased ==
    client \in {"ready", "closed"} /\ ~looping /\ ~ended =>
        evq # <<>> /\ Last(evq) = Sentinel

=============================================================================
