------------------------------- MODULE Gateway -------------------------------
(***************************************************************************)
(* The query server between its clients and the transactor: the serve loop  *)
(* of a client connection and its response writer (internal/querysrv), the   *)
(* one multiplexed connection that carries the forwarded requests of all     *)
(* clients and the replication events (internal/downstream), and the         *)
(* transactor at its other end as far as it answers request by request.       *)
(*                                                                         *)
(* A response is a number of frames, the last of which says that no more      *)
(* follow.  A frame is [c, n, last], for the n-th request of client c.  What  *)
(* a frame holds is left out, and every frame is one unit of the byte caps.   *)
(***************************************************************************)
EXTENDS Integers, Sequences, FiniteSets

CONSTANTS
    Clients,
    Patient,         \* clients that go on reading and never leave
    MaxRequests,     \* bound: requests of one client
    Asks,            \* client |-> the requests it may send, each with who answers
                     \* it, the query server or the transactor, and in how many frames
    QueueMax,        \* frameWriter.maxBytes
    responseQueueSize,
    eventQueueSize,
    MaxWire,         \* messages the transactor connection holds
    MaxEvents,       \* bound: replication events sent
    MaxBreaks        \* bound: times the transactor connection breaks

ASSUME GatewayClients == IsFiniteSet(Clients) /\ Patient \subseteq Clients
ASSUME GatewayAsks ==
    Asks \in [Clients -> SUBSET [kind : {"local", "forward"}, frames : Nat \ {0}]]
ASSUME GatewayCaps ==
    /\ QueueMax \in Nat \ {0}
    /\ responseQueueSize \in Nat \ {0} /\ eventQueueSize \in Nat \ {0}
    /\ MaxWire \in Nat \ {0}
ASSUME GatewayBounds == MaxRequests \in Nat /\ MaxEvents \in Nat /\ MaxBreaks \in Nat

VARIABLES
    (* clients *)
    here,       \* the client has not closed its connection
    sent,       \* response frames written to its socket
    (* serve *)
    st,         \* where the goroutine of the connection is
    n,          \* requests read, the current one included
    left,       \* frames the current request has still to give
    id,         \* its id on the transactor connection
    frame,      \* the frame Request has received and hands to relay
    (* frameWriter *)
    queue, closed,
    drain,      \* the drain goroutine: "off", "take" or "write"
    batch,      \* what it is writing
    (* Conn *)
    link,       \* "up"; "broken", not noticed yet; "down"
    breaks,
    nextID, pending,
    chan,       \* id |-> frames in its channel
    shut,       \* ids whose channel is closed
    hold,       \* what the reader has read and not handed over, at most one
    evCh,
    applied,    \* events applied
    (* the connection and the transactor *)
    requests,   \* requests the transactor has not answered in full
    wire,       \* its frames and events on their way
    events,     \* events sent
    (* history *)
    size        \* id |-> the frames of its response

clientVars == <<here, sent>>
serveVars == <<st, n, left, id, frame>>
writerVars == <<queue, closed, drain, batch>>
connVars == <<link, breaks, nextID, pending, chan, shut, hold, evCh, applied>>
farVars == <<requests, wire, events, size>>
vars == <<clientVars, serveVars, writerVars, connVars, farVars>>

Frame(c, k, last) == [c |-> c, n |-> k, last |-> last]
NoFrame == <<>>

\* Every forwarded request takes a new id.
Ids == 1 .. Cardinality(Clients) * MaxRequests

Init ==
    /\ here = [c \in Clients |-> TRUE] /\ sent = [c \in Clients |-> <<>>]
    /\ st = [c \in Clients |-> "read"] /\ n = [c \in Clients |-> 0]
    /\ left = [c \in Clients |-> 0] /\ id = [c \in Clients |-> 0]
    /\ frame = [c \in Clients |-> NoFrame]
    /\ queue = [c \in Clients |-> <<>>] /\ closed = [c \in Clients |-> FALSE]
    /\ drain = [c \in Clients |-> "off"] /\ batch = [c \in Clients |-> <<>>]
    /\ link = "up" /\ breaks = 0 /\ nextID = 0 /\ pending = {}
    /\ chan = [i \in Ids |-> <<>>] /\ shut = {} /\ hold = <<>> /\ evCh = <<>> /\ applied = 0
    /\ requests = <<>> /\ wire = <<>> /\ events = 0 /\ size = [i \in Ids |-> 0]
-----------------------------------------------------------------------------
\* A client may leave with requests in the socket that the server can still read.
ClientLeave(c) ==
    /\ here[c] /\ c \notin Patient
    /\ here' = [here EXCEPT ![c] = FALSE]
    /\ UNCHANGED <<sent, serveVars, writerVars, connVars, farVars>>
-----------------------------------------------------------------------------
(* frameWriter.  enqueue waits at the cap; a closed writer takes nothing.    *)

\* Mutant: Nobody waits.
CanEnqueueAlways(c) == TRUE

CanEnqueue(c) == closed[c] \/ Len(queue[c]) < QueueMax

enqueue(c, f) ==
    IF closed[c] THEN UNCHANGED <<queue, drain>>
    ELSE /\ queue' = [queue EXCEPT ![c] = Append(@, f)]
         /\ drain' = [drain EXCEPT ![c] = IF @ = "off" THEN "take" ELSE @]

\* close drops what is queued.
CloseWriter(c) ==
    /\ closed' = [closed EXCEPT ![c] = TRUE]
    /\ queue' = [queue EXCEPT ![c] = <<>>]

\* The drain goroutine takes the whole queue, or ends.
DrainTake(c) ==
    /\ drain[c] = "take"
    /\ \/ /\ closed[c] \/ queue[c] = <<>>
          /\ drain' = [drain EXCEPT ![c] = "off"]
          /\ UNCHANGED <<queue, batch>>
       \/ /\ ~closed[c] /\ queue[c] # <<>>
          /\ batch' = [batch EXCEPT ![c] = queue[c]]
          /\ queue' = [queue EXCEPT ![c] = <<>>]
          /\ drain' = [drain EXCEPT ![c] = "write"]
    /\ UNCHANGED <<closed, clientVars, serveVars, connVars, farVars>>

\* ... and looks at the queue again when the batch is written.
writeFrames(c) ==
    /\ drain[c] = "write" /\ here[c] /\ st[c] # "gone"
    /\ sent' = [sent EXCEPT ![c] = Append(@, Head(batch[c]))]
    /\ batch' = [batch EXCEPT ![c] = Tail(@)]
    /\ drain' = [drain EXCEPT ![c] = IF Len(batch[c]) = 1 THEN "take" ELSE @]
    /\ UNCHANGED <<here, serveVars, queue, closed, connVars, farVars>>

\* The write fails once either side has closed the connection.
writeFails(c) ==
    /\ drain[c] = "write" /\ (~here[c] \/ st[c] = "gone")
    /\ CloseWriter(c)
    /\ batch' = [batch EXCEPT ![c] = <<>>]
    /\ drain' = [drain EXCEPT ![c] = "off"]
    /\ UNCHANGED <<clientVars, serveVars, connVars, farVars>>
-----------------------------------------------------------------------------
(* serve: one request at a time, each to its last frame.                     *)

Goto(c, s) == st' = [st EXCEPT ![c] = s]

ReadRequest(c) ==
    /\ st[c] = "read" /\ n[c] < MaxRequests
    /\ n' = [n EXCEPT ![c] = @ + 1]
    /\ \E a \in Asks[c] :
          /\ left' = [left EXCEPT ![c] = a.frames]
          /\ Goto(c, IF a.kind = "local" THEN "stream" ELSE "forward")
    /\ UNCHANGED <<clientVars, id, frame, writerVars, connVars, farVars>>

\* The read fails: the deferred close of the writer and of the connection.
ReadFails(c) ==
    /\ st[c] = "read" /\ ~here[c]
    /\ Goto(c, "gone")
    /\ CloseWriter(c)
    /\ UNCHANGED <<clientVars, n, left, id, frame, drain, batch, connVars, farVars>>

\* streamProgram: batch by batch, until the writer refuses one.
Stream(c) ==
    /\ st[c] = "stream" /\ CanEnqueue(c)
    /\ enqueue(c, Frame(c, n[c], left[c] = 1))
    /\ left' = [left EXCEPT ![c] = @ - 1]
    /\ Goto(c, IF closed[c] \/ left[c] = 1 THEN "read" ELSE "stream")
    /\ UNCHANGED <<clientVars, n, id, frame, closed, batch, connVars, farVars>>

\* The query cannot be compiled, or fails between two batches.
StreamFails(c) ==
    /\ st[c] = "stream"
    /\ Goto(c, "error")
    /\ UNCHANGED <<clientVars, n, left, id, frame, writerVars, connVars, farVars>>

\* writeError: what happens to the error frame is not looked at.
WriteError(c) ==
    /\ st[c] = "error" /\ CanEnqueue(c)
    /\ enqueue(c, Frame(c, n[c], TRUE))
    /\ Goto(c, "read")
    /\ UNCHANGED <<clientVars, n, left, id, frame, closed, batch, connVars, farVars>>
-----------------------------------------------------------------------------
(* Conn.Request on the goroutine of the connection.                          *)

\* register, under the lock: a new id and its channel, unless disconnected.
Register(c) ==
    /\ st[c] = "forward"
    /\ \/ /\ link # "down"
          /\ nextID' = nextID + 1
          /\ id' = [id EXCEPT ![c] = nextID + 1]
          /\ pending' = pending \cup {nextID + 1}
          /\ size' = [size EXCEPT ![nextID + 1] = left[c]]
          /\ Goto(c, "send")
       \/ /\ link = "down"
          /\ Goto(c, "error")
          /\ UNCHANGED <<nextID, id, pending, size>>
    /\ UNCHANGED <<clientVars, n, left, frame, writerVars, link, breaks, chan, shut, hold, evCh,
                   applied, requests, wire, events>>

\* sendFrame, after the lock is released: on whatever connection there is now.  On
\* a broken one the request may be written and lost.
Send(c) ==
    /\ st[c] = "send"
    /\ \/ /\ link = "up"
          /\ requests' = Append(requests, [id |-> id[c], c |-> c, n |-> n[c], left |-> left[c]])
          /\ Goto(c, "wait") /\ UNCHANGED pending
       \/ /\ link = "broken"
          /\ Goto(c, "wait") /\ UNCHANGED <<pending, requests>>
       \/ /\ link # "up"
          /\ pending' = pending \ {id[c]}
          /\ Goto(c, "error") /\ UNCHANGED requests
    /\ UNCHANGED <<clientVars, n, left, id, frame, writerVars, link, breaks, nextID, chan, shut,
                   hold, evCh, applied, wire, events, size>>

Receive(c) ==
    /\ st[c] = "wait" /\ chan[id[c]] # <<>>
    /\ frame' = [frame EXCEPT ![c] = Head(chan[id[c]])]
    /\ chan' = [chan EXCEPT ![id[c]] = Tail(@)]
    /\ Goto(c, "relay")
    /\ UNCHANGED <<clientVars, n, left, id, writerVars, link, breaks, nextID, pending, shut, hold,
                   evCh, applied, farVars>>

\* Mutant: The response ends without a word.
ReceiveClosedSilent(c) ==
    /\ st[c] = "wait" /\ chan[id[c]] = <<>> /\ id[c] \in shut
    /\ Goto(c, "read")
    /\ UNCHANGED <<clientVars, n, left, id, frame, writerVars, connVars, farVars>>

\* Mutant: A closed channel is read again and again.
ReceiveClosedAgain(c) ==
    st[c] = "wait" /\ chan[id[c]] = <<>> /\ id[c] \in shut /\ UNCHANGED vars

\* Mutant: A request that waits may time out, and leaves.
ReceiveTimesOut(c) ==
    /\ st[c] = "wait"
    /\ Goto(c, "error")
    /\ pending' = pending \ {id[c]}
    /\ UNCHANGED <<clientVars, n, left, id, frame, writerVars, link, breaks, nextID, chan, shut, hold,
                   evCh, applied, farVars>>

\* A closed channel gives what is in it first.
ReceiveClosed(c) ==
    /\ st[c] = "wait" /\ chan[id[c]] = <<>> /\ id[c] \in shut
    /\ Goto(c, "error")
    /\ UNCHANGED <<clientVars, n, left, id, frame, writerVars, connVars, farVars>>

\* Mutant: The request gives up and stays registered.
RelayKeepsPending(c) ==
    /\ st[c] = "relay" /\ CanEnqueue(c)
    /\ enqueue(c, frame[c])
    /\ Goto(c, IF closed[c] THEN "error" ELSE IF frame[c].last THEN "read" ELSE "wait")
    /\ frame' = [frame EXCEPT ![c] = NoFrame]
    /\ UNCHANGED <<clientVars, n, left, id, closed, batch, connVars, farVars>>

\* relay enqueues the frame; a refused one ends the request.
Relay(c) ==
    /\ st[c] = "relay" /\ CanEnqueue(c)
    /\ enqueue(c, frame[c])
    /\ pending' = IF closed[c] THEN pending \ {id[c]} ELSE pending
    /\ Goto(c, IF closed[c] THEN "error" ELSE IF frame[c].last THEN "read" ELSE "wait")
    /\ frame' = [frame EXCEPT ![c] = NoFrame]
    /\ UNCHANGED <<clientVars, n, left, id, closed, batch, link, breaks, nextID, chan, shut, hold,
                   evCh, applied, farVars>>
-----------------------------------------------------------------------------
(* The reader of the transactor connection and the applier of events.        *)

\* readerLoop, and deliver up to its unlock: a frame nobody waits for is dropped,
\* the last one ends the registration.
ReadWire ==
    /\ hold = <<>> /\ wire # <<>>
    /\ wire' = Tail(wire)
    /\ LET m == Head(wire)
       IN \/ /\ m.id = 0 \/ m.id \in pending
             /\ hold' = <<m>>
             /\ pending' = IF m.id # 0 /\ m.frame.last THEN pending \ {m.id} ELSE pending
          \/ /\ m.id # 0 /\ m.id \notin pending
             /\ UNCHANGED <<hold, pending>>
    /\ UNCHANGED <<clientVars, serveVars, writerVars, link, breaks, nextID, chan, shut, evCh,
                   applied, requests, events, size>>

ChanRoom(i) == Len(chan[i]) < responseQueueSize

\* The rest of deliver: the send blocks while the channel is full.
Deliver ==
    /\ hold # <<>> /\ hold[1].id # 0
    /\ ChanRoom(hold[1].id)
    /\ chan' = [chan EXCEPT ![hold[1].id] = Append(@, hold[1].frame)]
    /\ hold' = <<>>
    /\ UNCHANGED <<clientVars, serveVars, writerVars, link, breaks, nextID, pending, shut, evCh,
                   applied, farVars>>

QueueEvent ==
    /\ hold # <<>> /\ hold[1].id = 0
    /\ Len(evCh) < eventQueueSize
    /\ evCh' = Append(evCh, hold[1].ev)
    /\ hold' = <<>>
    /\ UNCHANGED <<clientVars, serveVars, writerVars, link, breaks, nextID, pending, chan, shut,
                   applied, farVars>>

\* Mutant: The applier ends with the first connection.
eventLoopOnce ==
    /\ evCh # <<>> /\ breaks = 0
    /\ applied' = Head(evCh) /\ evCh' = Tail(evCh)
    /\ UNCHANGED <<clientVars, serveVars, writerVars, link, breaks, nextID, pending, chan, shut,
                   hold, farVars>>

eventLoop ==
    /\ evCh # <<>>
    /\ applied' = Head(evCh) /\ evCh' = Tail(evCh)
    /\ UNCHANGED <<clientVars, serveVars, writerVars, link, breaks, nextID, pending, chan, shut,
                   hold, farVars>>

\* The reader has met the end of the stream: every waiting request is told, and
\* the events not applied yet are dropped (dropEvents).
Disconnected ==
    /\ link = "broken" /\ wire = <<>> /\ hold = <<>>
    /\ link' = "down"
    /\ shut' = shut \cup pending /\ pending' = {}
    /\ evCh' = <<>>
    /\ UNCHANGED <<clientVars, serveVars, writerVars, breaks, nextID, chan, hold, applied, farVars>>

Redial ==
    /\ link = "down" /\ link' = "up"
    /\ UNCHANGED <<clientVars, serveVars, writerVars, breaks, nextID, pending, chan, shut, hold,
                   evCh, applied, farVars>>
-----------------------------------------------------------------------------
(* The transactor and the connection to it.                                  *)

\* Engine.Serve answers one request after the other, frame by frame, as far as the
\* connection takes them.
Answer ==
    /\ link = "up" /\ requests # <<>> /\ Len(wire) < MaxWire
    /\ LET q == Head(requests)
       IN /\ wire' = Append(wire, [id |-> q.id, frame |-> Frame(q.c, q.n, q.left = 1)])
          /\ requests' = IF q.left = 1 THEN Tail(requests)
                         ELSE [requests EXCEPT ![1].left = @ - 1]
    /\ UNCHANGED <<clientVars, serveVars, writerVars, connVars, events, size>>

\* A broadcast; id 0 marks an event.
Broadcast ==
    /\ link = "up" /\ events < MaxEvents /\ Len(wire) < MaxWire
    /\ events' = events + 1
    /\ wire' = Append(wire, [id |-> 0, ev |-> events + 1])
    /\ UNCHANGED <<clientVars, serveVars, writerVars, connVars, requests, size>>

\* The connection breaks; a part of what is on its way may still arrive.
Break ==
    /\ link = "up" /\ breaks < MaxBreaks
    /\ link' = "broken" /\ breaks' = breaks + 1
    /\ requests' = <<>>
    /\ \E k \in 0 .. Len(wire) : wire' = SubSeq(wire, 1, k)
    /\ UNCHANGED <<clientVars, serveVars, writerVars, nextID, pending, chan, shut, hold, evCh,
                   applied, events, size>>
-----------------------------------------------------------------------------
Serve(c) ==
    \/ ReadFails(c) \/ Stream(c) \/ StreamFails(c) \/ WriteError(c) \/ Register(c) \/ Send(c)
    \/ Receive(c) \/ ReceiveClosed(c) \/ Relay(c)
Drain(c) == DrainTake(c) \/ writeFails(c)
Reader == ReadWire \/ Deliver \/ QueueEvent \/ Disconnected \/ Redial

Next ==
    \/ \E c \in Clients : ClientLeave(c) \/ ReadRequest(c) \/ Serve(c) \/ Drain(c) \/ writeFrames(c)
    \/ Reader \/ eventLoop \/ Answer \/ Broadcast \/ Break

\* Every goroutine that can go on does; a client need not send anything.  A write
\* to the socket of a patient client ends, since it reads; one to another client
\* may block for ever.
Fairness ==
    /\ \A c \in Clients : WF_vars(Serve(c)) /\ WF_vars(Drain(c))
    /\ \A c \in Patient : WF_vars(writeFrames(c))
    /\ WF_vars(Reader) /\ WF_vars(eventLoop) /\ WF_vars(Answer)

Spec == Init /\ [][Next]_vars /\ Fairness
-----------------------------------------------------------------------------
(* Properties.                                                              *)

\* Types and the caps on memory: the writer's queue, the response channels and the
\* event queue never outgrow them.
TypeOK ==
    /\ \A c \in Clients :
         /\ here[c] \in BOOLEAN /\ closed[c] \in BOOLEAN
         /\ st[c] \in {"read", "stream", "error", "forward", "send", "wait", "relay", "gone"}
         /\ n[c] \in 0 .. MaxRequests /\ left[c] \in Nat /\ id[c] \in 0 .. nextID
         /\ Len(queue[c]) <= QueueMax /\ Len(batch[c]) <= QueueMax
         /\ drain[c] \in {"off", "take", "write"}
    /\ link \in {"up", "broken", "down"} /\ nextID \in {0} \cup Ids
    /\ pending \subseteq Ids /\ shut \subseteq Ids /\ Len(hold) <= 1
    /\ \A i \in Ids : Len(chan[i]) <= responseQueueSize
    /\ Len(evCh) <= eventQueueSize

Finals(s) == Cardinality({i \in DOMAIN s : s[i].last})

\* The response frames of a connection so far, written or on their way.
Out(c) == sent[c] \o batch[c] \o queue[c]

\* A client gets the answers to its own requests, in the order it sent them, each
\* as one run of frames of which exactly the last says that it ends, whatever
\* other requests, events and failures of the transactor connection come between
\* (serve, streamProgram, Conn.Request, frameWriter).
RepliesFramed ==
    \A c \in Clients : ~closed[c] /\ here[c] =>
        /\ \A i \in DOMAIN Out(c) :
             /\ Out(c)[i].c = c
             /\ Out(c)[i].n = 1 + Finals(SubSeq(Out(c), 1, i - 1))
        /\ Finals(Out(c)) = IF st[c] = "read" THEN n[c] ELSE n[c] - 1

\* The registrations and the requests agree.  A request that waits is going to
\* hear: it is registered, or its channel is closed, or its last frame is on the
\* way to it.  And only a request that is still served is registered: one that has
\* given up leaves no id behind for the reader to deliver to (register, deliver,
\* Request, connectLoop).
RegistrationsMatch ==
    /\ \A c \in Clients : st[c] \in {"send", "wait"} =>
        \/ id[c] \in pending \cup shut
        \/ \E k \in DOMAIN chan[id[c]] : chan[id[c]][k].last
        \/ hold # <<>> /\ hold[1].id = id[c] /\ hold[1].frame.last
    /\ \A i \in pending : \E c \in Clients : id[c] = i /\ st[c] \in {"send", "wait", "relay"}

\* The reader holds a frame for a channel that is full.
Full == hold # <<>> /\ hold[1].id # 0 /\ ~ChanRoom(hold[1].id)
Receiver == \E c \in Clients : id[c] = hold[1].id /\ st[c] \in {"wait", "relay"}

\* The only reader of the replication stream is never left with a frame for a
\* channel that is full and that nobody receives from any more (downstream.go,
\* responseQueueSize: a slow client must never stall this reader).
ReaderNotStranded == Full => Receiver

\* How far that does hold: what a request leaves behind when it gives up is the
\* frames in its channel and the one the reader holds, for one frame at least it
\* had received.  So only a response of more than responseQueueSize + 1 frames
\* strands the reader, whoever leaves, at whatever moment, and whatever other
\* requests, events and failures come between.
StrandedByLong == Full /\ ~Receiver => size[hold[1].id] > responseQueueSize + 1

\* The reader waits on the channel of a client that does not read or has left,
\* for a response that is longer than the channel takes.
ReaderBlocked ==
    Full /\ hold[1].frame.c \notin Patient /\ size[hold[1].id] > responseQueueSize + 1

\* Every request of a client that reads is answered to its last frame, whatever
\* another client does with its own responses, unless in the end the one reader
\* waits for ever on the channel of that other client: nothing else stops it.
Served ==
    \A c \in Patient : \A k \in 1 .. MaxRequests :
        <>[]ReaderBlocked \/ (n[c] >= k ~> Finals(sent[c]) >= k)

\* Every replication event leaves the connection: it is applied, or dropped with
\* the connection that brought it.  Again unless the reader waits for ever on the
\* channel of a client that does not read or has left.
Outstanding(k) ==
    \/ \E i \in DOMAIN wire : wire[i] = [id |-> 0, ev |-> k]
    \/ hold = <<[id |-> 0, ev |-> k]>>
    \/ \E i \in DOMAIN evCh : evCh[i] = k
EventsFlow ==
    \A k \in 1 .. MaxEvents : <>[]ReaderBlocked \/ (Outstanding(k) ~> ~Outstanding(k))

\* What deliver is to guarantee: "a slow client must never stall this reader".
ReaderFlows == \A k \in 1 .. MaxEvents : Outstanding(k) ~> ~Outstanding(k)

=============================================================================
