--------------------------- MODULE Gateway_proofs ---------------------------
(***************************************************************************)
(* Proofs about Gateway, for any number of clients and requests, any       *)
(* response lengths and any number of events and broken connections.       *)
(***************************************************************************)
EXTENDS Gateway, FiniteSetTheorems, FunctionTheorems, SequenceTheorems, TLAPS

ResponseFrames == [c : Clients, n : 0 .. MaxRequests, last : BOOLEAN]
Messages == [id : Ids, frame : ResponseFrames] \cup [id : {0}, ev : Nat]
Requests == [id : Ids, c : Clients, n : 0 .. MaxRequests, left : Nat \ {0}]
States == {"read", "stream", "error", "forward", "send", "wait", "relay", "gone"}

\* The types of the variables, in full.
TypeInv ==
  /\ here \in [Clients -> BOOLEAN] /\ closed \in [Clients -> BOOLEAN]
  /\ st \in [Clients -> States] /\ n \in [Clients -> 0 .. MaxRequests]
  /\ left \in [Clients -> Nat] /\ id \in [Clients -> 0 .. nextID]
  /\ frame \in [Clients -> ResponseFrames \cup {NoFrame}]
  /\ sent \in [Clients -> Seq(ResponseFrames)]
  /\ queue \in [Clients -> Seq(ResponseFrames)]
  /\ batch \in [Clients -> Seq(ResponseFrames)]
  /\ drain \in [Clients -> {"off", "take", "write"}]
  /\ link \in {"up", "broken", "down"} /\ nextID \in {0} \cup Ids
  /\ pending \subseteq Ids /\ shut \subseteq Ids
  /\ chan \in [Ids -> Seq(ResponseFrames)]
  /\ hold \in Seq(Messages) /\ Len(hold) <= 1
  /\ wire \in Seq(Messages)
  /\ requests \in Seq(Requests)
  /\ evCh \in Seq(Nat) /\ events \in Nat
  /\ \A c \in Clients : st[c] = "relay" => frame[c] \in ResponseFrames
  /\ \A c \in Clients : st[c] \in {"stream", "forward", "send"} => left[c] >= 1

\* The queues stay within their caps, and the drain goroutine holds frames
\* exactly while it writes.
CapsInv ==
  /\ \A c \in Clients : Len(queue[c]) <= QueueMax /\ Len(batch[c]) <= QueueMax
  /\ \A i \in Ids : Len(chan[i]) <= responseQueueSize
  /\ Len(evCh) <= eventQueueSize
  /\ \A c \in Clients : drain[c] = "write" <=> batch[c] # <<>>

\* An id is used up by a request that was read: there are enough of them.
Reads == {p \in Clients \X (1 .. MaxRequests) : p[2] <= n[p[1]]}
Forwarding == {c \in Clients : st[c] = "forward"}
CountInv == nextID + Cardinality(Forwarding) <= Cardinality(Reads)
-----------------------------------------------------------------------------
(* Ids.                                                                    *)

Active(c) == st[c] \in {"send", "wait", "relay"}

\* Whether something with id i is in queue q.
Has(q, i) == \E k \in DOMAIN q : q[k].id = i

\* Nothing is on its way for id i.
Quiet(i) == chan[i] = <<>> /\ ~Has(hold, i) /\ ~Has(wire, i) /\ ~Has(requests, i)

\* An id belongs to one request, and a request that is not written yet has
\* nothing on its way.
IdsInv ==
  /\ \A c, d \in Clients : id[c] = id[d] /\ id[c] # 0 => c = d
  /\ \A c \in Clients : Active(c) => id[c] # 0
  /\ pending \subseteq 1 .. nextID /\ shut \subseteq 1 .. nextID /\ pending \cap shut = {}
  /\ \A i \in Ids : i > nextID => Quiet(i)
  /\ \A c \in Clients : st[c] = "send" => Quiet(id[c])

\* The frames, the messages and the requests of id i answer the k-th request of c.
OwnFrames(s, c, k) == \A j \in DOMAIN s : s[j].c = c /\ s[j].n = k
OwnMessages(q, i, c, k) ==
  \A j \in DOMAIN q : q[j].id = i => q[j].frame.c = c /\ q[j].frame.n = k
OwnRequests(q, i, c, k) == \A j \in DOMAIN q : q[j].id = i => q[j].c = c /\ q[j].n = k

\* What is on its way to a request is part of the answer to it.
OwnInv ==
  \A c \in Clients : Active(c) =>
    /\ OwnFrames(chan[id[c]], c, n[c])
    /\ OwnMessages(hold, id[c], c, n[c]) /\ OwnMessages(wire, id[c], c, n[c])
    /\ OwnRequests(requests, id[c], c, n[c])
    /\ st[c] = "relay" => frame[c].c = c /\ frame[c].n = n[c]

\* The last frame of id i was read, and nobody has received it.
HasLast(s) == \E k \in DOMAIN s : s[k].last
HoldsLast(q, i) == \E k \in DOMAIN q : q[k].id = i /\ q[k].frame.last
LastRead(i) == HasLast(chan[i]) \/ HoldsLast(hold, i)

\* A last frame that was read has ended the registration.
LastInv ==
  /\ \A i \in pending : ~LastRead(i)
  /\ \A c \in Clients : st[c] = "relay" /\ frame[c].last => id[c] \notin pending

\* A request that expects more is going to hear, and what is registered is served.
WaitInv ==
  /\ \A c \in Clients : \/ st[c] \in {"send", "wait"}
                        \/ st[c] = "relay" /\ ~frame[c].last
                        => id[c] \in pending \cup shut \/ LastRead(id[c])
  /\ \A i \in pending : \E c \in Clients : id[c] = i /\ Active(c)

\* The frames of a connection, in the order in which its client gets them.
WellFramed(s, c) ==
  \A i \in DOMAIN s : s[i].c = c /\ s[i].n = 1 + Finals(SubSeq(s, 1, i - 1))

FramedInv ==
  \A c \in Clients : ~closed[c] /\ here[c] =>
    /\ st[c] # "gone"
    /\ WellFramed(Out(c), c)
    /\ Finals(Out(c)) = IF st[c] = "read" THEN n[c] ELSE n[c] - 1
-----------------------------------------------------------------------------
(* How many frames a request can still get.                                *)

Count(q, i) == Cardinality({k \in DOMAIN q : q[k].id = i})

\* Frames that arrived or are on their way, for id i.
Coming(i) == Count(wire, i) + Count(hold, i) + Len(chan[i])

\* At most b frames can still come for id i.
Load(i, b) ==
  /\ Coming(i) <= b
  /\ \A k \in DOMAIN requests : requests[k].id = i => requests[k].left + Coming(i) <= b

\* What can still come for a request is what its response has, less the frame it
\* relays; and a request that gives up leaves no more behind than its channel
\* takes, unless its response is long.
FlowInv ==
  /\ \A j, k \in DOMAIN requests : requests[j].id = requests[k].id => j = k
  /\ size \in [Ids -> Nat]
  /\ \A c \in Clients : st[c] = "send" => left[c] = size[id[c]]
  /\ \A c \in Clients : st[c] = "wait" => Load(id[c], size[id[c]])
  /\ \A c \in Clients : st[c] = "relay" => Load(id[c], size[id[c]] - 1)
  /\ \A i \in Ids : Has(hold, i) =>
       \/ \E c \in Clients : id[c] = i /\ Active(c)
       \/ Len(chan[i]) < responseQueueSize \/ size[i] > responseQueueSize + 1
  /\ \A i \in shut : ~Has(hold, i)
-----------------------------------------------------------------------------
(* Types and bounds.                                                       *)

\* The ids are an interval.
LEMMA IdsInterval ==
  /\ Cardinality(Clients) * MaxRequests \in Nat
  /\ \A i : i \in Ids <=> i \in Nat /\ i # 0 /\ i <= Cardinality(Clients) * MaxRequests
<1>1. Cardinality(Clients) \in Nat /\ MaxRequests \in Nat
  BY GatewayClients, GatewayBounds, FS_CardinalityType
<1>2. Cardinality(Clients) * MaxRequests \in Nat
  BY <1>1
<1> QED
  BY <1>2 DEF Ids

\* A message is an answer or an event.
LEMMA MessageKinds ==
  ASSUME NEW m \in Messages
  PROVE  /\ m.id # 0 => m.id \in Ids /\ m.frame \in ResponseFrames /\ m.frame.last \in BOOLEAN
         /\ m.id = 0 => m.ev \in Nat
<1>1. 0 \notin Ids
  BY IdsInterval
<1> QED
  BY <1>1 DEF Messages, ResponseFrames

\* A request that is about to be forwarded finds an id.
LEMMA FreshId ==
  ASSUME TypeInv, CountInv, NEW c \in Clients, st[c] = "forward"
  PROVE  nextID + 1 \in Ids /\ nextID \in Nat
<1>1. /\ IsFiniteSet(Clients) /\ MaxRequests \in Nat /\ Cardinality(Clients) \in Nat
      /\ nextID \in Nat
  <2>1. nextID \in Nat
    BY IdsInterval DEF TypeInv
  <2> QED
    BY <2>1, GatewayClients, GatewayBounds, FS_CardinalityType
<1>2. /\ IsFiniteSet(1 .. MaxRequests) /\ Cardinality(1 .. MaxRequests) = MaxRequests
  <2>1. /\ IsFiniteSet(1 .. MaxRequests)
        /\ Cardinality(1 .. MaxRequests) = IF 1 > MaxRequests THEN 0 ELSE MaxRequests - 1 + 1
    <3>1. 1 \in Int /\ MaxRequests \in Int
      BY <1>1
    <3> QED
      BY ONLY <3>1, FS_Interval
  <2> QED
    BY <1>1, <2>1
<1>3. /\ IsFiniteSet(Clients \X (1 .. MaxRequests))
      /\ Cardinality(Clients \X (1 .. MaxRequests)) = Cardinality(Clients) * MaxRequests
  BY <1>1, <1>2, FS_Product
<1>4. Reads \subseteq Clients \X (1 .. MaxRequests)
  BY DEF Reads
<1>5. IsFiniteSet(Reads) /\ Cardinality(Reads) <= Cardinality(Clients) * MaxRequests
      /\ Cardinality(Reads) \in Nat
  BY <1>3, <1>4, FS_Subset, FS_CardinalityType
<1>6. IsFiniteSet(Forwarding) /\ c \in Forwarding
  BY <1>1, FS_Subset DEF Forwarding
<1>7. Cardinality(Forwarding) \in Nat /\ Cardinality(Forwarding) # 0
  BY <1>6, FS_CardinalityType, FS_EmptySet
<1>8. nextID + 1 <= Cardinality(Clients) * MaxRequests
  BY <1>1, <1>5, <1>7, IdsInterval DEF CountInv
<1> QED
  BY <1>1, <1>8, IdsInterval

\* Request ids are handed out once, whatever step is taken.
LEMMA CountStep ==
  ASSUME TypeInv, CountInv, [Next]_vars
  PROVE  CountInv'
<1> USE DEF clientVars, serveVars, writerVars, connVars, farVars, Goto
<1>1. /\ IsFiniteSet(Clients) /\ MaxRequests \in Nat /\ nextID \in Nat
  BY GatewayClients, GatewayBounds, IdsInterval DEF TypeInv
<1>2. IsFiniteSet(Reads) /\ IsFiniteSet(Forwarding)
  <2>1. IsFiniteSet(Clients \X (1 .. MaxRequests))
    <3>1. IsFiniteSet(1 .. MaxRequests)
      BY <1>1, FS_Interval
    <3> QED
      BY <1>1, <3>1, FS_Product
  <2> QED
    BY <1>1, <2>1, FS_Subset DEF Reads, Forwarding
<1>3. Cardinality(Reads) \in Nat /\ Cardinality(Forwarding) \in Nat
  BY <1>2, FS_CardinalityType
<1>4. ASSUME UNCHANGED <<n, nextID>>, Forwarding' = Forwarding PROVE CountInv'
  <2>1. Reads' = Reads
    BY <1>4 DEF Reads
  <2> QED
    BY <1>4, <2>1 DEF CountInv
<1>5. ASSUME NEW c \in Clients, ReadRequest(c) PROVE CountInv'
  <2>1. /\ n' = [n EXCEPT ![c] = n[c] + 1] /\ n[c] < MaxRequests /\ UNCHANGED nextID
        /\ n \in [Clients -> 0 .. MaxRequests]
        /\ st[c] = "read" /\ st \in [Clients -> States]
    BY <1>5 DEF ReadRequest, TypeInv
  <2>2. \E a \in Asks[c] : st' = [st EXCEPT ![c] = IF a.kind = "local" THEN "stream" ELSE "forward"]
    BY <1>5 DEF ReadRequest
  <2>3. Reads' = Reads \cup {<<c, n[c] + 1>>} /\ <<c, n[c] + 1>> \notin Reads
    <3>1. <<c, n[c] + 1>> \in Clients \X (1 .. MaxRequests)
      BY <1>1, <2>1
    <3>2. ASSUME NEW d \in Clients, NEW k \in 1 .. MaxRequests
          PROVE  k <= n'[d] <=> (k <= n[d] \/ <<d, k>> = <<c, n[c] + 1>>)
      <4>1. n[d] \in Nat /\ n[c] \in Nat /\ k \in Nat
        BY <1>1, <2>1
      <4>2. CASE d = c
        <5>1. n'[d] = n[c] + 1
          BY <2>1, <4>2
        <5> QED
          BY <4>1, <4>2, <5>1
      <4>3. CASE d # c
        BY <2>1, <4>3
      <4> QED
        BY <4>2, <4>3
    <3>3. ~(n[c] + 1 <= n[c])
      BY <1>1, <2>1
    <3> QED
      BY <3>1, <3>2, <3>3 DEF Reads
  <2>4. Cardinality(Reads') = Cardinality(Reads) + 1
    BY <1>2, <2>3, FS_AddElement
  <2>5. Cardinality(Forwarding') <= Cardinality(Forwarding) + 1 /\ Cardinality(Forwarding') \in Nat
    <3>1. CASE Forwarding' = Forwarding
      BY <1>3, <3>1
    <3>2. CASE Forwarding' = Forwarding \cup {c}
      <4>1. /\ IsFiniteSet(Forwarding \cup {c})
            /\ \/ Cardinality(Forwarding \cup {c}) = Cardinality(Forwarding) + 1
               \/ Cardinality(Forwarding \cup {c}) = Cardinality(Forwarding)
        BY <1>2, FS_AddElement
      <4> QED
        BY <1>3, <3>2, <4>1
    <3>3. Forwarding' = Forwarding \/ Forwarding' = Forwarding \cup {c}
      BY <2>1, <2>2 DEF Forwarding
    <3> QED
      BY <3>1, <3>2, <3>3
  <2> QED
    BY <1>1, <1>3, <2>1, <2>4, <2>5 DEF CountInv
<1>6. ASSUME NEW c \in Clients, Register(c) PROVE CountInv'
  <2>1. Reads' = Reads
    BY <1>6 DEF Register, Reads
  <2>2. st[c] = "forward" /\ st \in [Clients -> States]
        /\ (st' = [st EXCEPT ![c] = "send"] \/ st' = [st EXCEPT ![c] = "error"])
        /\ (nextID' = nextID + 1 \/ nextID' = nextID)
    BY <1>6 DEF Register, TypeInv
  <2>3. Forwarding' = Forwarding \ {c} /\ c \in Forwarding
    BY <2>2 DEF Forwarding
  <2>4. Cardinality(Forwarding') = Cardinality(Forwarding) - 1
    BY <1>2, <2>3, FS_RemoveElement
  <2> QED
    BY <1>1, <1>3, <2>1, <2>2, <2>4 DEF CountInv
<1>7. ASSUME NEW c \in Clients, NEW s \in States, st[c] # "forward", s # "forward",
             st' = [st EXCEPT ![c] = s]
      PROVE  Forwarding' = Forwarding
  BY <1>7 DEF Forwarding, TypeInv
<1>8. ASSUME NEW c \in Clients,
             ReadFails(c) \/ Stream(c) \/ StreamFails(c) \/ WriteError(c) \/ Send(c) \/ Receive(c)
             \/ ReceiveClosed(c) \/ Relay(c)
      PROVE  CountInv'
  <2>1. st[c] # "forward" /\ UNCHANGED <<n, nextID>>
    BY <1>8 DEF ReadFails, Stream, StreamFails, WriteError, Send, Receive, ReceiveClosed, Relay
  <2>2. \E s \in States \ {"forward"} : st' = [st EXCEPT ![c] = s]
    BY <1>8 DEF ReadFails, Stream, StreamFails, WriteError, Send, Receive, ReceiveClosed, Relay,
       States
  <2> QED
    BY <1>4, <1>7, <2>1, <2>2
<1>9. ASSUME UNCHANGED serveVars, UNCHANGED nextID PROVE CountInv'
  BY <1>4, <1>9 DEF Forwarding
<1>10. ASSUME NEW c \in Clients, ClientLeave(c) \/ Drain(c) \/ writeFrames(c) PROVE CountInv'
  BY <1>9, <1>10 DEF ClientLeave, Drain, DrainTake, writeFails, writeFrames
<1>11. CASE Reader \/ eventLoop \/ Answer \/ Broadcast \/ Break \/ UNCHANGED vars
  BY <1>9, <1>11 DEF Reader, ReadWire, Deliver, QueueEvent, Disconnected, Redial, eventLoop, Answer,
     Broadcast, Break, vars
<1> QED
  BY <1>5, <1>6, <1>8, <1>10, <1>11 DEF Next, Serve

\* What is taken from the front of a queue.
LEMMA TakeHead ==
  ASSUME NEW S, NEW q \in Seq(S), q # <<>>
  PROVE  /\ Head(q) \in S /\ Head(q) = q[1] /\ Tail(q) \in Seq(S) /\ 1 \in DOMAIN q
         /\ Len(Tail(q)) = Len(q) - 1 /\ Len(q) \in Nat /\ Len(q) # 0
         /\ \A k \in DOMAIN Tail(q) : k + 1 \in DOMAIN q /\ Tail(q)[k] = q[k + 1]
         /\ \A k \in DOMAIN q : k # 1 => k - 1 \in DOMAIN Tail(q) /\ Tail(q)[k - 1] = q[k]
OBVIOUS

\* A request that is served downstream has an id.
LEMMA ActiveId ==
  ASSUME TypeInv, IdsInv, NEW c \in Clients, Active(c)
  PROVE  id[c] \in Ids
<1>1. nextID \in Nat /\ nextID <= Cardinality(Clients) * MaxRequests
  BY IdsInterval DEF TypeInv
<1>2. id[c] \in Nat /\ id[c] <= nextID /\ id[c] # 0
  BY <1>1 DEF TypeInv, IdsInv
<1> QED
  BY <1>1, <1>2, IdsInterval

\* What enqueue does to the writer of c.
LEMMA EnqueueType ==
  ASSUME TypeInv, NEW c \in Clients, NEW f \in ResponseFrames, enqueue(c, f)
  PROVE  /\ queue' \in [Clients -> Seq(ResponseFrames)]
         /\ drain' \in [Clients -> {"off", "take", "write"}]
<1>1. CASE closed[c]
  BY <1>1 DEF enqueue, TypeInv
<1>2. CASE ~closed[c]
  <2>1. queue[c] \in Seq(ResponseFrames)
    BY DEF TypeInv
  <2>2. Append(queue[c], f) \in Seq(ResponseFrames)
    BY <2>1
  <2>3. queue' = [queue EXCEPT ![c] = Append(queue[c], f)]
    BY <1>2 DEF enqueue
  <2>4. queue' \in [Clients -> Seq(ResponseFrames)]
    BY <2>2, <2>3 DEF TypeInv
  <2>5. drain' = [drain EXCEPT ![c] = IF drain[c] = "off" THEN "take" ELSE drain[c]]
    BY <1>2 DEF enqueue
  <2>6. drain' \in [Clients -> {"off", "take", "write"}]
    BY <2>5 DEF TypeInv
  <2> QED
    BY <2>4, <2>6
<1> QED
  BY <1>1, <1>2

\* No step takes a variable out of its type.
LEMMA TypeStep ==
  ASSUME TypeInv, CountInv, CapsInv, IdsInv, [Next]_vars
  PROVE  TypeInv'
<1> USE DEF clientVars, serveVars, writerVars, connVars, farVars
<1>1. nextID \in Nat /\ MaxRequests \in Nat
  BY GatewayBounds, IdsInterval DEF TypeInv
<1>2. ASSUME NEW c \in Clients, ClientLeave(c) PROVE TypeInv'
  BY <1>2 DEF ClientLeave, TypeInv
<1>3. ASSUME NEW c \in Clients, DrainTake(c) PROVE TypeInv'
  <2>1. queue[c] \in Seq(ResponseFrames) /\ <<>> \in Seq(ResponseFrames)
    BY DEF TypeInv
  <2>2. CASE drain' = [drain EXCEPT ![c] = "off"] /\ UNCHANGED <<queue, batch>>
    BY <1>3, <2>2 DEF DrainTake, TypeInv
  <2>3. CASE /\ batch' = [batch EXCEPT ![c] = queue[c]] /\ queue' = [queue EXCEPT ![c] = <<>>]
             /\ drain' = [drain EXCEPT ![c] = "write"]
    BY <1>3, <2>1, <2>3 DEF DrainTake, TypeInv
  <2> QED
    BY <1>3, <2>2, <2>3 DEF DrainTake
<1>4. ASSUME NEW c \in Clients, writeFails(c) PROVE TypeInv'
  <2>1. <<>> \in Seq(ResponseFrames)
    OBVIOUS
  <2> QED
    BY <1>4, <2>1 DEF writeFails, CloseWriter, TypeInv
<1>5. ASSUME NEW c \in Clients, writeFrames(c) PROVE TypeInv'
  <2>1. batch[c] \in Seq(ResponseFrames) /\ batch[c] # <<>> /\ sent[c] \in Seq(ResponseFrames)
    BY <1>5 DEF writeFrames, CapsInv, TypeInv
  <2>2. Tail(batch[c]) \in Seq(ResponseFrames) /\ Append(sent[c], Head(batch[c])) \in Seq(ResponseFrames)
    BY <2>1
  <2>3. /\ sent' = [sent EXCEPT ![c] = Append(sent[c], Head(batch[c]))]
        /\ batch' = [batch EXCEPT ![c] = Tail(batch[c])]
        /\ drain' = [drain EXCEPT ![c] = IF Len(batch[c]) = 1 THEN "take" ELSE drain[c]]
        /\ UNCHANGED <<here, serveVars, queue, closed, connVars, farVars>>
    BY <1>5 DEF writeFrames
  <2> QED
    BY <2>2, <2>3 DEF TypeInv
<1>6. ASSUME NEW c \in Clients, ReadRequest(c) PROVE TypeInv'
  <2>1. PICK a \in Asks[c] :
          /\ left' = [left EXCEPT ![c] = a.frames]
          /\ st' = [st EXCEPT ![c] = IF a.kind = "local" THEN "stream" ELSE "forward"]
    BY <1>6 DEF ReadRequest, Goto
  <2>2. a.frames \in Nat /\ a.frames >= 1
    BY GatewayAsks
  <2>3. n' \in [Clients -> 0 .. MaxRequests]
    BY <1>1, <1>6 DEF ReadRequest, TypeInv
  <2>4. /\ left' \in [Clients -> Nat] /\ st' \in [Clients -> States]
        /\ \A d \in Clients : st'[d] = "relay" => st[d] = "relay"
        /\ \A d \in Clients : st'[d] \in {"stream", "forward", "send"} => left'[d] >= 1
    BY <2>1, <2>2 DEF TypeInv, States
  <2> QED
    BY <1>6, <2>3, <2>4 DEF ReadRequest, TypeInv
<1>7. ASSUME NEW c \in Clients, ReadFails(c) PROVE TypeInv'
  <2>1. <<>> \in Seq(ResponseFrames)
    OBVIOUS
  <2> QED
    BY <1>7, <2>1 DEF ReadFails, CloseWriter, Goto, TypeInv, States
<1>8. ASSUME NEW c \in Clients, NEW b \in BOOLEAN
      PROVE  Frame(c, n[c], b) \in ResponseFrames
  BY DEF Frame, ResponseFrames, TypeInv
<1>9. ASSUME NEW c \in Clients, Stream(c) PROVE TypeInv'
  <2>1. /\ queue' \in [Clients -> Seq(ResponseFrames)]
        /\ drain' \in [Clients -> {"off", "take", "write"}]
    BY <1>8, <1>9, EnqueueType DEF Stream
  <2>2. left' = [left EXCEPT ![c] = left[c] - 1] /\ left[c] \in Nat /\ left[c] >= 1
    BY <1>9 DEF Stream, TypeInv
  <2>3. st' = [st EXCEPT ![c] = IF closed[c] \/ left[c] = 1 THEN "read" ELSE "stream"]
    BY <1>9 DEF Stream, Goto
  <2>4. /\ left' \in [Clients -> Nat] /\ st' \in [Clients -> States]
        /\ \A d \in Clients : st'[d] = "relay" => st[d] = "relay"
        /\ \A d \in Clients : st'[d] \in {"stream", "forward", "send"} => left'[d] >= 1
    <3>1. left \in [Clients -> Nat] /\ st \in [Clients -> States]
          /\ \A d \in Clients : st[d] \in {"stream", "forward", "send"} => left[d] >= 1
      BY DEF TypeInv
    <3>2. left[c] - 1 \in Nat /\ (left[c] # 1 => left[c] - 1 >= 1)
      BY <2>2
    <3>3. "read" \in States /\ "stream" \in States
      BY DEF States
    <3>4. left' \in [Clients -> Nat] /\ st' \in [Clients -> States]
      BY <2>2, <2>3, <3>1, <3>2, <3>3
    <3>5. \A d \in Clients : d # c => st'[d] = st[d] /\ left'[d] = left[d]
      BY <2>2, <2>3, <3>1
    <3>6. st'[c] = (IF closed[c] \/ left[c] = 1 THEN "read" ELSE "stream") /\ left'[c] = left[c] - 1
      BY <2>2, <2>3, <3>1
    <3> QED
      BY <3>1, <3>2, <3>4, <3>5, <3>6
  <2> QED
    BY <1>9, <2>1, <2>4 DEF Stream, TypeInv
<1>10. ASSUME NEW c \in Clients, StreamFails(c) \/ ReceiveClosed(c) PROVE TypeInv'
  BY <1>10 DEF StreamFails, ReceiveClosed, Goto, TypeInv, States
<1>11. ASSUME NEW c \in Clients, WriteError(c) PROVE TypeInv'
  <2>1. /\ queue' \in [Clients -> Seq(ResponseFrames)]
        /\ drain' \in [Clients -> {"off", "take", "write"}]
    BY <1>8, <1>11, EnqueueType DEF WriteError
  <2> QED
    BY <1>11, <2>1 DEF WriteError, Goto, TypeInv, States
<1>12. ASSUME NEW c \in Clients, Register(c) PROVE TypeInv'
  <2>1. st[c] = "forward" /\ nextID + 1 \in Ids
    BY <1>12, FreshId DEF Register
  <2>2. \A d \in Clients : id[d] \in 0 .. nextID /\ id[d] \in 0 .. (nextID + 1)
    <3>1. \A d \in Clients : id[d] \in 0 .. nextID
      BY DEF TypeInv
    <3>2. \A k \in 0 .. nextID : k \in 0 .. (nextID + 1)
      BY <1>1
    <3> QED
      BY <3>1, <3>2
  <2>3. /\ id' \in [Clients -> 0 .. nextID'] /\ nextID' \in {0} \cup Ids /\ pending' \subseteq Ids
    <3>1. CASE /\ nextID' = nextID + 1 /\ id' = [id EXCEPT ![c] = nextID + 1]
               /\ pending' = pending \cup {nextID + 1}
      <4>1. id' \in [Clients -> 0 .. (nextID + 1)]
        BY <1>1, <2>2, <3>1 DEF TypeInv
      <4> QED
        BY <2>1, <3>1, <4>1 DEF TypeInv
    <3>2. CASE UNCHANGED <<nextID, id, pending>>
      BY <3>2 DEF TypeInv
    <3> QED
      BY <1>12, <3>1, <3>2 DEF Register
  <2>4. /\ st' \in [Clients -> States]
        /\ \A d \in Clients : st'[d] = "relay" => st[d] = "relay"
        /\ \A d \in Clients : st'[d] \in {"stream", "forward", "send"} => left[d] >= 1
    BY <1>12, <2>1 DEF Register, Goto, TypeInv, States
  <2> QED
    BY <1>12, <2>3, <2>4 DEF Register, TypeInv
<1>13. ASSUME NEW c \in Clients, Send(c) PROVE TypeInv'
  <2>1. [id |-> id[c], c |-> c, n |-> n[c], left |-> left[c]] \in Requests
    <3>1. id[c] \in Ids
      BY <1>13, ActiveId DEF Send, Active
    <3> QED
      BY <1>13, <3>1 DEF Send, TypeInv, Requests
  <2>2. requests \in Seq(Requests)
    BY DEF TypeInv
  <2>3. Append(requests, [id |-> id[c], c |-> c, n |-> n[c], left |-> left[c]]) \in Seq(Requests)
    BY <2>1, <2>2
  <2>4. requests' \in Seq(Requests) /\ pending' \subseteq Ids
    BY <1>13, <2>2, <2>3 DEF Send, TypeInv
  <2>5. /\ st' \in [Clients -> States]
        /\ \A d \in Clients : st'[d] = "relay" => st[d] = "relay"
        /\ \A d \in Clients : st'[d] \in {"stream", "forward", "send"} => left[d] >= 1
    BY <1>13 DEF Send, Goto, TypeInv, States
  <2> QED
    BY <1>13, <2>4, <2>5 DEF Send, TypeInv
<1>14. ASSUME NEW c \in Clients, Receive(c) PROVE TypeInv'
  <2>1. chan[id[c]] \in Seq(ResponseFrames) /\ chan[id[c]] # <<>>
    BY <1>14, ActiveId DEF Receive, TypeInv, Active
  <2>2. Head(chan[id[c]]) \in ResponseFrames /\ Tail(chan[id[c]]) \in Seq(ResponseFrames)
    BY <2>1
  <2>3. /\ frame' = [frame EXCEPT ![c] = Head(chan[id[c]])]
        /\ chan' = [chan EXCEPT ![id[c]] = Tail(chan[id[c]])]
        /\ st' = [st EXCEPT ![c] = "relay"]
    BY <1>14 DEF Receive, Goto
  <2>4. /\ frame' \in [Clients -> ResponseFrames \cup {NoFrame}]
        /\ chan' \in [Ids -> Seq(ResponseFrames)] /\ st' \in [Clients -> States]
    BY <2>2, <2>3 DEF TypeInv, States
  <2>5. /\ \A d \in Clients : st'[d] = "relay" => frame'[d] \in ResponseFrames
        /\ \A d \in Clients : st'[d] \in {"stream", "forward", "send"} => left[d] >= 1
    BY <2>2, <2>3 DEF TypeInv, States
  <2> QED
    BY <1>14, <2>4, <2>5 DEF Receive, TypeInv
<1>15. ASSUME NEW c \in Clients, Relay(c) PROVE TypeInv'
  <2>1. frame[c] \in ResponseFrames
    BY <1>15 DEF Relay, TypeInv
  <2>2. /\ queue' \in [Clients -> Seq(ResponseFrames)]
        /\ drain' \in [Clients -> {"off", "take", "write"}]
    BY <1>15, <2>1, EnqueueType DEF Relay
  <2>3. \E s \in {"error", "read", "wait"} : st' = [st EXCEPT ![c] = s]
    BY <1>15 DEF Relay, Goto
  <2>4. frame' = [frame EXCEPT ![c] = NoFrame]
    BY <1>15 DEF Relay
  <2>5. /\ st' \in [Clients -> States]
        /\ \A d \in Clients : st'[d] = "relay" => frame'[d] \in ResponseFrames
        /\ \A d \in Clients : st'[d] \in {"stream", "forward", "send"} => left[d] >= 1
        /\ frame' \in [Clients -> ResponseFrames \cup {NoFrame}]
    BY <2>3, <2>4 DEF TypeInv, States
  <2>6. pending' \subseteq Ids
    BY <1>15 DEF Relay, TypeInv
  <2> QED
    BY <1>15, <2>2, <2>5, <2>6 DEF Relay, TypeInv
<1>16. CASE ReadWire
  <2>1. wire \in Seq(Messages) /\ wire # <<>>
    BY <1>16 DEF ReadWire, TypeInv
  <2>2. Head(wire) \in Messages /\ wire' \in Seq(Messages)
    BY <1>16, <2>1 DEF ReadWire
  <2>3. hold' \in Seq(Messages) /\ Len(hold') <= 1
    <3>1. hold' = <<>> \/ hold' = <<Head(wire)>>
      BY <1>16 DEF ReadWire
    <3>2. <<Head(wire)>> \in Seq(Messages) /\ Len(<<Head(wire)>>) = 1
      BY <2>2
    <3>3. CASE hold' = <<>>
      BY <3>3
    <3>4. CASE hold' = <<Head(wire)>>
      <4>1. Len(hold') = 1
        BY <3>4
      <4>2. hold' \in Seq(Messages)
        BY <3>2, <3>4
      <4> QED
        BY <4>1, <4>2
    <3> QED
      BY <3>1, <3>3, <3>4
  <2>4. pending' \subseteq Ids
    BY <1>16 DEF ReadWire, TypeInv
  <2> QED
    BY <1>16, <2>2, <2>3, <2>4 DEF ReadWire, TypeInv
<1>17. CASE Deliver
  <2>1. hold \in Seq(Messages) /\ hold # <<>>
    BY <1>17 DEF Deliver, TypeInv
  <2>2. hold[1] \in Messages
    BY <2>1
  <2>3. hold[1].id \in Ids /\ hold[1].frame \in ResponseFrames
    BY <1>17, <2>2, MessageKinds DEF Deliver
  <2>4. chan[hold[1].id] \in Seq(ResponseFrames)
    BY <2>3 DEF TypeInv
  <2>5. Append(chan[hold[1].id], hold[1].frame) \in Seq(ResponseFrames)
    BY <2>3, <2>4
  <2>6. chan' \in [Ids -> Seq(ResponseFrames)]
    BY <1>17, <2>3, <2>5 DEF Deliver, TypeInv
  <2>7. hold' \in Seq(Messages) /\ Len(hold') <= 1
    BY <1>17 DEF Deliver
  <2> QED
    BY <1>17, <2>6, <2>7 DEF Deliver, TypeInv
<1>18. CASE QueueEvent
  <2>1. hold[1] \in Messages /\ hold[1].id = 0
    BY <1>18 DEF QueueEvent, TypeInv
  <2>2. hold[1].ev \in Nat /\ evCh \in Seq(Nat)
    BY <2>1, MessageKinds DEF TypeInv
  <2>3. evCh' \in Seq(Nat) /\ hold' \in Seq(Messages) /\ Len(hold') <= 1
    BY <1>18, <2>2 DEF QueueEvent
  <2> QED
    BY <1>18, <2>3 DEF QueueEvent, TypeInv
<1>19. CASE Disconnected
  <2>1. evCh' \in Seq(Nat)
    BY <1>19 DEF Disconnected
  <2> QED
    BY <1>19, <2>1 DEF Disconnected, TypeInv
<1>20. CASE Redial
  BY <1>20 DEF Redial, TypeInv
<1>21. CASE eventLoop
  <2>1. evCh' \in Seq(Nat)
    BY <1>21 DEF eventLoop, TypeInv
  <2> QED
    BY <1>21, <2>1 DEF eventLoop, TypeInv
<1>22. CASE Answer
  <2> DEFINE q == Head(requests)
             m == [id |-> q.id, frame |-> Frame(q.c, q.n, q.left = 1)]
  <2>1. requests \in Seq(Requests) /\ requests # <<>> /\ wire \in Seq(Messages)
    BY <1>22 DEF Answer, TypeInv
  <2>2. q \in Requests /\ q = requests[1] /\ 1 \in DOMAIN requests /\ Tail(requests) \in Seq(Requests)
    BY <2>1
  <2>3. m \in Messages
    BY <2>2 DEF Messages, Requests, Frame, ResponseFrames
  <2>4. wire' = Append(wire, m)
        /\ requests' = IF q.left = 1 THEN Tail(requests)
                       ELSE [requests EXCEPT ![1].left = requests[1].left - 1]
    BY <1>22 DEF Answer
  <2>5. ASSUME q.left # 1 PROVE [requests[1] EXCEPT !.left = requests[1].left - 1] \in Requests
    <3>1. requests[1].left \in Nat \ {0} /\ requests[1].left # 1
      BY <2>2, <2>5 DEF Requests
    <3>2. requests[1].left - 1 \in Nat \ {0}
      BY <3>1
    <3> QED
      BY <2>2, <3>2 DEF Requests
  <2> HIDE DEF m, q
  <2>6. wire' \in Seq(Messages)
    BY <2>1, <2>3, <2>4
  <2>7. ASSUME q.left # 1 PROVE [requests EXCEPT ![1].left = requests[1].left - 1] \in Seq(Requests)
    <3>1. [requests EXCEPT ![1].left = requests[1].left - 1]
            = [requests EXCEPT ![1] = [requests[1] EXCEPT !.left = requests[1].left - 1]]
      BY <2>1, <2>2
    <3> QED
      BY <2>1, <2>2, <2>5, <2>7, <3>1
  <2>8. requests' \in Seq(Requests)
    BY <2>2, <2>4, <2>7
  <2> QED
    BY <1>22, <2>6, <2>8 DEF Answer, TypeInv
<1>23. CASE Broadcast
  <2>1. [id |-> 0, ev |-> events + 1] \in Messages /\ events + 1 \in Nat
    BY DEF Messages, TypeInv
  <2>2. wire' \in Seq(Messages)
    BY <1>23, <2>1 DEF Broadcast, TypeInv
  <2> QED
    BY <1>23, <2>1, <2>2 DEF Broadcast, TypeInv
<1>24. CASE Break
  <2>1. wire \in Seq(Messages)
    BY DEF TypeInv
  <2>2. \A k \in 0 .. Len(wire) : SubSeq(wire, 1, k) \in Seq(Messages)
    BY <2>1
  <2>3. wire' \in Seq(Messages) /\ requests' \in Seq(Requests)
    BY <1>24, <2>2 DEF Break
  <2> QED
    BY <1>24, <2>3 DEF Break, TypeInv
<1>25. CASE UNCHANGED vars
  BY <1>25 DEF vars, TypeInv
<1> QED
  BY <1>2, <1>3, <1>4, <1>5, <1>6, <1>7, <1>9, <1>10, <1>11, <1>12, <1>13, <1>14, <1>15, <1>16,
     <1>17, <1>18, <1>19, <1>20, <1>21, <1>22, <1>23, <1>24, <1>25 DEF Next, Serve, Drain, Reader

\* enqueue waits at the cap, deliver while the channel is full, the reader
\* while the event queue is.
LEMMA CapsStep ==
  ASSUME TypeInv, CapsInv, IdsInv, [Next]_vars
  PROVE  CapsInv'
<1> USE DEF clientVars, serveVars, writerVars, connVars, farVars
<1> USE GatewayCaps
<1> DEFINE Writers == /\ \A c \in Clients : Len(queue[c]) <= QueueMax /\ Len(batch[c]) <= QueueMax
                      /\ \A c \in Clients : drain[c] = "write" <=> batch[c] # <<>>
           Queues == (\A i \in Ids : Len(chan[i]) <= responseQueueSize) /\ Len(evCh) <= eventQueueSize
<1>1. Writers /\ Queues
  BY DEF CapsInv
<1>2. ASSUME Writers', Queues' PROVE CapsInv'
  BY <1>2 DEF CapsInv
<1>3. ASSUME UNCHANGED <<queue, batch, drain>> PROVE Writers'
  BY <1>1, <1>3
<1>4. ASSUME UNCHANGED <<chan, evCh>> PROVE Queues'
  BY <1>1, <1>4
<1>5. ASSUME NEW c \in Clients, NEW f \in ResponseFrames, CanEnqueue(c), enqueue(c, f), UNCHANGED batch
      PROVE  Writers'
  <2>1. CASE closed[c]
    BY <1>3, <1>5, <2>1 DEF enqueue
  <2>2. CASE ~closed[c]
    <3>1. /\ queue' = [queue EXCEPT ![c] = Append(queue[c], f)] /\ Len(queue[c]) < QueueMax
          /\ drain' = [drain EXCEPT ![c] = IF drain[c] = "off" THEN "take" ELSE drain[c]]
      BY <1>5, <2>2 DEF enqueue, CanEnqueue
    <3>2. queue[c] \in Seq(ResponseFrames) /\ c \in DOMAIN queue
      BY DEF TypeInv
    <3>3. Len(Append(queue[c], f)) <= QueueMax
      BY <3>1, <3>2
    <3>4. \A d \in Clients : Len(queue'[d]) <= QueueMax
      BY <1>1, <3>1, <3>3 DEF TypeInv
    <3>5. \A d \in Clients : drain'[d] = "write" <=> drain[d] = "write"
      BY <3>1 DEF TypeInv
    <3> QED
      BY <1>1, <1>5, <3>4, <3>5
  <2> QED
    BY <2>1, <2>2
<1>6. ASSUME NEW c \in Clients, DrainTake(c) PROVE CapsInv'
  <2>1. Queues'
    BY <1>4, <1>6 DEF DrainTake
  <2>2. CASE drain' = [drain EXCEPT ![c] = "off"] /\ UNCHANGED <<queue, batch>>
    BY <1>1, <1>2, <1>6, <2>1, <2>2 DEF DrainTake, TypeInv
  <2>3. CASE /\ batch' = [batch EXCEPT ![c] = queue[c]] /\ queue' = [queue EXCEPT ![c] = <<>>]
             /\ drain' = [drain EXCEPT ![c] = "write"] /\ queue[c] # <<>>
    <3>1. \A d \in Clients : d # c => queue'[d] = queue[d] /\ batch'[d] = batch[d] /\ drain'[d] = drain[d]
      BY <2>3 DEF TypeInv
    <3>2. queue'[c] = <<>> /\ batch'[c] = queue[c] /\ drain'[c] = "write" /\ Len(<<>>) <= QueueMax
      BY <2>3 DEF TypeInv
    <3>3. Writers'
      BY <1>1, <2>3, <3>1, <3>2
    <3> QED
      BY <1>2, <2>1, <3>3
  <2> QED
    BY <1>6, <2>2, <2>3 DEF DrainTake
<1>7. ASSUME NEW c \in Clients, writeFails(c) PROVE CapsInv'
  <2>1. /\ queue' = [queue EXCEPT ![c] = <<>>] /\ batch' = [batch EXCEPT ![c] = <<>>]
        /\ drain' = [drain EXCEPT ![c] = "off"]
    BY <1>7 DEF writeFails, CloseWriter
  <2>2. \A d \in Clients : d # c => queue'[d] = queue[d] /\ batch'[d] = batch[d] /\ drain'[d] = drain[d]
    BY <2>1 DEF TypeInv
  <2>3. queue'[c] = <<>> /\ batch'[c] = <<>> /\ drain'[c] = "off" /\ Len(<<>>) <= QueueMax
    BY <2>1 DEF TypeInv
  <2>4. Writers'
    BY <1>1, <2>2, <2>3
  <2> QED
    BY <1>2, <1>4, <1>7, <2>4 DEF writeFails
<1>8. ASSUME NEW c \in Clients, writeFrames(c) PROVE CapsInv'
  <2>1. batch[c] \in Seq(ResponseFrames) /\ batch[c] # <<>>
    BY <1>1, <1>8 DEF writeFrames, TypeInv
  <2>2. /\ batch' = [batch EXCEPT ![c] = Tail(batch[c])] /\ UNCHANGED queue /\ drain[c] = "write"
        /\ drain' = [drain EXCEPT ![c] = IF Len(batch[c]) = 1 THEN "take" ELSE drain[c]]
    BY <1>8 DEF writeFrames
  <2>3. \A d \in Clients : d # c => batch'[d] = batch[d] /\ drain'[d] = drain[d]
    BY <2>2 DEF TypeInv
  <2>4. batch'[c] = Tail(batch[c]) /\ drain'[c] = IF Len(batch[c]) = 1 THEN "take" ELSE "write"
    BY <2>2 DEF TypeInv
  <2>5. Len(Tail(batch[c])) <= QueueMax /\ (Tail(batch[c]) = <<>> <=> Len(batch[c]) = 1)
    <3>1. Len(Tail(batch[c])) = Len(batch[c]) - 1 /\ Len(batch[c]) <= QueueMax /\ Len(batch[c]) \in Nat
      BY <1>1, <2>1
    <3>2. Tail(batch[c]) \in Seq(ResponseFrames)
      BY <2>1
    <3>3. Tail(batch[c]) = <<>> <=> Len(Tail(batch[c])) = 0
      BY <3>2, EmptySeq
    <3> QED
      BY <3>1, <3>3
  <2>6. \A d \in Clients : Len(batch'[d]) <= QueueMax /\ (drain'[d] = "write" <=> batch'[d] # <<>>)
    <3>1. Len(batch'[c]) <= QueueMax /\ (drain'[c] = "write" <=> batch'[c] # <<>>)
      BY <2>4, <2>5
    <3> QED
      BY <1>1, <2>3, <3>1
  <2>7. Writers'
    BY <1>1, <2>2, <2>6
  <2> QED
    BY <1>2, <1>4, <1>8, <2>7 DEF writeFrames
<1>9. ASSUME NEW c \in Clients, ReadFails(c) PROVE CapsInv'
  <2>1. queue' = [queue EXCEPT ![c] = <<>>] /\ UNCHANGED <<batch, drain>>
    BY <1>9 DEF ReadFails, CloseWriter
  <2>2. \A d \in Clients : queue'[d] = IF d = c THEN <<>> ELSE queue[d]
    BY <2>1 DEF TypeInv
  <2>3. Len(<<>>) <= QueueMax
    OBVIOUS
  <2>4. Writers'
    BY <1>1, <2>1, <2>2, <2>3
  <2> QED
    BY <1>2, <1>4, <1>9, <2>4 DEF ReadFails
<1>10. ASSUME NEW c \in Clients, Stream(c) \/ WriteError(c) \/ Relay(c) PROVE CapsInv'
  <2>1. UNCHANGED <<chan, evCh, batch>> /\ CanEnqueue(c)
    BY <1>10 DEF Stream, WriteError, Relay
  <2>2. \E f \in ResponseFrames : enqueue(c, f)
    <3>1. \A b \in BOOLEAN : Frame(c, n[c], b) \in ResponseFrames
      BY DEF Frame, ResponseFrames, TypeInv
    <3>2. st[c] = "relay" => frame[c] \in ResponseFrames
      BY DEF TypeInv
    <3> QED
      BY <1>10, <3>1, <3>2 DEF Stream, WriteError, Relay
  <2> QED
    BY <1>2, <1>4, <1>5, <2>1, <2>2
<1>11. ASSUME NEW c \in Clients, Receive(c) PROVE CapsInv'
  <2>1. id[c] \in Ids
    BY <1>11, ActiveId DEF Receive, Active
  <2>2. chan[id[c]] \in Seq(ResponseFrames) /\ chan[id[c]] # <<>> /\ Len(chan[id[c]]) <= responseQueueSize
    BY <1>1, <1>11, <2>1 DEF Receive, TypeInv
  <2>3. Len(Tail(chan[id[c]])) <= responseQueueSize
    BY <2>2
  <2>4. chan' = [chan EXCEPT ![id[c]] = Tail(chan[id[c]])] /\ UNCHANGED <<evCh, writerVars>>
    BY <1>11 DEF Receive
  <2>5. Queues'
    BY <1>1, <2>3, <2>4 DEF TypeInv
  <2> QED
    BY <1>2, <1>3, <2>4, <2>5
<1>12. CASE Deliver
  <2>1. hold[1] \in Messages
    BY <1>12 DEF Deliver, TypeInv
  <2>2. hold[1].id \in Ids /\ hold[1].frame \in ResponseFrames
    BY <1>12, <2>1, MessageKinds DEF Deliver
  <2>3. chan[hold[1].id] \in Seq(ResponseFrames) /\ Len(chan[hold[1].id]) < responseQueueSize
    BY <1>12, <2>2 DEF Deliver, ChanRoom, TypeInv
  <2>4. Len(Append(chan[hold[1].id], hold[1].frame)) <= responseQueueSize
    BY <2>2, <2>3
  <2>5. chan' = [chan EXCEPT ![hold[1].id] = Append(chan[hold[1].id], hold[1].frame)]
        /\ UNCHANGED <<evCh, writerVars>>
    BY <1>12 DEF Deliver
  <2>6. Queues'
    BY <1>1, <2>4, <2>5 DEF TypeInv
  <2> QED
    BY <1>2, <1>3, <2>5, <2>6
<1>13. CASE QueueEvent
  <2>1. Len(evCh) < eventQueueSize /\ evCh' = Append(evCh, hold[1].ev) /\ UNCHANGED <<chan, writerVars>>
        /\ evCh \in Seq(Nat)
    BY <1>13 DEF QueueEvent, TypeInv
  <2>2. hold[1] \in Messages /\ hold[1].id = 0
    BY <1>13 DEF QueueEvent, TypeInv
  <2>3. Len(evCh') <= eventQueueSize
    BY <2>1, <2>2, MessageKinds
  <2> QED
    BY <1>1, <1>2, <1>3, <2>1, <2>3
<1>14. CASE Disconnected \/ eventLoop
  <2>1. Len(evCh') <= eventQueueSize
    <3>1. CASE evCh' = <<>>
      BY <3>1
    <3>2. CASE evCh # <<>> /\ evCh' = Tail(evCh)
      <4>1. Len(evCh') = Len(evCh) - 1 /\ Len(evCh) \in Nat
        BY <3>2 DEF TypeInv
      <4> QED
        BY <1>1, <4>1
    <3> QED
      BY <1>14, <3>1, <3>2 DEF Disconnected, eventLoop
  <2>2. UNCHANGED <<chan, writerVars>>
    BY <1>14 DEF Disconnected, eventLoop
  <2> QED
    BY <1>1, <1>2, <1>3, <2>1, <2>2
<1>15. ASSUME NEW c \in Clients,
              ClientLeave(c) \/ ReadRequest(c) \/ StreamFails(c) \/ Register(c) \/ Send(c) \/ ReceiveClosed(c)
       PROVE  CapsInv'
  <2>1. UNCHANGED <<queue, batch, drain, chan, evCh>>
    BY <1>15 DEF ClientLeave, ReadRequest, StreamFails, Register, Send, ReceiveClosed
  <2> QED
    BY <1>2, <1>3, <1>4, <2>1
<1>16. CASE ReadWire \/ Redial \/ Answer \/ Broadcast \/ Break \/ UNCHANGED vars
  <2>1. UNCHANGED <<queue, batch, drain, chan, evCh>>
    BY <1>16 DEF ReadWire, Redial, Answer, Broadcast, Break, vars
  <2> QED
    BY <1>2, <1>3, <1>4, <2>1
<1> QED
  BY <1>6, <1>7, <1>8, <1>9, <1>10, <1>11, <1>12, <1>13, <1>14, <1>15, <1>16
     DEF Next, Serve, Drain, Reader
-----------------------------------------------------------------------------
(* What a step does to the registrations and to what is on its way.        *)

\* Queues of messages or requests: what stays out of them, and whose they are.
LEMMA HasAppend ==
  ASSUME NEW S, NEW q \in Seq(S), NEW m \in S, NEW i
  PROVE  /\ Has(Append(q, m), i) <=> Has(q, i) \/ m.id = i
         /\ HoldsLast(Append(q, m), i) <=> HoldsLast(q, i) \/ (m.id = i /\ m.frame.last)
<1>1. /\ DOMAIN Append(q, m) = DOMAIN q \cup {Len(q) + 1} /\ Append(q, m)[Len(q) + 1] = m
      /\ \A k \in DOMAIN q : Append(q, m)[k] = q[k]
  OBVIOUS
<1> QED
  BY <1>1 DEF Has, HoldsLast

\* Taking the first message leaves those of every other id.
LEMMA HasTail ==
  ASSUME NEW S, NEW q \in Seq(S), q # <<>>, NEW i
  PROVE  /\ Has(Tail(q), i) => Has(q, i)
         /\ Has(q, i) => Has(Tail(q), i) \/ Head(q).id = i
<1>1. /\ \A k \in DOMAIN Tail(q) : k + 1 \in DOMAIN q /\ Tail(q)[k] = q[k + 1]
      /\ \A k \in DOMAIN q : k # 1 => k - 1 \in DOMAIN Tail(q) /\ Tail(q)[k - 1] = q[k]
      /\ Head(q) = q[1]
  BY TakeHead
<1>2. Has(Tail(q), i) => Has(q, i)
  BY <1>1 DEF Has
<1>3. Has(q, i) => Has(Tail(q), i) \/ Head(q).id = i
  BY <1>1 DEF Has
<1> QED
  BY <1>2, <1>3

\* A connection that breaks in the middle of the stream adds no message.
LEMMA HasPrefix ==
  ASSUME NEW S, NEW q \in Seq(S), NEW k \in 0 .. Len(q), NEW i
  PROVE  Has(SubSeq(q, 1, k), i) => Has(q, i)
<1>1. \A j \in DOMAIN SubSeq(q, 1, k) : j \in DOMAIN q /\ SubSeq(q, 1, k)[j] = q[j]
  OBVIOUS
<1> QED
  BY <1>1 DEF Has

\* What a queue of one message, and the empty queue, hold of an id.
LEMMA HasOne ==
  ASSUME NEW m, NEW i
  PROVE  /\ Has(<<m>>, i) <=> m.id = i
         /\ HoldsLast(<<m>>, i) <=> m.id = i /\ m.frame.last
         /\ ~Has(<<>>, i) /\ ~HoldsLast(<<>>, i)
<1>1. DOMAIN <<m>> = {1} /\ <<m>>[1] = m /\ DOMAIN <<>> = {}
  OBVIOUS
<1> QED
  BY <1>1 DEF Has, HoldsLast

\* A queue whose messages of an id are one request's stays so when it grows by one of them or shrinks.
LEMMA OwnMessagesKept ==
  ASSUME NEW S, NEW q \in Seq(S), NEW i, NEW c, NEW n0, OwnMessages(q, i, c, n0)
  PROVE  /\ \A m \in S : (m.id = i => m.frame.c = c /\ m.frame.n = n0)
                          => OwnMessages(Append(q, m), i, c, n0)
         /\ q # <<>> => OwnMessages(Tail(q), i, c, n0)
         /\ \A k \in 0 .. Len(q) : OwnMessages(SubSeq(q, 1, k), i, c, n0)
<1>1. ASSUME NEW m \in S, m.id = i => m.frame.c = c /\ m.frame.n = n0
      PROVE  OwnMessages(Append(q, m), i, c, n0)
  <2>1. /\ DOMAIN Append(q, m) = DOMAIN q \cup {Len(q) + 1} /\ Append(q, m)[Len(q) + 1] = m
        /\ \A k \in DOMAIN q : Append(q, m)[k] = q[k]
    OBVIOUS
  <2> QED
    BY <1>1, <2>1 DEF OwnMessages
<1>2. ASSUME q # <<>> PROVE OwnMessages(Tail(q), i, c, n0)
  <2>1. \A k \in DOMAIN Tail(q) : k + 1 \in DOMAIN q /\ Tail(q)[k] = q[k + 1]
    BY <1>2, TakeHead
  <2> QED
    BY <2>1 DEF OwnMessages
<1>3. ASSUME NEW k \in 0 .. Len(q) PROVE OwnMessages(SubSeq(q, 1, k), i, c, n0)
  <2>1. \A j \in DOMAIN SubSeq(q, 1, k) : j \in DOMAIN q /\ SubSeq(q, 1, k)[j] = q[j]
    OBVIOUS
  <2> QED
    BY <2>1 DEF OwnMessages
<1> QED
  BY <1>1, <1>2, <1>3

\* The same for the requests that wait at the transactor.
LEMMA OwnRequestsKept ==
  ASSUME NEW S, NEW q \in Seq(S), NEW i, NEW c, NEW n0, OwnRequests(q, i, c, n0)
  PROVE  /\ \A m \in S : (m.id = i => m.c = c /\ m.n = n0)
                          => OwnRequests(Append(q, m), i, c, n0)
         /\ q # <<>> => OwnRequests(Tail(q), i, c, n0)
<1>1. ASSUME NEW m \in S, m.id = i => m.c = c /\ m.n = n0
      PROVE  OwnRequests(Append(q, m), i, c, n0)
  <2>1. /\ DOMAIN Append(q, m) = DOMAIN q \cup {Len(q) + 1} /\ Append(q, m)[Len(q) + 1] = m
        /\ \A k \in DOMAIN q : Append(q, m)[k] = q[k]
    OBVIOUS
  <2> QED
    BY <1>1, <2>1 DEF OwnRequests
<1>2. ASSUME q # <<>> PROVE OwnRequests(Tail(q), i, c, n0)
  <2>1. \A k \in DOMAIN Tail(q) : k + 1 \in DOMAIN q /\ Tail(q)[k] = q[k + 1]
    BY <1>2, TakeHead
  <2> QED
    BY <2>1 DEF OwnRequests
<1> QED
  BY <1>1, <1>2

\* The frames in a channel: their owner, and whether the last is among them.
LEMMA FramesKept ==
  ASSUME NEW s \in Seq(ResponseFrames), NEW c, NEW n0
  PROVE  /\ \A f \in ResponseFrames : OwnFrames(s, c, n0) /\ f.c = c /\ f.n = n0
                                       => OwnFrames(Append(s, f), c, n0)
         /\ s # <<>> => /\ OwnFrames(s, c, n0) => OwnFrames(Tail(s), c, n0) /\ Head(s).c = c
                                                  /\ Head(s).n = n0
                        /\ HasLast(s) <=> HasLast(Tail(s)) \/ Head(s).last
<1>1. ASSUME NEW f \in ResponseFrames
      PROVE  OwnFrames(s, c, n0) /\ f.c = c /\ f.n = n0 => OwnFrames(Append(s, f), c, n0)
  <2>1. /\ DOMAIN Append(s, f) = DOMAIN s \cup {Len(s) + 1} /\ Append(s, f)[Len(s) + 1] = f
        /\ \A k \in DOMAIN s : Append(s, f)[k] = s[k]
    OBVIOUS
  <2> QED
    BY <2>1 DEF OwnFrames
<1>2. ASSUME s # <<>>
      PROVE  /\ OwnFrames(s, c, n0) => OwnFrames(Tail(s), c, n0) /\ Head(s).c = c /\ Head(s).n = n0
             /\ HasLast(s) <=> HasLast(Tail(s)) \/ Head(s).last
  <2>1. /\ \A k \in DOMAIN Tail(s) : k + 1 \in DOMAIN s /\ Tail(s)[k] = s[k + 1]
        /\ \A k \in DOMAIN s : k # 1 => k - 1 \in DOMAIN Tail(s) /\ Tail(s)[k - 1] = s[k]
        /\ Head(s) = s[1] /\ 1 \in DOMAIN s
    BY <1>2, TakeHead
  <2>2. OwnFrames(s, c, n0) => OwnFrames(Tail(s), c, n0) /\ Head(s).c = c /\ Head(s).n = n0
    BY <2>1 DEF OwnFrames
  <2>3. HasLast(s) <=> HasLast(Tail(s)) \/ Head(s).last
    BY <2>1 DEF HasLast
  <2> QED
    BY <2>2, <2>3
<1> QED
  BY <1>1, <1>2

\* A channel that gets one more frame.
LEMMA LastAppend ==
  ASSUME NEW s \in Seq(ResponseFrames), NEW f \in ResponseFrames
  PROVE  HasLast(Append(s, f)) <=> HasLast(s) \/ f.last
<1>1. /\ DOMAIN Append(s, f) = DOMAIN s \cup {Len(s) + 1} /\ Append(s, f)[Len(s) + 1] = f
      /\ \A k \in DOMAIN s : Append(s, f)[k] = s[k]
  OBVIOUS
<1> QED
  BY <1>1 DEF HasLast

\* Steps that leave the connection alone: a request that goes on does so
\* where it was, and one that ends had no registration.
Apart ==
  /\ UNCHANGED <<id, pending, shut, nextID, chan, hold, wire, requests, frame>>
  /\ \A d \in Clients : Active(d)' => st'[d] = st[d] /\ n'[d] = n[d] /\ Active(d)
  /\ \A d \in Clients : Active(d) => Active(d)' \/ id[d] \in shut

\* Steps of a client, its writer, the applier and the dialler leave the link's queues alone.
LEMMA ApartStep ==
  ASSUME TypeInv,
         \/ \E c \in Clients : \/ ClientLeave(c) \/ ReadRequest(c) \/ ReadFails(c) \/ Stream(c)
                               \/ StreamFails(c) \/ WriteError(c) \/ ReceiveClosed(c) \/ Drain(c)
                               \/ writeFrames(c)
         \/ Redial \/ eventLoop \/ UNCHANGED vars
  PROVE  Apart
<1> USE DEF clientVars, serveVars, writerVars, connVars, farVars
<1>1. ASSUME UNCHANGED <<st, n, id, pending, shut, nextID, chan, hold, wire, requests, frame>>
      PROVE  Apart
  BY <1>1 DEF Apart, Active
<1>2. CASE Redial \/ eventLoop \/ UNCHANGED vars
  BY <1>1, <1>2 DEF Redial, eventLoop, vars
<1>3. ASSUME NEW c \in Clients, ClientLeave(c) \/ Drain(c) \/ writeFrames(c) PROVE Apart
  BY <1>1, <1>3 DEF ClientLeave, Drain, DrainTake, writeFails, writeFrames
<1>4. ASSUME NEW c \in Clients,
             UNCHANGED <<id, pending, shut, nextID, chan, hold, wire, requests, frame>>,
             ~Active(c) \/ id[c] \in shut,
             NEW s \in States \ {"send", "wait", "relay"}, st' = [st EXCEPT ![c] = s],
             \A d \in Clients : d # c => n'[d] = n[d]
      PROVE  Apart
  <2>1. \A d \in Clients : st'[d] = IF d = c THEN s ELSE st[d]
    BY <1>4 DEF TypeInv
  <2> QED
    BY <1>4, <2>1 DEF Apart, Active
<1>5. ASSUME NEW c \in Clients, ReadRequest(c) PROVE Apart
  <2>1. \A d \in Clients : d # c => n'[d] = n[d]
    BY <1>5 DEF ReadRequest, TypeInv
  <2>2. \E s \in {"stream", "forward"} : st' = [st EXCEPT ![c] = s]
    BY <1>5 DEF ReadRequest, Goto
  <2>3. UNCHANGED <<id, pending, shut, nextID, chan, hold, wire, requests, frame>> /\ ~Active(c)
    BY <1>5 DEF ReadRequest, Active
  <2> QED
    BY <1>4, <2>1, <2>2, <2>3 DEF States
<1>6. ASSUME NEW c \in Clients,
             ReadFails(c) \/ Stream(c) \/ StreamFails(c) \/ WriteError(c) \/ ReceiveClosed(c)
      PROVE  Apart
  <2>1. \E s \in {"gone", "read", "stream", "error"} : st' = [st EXCEPT ![c] = s]
    BY <1>6 DEF ReadFails, Stream, StreamFails, WriteError, ReceiveClosed, Goto
  <2>2. /\ UNCHANGED <<n, id, pending, shut, nextID, chan, hold, wire, requests, frame>>
        /\ ~Active(c) \/ id[c] \in shut
    BY <1>6 DEF ReadFails, Stream, StreamFails, WriteError, ReceiveClosed, Active
  <2> QED
    BY <1>4, <2>1, <2>2 DEF States
<1> QED
  BY <1>2, <1>3, <1>5, <1>6

\* register.
RegisterEffect(c) ==
  /\ st[c] = "forward" /\ UNCHANGED <<n, left, shut, chan, hold, wire, requests, frame>>
  /\ \A d \in Clients : d # c => st'[d] = st[d] /\ id'[d] = id[d]
  /\ nextID + 1 \in Ids /\ nextID \in Nat
  /\ \/ /\ nextID' = nextID + 1 /\ id'[c] = nextID + 1 /\ st'[c] = "send"
        /\ pending' = pending \cup {nextID + 1}
     \/ UNCHANGED <<nextID, id, pending>> /\ st'[c] = "error"

\* register takes a fresh id for the client, or refuses.
LEMMA RegisterStep ==
  ASSUME TypeInv, CountInv, NEW c \in Clients, Register(c)
  PROVE  RegisterEffect(c)
<1> USE DEF clientVars, serveVars, writerVars, connVars, farVars, Goto
<1>1. nextID + 1 \in Ids /\ nextID \in Nat
  BY FreshId DEF Register
<1>2. \A d \in Clients : d # c => st'[d] = st[d] /\ id'[d] = id[d]
  BY DEF Register, TypeInv
<1>3. /\ st[c] = "forward" /\ UNCHANGED <<n, left, shut, chan, hold, wire, requests, frame>>
      /\ \/ /\ nextID' = nextID + 1 /\ id'[c] = nextID + 1 /\ st'[c] = "send"
            /\ pending' = pending \cup {nextID + 1}
         \/ UNCHANGED <<nextID, id, pending>> /\ st'[c] = "error"
  BY DEF Register, TypeInv
<1> QED
  BY <1>1, <1>2, <1>3 DEF RegisterEffect

\* sendFrame.
Sending(c) == [id |-> id[c], c |-> c, n |-> n[c], left |-> left[c]]
SendEffect(c) ==
  /\ st[c] = "send" /\ id[c] \in Ids
  /\ UNCHANGED <<n, left, id, nextID, shut, chan, hold, wire, frame>>
  /\ \A d \in Clients : d # c => st'[d] = st[d]
  /\ \/ st'[c] = "wait" /\ requests' = Append(requests, Sending(c)) /\ UNCHANGED pending
     \/ st'[c] = "wait" /\ UNCHANGED <<requests, pending>>
     \/ st'[c] = "error" /\ UNCHANGED requests /\ pending' = pending \ {id[c]}

\* The second half of register sends the request, or withdraws the registration.
LEMMA SendStep ==
  ASSUME TypeInv, IdsInv, NEW c \in Clients, Send(c)
  PROVE  SendEffect(c)
<1> USE DEF clientVars, serveVars, writerVars, connVars, farVars, Goto
<1>1. id[c] \in Ids
  BY ActiveId DEF Send, Active
<1>2. \A d \in Clients : d # c => st'[d] = st[d]
  BY DEF Send, TypeInv
<1>3. /\ st[c] = "send" /\ UNCHANGED <<n, left, id, nextID, shut, chan, hold, wire, frame>>
      /\ \/ st'[c] = "wait" /\ requests' = Append(requests, Sending(c)) /\ UNCHANGED pending
         \/ st'[c] = "wait" /\ UNCHANGED <<requests, pending>>
         \/ st'[c] = "error" /\ UNCHANGED requests /\ pending' = pending \ {id[c]}
  BY DEF Send, TypeInv, Sending
<1> QED
  BY <1>1, <1>2, <1>3 DEF SendEffect

\* Request takes a frame from its channel.
ReceiveEffect(c) ==
  /\ st[c] = "wait" /\ id[c] \in Ids /\ st'[c] = "relay"
  /\ UNCHANGED <<n, left, id, nextID, pending, shut, hold, wire, requests>>
  /\ \A d \in Clients : d # c => st'[d] = st[d] /\ frame'[d] = frame[d]
  /\ chan[id[c]] \in Seq(ResponseFrames) /\ chan[id[c]] # <<>>
  /\ frame'[c] = Head(chan[id[c]]) /\ chan'[id[c]] = Tail(chan[id[c]])
  /\ \A i \in Ids : i # id[c] => chan'[i] = chan[i]

\* Request takes the oldest frame of its own channel.
LEMMA ReceiveStep ==
  ASSUME TypeInv, IdsInv, NEW c \in Clients, Receive(c)
  PROVE  ReceiveEffect(c)
<1> USE DEF clientVars, serveVars, writerVars, connVars, farVars, Goto
<1>1. id[c] \in Ids
  BY ActiveId DEF Receive, Active
<1>2. \A d \in Clients : d # c => st'[d] = st[d] /\ frame'[d] = frame[d]
  BY DEF Receive, TypeInv
<1>3. /\ st[c] = "wait" /\ st'[c] = "relay"
      /\ UNCHANGED <<n, left, id, nextID, pending, shut, hold, wire, requests>>
      /\ frame'[c] = Head(chan[id[c]])
  BY DEF Receive, TypeInv
<1>4. /\ chan[id[c]] \in Seq(ResponseFrames) /\ chan[id[c]] # <<>>
      /\ chan'[id[c]] = Tail(chan[id[c]])
      /\ \A i \in Ids : i # id[c] => chan'[i] = chan[i]
  BY <1>1 DEF Receive, TypeInv
<1> QED
  BY <1>1, <1>2, <1>3, <1>4 DEF ReceiveEffect

\* relay.
RelayEffect(c) ==
  /\ st[c] = "relay" /\ id[c] \in Ids /\ frame[c] \in ResponseFrames
  /\ UNCHANGED <<n, left, id, nextID, shut, chan, hold, wire, requests>>
  /\ \A d \in Clients : d # c => st'[d] = st[d] /\ frame'[d] = frame[d]
  /\ \/ st'[c] = "error" /\ pending' = pending \ {id[c]}
     \/ st'[c] = "read" /\ frame[c].last /\ UNCHANGED pending
     \/ st'[c] = "wait" /\ ~frame[c].last /\ UNCHANGED pending

\* A relayed frame either ends the request or leaves it waiting for the next one.
LEMMA RelayStep ==
  ASSUME TypeInv, IdsInv, NEW c \in Clients, Relay(c)
  PROVE  RelayEffect(c)
<1> USE DEF clientVars, serveVars, writerVars, connVars, farVars, Goto
<1>1. id[c] \in Ids /\ frame[c] \in ResponseFrames
  BY ActiveId DEF Relay, Active, TypeInv
<1>2. \A d \in Clients : d # c => st'[d] = st[d] /\ frame'[d] = frame[d]
  BY DEF Relay, TypeInv
<1>3. /\ st[c] = "relay" /\ UNCHANGED <<n, left, id, nextID, shut, chan, hold, wire, requests>>
      /\ \/ st'[c] = "error" /\ pending' = pending \ {id[c]}
         \/ st'[c] = "read" /\ frame[c].last /\ UNCHANGED pending
         \/ st'[c] = "wait" /\ ~frame[c].last /\ UNCHANGED pending
  BY DEF Relay, TypeInv
<1> QED
  BY <1>1, <1>2, <1>3 DEF RelayEffect

\* The steps of the reader and of the transactor leave the requests as they are.
Settled == UNCHANGED <<st, n, left, id, nextID, frame>>

\* Steps of the link and the transactor change nothing of the serve loops; only a disconnect closes channels.
LEMMA SettledStep ==
  ASSUME ReadWire \/ Deliver \/ QueueEvent \/ Disconnected \/ Answer \/ Broadcast \/ Break
  PROVE  Settled /\ (Disconnected \/ UNCHANGED shut)
BY DEF ReadWire, Deliver, QueueEvent, Disconnected, Answer, Broadcast, Break, Settled,
   clientVars, serveVars, writerVars, connVars, farVars

\* The reader reads one message.
ReadEffect ==
  /\ hold = <<>> /\ wire # <<>> /\ wire \in Seq(Messages) /\ wire' = Tail(wire)
  /\ Head(wire) \in Messages /\ UNCHANGED <<chan, shut, requests>>
  /\ \/ /\ Head(wire).id = 0 /\ hold' = <<Head(wire)>> /\ UNCHANGED pending
     \/ /\ Head(wire).id \in pending /\ Head(wire).id # 0 /\ hold' = <<Head(wire)>>
        /\ pending' = IF Head(wire).frame.last THEN pending \ {Head(wire).id} ELSE pending
     \/ /\ Head(wire).id # 0 /\ Head(wire).id \notin pending /\ UNCHANGED <<hold, pending>>

\* The reader holds the first frame of the wire when its request is registered, and drops it otherwise.
LEMMA ReadStep ==
  ASSUME TypeInv, ReadWire
  PROVE  ReadEffect
<1>1. wire \in Seq(Messages) /\ wire # <<>>
  BY DEF ReadWire, TypeInv
<1>2. Head(wire) \in Messages
  BY <1>1
<1>3. \/ /\ Head(wire).id = 0 /\ hold' = <<Head(wire)>> /\ UNCHANGED pending
      \/ /\ Head(wire).id \in pending /\ Head(wire).id # 0 /\ hold' = <<Head(wire)>>
         /\ pending' = IF Head(wire).frame.last THEN pending \ {Head(wire).id} ELSE pending
      \/ /\ Head(wire).id # 0 /\ Head(wire).id \notin pending /\ UNCHANGED <<hold, pending>>
  BY DEF ReadWire
<1>4. /\ hold = <<>> /\ wire' = Tail(wire) /\ UNCHANGED <<chan, shut, requests>>
  BY DEF ReadWire
<1> QED
  BY <1>1, <1>2, <1>3, <1>4 DEF ReadEffect

\* The reader holds at most one message.
LEMMA OneMessage ==
  ASSUME NEW S, NEW q \in Seq(S), q # <<>>, Len(q) <= 1
  PROVE  q[1] \in S /\ q = <<q[1]>>
<1>1. Len(q) = 1
  <2>1. Len(q) \in Nat \ {0}
    BY EmptySeq
  <2> QED
    BY <2>1
<1>2. q[1] \in S
  BY <1>1
<1>3. <<q[1]>> \in Seq(S) /\ Len(<<q[1]>>) = 1 /\ <<q[1]>>[1] = q[1]
  BY <1>2
<1> QED
  BY <1>1, <1>2, <1>3, SeqEqual

\* The reader hands a frame over.
DeliverEffect ==
  /\ hold[1].id \in Ids /\ hold[1].frame \in ResponseFrames /\ hold = <<hold[1]>>
  /\ chan[hold[1].id] \in Seq(ResponseFrames)
  /\ chan'[hold[1].id] = Append(chan[hold[1].id], hold[1].frame)
  /\ \A i \in Ids : i # hold[1].id => chan'[i] = chan[i]
  /\ hold' = <<>> /\ UNCHANGED <<pending, shut, wire, requests>>

\* deliver moves the held frame to the end of one channel.
LEMMA DeliverStep ==
  ASSUME TypeInv, Deliver
  PROVE  DeliverEffect
<1> USE DEF clientVars, serveVars, writerVars, connVars, farVars
<1>1. hold \in Seq(Messages) /\ Len(hold) <= 1 /\ hold # <<>> /\ hold[1].id # 0
  BY DEF Deliver, TypeInv
<1>2. hold[1] \in Messages /\ hold = <<hold[1]>>
  BY <1>1, OneMessage
<1>3. hold[1].id \in Ids /\ hold[1].frame \in ResponseFrames
  BY <1>1, <1>2, MessageKinds
<1>4. /\ chan[hold[1].id] \in Seq(ResponseFrames)
      /\ chan'[hold[1].id] = Append(chan[hold[1].id], hold[1].frame)
      /\ \A i \in Ids : i # hold[1].id => chan'[i] = chan[i]
  BY <1>3 DEF Deliver, TypeInv
<1>5. hold' = <<>> /\ UNCHANGED <<pending, shut, wire, requests>>
  BY DEF Deliver
<1> QED
  BY <1>2, <1>3, <1>4, <1>5 DEF DeliverEffect

\* The reader queues an event.
LEMMA QueueEventStep ==
  ASSUME TypeInv, QueueEvent
  PROVE  /\ hold' = <<>> /\ UNCHANGED <<chan, pending, shut, wire, requests>>
         /\ \A i \in Ids : ~Has(hold, i) /\ ~HoldsLast(hold, i)
<1>1. hold \in Seq(Messages) /\ Len(hold) <= 1 /\ hold # <<>> /\ hold[1].id = 0
  BY DEF QueueEvent, TypeInv
<1>2. hold = <<hold[1]>>
  BY <1>1, OneMessage
<1>3. 0 \notin Ids
  BY IdsInterval
<1>4. ASSUME NEW i \in Ids PROVE ~Has(hold, i) /\ ~HoldsLast(hold, i)
  <2>1. i # hold[1].id
    BY <1>1, <1>3
  <2> QED
    BY <1>2, <2>1, HasOne
<1> QED
  BY <1>4 DEF QueueEvent, clientVars, serveVars, writerVars, farVars

\* The transactor sends a frame.
Answered == [id |-> Head(requests).id,
             frame |-> Frame(Head(requests).c, Head(requests).n, Head(requests).left = 1)]
AnswerEffect ==
  /\ Head(requests) \in Requests /\ requests \in Seq(Requests) /\ requests # <<>>
  /\ wire' = Append(wire, Answered) /\ Answered \in Messages
  /\ UNCHANGED <<pending, chan, shut, hold>>
  /\ \/ Head(requests).left = 1 /\ requests' = Tail(requests)
     \/ /\ Head(requests).left # 1 /\ DOMAIN requests' = DOMAIN requests
        /\ \A k \in DOMAIN requests : k # 1 => requests'[k] = requests[k]
        /\ requests'[1].id = requests[1].id /\ requests'[1].c = requests[1].c
        /\ requests'[1].n = requests[1].n /\ requests'[1].left = requests[1].left - 1

\* The transactor writes one frame of the oldest request.
LEMMA AnswerStep ==
  ASSUME TypeInv, Answer
  PROVE  AnswerEffect
<1> USE DEF clientVars, serveVars, writerVars, connVars, farVars
<1>1. requests \in Seq(Requests) /\ requests # <<>>
  BY DEF Answer, TypeInv
<1>2. Head(requests) \in Requests /\ Head(requests) = requests[1] /\ 1 \in DOMAIN requests
  BY <1>1
<1>3. Answered \in Messages
  BY <1>2 DEF Messages, Requests, Frame, ResponseFrames, Answered
<1>4. wire' = Append(wire, Answered) /\ UNCHANGED <<pending, chan, shut, hold>>
  BY DEF Answer, Answered
<1>5. CASE Head(requests).left = 1
  BY <1>1, <1>2, <1>3, <1>4, <1>5 DEF Answer, AnswerEffect
<1>6. CASE Head(requests).left # 1
  <2>1. requests' = [requests EXCEPT ![1].left = requests[1].left - 1]
    BY <1>6 DEF Answer
  <2>2. /\ requests'[1] = [requests[1] EXCEPT !.left = requests[1].left - 1]
        /\ DOMAIN requests' = DOMAIN requests
        /\ \A k \in DOMAIN requests : k # 1 => requests'[k] = requests[k]
    BY <1>2, <2>1
  <2>3. /\ requests'[1].id = requests[1].id /\ requests'[1].c = requests[1].c
        /\ requests'[1].n = requests[1].n /\ requests'[1].left = requests[1].left - 1
    BY <1>2, <2>2 DEF Requests
  <2> QED
    BY <1>1, <1>2, <1>3, <1>4, <1>6, <2>2, <2>3 DEF AnswerEffect
<1> QED
  BY <1>5, <1>6

\* A broadcast, and a break.
LEMMA BroadcastStep ==
  ASSUME TypeInv, Broadcast
  PROVE  /\ UNCHANGED <<pending, chan, shut, hold, requests>> /\ wire \in Seq(Messages)
         /\ \E m \in Messages : m.id = 0 /\ wire' = Append(wire, m)
<1>1. [id |-> 0, ev |-> events + 1] \in Messages
  BY DEF Messages, TypeInv
<1> QED
  BY <1>1 DEF Broadcast, TypeInv, clientVars, serveVars, writerVars, connVars

\* A break loses the waiting requests and the end of the wire.
LEMMA BreakStep ==
  ASSUME TypeInv, Break
  PROVE  /\ UNCHANGED <<pending, chan, shut, hold>> /\ requests' = <<>> /\ wire \in Seq(Messages)
         /\ \E k \in 0 .. Len(wire) : wire' = SubSeq(wire, 1, k)
BY DEF Break, TypeInv, clientVars, serveVars, writerVars

\* What every step but register and sendFrame does: nothing appears for an id
\* that is not registered or already on its way.
LEMMA IdsKept ==
  ASSUME TypeInv, IdsInv, UNCHANGED <<id, nextID>>, pending' \subseteq pending,
         shut' \subseteq shut \cup pending, pending' \cap shut' = {},
         \A c \in Clients : Active(c)' => Active(c),
         \A c \in Clients : st'[c] = "send" => st[c] = "send",
         \A i \in Ids : Quiet(i) => Quiet(i)'
  PROVE  IdsInv'
<1>1. \A c \in Clients : st[c] = "send" => id[c] \in Ids
  BY ActiveId DEF Active
<1>2. /\ \A i \in Ids : i > nextID' => Quiet(i)'
      /\ \A c \in Clients : st'[c] = "send" => Quiet(id[c])'
  BY <1>1 DEF IdsInv
<1>3. pending' \subseteq 1 .. nextID' /\ shut' \subseteq 1 .. nextID' /\ pending' \cap shut' = {}
  BY DEF IdsInv
<1>4. /\ \A c, d \in Clients : id'[c] = id'[d] /\ id'[c] # 0 => c = d
      /\ \A c \in Clients : Active(c)' => id'[c] # 0
  BY DEF IdsInv
<1>5. \A c \in Clients : st'[c] = "send" => Quiet(id[c])'
  BY <1>2
<1> QED
  BY <1>2, <1>3, <1>4, <1>5 DEF IdsInv

\* No step gives an id to two requests.
LEMMA IdsStep ==
  ASSUME TypeInv, CountInv, IdsInv, [Next]_vars
  PROVE  IdsInv'
<1>1. \A c \in Clients : Active(c) => id[c] \in Ids
  BY ActiveId
<1>2. ASSUME Apart PROVE IdsInv'
  <2>1. UNCHANGED <<id, nextID, pending, shut>> /\ \A i \in Ids : Quiet(i) => Quiet(i)'
    BY <1>2 DEF Apart, Quiet
  <2>2. pending \cap shut = {}
    BY DEF IdsInv
  <2>3. \A c \in Clients : Active(c)' => Active(c) /\ st'[c] = st[c]
    BY <1>2 DEF Apart
  <2>4. \A c \in Clients : st'[c] = "send" => Active(c)'
    BY DEF Active
  <2> QED
    BY <2>1, <2>2, <2>3, <2>4, IdsKept
<1>3. ASSUME NEW c \in Clients, Register(c) PROVE IdsInv'
  <2>1. RegisterEffect(c)
    BY <1>3, RegisterStep
  <2>2. UNCHANGED <<chan, hold, wire, requests>> /\ \A i : Quiet(i)' = Quiet(i)
    BY <2>1 DEF RegisterEffect, Quiet
  <2>3. CASE UNCHANGED <<nextID, id, pending>> /\ st'[c] = "error"
    <3>1. \A d \in Clients : (Active(d)' => Active(d)) /\ (st'[d] = "send" => st[d] = "send")
      BY <2>1, <2>3 DEF RegisterEffect, Active
    <3>2. UNCHANGED shut /\ pending \cap shut = {}
      BY <2>1 DEF RegisterEffect, IdsInv
    <3> QED
      BY <2>2, <2>3, <3>1, <3>2, IdsKept
  <2>4. CASE /\ nextID' = nextID + 1 /\ id'[c] = nextID + 1 /\ st'[c] = "send"
             /\ pending' = pending \cup {nextID + 1}
    <3>1. nextID + 1 \in Ids /\ nextID \in Nat /\ UNCHANGED shut
      BY <2>1 DEF RegisterEffect
    <3>2. \A d \in Clients : d # c => id'[d] = id[d] /\ st'[d] = st[d] /\ id[d] \in 0 .. nextID
      BY <2>1 DEF RegisterEffect, TypeInv
    <3>3. \A d \in Clients : d # c => id'[d] # id'[c]
      BY <2>4, <3>1, <3>2
    <3>4. \A d, e \in Clients : id'[d] = id'[e] /\ id'[d] # 0 => d = e
      BY <3>2, <3>3 DEF IdsInv
    <3>5. \A d \in Clients : Active(d)' => id'[d] # 0
      BY <2>4, <3>1, <3>2 DEF IdsInv, Active
    <3>6. pending' \subseteq 1 .. nextID' /\ shut' \subseteq 1 .. nextID' /\ pending' \cap shut' = {}
      <4>1. /\ pending \subseteq 1 .. nextID /\ shut \subseteq 1 .. nextID
            /\ pending \cap shut = {}
        BY DEF IdsInv
      <4>2. 1 .. nextID \subseteq 1 .. nextID + 1 /\ nextID + 1 \in 1 .. nextID + 1
            /\ nextID + 1 \notin 1 .. nextID
        BY <3>1
      <4> QED
        BY <2>4, <3>1, <4>1, <4>2
    <3>7. \A i \in Ids : i > nextID' => Quiet(i)'
      <4>1. \A i \in Ids : i > nextID' => i > nextID
        BY <2>4, <3>1, IdsInterval
      <4> QED
        BY <2>2, <4>1 DEF IdsInv
    <3>8. \A d \in Clients : st'[d] = "send" => Quiet(id'[d])
      <4>1. Quiet(nextID + 1)
        <5>1. nextID + 1 > nextID
          BY <3>1
        <5> QED
          BY <3>1, <5>1 DEF IdsInv
      <4> QED
        BY <2>4, <3>2, <4>1 DEF IdsInv
    <3>9. \A d \in Clients : st'[d] = "send" => Quiet(id[d])'
      BY <2>2, <3>8 DEF Quiet
    <3> QED
      BY <3>4, <3>5, <3>6, <3>7, <3>9 DEF IdsInv
  <2> QED
    BY <2>1, <2>3, <2>4 DEF RegisterEffect
<1>4. ASSUME NEW c \in Clients, Send(c) PROVE IdsInv'
  <2>1. SendEffect(c)
    BY <1>4, SendStep
  <2>2. /\ st[c] = "send" /\ id[c] \in Ids /\ \A d \in Clients : d # c => st'[d] = st[d]
        /\ UNCHANGED <<id, nextID, shut, chan, hold, wire>> /\ st'[c] \in {"wait", "error"}
        /\ pending' \subseteq pending
    BY <2>1 DEF SendEffect
  <2>3. \A i \in Ids : i # id[c] /\ ~Has(requests, i) => ~Has(requests', i)
    <3>1. CASE UNCHANGED requests
      BY <3>1
    <3>2. CASE requests' = Append(requests, Sending(c))
      <4>1. requests \in Seq(Requests) /\ Sending(c) \in Requests /\ Sending(c).id = id[c]
        BY <2>2 DEF TypeInv, Requests, Sending
      <4> QED
        BY <3>2, <4>1, HasAppend
    <3> QED
      BY <2>1, <3>1, <3>2 DEF SendEffect
  <2>4. \A i \in Ids : i # id[c] /\ Quiet(i) => Quiet(i)'
    BY <2>2, <2>3 DEF Quiet
  <2>5. id[c] \in 1 .. nextID
    BY <2>2, IdsInterval DEF TypeInv
  <2>6. \A i \in Ids : i > nextID' => Quiet(i)'
    <3>1. \A i \in Ids : i > nextID => i # id[c]
      BY <2>5, IdsInterval DEF TypeInv
    <3> QED
      BY <2>2, <2>4, <3>1 DEF IdsInv
  <2>7. \A d \in Clients : st'[d] = "send" => Quiet(id[d])'
    <3>1. ASSUME NEW d \in Clients, st'[d] = "send" PROVE Quiet(id[d])'
      <4>1. d # c /\ st[d] = "send"
        BY <2>2, <3>1
      <4>2. id[d] \in Ids /\ id[d] # id[c]
        BY <1>1, <2>2, <4>1 DEF IdsInv, Active
      <4> QED
        BY <2>2, <2>4, <4>1, <4>2 DEF IdsInv
    <3> QED
      BY <3>1
  <2>8. /\ \A d, e \in Clients : id'[d] = id'[e] /\ id'[d] # 0 => d = e
        /\ pending' \subseteq 1 .. nextID' /\ shut' \subseteq 1 .. nextID' /\ pending' \cap shut' = {}
    BY <2>2 DEF IdsInv
  <2>9. \A d \in Clients : Active(d)' => id'[d] # 0
    BY <2>2 DEF IdsInv, Active
  <2> QED
    BY <2>6, <2>7, <2>8, <2>9 DEF IdsInv
<1>5. ASSUME NEW c \in Clients, Receive(c) PROVE IdsInv'
  <2>1. ReceiveEffect(c)
    BY <1>5, ReceiveStep
  <2>2. UNCHANGED <<id, nextID, pending, shut, hold, wire, requests>> /\ pending \cap shut = {}
    BY <2>1 DEF ReceiveEffect, IdsInv
  <2>3. \A d \in Clients : (Active(d)' => Active(d)) /\ (st'[d] = "send" => st[d] = "send")
    BY <2>1 DEF ReceiveEffect, Active
  <2>4. \A i \in Ids : Quiet(i) => Quiet(i)'
    BY <2>1, <2>2 DEF ReceiveEffect, Quiet
  <2> QED
    BY <2>2, <2>3, <2>4, IdsKept
<1>6. ASSUME NEW c \in Clients, Relay(c) PROVE IdsInv'
  <2>1. RelayEffect(c)
    BY <1>6, RelayStep
  <2>2. /\ UNCHANGED <<id, nextID, chan, shut, hold, wire, requests>> /\ pending' \subseteq pending
        /\ pending' \cap shut = {}
    BY <2>1 DEF RelayEffect, IdsInv
  <2>3. \A d \in Clients : (Active(d)' => Active(d)) /\ (st'[d] = "send" => st[d] = "send")
    BY <2>1 DEF RelayEffect, Active
  <2>4. \A i \in Ids : Quiet(i) => Quiet(i)'
    BY <2>2 DEF Quiet
  <2> QED
    BY <2>2, <2>3, <2>4, IdsKept
<1>7. ASSUME Settled, pending' \subseteq pending, shut' \subseteq shut \cup pending,
             pending' \cap shut' = {}, \A i \in Ids : Quiet(i) => Quiet(i)'
      PROVE  IdsInv'
  BY <1>7, IdsKept DEF Settled, Active
<1>8. ASSUME Settled, UNCHANGED shut, pending' \subseteq pending, \A i \in Ids : Quiet(i) => Quiet(i)'
      PROVE  IdsInv'
  BY <1>7, <1>8 DEF IdsInv
<1>9. CASE ReadWire
  <2>1. ReadEffect /\ Settled
    BY <1>9, ReadStep, SettledStep
  <2>2. pending' \subseteq pending /\ UNCHANGED <<shut, chan, requests>>
    BY <2>1 DEF ReadEffect
  <2>3. ASSUME NEW i \in Ids, Quiet(i) PROVE Quiet(i)'
    <3>1. wire # <<>> /\ wire \in Seq(Messages) /\ wire' = Tail(wire) /\ ~Has(wire, i)
      BY <2>1, <2>3 DEF ReadEffect, Quiet
    <3>2. Head(wire).id # i
      <4>1. Head(wire) = wire[1] /\ 1 \in DOMAIN wire
        BY <3>1, TakeHead
      <4> QED
        BY <3>1, <4>1 DEF Has
    <3>3. ~Has(wire', i)
      BY <3>1, HasTail
    <3>4. ~Has(hold', i)
      <4>1. hold' = hold \/ hold' = <<Head(wire)>>
        BY <2>1 DEF ReadEffect
      <4>2. ~Has(<<Head(wire)>>, i)
        BY <3>2, HasOne
      <4> QED
        BY <2>3, <4>1, <4>2 DEF Quiet
    <3> QED
      BY <2>2, <2>3, <3>3, <3>4 DEF Quiet
  <2> QED
    BY <1>8, <2>1, <2>2, <2>3
<1>10. CASE Deliver
  <2>1. DeliverEffect /\ Settled
    BY <1>10, DeliverStep, SettledStep
  <2>2. ASSUME NEW i \in Ids, Quiet(i) PROVE Quiet(i)'
    <3>1. hold = <<hold[1]>> /\ ~Has(hold, i)
      BY <2>1, <2>2 DEF DeliverEffect, Quiet
    <3>2. hold[1].id # i
      BY <3>1, HasOne
    <3>3. chan'[i] = chan[i] /\ ~Has(hold', i) /\ UNCHANGED <<wire, requests>>
      BY <2>1, <3>2, HasOne DEF DeliverEffect
    <3> QED
      BY <2>2, <3>3 DEF Quiet
  <2> QED
    BY <1>8, <2>1, <2>2 DEF DeliverEffect
<1>11. CASE QueueEvent
  <2>1. hold' = <<>> /\ UNCHANGED <<chan, pending, shut, wire, requests>> /\ Settled
    BY <1>11, QueueEventStep, SettledStep
  <2>2. \A i \in Ids : Quiet(i) => Quiet(i)'
    BY <2>1, HasOne DEF Quiet
  <2> QED
    BY <1>8, <2>1, <2>2
<1>12. CASE Disconnected
  <2>1. Settled
    BY <1>12, SettledStep
  <2>2. shut' = shut \cup pending /\ pending' = {} /\ UNCHANGED <<chan, hold, wire, requests>>
    BY <1>12 DEF Disconnected, farVars
  <2>3. \A i \in Ids : Quiet(i) => Quiet(i)'
    BY <2>2 DEF Quiet
  <2> QED
    BY <1>7, <2>1, <2>2, <2>3
<1>13. CASE Answer
  <2>1. AnswerEffect /\ Settled /\ wire \in Seq(Messages)
    BY <1>13, AnswerStep, SettledStep DEF TypeInv
  <2>2. ASSUME NEW i \in Ids, Quiet(i) PROVE Quiet(i)'
    <3>1. ~Has(requests, i) /\ ~Has(wire, i) /\ requests \in Seq(Requests) /\ requests # <<>>
      BY <2>1, <2>2 DEF AnswerEffect, Quiet
    <3>2. Head(requests) = requests[1] /\ 1 \in DOMAIN requests
      BY <3>1, TakeHead
    <3>3. Answered.id = requests[1].id /\ requests[1].id # i
      BY <3>1, <3>2 DEF Answered, Has
    <3>4. ~Has(wire', i)
      <4>1. wire' = Append(wire, Answered) /\ Answered \in Messages
        BY <2>1 DEF AnswerEffect
      <4> QED
        BY <2>1, <3>1, <3>3, <4>1, HasAppend
    <3>5. ~Has(requests', i)
      <4>1. CASE requests' = Tail(requests)
        BY <3>1, <4>1, HasTail
      <4>2. CASE /\ DOMAIN requests' = DOMAIN requests /\ requests'[1].id = requests[1].id
                 /\ \A k \in DOMAIN requests : k # 1 => requests'[k] = requests[k]
        BY <3>1, <3>3, <4>2 DEF Has
      <4> QED
        BY <2>1, <4>1, <4>2 DEF AnswerEffect
    <3> QED
      BY <2>1, <2>2, <3>4, <3>5 DEF Quiet, AnswerEffect
  <2> QED
    BY <1>8, <2>1, <2>2 DEF AnswerEffect
<1>14. CASE Broadcast
  <2>1. UNCHANGED <<pending, chan, shut, hold, requests>> /\ wire \in Seq(Messages) /\ Settled
    BY <1>14, BroadcastStep, SettledStep
  <2>2. PICK m \in Messages : m.id = 0 /\ wire' = Append(wire, m)
    BY <1>14, BroadcastStep
  <2>3. \A i \in Ids : ~Has(wire, i) => ~Has(wire', i)
    BY <2>1, <2>2, HasAppend, IdsInterval
  <2>4. \A i \in Ids : Quiet(i) => Quiet(i)'
    BY <2>1, <2>3 DEF Quiet
  <2> QED
    BY <1>8, <2>1, <2>4
<1>15. CASE Break
  <2>1. /\ UNCHANGED <<pending, chan, shut, hold>> /\ requests' = <<>> /\ wire \in Seq(Messages)
        /\ Settled
    BY <1>15, BreakStep, SettledStep
  <2>2. PICK k \in 0 .. Len(wire) : wire' = SubSeq(wire, 1, k)
    BY <1>15, BreakStep
  <2>3. \A i \in Ids : ~Has(wire, i) => ~Has(wire', i)
    BY <2>1, <2>2, HasPrefix
  <2>4. \A i \in Ids : Quiet(i) => Quiet(i)'
    BY <2>1, <2>3, HasOne DEF Quiet
  <2> QED
    BY <1>8, <2>1, <2>4
<1> QED
  BY <1>2, <1>3, <1>4, <1>5, <1>6, <1>9, <1>10, <1>11, <1>12, <1>13, <1>14, <1>15, ApartStep
     DEF Next, Serve, Reader

\* What is on its way to the current request of c, but for the frame it relays.
Owned(c) ==
  /\ OwnFrames(chan[id[c]], c, n[c])
  /\ OwnMessages(hold, id[c], c, n[c]) /\ OwnMessages(wire, id[c], c, n[c])
  /\ OwnRequests(requests, id[c], c, n[c])

\* Nothing that is on its way to a request is part of the answer to another one.
LEMMA OwnStep ==
  ASSUME TypeInv, CountInv, IdsInv, OwnInv, [Next]_vars
  PROVE  OwnInv'
<1>1. \A c \in Clients : Active(c) => id[c] \in Ids /\ id[c] # 0
  BY ActiveId DEF IdsInv
<1>2. \A c \in Clients : Active(c) => Owned(c) /\ (st[c] = "relay" => frame[c].c = c /\ frame[c].n = n[c])
  BY DEF OwnInv, Owned
<1>3. ASSUME \A c \in Clients : Active(c)' => Owned(c)',
             \A c \in Clients : st'[c] = "relay" => frame'[c].c = c /\ frame'[c].n = n'[c]
      PROVE  OwnInv'
  BY <1>3 DEF OwnInv, Owned
<1>4. ASSUME Apart PROVE OwnInv'
  <2>1. \A c \in Clients : Active(c)' => Owned(c)'
    BY <1>2, <1>4 DEF Apart, Owned
  <2>2. \A c \in Clients : st'[c] = "relay" => frame'[c].c = c /\ frame'[c].n = n'[c]
    BY <1>2, <1>4 DEF Apart, Active
  <2> QED
    BY <1>3, <2>1, <2>2
<1>5. ASSUME NEW c \in Clients, Register(c) PROVE OwnInv'
  <2>1. RegisterEffect(c)
    BY <1>5, RegisterStep
  <2>2. ASSUME NEW d \in Clients, Active(d)', d # c \/ st'[c] = "error" PROVE Owned(d)'
    <3>1. Active(d) /\ id'[d] = id[d]
      BY <2>1, <2>2 DEF RegisterEffect, Active
    <3> QED
      BY <1>2, <2>1, <3>1 DEF RegisterEffect, Owned
  <2>3. ASSUME st'[c] = "send" PROVE Owned(c)'
    <3>1. Quiet(nextID + 1) /\ id'[c] = nextID + 1
      <4>1. nextID + 1 \in Ids /\ nextID + 1 > nextID /\ id'[c] = nextID + 1
        BY <2>1, <2>3 DEF RegisterEffect
      <4> QED
        BY <4>1 DEF IdsInv
    <3>2. /\ chan'[id'[c]] = <<>> /\ ~Has(hold', id'[c]) /\ ~Has(wire', id'[c])
          /\ ~Has(requests', id'[c])
      BY <2>1, <3>1 DEF RegisterEffect, Quiet
    <3>3. DOMAIN chan'[id'[c]] = {}
      BY <3>2
    <3> QED
      BY <3>2, <3>3 DEF Owned, OwnFrames, OwnMessages, OwnRequests, Has
  <2>4. \A d \in Clients : st'[d] = "relay" => frame'[d].c = d /\ frame'[d].n = n'[d]
    BY <1>2, <2>1 DEF RegisterEffect, Active
  <2>5. st'[c] = "error" \/ st'[c] = "send"
    BY <2>1 DEF RegisterEffect
  <2> QED
    BY <1>3, <2>2, <2>3, <2>4, <2>5
<1>6. ASSUME NEW c \in Clients, Send(c) PROVE OwnInv'
  <2>1. SendEffect(c)
    BY <1>6, SendStep
  <2>2. UNCHANGED <<id, n, chan, hold, wire, frame>>
    BY <2>1 DEF SendEffect
  <2>3. ASSUME NEW d \in Clients, Active(d)' PROVE Owned(d)'
    <3>1. Active(d) /\ id[d] \in Ids
      BY <1>1, <2>1, <2>3 DEF SendEffect, Active
    <3>2. OwnRequests(requests, id[d], d, n[d])
      BY <1>2, <3>1 DEF Owned
    <3>3. OwnRequests(requests', id[d], d, n[d])
      <4>1. CASE UNCHANGED requests
        BY <3>2, <4>1
      <4>2. CASE requests' = Append(requests, Sending(c))
        <5>1. requests \in Seq(Requests)
          BY DEF TypeInv
        <5>2. Sending(c) \in Requests
          BY <2>1 DEF SendEffect, TypeInv, Requests, Sending
        <5>3. Sending(c).id = id[d] => Sending(c).c = d /\ Sending(c).n = n[d]
          <6>1. id[c] = id[d] => c = d
            BY <1>1, <3>1 DEF IdsInv
          <6> QED
            BY <6>1 DEF Sending
        <5> QED
          BY <3>2, <4>2, <5>1, <5>2, <5>3, OwnRequestsKept
      <4> QED
        BY <2>1, <4>1, <4>2 DEF SendEffect
    <3> QED
      BY <1>2, <2>2, <3>1, <3>3 DEF Owned
  <2>4. \A d \in Clients : st'[d] = "relay" => frame'[d].c = d /\ frame'[d].n = n'[d]
    BY <1>2, <2>1 DEF SendEffect, Active
  <2> QED
    BY <1>3, <2>3, <2>4
<1>7. ASSUME NEW c \in Clients, Receive(c) PROVE OwnInv'
  <2>1. ReceiveEffect(c)
    BY <1>7, ReceiveStep
  <2>2. UNCHANGED <<id, n, hold, wire, requests>>
    BY <2>1 DEF ReceiveEffect
  <2>3. /\ OwnFrames(Tail(chan[id[c]]), c, n[c])
        /\ Head(chan[id[c]]).c = c /\ Head(chan[id[c]]).n = n[c]
    <3>1. OwnFrames(chan[id[c]], c, n[c]) /\ chan[id[c]] \in Seq(ResponseFrames) /\ chan[id[c]] # <<>>
      BY <1>2, <2>1 DEF ReceiveEffect, Owned, Active
    <3> QED
      BY <3>1, FramesKept
  <2>4. ASSUME NEW d \in Clients, Active(d)' PROVE Owned(d)'
    <3>1. Active(d) /\ id[d] \in Ids
      BY <1>1, <2>1, <2>4 DEF ReceiveEffect, Active
    <3>2. OwnFrames(chan'[id[d]], d, n[d])
      <4>1. CASE d = c
        BY <2>1, <2>3, <4>1 DEF ReceiveEffect
      <4>2. CASE d # c
        <5>1. id[d] # id[c]
          BY <1>1, <3>1, <4>2 DEF IdsInv
        <5> QED
          BY <1>2, <2>1, <3>1, <5>1 DEF ReceiveEffect, Owned
      <4> QED
        BY <4>1, <4>2
    <3> QED
      BY <1>2, <2>2, <3>1, <3>2 DEF Owned
  <2>5. \A d \in Clients : st'[d] = "relay" => frame'[d].c = d /\ frame'[d].n = n'[d]
    BY <1>2, <2>1, <2>3 DEF ReceiveEffect, Active
  <2> QED
    BY <1>3, <2>4, <2>5
<1>8. ASSUME NEW c \in Clients, Relay(c) PROVE OwnInv'
  <2>1. RelayEffect(c)
    BY <1>8, RelayStep
  <2>2. \A d \in Clients : Active(d)' => Active(d)
    BY <2>1 DEF RelayEffect, Active
  <2>3. \A d \in Clients : Active(d)' => Owned(d)'
    BY <1>2, <2>1, <2>2 DEF RelayEffect, Owned
  <2>4. \A d \in Clients : st'[d] = "relay" => frame'[d].c = d /\ frame'[d].n = n'[d]
    BY <1>2, <2>1 DEF RelayEffect, Active
  <2> QED
    BY <1>3, <2>3, <2>4
<1>9. ASSUME Settled, \A c \in Clients : Active(c) => Owned(c)' PROVE OwnInv'
  <2>1. \A c \in Clients : Active(c)' => Owned(c)'
    BY <1>9 DEF Settled, Active
  <2>2. \A c \in Clients : st'[c] = "relay" => frame'[c].c = c /\ frame'[c].n = n'[c]
    BY <1>2, <1>9 DEF Settled, Active
  <2> QED
    BY <1>3, <2>1, <2>2
<1>10. CASE ReadWire
  <2>1. ReadEffect /\ Settled
    BY <1>10, ReadStep, SettledStep
  <2>2. ASSUME NEW c \in Clients, Active(c) PROVE Owned(c)'
    <3>1. OwnMessages(wire, id[c], c, n[c]) /\ OwnMessages(hold, id[c], c, n[c])
      BY <1>2, <2>2 DEF Owned
    <3>2. OwnMessages(wire', id[c], c, n[c])
      BY <2>1, <3>1, OwnMessagesKept DEF ReadEffect
    <3>3. OwnMessages(hold', id[c], c, n[c])
      <4>1. Head(wire) = wire[1] /\ 1 \in DOMAIN wire
        BY <2>1, TakeHead DEF ReadEffect
      <4>2. OwnMessages(<<Head(wire)>>, id[c], c, n[c])
        <5>1. DOMAIN <<Head(wire)>> = {1} /\ <<Head(wire)>>[1] = Head(wire)
          OBVIOUS
        <5> QED
          BY <3>1, <4>1, <5>1 DEF OwnMessages
      <4>3. hold' = hold \/ hold' = <<Head(wire)>>
        BY <2>1 DEF ReadEffect
      <4> QED
        BY <3>1, <4>2, <4>3
    <3> QED
      BY <1>2, <2>1, <2>2, <3>2, <3>3 DEF Owned, Settled, ReadEffect
  <2> QED
    BY <1>9, <2>1, <2>2
<1>11. CASE Deliver
  <2>1. DeliverEffect /\ Settled
    BY <1>11, DeliverStep, SettledStep
  <2>2. ASSUME NEW c \in Clients, Active(c) PROVE Owned(c)'
    <3>1. OwnFrames(chan[id[c]], c, n[c]) /\ OwnMessages(hold, id[c], c, n[c])
      BY <1>2, <2>2 DEF Owned
    <3>2. OwnFrames(chan'[id[c]], c, n[c])
      <4>1. CASE id[c] # hold[1].id
        BY <1>1, <2>1, <2>2, <3>1, <4>1 DEF DeliverEffect
      <4>2. CASE id[c] = hold[1].id
        <5>1. 1 \in DOMAIN hold
          BY <2>1 DEF DeliverEffect
        <5>2. hold[1].frame.c = c /\ hold[1].frame.n = n[c]
          BY <3>1, <4>2, <5>1 DEF OwnMessages
        <5>3. chan[id[c]] \in Seq(ResponseFrames) /\ hold[1].frame \in ResponseFrames
          BY <2>1, <4>2 DEF DeliverEffect
        <5>4. OwnFrames(Append(chan[id[c]], hold[1].frame), c, n[c])
          BY <3>1, <5>2, <5>3, FramesKept
        <5> QED
          BY <2>1, <4>2, <5>4 DEF DeliverEffect
      <4> QED
        BY <4>1, <4>2
    <3>3. OwnMessages(hold', id[c], c, n[c])
      <4>1. DOMAIN hold' = {}
        BY <2>1 DEF DeliverEffect
      <4> QED
        BY <4>1 DEF OwnMessages
    <3> QED
      BY <1>2, <2>1, <2>2, <3>2, <3>3 DEF Owned, Settled, DeliverEffect
  <2> QED
    BY <1>9, <2>1, <2>2
<1>12. CASE QueueEvent
  <2>1. hold' = <<>> /\ UNCHANGED <<chan, pending, shut, wire, requests>> /\ Settled
    BY <1>12, QueueEventStep, SettledStep
  <2>2. DOMAIN hold' = {}
    BY <2>1
  <2>3. \A i, c, k : OwnMessages(hold', i, c, k)
    BY <2>2 DEF OwnMessages
  <2> QED
    BY <1>2, <1>9, <2>1, <2>3 DEF Owned, Settled
<1>13. CASE Disconnected
  <2>1. Settled /\ UNCHANGED <<chan, hold, wire, requests>>
    BY <1>13, SettledStep DEF Disconnected, farVars
  <2> QED
    BY <1>2, <1>9, <2>1 DEF Owned, Settled
<1>14. CASE Answer
  <2>1. AnswerEffect /\ Settled /\ wire \in Seq(Messages)
    BY <1>14, AnswerStep, SettledStep DEF TypeInv
  <2>2. Head(requests) = requests[1] /\ 1 \in DOMAIN requests
    BY <2>1, TakeHead DEF AnswerEffect
  <2>3. ASSUME NEW c \in Clients, Active(c) PROVE Owned(c)'
    <3>1. OwnMessages(wire, id[c], c, n[c]) /\ OwnRequests(requests, id[c], c, n[c])
      BY <1>2, <2>3 DEF Owned
    <3>2. Answered.id = id[c] => Answered.frame.c = c /\ Answered.frame.n = n[c]
      BY <2>2, <3>1 DEF Answered, Frame, OwnRequests
    <3>3. OwnMessages(wire', id[c], c, n[c])
      BY <2>1, <3>1, <3>2, OwnMessagesKept DEF AnswerEffect
    <3>4. OwnRequests(requests', id[c], c, n[c])
      <4>1. CASE requests' = Tail(requests)
        BY <2>1, <3>1, <4>1, OwnRequestsKept DEF AnswerEffect
      <4>2. CASE /\ DOMAIN requests' = DOMAIN requests
                 /\ \A k \in DOMAIN requests : k # 1 => requests'[k] = requests[k]
                 /\ requests'[1].id = requests[1].id /\ requests'[1].c = requests[1].c
                 /\ requests'[1].n = requests[1].n
        BY <3>1, <4>2 DEF OwnRequests
      <4> QED
        BY <2>1, <4>1, <4>2 DEF AnswerEffect
    <3> QED
      BY <1>2, <2>1, <2>3, <3>3, <3>4 DEF Owned, Settled, AnswerEffect
  <2> QED
    BY <1>9, <2>1, <2>3
<1>15. CASE Broadcast
  <2>1. UNCHANGED <<pending, chan, shut, hold, requests>> /\ wire \in Seq(Messages) /\ Settled
    BY <1>15, BroadcastStep, SettledStep
  <2>2. PICK m \in Messages : m.id = 0 /\ wire' = Append(wire, m)
    BY <1>15, BroadcastStep
  <2>3. ASSUME NEW c \in Clients, Active(c) PROVE OwnMessages(wire', id[c], c, n[c])
    <3>1. OwnMessages(wire, id[c], c, n[c]) /\ m.id # id[c]
      BY <1>1, <1>2, <2>2, <2>3 DEF Owned
    <3> QED
      BY <2>1, <2>2, <3>1, OwnMessagesKept
  <2> QED
    BY <1>2, <1>9, <2>1, <2>3 DEF Owned, Settled
<1>16. CASE Break
  <2>1. /\ UNCHANGED <<pending, chan, shut, hold>> /\ requests' = <<>> /\ wire \in Seq(Messages)
        /\ Settled
    BY <1>16, BreakStep, SettledStep
  <2>2. PICK k \in 0 .. Len(wire) : wire' = SubSeq(wire, 1, k)
    BY <1>16, BreakStep
  <2>3. ASSUME NEW c \in Clients, Active(c) PROVE OwnMessages(wire', id[c], c, n[c])
    <3>1. OwnMessages(wire, id[c], c, n[c])
      BY <1>2, <2>3 DEF Owned
    <3> QED
      BY <2>1, <2>2, <3>1, OwnMessagesKept
  <2>4. \A i, c, n0 : OwnRequests(requests', i, c, n0)
    <3>1. DOMAIN requests' = {}
      BY <2>1
    <3> QED
      BY <3>1 DEF OwnRequests
  <2> QED
    BY <1>2, <1>9, <2>1, <2>3, <2>4 DEF Owned, Settled
<1> QED
  BY <1>4, <1>5, <1>6, <1>7, <1>8, <1>10, <1>11, <1>12, <1>13, <1>14, <1>15, <1>16, ApartStep
     DEF Next, Serve, Reader

\* A last frame that was read is never one of a registered request.
LEMMA LastStep ==
  ASSUME TypeInv, CountInv, IdsInv, LastInv, [Next]_vars
  PROVE  LastInv'
<1>1. \A c \in Clients : Active(c) => id[c] \in Ids /\ id[c] # 0
  BY ActiveId DEF IdsInv
<1>2. pending \subseteq Ids /\ pending' \subseteq Ids
  <2>1. TypeInv => pending \subseteq Ids
    BY DEF TypeInv
  <2>2. pending' \subseteq pending \cup Ids
    <3>1. ASSUME NEW c \in Clients, Register(c) PROVE pending' \subseteq pending \cup Ids
      BY <3>1, RegisterStep DEF RegisterEffect
    <3>2. ASSUME NEW c \in Clients, Send(c) \/ Relay(c) PROVE pending' \subseteq pending
      BY <3>2, SendStep, RelayStep DEF SendEffect, RelayEffect
    <3>3. ASSUME NEW c \in Clients, Receive(c) PROVE pending' \subseteq pending
      BY <3>3, ReceiveStep DEF ReceiveEffect
    <3>4. ASSUME ReadWire \/ Deliver \/ QueueEvent \/ Disconnected PROVE pending' \subseteq pending
      BY <3>4 DEF ReadWire, Deliver, QueueEvent, Disconnected
    <3>5. ASSUME Answer \/ Broadcast \/ Break PROVE pending' = pending
      BY <3>5 DEF Answer, Broadcast, Break, connVars
    <3> QED
      BY <3>1, <3>2, <3>3, <3>4, <3>5, ApartStep DEF Next, Serve, Reader, Apart
  <2> QED
    BY <2>1, <2>2
<1>3. ASSUME \A i \in pending' : i \in pending /\ (LastRead(i)' => LastRead(i)),
             \A c \in Clients : st'[c] = "relay" => st[c] = "relay" /\ frame'[c] = frame[c]
                                                    /\ id'[c] = id[c]
      PROVE  LastInv'
  BY <1>3 DEF LastInv
<1>4. ASSUME Apart PROVE LastInv'
  BY <1>3, <1>4 DEF Apart, LastRead, Active
<1>5. ASSUME NEW c \in Clients, Register(c) PROVE LastInv'
  <2>1. RegisterEffect(c)
    BY <1>5, RegisterStep
  <2>2. \A i : LastRead(i)' = LastRead(i)
    BY <2>1 DEF RegisterEffect, LastRead
  <2>3. ~LastRead(nextID + 1)
    <3>1. nextID + 1 \in Ids /\ nextID + 1 > nextID
      BY <2>1 DEF RegisterEffect
    <3>2. chan[nextID + 1] = <<>> /\ ~Has(hold, nextID + 1)
      BY <3>1 DEF IdsInv, Quiet
    <3>3. ~HasLast(<<>>)
      BY DEF HasLast
    <3> QED
      BY <3>2, <3>3 DEF LastRead, Has, HoldsLast
  <2>4. \A i \in pending' : ~LastRead(i)'
    BY <2>1, <2>2, <2>3 DEF RegisterEffect, LastInv
  <2>5. ASSUME NEW d \in Clients, st'[d] = "relay", frame'[d].last PROVE id'[d] \notin pending'
    <3>1. d # c /\ st[d] = "relay" /\ frame[d].last /\ id'[d] = id[d]
      BY <2>1, <2>5 DEF RegisterEffect
    <3>2. id[d] \notin pending
      BY <3>1 DEF LastInv
    <3>3. id[d] # nextID + 1
      BY <2>1 DEF RegisterEffect, TypeInv
    <3> QED
      BY <2>1, <3>1, <3>2, <3>3 DEF RegisterEffect
  <2> QED
    BY <2>4, <2>5 DEF LastInv
<1>6. ASSUME NEW c \in Clients, Send(c) PROVE LastInv'
  <2>1. SendEffect(c)
    BY <1>6, SendStep
  <2>2. \A i : LastRead(i)' = LastRead(i)
    BY <2>1 DEF SendEffect, LastRead
  <2> QED
    BY <1>3, <2>1, <2>2 DEF SendEffect
<1>7. ASSUME NEW c \in Clients, Receive(c) PROVE LastInv'
  <2>1. ReceiveEffect(c)
    BY <1>7, ReceiveStep
  <2>2. HasLast(chan[id[c]]) <=> HasLast(Tail(chan[id[c]])) \/ Head(chan[id[c]]).last
    <3>1. chan[id[c]] \in Seq(ResponseFrames) /\ chan[id[c]] # <<>>
      BY <2>1 DEF ReceiveEffect
    <3> QED
      BY <3>1, FramesKept
  <2>3. \A i \in Ids : LastRead(i)' => LastRead(i)
    BY <2>1, <2>2 DEF ReceiveEffect, LastRead
  <2>4. \A i \in pending' : ~LastRead(i)'
    BY <1>2, <2>1, <2>3 DEF ReceiveEffect, LastInv
  <2>5. Head(chan[id[c]]).last => id[c] \notin pending
    BY <2>2 DEF LastInv, LastRead
  <2>6. \A d \in Clients : st'[d] = "relay" /\ frame'[d].last => id'[d] \notin pending'
    BY <2>1, <2>5 DEF ReceiveEffect, LastInv
  <2> QED
    BY <2>4, <2>6 DEF LastInv
<1>8. ASSUME NEW c \in Clients, Relay(c) PROVE LastInv'
  <2>1. RelayEffect(c)
    BY <1>8, RelayStep
  <2>2. \A i : LastRead(i)' = LastRead(i)
    BY <2>1 DEF RelayEffect, LastRead
  <2> QED
    BY <1>3, <2>1, <2>2 DEF RelayEffect
<1>9. ASSUME Settled, \A i \in pending' : i \in pending /\ (LastRead(i)' => LastRead(i))
      PROVE  LastInv'
  BY <1>3, <1>9 DEF Settled
<1>10. CASE ReadWire
  <2>1. ReadEffect /\ Settled
    BY <1>10, ReadStep, SettledStep
  <2>2. ASSUME NEW i \in pending' PROVE i \in pending /\ ~HoldsLast(hold', i)
    <3>1. i \in pending /\ i # 0
      BY <1>2, <2>1, <2>2, IdsInterval DEF ReadEffect
    <3>2. CASE hold' = <<>>
      BY <3>1, <3>2, HasOne
    <3>3. CASE hold' = <<Head(wire)>>
      <4>1. Head(wire).id = i => ~Head(wire).frame.last
        BY <2>1, <2>2, <3>1, <3>3 DEF ReadEffect
      <4> QED
        BY <3>1, <3>3, <4>1, HasOne
    <3> QED
      BY <2>1, <3>2, <3>3 DEF ReadEffect
  <2>3. \A i \in pending' : LastRead(i)' => LastRead(i)
    BY <2>1, <2>2 DEF LastRead, ReadEffect
  <2> QED
    BY <1>9, <2>1, <2>2, <2>3
<1>11. CASE Deliver
  <2>1. DeliverEffect /\ Settled
    BY <1>11, DeliverStep, SettledStep
  <2>2. ASSUME NEW i \in pending PROVE LastRead(i)' => LastRead(i)
    <3>1. ~HoldsLast(hold', i)
      BY <2>1, HasOne DEF DeliverEffect
    <3>2. CASE i # hold[1].id
      BY <1>2, <2>1, <3>1, <3>2 DEF DeliverEffect, LastRead
    <3>3. CASE i = hold[1].id
      <4>1. HasLast(chan'[i]) <=> HasLast(chan[i]) \/ hold[1].frame.last
        <5>1. /\ chan[i] \in Seq(ResponseFrames) /\ hold[1].frame \in ResponseFrames
              /\ chan'[i] = Append(chan[i], hold[1].frame)
          BY <2>1, <3>3 DEF DeliverEffect
        <5> QED
          BY <5>1, LastAppend
      <4>2. hold[1].frame.last => HoldsLast(hold, i)
        <5>1. 1 \in DOMAIN hold
          BY <2>1 DEF DeliverEffect
        <5> QED
          BY <3>3, <5>1 DEF HoldsLast
      <4> QED
        BY <3>1, <4>1, <4>2 DEF LastRead
    <3> QED
      BY <3>2, <3>3
  <2> QED
    BY <1>9, <2>1, <2>2 DEF DeliverEffect
<1>12. CASE QueueEvent
  <2>1. hold' = <<>> /\ UNCHANGED <<chan, pending, shut, wire, requests>> /\ Settled
    BY <1>12, QueueEventStep, SettledStep
  <2>2. \A i : LastRead(i)' => LastRead(i)
    BY <2>1, HasOne DEF LastRead
  <2> QED
    BY <1>9, <2>1, <2>2
<1>13. CASE Disconnected
  <2>1. Settled /\ pending' = {}
    BY <1>13, SettledStep DEF Disconnected
  <2> QED
    BY <1>9, <2>1
<1>14. CASE Answer \/ Broadcast \/ Break
  <2>1. UNCHANGED <<chan, hold, pending>> /\ Settled
    BY <1>14, SettledStep DEF Answer, Broadcast, Break, connVars
  <2> QED
    BY <1>9, <2>1 DEF LastRead
<1> QED
  BY <1>4, <1>5, <1>6, <1>7, <1>8, <1>10, <1>11, <1>12, <1>13, <1>14, ApartStep
     DEF Next, Serve, Reader

\* A request that expects an answer.
Expects(c) == st[c] \in {"send", "wait"} \/ (st[c] = "relay" /\ ~frame[c].last)
Told(c) == id[c] \in pending \cup shut \/ LastRead(id[c])

\* No step leaves a request waiting for nothing, or a registration behind.
LEMMA WaitStep ==
  ASSUME TypeInv, CountInv, IdsInv, LastInv, WaitInv, [Next]_vars
  PROVE  WaitInv'
<1>1. \A c \in Clients : Active(c) => id[c] \in Ids /\ id[c] # 0
  BY ActiveId DEF IdsInv
<1>2. \A c \in Clients : Expects(c) => Told(c) /\ Active(c)
  BY DEF WaitInv, Expects, Told, Active
<1>3. \A i \in pending : \E c \in Clients : id[c] = i /\ Active(c)
  BY DEF WaitInv
<1>4. ASSUME \A c \in Clients : Expects(c)' => Told(c)',
             \A i \in pending' : \E c \in Clients : id'[c] = i /\ Active(c)'
      PROVE  WaitInv'
  BY <1>4 DEF WaitInv, Expects, Told
<1>5. ASSUME Apart PROVE WaitInv'
  <2>1. \A c \in Clients : Expects(c)' => Told(c)'
    <3>1. \A c \in Clients : Expects(c)' => Active(c)'
      BY DEF Expects, Active
    <3>2. \A c \in Clients : Expects(c)' => Expects(c)
      BY <1>5, <3>1 DEF Apart, Expects
    <3> QED
      BY <1>2, <1>5, <3>2 DEF Apart, Told, LastRead
  <2>2. \A i \in pending' : \E c \in Clients : id'[c] = i /\ Active(c)'
    <3>1. pending \cap shut = {} /\ UNCHANGED <<id, pending>>
      BY <1>5 DEF IdsInv, Apart
    <3>2. \A c \in Clients : Active(c) => Active(c)' \/ id[c] \in shut
      BY <1>5 DEF Apart
    <3> QED
      BY <1>3, <3>1, <3>2
  <2> QED
    BY <1>4, <2>1, <2>2
<1>6. ASSUME NEW c \in Clients, Register(c) PROVE WaitInv'
  <2>1. RegisterEffect(c)
    BY <1>6, RegisterStep
  <2>2. /\ UNCHANGED <<chan, hold, frame, shut>> /\ pending \subseteq pending' /\ st[c] = "forward"
        /\ \A d \in Clients : d # c => st'[d] = st[d] /\ id'[d] = id[d]
    BY <2>1 DEF RegisterEffect
  <2>3. ASSUME NEW d \in Clients, Expects(d)' PROVE Told(d)'
    <3>1. CASE d = c
      BY <2>1, <2>3, <3>1 DEF RegisterEffect, Expects, Told
    <3>2. CASE d # c
      BY <1>2, <2>2, <2>3, <3>2 DEF Expects, Told, LastRead
    <3> QED
      BY <3>1, <3>2
  <2>4. ASSUME NEW i \in pending' PROVE \E d \in Clients : id'[d] = i /\ Active(d)'
    <3>1. CASE i \in pending
      <4>1. PICK d \in Clients : id[d] = i /\ Active(d)
        BY <1>3, <3>1
      <4>2. d # c
        BY <2>2, <4>1 DEF Active
      <4> QED
        BY <2>2, <4>1, <4>2 DEF Active
    <3>2. CASE i \notin pending
      BY <2>1, <2>4, <3>2 DEF RegisterEffect, Active
    <3> QED
      BY <3>1, <3>2
  <2> QED
    BY <1>4, <2>3, <2>4
<1>7. ASSUME NEW c \in Clients, id[c] \in Ids, Active(c), UNCHANGED <<id, shut, chan, hold>>,
             \A d \in Clients : d # c => st'[d] = st[d] /\ frame'[d] = frame[d],
             \/ pending' = pending \ {id[c]} /\ ~Expects(c)'
             \/ UNCHANGED pending /\ (Expects(c)' => Expects(c)) /\ (Active(c)' \/ id[c] \notin pending)
      PROVE  WaitInv'
  <2>1. \A d \in Clients : d # c /\ Active(d) => id[d] # id[c]
    BY <1>1, <1>7 DEF IdsInv
  <2>2. ASSUME NEW d \in Clients, Expects(d)' PROVE Told(d)'
    <3>1. CASE d = c
      BY <1>2, <1>7, <2>2, <3>1 DEF Told, LastRead
    <3>2. CASE d # c
      <4>1. Expects(d)
        BY <1>7, <2>2, <3>2 DEF Expects
      <4> QED
        BY <1>2, <1>7, <2>1, <3>2, <4>1 DEF Told, LastRead
    <3> QED
      BY <3>1, <3>2
  <2>3. ASSUME NEW i \in pending' PROVE \E d \in Clients : id'[d] = i /\ Active(d)'
    <3>1. i \in pending
      BY <1>7, <2>3
    <3>2. PICK d \in Clients : id[d] = i /\ Active(d)
      BY <1>3, <3>1
    <3>3. Active(d)'
      BY <1>7, <2>3, <3>2 DEF Active
    <3> QED
      BY <1>7, <3>2, <3>3
  <2> QED
    BY <1>4, <2>2, <2>3
<1>8. ASSUME NEW c \in Clients, Send(c) PROVE WaitInv'
  <2>1. SendEffect(c)
    BY <1>8, SendStep
  <2>2. /\ id[c] \in Ids /\ Active(c) /\ UNCHANGED <<id, shut, chan, hold>>
        /\ \A d \in Clients : d # c => st'[d] = st[d] /\ frame'[d] = frame[d]
    BY <2>1 DEF SendEffect, Active
  <2>3. \/ pending' = pending \ {id[c]} /\ ~Expects(c)'
        \/ UNCHANGED pending /\ (Expects(c)' => Expects(c)) /\ Active(c)'
    BY <2>1 DEF SendEffect, Expects, Active
  <2> QED
    BY <1>7, <2>2, <2>3
<1>9. ASSUME NEW c \in Clients, Relay(c) PROVE WaitInv'
  <2>1. RelayEffect(c)
    BY <1>9, RelayStep
  <2>2. /\ id[c] \in Ids /\ Active(c) /\ UNCHANGED <<id, shut, chan, hold>>
        /\ \A d \in Clients : d # c => st'[d] = st[d] /\ frame'[d] = frame[d]
    BY <2>1 DEF RelayEffect, Active
  <2>3. \/ pending' = pending \ {id[c]} /\ ~Expects(c)'
        \/ UNCHANGED pending /\ (Expects(c)' => Expects(c)) /\ (Active(c)' \/ id[c] \notin pending)
    <3>1. CASE st'[c] = "error" /\ pending' = pending \ {id[c]}
      BY <3>1 DEF Expects
    <3>2. CASE st'[c] = "read" /\ frame[c].last /\ UNCHANGED pending
      BY <2>1, <3>2 DEF RelayEffect, Expects, LastInv
    <3>3. CASE st'[c] = "wait" /\ ~frame[c].last /\ UNCHANGED pending
      BY <2>1, <3>3 DEF RelayEffect, Expects, Active
    <3> QED
      BY <2>1, <3>1, <3>2, <3>3 DEF RelayEffect
  <2> QED
    BY <1>7, <2>2, <2>3
<1>10. ASSUME NEW c \in Clients, Receive(c) PROVE WaitInv'
  <2>1. ReceiveEffect(c)
    BY <1>10, ReceiveStep
  <2>2. HasLast(chan[id[c]]) <=> HasLast(Tail(chan[id[c]])) \/ Head(chan[id[c]]).last
    <3>1. chan[id[c]] \in Seq(ResponseFrames) /\ chan[id[c]] # <<>>
      BY <2>1 DEF ReceiveEffect
    <3> QED
      BY <3>1, FramesKept
  <2>3. ASSUME NEW d \in Clients, Expects(d)' PROVE Told(d)'
    <3>1. Expects(d)
      BY <2>1, <2>3 DEF ReceiveEffect, Expects
    <3>2. Told(d) /\ id[d] \in Ids
      BY <1>1, <1>2, <3>1
    <3>3. CASE d = c
      <4>1. ~Head(chan[id[c]]).last
        BY <2>1, <2>3, <3>3 DEF ReceiveEffect, Expects
      <4> QED
        BY <2>1, <2>2, <3>2, <3>3, <4>1 DEF ReceiveEffect, Told, LastRead
    <3>4. CASE d # c
      <4>1. id[d] # id[c]
        BY <1>1, <1>2, <3>1, <3>4 DEF IdsInv
      <4> QED
        BY <2>1, <3>2, <4>1 DEF ReceiveEffect, Told, LastRead
    <3> QED
      BY <3>3, <3>4
  <2>4. \A i \in pending' : \E d \in Clients : id'[d] = i /\ Active(d)'
    BY <1>3, <2>1 DEF ReceiveEffect, Active
  <2> QED
    BY <1>4, <2>3, <2>4
<1>11. ASSUME Settled, pending' \subseteq pending,
              \A c \in Clients : Expects(c) => Told(c)'
       PROVE  WaitInv'
  <2>1. \A c \in Clients : Expects(c)' => Told(c)'
    BY <1>11 DEF Settled, Expects
  <2>2. \A i \in pending' : \E c \in Clients : id'[c] = i /\ Active(c)'
    BY <1>3, <1>11 DEF Settled, Active
  <2> QED
    BY <1>4, <2>1, <2>2
<1>12. CASE ReadWire
  <2>1. ReadEffect /\ Settled /\ pending' \subseteq pending
    BY <1>12, ReadStep, SettledStep DEF ReadEffect
  <2>2. ASSUME NEW c \in Clients, Expects(c) PROVE Told(c)'
    <3>1. Told(c) /\ hold = <<>> /\ ~HoldsLast(hold, id[c])
      BY <1>2, <2>1, <2>2, HasOne DEF ReadEffect
    <3>2. CASE id[c] \in shut \/ HasLast(chan[id[c]])
      BY <2>1, <3>2 DEF ReadEffect, Settled, Told, LastRead
    <3>3. CASE id[c] \in pending
      <4>1. CASE id[c] \in pending'
        BY <2>1, <4>1 DEF Settled, Told
      <4>2. CASE id[c] \notin pending'
        <5>1. Head(wire).id = id[c] /\ Head(wire).frame.last /\ hold' = <<Head(wire)>>
          BY <2>1, <3>3, <4>2 DEF ReadEffect
        <5>2. HoldsLast(hold', id[c])
          BY <5>1, HasOne
        <5> QED
          BY <2>1, <5>2 DEF Settled, Told, LastRead
      <4> QED
        BY <4>1, <4>2
    <3> QED
      BY <3>1, <3>2, <3>3 DEF Told, LastRead
  <2> QED
    BY <1>11, <2>1, <2>2
<1>13. CASE Deliver
  <2>1. DeliverEffect /\ Settled /\ pending' = pending
    BY <1>13, DeliverStep, SettledStep DEF DeliverEffect
  <2>2. ASSUME NEW c \in Clients, Expects(c) PROVE Told(c)'
    <3>1. Told(c) /\ id[c] \in Ids
      BY <1>1, <1>2, <2>2
    <3>2. hold = <<hold[1]>>
      BY <2>1 DEF DeliverEffect
    <3>3. HoldsLast(hold, id[c]) => hold[1].id = id[c] /\ hold[1].frame.last
      BY <3>2, HasOne
    <3>4. HasLast(chan[id[c]]) \/ HoldsLast(hold, id[c]) => HasLast(chan'[id[c]])
      <4>1. CASE hold[1].id = id[c]
        <5>1. /\ chan[id[c]] \in Seq(ResponseFrames) /\ hold[1].frame \in ResponseFrames
              /\ chan'[id[c]] = Append(chan[id[c]], hold[1].frame)
          BY <2>1, <4>1 DEF DeliverEffect
        <5>2. HasLast(chan'[id[c]]) <=> HasLast(chan[id[c]]) \/ hold[1].frame.last
          BY <5>1, LastAppend
        <5> QED
          BY <3>3, <5>2
      <4>2. CASE hold[1].id # id[c]
        BY <2>1, <3>1, <3>3, <4>2 DEF DeliverEffect
      <4> QED
        BY <4>1, <4>2
    <3> QED
      BY <2>1, <3>1, <3>4 DEF DeliverEffect, Settled, Told, LastRead
  <2> QED
    BY <1>11, <2>1, <2>2
<1>14. CASE QueueEvent
  <2>1. UNCHANGED <<chan, pending, shut>> /\ Settled /\ \A i \in Ids : ~HoldsLast(hold, i)
    BY <1>14, QueueEventStep, SettledStep
  <2> QED
    BY <1>1, <1>2, <1>11, <2>1 DEF Settled, Told, LastRead
<1>15. CASE Disconnected
  <2>1. Settled /\ pending' = {} /\ shut' = shut \cup pending /\ UNCHANGED <<chan, hold>>
    BY <1>15, SettledStep DEF Disconnected
  <2> QED
    BY <1>2, <1>11, <2>1 DEF Settled, Told, LastRead
<1>16. CASE Answer \/ Broadcast \/ Break
  <2>1. UNCHANGED <<chan, hold, pending, shut>> /\ Settled
    BY <1>16, SettledStep DEF Answer, Broadcast, Break, connVars
  <2> QED
    BY <1>2, <1>11, <2>1 DEF Settled, Told, LastRead
<1> QED
  BY <1>5, <1>6, <1>8, <1>9, <1>10, <1>12, <1>13, <1>14, <1>15, <1>16, ApartStep
     DEF Next, Serve, Reader
-----------------------------------------------------------------------------
(* The frames a client gets.                                               *)

\* The ends of responses in a sequence of frames, when it grows by one.
LEMMA FinalsAppend ==
  ASSUME NEW s \in Seq(ResponseFrames), NEW f \in ResponseFrames
  PROVE  /\ Finals(s) \in Nat
         /\ f.last => Finals(Append(s, f)) = Finals(s) + 1
         /\ ~f.last => Finals(Append(s, f)) = Finals(s)
<1> DEFINE L == {i \in DOMAIN s : s[i].last}
           M == {i \in DOMAIN Append(s, f) : Append(s, f)[i].last}
<1>1. Len(s) \in Nat /\ DOMAIN s = 1 .. Len(s)
  OBVIOUS
<1>2. IsFiniteSet(L)
  <2>1. IsFiniteSet(1 .. Len(s))
    BY <1>1, FS_Interval
  <2> QED
    BY <1>1, <2>1, FS_Subset
<1>3. /\ DOMAIN Append(s, f) = DOMAIN s \cup {Len(s) + 1} /\ Append(s, f)[Len(s) + 1] = f
      /\ \A k \in DOMAIN s : Append(s, f)[k] = s[k]
  OBVIOUS
<1>4. Len(s) + 1 \notin L
  BY <1>1
<1>5. ASSUME f.last PROVE M = L \cup {Len(s) + 1}
  BY <1>3, <1>5
<1>6. ASSUME ~f.last PROVE M = L
  <2>1. Len(s) + 1 \notin M
    BY <1>3, <1>6
  <2> QED
    BY <1>3, <2>1
<1> HIDE DEF L, M
<1>7. Cardinality(L) \in Nat /\ Cardinality(L \cup {Len(s) + 1}) = Cardinality(L) + 1
  BY <1>2, <1>4, FS_AddElement, FS_CardinalityType
<1>8. Finals(s) = Cardinality(L) /\ Finals(Append(s, f)) = Cardinality(M)
  BY DEF Finals, L, M
<1> QED
  BY <1>5, <1>6, <1>7, <1>8

\* A frame of the response that is not complete yet keeps the frames in order.
LEMMA WellFramedAppend ==
  ASSUME NEW s \in Seq(ResponseFrames), NEW f \in ResponseFrames, NEW c,
         WellFramed(s, c), f.c = c, f.n = 1 + Finals(s)
  PROVE  WellFramed(Append(s, f), c)
<1>1. /\ DOMAIN Append(s, f) = DOMAIN s \cup {Len(s) + 1} /\ Append(s, f)[Len(s) + 1] = f
      /\ \A k \in DOMAIN s : Append(s, f)[k] = s[k]
  OBVIOUS
<1>2. \A k \in DOMAIN s : SubSeq(Append(s, f), 1, k - 1) = SubSeq(s, 1, k - 1)
  <2>1. ASSUME NEW k \in DOMAIN s PROVE SubSeq(Append(s, f), 1, k - 1) = SubSeq(s, 1, k - 1)
    <3>1. k \in 1 .. Len(s) /\ Len(s) \in Nat /\ Append(s, f) \in Seq(ResponseFrames)
          /\ Len(Append(s, f)) = Len(s) + 1
      OBVIOUS
    <3>2. /\ SubSeq(Append(s, f), 1, k - 1) \in Seq(ResponseFrames)
          /\ SubSeq(s, 1, k - 1) \in Seq(ResponseFrames)
          /\ Len(SubSeq(Append(s, f), 1, k - 1)) = k - 1 /\ Len(SubSeq(s, 1, k - 1)) = k - 1
      BY <3>1
    <3>3. \A j \in 1 .. k - 1 : SubSeq(Append(s, f), 1, k - 1)[j] = SubSeq(s, 1, k - 1)[j]
      BY <3>1
    <3> QED
      BY <3>2, <3>3, SeqEqual
  <2> QED
    BY <2>1
<1>3. SubSeq(Append(s, f), 1, Len(s) + 1 - 1) = s
  <2>1. Len(s) \in Nat /\ Len(s) + 1 - 1 = Len(s) /\ Append(s, f) \in Seq(ResponseFrames)
        /\ Len(Append(s, f)) = Len(s) + 1
    OBVIOUS
  <2>2. /\ SubSeq(Append(s, f), 1, Len(s)) \in Seq(ResponseFrames)
        /\ Len(SubSeq(Append(s, f), 1, Len(s))) = Len(s)
        /\ \A j \in 1 .. Len(s) : SubSeq(Append(s, f), 1, Len(s))[j] = s[j]
    BY <2>1
  <2> QED
    BY <2>1, <2>2, SeqEqual
<1>4. \A k \in DOMAIN s : /\ Append(s, f)[k].c = c
                          /\ Append(s, f)[k].n = 1 + Finals(SubSeq(Append(s, f), 1, k - 1))
  BY <1>1, <1>2 DEF WellFramed
<1>5. /\ Append(s, f)[Len(s) + 1].c = c
      /\ Append(s, f)[Len(s) + 1].n = 1 + Finals(SubSeq(Append(s, f), 1, Len(s) + 1 - 1))
  BY <1>1, <1>3
<1>6. \A k \in DOMAIN Append(s, f) : k \in DOMAIN s \/ k = Len(s) + 1
  BY <1>1
<1> DEFINE a == Append(s, f)
<1>7. \A k \in DOMAIN a : a[k].c = c /\ a[k].n = 1 + Finals(SubSeq(a, 1, k - 1))
  <2> SUFFICES ASSUME NEW k \in DOMAIN a PROVE a[k].c = c /\ a[k].n = 1 + Finals(SubSeq(a, 1, k - 1))
    OBVIOUS
  <2>1. CASE k \in DOMAIN s
    BY <1>4, <2>1
  <2>2. CASE k = Len(s) + 1
    BY <1>5, <2>2
  <2> QED
    BY <1>6, <2>1, <2>2
<1> QED
  BY <1>7 DEF WellFramed

\* Moving frames along leaves their sequence as it is.
LEMMA MoveFrames ==
  ASSUME NEW s \in Seq(ResponseFrames), NEW b \in Seq(ResponseFrames), NEW q \in Seq(ResponseFrames)
  PROVE  /\ s \o b \o q \in Seq(ResponseFrames)
         /\ s \o q \o <<>> = s \o <<>> \o q
         /\ b # <<>> => Append(s, Head(b)) \o Tail(b) = s \o b
<1>1. s \o b \in Seq(ResponseFrames) /\ s \o b \o q \in Seq(ResponseFrames) /\ s \o q \in Seq(ResponseFrames)
  OBVIOUS
<1>2. s \o q \o <<>> = s \o q /\ s \o <<>> = s
  BY <1>1, ConcatEmptySeq
<1>3. ASSUME b # <<>> PROVE Append(s, Head(b)) \o Tail(b) = s \o b
  <2>1. /\ Head(b) \in ResponseFrames /\ Head(b) = b[1] /\ Tail(b) \in Seq(ResponseFrames)
        /\ Len(Tail(b)) = Len(b) - 1 /\ Len(b) \in Nat /\ Len(b) # 0 /\ Len(s) \in Nat
    BY <1>3
  <2>2. \A k \in 1 .. Len(b) - 1 : Tail(b)[k] = b[k + 1]
    BY <1>3
  <2>3. /\ Append(s, Head(b)) \in Seq(ResponseFrames) /\ Len(Append(s, Head(b))) = Len(s) + 1
        /\ Append(s, Head(b))[Len(s) + 1] = b[1]
        /\ \A k \in 1 .. Len(s) : Append(s, Head(b))[k] = s[k]
    BY <2>1
  <2> DEFINE a == Append(s, Head(b))
             t == Tail(b)
  <2> HIDE DEF a, t
  <2>4. /\ a \in Seq(ResponseFrames) /\ Len(a) = Len(s) + 1 /\ a[Len(s) + 1] = b[1]
        /\ \A k \in 1 .. Len(s) : a[k] = s[k]
        /\ t \in Seq(ResponseFrames) /\ Len(t) = Len(b) - 1 /\ \A k \in 1 .. Len(b) - 1 : t[k] = b[k + 1]
    BY <2>1, <2>2, <2>3 DEF a, t
  <2>5. /\ a \o t \in Seq(ResponseFrames) /\ Len(a \o t) = Len(s) + Len(b) /\ Len(s \o b) = Len(s) + Len(b)
    <3>1. a \o t \in Seq(ResponseFrames) /\ Len(a \o t) = Len(a) + Len(t) /\ Len(s \o b) = Len(s) + Len(b)
      BY <2>4, ConcatProperties
    <3>2. Len(a) + Len(t) = Len(s) + Len(b)
      BY <2>1, <2>4
    <3> QED
      BY <3>1, <3>2
  <2>6. ASSUME NEW k \in 1 .. Len(s) + Len(b) PROVE (a \o t)[k] = (s \o b)[k]
    <3>1. CASE k <= Len(s)
      <4>1. (a \o t)[k] = a[k] /\ (s \o b)[k] = s[k]
        BY <2>1, <2>4, <2>6, <3>1
      <4> QED
        BY <2>1, <2>4, <2>6, <3>1, <4>1
    <3>2. CASE k = Len(s) + 1
      <4>1. (a \o t)[k] = a[k] /\ (s \o b)[k] = b[1]
        BY <2>1, <2>4, <2>6, <3>2
      <4> QED
        BY <2>4, <3>2, <4>1
    <3>3. CASE k > Len(s) + 1
      <4>1. (a \o t)[k] = t[k - (Len(s) + 1)] /\ (s \o b)[k] = b[k - Len(s)]
        BY <2>1, <2>4, <2>6, <3>3
      <4>2. k - (Len(s) + 1) \in 1 .. Len(b) - 1 /\ k - (Len(s) + 1) + 1 = k - Len(s)
        BY <2>1, <2>6, <3>3
      <4>3. t[k - (Len(s) + 1)] = b[k - (Len(s) + 1) + 1]
        BY <2>4, <4>2
      <4> QED
        BY <4>1, <4>2, <4>3
    <3>4. k <= Len(s) \/ k = Len(s) + 1 \/ k > Len(s) + 1
      BY <2>1, <2>6
    <3> QED
      BY <3>1, <3>2, <3>3, <3>4
  <2>7. a \o t = s \o b
    BY <1>1, <2>5, <2>6, SeqEqual
  <2> QED
    BY <2>7 DEF a, t
<1> QED
  BY <1>1, <1>2, <1>3

\* A frame that is queued comes last.
LEMMA QueueFrame ==
  ASSUME NEW s \in Seq(ResponseFrames), NEW b \in Seq(ResponseFrames), NEW q \in Seq(ResponseFrames),
         NEW f \in ResponseFrames
  PROVE  s \o b \o Append(q, f) = Append(s \o b \o q, f)
<1> DEFINE p == s \o b
<1>1. p \in Seq(ResponseFrames)
  OBVIOUS
<1> HIDE DEF p
<1>2. /\ p \o Append(q, f) \in Seq(ResponseFrames) /\ Append(p \o q, f) \in Seq(ResponseFrames)
      /\ Len(p \o Append(q, f)) = Len(p) + Len(q) + 1
      /\ Len(Append(p \o q, f)) = Len(p) + Len(q) + 1
      /\ Len(p) \in Nat /\ Len(q) \in Nat
  BY <1>1
<1>3. ASSUME NEW k \in 1 .. Len(p) + Len(q) + 1 PROVE (p \o Append(q, f))[k] = Append(p \o q, f)[k]
  BY <1>1, <1>2, <1>3
<1>4. p \o Append(q, f) = Append(p \o q, f)
  BY <1>2, <1>3, SeqEqual
<1> QED
  BY <1>4 DEF p

\* Every frame that is queued belongs to the response that is being given, and
\* the last one ends it.
LEMMA FramedStep ==
  ASSUME TypeInv, CapsInv, OwnInv, FramedInv, [Next]_vars
  PROVE  FramedInv'
<1> USE DEF clientVars, serveVars, writerVars, connVars, farVars
<1> DEFINE Good(c) == ~closed[c] /\ here[c] =>
             /\ st[c] # "gone" /\ WellFramed(Out(c), c)
             /\ Finals(Out(c)) = IF st[c] = "read" THEN n[c] ELSE n[c] - 1
<1>1. \A c \in Clients : Good(c)
  BY DEF FramedInv
<1>2. ASSUME \A c \in Clients : Good(c)' PROVE FramedInv'
  BY <1>2 DEF FramedInv
<1>3. \A c \in Clients : /\ sent[c] \in Seq(ResponseFrames) /\ batch[c] \in Seq(ResponseFrames)
                         /\ queue[c] \in Seq(ResponseFrames) /\ Out(c) \in Seq(ResponseFrames)
  <2>1. \A c \in Clients : /\ sent[c] \in Seq(ResponseFrames) /\ batch[c] \in Seq(ResponseFrames)
                           /\ queue[c] \in Seq(ResponseFrames)
    BY DEF TypeInv
  <2> QED
    BY <2>1, MoveFrames DEF Out
<1>4. ASSUME NEW c \in Clients, Out(c)' = Out(c), n'[c] = n[c], closed[c] => closed'[c], here'[c] => here[c],
             st'[c] # "gone", st'[c] = "read" <=> st[c] = "read"
      PROVE  Good(c)'
  BY <1>1, <1>4
<1>5. ASSUME NEW c \in Clients, closed'[c] \/ ~here'[c] PROVE Good(c)'
  BY <1>5
<1>6. ASSUME NEW c \in Clients, UNCHANGED <<sent[c], batch[c], queue[c], n[c], closed[c], here[c], st[c]>>
      PROVE  Good(c)'
  <2>1. Out(c)' = Out(c)
    BY <1>6 DEF Out
  <2> QED
    BY <1>1, <1>6, <2>1
<1>7. ASSUME NEW c \in Clients, NEW f \in ResponseFrames, f.c = c, f.n = n[c], enqueue(c, f),
             UNCHANGED <<clientVars, n, closed, batch>>, st[c] \notin {"read", "gone"},
             NEW s \in States, st' = [st EXCEPT ![c] = s],
             ~closed[c] => s # "gone" /\ (s = "read" <=> f.last)
      PROVE  FramedInv'
  <2>1. \A d \in Clients : d # c => queue'[d] = queue[d] /\ st'[d] = st[d]
    BY <1>7 DEF enqueue, TypeInv
  <2>2. \A d \in Clients : d # c => Good(d)'
    BY <1>6, <1>7, <2>1
  <2>3. ASSUME ~closed[c], here[c] PROVE Good(c)'
    <3>1. queue'[c] = Append(queue[c], f) /\ st'[c] = s
      BY <1>7, <2>3 DEF enqueue, TypeInv
    <3>2. Out(c)' = Append(Out(c), f)
      <4>1. sent[c] \o batch[c] \o Append(queue[c], f) = Append(sent[c] \o batch[c] \o queue[c], f)
        BY <1>3, QueueFrame
      <4> QED
        BY <1>7, <3>1, <4>1 DEF Out
    <3>3. WellFramed(Out(c), c) /\ Finals(Out(c)) = n[c] - 1 /\ n[c] \in Nat
      BY <1>1, <1>7, <2>3, GatewayBounds DEF TypeInv
    <3>4. f.n = 1 + Finals(Out(c)) /\ Out(c) \in Seq(ResponseFrames)
      BY <1>3, <1>7, <3>3
    <3>5. WellFramed(Append(Out(c), f), c)
      BY <1>7, <3>3, <3>4, WellFramedAppend
    <3>6. /\ f.last => Finals(Append(Out(c), f)) = Finals(Out(c)) + 1
          /\ ~f.last => Finals(Append(Out(c), f)) = Finals(Out(c))
      BY <3>4, FinalsAppend
    <3>7. Finals(Append(Out(c), f)) = IF s = "read" THEN n[c] ELSE n[c] - 1
      BY <1>7, <2>3, <3>3, <3>6
    <3>8. WellFramed(Out(c)', c) /\ Finals(Out(c)') = IF st'[c] = "read" THEN n'[c] ELSE n'[c] - 1
      BY <1>7, <3>1, <3>2, <3>5, <3>7
    <3> QED
      BY <1>7, <2>3, <3>1, <3>8
  <2>4. Good(c)'
    BY <1>5, <1>7, <2>3
  <2> QED
    BY <1>2, <2>2, <2>4
<1>8. ASSUME NEW c \in Clients, Stream(c) PROVE FramedInv'
  <2> DEFINE f == Frame(c, n[c], left[c] = 1)
             s == IF closed[c] \/ left[c] = 1 THEN "read" ELSE "stream"
  <2>1. f \in ResponseFrames /\ f.c = c /\ f.n = n[c] /\ f.last = (left[c] = 1)
    BY DEF Frame, ResponseFrames, TypeInv
  <2>2. s \in States /\ st' = [st EXCEPT ![c] = s] /\ (~closed[c] => s # "gone" /\ (s = "read" <=> left[c] = 1))
    BY <1>8 DEF Stream, Goto, States
  <2>3. enqueue(c, f) /\ UNCHANGED <<clientVars, n, closed, batch>> /\ st[c] \notin {"read", "gone"}
    BY <1>8 DEF Stream
  <2> HIDE DEF f, s
  <2>4. ~closed[c] => s # "gone" /\ (s = "read" <=> f.last)
    BY <2>1, <2>2
  <2> QED
    BY <1>7, <2>1, <2>2, <2>3, <2>4
<1>9. ASSUME NEW c \in Clients, WriteError(c) PROVE FramedInv'
  <2> DEFINE f == Frame(c, n[c], TRUE)
  <2>1. f \in ResponseFrames /\ f.c = c /\ f.n = n[c] /\ f.last
    BY DEF Frame, ResponseFrames, TypeInv
  <2>2. /\ enqueue(c, f) /\ UNCHANGED <<clientVars, n, closed, batch>> /\ st[c] \notin {"read", "gone"}
        /\ st' = [st EXCEPT ![c] = "read"] /\ "read" \in States
    BY <1>9 DEF WriteError, Goto, States
  <2> HIDE DEF f
  <2> QED
    BY <1>7, <2>1, <2>2
<1>10. ASSUME NEW c \in Clients, Relay(c) PROVE FramedInv'
  <2> DEFINE s == IF closed[c] THEN "error" ELSE IF frame[c].last THEN "read" ELSE "wait"
  <2>1. frame[c] \in ResponseFrames /\ frame[c].c = c /\ frame[c].n = n[c]
    BY <1>10 DEF Relay, TypeInv, OwnInv, Active
  <2>2. /\ enqueue(c, frame[c]) /\ UNCHANGED <<clientVars, n, closed, batch>>
        /\ st[c] \notin {"read", "gone"} /\ st' = [st EXCEPT ![c] = s] /\ s \in States
    BY <1>10 DEF Relay, Goto, States
  <2>3. ~closed[c] => s # "gone" /\ (s = "read" <=> frame[c].last)
    OBVIOUS
  <2> HIDE DEF s
  <2> QED
    BY <1>7, <2>1, <2>2, <2>3
<1>11. ASSUME NEW c \in Clients, ReadRequest(c) PROVE FramedInv'
  <2>1. /\ n'[c] = n[c] + 1 /\ st[c] = "read" /\ st'[c] \in {"stream", "forward"}
        /\ UNCHANGED <<clientVars, writerVars>>
        /\ \A d \in Clients : d # c => n'[d] = n[d] /\ st'[d] = st[d]
    BY <1>11 DEF ReadRequest, Goto, TypeInv
  <2>2. \A d \in Clients : d # c => Good(d)'
    BY <1>6, <2>1
  <2>3. Out(c)' = Out(c) /\ n[c] \in Nat
    BY <2>1, GatewayBounds DEF Out, TypeInv
  <2>4. n'[c] - 1 = n[c]
    BY <2>1, <2>3
  <2>5. Good(c)'
    BY <1>1, <2>1, <2>3, <2>4
  <2> QED
    BY <1>2, <2>2, <2>5
<1>12. ASSUME NEW c \in Clients,
              StreamFails(c) \/ Register(c) \/ Send(c) \/ Receive(c) \/ ReceiveClosed(c)
       PROVE  FramedInv'
  <2>1. /\ UNCHANGED <<clientVars, writerVars, n>> /\ st[c] # "read" /\ st'[c] \notin {"read", "gone"}
        /\ \A d \in Clients : d # c => st'[d] = st[d]
    BY <1>12 DEF StreamFails, Register, Send, Receive, ReceiveClosed, Goto, TypeInv
  <2>2. \A d \in Clients : Out(d)' = Out(d)
    BY <2>1 DEF Out
  <2>3. \A d \in Clients : d # c => Good(d)'
    BY <1>6, <2>1
  <2>4. Good(c)'
    BY <1>4, <2>1, <2>2
  <2> QED
    BY <1>2, <2>3, <2>4
<1>13. ASSUME NEW c \in Clients, ClientLeave(c) PROVE FramedInv'
  <2>1. /\ ~here'[c] /\ \A d \in Clients : d # c => here'[d] = here[d]
        /\ UNCHANGED <<sent, writerVars, n, st>>
    BY <1>13 DEF ClientLeave, TypeInv
  <2>2. \A d \in Clients : d # c => Good(d)'
    BY <1>6, <2>1
  <2> QED
    BY <1>2, <1>5, <2>1, <2>2
<1>14. ASSUME NEW c \in Clients, ReadFails(c) \/ writeFails(c) PROVE FramedInv'
  <2>1. /\ closed'[c]
        /\ \A d \in Clients : d # c => closed'[d] = closed[d] /\ queue'[d] = queue[d]
                                       /\ batch'[d] = batch[d] /\ st'[d] = st[d]
        /\ UNCHANGED <<clientVars, n>>
    BY <1>14 DEF ReadFails, writeFails, CloseWriter, Goto, TypeInv
  <2>2. \A d \in Clients : d # c => Good(d)'
    BY <1>6, <2>1
  <2> QED
    BY <1>2, <1>5, <2>1, <2>2
<1>15. ASSUME NEW c \in Clients, DrainTake(c) PROVE FramedInv'
  <2>1. UNCHANGED <<clientVars, n, st, closed>> /\ drain[c] = "take"
    BY <1>15 DEF DrainTake
  <2>2. CASE UNCHANGED <<queue, batch>>
    BY <1>2, <1>6, <2>1, <2>2
  <2>3. CASE batch' = [batch EXCEPT ![c] = queue[c]] /\ queue' = [queue EXCEPT ![c] = <<>>]
    <3>1. \A d \in Clients : d # c => queue'[d] = queue[d] /\ batch'[d] = batch[d]
      BY <2>3 DEF TypeInv
    <3>2. queue'[c] = <<>> /\ batch'[c] = queue[c] /\ batch[c] = <<>>
      BY <2>1, <2>3 DEF TypeInv, CapsInv
    <3>3. sent[c] \o queue[c] \o <<>> = sent[c] \o <<>> \o queue[c]
      BY <1>3, MoveFrames
    <3>4. Out(c)' = Out(c)
      BY <2>1, <3>2, <3>3 DEF Out
    <3>5. Good(c)'
      BY <1>1, <2>1, <3>4
    <3>6. \A d \in Clients : d # c => Good(d)'
      BY <1>6, <2>1, <3>1
    <3> QED
      BY <1>2, <3>5, <3>6
  <2> QED
    BY <1>15, <2>2, <2>3 DEF DrainTake
<1>16. ASSUME NEW c \in Clients, writeFrames(c) PROVE FramedInv'
  <2>1. /\ UNCHANGED <<here, n, st, closed, queue>> /\ batch[c] # <<>>
        /\ sent'[c] = Append(sent[c], Head(batch[c])) /\ batch'[c] = Tail(batch[c])
        /\ \A d \in Clients : d # c => sent'[d] = sent[d] /\ batch'[d] = batch[d]
    BY <1>16 DEF writeFrames, TypeInv, CapsInv
  <2>2. Append(sent[c], Head(batch[c])) \o Tail(batch[c]) = sent[c] \o batch[c]
    BY <1>3, <2>1, MoveFrames
  <2>3. Out(c)' = Out(c)
    BY <2>1, <2>2 DEF Out
  <2>4. Good(c)'
    BY <1>1, <2>1, <2>3
  <2>5. \A d \in Clients : d # c => Good(d)'
    BY <1>6, <2>1
  <2> QED
    BY <1>2, <2>4, <2>5
<1>17. CASE Reader \/ eventLoop \/ Answer \/ Broadcast \/ Break \/ UNCHANGED vars
  <2>1. UNCHANGED <<clientVars, writerVars, n, st>>
    BY <1>17 DEF Reader, ReadWire, Deliver, QueueEvent, Disconnected, Redial, eventLoop, Answer,
       Broadcast, Break, vars
  <2> QED
    BY <1>2, <1>6, <2>1
<1> QED
  BY <1>8, <1>9, <1>10, <1>11, <1>12, <1>13, <1>14, <1>15, <1>16, <1>17 DEF Next, Serve, Drain
-----------------------------------------------------------------------------
(* The theorems.                                                           *)

GatewayInv ==
  TypeInv /\ CapsInv /\ CountInv /\ IdsInv /\ OwnInv /\ LastInv /\ WaitInv /\ FramedInv

\* The connection and the clients start with nothing on its way.
LEMMA InitInv ==
  ASSUME Init
  PROVE  GatewayInv
<1>1. MaxRequests \in Nat /\ QueueMax \in Nat /\ responseQueueSize \in Nat /\ eventQueueSize \in Nat
      /\ IsFiniteSet(Clients)
  BY GatewayBounds, GatewayCaps, GatewayClients
<1>2. TypeInv
  <2>1. \A S : <<>> \in Seq(S) /\ Len(<<>>) = 0
    OBVIOUS
  <2>2. 0 \in 0 .. MaxRequests /\ 0 \in 0 .. 0 /\ 0 \in Nat
    BY <1>1
  <2> QED
    BY <1>1, <2>1, <2>2 DEF Init, TypeInv, States
<1>3. CapsInv
  <2>1. Len(<<>>) = 0
    OBVIOUS
  <2> QED
    BY <1>1, <2>1 DEF Init, CapsInv
<1>4. CountInv
  <2>1. Forwarding = {} /\ nextID = 0
    BY DEF Init, Forwarding
  <2>2. IsFiniteSet(Reads)
    <3>1. IsFiniteSet(1 .. MaxRequests)
      BY <1>1, FS_Interval
    <3>2. IsFiniteSet(Clients \X (1 .. MaxRequests))
      BY <1>1, <3>1, FS_Product
    <3> QED
      BY <3>2, FS_Subset DEF Reads
  <2>3. Cardinality(Forwarding) = 0 /\ Cardinality(Reads) \in Nat
    BY <2>1, <2>2, FS_EmptySet, FS_CardinalityType
  <2> QED
    BY <2>1, <2>3 DEF CountInv
<1>5. \A c \in Clients : st[c] = "read" /\ id[c] = 0 /\ n[c] = 0
  BY DEF Init
<1>6. \A i \in Ids : Quiet(i)
  BY DEF Init, Quiet, Has
<1>7. IdsInv
  BY <1>5, <1>6 DEF Init, IdsInv, Active
<1>8. OwnInv /\ LastInv /\ WaitInv
  BY <1>5 DEF Init, OwnInv, LastInv, WaitInv, Active
<1>9. FramedInv
  <2>1. \A c \in Clients : Out(c) = <<>>
    BY DEF Init, Out
  <2>2. Finals(<<>>) = 0
    <3>1. {i \in DOMAIN <<>> : <<>>[i].last} = {}
      OBVIOUS
    <3> QED
      BY <3>1, FS_EmptySet DEF Finals
  <2>3. \A c : WellFramed(<<>>, c)
    BY DEF WellFramed
  <2> QED
    BY <1>5, <2>1, <2>2, <2>3 DEF FramedInv
<1> QED
  BY <1>2, <1>3, <1>4, <1>7, <1>8, <1>9 DEF GatewayInv

\* The conjunction is inductive.
THEOREM Invariance == Spec => []GatewayInv
<1>1. ASSUME GatewayInv, [Next]_vars PROVE GatewayInv'
  BY <1>1, TypeStep, CapsStep, CountStep, IdsStep, OwnStep, LastStep, WaitStep, FramedStep
     DEF GatewayInv
<1> QED
  BY <1>1, InitInv, PTL DEF Spec

\* The variables keep their types and no queue outgrows its cap, for every number
\* of clients: the writer's queue, the response channels and the event queue
\* (frameWriter.enqueue, deliver, readerLoop); and the ids never run out.
THEOREM TypeCorrect == Spec => []TypeOK
<1>1. ASSUME GatewayInv PROVE TypeOK
  <2>1. \A c \in Clients :
          /\ here[c] \in BOOLEAN /\ closed[c] \in BOOLEAN /\ st[c] \in States
          /\ n[c] \in 0 .. MaxRequests /\ left[c] \in Nat /\ id[c] \in 0 .. nextID
          /\ drain[c] \in {"off", "take", "write"}
    BY <1>1 DEF GatewayInv, TypeInv
  <2>2. /\ \A c \in Clients : Len(queue[c]) <= QueueMax /\ Len(batch[c]) <= QueueMax
        /\ \A i \in Ids : Len(chan[i]) <= responseQueueSize
        /\ Len(evCh) <= eventQueueSize
    BY <1>1 DEF GatewayInv, CapsInv
  <2>3. /\ link \in {"up", "broken", "down"} /\ nextID \in {0} \cup Ids
        /\ pending \subseteq Ids /\ shut \subseteq Ids /\ Len(hold) <= 1
    BY <1>1 DEF GatewayInv, TypeInv
  <2> QED
    BY <2>1, <2>2, <2>3 DEF TypeOK, States
<1> QED
  BY <1>1, Invariance, PTL

\* A client gets the frames of its own requests, in order and each response to
\* its end, whatever the other clients, the events and the failures of the
\* transactor connection do (serve, streamProgram, Conn.Request, frameWriter).
THEOREM Framed == Spec => []RepliesFramed
<1>1. ASSUME GatewayInv PROVE RepliesFramed
  BY <1>1 DEF GatewayInv, FramedInv, RepliesFramed, WellFramed
<1> QED
  BY <1>1, Invariance, PTL

\* A request that waits is registered, told that the connection is gone, or has
\* its last frame ready; and no request that has ended is registered (register,
\* deliver, Request, connectLoop).
THEOREM Registered == Spec => []RegistrationsMatch
<1>1. ASSUME GatewayInv PROVE RegistrationsMatch
  <2>1. ASSUME NEW c \in Clients, st[c] \in {"send", "wait"}
        PROVE  \/ id[c] \in pending \cup shut
               \/ \E k \in DOMAIN chan[id[c]] : chan[id[c]][k].last
               \/ hold # <<>> /\ hold[1].id = id[c] /\ hold[1].frame.last
    <3>1. id[c] \in pending \cup shut \/ HasLast(chan[id[c]]) \/ HoldsLast(hold, id[c])
      BY <1>1, <2>1 DEF GatewayInv, WaitInv, LastRead
    <3>2. HasLast(chan[id[c]]) => \E k \in DOMAIN chan[id[c]] : chan[id[c]][k].last
      BY DEF HasLast
    <3>3. ASSUME HoldsLast(hold, id[c]) PROVE hold # <<>> /\ hold[1].id = id[c] /\ hold[1].frame.last
      <4>1. hold \in Seq(Messages) /\ Len(hold) <= 1
        BY <1>1 DEF GatewayInv, TypeInv
      <4>2. hold # <<>>
        BY <3>3 DEF HoldsLast
      <4>3. hold = <<hold[1]>>
        BY <4>1, <4>2, OneMessage
      <4>4. hold[1].id = id[c] /\ hold[1].frame.last
        BY <3>3, <4>3, HasOne
      <4> QED
        BY <4>2, <4>4
    <3> QED
      BY <3>1, <3>2, <3>3
  <2>2. \A i \in pending : \E c \in Clients : id[c] = i /\ st[c] \in {"send", "wait", "relay"}
    BY <1>1 DEF GatewayInv, WaitInv, Active
  <2> QED
    BY <2>1, <2>2 DEF RegistrationsMatch
<1> QED
  BY <1>1, Invariance, PTL
-----------------------------------------------------------------------------
(* The reader is not left with a frame nobody takes, as long as a response fits *)
(* the channel with one frame more.                                        *)

\* Counting the messages of an id.
LEMMA CountType ==
  ASSUME NEW S, NEW q \in Seq(S), NEW i
  PROVE  /\ IsFiniteSet({k \in DOMAIN q : q[k].id = i}) /\ Count(q, i) \in Nat
         /\ ~Has(q, i) => Count(q, i) = 0
         /\ Has(q, i) => Count(q, i) >= 1
<1>1. Len(q) \in Nat /\ DOMAIN q = 1 .. Len(q)
  OBVIOUS
<1>2. IsFiniteSet(1 .. Len(q))
  BY <1>1, FS_Interval
<1>3. IsFiniteSet({k \in DOMAIN q : q[k].id = i})
  BY <1>1, <1>2, FS_Subset
<1>4. Count(q, i) \in Nat
  BY <1>3, FS_CardinalityType DEF Count
<1>5. ASSUME ~Has(q, i) PROVE Count(q, i) = 0
  <2>1. {k \in DOMAIN q : q[k].id = i} = {}
    BY <1>5 DEF Has
  <2> QED
    BY <2>1, FS_EmptySet DEF Count
<1>6. ASSUME Has(q, i) PROVE Count(q, i) >= 1
  <2>1. {k \in DOMAIN q : q[k].id = i} # {}
    BY <1>6 DEF Has
  <2>2. Count(q, i) # 0
    BY <1>3, <2>1, FS_EmptySet DEF Count
  <2> QED
    BY <1>4, <2>2
<1> QED
  BY <1>3, <1>4, <1>5, <1>6

\* One message more.
LEMMA CountAppend ==
  ASSUME NEW S, NEW q \in Seq(S), NEW m \in S, NEW i
  PROVE  /\ m.id = i => Count(Append(q, m), i) = Count(q, i) + 1
         /\ m.id # i => Count(Append(q, m), i) = Count(q, i)
<1> DEFINE C == {k \in DOMAIN q : q[k].id = i}
           D == {k \in DOMAIN Append(q, m) : Append(q, m)[k].id = i}
<1>1. /\ DOMAIN Append(q, m) = DOMAIN q \cup {Len(q) + 1} /\ Append(q, m)[Len(q) + 1] = m
      /\ \A k \in DOMAIN q : Append(q, m)[k] = q[k]
  OBVIOUS
<1>2. IsFiniteSet(C) /\ Len(q) + 1 \notin C
  <2>1. IsFiniteSet(C)
    BY CountType
  <2>2. Len(q) + 1 \notin DOMAIN q
    OBVIOUS
  <2> QED
    BY <2>1, <2>2
<1>3. ASSUME m.id = i PROVE D = C \cup {Len(q) + 1}
  BY <1>1, <1>3
<1>4. ASSUME m.id # i PROVE D = C
  <2>1. Len(q) + 1 \notin D
    BY <1>1, <1>4
  <2> QED
    BY <1>1, <2>1
<1> HIDE DEF C, D
<1>5. Cardinality(C \cup {Len(q) + 1}) = Cardinality(C) + 1
  BY <1>2, FS_AddElement
<1>6. Count(q, i) = Cardinality(C) /\ Count(Append(q, m), i) = Cardinality(D)
  BY DEF Count, C, D
<1> QED
  BY <1>3, <1>4, <1>5, <1>6

\* A prefix has no more.
LEMMA CountPrefix ==
  ASSUME NEW S, NEW q \in Seq(S), NEW k \in 0 .. Len(q), NEW i
  PROVE  Count(SubSeq(q, 1, k), i) <= Count(q, i)
<1> DEFINE C == {j \in DOMAIN q : q[j].id = i}
           D == {j \in DOMAIN SubSeq(q, 1, k) : SubSeq(q, 1, k)[j].id = i}
<1>1. \A j \in DOMAIN SubSeq(q, 1, k) : j \in DOMAIN q /\ SubSeq(q, 1, k)[j] = q[j]
  OBVIOUS
<1>2. D \subseteq C /\ IsFiniteSet(C)
  BY <1>1, CountType
<1> HIDE DEF C, D
<1>3. Cardinality(D) <= Cardinality(C)
  BY <1>2, FS_Subset
<1> QED
  BY <1>3 DEF Count, C, D

\* The message read is counted once.
LEMMA CountTail ==
  ASSUME NEW S, NEW q \in Seq(S), q # <<>>, NEW i
  PROVE  /\ Head(q).id = i => Count(q, i) = Count(Tail(q), i) + 1
         /\ Head(q).id # i => Count(q, i) = Count(Tail(q), i)
<1> DEFINE C == {k \in DOMAIN q : q[k].id = i}
           D == {k \in DOMAIN Tail(q) : Tail(q)[k].id = i}
           f == [k \in D |-> k + 1]
<1>1. /\ \A k \in DOMAIN Tail(q) : k + 1 \in DOMAIN q /\ Tail(q)[k] = q[k + 1]
      /\ \A k \in DOMAIN q : k # 1 => k - 1 \in DOMAIN Tail(q) /\ Tail(q)[k - 1] = q[k]
      /\ Head(q) = q[1] /\ 1 \in DOMAIN q /\ Tail(q) \in Seq(S)
  BY TakeHead
<1>2. IsFiniteSet(C) /\ IsFiniteSet(D)
  <2>1. IsFiniteSet(C)
    BY CountType
  <2>2. IsFiniteSet(D)
    <3>1. DOMAIN Tail(q) = 1 .. Len(Tail(q)) /\ Len(Tail(q)) \in Nat
      BY <1>1
    <3>2. IsFiniteSet(1 .. Len(Tail(q)))
      BY <3>1, FS_Interval
    <3> QED
      BY <3>1, <3>2, FS_Subset
  <2> QED
    BY <2>1, <2>2
<1>3. DOMAIN q \subseteq Nat /\ DOMAIN Tail(q) \subseteq Nat \ {0}
  BY <1>1
<1>4. f \in Bijection(D, C \ {1})
  <2>1. f \in [D -> C \ {1}]
    <3>1. \A k \in D : k + 1 \in C \ {1}
      BY <1>1, <1>3
    <3> QED
      BY <3>1
  <2>2. \A j, k \in D : f[j] = f[k] => j = k
    BY <1>3
  <2>3. \A k \in C \ {1} : \E j \in D : f[j] = k
    <3>1. \A k \in C \ {1} : k - 1 \in D /\ k - 1 + 1 = k
      BY <1>1, <1>3
    <3> QED
      BY <3>1
  <2> QED
    BY <2>1, <2>2, <2>3, Fun_IsBij
<1> HIDE DEF C, D, f
<1>5. Cardinality(D) = Cardinality(C \ {1})
  <2>1. ExistsBijection(D, C \ {1})
    BY <1>4, Fun_ExistsBij
  <2> QED
    BY <1>2, <2>1, FS_Bijection
<1>6. Head(q).id = i <=> 1 \in C
  BY <1>1 DEF C
<1>7. Cardinality(C) \in Nat /\ (1 \in C => Cardinality(C \ {1}) = Cardinality(C) - 1)
  BY <1>2, FS_RemoveElement, FS_CardinalityType
<1>8. 1 \notin C => C \ {1} = C
  OBVIOUS
<1>9. Count(q, i) = Cardinality(C) /\ Count(Tail(q), i) = Cardinality(D)
  BY DEF Count, C, D
<1>10. CASE 1 \in C
  <2>1. Cardinality(D) = Cardinality(C) - 1
    BY <1>5, <1>7, <1>10
  <2>2. Cardinality(C) = Cardinality(D) + 1
    BY <1>7, <2>1
  <2> QED
    BY <1>6, <1>9, <1>10, <2>2
<1>11. CASE 1 \notin C
  BY <1>5, <1>6, <1>8, <1>9, <1>11
<1> QED
  BY <1>10, <1>11

\* What can still come for an id is a number, and none of it is there when the
\* id is quiet.
LEMMA ComingType ==
  ASSUME TypeInv, NEW i \in Ids
  PROVE  /\ Coming(i) \in Nat /\ Count(wire, i) \in Nat /\ Count(hold, i) \in Nat
         /\ Len(chan[i]) \in Nat
         /\ Quiet(i) => Coming(i) = 0
<1>1. wire \in Seq(Messages) /\ hold \in Seq(Messages) /\ chan[i] \in Seq(ResponseFrames)
  BY DEF TypeInv
<1>2. Count(wire, i) \in Nat /\ (~Has(wire, i) => Count(wire, i) = 0)
  BY <1>1, CountType
<1>3. Count(hold, i) \in Nat /\ (~Has(hold, i) => Count(hold, i) = 0)
  BY <1>1, CountType
<1>4. Len(chan[i]) \in Nat /\ Len(<<>>) = 0
  BY <1>1
<1> QED
  BY <1>2, <1>3, <1>4 DEF Coming, Quiet

\* A step of the reader and of the transactor never adds to the load.
LEMMA LoadStep ==
  ASSUME TypeInv, TypeInv', FlowInv, NEW i \in Ids, NEW b \in Int, Load(i, b),
         ReadWire \/ Deliver \/ QueueEvent \/ Disconnected \/ Answer \/ Broadcast \/ Break
  PROVE  Load(i, b)'
<1>1. /\ Coming(i) \in Nat /\ Count(wire, i) \in Nat /\ Count(hold, i) \in Nat /\ Len(chan[i]) \in Nat
  BY ComingType
<1>2. /\ Coming(i)' \in Nat /\ Count(wire', i) \in Nat /\ Count(hold', i) \in Nat /\ Len(chan'[i]) \in Nat
  <2>1. wire' \in Seq(Messages) /\ hold' \in Seq(Messages) /\ chan'[i] \in Seq(ResponseFrames)
    BY DEF TypeInv
  <2>2. Count(wire', i) \in Nat
    BY <2>1, CountType
  <2>3. Count(hold', i) \in Nat
    BY <2>1, CountType
  <2>4. Len(chan'[i]) \in Nat
    BY <2>1
  <2> QED
    BY <2>2, <2>3, <2>4 DEF Coming
<1>3. ASSUME Coming(i)' <= Coming(i), UNCHANGED requests PROVE Load(i, b)'
  <2>1. \A k \in DOMAIN requests : requests[k].left \in Nat
    <3>1. requests \in Seq(Requests)
      BY DEF TypeInv
    <3>2. \A k \in DOMAIN requests : requests[k] \in Requests
      BY <3>1
    <3> QED
      BY <3>2 DEF Requests
  <2>2. Coming(i)' <= b
    BY <1>1, <1>2, <1>3 DEF Load
  <2>3. \A k \in DOMAIN requests : requests[k].id = i => requests[k].left + Coming(i)' <= b
    BY <1>1, <1>2, <1>3, <2>1 DEF Load
  <2> QED
    BY <1>3, <2>2, <2>3 DEF Load
<1>4. Coming(i) = Count(wire, i) + Count(hold, i) + Len(chan[i])
  BY DEF Coming
<1>5. Coming(i)' = Count(wire', i) + Count(hold', i) + Len(chan'[i])
  BY DEF Coming
<1>6. \A m : Count(<<>>, i) = 0 /\ (m.id = i => Count(<<m>>, i) = 1) /\ (m.id # i => Count(<<m>>, i) = 0)
  <2>1. ASSUME NEW m
        PROVE  /\ Count(<<>>, i) = 0
               /\ m.id = i => Count(<<m>>, i) = 1
               /\ m.id # i => Count(<<m>>, i) = 0
    <3>1. <<>> \in Seq({m}) /\ Append(<<>>, m) = <<m>> /\ m \in {m}
      OBVIOUS
    <3>2. Count(<<>>, i) = 0
      BY <3>1, CountType, HasOne
    <3>3. m.id = i => Count(Append(<<>>, m), i) = Count(<<>>, i) + 1
      BY <3>1, CountAppend
    <3>4. m.id # i => Count(Append(<<>>, m), i) = Count(<<>>, i)
      BY <3>1, CountAppend
    <3> QED
      BY <3>1, <3>2, <3>3, <3>4
  <2> QED
    BY <2>1
<1>7. CASE ReadWire
  <2>1. ReadEffect
    BY <1>7, ReadStep
  <2>2. /\ hold = <<>> /\ UNCHANGED <<chan, requests>> /\ wire \in Seq(Messages) /\ wire # <<>>
        /\ wire' = Tail(wire) /\ (hold' = <<>> \/ hold' = <<Head(wire)>>)
    BY <2>1 DEF ReadEffect
  <2>3. /\ Head(wire).id = i => Count(wire, i) = Count(wire', i) + 1
        /\ Head(wire).id # i => Count(wire, i) = Count(wire', i)
    BY <2>2, CountTail
  <2>4. Count(hold, i) = 0
    BY <1>6, <2>2
  <2>5. /\ Count(hold', i) <= 1 /\ (Head(wire).id # i => Count(hold', i) = 0)
    BY <1>6, <2>2
  <2>6. Coming(i)' <= Coming(i)
    <3>1. Len(chan'[i]) = Len(chan[i])
      BY <2>2
    <3>2. Count(wire', i) + Count(hold', i) <= Count(wire, i) + Count(hold, i)
      BY <1>1, <1>2, <2>3, <2>4, <2>5
    <3> QED
      BY <1>1, <1>2, <1>4, <1>5, <3>1, <3>2
  <2> QED
    BY <1>3, <2>2, <2>6
<1>8. CASE Deliver
  <2>1. DeliverEffect
    BY <1>8, DeliverStep
  <2>2. hold = <<hold[1]>> /\ hold' = <<>> /\ UNCHANGED <<wire, requests>>
    BY <2>1 DEF DeliverEffect
  <2>3. Count(hold', i) = 0
    BY <1>6, <2>2
  <2>4. CASE hold[1].id = i
    <3>1. Count(hold, i) = 1
      BY <1>6, <2>2, <2>4
    <3>2. Len(chan'[i]) = Len(chan[i]) + 1
      <4>1. /\ chan[i] \in Seq(ResponseFrames) /\ hold[1].frame \in ResponseFrames
            /\ chan'[i] = Append(chan[i], hold[1].frame)
        BY <2>1, <2>4 DEF DeliverEffect
      <4> QED
        BY <4>1
    <3>3. Count(wire', i) = Count(wire, i)
      BY <2>2
    <3>4. Coming(i)' <= Coming(i)
      BY <1>1, <1>2, <1>4, <1>5, <2>3, <3>1, <3>2, <3>3
    <3> QED
      BY <1>3, <2>2, <3>4
  <2>5. CASE hold[1].id # i
    <3>1. Len(chan'[i]) = Len(chan[i]) /\ Count(wire', i) = Count(wire, i)
      BY <2>1, <2>5 DEF DeliverEffect
    <3>2. Coming(i)' <= Coming(i)
      BY <1>1, <1>2, <1>4, <1>5, <2>3, <3>1
    <3> QED
      BY <1>3, <2>2, <3>2
  <2> QED
    BY <2>4, <2>5
<1>9. CASE QueueEvent
  <2>1. hold' = <<>> /\ UNCHANGED <<chan, wire, requests>>
    BY <1>9, QueueEventStep
  <2>2. Count(hold', i) = 0 /\ Len(chan'[i]) = Len(chan[i]) /\ Count(wire', i) = Count(wire, i)
    BY <1>6, <2>1
  <2>3. Coming(i)' <= Coming(i)
    BY <1>1, <1>2, <1>4, <1>5, <2>2
  <2> QED
    BY <1>3, <2>1, <2>3
<1>10. CASE Disconnected
  <2>1. UNCHANGED <<chan, hold, wire, requests>>
    BY <1>10 DEF Disconnected, farVars
  <2>2. Coming(i)' = Coming(i)
    BY <2>1 DEF Coming
  <2> QED
    BY <1>1, <1>3, <2>1, <2>2
<1>11. CASE Broadcast
  <2>1. UNCHANGED <<chan, hold, requests>> /\ wire \in Seq(Messages)
    BY <1>11, BroadcastStep
  <2>2. PICK m \in Messages : m.id = 0 /\ wire' = Append(wire, m)
    BY <1>11, BroadcastStep
  <2>3. m.id # i
    BY <2>2, IdsInterval
  <2>4. Count(wire', i) = Count(wire, i)
    BY <2>1, <2>2, <2>3, CountAppend
  <2>5. Coming(i)' = Coming(i)
    BY <2>1, <2>4 DEF Coming
  <2> QED
    BY <1>1, <1>3, <2>1, <2>5
<1>12. CASE Break
  <2>1. UNCHANGED <<chan, hold>> /\ requests' = <<>> /\ wire \in Seq(Messages)
    BY <1>12, BreakStep
  <2>2. PICK k \in 0 .. Len(wire) : wire' = SubSeq(wire, 1, k)
    BY <1>12, BreakStep
  <2>3. Count(wire', i) <= Count(wire, i)
    BY <2>1, <2>2, CountPrefix
  <2>4. Count(hold', i) = Count(hold, i) /\ Len(chan'[i]) = Len(chan[i])
    BY <2>1
  <2>5. Coming(i)' <= Coming(i)
    BY <1>1, <1>2, <1>4, <1>5, <2>3, <2>4
  <2>6. DOMAIN requests' = {} /\ Coming(i) <= b
    BY <2>1 DEF Load
  <2> QED
    BY <1>1, <1>2, <2>5, <2>6 DEF Load
<1>13. CASE Answer
  <2>1. AnswerEffect /\ wire \in Seq(Messages)
    BY <1>13, AnswerStep DEF TypeInv
  <2>2. /\ Head(requests) = requests[1] /\ 1 \in DOMAIN requests /\ requests \in Seq(Requests)
        /\ requests # <<>> /\ UNCHANGED <<chan, hold>>
        /\ wire' = Append(wire, Answered) /\ Answered \in Messages
    BY <2>1, TakeHead DEF AnswerEffect
  <2>3. Answered.id = requests[1].id
    BY <2>2 DEF Answered
  <2>4. \A k \in DOMAIN requests : requests[k].left \in Nat \ {0}
    <3>1. \A k \in DOMAIN requests : requests[k] \in Requests
      BY <2>2
    <3> QED
      BY <3>1 DEF Requests
  <2>5. Count(hold', i) = Count(hold, i) /\ Len(chan'[i]) = Len(chan[i])
    BY <2>2
  <2>6. CASE requests[1].id # i
    <3>1. Count(wire', i) = Count(wire, i)
      BY <2>1, <2>2, <2>3, <2>6, CountAppend
    <3>2. Coming(i)' = Coming(i)
      BY <2>2, <3>1 DEF Coming
    <3>3. \A k \in DOMAIN requests' : requests'[k].id = i =>
            \E j \in DOMAIN requests : requests[j].id = i /\ requests[j].left = requests'[k].left
      <4>1. CASE requests' = Tail(requests)
        <5>1. \A k \in DOMAIN Tail(requests) : k + 1 \in DOMAIN requests
                                               /\ Tail(requests)[k] = requests[k + 1]
          BY <2>2, TakeHead
        <5> QED
          BY <4>1, <5>1
      <4>2. CASE /\ DOMAIN requests' = DOMAIN requests /\ requests'[1].id = requests[1].id
                 /\ \A k \in DOMAIN requests : k # 1 => requests'[k] = requests[k]
        BY <2>6, <4>2
      <4> QED
        BY <2>1, <4>1, <4>2 DEF AnswerEffect
    <3> QED
      BY <3>2, <3>3 DEF Load
  <2>7. CASE requests[1].id = i
    <3>1. Count(wire', i) = Count(wire, i) + 1
      BY <2>1, <2>2, <2>3, <2>7, CountAppend
    <3>2. Coming(i)' = Coming(i) + 1
      BY <1>1, <1>4, <1>5, <2>5, <3>1
    <3>3. requests[1].left + Coming(i) <= b /\ requests[1].left \in Nat \ {0}
      BY <2>2, <2>4, <2>7 DEF Load
    <3>4. Coming(i)' <= b /\ requests[1].left - 1 + Coming(i)' <= b
      BY <1>1, <3>2, <3>3
    <3>5. \A k \in DOMAIN requests : k # 1 => requests[k].id # i
      BY <2>2, <2>7 DEF FlowInv
    <3>6. \A k \in DOMAIN requests' : requests'[k].id = i => requests'[k].left + Coming(i)' <= b
      <4>1. CASE requests' = Tail(requests)
        <5>1. \A k \in DOMAIN Tail(requests) : k + 1 \in DOMAIN requests /\ k + 1 # 1
                                               /\ Tail(requests)[k] = requests[k + 1]
          BY <2>2, TakeHead
        <5> QED
          BY <3>5, <4>1, <5>1
      <4>2. CASE /\ DOMAIN requests' = DOMAIN requests /\ requests'[1].left = requests[1].left - 1
                 /\ \A k \in DOMAIN requests : k # 1 => requests'[k] = requests[k]
        BY <3>4, <3>5, <4>2
      <4> QED
        BY <2>1, <4>1, <4>2 DEF AnswerEffect
    <3> QED
      BY <3>4, <3>6 DEF Load
  <2> QED
    BY <2>6, <2>7
<1> QED
  BY <1>7, <1>8, <1>9, <1>10, <1>11, <1>12, <1>13

Distinct(q) == \A j, k \in DOMAIN q : q[j].id = q[k].id => j = k
Lefts == \A c \in Clients : st[c] = "send" => left[c] = size[id[c]]
Loads == /\ \A c \in Clients : st[c] = "wait" => Load(id[c], size[id[c]])
         /\ \A c \in Clients : st[c] = "relay" => Load(id[c], size[id[c]] - 1)
Taken(i) == \/ \E c \in Clients : id[c] = i /\ Active(c)
            \/ Len(chan[i]) < responseQueueSize \/ size[i] > responseQueueSize + 1

\* The sizes are the ones that register noted, for ids not used before.
LEMMA SizeStep ==
  ASSUME TypeInv, CountInv, size \in [Ids -> Nat], [Next]_vars
  PROVE  /\ size' \in [Ids -> Nat]
         /\ \A i \in Ids : i <= nextID => size'[i] = size[i]
<1> USE DEF clientVars, serveVars, writerVars, connVars, farVars
<1>1. ASSUME NEW c \in Clients, Register(c)
      PROVE  size' \in [Ids -> Nat] /\ \A i \in Ids : i <= nextID => size'[i] = size[i]
  <2>1. nextID + 1 \in Ids /\ nextID \in Nat
    BY <1>1, FreshId DEF Register
  <2>2. left[c] \in Nat
    BY DEF TypeInv
  <2>3. CASE size' = [size EXCEPT ![nextID + 1] = left[c]]
    BY <2>1, <2>2, <2>3
  <2>4. CASE UNCHANGED size
    BY <2>4
  <2> QED
    BY <1>1, <2>3, <2>4 DEF Register
<1>2. ASSUME UNCHANGED size
      PROVE  size' \in [Ids -> Nat] /\ \A i \in Ids : i <= nextID => size'[i] = size[i]
  BY <1>2
<1>3. ASSUME NEW c \in Clients,
             ClientLeave(c) \/ ReadRequest(c) \/ Drain(c) \/ writeFrames(c) \/ ReadFails(c)
             \/ Stream(c) \/ StreamFails(c) \/ WriteError(c) \/ Send(c) \/ Receive(c)
             \/ ReceiveClosed(c) \/ Relay(c)
      PROVE  UNCHANGED size
  BY <1>3 DEF ClientLeave, ReadRequest, Drain, DrainTake, writeFails, writeFrames, ReadFails, Stream,
     StreamFails, WriteError, Send, Receive, ReceiveClosed, Relay
<1>4. CASE Reader \/ eventLoop \/ Answer \/ Broadcast \/ Break \/ UNCHANGED vars
  BY <1>2, <1>4 DEF Reader, ReadWire, Deliver, QueueEvent, Disconnected, Redial, eventLoop, Answer,
     Broadcast, Break, vars
<1> QED
  BY <1>1, <1>2, <1>3, <1>4 DEF Next, Serve

\* A request that is about to be sent has its whole response to come.
LEMMA LeftsStep ==
  ASSUME TypeInv, CountInv, IdsInv, Lefts, size \in [Ids -> Nat], [Next]_vars
  PROVE  Lefts'
<1> USE DEF clientVars, serveVars, writerVars, connVars, farVars, Goto
<1>1. ASSUME NEW c \in Clients, Register(c) PROVE Lefts'
  <2>1. RegisterEffect(c)
    BY <1>1, RegisterStep
  <2>2. ASSUME NEW d \in Clients, d # c, st'[d] = "send" PROVE left'[d] = size'[id'[d]]
    <3>1. st[d] = "send" /\ id'[d] = id[d] /\ left'[d] = left[d]
      BY <2>1, <2>2 DEF RegisterEffect
    <3>2. id[d] \in Ids
      BY <3>1, ActiveId DEF Active
    <3>3. id[d] <= nextID
      BY DEF TypeInv
    <3>4. size'[id[d]] = size[id[d]]
      BY <3>2, <3>3, SizeStep
    <3> QED
      BY <3>1, <3>4 DEF Lefts
  <2>3. ASSUME st'[c] = "send" PROVE left'[c] = size'[id'[c]]
    <3>1. link # "down"
      BY <1>1, <2>3 DEF Register, TypeInv
    <3>2. size' = [size EXCEPT ![nextID + 1] = left[c]] /\ id' = [id EXCEPT ![c] = nextID + 1]
      BY <1>1, <3>1 DEF Register
    <3>3. id'[c] = nextID + 1 /\ nextID + 1 \in Ids /\ left' = left
      BY <2>1, <3>2 DEF RegisterEffect, TypeInv
    <3> QED
      BY <3>2, <3>3
  <2> QED
    BY <2>2, <2>3 DEF Lefts
<1>2. ASSUME NEW c \in Clients, ReadRequest(c) \/ Stream(c) PROVE Lefts'
  <2>1. /\ st'[c] # "send" /\ UNCHANGED <<id, size>>
        /\ \A d \in Clients : d # c => st'[d] = st[d] /\ left'[d] = left[d]
    BY <1>2 DEF ReadRequest, Stream, TypeInv
  <2> QED
    BY <2>1 DEF Lefts
<1>3. ASSUME UNCHANGED <<left, id, size>>,
             \A d \in Clients : st'[d] = "send" => st[d] = "send"
      PROVE  Lefts'
  BY <1>3 DEF Lefts
<1>4. ASSUME NEW c \in Clients,
             ReadFails(c) \/ StreamFails(c) \/ WriteError(c) \/ Send(c) \/ Receive(c)
             \/ ReceiveClosed(c) \/ Relay(c)
      PROVE  Lefts'
  <2>1. UNCHANGED <<left, id, size>>
    BY <1>4 DEF ReadFails, StreamFails, WriteError, Send, Receive, ReceiveClosed, Relay
  <2>2. st'[c] # "send" /\ \A d \in Clients : d # c => st'[d] = st[d]
    BY <1>4 DEF ReadFails, StreamFails, WriteError, Send, Receive, ReceiveClosed, Relay, TypeInv
  <2> QED
    BY <1>3, <2>1, <2>2
<1>5. ASSUME NEW c \in Clients, ClientLeave(c) \/ Drain(c) \/ writeFrames(c) PROVE Lefts'
  BY <1>3, <1>5 DEF ClientLeave, Drain, DrainTake, writeFails, writeFrames
<1>6. CASE Reader \/ eventLoop \/ Answer \/ Broadcast \/ Break \/ UNCHANGED vars
  BY <1>3, <1>6 DEF Reader, ReadWire, Deliver, QueueEvent, Disconnected, Redial, eventLoop, Answer,
     Broadcast, Break, vars
<1> QED
  BY <1>1, <1>2, <1>4, <1>5, <1>6 DEF Next, Serve

\* Only the requests that are forwarded and answered change, and a new one has an
\* id of its own.
LEMMA DistinctStep ==
  ASSUME TypeInv, CountInv, IdsInv, Distinct(requests), [Next]_vars
  PROVE  Distinct(requests')
<1>1. ASSUME NEW c \in Clients, Send(c) PROVE Distinct(requests')
  <2>1. SendEffect(c)
    BY <1>1, SendStep
  <2>2. CASE UNCHANGED requests
    BY <2>2
  <2>3. CASE requests' = Append(requests, Sending(c))
    <3>1. requests \in Seq(Requests) /\ Sending(c).id = id[c] /\ ~Has(requests, id[c])
      BY <2>1 DEF SendEffect, TypeInv, Sending, IdsInv, Quiet
    <3>2. /\ DOMAIN requests' = DOMAIN requests \cup {Len(requests) + 1}
          /\ requests'[Len(requests) + 1] = Sending(c)
          /\ \A k \in DOMAIN requests : requests'[k] = requests[k]
      BY <2>3, <3>1
    <3> QED
      BY <3>1, <3>2 DEF Distinct, Has
  <2> QED
    BY <2>1, <2>2, <2>3 DEF SendEffect
<1>2. CASE Answer
  <2>1. AnswerEffect
    BY <1>2, AnswerStep
  <2>2. requests \in Seq(Requests) /\ requests # <<>>
    BY <2>1 DEF AnswerEffect
  <2>3. CASE requests' = Tail(requests)
    <3>1. \A k \in DOMAIN Tail(requests) : k + 1 \in DOMAIN requests
                                           /\ Tail(requests)[k] = requests[k + 1]
      BY <2>2, TakeHead
    <3>2. ASSUME NEW j \in DOMAIN Tail(requests), NEW k \in DOMAIN Tail(requests),
                 Tail(requests)[j].id = Tail(requests)[k].id
          PROVE  j = k
      <4>1. j + 1 = k + 1
        BY <3>1, <3>2 DEF Distinct
      <4>2. j \in Int /\ k \in Int
        BY <2>2
      <4> QED
        BY <4>1, <4>2
    <3> QED
      BY <2>3, <3>2 DEF Distinct
  <2>4. CASE /\ DOMAIN requests' = DOMAIN requests /\ requests'[1].id = requests[1].id
             /\ \A k \in DOMAIN requests : k # 1 => requests'[k] = requests[k]
    BY <2>4 DEF Distinct
  <2> QED
    BY <2>1, <2>3, <2>4 DEF AnswerEffect
<1>3. CASE Break
  <2>1. requests' = <<>>
    BY <1>3, BreakStep
  <2> QED
    BY <2>1 DEF Distinct
<1>4. CASE ReadWire \/ Deliver \/ QueueEvent \/ Disconnected \/ Broadcast
  BY <1>4 DEF ReadWire, Deliver, QueueEvent, Disconnected, Broadcast, farVars
<1>5. ASSUME NEW c \in Clients, Register(c) \/ Receive(c) \/ Relay(c) PROVE Distinct(requests')
  BY <1>5 DEF Register, Receive, Relay, farVars
<1> QED
  BY <1>1, <1>2, <1>3, <1>4, <1>5, ApartStep DEF Next, Serve, Reader, Apart

\* A request that receives has less to come, one that is relayed no more.
LEMMA LoadsStep ==
  ASSUME TypeInv, TypeInv', CountInv, IdsInv, FlowInv, [Next]_vars
  PROVE  Loads'
<1>1. \A c \in Clients : Active(c) => id[c] \in Ids /\ id[c] # 0
  BY ActiveId DEF IdsInv
<1>2. Loads
  BY DEF FlowInv, Loads
<1>3. \A c \in Clients : Active(c) => size'[id[c]] = size[id[c]] /\ size[id[c]] \in Nat
  <2>1. \A c \in Clients : Active(c) => id[c] <= nextID
    BY DEF TypeInv
  <2> QED
    BY <1>1, <2>1, SizeStep DEF FlowInv
<1>4. ASSUME UNCHANGED <<chan, hold, wire, requests>> PROVE \A i, b : Load(i, b)' = Load(i, b)
  BY <1>4 DEF Load, Coming
<1>5. ASSUME Apart PROVE Loads'
  <2>1. \A i, b : Load(i, b)' = Load(i, b)
    BY <1>4, <1>5 DEF Apart
  <2>2. \A d \in Clients : st'[d] \in {"wait", "relay"} => st[d] = st'[d] /\ id'[d] = id[d]
    BY <1>5 DEF Apart, Active
  <2>3. \A d \in Clients : st'[d] = "wait" => Load(id[d], size'[id[d]])
    BY <1>2, <1>3, <2>2 DEF Loads, Active
  <2>4. \A d \in Clients : st'[d] = "relay" => Load(id[d], size'[id[d]] - 1)
    BY <1>2, <1>3, <2>2 DEF Loads, Active
  <2>5. UNCHANGED id
    BY <1>5 DEF Apart
  <2> QED
    BY <2>1, <2>3, <2>4, <2>5 DEF Loads
<1>6. ASSUME NEW c \in Clients, Register(c) PROVE Loads'
  <2>1. RegisterEffect(c)
    BY <1>6, RegisterStep
  <2>2. \A i, b : Load(i, b)' = Load(i, b)
    BY <1>4, <2>1 DEF RegisterEffect
  <2>3. \A d \in Clients : st'[d] \in {"wait", "relay"} => st[d] = st'[d] /\ id'[d] = id[d]
    BY <2>1 DEF RegisterEffect
  <2>4. \A d \in Clients : st'[d] = "wait" => Load(id'[d], size'[id'[d]])
    BY <1>2, <1>3, <2>3 DEF Loads, Active
  <2>5. \A d \in Clients : st'[d] = "relay" => Load(id'[d], size'[id'[d]] - 1)
    BY <1>2, <1>3, <2>3 DEF Loads, Active
  <2> QED
    BY <2>2, <2>4, <2>5 DEF Loads
<1>7. ASSUME NEW c \in Clients, Send(c) PROVE Loads'
  <2>1. SendEffect(c)
    BY <1>7, SendStep
  <2>2. UNCHANGED <<id, chan, hold, wire>> /\ st[c] = "send" /\ id[c] \in Ids /\ st'[c] # "relay"
        /\ \A d \in Clients : d # c => st'[d] = st[d]
    BY <2>1 DEF SendEffect
  <2>3. \A i : Coming(i)' = Coming(i)
    BY <2>2 DEF Coming
  <2>4. requests \in Seq(Requests)
    BY DEF TypeInv
  <2>5. \A k \in DOMAIN requests' : \/ k \in DOMAIN requests /\ requests'[k] = requests[k]
                                    \/ requests'[k] = Sending(c)
    <3>1. CASE UNCHANGED requests
      BY <3>1
    <3>2. CASE requests' = Append(requests, Sending(c))
      <4>1. /\ DOMAIN requests' = DOMAIN requests \cup {Len(requests) + 1}
            /\ requests'[Len(requests) + 1] = Sending(c)
            /\ \A k \in DOMAIN requests : requests'[k] = requests[k]
        BY <2>4, <3>2
      <4> QED
        BY <4>1
    <3> QED
      BY <2>1, <3>1, <3>2 DEF SendEffect
  <2>6. Sending(c).id = id[c] /\ Sending(c).left = left[c]
    BY DEF Sending
  <2>7. Load(id[c], size[id[c]])'
    <3>1. Quiet(id[c]) /\ ~Has(requests, id[c])
      BY <2>2 DEF IdsInv, Quiet
    <3>2. Coming(id[c]) = 0
      BY <2>2, <3>1, ComingType
    <3>3. left[c] = size[id[c]] /\ left[c] \in Nat
      BY <2>2 DEF FlowInv, TypeInv
    <3>4. \A k \in DOMAIN requests' : requests'[k].id = id[c] => requests'[k].left = left[c]
      BY <2>5, <2>6, <3>1 DEF Has
    <3>5. left[c] + 0 <= size[id[c]] /\ 0 <= size[id[c]]
      BY <3>3
    <3>6. size'[id[c]] = size[id[c]]
      BY <1>3, <2>2 DEF Active
    <3> QED
      BY <2>2, <2>3, <3>2, <3>4, <3>5, <3>6 DEF Load
  <2>8. ASSUME NEW d \in Clients, d # c, NEW b, Active(d), Load(id[d], b) PROVE Load(id[d], b)'
    <3>1. id[d] # id[c]
      BY <1>1, <2>8 DEF IdsInv
    <3>2. \A k \in DOMAIN requests' : requests'[k].id = id[d] =>
            k \in DOMAIN requests /\ requests'[k] = requests[k]
      BY <2>5, <2>6, <3>1
    <3> QED
      BY <2>2, <2>3, <2>8, <3>2 DEF Load
  <2>9. ASSUME NEW d \in Clients, st'[d] = "wait" PROVE Load(id[d], size[id[d]])'
    <3>1. CASE d = c
      BY <2>7, <3>1
    <3>2. CASE d # c
      BY <1>2, <1>3, <2>2, <2>8, <2>9, <3>2 DEF Loads, Active
    <3> QED
      BY <3>1, <3>2
  <2>10. ASSUME NEW d \in Clients, st'[d] = "relay" PROVE Load(id[d], size[id[d]] - 1)'
    BY <1>2, <1>3, <2>2, <2>8, <2>10 DEF Loads, Active
  <2> QED
    BY <2>9, <2>10 DEF Loads
<1>8. ASSUME NEW c \in Clients, Receive(c) PROVE Loads'
  <2>1. ReceiveEffect(c)
    BY <1>8, ReceiveStep
  <2>2. /\ UNCHANGED <<id, hold, wire, requests>> /\ st[c] = "wait" /\ id[c] \in Ids /\ st'[c] = "relay"
        /\ \A d \in Clients : d # c => st'[d] = st[d]
    BY <2>1 DEF ReceiveEffect
  <2>3. Load(id[c], size[id[c]] - 1)'
    <3>1. Len(chan'[id[c]]) = Len(chan[id[c]]) - 1
      <4>1. chan[id[c]] \in Seq(ResponseFrames) /\ chan[id[c]] # <<>> /\ chan'[id[c]] = Tail(chan[id[c]])
        BY <2>1 DEF ReceiveEffect
      <4> QED
        BY <4>1
    <3>2. /\ Coming(id[c]) \in Nat /\ Count(wire, id[c]) \in Nat /\ Count(hold, id[c]) \in Nat
          /\ Len(chan[id[c]]) \in Nat
      BY <2>2, ComingType
    <3>3. Coming(id[c])' = Coming(id[c]) - 1
      <4>1. Count(wire', id'[c]) = Count(wire, id[c]) /\ Count(hold', id'[c]) = Count(hold, id[c])
        BY <2>2
      <4>2. Len(chan'[id'[c]]) = Len(chan[id[c]]) - 1
        BY <2>2, <3>1
      <4> QED
        BY <3>2, <4>1, <4>2 DEF Coming
    <3>4. Load(id[c], size[id[c]]) /\ size'[id[c]] = size[id[c]] /\ size[id[c]] \in Nat
      BY <1>2, <1>3, <2>2 DEF Loads, Active
    <3>5. Coming(id[c]) - 1 <= size[id[c]] - 1
      BY <3>2, <3>4 DEF Load
    <3>6. ASSUME NEW k \in DOMAIN requests, requests[k].id = id[c]
          PROVE  requests[k].left + (Coming(id[c]) - 1) <= size[id[c]] - 1
      <4>1. requests \in Seq(Requests)
        BY DEF TypeInv
      <4>2. requests[k] \in Requests
        BY <4>1
      <4>3. requests[k].left \in Nat
        BY <4>2 DEF Requests
      <4>4. requests[k].left + Coming(id[c]) <= size[id[c]]
        BY <3>4, <3>6 DEF Load
      <4> QED
        BY <3>2, <3>4, <4>3, <4>4
    <3> QED
      BY <2>2, <3>3, <3>4, <3>5, <3>6 DEF Load
  <2>4. ASSUME NEW d \in Clients, d # c, NEW b, Active(d), Load(id[d], b) PROVE Load(id[d], b)'
    <3>1. id[d] # id[c] /\ id[d] \in Ids
      BY <1>1, <2>4 DEF IdsInv
    <3>2. chan'[id[d]] = chan[id[d]]
      BY <2>1, <3>1 DEF ReceiveEffect
    <3> QED
      BY <2>2, <2>4, <3>2 DEF Load, Coming
  <2>5. ASSUME NEW d \in Clients, st'[d] = "wait" PROVE Load(id[d], size[id[d]])'
    BY <1>2, <1>3, <2>2, <2>4, <2>5 DEF Loads, Active
  <2>6. ASSUME NEW d \in Clients, st'[d] = "relay" PROVE Load(id[d], size[id[d]] - 1)'
    <3>1. CASE d = c
      BY <2>3, <3>1
    <3>2. CASE d # c
      BY <1>2, <1>3, <2>2, <2>4, <2>6, <3>2 DEF Loads, Active
    <3> QED
      BY <3>1, <3>2
  <2> QED
    BY <2>5, <2>6 DEF Loads
<1>9. ASSUME NEW c \in Clients, Relay(c) PROVE Loads'
  <2>1. RelayEffect(c)
    BY <1>9, RelayStep
  <2>2. /\ UNCHANGED id /\ st[c] = "relay" /\ id[c] \in Ids /\ st'[c] # "relay"
        /\ \A d \in Clients : d # c => st'[d] = st[d]
    BY <2>1 DEF RelayEffect
  <2>3. \A i, b : Load(i, b)' = Load(i, b)
    BY <1>4, <2>1 DEF RelayEffect
  <2>4. Load(id[c], size[id[c]])
    <3>1. Load(id[c], size[id[c]] - 1) /\ Coming(id[c]) \in Nat /\ size[id[c]] \in Nat
      BY <1>2, <1>3, <2>2, ComingType DEF Loads, Active
    <3>2. Coming(id[c]) <= size[id[c]]
      BY <3>1 DEF Load
    <3>3. ASSUME NEW k \in DOMAIN requests, requests[k].id = id[c]
          PROVE  requests[k].left + Coming(id[c]) <= size[id[c]]
      <4>1. requests \in Seq(Requests)
        BY DEF TypeInv
      <4>2. requests[k] \in Requests
        BY <4>1
      <4>3. requests[k].left \in Nat
        BY <4>2 DEF Requests
      <4>4. requests[k].left + Coming(id[c]) <= size[id[c]] - 1
        BY <3>1, <3>3 DEF Load
      <4> QED
        BY <3>1, <4>3, <4>4
    <3> QED
      BY <3>2, <3>3 DEF Load
  <2>5. \A d \in Clients : st'[d] = "wait" => Load(id[d], size'[id[d]])
    BY <1>2, <1>3, <2>2, <2>4 DEF Loads, Active
  <2>6. \A d \in Clients : st'[d] = "relay" => Load(id[d], size'[id[d]] - 1)
    BY <1>2, <1>3, <2>2 DEF Loads, Active
  <2> QED
    BY <2>2, <2>3, <2>5, <2>6 DEF Loads
<1>10. CASE ReadWire \/ Deliver \/ QueueEvent \/ Disconnected \/ Answer \/ Broadcast \/ Break
  <2>1. Settled
    BY <1>10, SettledStep
  <2>2. \A i \in Ids, b \in Int : Load(i, b) => Load(i, b)'
    BY <1>10, LoadStep
  <2>3. ASSUME NEW d \in Clients, st'[d] = "wait" PROVE Load(id[d], size[id[d]])'
    <3>1. id[d] \in Ids /\ Load(id[d], size[id[d]]) /\ size'[id[d]] = size[id[d]] /\ size[id[d]] \in Int
      BY <1>1, <1>2, <1>3, <2>1, <2>3 DEF Loads, Active, Settled
    <3> QED
      BY <2>1, <2>2, <3>1 DEF Settled
  <2>4. ASSUME NEW d \in Clients, st'[d] = "relay" PROVE Load(id[d], size[id[d]] - 1)'
    <3>1. /\ id[d] \in Ids /\ Load(id[d], size[id[d]] - 1) /\ size'[id[d]] = size[id[d]]
          /\ size[id[d]] - 1 \in Int
      BY <1>1, <1>2, <1>3, <2>1, <2>4 DEF Loads, Active, Settled
    <3> QED
      BY <2>1, <2>2, <3>1 DEF Settled
  <2> QED
    BY <2>3, <2>4 DEF Loads
<1> QED
  BY <1>5, <1>6, <1>7, <1>8, <1>9, <1>10, ApartStep DEF Next, Serve, Reader

\* What the reader holds is for a request that is served, or fits its channel.
LEMMA HoldsStep ==
  ASSUME TypeInv, CountInv, CapsInv, IdsInv, WaitInv, FlowInv, [Next]_vars
  PROVE  /\ \A i \in Ids : Has(hold', i) => Taken(i)'
         /\ \A i \in shut' : ~Has(hold', i)
<1>1. \A c \in Clients : Active(c) => id[c] \in Ids /\ id[c] # 0
  BY ActiveId DEF IdsInv
<1>2. /\ \A i \in Ids : Has(hold, i) => Taken(i)
      /\ \A i \in shut : ~Has(hold, i)
      /\ responseQueueSize \in Nat /\ size \in [Ids -> Nat]
  BY GatewayCaps DEF FlowInv, Taken
<1>3. \A i \in Ids : Has(hold, i) => size'[i] = size[i]
  <2>1. \A i \in Ids : Has(hold, i) => i <= nextID
    <3>1. \A i \in Ids : i \in Int /\ nextID \in Int
      BY IdsInterval DEF TypeInv
    <3> QED
      BY <3>1 DEF IdsInv, Quiet
  <2> QED
    BY <1>2, <2>1, SizeStep
<1> DEFINE Ok == (\A i \in Ids : Has(hold', i) => Taken(i)') /\ \A i \in shut' : ~Has(hold', i)
<1>4. ASSUME UNCHANGED <<hold, shut, chan>>,
             \A d \in Clients : Active(d) /\ Has(hold, id[d]) =>
               \/ Active(d)' /\ id'[d] = id[d]
               \/ Len(chan[id[d]]) < responseQueueSize \/ size[id[d]] > responseQueueSize + 1
      PROVE  Ok
  <2>1. ASSUME NEW i \in Ids, Has(hold, i) PROVE Taken(i)'
    <3>1. CASE Len(chan[i]) < responseQueueSize \/ size[i] > responseQueueSize + 1
      BY <1>4, <1>3, <2>1, <3>1 DEF Taken
    <3>2. CASE \E d \in Clients : id[d] = i /\ Active(d)
      BY <1>4, <1>3, <2>1, <3>2 DEF Taken
    <3> QED
      BY <1>2, <2>1, <3>1, <3>2 DEF Taken
  <2> QED
    BY <1>2, <1>4, <2>1
<1>5. ASSUME Apart PROVE Ok
  <2>1. UNCHANGED <<hold, shut, chan, id>> /\ \A d \in Clients : Active(d) => Active(d)' \/ id[d] \in shut
    BY <1>5 DEF Apart
  <2> QED
    BY <1>2, <1>4, <2>1
<1>6. ASSUME NEW c \in Clients, Register(c) PROVE Ok
  <2>1. RegisterEffect(c)
    BY <1>6, RegisterStep
  <2>2. \A d \in Clients : Active(d) => Active(d)' /\ id'[d] = id[d]
    BY <2>1 DEF RegisterEffect, Active
  <2> QED
    BY <1>4, <2>1, <2>2 DEF RegisterEffect
<1>7. ASSUME NEW c \in Clients, Send(c) PROVE Ok
  <2>1. SendEffect(c)
    BY <1>7, SendStep
  <2>2. ~Has(hold, id[c])
    BY <2>1 DEF SendEffect, IdsInv, Quiet
  <2>3. \A d \in Clients : d # c /\ Active(d) => Active(d)' /\ id'[d] = id[d]
    BY <2>1 DEF SendEffect, Active
  <2> QED
    BY <1>4, <2>1, <2>2, <2>3 DEF SendEffect
<1>8. ASSUME NEW c \in Clients, Relay(c) PROVE Ok
  <2>1. RelayEffect(c)
    BY <1>8, RelayStep
  <2>2. Has(hold, id[c]) =>
          Len(chan[id[c]]) < responseQueueSize \/ size[id[c]] > responseQueueSize + 1
    <3>1. /\ Count(wire, id[c]) \in Nat /\ Count(hold, id[c]) \in Nat /\ Len(chan[id[c]]) \in Nat
      BY <2>1, ComingType DEF RelayEffect
    <3>2. Has(hold, id[c]) => Count(hold, id[c]) >= 1
      <4>1. hold \in Seq(Messages)
        BY DEF TypeInv
      <4> QED
        BY <4>1, CountType
    <3>3. Count(wire, id[c]) + Count(hold, id[c]) + Len(chan[id[c]]) <= size[id[c]] - 1
      BY <2>1 DEF RelayEffect, FlowInv, Load, Coming
    <3>4. size[id[c]] \in Nat
      BY <1>2, <2>1 DEF RelayEffect
    <3> QED
      BY <1>2, <3>1, <3>2, <3>3, <3>4
  <2>3. \A d \in Clients : d # c /\ Active(d) => Active(d)' /\ id'[d] = id[d]
    BY <2>1 DEF RelayEffect, Active
  <2> QED
    BY <1>4, <2>1, <2>2, <2>3 DEF RelayEffect
<1>9. ASSUME NEW c \in Clients, Receive(c) PROVE Ok
  <2>1. ReceiveEffect(c)
    BY <1>9, ReceiveStep
  <2>2. UNCHANGED <<hold, shut, id>> /\ \A d \in Clients : Active(d) => Active(d)'
    BY <2>1 DEF ReceiveEffect, Active
  <2>3. ASSUME NEW i \in Ids, Has(hold, i) PROVE Taken(i)'
    <3>1. CASE \E d \in Clients : id[d] = i /\ Active(d)
      BY <2>2, <3>1 DEF Taken
    <3>2. CASE ~\E d \in Clients : id[d] = i /\ Active(d)
      <4>1. i # id[c]
        BY <2>1, <3>2 DEF ReceiveEffect, Active
      <4> QED
        BY <1>2, <1>3, <2>1, <2>3, <3>2, <4>1 DEF ReceiveEffect, Taken
    <3> QED
      BY <3>1, <3>2
  <2> QED
    BY <1>2, <2>2, <2>3
<1>10. CASE ReadWire
  <2>1. ReadEffect /\ Settled
    BY <1>10, ReadStep, SettledStep
  <2>2. UNCHANGED <<chan, shut, id, st>>
    BY <2>1 DEF ReadEffect, Settled
  <2>3. ASSUME NEW i \in Ids, Has(hold', i) PROVE i \in pending
    <3>1. hold' = <<Head(wire)>> /\ Head(wire).id = i
      BY <2>1, <2>3, HasOne DEF ReadEffect
    <3>2. i # 0
      BY IdsInterval
    <3> QED
      BY <2>1, <3>1, <3>2, HasOne DEF ReadEffect
  <2>4. \A i \in Ids : Has(hold', i) => Taken(i)'
    BY <2>2, <2>3 DEF Taken, WaitInv, Active
  <2>5. \A i \in shut' : ~Has(hold', i)
    BY <2>2, <2>3 DEF IdsInv, TypeInv
  <2> QED
    BY <2>4, <2>5
<1>11. CASE Deliver \/ QueueEvent
  <2>1. hold' = <<>>
    BY <1>11, DeliverStep, QueueEventStep DEF DeliverEffect
  <2> QED
    BY <2>1, HasOne
<1>12. CASE Disconnected
  <2>1. hold' = <<>>
    BY <1>12 DEF Disconnected
  <2> QED
    BY <2>1, HasOne
<1>13. CASE Answer \/ Broadcast \/ Break
  <2>1. Settled /\ UNCHANGED <<hold, shut, chan>>
    BY <1>13, SettledStep DEF Answer, Broadcast, Break, connVars
  <2> QED
    BY <1>4, <2>1 DEF Settled, Active
<1> QED
  BY <1>5, <1>6, <1>7, <1>8, <1>9, <1>10, <1>11, <1>12, <1>13, ApartStep DEF Next, Serve, Reader

\* The two readings of the invariant.
LEMMA FlowParts ==
  FlowInv <=> /\ Distinct(requests) /\ size \in [Ids -> Nat] /\ Lefts /\ Loads
              /\ \A i \in Ids : Has(hold, i) => Taken(i)
              /\ \A i \in shut : ~Has(hold, i)
BY DEF FlowInv, Distinct, Lefts, Loads, Taken

\* Only a response of more than responseQueueSize + 1 frames leaves the reader of the
\* transactor connection with a frame for a full channel that nobody receives from
\* (deliver and Request), for any clients, requests and response lengths.
THEOREM NotStranded == Spec => []StrandedByLong
<1> DEFINE Inv == GatewayInv /\ FlowInv
<1>1. ASSUME Init PROVE Inv
  <2>1. \A c \in Clients : st[c] = "read"
    BY <1>1 DEF Init
  <2>2. requests = <<>> /\ hold = <<>> /\ shut = {}
    BY <1>1 DEF Init
  <2>3. Distinct(requests) /\ \A i : ~Has(hold, i)
    BY <2>2 DEF Distinct, Has
  <2>4. Lefts /\ Loads
    BY <2>1 DEF Lefts, Loads
  <2>5. size \in [Ids -> Nat]
    BY <1>1 DEF Init
  <2> QED
    BY <1>1, <2>2, <2>3, <2>4, <2>5, InitInv, FlowParts
<1>2. ASSUME Inv, [Next]_vars PROVE Inv'
  <2>1. GatewayInv'
    BY <1>2, TypeStep, CapsStep, CountStep, IdsStep, OwnStep, LastStep, WaitStep, FramedStep
       DEF GatewayInv
  <2>2. TypeInv /\ TypeInv' /\ CountInv /\ CapsInv /\ IdsInv /\ WaitInv /\ FlowInv
    BY <1>2, <2>1 DEF GatewayInv
  <2>3. Distinct(requests) /\ size \in [Ids -> Nat] /\ Lefts /\ Loads
    BY <2>2, FlowParts
  <2>4. Distinct(requests') /\ size' \in [Ids -> Nat] /\ Lefts'
    BY <1>2, <2>2, <2>3, DistinctStep, SizeStep, LeftsStep
  <2>5. Loads'
    BY <1>2, <2>2, LoadsStep
  <2>6. (\A i \in Ids : Has(hold', i) => Taken(i)') /\ \A i \in shut' : ~Has(hold', i)
    BY <1>2, <2>2, HoldsStep
  <2>7. FlowInv'
    BY <2>4, <2>5, <2>6 DEF FlowInv, Distinct, Lefts, Loads, Taken
  <2> QED
    BY <2>1, <2>7
<1>3. ASSUME Inv PROVE StrandedByLong
  <2>1. ASSUME hold # <<>>, hold[1].id # 0, ~ChanRoom(hold[1].id),
               ~(size[hold[1].id] > responseQueueSize + 1)
        PROVE  \E c \in Clients : id[c] = hold[1].id /\ st[c] \in {"wait", "relay"}
    <3>1. hold \in Seq(Messages) /\ Len(hold) <= 1
      BY <1>3 DEF GatewayInv, TypeInv
    <3>2. hold[1] \in Messages /\ hold = <<hold[1]>>
      BY <2>1, <3>1, OneMessage
    <3>3. hold[1].id \in Ids /\ Has(hold, hold[1].id)
      BY <2>1, <3>2, MessageKinds, HasOne
    <3>4. PICK c \in Clients : id[c] = hold[1].id /\ Active(c)
      BY <1>3, <2>1, <3>3, FlowParts DEF Taken, ChanRoom
    <3>5. st[c] # "send"
      BY <1>3, <3>3, <3>4 DEF GatewayInv, IdsInv, Quiet
    <3> QED
      BY <3>4, <3>5 DEF Active
  <2> QED
    BY <2>1 DEF StrandedByLong, Full, Receiver
<1> HIDE DEF Inv
<1> QED
  BY <1>1, <1>2, <1>3, PTL DEF Spec
=============================================================================
