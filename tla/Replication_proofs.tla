------------------------- MODULE Replication_proofs -------------------------
(***************************************************************************)
(* Proofs about Replication, for every set of records and any number of    *)
(* flushes, connections, disconnects and restarts.                         *)
(***************************************************************************)
EXTENDS Replication, FiniteSetTheorems, SequenceTheorems, TLAPS

Frames == Events \cup [id : Own]

\* The frames on their way, in the order in which they were sent: those the
\* reader has handed to the applier, then those of the connection.
Sent == evCh \o link

IsWal(f)      == "recs" \in DOMAIN f
IsSnapshot(f) == "sealed" \in DOMAIN f
IsNamed(f)    == "name" \in DOMAIN f
IsResponse(f) == "id" \in DOMAIN f
IsSeal(f)     == "ev" \in DOMAIN f /\ f.ev = "seal"

\* The records that frame f itself brings, apart from those of the root it
\* names, if it is applied when the segment files are s.
Brings(s, f) ==
  IF IsWal(f) THEN f.recs
  ELSE IF IsSnapshot(f) THEN f.tail \cup UNION {s[i].recs : i \in f.sealed \cap DOMAIN s}
  ELSE {}
-----------------------------------------------------------------------------
(* The transactor.                                                         *)

\* The newest root written; it is ahead of the one in use while a flush that
\* was prepared waits to be published.
Newest == Cardinality(DOMAIN contents) - 1

Flushing == flush \in {"captured", "prepared"}

RootsInv ==
  /\ Newest \in 0 .. MaxFlushes
  /\ DOMAIN contents = 0 .. Newest
  /\ root = IF flush = "prepared" THEN Newest - 1 ELSE Newest
  /\ flush = "captured" => Newest < MaxFlushes
  /\ flush = "prepared" => contents[Newest] = contents[root] \cup draining
  /\ \A m, n \in DOMAIN contents : m <= n => contents[m] \subseteq contents[n]
  /\ root \in onDisk /\ Newest \in onDisk

\* A seal is pending from its capture to the next append or tick, so nothing
\* was written since; boundaries count the records they cover.
CaptureInv ==
  /\ IsFiniteSet(sunk)
  /\ sunk = live \cup draining \cup contents[root]
            \cup (IF pending = NoRecord THEN {} ELSE {pending})
  /\ ~Flushing => draining = {} /\ durable = boundary
  /\ \/ durable = Cardinality(contents[root])
     \/ durable = -1 /\ contents[root] = {}
  /\ Flushing => boundary = Cardinality(contents[root] \cup draining)
  /\ seal >= 0 => seal = boundary /\ live = {} /\ pending = NoRecord
  /\ segIdx + (IF seal >= 0 THEN 1 ELSE 0)
       <= Newest + (IF flush = "captured" THEN 1 ELSE 0)

\* A segment that may be deleted holds what the root in use reaches, and no
\* other record is missing from the log.
SegmentsInv ==
  /\ \A i \in DOMAIN segs : i <= segIdx
  /\ \A i \in DOMAIN segs : segs[i].boundary < 0 <=> i = segIdx
  /\ \A i \in DOMAIN segs : segs[i].boundary >= 0 =>
       /\ segs[i].boundary <= durable => segs[i].recs \subseteq contents[root]
       /\ segs[i].boundary > durable => segs[i].recs \subseteq contents[root] \cup draining
                                        /\ Flushing /\ segs[i].boundary = boundary
  /\ seal >= 0 => segs[segIdx].recs \subseteq contents[root] \cup draining
  /\ \A i \in DOMAIN segs : segs[i].recs \subseteq sunk
  /\ sunk \subseteq contents[root] \cup RecsIn(DOMAIN segs)
-----------------------------------------------------------------------------
(* The stream.                                                             *)

DownInv ==
  /\ conn = "down" => link = <<>> /\ evCh = <<>> /\ acked = {} /\ reply = {}
  /\ ~Subscribed => buf = {} /\ \A i \in DOMAIN Sent : IsResponse(Sent[i])
  /\ contents[rroot] \subseteq received
  /\ reply \subseteq sunk

\* Roots are named in the order of their publication, and the last one named
\* is the one in use: if none is on its way the replica has loaded it.
NamesUpTo(q, n) ==
  /\ \A i \in DOMAIN q : IsNamed(q[i]) => q[i].name <= n
  /\ \A i, j \in DOMAIN q : i < j /\ IsNamed(q[i]) /\ IsNamed(q[j]) => q[i].name <= q[j].name

Names(q, n) == \E i \in DOMAIN q : IsNamed(q[i]) /\ q[i].name = n
NamesNone(q) == \A i \in DOMAIN q : ~IsNamed(q[i])

NamesInv ==
  Subscribed =>
    /\ NamesUpTo(Sent, root)
    /\ \/ flush = "published"
       \/ Names(Sent, root)
       \/ rroot >= root /\ NamesNone(Sent)

Carried(s, q, r) == \E i \in DOMAIN q : r \in Brings(s, q[i])

\* Nothing falls between the snapshot and the stream.
StreamInv ==
  Subscribed =>
    \A r \in sunk : r \in received \cup buf \cup contents[root] \/ Carried(segs, Sent, r)

WalBefore(q, i, r) == \E j \in DOMAIN q : j < i /\ IsWal(q[j]) /\ r \in q[j].recs
WalIn(q, r) == \E j \in DOMAIN q : IsWal(q[j]) /\ r \in q[j].recs

\* The frames of a request's records leave before its response: g are the
\* records answered without a stream, v those the replica has.
Ordered(q, g, v) ==
  \A i \in DOMAIN q : IsResponse(q[i]) /\ q[i].id \notin g =>
    q[i].id \in v \/ WalBefore(q, i, q[i].id)

AckInv ==
  /\ \A r \in acked \ direct : r \in received \/ WalIn(evCh, r)
  /\ Ordered(Sent, direct, received)
  /\ Subscribed => \A r \in reply : r \in received \cup buf \/ WalIn(Sent, r)
-----------------------------------------------------------------------------
(* The mirror.                                                             *)

\* Record r is brought by frame p of queue q, or is in the replica's live
\* memtable l when p is 0.
Source(s, l, q, p, r) == IF p = 0 THEN r \in l ELSE r \in Brings(s, q[p])

NoSeal(q, p) == \A k \in DOMAIN q : k > p => ~IsSeal(q[k])
NoName(q, p) == \A k \in DOMAIN q : k > p => ~IsNamed(q[k])

\* Once queue q is applied, r is in the replica's live memtable ...
EndsLive(s, l, q, r) == \E p \in 0 .. Len(q) : Source(s, l, q, p, r) /\ NoSeal(q, p)

\* ... or in its frozen runs: one seal follows it and no root follows that.
EndsFrozen(s, l, d, q, r) ==
  \/ r \in d /\ NoSeal(q, 0) /\ NoName(q, 0)
  \/ \E p \in 0 .. Len(q), k \in DOMAIN q :
       /\ p < k /\ Source(s, l, q, p, r) /\ IsSeal(q[k]) /\ NoSeal(q, k) /\ NoName(q, k)
       /\ \A m \in DOMAIN q : p < m /\ m < k => ~IsSeal(q[m])

GoesLive(r)   == r \in buf \/ EndsLive(segs, rlive, Sent, r)
GoesFrozen(r) == EndsFrozen(segs, rlive, rdraining, Sent, r)

MirrorInv ==
  Subscribed =>
    /\ \A r \in (live \cup (IF pending = NoRecord THEN {} ELSE {pending}))
                  \ (overtaking \cup contents[root]) : GoesLive(r)
    /\ \A r \in draining \ (overtaking \cup contents[root]) :
         GoesLive(r) \/ (seal < 0 /\ GoesFrozen(r))
-----------------------------------------------------------------------------
(* Frames and their order.                                                 *)

\* What each frame is made of.
LEMMA FrameKinds ==
  /\ \A rs : /\ IsWal(Wal(rs)) /\ Wal(rs).recs = rs
             /\ ~IsNamed(Wal(rs)) /\ ~IsSeal(Wal(rs)) /\ ~IsResponse(Wal(rs))
             /\ ~IsSnapshot(Wal(rs))
  /\ /\ IsSeal(SealEv) /\ ~IsWal(SealEv) /\ ~IsNamed(SealEv) /\ ~IsResponse(SealEv)
     /\ ~IsSnapshot(SealEv)
  /\ \A n : /\ IsNamed(Root(n)) /\ Root(n).name = n
            /\ ~IsWal(Root(n)) /\ ~IsSeal(Root(n)) /\ ~IsResponse(Root(n))
            /\ ~IsSnapshot(Root(n))
  /\ \A is, rs, n : /\ IsSnapshot(Snapshot(is, rs, n)) /\ Snapshot(is, rs, n).tail = rs
                    /\ Snapshot(is, rs, n).sealed = is /\ Snapshot(is, rs, n).name = n
                    /\ IsNamed(Snapshot(is, rs, n)) /\ ~IsSeal(Snapshot(is, rs, n))
                    /\ ~IsWal(Snapshot(is, rs, n)) /\ ~IsResponse(Snapshot(is, rs, n))
  /\ \A r : /\ IsResponse(Response(r)) /\ Response(r).id = r
            /\ ~IsWal(Response(r)) /\ ~IsSeal(Response(r)) /\ ~IsNamed(Response(r))
            /\ ~IsSnapshot(Response(r))
BY DEF IsWal, IsSeal, IsNamed, IsResponse, IsSnapshot, Wal, SealEv, Root, Snapshot, Response

\* An event is of one of four kinds.
LEMMA EventKinds ==
  ASSUME NEW f \in Events
  PROVE  \/ /\ f.ev = "wal" /\ IsWal(f) /\ f.recs \in SUBSET Records /\ ~IsNamed(f)
            /\ ~IsSeal(f) /\ ~IsResponse(f) /\ ~IsSnapshot(f)
         \/ /\ f.ev = "seal" /\ IsSeal(f) /\ ~IsWal(f) /\ ~IsNamed(f) /\ ~IsResponse(f)
            /\ ~IsSnapshot(f)
         \/ /\ f.ev = "root" /\ IsNamed(f) /\ f.name \in 0 .. MaxFlushes /\ ~IsWal(f)
            /\ ~IsSeal(f) /\ ~IsResponse(f) /\ ~IsSnapshot(f)
         \/ /\ f.ev = "snapshot" /\ IsSnapshot(f) /\ IsNamed(f)
            /\ f.name \in 0 .. MaxFlushes /\ f.tail \in SUBSET Records
            /\ f.sealed \in SUBSET (0 .. MaxFlushes)
            /\ ~IsWal(f) /\ ~IsSeal(f) /\ ~IsResponse(f)
<1>1. CASE f \in [ev : {"wal"}, recs : SUBSET Records]
  BY <1>1 DEF IsWal, IsSeal, IsNamed, IsResponse, IsSnapshot
<1>2. CASE f = SealEv
  BY <1>2 DEF IsWal, IsSeal, IsNamed, IsResponse, IsSnapshot, SealEv
<1>3. CASE f \in [ev : {"root"}, name : 0 .. MaxFlushes]
  BY <1>3 DEF IsWal, IsSeal, IsNamed, IsResponse, IsSnapshot
<1>4. CASE f \in [ev : {"snapshot"}, sealed : SUBSET (0 .. MaxFlushes),
                  tail : SUBSET Records, name : 0 .. MaxFlushes]
  BY <1>4 DEF IsWal, IsSeal, IsNamed, IsResponse, IsSnapshot
<1> QED
  BY <1>1, <1>2, <1>3, <1>4 DEF Events

\* A frame is an event or a response, and readerLoop can tell.
LEMMA FrameIsEvent ==
  ASSUME NEW f \in Frames
  PROVE  \/ f \in Events /\ "ev" \in DOMAIN f
         \/ /\ f \in [id : Own] /\ "ev" \notin DOMAIN f /\ IsResponse(f) /\ f.id \in Own
            /\ ~IsWal(f) /\ ~IsSeal(f) /\ ~IsNamed(f) /\ ~IsSnapshot(f)
<1>1. CASE f \in Events
  BY <1>1 DEF Events, SealEv
<1>2. CASE f \in [id : Own]
  BY <1>2 DEF IsWal, IsSeal, IsNamed, IsResponse, IsSnapshot
<1> QED
  BY <1>1, <1>2 DEF Frames

\* The frames the hub and the connection handler send.
LEMMA FrameTypes ==
  /\ \A rs \in SUBSET Records : Wal(rs) \in Events
  /\ SealEv \in Events
  /\ \A n \in 0 .. MaxFlushes : Root(n) \in Events
  /\ \A is \in SUBSET (0 .. MaxFlushes), rs \in SUBSET Records, n \in 0 .. MaxFlushes :
       Snapshot(is, rs, n) \in Events
  /\ \A r \in Own : Response(r) \in [id : Own]
BY DEF Wal, SealEv, Root, Snapshot, Response, Events

\* d is queue q without its frame at k.
Dropped(q, d, k) ==
  /\ k \in DOMAIN q
  /\ q \in Seq(Frames) /\ d \in Seq(Frames)
  /\ Len(d) = Len(q) - 1
  /\ \A i \in DOMAIN d : d[i] = IF i < k THEN q[i] ELSE q[i + 1]

\* What is buffered goes out ahead of the next frame.
Pushed(q, b) == IF b = {} THEN q ELSE Append(q, Wal(b))

\* What is under way is a sequence of frames, and the part the applier sees one of events.
LEMMA SentType ==
  ASSUME TypeOK
  PROVE  /\ Sent \in Seq(Frames) /\ link \in Seq(Frames) /\ evCh \in Seq(Events)
         /\ evCh \in Seq(Frames)
<1>1. link \in Seq(Frames) /\ evCh \in Seq(Events)
  BY DEF TypeOK, Frames
<1>2. evCh \in Seq(Frames)
  BY <1>1 DEF Frames
<1> QED
  BY <1>1, <1>2 DEF Sent

\* The readerLoop moves the oldest frame of the connection to the applier ...
LEMMA ReadMoves ==
  ASSUME TypeOK, ReadFrame
  PROVE  \/ /\ Sent' = Sent /\ UNCHANGED acked
            /\ evCh' = Append(evCh, Head(link)) /\ Head(link) \in Events
         \/ /\ Dropped(Sent, Sent', Len(evCh) + 1) /\ UNCHANGED evCh
            /\ IsResponse(Sent[Len(evCh) + 1]) /\ ~IsSeal(Sent[Len(evCh) + 1])
            /\ ~IsNamed(Sent[Len(evCh) + 1]) /\ ~IsWal(Sent[Len(evCh) + 1])
            /\ \A s : Brings(s, Sent[Len(evCh) + 1]) = {}
            /\ acked' = acked \cup {Sent[Len(evCh) + 1].id}
<1>1. /\ link \in Seq(Frames) /\ evCh \in Seq(Frames) /\ link # <<>> /\ link' = Tail(link)
      /\ Sent = evCh \o link /\ Sent' = evCh' \o link' /\ Sent \in Seq(Frames)
  BY SentType DEF ReadFrame, Sent
<1>2. Head(link) \in Frames /\ link' \in Seq(Frames)
  BY <1>1
<1>3. CASE "ev" \in DOMAIN Head(link)
  <2>1. evCh' = Append(evCh, Head(link)) /\ UNCHANGED acked
    BY <1>3 DEF ReadFrame
  <2>2. Head(link) \in Events
    BY <1>2, <1>3, FrameIsEvent
  <2>3. Len(Append(evCh, Head(link)) \o Tail(link)) = Len(evCh \o link)
    BY <1>1, <1>2
  <2>4. \A i \in 1 .. Len(evCh \o link) :
          (Append(evCh, Head(link)) \o Tail(link))[i] = (evCh \o link)[i]
    BY <1>1, <1>2
  <2>5. Append(evCh, Head(link)) \o Tail(link) = evCh \o link
    <3>1. Append(evCh, Head(link)) \o Tail(link) \in Seq(Frames) /\ evCh \o link \in Seq(Frames)
      BY <1>1, <1>2
    <3> QED
      BY <2>3, <2>4, <3>1, SeqEqual
  <2> QED
    BY <1>1, <2>1, <2>2, <2>5
<1>4. CASE "ev" \notin DOMAIN Head(link)
  <2> DEFINE k == Len(evCh) + 1
  <2>1. UNCHANGED evCh /\ acked' = acked \cup {Head(link).id}
    BY <1>4 DEF ReadFrame
  <2>2. k \in DOMAIN Sent /\ Sent[k] = Head(link)
    BY <1>1
  <2>3. /\ Len(Sent') = Len(Sent) - 1 /\ Sent' \in Seq(Frames)
        /\ \A i \in DOMAIN Sent' : Sent'[i] = IF i < k THEN Sent[i] ELSE Sent[i + 1]
    <3>1. Sent' = evCh \o Tail(link)
      BY <1>1, <2>1
    <3>2. /\ Len(evCh \o Tail(link)) = Len(evCh \o link) - 1
          /\ evCh \o Tail(link) \in Seq(Frames)
          /\ \A i \in 1 .. Len(evCh \o Tail(link)) :
               (evCh \o Tail(link))[i]
                 = IF i < k THEN (evCh \o link)[i] ELSE (evCh \o link)[i + 1]
      BY <1>1
    <3>3. DOMAIN Sent' = 1 .. Len(evCh \o Tail(link))
      BY <3>1, <3>2
    <3>4. Len(Sent') = Len(Sent) - 1 /\ Sent' \in Seq(Frames)
      BY <1>1, <3>1, <3>2
    <3> QED
      BY <1>1, <3>1, <3>2, <3>3, <3>4
  <2> QED
    BY <1>1, <1>2, <1>4, <2>1, <2>2, <2>3, FrameIsEvent DEF Dropped, Brings
<1> QED
  BY <1>3, <1>4

\* ... which takes the oldest of all.
LEMMA ApplyTakes ==
  ASSUME TypeOK, ApplyEvent
  PROVE  /\ Dropped(Sent, Sent', 1) /\ Sent[1] = Head(evCh) /\ Head(evCh) \in Events
         /\ \A i \in DOMAIN evCh' : i + 1 \in DOMAIN evCh /\ evCh'[i] = evCh[i + 1]
         /\ \A i \in DOMAIN evCh : i # 1 => i - 1 \in DOMAIN evCh' /\ evCh'[i - 1] = evCh[i]
         /\ 1 \in DOMAIN evCh /\ evCh[1] = Head(evCh)
<1>1. /\ link \in Seq(Frames) /\ evCh \in Seq(Frames) /\ evCh \in Seq(Events)
      /\ evCh # <<>> /\ evCh' = Tail(evCh) /\ link' = link
      /\ Sent = evCh \o link /\ Sent' = evCh' \o link' /\ Sent \in Seq(Frames)
  BY SentType DEF ApplyEvent, Sent
<1>2. Sent' = Tail(evCh) \o link
  BY <1>1
<1>3. /\ Len(Tail(evCh) \o link) = Len(evCh \o link) - 1
      /\ Tail(evCh) \o link \in Seq(Frames)
      /\ \A i \in 1 .. Len(Tail(evCh) \o link) : (Tail(evCh) \o link)[i] = (evCh \o link)[i + 1]
  BY <1>1
<1>4. 1 \in DOMAIN Sent /\ Sent[1] = Head(evCh) /\ Head(evCh) \in Events
  BY <1>1
<1>5. /\ \A i \in DOMAIN evCh' : i + 1 \in DOMAIN evCh /\ evCh'[i] = evCh[i + 1]
      /\ \A i \in DOMAIN evCh : i # 1 => i - 1 \in DOMAIN evCh' /\ evCh'[i - 1] = evCh[i]
      /\ 1 \in DOMAIN evCh /\ evCh[1] = Head(evCh)
  BY <1>1
<1>6. \A i \in DOMAIN Sent' : Sent'[i] = IF i < 1 THEN Sent[i] ELSE Sent[i + 1]
  BY <1>1, <1>2, <1>3
<1> QED
  BY <1>1, <1>2, <1>3, <1>4, <1>5, <1>6 DEF Dropped

\* A frame appended to the link is appended to what is under way.
LEMMA ConcatAppend ==
  ASSUME NEW S, NEW a \in Seq(S), NEW l \in Seq(S), NEW e \in S
  PROVE  a \o Append(l, e) = Append(a \o l, e)
<1>1. /\ Len(a \o Append(l, e)) = Len(Append(a \o l, e))
      /\ a \o Append(l, e) \in Seq(S) /\ Append(a \o l, e) \in Seq(S)
  OBVIOUS
<1>2. \A i \in 1 .. Len(a \o Append(l, e)) : (a \o Append(l, e))[i] = Append(a \o l, e)[i]
  OBVIOUS
<1> QED
  BY <1>1, <1>2, SeqEqual

\* What is sent goes to the end.
LEMMA SendAppends ==
  ASSUME TypeOK, NEW b \in SUBSET Records, NEW f \in Frames,
         link' = Append(IF b = {} THEN link ELSE Append(link, Wal(b)), f), UNCHANGED evCh
  PROVE  /\ Sent' = Append(Pushed(Sent, b), f) /\ Pushed(Sent, b) \in Seq(Frames)
         /\ Sent \in Seq(Frames)
<1>1. /\ link \in Seq(Frames) /\ evCh \in Seq(Frames) /\ Sent \in Seq(Frames)
      /\ Sent = evCh \o link /\ Sent' = evCh \o link' /\ Wal(b) \in Frames
  BY SentType, FrameTypes DEF Sent, Frames
<1>2. CASE b = {}
  BY <1>1, <1>2, ConcatAppend DEF Pushed
<1>3. CASE b # {}
  <2>1. Append(link, Wal(b)) \in Seq(Frames) /\ Append(Sent, Wal(b)) \in Seq(Frames)
    BY <1>1
  <2>2. evCh \o Append(Append(link, Wal(b)), f) = Append(evCh \o Append(link, Wal(b)), f)
    BY <1>1, <2>1, ConcatAppend
  <2>3. evCh \o Append(link, Wal(b)) = Append(evCh \o link, Wal(b))
    BY <1>1, ConcatAppend
  <2> QED
    BY <1>1, <1>3, <2>1, <2>2, <2>3 DEF Pushed
<1> QED
  BY <1>2, <1>3
-----------------------------------------------------------------------------
(* The transactor: types, roots, log.                                      *)

\* broadcast keeps the types of queue and buffer.
LEMMA BroadcastType ==
  ASSUME TypeOK, NEW b \in SUBSET Records, NEW e \in Events, Broadcast(b, e)
  PROVE  link' \in Seq(Frames) /\ buf' \subseteq Records
<1>1. e \in Frames /\ Wal(b) \in Frames /\ link \in Seq(Frames)
  BY FrameTypes, SentType DEF Frames
<1>2. CASE Subscribed
  <2>1. (IF b = {} THEN link ELSE Append(link, Wal(b))) \in Seq(Frames)
    BY <1>1
  <2> QED
    BY <1>1, <1>2, <2>1 DEF Broadcast
<1>3. CASE ~Subscribed
  BY <1>1, <1>3 DEF Broadcast, TypeOK
<1> QED
  BY <1>2, <1>3

\* Sealing keeps the log a map from indices to segments.
LEMMA RotateType ==
  ASSUME TypeOK, RootsInv, CaptureInv, seal >= 0,
         NEW rest \in SUBSET Records, RotateSegment(rest)
  PROVE  /\ DOMAIN segs' \subseteq 0 .. MaxFlushes
         /\ \A i \in DOMAIN segs' : segs'[i] \in [recs : SUBSET Records, boundary : Nat \cup {-1}]
         /\ segIdx' \in DOMAIN segs' /\ seal' = -1
         /\ segIdx' = segIdx + 1
         /\ DOMAIN segs' = DOMAIN segs \cup {segIdx + 1}
         /\ segs'[segIdx'] = [recs |-> rest, boundary |-> -1]
<1>1. segIdx \in 0 .. MaxFlushes /\ segIdx + 1 \in 0 .. MaxFlushes
  BY ReplicationBounds DEF TypeOK, RootsInv, CaptureInv
<1>2. [recs |-> rest, boundary |-> -1] \in [recs : SUBSET Records, boundary : Nat \cup {-1}]
  OBVIOUS
<1>3. segs[segIdx] \in [recs : SUBSET Records, boundary : Nat \cup {-1}]
      /\ [segs[segIdx] EXCEPT !.boundary = seal]
           \in [recs : SUBSET Records, boundary : Nat \cup {-1}]
  BY DEF TypeOK
<1>4. ASSUME NEW i \in DOMAIN segs'
      PROVE  segs'[i] \in [recs : SUBSET Records, boundary : Nat \cup {-1}]
  <2>1. CASE i = segIdx
    BY <1>1, <1>3, <2>1 DEF RotateSegment
  <2>2. CASE i = segIdx + 1
    BY <1>1, <1>2, <2>2 DEF RotateSegment
  <2>3. CASE i # segIdx /\ i # segIdx + 1
    <3>1. i \in DOMAIN segs /\ segs'[i] = segs[i]
      BY <2>3 DEF RotateSegment
    <3> QED
      BY <3>1 DEF TypeOK
  <2> QED
    BY <2>1, <2>2, <2>3
<1> QED
  BY <1>1, <1>4 DEF RotateSegment, TypeOK

\* Roots are numbered without gaps from 0 to the newest one.
LEMMA NewestType ==
  ASSUME TypeOK, RootsInv
  PROVE  /\ Newest \in Nat /\ MaxFlushes \in Nat /\ DOMAIN contents \subseteq 0 .. MaxFlushes
         /\ root \in 0 .. MaxFlushes /\ Cardinality(DOMAIN contents) = Newest + 1
         /\ Cardinality(DOMAIN contents) \in Nat
<1>1. Newest \in Nat /\ MaxFlushes \in Nat /\ Newest <= MaxFlushes /\ DOMAIN contents = 0 .. Newest
  BY ReplicationBounds DEF RootsInv
<1>2. Cardinality(0 .. Newest) = Newest + 1
  BY <1>1, FS_Interval
<1> QED
  BY <1>1, <1>2 DEF TypeOK

\* No step takes a variable out of its type.
LEMMA TypeStep ==
  ASSUME TypeOK, RootsInv, CaptureInv, SegmentsInv, [Next]_vars
  PROVE  TypeOK'
<1> USE ReplicationRecords
<1> USE DEF logVars, memVars, flushVars, connVars, repVars, histVars
<1> DEFINE Segs == [recs : SUBSET Records, boundary : Nat \cup {-1}]
<1>1. /\ link \in Seq(Frames) /\ evCh \in Seq(Events)
      /\ Newest \in Nat /\ MaxFlushes \in Nat /\ root \in 0 .. MaxFlushes
      /\ Cardinality(DOMAIN contents) = Newest + 1 /\ DOMAIN contents = 0 .. Newest
      /\ DOMAIN contents \subseteq 0 .. MaxFlushes
  BY SentType, NewestType DEF RootsInv
<1>2. ASSUME NEW r \in Records, Sink(r) PROVE TypeOK'
  <2>1. /\ sunk' \subseteq Records /\ pending' \in Records \cup {NoRecord}
        /\ reply' \subseteq Own
    BY <1>2 DEF Sink, TypeOK
  <2>2. CASE seal < 0 /\ segs' = [segs EXCEPT ![segIdx].recs = @ \cup {r}]
             /\ buf' = Buffered(buf, {r}) /\ UNCHANGED <<segIdx, seal, link, overtaking>>
    <3>1. segs[segIdx] \in Segs /\ segIdx \in DOMAIN segs
      BY DEF TypeOK
    <3>2. [segs[segIdx] EXCEPT !.recs = segs[segIdx].recs \cup {r}] \in Segs
      BY <3>1
    <3>3. DOMAIN segs' = DOMAIN segs /\ \A i \in DOMAIN segs' : segs'[i] \in Segs
      BY <2>2, <3>1, <3>2 DEF TypeOK
    <3>4. buf' \subseteq Records
      BY <2>2 DEF Buffered, TypeOK
    <3> QED
      BY <1>2, <2>1, <2>2, <3>3, <3>4 DEF Sink, TypeOK
  <2>3. CASE seal >= 0 /\ Rotate({r}, Buffered(buf, {r}))
             /\ overtaking' = Buffered(overtaking, {r})
    <3>1. Buffered(buf, {r}) \in SUBSET Records /\ overtaking' \subseteq Records
      BY <2>3 DEF Buffered, TypeOK
    <3>2. link' \in Seq(Frames) /\ buf' \subseteq Records
      BY <2>3, <3>1, BroadcastType, FrameTypes DEF Rotate
    <3>3. /\ DOMAIN segs' \subseteq 0 .. MaxFlushes /\ \A i \in DOMAIN segs' : segs'[i] \in Segs
          /\ segIdx' \in DOMAIN segs' /\ seal' = -1
      BY <2>3, RotateType DEF Rotate
    <3> QED
      BY <1>2, <2>1, <3>1, <3>2, <3>3 DEF Sink, TypeOK, Frames
  <2> QED
    BY <1>2, <2>2, <2>3 DEF Sink
<1>3. CASE Tick
  <2>1. link' \in Seq(Frames) /\ buf' \subseteq Records
    BY <1>3, BroadcastType, FrameTypes DEF Tick, Rotate, TypeOK
  <2>2. /\ DOMAIN segs' \subseteq 0 .. MaxFlushes /\ \A i \in DOMAIN segs' : segs'[i] \in Segs
        /\ segIdx' \in DOMAIN segs' /\ seal' = -1
    BY <1>3, RotateType DEF Tick, Rotate
  <2> QED
    BY <1>3, <2>1, <2>2 DEF Tick, TypeOK, Frames
<1>4. CASE DeleteDurable
  <2>1. /\ DOMAIN segs' \subseteq DOMAIN segs /\ \A i \in DOMAIN segs' : segs'[i] = segs[i]
        /\ segIdx \in DOMAIN segs'
    BY <1>4 DEF DeleteDurable, SegmentsInv, TypeOK
  <2> QED
    BY <1>4, <2>1 DEF DeleteDurable, TypeOK
<1>5. CASE Insert
  BY <1>5 DEF Insert, TypeOK
<1>6. ASSUME NEW r \in Own, Respond(r) PROVE TypeOK'
  <2>1. Flushed \in Seq(Frames) /\ Response(r) \in Frames
    <3>1. Wal(buf) \in Frames /\ Response(r) \in Frames
      BY FrameTypes DEF TypeOK, Frames
    <3> QED
      BY <1>1, <3>1 DEF Flushed
  <2>2. link' \in Seq(Frames)
    <3>1. \/ link' = Append(Flushed, Response(r)) \/ link' = Append(link, Response(r))
      BY <1>6 DEF Respond
    <3>2. Append(Flushed, Response(r)) \in Seq(Frames)
      BY <2>1
    <3>3. Append(link, Response(r)) \in Seq(Frames)
      BY <1>1, <2>1
    <3> QED
      BY <3>1, <3>2, <3>3
  <2> QED
    BY <1>6, <2>2 DEF Respond, TypeOK, Frames
<1>7. CASE CaptureFlush
  <2>1. logicalEnd \in Nat
    BY FS_CardinalityType DEF logicalEnd, CaptureInv
  <2> QED
    BY <1>7, <2>1 DEF CaptureFlush, TypeOK
<1>8. CASE PrepareFlush
  <2> DEFINE n == Cardinality(DOMAIN contents)
  <2>1. /\ contents' = [i \in 0 .. n |-> IF i = n THEN contents[root] \cup draining ELSE contents[i]]
        /\ onDisk' = onDisk \cup {n}
    BY <1>8 DEF PrepareFlush
  <2>2. n = Newest + 1 /\ n \in Nat
    BY <1>1
  <2>3. /\ DOMAIN contents' = 0 .. n /\ Cardinality(0 .. n) = n + 1 /\ n = n + 1 - 1
        /\ DOMAIN contents \subseteq 0 .. n /\ n \in 0 .. n
        /\ \A i \in 0 .. n : i # n => i \in DOMAIN contents
    <3>1. Cardinality(0 .. n) = n + 1
      BY <2>2, FS_Interval
    <3>2. DOMAIN contents' = 0 .. n
      BY <2>1
    <3>3. DOMAIN contents = 0 .. n - 1
      BY <1>1, <2>2
    <3> QED
      BY <2>2, <3>1, <3>2, <3>3
  <2> HIDE DEF n
  <2>4. \A i \in 0 .. n : contents'[i] \subseteq Records
    BY <2>1, <2>3 DEF TypeOK
  <2>5. contents' \in [0 .. Cardinality(DOMAIN contents') - 1 -> SUBSET Records]
    BY <2>1, <2>3, <2>4
  <2> QED
    BY <1>8, <2>1, <2>3, <2>5 DEF PrepareFlush, TypeOK
<1>9. CASE PublishFlush
  <2>1. root' \in DOMAIN contents
    BY <1>1, <1>9 DEF PublishFlush
  <2> QED
    BY <1>9, <2>1 DEF PublishFlush, TypeOK
<1>10. CASE Announce
  <2>1. link' \in Seq(Frames) /\ buf' \subseteq Records
    BY <1>1, <1>10, BroadcastType, FrameTypes DEF Announce, TypeOK
  <2> QED
    BY <1>10, <2>1 DEF Announce, TypeOK, Frames
<1>11. CASE Collect
  BY <1>11 DEF Collect, TypeOK
<1>12. CASE Dial
  BY <1>12, ReplicationBounds DEF Dial, TypeOK
<1>13. CASE Subscribe
  <2>1. /\ DOMAIN segs' \subseteq 0 .. MaxFlushes /\ \A i \in DOMAIN segs' : segs'[i] \in Segs
        /\ segIdx' \in DOMAIN segs' /\ seal' \in Nat \cup {-1}
    BY <1>13, RotateType DEF Subscribe, TypeOK
  <2>2. Snapshot(DOMAIN segs' \ {segIdx'}, segs'[segIdx'].recs, root) \in Frames
    BY <1>1, <2>1, FrameTypes DEF Frames
  <2>3. link' \in Seq(Frames)
    BY <1>1, <1>13, <2>2 DEF Subscribe
  <2> QED
    BY <1>13, <2>1, <2>3 DEF Subscribe, TypeOK, Frames
<1>14. CASE ReadFrame
  <2>1. Head(link) \in Frames /\ link' \in Seq(Frames)
    BY <1>1, <1>14 DEF ReadFrame
  <2>2. evCh' \in Seq(Events) /\ acked' \subseteq Own
    <3>1. CASE "ev" \in DOMAIN Head(link)
      <4>1. evCh' = Append(evCh, Head(link)) /\ UNCHANGED acked /\ Head(link) \in Events
        BY <1>14, <2>1, <3>1, FrameIsEvent DEF ReadFrame
      <4> QED
        BY <1>1, <4>1 DEF TypeOK
    <3>2. CASE "ev" \notin DOMAIN Head(link)
      BY <1>14, <2>1, <3>2, FrameIsEvent DEF ReadFrame, TypeOK
    <3> QED
      BY <3>1, <3>2
  <2> QED
    BY <1>14, <2>1, <2>2 DEF ReadFrame, TypeOK, Frames
<1>15. CASE Disconnect
  BY <1>15 DEF Disconnect, TypeOK
<1>16. CASE RestartReplica
  <2>1. rroot' = Newest
    <3>1. Newest \in onDisk /\ \A m \in onDisk : m <= Newest /\ m \in Nat
      BY <1>1 DEF RootsInv, TypeOK
    <3>2. \A k \in onDisk : (\A m \in onDisk : m <= k) => k = Newest
      BY <3>1
    <3> QED
      BY <1>16, <3>1, <3>2 DEF RestartReplica
  <2>2. Newest \in DOMAIN contents /\ contents[Newest] \subseteq Records
    BY <1>1 DEF TypeOK
  <2> QED
    BY <1>16, <2>1, <2>2 DEF RestartReplica, TypeOK
<1>17. CASE ApplyEvent
  <2> DEFINE f == Head(evCh)
  <2>1. f \in Events /\ evCh' \in Seq(Events) /\ Applied(f)
    BY <1>1, <1>17 DEF ApplyEvent
  <2>2. RecsIn(f.sealed \cap DOMAIN segs) \subseteq Records
    BY DEF RecsIn, TypeOK
  <2>3. ASSUME NEW n, LoadRoot(n)
        PROVE  rroot' \in DOMAIN contents /\ rdraining' \subseteq Records
    BY <2>3 DEF LoadRoot, TypeOK
  <2>4. ASSUME rroot' \in DOMAIN contents PROVE contents[rroot'] \subseteq Records
    BY <2>4 DEF TypeOK
  <2> HIDE DEF f
  <2>5. /\ rlive' \subseteq Records /\ rdraining' \subseteq Records
        /\ received' \subseteq Records /\ rroot' \in DOMAIN contents
    <3>1. CASE f.ev = "wal" /\ f.recs \in SUBSET Records
      BY <2>1, <3>1 DEF Applied, TypeOK
    <3>2. CASE f.ev = "seal"
      BY <2>1, <3>2 DEF Applied, ApplySeal, TypeOK
    <3>3. CASE f.ev = "root"
      BY <2>1, <2>3, <2>4, <3>3 DEF Applied, TypeOK
    <3>4. CASE f.ev = "snapshot" /\ f.tail \in SUBSET Records
      BY <2>1, <2>2, <2>3, <2>4, <3>4 DEF Applied, TypeOK
    <3> QED
      BY <2>1, <3>1, <3>2, <3>3, <3>4, EventKinds
  <2> QED
    BY <1>17, <2>1, <2>5 DEF ApplyEvent, TypeOK
<1>18. CASE UNCHANGED vars
  BY <1>18 DEF vars, TypeOK
<1> QED
  BY <1>2, <1>3, <1>4, <1>5, <1>6, <1>7, <1>8, <1>9, <1>10, <1>11, <1>12, <1>13, <1>14,
     <1>15, <1>16, <1>17, <1>18 DEF Next

\* What the connection and the replica do leaves the transactor's store alone.
LEMMA StoreUntouched ==
  ASSUME [Next]_vars
  PROVE  \/ \E r \in Records : Sink(r)
         \/ Insert \/ Tick \/ DeleteDurable \/ CaptureFlush \/ PrepareFlush \/ PublishFlush
         \/ Announce \/ Collect \/ Subscribe
         \/ UNCHANGED <<logVars, pending, live, draining, flushVars>>
BY DEF Next, vars, memVars, Respond, Dial, ReadFrame, Disconnect, RestartReplica, ApplyEvent

\* Roots grow, and both the one in use and the newest stay on disk.
LEMMA RootsStep ==
  ASSUME TypeOK, RootsInv, CaptureInv, [Next]_vars
  PROVE  RootsInv'
<1> USE DEF logVars, memVars, flushVars, connVars, repVars, histVars
<1>1. /\ Newest \in Nat /\ MaxFlushes \in Nat
      /\ Cardinality(DOMAIN contents) = Newest + 1 /\ DOMAIN contents = 0 .. Newest
  BY NewestType DEF RootsInv
<1>2. ASSUME UNCHANGED contents PROVE Newest' = Newest
  BY <1>2 DEF Newest
<1>3. CASE UNCHANGED <<draining, flushVars>>
  BY <1>2, <1>3 DEF RootsInv
<1>4. CASE CaptureFlush
  BY <1>1, <1>2, <1>4 DEF CaptureFlush, RootsInv
<1>5. CASE PrepareFlush
  <2> DEFINE n == Newest + 1
  <2>1. /\ contents' = [i \in 0 .. n |-> IF i = n THEN contents[root] \cup draining ELSE contents[i]]
        /\ onDisk' = onDisk \cup {n} /\ flush = "captured" /\ flush' = "prepared"
        /\ UNCHANGED <<root, draining>>
    BY <1>1, <1>5 DEF PrepareFlush
  <2>2. Cardinality(0 .. n) = n + 1
    BY <1>1, FS_Interval
  <2>3. Newest' = n
    BY <1>1, <2>1, <2>2 DEF Newest
  <2>4. root = Newest /\ n \in 0 .. MaxFlushes
    BY <1>1, <2>1 DEF RootsInv
  <2>5. /\ contents'[n] = contents[Newest] \cup draining
        /\ \A i \in 0 .. Newest : contents'[i] = contents[i]
        /\ DOMAIN contents' = 0 .. n
    BY <1>1, <2>1, <2>4
  <2>6. \A i, j \in 0 .. n : i <= j => contents'[i] \subseteq contents'[j]
    <3> SUFFICES ASSUME NEW i \in 0 .. n, NEW j \in 0 .. n, i <= j
                 PROVE  contents'[i] \subseteq contents'[j]
      OBVIOUS
    <3>1. CASE j \in 0 .. Newest
      BY <1>1, <2>5, <3>1 DEF RootsInv
    <3>2. CASE j = n
      BY <1>1, <2>5, <3>2 DEF RootsInv
    <3> QED
      BY <1>1, <3>1, <3>2
  <2> QED
    BY <1>1, <2>1, <2>3, <2>4, <2>5, <2>6 DEF RootsInv
<1>6. CASE PublishFlush
  BY <1>1, <1>2, <1>6 DEF PublishFlush, RootsInv
<1>7. CASE Announce
  BY <1>2, <1>7 DEF Announce, RootsInv
<1>8. CASE Collect
  BY <1>2, <1>8 DEF Collect, RootsInv
<1>9. CASE (\E r \in Records : Sink(r)) \/ Insert \/ Tick \/ DeleteDurable \/ Subscribe
  BY <1>3, <1>9 DEF Sink, Insert, Tick, DeleteDurable, Subscribe
<1> QED
  BY <1>3, <1>4, <1>5, <1>6, <1>7, <1>8, <1>9, StoreUntouched

\* What a capture covers, and what is written while its seal is pending.
LEMMA CaptureStep ==
  ASSUME TypeOK, RootsInv, CaptureInv, [Next]_vars
  PROVE  CaptureInv'
<1> USE ReplicationRecords
<1> USE DEF logVars, memVars, flushVars, connVars, repVars, histVars, Flushing
<1>1. /\ Newest \in Nat /\ MaxFlushes \in Nat /\ root \in DOMAIN contents
      /\ Cardinality(DOMAIN contents) = Newest + 1 /\ DOMAIN contents = 0 .. Newest
      /\ segIdx \in Nat
  BY NewestType DEF RootsInv, TypeOK
<1>2. ASSUME UNCHANGED contents PROVE Newest' = Newest
  BY <1>2 DEF Newest
<1>3. CASE UNCHANGED <<logVars, pending, live, draining, flushVars>>
  BY <1>2, <1>3 DEF CaptureInv
<1>4. ASSUME NEW r \in Records, Sink(r) PROVE CaptureInv'
  <2>1. IsFiniteSet(sunk')
    BY <1>4, FS_AddElement DEF Sink, CaptureInv
  <2>2. /\ pending = NoRecord /\ pending' = r /\ sunk' = sunk \cup {r} /\ r # NoRecord
        /\ UNCHANGED <<durable, live, draining, flush, boundary, root, contents>>
    BY <1>4 DEF Sink
  <2>3. /\ seal' < 0
        /\ \/ seal < 0 /\ segIdx' = segIdx
           \/ seal >= 0 /\ segIdx' = segIdx + 1
    BY <1>4 DEF Sink, Rotate, RotateSegment
  <2>4. sunk' = live' \cup draining' \cup contents'[root']
                \cup (IF pending' = NoRecord THEN {} ELSE {pending'})
    BY <2>2 DEF CaptureInv
  <2>5. segIdx' + 0 <= Newest' + (IF flush' = "captured" THEN 1 ELSE 0)
    BY <1>1, <1>2, <2>2, <2>3 DEF CaptureInv, TypeOK
  <2>6. (IF seal' >= 0 THEN 1 ELSE 0) = 0 /\ ~(seal' >= 0)
    BY <1>4 DEF Sink, Rotate, RotateSegment, TypeOK
  <2> QED
    BY <2>1, <2>2, <2>4, <2>5, <2>6 DEF CaptureInv
<1>5. CASE Insert
  BY <1>2, <1>5 DEF Insert, CaptureInv
<1>6. CASE Tick \/ Subscribe
  <2>1. /\ UNCHANGED <<sunk, pending, durable, live, draining, flush, boundary, root, contents>>
        /\ \/ UNCHANGED <<seal, segIdx>>
           \/ seal >= 0 /\ seal' = -1 /\ segIdx' = segIdx + 1
    BY <1>6 DEF Tick, Subscribe, Rotate, RotateSegment
  <2> QED
    BY <1>1, <1>2, <2>1 DEF CaptureInv, TypeOK
<1>7. CASE DeleteDurable
  BY <1>2, <1>7 DEF DeleteDurable, CaptureInv
<1>8. CASE CaptureFlush
  <2>1. draining = {} /\ sunk = live \cup contents[root] /\ Cardinality(sunk) \in Nat
    BY <1>8, FS_CardinalityType DEF CaptureFlush, CaptureInv
  <2>2. /\ seal' = Cardinality(sunk) /\ boundary' = seal' /\ draining' = live /\ live' = {}
        /\ pending = NoRecord /\ flush = "idle" /\ flush' = "captured"
        /\ UNCHANGED <<sunk, segIdx, durable, pending, root, contents>>
    BY <1>8 DEF CaptureFlush, logicalEnd
  <2>3. boundary' = Cardinality(contents[root] \cup draining')
    BY <2>1, <2>2
  <2> QED
    BY <1>1, <1>2, <2>1, <2>2, <2>3 DEF CaptureInv, TypeOK
<1>9. CASE PrepareFlush
  <2> DEFINE n == Newest + 1
  <2>1. /\ contents' = [i \in 0 .. n |-> IF i = n THEN contents[root] \cup draining ELSE contents[i]]
        /\ flush = "captured" /\ flush' = "prepared"
        /\ UNCHANGED <<logVars, memVars, boundary, root>>
    BY <1>1, <1>9 DEF PrepareFlush
  <2>2. Cardinality(0 .. n) = n + 1
    BY <1>1, FS_Interval
  <2>3. Newest' = n
    BY <1>1, <2>1, <2>2 DEF Newest
  <2>4. contents'[root] = contents[root]
    BY <1>1, <2>1
  <2>5. segIdx' + (IF seal' >= 0 THEN 1 ELSE 0)
          <= Newest' + (IF flush' = "captured" THEN 1 ELSE 0)
    BY <1>1, <2>1, <2>3 DEF CaptureInv, TypeOK
  <2> QED
    BY <2>1, <2>4, <2>5 DEF CaptureInv
<1>10. CASE PublishFlush
  <2>1. /\ root' = Newest /\ draining' = {} /\ durable' = boundary /\ flush' = "published"
        /\ flush = "prepared"
        /\ UNCHANGED <<sunk, segIdx, seal, pending, live, boundary, contents>>
    BY <1>1, <1>10 DEF PublishFlush
  <2>2. contents[root'] = contents[root] \cup draining
    BY <2>1 DEF RootsInv
  <2> QED
    BY <1>1, <1>2, <2>1, <2>2 DEF CaptureInv, TypeOK
<1>11. CASE Announce
  BY <1>2, <1>11 DEF Announce, CaptureInv
<1>12. CASE Collect
  BY <1>2, <1>12 DEF Collect, CaptureInv
<1> QED
  BY <1>3, <1>4, <1>5, <1>6, <1>7, <1>8, <1>9, <1>10, <1>11, <1>12, StoreUntouched

\* The segment a rotation seals holds no record that its boundary does not
\* cover, and the new one takes the rest.
LEMMA RotateKeepsSegments ==
  ASSUME TypeOK, RootsInv, CaptureInv, SegmentsInv, seal >= 0,
         NEW rest \in SUBSET Records, RotateSegment(rest), sunk' = sunk \cup rest,
         UNCHANGED <<contents, root, draining, durable, flush, boundary>>
  PROVE  SegmentsInv'
<1> USE DEF Flushing
<1>1. /\ segIdx' = segIdx + 1 /\ seal' = -1 /\ segIdx \in Nat
      /\ DOMAIN segs' = DOMAIN segs \cup {segIdx + 1}
      /\ segs'[segIdx + 1] = [recs |-> rest, boundary |-> -1]
  <2>1. segIdx \in Nat
    BY DEF TypeOK
  <2> QED
    BY <2>1, RotateType
<1>2. /\ segIdx \in DOMAIN segs /\ \A i \in DOMAIN segs : i <= segIdx /\ i \in Nat
      /\ segIdx + 1 \notin DOMAIN segs
  BY <1>1 DEF SegmentsInv, TypeOK
<1>3. \A i \in DOMAIN segs : i # segIdx => segs'[i] = segs[i]
  BY <1>1, <1>2 DEF RotateSegment
<1>4. segs'[segIdx].recs = segs[segIdx].recs /\ segs'[segIdx].boundary = seal
  <2>1. segs'[segIdx] = [segs[segIdx] EXCEPT !.boundary = seal]
    BY <1>1, <1>2 DEF RotateSegment
  <2>2. segs[segIdx] \in [recs : SUBSET Records, boundary : Nat \cup {-1}]
    BY <1>2 DEF TypeOK
  <2> QED
    BY <2>1, <2>2
<1>5. segs[segIdx].recs \subseteq contents[root] \cup draining /\ seal = boundary
  BY DEF SegmentsInv, CaptureInv
<1>6. seal <= durable => segs[segIdx].recs \subseteq contents[root]
  <2> SUFFICES ASSUME seal <= durable PROVE draining \subseteq contents[root]
    BY <1>5
  <2>1. CASE ~Flushing
    BY <2>1 DEF CaptureInv
  <2>2. CASE Flushing
    <3> DEFINE all == contents[root] \cup draining
    <3>1. IsFiniteSet(all) /\ IsFiniteSet(contents[root])
      BY FS_Subset DEF CaptureInv
    <3>2. /\ Cardinality(contents[root]) \in Nat /\ Cardinality(all) \in Nat
          /\ Cardinality(contents[root]) <= Cardinality(all)
      BY <3>1, FS_Subset, FS_CardinalityType
    <3>3. Cardinality(all) <= Cardinality(contents[root])
      BY <1>5, <2>2, <3>2 DEF CaptureInv, TypeOK
    <3>4. contents[root] = all
      <4>1. Cardinality(contents[root]) = Cardinality(all)
        BY <3>2, <3>3
      <4> QED
        BY <3>1, <4>1, FS_Subset
    <3> QED
      BY <3>4
  <2> QED
    BY <2>1, <2>2
<1>7. seal > durable => Flushing
  BY <1>5 DEF CaptureInv, TypeOK
<1>8. \A i \in DOMAIN segs' : i <= segIdx' /\ (segs'[i].boundary < 0 <=> i = segIdx')
  <2> SUFFICES ASSUME NEW i \in DOMAIN segs'
               PROVE  i <= segIdx' /\ (segs'[i].boundary < 0 <=> i = segIdx')
    OBVIOUS
  <2>1. CASE i = segIdx + 1
    BY <1>1, <2>1
  <2>2. CASE i = segIdx
    BY <1>1, <1>4, <2>2 DEF TypeOK
  <2>3. CASE i \in DOMAIN segs /\ i # segIdx
    BY <1>1, <1>2, <1>3, <2>3 DEF SegmentsInv
  <2> QED
    BY <1>1, <2>1, <2>2, <2>3
<1>9. ASSUME NEW i \in DOMAIN segs', segs'[i].boundary >= 0
      PROVE  /\ segs'[i].boundary <= durable' => segs'[i].recs \subseteq contents'[root']
             /\ segs'[i].boundary > durable' =>
                  /\ segs'[i].recs \subseteq contents'[root'] \cup draining'
                  /\ Flushing' /\ segs'[i].boundary = boundary'
  <2>1. CASE i = segIdx + 1
    BY <1>1, <1>9, <2>1
  <2>2. CASE i = segIdx
    BY <1>4, <1>5, <1>6, <1>7, <2>2
  <2>3. CASE i \in DOMAIN segs /\ i # segIdx
    BY <1>3, <1>9, <2>3 DEF SegmentsInv
  <2> QED
    BY <1>1, <2>1, <2>2, <2>3
<1>10. sunk' \subseteq contents'[root'] \cup RecsIn(DOMAIN segs)'
  <2>1. RecsIn(DOMAIN segs)' = RecsIn(DOMAIN segs) \cup rest
    <3>1. \A i \in DOMAIN segs : segs'[i].recs = segs[i].recs
      BY <1>3, <1>4
    <3>2. segs'[segIdx + 1].recs = rest
      BY <1>1
    <3>3. \A r : r \in RecsIn(DOMAIN segs)' <=> \E i \in DOMAIN segs' : r \in segs'[i].recs
      BY DEF RecsIn
    <3>4. \A r : r \in RecsIn(DOMAIN segs) <=> \E i \in DOMAIN segs : r \in segs[i].recs
      BY DEF RecsIn
    <3> QED
      BY <1>1, <3>1, <3>2, <3>3, <3>4
  <2> QED
    BY <2>1 DEF SegmentsInv
<1>11. \A i \in DOMAIN segs' : segs'[i].recs \subseteq sunk'
  <2> SUFFICES ASSUME NEW i \in DOMAIN segs' PROVE segs'[i].recs \subseteq sunk'
    OBVIOUS
  <2>1. CASE i = segIdx + 1
    BY <1>1, <2>1
  <2>2. CASE i \in DOMAIN segs
    <3>1. segs'[i].recs = segs[i].recs
      BY <1>3, <1>4, <2>2
    <3> QED
      BY <2>2, <3>1 DEF SegmentsInv
  <2> QED
    BY <1>1, <2>1, <2>2
<1>12. ~(seal' >= 0)
  BY <1>1
<1> QED
  BY <1>8, <1>9, <1>10, <1>11, <1>12 DEF SegmentsInv

\* No step drops a record from the log that the root in use does not reach.
LEMMA SegmentsStep ==
  ASSUME TypeOK, RootsInv, CaptureInv, SegmentsInv, [Next]_vars
  PROVE  SegmentsInv'
<1> USE DEF logVars, memVars, flushVars, connVars, repVars, histVars, Flushing
<1>1. CASE UNCHANGED <<logVars, pending, live, draining, flushVars>>
  BY <1>1 DEF SegmentsInv, RecsIn
<1>2. ASSUME NEW r \in Records, Sink(r) PROVE SegmentsInv'
  <2>1. CASE seal < 0 /\ segs' = [segs EXCEPT ![segIdx].recs = @ \cup {r}]
             /\ UNCHANGED <<segIdx, seal>>
    <3>1. segIdx \in DOMAIN segs
          /\ segs[segIdx] \in [recs : SUBSET Records, boundary : Nat \cup {-1}]
      BY DEF TypeOK
    <3>2. /\ DOMAIN segs' = DOMAIN segs
          /\ \A i \in DOMAIN segs : i # segIdx => segs'[i] = segs[i]
          /\ segs'[segIdx].boundary = segs[segIdx].boundary
          /\ segs'[segIdx].recs = segs[segIdx].recs \cup {r}
      BY <2>1, <3>1
    <3>3. /\ sunk' = sunk \cup {r}
          /\ UNCHANGED <<contents, root, draining, durable, flush, boundary>>
      BY <1>2 DEF Sink
    <3>4. segs[segIdx].boundary < 0
      BY <3>1 DEF SegmentsInv
    <3>5. sunk' \subseteq contents'[root'] \cup RecsIn(DOMAIN segs)'
      <4>1. /\ \A x : x \in RecsIn(DOMAIN segs)' <=> \E i \in DOMAIN segs' : x \in segs'[i].recs
            /\ \A x : x \in RecsIn(DOMAIN segs) <=> \E i \in DOMAIN segs : x \in segs[i].recs
        BY DEF RecsIn
      <4> QED
        BY <3>1, <3>2, <3>3, <4>1 DEF SegmentsInv
    <3>6. \A i \in DOMAIN segs' : segs'[i].boundary >= 0 => i # segIdx
      BY <3>1, <3>2, <3>4
    <3>7. \A i \in DOMAIN segs' : segs'[i].recs \subseteq sunk'
      BY <3>1, <3>2, <3>3 DEF SegmentsInv
    <3> QED
      BY <2>1, <3>2, <3>3, <3>4, <3>5, <3>6, <3>7 DEF SegmentsInv, TypeOK
  <2>2. CASE seal >= 0 /\ RotateSegment({r})
    BY <1>2, <2>2, RotateKeepsSegments DEF Sink
  <2> QED
    BY <1>2, <2>1, <2>2 DEF Sink, Rotate
<1>3. CASE Tick
  BY <1>3, RotateKeepsSegments DEF Tick, Rotate
<1>4. CASE Subscribe
  <2>1. CASE UNCHANGED <<segs, segIdx, seal>>
    BY <1>4, <2>1 DEF Subscribe, SegmentsInv, RecsIn
  <2>2. CASE seal >= 0 /\ RotateSegment({})
    BY <1>4, <2>2, RotateKeepsSegments DEF Subscribe
  <2> QED
    BY <1>4, <2>1, <2>2 DEF Subscribe
<1>5. CASE Insert \/ Collect
  BY <1>5 DEF Insert, Collect, SegmentsInv, RecsIn
<1>6. CASE DeleteDurable
  <2>1. /\ DOMAIN segs' \subseteq DOMAIN segs
        /\ \A i \in DOMAIN segs' : segs'[i] = segs[i]
        /\ \A i \in DOMAIN segs \ DOMAIN segs' : segs[i].boundary \in 0 .. durable
        /\ UNCHANGED <<sunk, segIdx, seal, durable, contents, root, draining, flush, boundary>>
    BY <1>6 DEF DeleteDurable
  <2>2. segIdx \in DOMAIN segs'
    BY <2>1 DEF SegmentsInv, TypeOK
  <2>3. sunk' \subseteq contents'[root'] \cup RecsIn(DOMAIN segs)'
    <3>1. /\ \A x : x \in RecsIn(DOMAIN segs)' <=> \E i \in DOMAIN segs' : x \in segs'[i].recs
          /\ \A x : x \in RecsIn(DOMAIN segs) <=> \E i \in DOMAIN segs : x \in segs[i].recs
      BY DEF RecsIn
    <3>2. \A i \in DOMAIN segs \ DOMAIN segs' : segs[i].recs \subseteq contents[root]
      BY <2>1 DEF SegmentsInv, TypeOK
    <3> QED
      BY <2>1, <3>1, <3>2 DEF SegmentsInv
  <2> QED
    BY <2>1, <2>2, <2>3 DEF SegmentsInv
<1>7. CASE CaptureFlush
  <2>1. /\ draining = {} /\ durable = boundary /\ sunk = live \cup contents[root]
        /\ draining' = live
    BY <1>7 DEF CaptureFlush, CaptureInv
  <2>2. UNCHANGED <<sunk, segs, segIdx, durable, root, contents>> /\ flush = "idle"
    BY <1>7 DEF CaptureFlush
  <2>3. \A i \in DOMAIN segs : segs[i].boundary >= 0 => ~(segs[i].boundary > durable)
    BY <2>2 DEF SegmentsInv
  <2>4. segs[segIdx].recs \subseteq sunk
    BY DEF SegmentsInv, TypeOK
  <2>5. RecsIn(DOMAIN segs)' = RecsIn(DOMAIN segs)
    BY <2>2 DEF RecsIn
  <2> QED
    BY <2>1, <2>2, <2>3, <2>4, <2>5 DEF SegmentsInv
<1>8. CASE PrepareFlush
  <2>1. contents'[root] = contents[root] /\ flush = "captured" /\ flush' = "prepared"
    <3>1. root \in 0 .. Newest /\ Cardinality(DOMAIN contents) = Newest + 1 /\ Newest \in Nat
      BY NewestType DEF RootsInv, TypeOK
    <3> QED
      BY <1>8, <3>1 DEF PrepareFlush
  <2>2. UNCHANGED <<sunk, segs, segIdx, seal, durable, draining, boundary, root>>
    BY <1>8 DEF PrepareFlush
  <2>3. RecsIn(DOMAIN segs)' = RecsIn(DOMAIN segs)
    BY <2>2 DEF RecsIn
  <2> QED
    BY <2>1, <2>2, <2>3 DEF SegmentsInv
<1>9. CASE PublishFlush
  <2>1. /\ contents[root'] = contents[root] \cup draining /\ draining' = {}
        /\ durable' = boundary
    <3>1. root' = Newest /\ draining' = {} /\ flush = "prepared" /\ durable' = boundary
      BY <1>9 DEF PublishFlush, Newest
    <3> QED
      BY <3>1 DEF RootsInv
  <2>2. UNCHANGED <<sunk, segs, segIdx, seal, boundary, contents>>
    BY <1>9 DEF PublishFlush
  <2>3. RecsIn(DOMAIN segs)' = RecsIn(DOMAIN segs)
    BY <2>2 DEF RecsIn
  <2>4. durable <= boundary
    <3>1. Flushing
      BY <1>9 DEF PublishFlush
    <3>2. IsFiniteSet(contents[root]) /\ IsFiniteSet(contents[root] \cup draining)
      BY FS_Subset DEF CaptureInv
    <3>3. /\ Cardinality(contents[root]) <= Cardinality(contents[root] \cup draining)
          /\ Cardinality(contents[root]) \in Nat
          /\ Cardinality(contents[root] \cup draining) \in Nat
      BY <3>2, FS_Subset, FS_CardinalityType
    <3> QED
      BY <3>1, <3>3 DEF CaptureInv
  <2>5. ASSUME NEW i \in DOMAIN segs, segs[i].boundary >= 0
        PROVE  segs[i].boundary <= durable' /\ segs[i].recs \subseteq contents[root']
    <3>1. segs[i].boundary \in Int /\ durable \in Int /\ boundary \in Int
      BY DEF TypeOK
    <3> QED
      BY <2>1, <2>4, <2>5, <3>1 DEF SegmentsInv
  <2>6. ASSUME NEW i \in DOMAIN segs, segs[i].boundary >= 0
        PROVE  ~(segs[i].boundary > durable')
    <3>1. segs[i].boundary \in Int /\ durable' \in Int
      BY <2>1 DEF TypeOK
    <3> QED
      BY <2>5, <2>6, <3>1
  <2> QED
    BY <2>1, <2>2, <2>3, <2>5, <2>6 DEF SegmentsInv
<1>10. CASE Announce
  <2>1. /\ UNCHANGED <<sunk, segs, segIdx, seal, durable, draining, boundary, root, contents>>
        /\ flush = "published" /\ ~Flushing /\ ~Flushing'
    BY <1>10 DEF Announce
  <2>2. RecsIn(DOMAIN segs)' = RecsIn(DOMAIN segs)
    BY <2>1 DEF RecsIn
  <2> QED
    BY <2>1, <2>2 DEF SegmentsInv
<1> QED
  BY <1>1, <1>2, <1>3, <1>4, <1>5, <1>6, <1>7, <1>8, <1>9, <1>10, StoreUntouched
-----------------------------------------------------------------------------
(* Steps of the stream.                                                    *)

\* broadcast sends the buffered WAL bytes and then its marker, to a subscriber only.
LEMMA BroadcastSends ==
  ASSUME TypeOK, NEW b \in SUBSET Records, NEW e \in Events, Broadcast(b, e), UNCHANGED evCh
  PROVE  /\ ~Subscribed => buf' = buf /\ Sent' = Sent
         /\ Subscribed => /\ buf' = {} /\ Sent' = Append(Pushed(Sent, b), e)
                          /\ Pushed(Sent, b) \in Seq(Frames) /\ e \in Frames
<1>1. e \in Frames
  BY DEF Frames
<1>2. CASE Subscribed
  BY <1>1, <1>2, SendAppends DEF Broadcast
<1>3. CASE ~Subscribed
  BY <1>3 DEF Broadcast, Sent
<1> QED
  BY <1>2, <1>3

\* enqueueResponse puts the buffered WAL bytes before the response of a subscriber.
LEMMA ResponseSends ==
  ASSUME TypeOK, NEW r \in Own, Respond(r)
  PROVE  /\ Response(r) \in Frames
         /\ conn = "dialed" => buf' = buf /\ Sent' = Append(Sent, Response(r))
         /\ Subscribed => /\ buf' = {} /\ Sent' = Append(Pushed(Sent, buf), Response(r))
                          /\ Pushed(Sent, buf) \in Seq(Frames)
         /\ conn = "dialed" \/ Subscribed
<1>1. Response(r) \in Frames
  BY FrameTypes DEF Frames
<1>2. UNCHANGED evCh /\ buf \in SUBSET Records
  BY DEF Respond, TypeOK
<1>3. CASE conn = "subscribed" /\ link' = Append(Flushed, Response(r)) /\ buf' = {}
  <2>1. Sent' = Append(Pushed(Sent, buf), Response(r)) /\ Pushed(Sent, buf) \in Seq(Frames)
    BY <1>1, <1>2, <1>3, SendAppends DEF Flushed
  <2> QED
    BY <1>1, <1>3, <2>1 DEF Subscribed
<1>4. CASE conn = "dialed" /\ link' = Append(link, Response(r)) /\ UNCHANGED buf
  <2>1. Sent' = Append(Sent, Response(r))
    <3>1. Sent' = Append(Pushed(Sent, {}), Response(r))
      BY <1>1, <1>2, <1>4, SendAppends
    <3> QED
      BY <3>1 DEF Pushed
  <2> QED
    BY <1>1, <1>4, <2>1 DEF Subscribed
<1> QED
  BY <1>3, <1>4 DEF Respond

\* A prepared root is a new one: no root changes what it reaches.
LEMMA ContentsKept ==
  ASSUME TypeOK, RootsInv, [Next]_vars
  PROVE  /\ DOMAIN contents \subseteq DOMAIN contents'
         /\ \A n \in DOMAIN contents : contents'[n] = contents[n]
<1> USE DEF logVars, memVars, flushVars, connVars, repVars, histVars
<1>1. CASE PrepareFlush
  <2>1. DOMAIN contents = 0 .. Newest /\ Cardinality(DOMAIN contents) = Newest + 1 /\ Newest \in Nat
    BY NewestType DEF RootsInv
  <2>2. contents' = [i \in 0 .. Newest + 1 |->
                       IF i = Newest + 1 THEN contents[root] \cup draining ELSE contents[i]]
    BY <1>1, <2>1 DEF PrepareFlush
  <2> QED
    BY <2>1, <2>2
<1>2. CASE UNCHANGED contents
  BY <1>2
<1>3. CASE (\E r \in Records : Sink(r)) \/ Insert \/ Tick \/ DeleteDurable \/ CaptureFlush
           \/ PublishFlush \/ Announce \/ Collect \/ Subscribe
  BY <1>2, <1>3 DEF Sink, Insert, Tick, DeleteDurable, CaptureFlush, PublishFlush, Announce,
     Collect, Subscribe
<1> QED
  BY <1>1, <1>2, <1>3, StoreUntouched

\* A segment that is deleted held only what the root in use reaches, so what a
\* frame brings is not lost.
LEMMA BringsKept ==
  ASSUME TypeOK, RootsInv, CaptureInv, SegmentsInv, [Next]_vars, NEW f
  PROVE  Brings(segs, f) \subseteq Brings(segs', f) \cup contents[root]
<1> USE DEF logVars, memVars, flushVars, connVars, repVars, histVars
<1>1. ASSUME \A i \in DOMAIN segs : \/ i \in DOMAIN segs' /\ segs[i].recs \subseteq segs'[i].recs
                                    \/ segs[i].recs \subseteq contents[root]
      PROVE  Brings(segs, f) \subseteq Brings(segs', f) \cup contents[root]
  BY <1>1 DEF Brings
<1>2. CASE UNCHANGED segs
  BY <1>1, <1>2
<1>3. ASSUME NEW rest, RotateSegment(rest)
      PROVE  \A i \in DOMAIN segs : i \in DOMAIN segs' /\ segs[i].recs \subseteq segs'[i].recs
  <2> SUFFICES ASSUME NEW i \in DOMAIN segs
               PROVE  i \in DOMAIN segs' /\ segs[i].recs \subseteq segs'[i].recs
    OBVIOUS
  <2>1. i <= segIdx /\ i # segIdx + 1 /\ segs[i] \in [recs : SUBSET Records, boundary : Nat \cup {-1}]
    BY DEF SegmentsInv, TypeOK
  <2>2. i \in DOMAIN segs'
        /\ segs'[i] = IF i = segIdx THEN [segs[i] EXCEPT !.boundary = seal] ELSE segs[i]
    BY <1>3, <2>1 DEF RotateSegment
  <2> QED
    BY <2>1, <2>2
<1>4. ASSUME NEW r \in Records, Sink(r) PROVE Brings(segs, f) \subseteq Brings(segs', f) \cup contents[root]
  <2>1. CASE segs' = [segs EXCEPT ![segIdx].recs = @ \cup {r}]
    <3>1. segIdx \in DOMAIN segs
          /\ segs[segIdx] \in [recs : SUBSET Records, boundary : Nat \cup {-1}]
      BY DEF TypeOK
    <3>2. \A i \in DOMAIN segs : i \in DOMAIN segs' /\ segs[i].recs \subseteq segs'[i].recs
      BY <2>1, <3>1
    <3> QED
      BY <1>1, <3>2
  <2>2. CASE RotateSegment({r})
    BY <1>1, <1>3, <2>2
  <2> QED
    BY <1>4, <2>1, <2>2 DEF Sink, Rotate
<1>5. CASE Tick \/ Subscribe
  BY <1>1, <1>2, <1>3, <1>5 DEF Tick, Subscribe, Rotate
<1>6. CASE DeleteDurable
  <2>1. \A i \in DOMAIN segs : i \in DOMAIN segs' => segs'[i] = segs[i]
    BY <1>6 DEF DeleteDurable
  <2>2. \A i \in DOMAIN segs : i \notin DOMAIN segs' => segs[i].boundary \in 0 .. durable
    BY <1>6 DEF DeleteDurable
  <2>3. \A i \in DOMAIN segs : segs[i].boundary \in 0 .. durable => segs[i].recs \subseteq contents[root]
    BY DEF SegmentsInv, TypeOK
  <2> QED
    BY <1>1, <2>1, <2>2, <2>3
<1>7. CASE Insert \/ CaptureFlush \/ PrepareFlush \/ PublishFlush \/ Announce \/ Collect
  BY <1>2, <1>7 DEF Insert, CaptureFlush, PrepareFlush, PublishFlush, Announce, Collect
<1> QED
  BY <1>2, <1>4, <1>5, <1>6, <1>7, StoreUntouched

\* What the replica does with an event.
LEMMA Applies ==
  ASSUME TypeOK, DownInv, ApplyEvent, NEW f, f = Head(evCh)
  PROVE  /\ received' = received \cup Brings(segs, f) \cup contents[rroot']
         /\ IsSeal(f) => rlive' = {} /\ rdraining' = rlive /\ rroot' = rroot
         /\ ~IsSeal(f) => rlive' = rlive \cup Brings(segs, f)
         /\ ~IsSeal(f) /\ ~IsNamed(f) => rroot' = rroot /\ rdraining' = rdraining
         /\ IsNamed(f) => \/ f.name \in onDisk /\ rroot' = f.name /\ rdraining' = {}
                          \/ f.name \notin onDisk /\ rroot' = rroot /\ rdraining' = rdraining
<1>1. f \in Events /\ Applied(f) /\ contents[rroot] \subseteq received
  BY ApplyTakes DEF ApplyEvent, DownInv
<1>2. CASE f.ev = "wal" /\ IsWal(f) /\ ~IsNamed(f) /\ ~IsSeal(f)
  BY <1>1, <1>2 DEF Applied, Brings
<1>3. CASE f.ev = "seal" /\ IsSeal(f) /\ ~IsWal(f) /\ ~IsSnapshot(f) /\ ~IsNamed(f)
  BY <1>1, <1>3 DEF Applied, ApplySeal, Brings
<1>4. CASE f.ev = "root" /\ IsNamed(f) /\ ~IsWal(f) /\ ~IsSnapshot(f) /\ ~IsSeal(f)
  <2>1. Brings(segs, f) = {}
    BY <1>4 DEF Brings
  <2> QED
    BY <1>1, <1>4, <2>1 DEF Applied, LoadRoot
<1>5. CASE f.ev = "snapshot" /\ IsSnapshot(f) /\ IsNamed(f) /\ ~IsWal(f) /\ ~IsSeal(f)
  <2>1. Brings(segs, f) = f.tail \cup RecsIn(f.sealed \cap DOMAIN segs)
    BY <1>5 DEF Brings, RecsIn
  <2> QED
    BY <1>1, <1>5, <2>1 DEF Applied, LoadRoot
<1> QED
  BY <1>1, <1>2, <1>3, <1>4, <1>5, EventKinds

\* What queued frames a connection that is not registered can hold, and that
\* the replica never forgets what a root it has loaded reaches.
LEMMA DownStep ==
  ASSUME TypeOK, RootsInv, CaptureInv, SegmentsInv, DownInv, [Next]_vars, TypeOK'
  PROVE  DownInv'
<1> USE DEF logVars, memVars, flushVars, connVars, repVars, histVars, Subscribed
<1> DEFINE Responses == \A i \in DOMAIN Sent : IsResponse(Sent[i])
<1>1. rroot \in DOMAIN contents /\ contents[rroot] \subseteq received /\ contents'[rroot] = contents[rroot]
  BY ContentsKept DEF DownInv, TypeOK
<1>2. ASSUME UNCHANGED <<link, evCh>> PROVE Sent' = Sent
  BY <1>2 DEF Sent
<1>3. ASSUME UNCHANGED <<connVars, reply, repVars>>, sunk \subseteq sunk' PROVE DownInv'
  BY <1>1, <1>2, <1>3 DEF DownInv
<1>4. ASSUME NEW r \in Records, Sink(r) PROVE DownInv'
  <2>1. /\ UNCHANGED <<conn, evCh, acked, repVars>> /\ sunk' = sunk \cup {r}
        /\ reply' = (IF r \in Own THEN reply \cup {r} ELSE reply)
        /\ r \in Own => conn # "down"
    BY <1>4 DEF Sink
  <2>2. ~Subscribed => UNCHANGED <<buf, link>>
    BY <1>4 DEF Sink, Buffered, Rotate, Broadcast
  <2> QED
    BY <1>1, <1>2, <2>1, <2>2 DEF DownInv
<1>5. CASE Tick \/ Announce
  <2>1. /\ UNCHANGED <<conn, evCh, acked, reply, repVars, sunk>>
        /\ ~Subscribed => UNCHANGED <<buf, link>>
    BY <1>5 DEF Tick, Announce, Rotate, Broadcast
  <2> QED
    BY <1>1, <1>2, <2>1 DEF DownInv
<1>6. CASE Insert \/ DeleteDurable \/ CaptureFlush \/ PrepareFlush \/ PublishFlush \/ Collect
           \/ UNCHANGED vars
  BY <1>3, <1>6 DEF Insert, DeleteDurable, CaptureFlush, PrepareFlush, PublishFlush, Collect, vars
<1>7. ASSUME NEW r \in Own, Respond(r) PROVE DownInv'
  <2>1. /\ UNCHANGED <<conn, acked, repVars, sunk>> /\ reply' = reply \ {r} /\ conn # "down"
    BY <1>7 DEF Respond
  <2>2. ~Subscribed => buf' = buf /\ \A i \in DOMAIN Sent' : IsResponse(Sent'[i])
    <3> SUFFICES ASSUME ~Subscribed
                 PROVE  buf' = buf /\ \A i \in DOMAIN Sent' : IsResponse(Sent'[i])
      OBVIOUS
    <3>1. Sent \in Seq(Frames) /\ buf' = buf /\ Sent' = Append(Sent, Response(r))
      BY <1>7, ResponseSends, SentType
    <3>2. IsResponse(Response(r)) /\ \A i \in DOMAIN Sent : IsResponse(Sent[i])
      BY FrameKinds DEF DownInv
    <3> QED
      BY <3>1, <3>2
  <2> QED
    BY <1>1, <2>1, <2>2 DEF DownInv
<1>8. CASE Dial
  <2>1. UNCHANGED <<link, evCh, buf, acked, reply, repVars, sunk>> /\ conn = "down" /\ conn' = "dialed"
    BY <1>8 DEF Dial
  <2> QED
    BY <1>1, <1>2, <2>1 DEF DownInv
<1>9. CASE Subscribe
  BY <1>1, <1>9 DEF Subscribe, DownInv
<1>10. CASE ReadFrame
  <2>1. UNCHANGED <<conn, buf, reply, repVars, sunk>> /\ conn # "down"
    BY <1>10 DEF ReadFrame, DownInv
  <2>2. ~Subscribed => \A i \in DOMAIN Sent' : IsResponse(Sent'[i])
    <3>1. CASE Sent' = Sent
      BY <3>1 DEF DownInv
    <3>2. CASE Dropped(Sent, Sent', Len(evCh) + 1)
      <4>1. \A i \in DOMAIN Sent' : \E j \in DOMAIN Sent : Sent'[i] = Sent[j]
        <5> SUFFICES ASSUME NEW i \in DOMAIN Sent' PROVE \E j \in DOMAIN Sent : Sent'[i] = Sent[j]
          OBVIOUS
        <5>1. i \in DOMAIN Sent /\ i + 1 \in DOMAIN Sent
          BY <3>2 DEF Dropped
        <5> QED
          BY <3>2, <5>1 DEF Dropped
      <4> QED
        BY <4>1 DEF DownInv
    <3> QED
      BY <1>10, <3>1, <3>2, ReadMoves
  <2> QED
    BY <1>1, <2>1, <2>2 DEF DownInv
<1>11. CASE Disconnect
  <2>1. conn' = "down" /\ buf' = {} /\ link' = <<>> /\ evCh' = <<>> /\ acked' = {} /\ reply' = {}
        /\ UNCHANGED <<sunk, repVars>>
    BY <1>11 DEF Disconnect
  <2>2. Sent' = <<>>
    BY <2>1 DEF Sent
  <2> QED
    BY <1>1, <2>1, <2>2 DEF DownInv
<1>12. CASE RestartReplica
  <2>1. received' = contents'[rroot'] /\ UNCHANGED <<connVars, reply, sunk>>
    BY <1>12 DEF RestartReplica
  <2> QED
    BY <1>2, <2>1 DEF DownInv
<1>13. CASE ApplyEvent
  <2>1. UNCHANGED <<conn, buf, acked, reply, sunk, contents>> /\ conn # "down"
    BY <1>13 DEF ApplyEvent, DownInv
  <2>2. Subscribed
    <3>1. 1 \in DOMAIN Sent /\ Sent[1] \in Events
      BY <1>13, ApplyTakes DEF Dropped
    <3>2. ~IsResponse(Sent[1])
      BY <3>1, EventKinds
    <3> QED
      BY <3>1, <3>2 DEF DownInv
  <2>3. contents[rroot'] \subseteq received'
    BY <1>13, Applies
  <2> QED
    BY <2>1, <2>2, <2>3 DEF DownInv
<1> QED
  BY <1>4, <1>5, <1>6, <1>7, <1>8, <1>9, <1>10, <1>11, <1>12, <1>13 DEF Next

\* Frames that name no root do not disturb the order of the names.
LEMMA NamesAppend ==
  ASSUME NEW q \in Seq(Frames), NEW f \in Frames, NEW n \in Int, ~IsNamed(f)
  PROVE  /\ NamesUpTo(q, n) => NamesUpTo(Append(q, f), n)
         /\ Names(q, n) => Names(Append(q, f), n)
         /\ NamesNone(q) => NamesNone(Append(q, f))
<1>1. /\ \A i \in DOMAIN q : i \in DOMAIN Append(q, f) /\ Append(q, f)[i] = q[i] /\ i # Len(q) + 1
      /\ \A i \in DOMAIN Append(q, f) : i \in DOMAIN q \/ i = Len(q) + 1
      /\ Append(q, f)[Len(q) + 1] = f
  OBVIOUS
<1>2. NamesUpTo(q, n) => NamesUpTo(Append(q, f), n)
  BY <1>1 DEF NamesUpTo
<1> QED
  BY <1>1, <1>2 DEF Names, NamesNone

\* WAL frames name no root.
LEMMA NamesPush ==
  ASSUME NEW q \in Seq(Frames), NEW b \in SUBSET Records, NEW n \in Int
  PROVE  /\ Pushed(q, b) \in Seq(Frames)
         /\ NamesUpTo(q, n) => NamesUpTo(Pushed(q, b), n)
         /\ Names(q, n) => Names(Pushed(q, b), n)
         /\ NamesNone(q) => NamesNone(Pushed(q, b))
<1>1. CASE b = {}
  BY <1>1 DEF Pushed
<1>2. CASE b # {}
  <2>1. Wal(b) \in Frames /\ ~IsNamed(Wal(b))
    BY FrameTypes, FrameKinds DEF Frames
  <2> QED
    BY <1>2, <2>1, NamesAppend DEF Pushed
<1> QED
  BY <1>1, <1>2

\* A root that is announced is named last.
LEMMA NamesLast ==
  ASSUME NEW q \in Seq(Frames), NEW f \in Frames, NEW n \in Int, NEW m \in Int,
         NamesUpTo(q, m), m <= n, IsNamed(f), f.name = n,
         \A i \in DOMAIN q : IsNamed(q[i]) => q[i].name \in Int
  PROVE  NamesUpTo(Append(q, f), n) /\ Names(Append(q, f), n)
<1>1. /\ \A i \in DOMAIN q : i \in DOMAIN Append(q, f) /\ Append(q, f)[i] = q[i]
      /\ \A i \in DOMAIN Append(q, f) : i \in DOMAIN q \/ i = Len(q) + 1
      /\ Append(q, f)[Len(q) + 1] = f /\ Len(q) + 1 \in DOMAIN Append(q, f)
      /\ \A i \in DOMAIN q : ~(Len(q) + 1 < i)
  OBVIOUS
<1>2. \A i \in DOMAIN q : IsNamed(q[i]) => q[i].name <= n
  BY DEF NamesUpTo
<1>3. \A i \in DOMAIN Append(q, f) : IsNamed(Append(q, f)[i]) => Append(q, f)[i].name <= n
  BY <1>1, <1>2
<1>4. ASSUME NEW i \in DOMAIN Append(q, f), NEW j \in DOMAIN Append(q, f), i < j,
             IsNamed(Append(q, f)[i]), IsNamed(Append(q, f)[j])
      PROVE  Append(q, f)[i].name <= Append(q, f)[j].name
  <2>1. CASE j = Len(q) + 1
    BY <1>1, <1>3, <1>4, <2>1
  <2>2. CASE j \in DOMAIN q
    BY <1>1, <1>4, <2>2 DEF NamesUpTo
  <2> QED
    BY <1>1, <2>1, <2>2
<1> QED
  BY <1>1, <1>3, <1>4 DEF NamesUpTo, Names

\* The oldest root named goes first, and a newer one remains unless it was the
\* last.
LEMMA NamesDrop ==
  ASSUME NEW q, NEW d, NEW k \in Int, NEW n \in Int, Dropped(q, d, k), NamesUpTo(q, n)
  PROVE  /\ NamesUpTo(d, n)
         /\ NamesNone(q) => NamesNone(d)
         /\ ~IsNamed(q[k]) /\ Names(q, n) => Names(d, n)
<1>1. /\ \A i \in DOMAIN d : i \in Int
      /\ \A i \in DOMAIN d : i < k => i \in DOMAIN q /\ d[i] = q[i]
      /\ \A i \in DOMAIN d : ~(i < k) => i + 1 \in DOMAIN q /\ d[i] = q[i + 1]
      /\ \A i \in DOMAIN q : i < k => i \in DOMAIN d /\ d[i] = q[i]
      /\ \A i \in DOMAIN q : i > k => i - 1 \in DOMAIN d /\ d[i - 1] = q[i]
      /\ \A i \in DOMAIN q : i \in Int
  BY DEF Dropped
<1>2. \A i \in DOMAIN d : IsNamed(d[i]) => d[i].name <= n
  BY <1>1 DEF NamesUpTo
<1>3. ASSUME NEW i \in DOMAIN d, NEW j \in DOMAIN d, i < j, IsNamed(d[i]), IsNamed(d[j])
      PROVE  d[i].name <= d[j].name
  <2>1. CASE i < k /\ j < k
    BY <1>1, <1>3, <2>1 DEF NamesUpTo
  <2>2. CASE i < k /\ ~(j < k)
    <3>1. i \in DOMAIN q /\ j + 1 \in DOMAIN q /\ d[i] = q[i] /\ d[j] = q[j + 1] /\ i < j + 1
      BY <1>1, <1>3, <2>2
    <3> QED
      BY <1>3, <3>1 DEF NamesUpTo
  <2>3. CASE ~(i < k) /\ ~(j < k)
    <3>1. i + 1 \in DOMAIN q /\ j + 1 \in DOMAIN q /\ d[i] = q[i + 1] /\ d[j] = q[j + 1]
          /\ i + 1 < j + 1
      BY <1>1, <1>3, <2>3
    <3> QED
      BY <1>3, <3>1 DEF NamesUpTo
  <2> QED
    BY <1>1, <1>3, <2>1, <2>2, <2>3
<1>4. ASSUME NamesNone(q) PROVE NamesNone(d)
  BY <1>1, <1>4 DEF NamesNone
<1>5. ASSUME ~IsNamed(q[k]), Names(q, n) PROVE Names(d, n)
  <2>1. PICK i \in DOMAIN q : IsNamed(q[i]) /\ q[i].name = n
    BY <1>5 DEF Names
  <2>2. i < k \/ i > k
    BY <1>1, <1>5, <2>1
  <2> QED
    BY <1>1, <2>1, <2>2 DEF Names
<1> QED
  BY <1>2, <1>3, <1>4, <1>5 DEF NamesUpTo

\* A name under way is a number.
LEMMA NamesAreRoots ==
  ASSUME TypeOK, NEW i \in DOMAIN Sent, IsNamed(Sent[i])
  PROVE  Sent[i].name \in Int
<1>1. Sent[i] \in Frames
  BY SentType
<1> QED
  BY <1>1, FrameIsEvent, EventKinds

\* The snapshot goes behind the responses of an unregistered connection.
LEMMA SubscribeSends ==
  ASSUME TypeOK, RootsInv, DownInv, Subscribe, TypeOK'
  PROVE  /\ Snapshot(DOMAIN segs' \ {segIdx'}, segs'[segIdx'].recs, root) \in Frames
         /\ Sent' = Append(Sent, Snapshot(DOMAIN segs' \ {segIdx'}, segs'[segIdx'].recs, root))
         /\ Sent \in Seq(Frames)
         /\ \A i \in DOMAIN Sent : IsResponse(Sent[i])
<1> DEFINE f == Snapshot(DOMAIN segs' \ {segIdx'}, segs'[segIdx'].recs, root)
<1>1. f \in Frames
  <2>1. DOMAIN segs' \ {segIdx'} \subseteq 0 .. MaxFlushes /\ segs'[segIdx'].recs \subseteq Records
    BY DEF TypeOK
  <2>2. root \in 0 .. MaxFlushes
    BY NewestType
  <2> QED
    BY <2>1, <2>2, FrameTypes DEF Frames
<1>2. link' = Append(link, f) /\ UNCHANGED evCh /\ ~Subscribed
  BY DEF Subscribe, connVars, Subscribed
<1> HIDE DEF f
<1>3. Sent' = Append(Pushed(Sent, {}), f)
  BY <1>1, <1>2, SendAppends
<1>4. Sent' = Append(Sent, f) /\ Sent \in Seq(Frames)
  BY <1>3, SentType DEF Pushed
<1>5. \A i \in DOMAIN Sent : IsResponse(Sent[i])
  BY <1>2 DEF DownInv
<1> QED
  BY <1>1, <1>4, <1>5 DEF f

\* Responses are not snapshots, roots, seals or WAL bytes.
LEMMA ResponseKind ==
  ASSUME NEW f \in Frames, IsResponse(f)
  PROVE  ~IsNamed(f) /\ ~IsSeal(f) /\ ~IsWal(f) /\ ~IsSnapshot(f)
BY FrameIsEvent, EventKinds

\* The names under way stay in the order of publication, whatever step is taken.
LEMMA NamesStep ==
  ASSUME TypeOK, RootsInv, CaptureInv, SegmentsInv, DownInv, NamesInv, [Next]_vars, TypeOK'
  PROVE  NamesInv'
<1> USE DEF logVars, memVars, flushVars, connVars, repVars, histVars
<1> SUFFICES ASSUME Subscribed'
             PROVE  /\ NamesUpTo(Sent', root')
                    /\ \/ flush' = "published"
                       \/ Names(Sent', root')
                       \/ rroot' >= root' /\ NamesNone(Sent')
  BY DEF NamesInv
<1>1. /\ root \in Int /\ Newest \in Int /\ rroot \in Int
      /\ Sent \in Seq(Frames) /\ buf \in SUBSET Records
  <2>1. root \in Int /\ Newest \in Int /\ DOMAIN contents = 0 .. Newest
    BY NewestType DEF RootsInv
  <2>2. rroot \in DOMAIN contents /\ buf \in SUBSET Records
    BY DEF TypeOK
  <2>3. Sent \in Seq(Frames)
    BY SentType
  <2> QED
    BY <2>1, <2>2, <2>3
<1>2. ASSUME UNCHANGED <<link, evCh>> PROVE Sent' = Sent
  BY <1>2 DEF Sent
<1>3. CASE Insert \/ DeleteDurable \/ CaptureFlush \/ PrepareFlush \/ Collect \/ UNCHANGED vars
  <2>1. UNCHANGED <<conn, link, evCh, root, rroot>>
    BY <1>3 DEF Insert, DeleteDurable, CaptureFlush, PrepareFlush, Collect, vars
  <2>2. UNCHANGED flush \/ flush # "published"
    BY <1>3 DEF Insert, DeleteDurable, CaptureFlush, PrepareFlush, Collect, vars
  <2> QED
    BY <1>2, <2>1, <2>2 DEF NamesInv, Subscribed
<1>4. ASSUME NEW b \in SUBSET Records, NEW e \in Frames, Sent' = Append(Pushed(Sent, b), e),
             ~IsNamed(e), Subscribed, UNCHANGED <<root, rroot, flush>>
      PROVE  /\ NamesUpTo(Sent', root')
             /\ \/ flush' = "published"
                \/ Names(Sent', root')
                \/ rroot' >= root' /\ NamesNone(Sent')
  BY <1>1, <1>4, NamesPush, NamesAppend DEF NamesInv
<1>5. ASSUME NEW r \in Records, Sink(r)
      PROVE  /\ NamesUpTo(Sent', root')
             /\ \/ flush' = "published"
                \/ Names(Sent', root')
                \/ rroot' >= root' /\ NamesNone(Sent')
  <2>1. UNCHANGED <<conn, evCh, root, rroot, flush>> /\ Subscribed
    BY <1>5 DEF Sink, Subscribed
  <2>2. CASE UNCHANGED link
    BY <1>2, <2>1, <2>2 DEF NamesInv
  <2>3. CASE Broadcast(Buffered(buf, {r}), SealEv)
    <3>1. Buffered(buf, {r}) \in SUBSET Records /\ SealEv \in Events /\ ~IsNamed(SealEv)
      BY <1>1, FrameTypes, FrameKinds DEF Buffered
    <3> QED
      BY <1>4, <2>1, <2>3, <3>1, BroadcastSends
  <2> QED
    BY <1>5, <2>2, <2>3 DEF Sink, Rotate
<1>6. CASE Tick
  <2>1. UNCHANGED <<conn, evCh, root, rroot, flush>> /\ Subscribed /\ Broadcast(buf, SealEv)
    BY <1>6 DEF Tick, Rotate, Subscribed
  <2>2. SealEv \in Events /\ ~IsNamed(SealEv)
    BY FrameTypes, FrameKinds
  <2> QED
    BY <1>1, <1>4, <2>1, <2>2, BroadcastSends
<1>7. ASSUME NEW r \in Own, Respond(r)
      PROVE  /\ NamesUpTo(Sent', root')
             /\ \/ flush' = "published"
                \/ Names(Sent', root')
                \/ rroot' >= root' /\ NamesNone(Sent')
  <2>1. UNCHANGED <<conn, evCh, root, rroot, flush>> /\ Subscribed
    BY <1>7 DEF Respond, Subscribed
  <2> QED
    BY <1>1, <1>4, <1>7, <2>1, ResponseSends, FrameKinds
<1>8. CASE PublishFlush
  <2>1. UNCHANGED <<conn, link, evCh, rroot>> /\ Subscribed /\ root' = Newest /\ flush' = "published"
    BY <1>8 DEF PublishFlush, Newest, Subscribed
  <2>2. root <= Newest
    BY <1>1 DEF RootsInv
  <2> QED
    BY <1>1, <1>2, <2>1, <2>2, NamesAreRoots DEF NamesInv, NamesUpTo
<1>9. CASE Announce
  <2>1. UNCHANGED <<conn, evCh, root>> /\ Subscribed /\ Broadcast(buf, Root(root))
    BY <1>9 DEF Announce, Subscribed
  <2>2. Root(root) \in Events /\ IsNamed(Root(root)) /\ Root(root).name = root
    BY NewestType, FrameTypes, FrameKinds
  <2>3. Sent' = Append(Pushed(Sent, buf), Root(root)) /\ Pushed(Sent, buf) \in Seq(Frames)
        /\ Root(root) \in Frames
    BY <1>1, <2>1, <2>2, BroadcastSends
  <2>4. NamesUpTo(Pushed(Sent, buf), root)
    BY <1>1, <2>1, NamesPush DEF NamesInv
  <2>5. \A i \in DOMAIN Pushed(Sent, buf) : IsNamed(Pushed(Sent, buf)[i])
                                            => Pushed(Sent, buf)[i].name \in Int
    BY <2>3, FrameIsEvent, EventKinds
  <2> QED
    BY <1>1, <2>1, <2>2, <2>3, <2>4, <2>5, NamesLast
<1>10. CASE Subscribe
  <2> DEFINE f == Snapshot(DOMAIN segs' \ {segIdx'}, segs'[segIdx'].recs, root)
  <2>1. f \in Frames /\ Sent' = Append(Sent, f) /\ \A i \in DOMAIN Sent : IsResponse(Sent[i])
    BY <1>10, SubscribeSends
  <2>2. IsNamed(f) /\ f.name = root
    BY FrameKinds
  <2> HIDE DEF f
  <2>3. \A i \in DOMAIN Sent : ~IsNamed(Sent[i])
    BY <1>1, <2>1, ResponseKind
  <2>4. NamesUpTo(Sent, root)
    BY <2>3 DEF NamesUpTo
  <2>5. UNCHANGED root
    BY <1>10 DEF Subscribe
  <2> QED
    BY <1>1, <2>1, <2>2, <2>3, <2>4, <2>5, NamesLast
<1>11. CASE ReadFrame
  <2>1. UNCHANGED <<conn, root, rroot, flush>> /\ Subscribed
    BY <1>11 DEF ReadFrame, Subscribed
  <2>2. \/ Sent' = Sent
        \/ Dropped(Sent, Sent', Len(evCh) + 1) /\ ~IsNamed(Sent[Len(evCh) + 1])
    BY <1>11, ReadMoves
  <2>3. Len(evCh) + 1 \in Int
    BY SentType
  <2> QED
    BY <1>1, <2>1, <2>2, <2>3, NamesDrop DEF NamesInv
<1>12. CASE ApplyEvent
  <2> DEFINE f == Head(evCh)
  <2>1. UNCHANGED <<conn, root, flush, onDisk>> /\ Subscribed
    BY <1>12 DEF ApplyEvent, Subscribed
  <2>2. Dropped(Sent, Sent', 1) /\ Sent[1] = f
    BY <1>12, ApplyTakes
  <2>3. /\ IsSeal(f) => rroot' = rroot
        /\ ~IsSeal(f) /\ ~IsNamed(f) => rroot' = rroot
        /\ IsNamed(f) => rroot' = IF f.name \in onDisk THEN f.name ELSE rroot
    BY <1>12, Applies
  <2> HIDE DEF f
  <2>4. NamesUpTo(Sent, root) /\ NamesUpTo(Sent', root)
    BY <1>1, <2>1, <2>2, NamesDrop DEF NamesInv
  <2>5. CASE ~IsNamed(f)
    BY <1>1, <2>1, <2>2, <2>3, <2>4, <2>5, NamesDrop DEF NamesInv
  <2>6. CASE IsNamed(f) /\ flush # "published"
    <3>1. /\ 1 \in DOMAIN Sent /\ \A i \in DOMAIN Sent : i \in Int /\ i >= 1
          /\ \A i \in DOMAIN Sent : i # 1 => i - 1 \in DOMAIN Sent' /\ Sent'[i - 1] = Sent[i]
          /\ \A i \in DOMAIN Sent' : i + 1 \in DOMAIN Sent /\ Sent'[i] = Sent[i + 1] /\ 1 < i + 1
      BY <2>2 DEF Dropped
    <3>2. Names(Sent, root)
      BY <2>1, <2>2, <2>6, <3>1 DEF NamesInv, NamesNone
    <3>3. CASE \E i \in DOMAIN Sent : i # 1 /\ IsNamed(Sent[i]) /\ Sent[i].name = root
      BY <2>1, <2>4, <3>1, <3>3 DEF Names
    <3>4. CASE \A i \in DOMAIN Sent : i # 1 => ~(IsNamed(Sent[i]) /\ Sent[i].name = root)
      <4>1. f.name = root
        BY <2>2, <3>2, <3>4 DEF Names
      <4>2. \A i \in DOMAIN Sent : i # 1 => ~IsNamed(Sent[i])
        <5> SUFFICES ASSUME NEW i \in DOMAIN Sent, i # 1, IsNamed(Sent[i]) PROVE FALSE
          OBVIOUS
        <5>1. 1 < i /\ Sent[i].name \in Int
          BY <3>1, NamesAreRoots
        <5>2. Sent[i].name <= root /\ root <= Sent[i].name
          BY <2>2, <2>4, <2>6, <3>1, <4>1, <5>1 DEF NamesUpTo
        <5> QED
          BY <1>1, <3>4, <5>1, <5>2
      <4>3. NamesNone(Sent')
        BY <3>1, <4>2 DEF NamesNone
      <4>4. rroot' = root
        BY <2>3, <2>6, <4>1 DEF RootsInv
      <4> QED
        BY <1>1, <2>1, <2>4, <4>3, <4>4
    <3> QED
      BY <3>3, <3>4
  <2> QED
    BY <2>1, <2>4, <2>5, <2>6
<1>13. CASE Dial \/ Disconnect \/ RestartReplica
  BY <1>13 DEF Dial, Disconnect, RestartReplica, Subscribed
<1> QED
  BY <1>3, <1>5, <1>6, <1>7, <1>8, <1>9, <1>10, <1>11, <1>12, <1>13 DEF Next

\* What is under way stays so behind a new frame, and the new frame brings its own records.
LEMMA CarriedAppend ==
  ASSUME NEW s, NEW r, NEW q \in Seq(Frames), NEW f \in Frames
  PROVE  /\ Carried(s, q, r) => Carried(s, Append(q, f), r)
         /\ r \in Brings(s, f) => Carried(s, Append(q, f), r)
<1>1. /\ \A i \in DOMAIN q : i \in DOMAIN Append(q, f) /\ Append(q, f)[i] = q[i]
      /\ Append(q, f)[Len(q) + 1] = f /\ Len(q) + 1 \in DOMAIN Append(q, f)
  OBVIOUS
<1> QED
  BY <1>1 DEF Carried

\* Sending the buffered WAL bytes carries their records.
LEMMA CarriedPush ==
  ASSUME NEW s, NEW r, NEW q \in Seq(Frames), NEW b \in SUBSET Records
  PROVE  /\ Carried(s, q, r) \/ r \in b => Carried(s, Pushed(q, b), r)
         /\ Pushed(q, b) \in Seq(Frames)
<1>1. CASE b = {}
  BY <1>1 DEF Pushed
<1>2. CASE b # {}
  <2>1. Wal(b) \in Frames /\ Brings(s, Wal(b)) = b
    BY FrameTypes, FrameKinds DEF Frames, Brings
  <2>2. Pushed(q, b) = Append(q, Wal(b)) /\ Append(q, Wal(b)) \in Seq(Frames)
    BY <1>2, <2>1 DEF Pushed
  <2> QED
    BY <2>1, <2>2, CarriedAppend
<1> QED
  BY <1>1, <1>2

\* Applying one frame takes away only what that frame brought.
LEMMA CarriedDrop ==
  ASSUME NEW s, NEW r, NEW q, NEW d, NEW k \in Int, Dropped(q, d, k), Carried(s, q, r)
  PROVE  Carried(s, d, r) \/ r \in Brings(s, q[k])
<1>1. PICK i \in DOMAIN q : r \in Brings(s, q[i])
  BY DEF Carried
<1>2. CASE i < k
  <2>1. i \in DOMAIN d /\ d[i] = q[i]
    BY <1>2 DEF Dropped
  <2> QED
    BY <1>1, <2>1 DEF Carried
<1>3. CASE i > k
  <2>1. i - 1 \in DOMAIN d /\ d[i - 1] = q[i]
    BY <1>3 DEF Dropped
  <2> QED
    BY <1>1, <2>1 DEF Carried
<1> QED
  BY <1>1, <1>2, <1>3 DEF Dropped

\* The root in use only ever reaches more.
LEMMA RootGrows ==
  ASSUME TypeOK, RootsInv, [Next]_vars
  PROVE  contents[root] \subseteq contents'[root']
<1> USE DEF logVars, memVars, flushVars, connVars, repVars, histVars
<1>1. CASE PublishFlush
  <2>1. root' = Newest /\ flush = "prepared" /\ UNCHANGED contents
    BY <1>1 DEF PublishFlush, Newest
  <2> QED
    BY <2>1 DEF RootsInv
<1>2. CASE UNCHANGED root
  BY <1>2, ContentsKept DEF TypeOK
<1>3. CASE (\E r \in Records : Sink(r)) \/ Insert \/ Tick \/ DeleteDurable \/ CaptureFlush
           \/ PrepareFlush \/ Announce \/ Collect \/ Subscribe
  BY <1>2, <1>3 DEF Sink, Insert, Tick, DeleteDurable, CaptureFlush, PrepareFlush, Announce,
     Collect, Subscribe
<1> QED
  BY <1>1, <1>2, <1>3, StoreUntouched

\* Every record of the log is with the replica, on its way, or in the root in
\* use.
LEMMA StreamStep ==
  ASSUME TypeOK, RootsInv, CaptureInv, SegmentsInv, DownInv, StreamInv, [Next]_vars,
         TypeOK', SegmentsInv'
  PROVE  StreamInv'
<1> USE DEF logVars, memVars, flushVars, connVars, repVars, histVars
<1> DEFINE Safe(r) == r \in received' \cup buf' \cup contents'[root'] \/ Carried(segs', Sent', r)
<1> SUFFICES ASSUME Subscribed', NEW x \in sunk' PROVE Safe(x)
  BY DEF StreamInv
<1>1. Sent \in Seq(Frames) /\ buf \in SUBSET Records
  BY SentType DEF TypeOK
<1>2. ASSUME UNCHANGED <<link, evCh>> PROVE Sent' = Sent
  BY <1>2 DEF Sent
<1>3. contents[root] \subseteq contents'[root']
  BY RootGrows
<1>4. ASSUME NEW q, Carried(segs, q, x) PROVE Carried(segs', q, x) \/ x \in contents'[root']
  BY <1>3, <1>4, BringsKept DEF Carried
<1>5. ASSUME Subscribed, x \in sunk
      PROVE  x \in received \cup buf \cup contents'[root'] \/ Carried(segs, Sent, x)
  BY <1>3, <1>5 DEF StreamInv
<1>6. CASE Insert \/ DeleteDurable \/ CaptureFlush \/ PrepareFlush \/ PublishFlush \/ Collect
           \/ UNCHANGED vars
  <2>1. UNCHANGED <<conn, link, evCh, sunk, received, buf>>
    BY <1>6 DEF Insert, DeleteDurable, CaptureFlush, PrepareFlush, PublishFlush, Collect, vars
  <2> QED
    BY <1>2, <1>4, <1>5, <2>1 DEF Subscribed
<1>7. ASSUME NEW b \in SUBSET Records, NEW e \in Frames, Sent' = Append(Pushed(Sent, b), e),
             Subscribed, buf \subseteq b, UNCHANGED received, x \in sunk \/ x \in b
      PROVE  Safe(x)
  <2>1. CASE x \in b \/ Carried(segs', Sent, x)
    BY <1>1, <1>7, <2>1, CarriedPush, CarriedAppend
  <2> QED
    BY <1>4, <1>5, <1>7, <2>1
<1>8. ASSUME NEW r \in Records, Sink(r) PROVE Safe(x)
  <2>1. UNCHANGED <<conn, evCh, received>> /\ Subscribed /\ sunk' = sunk \cup {r}
    BY <1>8 DEF Sink, Subscribed
  <2>2. Buffered(buf, {r}) = buf \cup {r} /\ buf \cup {r} \in SUBSET Records
    BY <1>1, <2>1 DEF Buffered
  <2>3. CASE UNCHANGED link /\ buf' = Buffered(buf, {r})
    BY <1>2, <1>4, <1>5, <2>1, <2>2, <2>3
  <2>4. CASE Broadcast(Buffered(buf, {r}), SealEv)
    <3>1. SealEv \in Events
      BY FrameTypes
    <3>2. Sent' = Append(Pushed(Sent, buf \cup {r}), SealEv) /\ SealEv \in Frames
      BY <2>1, <2>2, <2>4, <3>1, BroadcastSends
    <3> QED
      BY <1>7, <2>1, <2>2, <3>2
  <2> QED
    BY <1>8, <2>3, <2>4 DEF Sink, Rotate
<1>9. CASE Tick \/ Announce
  <2>1. UNCHANGED <<conn, evCh, received, sunk>> /\ Subscribed
    BY <1>9 DEF Tick, Announce, Subscribed
  <2>2. \E e \in Events : Broadcast(buf, e)
    BY <1>9, FrameTypes, NewestType DEF Tick, Rotate, Announce
  <2> QED
    BY <1>1, <1>7, <2>1, <2>2, BroadcastSends
<1>10. ASSUME NEW r \in Own, Respond(r) PROVE Safe(x)
  <2>1. UNCHANGED <<conn, received, sunk>> /\ Subscribed
    BY <1>10 DEF Respond, Subscribed
  <2> QED
    BY <1>1, <1>7, <1>10, <2>1, ResponseSends
<1>11. CASE Subscribe
  <2> DEFINE f == Snapshot(DOMAIN segs' \ {segIdx'}, segs'[segIdx'].recs, root)
  <2>1. f \in Frames /\ Sent' = Append(Sent, f)
    BY <1>11, SubscribeSends
  <2>2. Brings(segs', f) = segs'[segIdx'].recs
                           \cup UNION {segs'[i].recs : i \in (DOMAIN segs' \ {segIdx'}) \cap DOMAIN segs'}
    BY FrameKinds DEF Brings
  <2> HIDE DEF f
  <2>3. x \in contents'[root'] \/ \E i \in DOMAIN segs' : x \in segs'[i].recs
    BY DEF SegmentsInv, RecsIn
  <2>4. x \in contents'[root'] \/ x \in Brings(segs', f)
    BY <2>2, <2>3
  <2> QED
    BY <1>1, <2>1, <2>4, CarriedAppend
<1>12. CASE ReadFrame
  <2>1. UNCHANGED <<conn, segs, received, sunk, buf>> /\ Subscribed
    BY <1>12 DEF ReadFrame, Subscribed
  <2>2. \/ Sent' = Sent
        \/ Dropped(Sent, Sent', Len(evCh) + 1) /\ Brings(segs, Sent[Len(evCh) + 1]) = {}
    BY <1>12, ReadMoves
  <2>3. Len(evCh) + 1 \in Int
    BY SentType
  <2> QED
    BY <1>5, <2>1, <2>2, <2>3, CarriedDrop
<1>13. CASE ApplyEvent
  <2>1. UNCHANGED <<conn, segs, sunk, buf>> /\ Subscribed
    BY <1>13 DEF ApplyEvent, Subscribed
  <2>2. Dropped(Sent, Sent', 1) /\ received \subseteq received' /\ Brings(segs, Sent[1]) \subseteq received'
    BY <1>13, ApplyTakes, Applies
  <2> QED
    BY <1>5, <2>1, <2>2, CarriedDrop
<1>14. CASE Dial \/ Disconnect \/ RestartReplica
  BY <1>14 DEF Dial, Disconnect, RestartReplica, Subscribed, DownInv
<1> QED
  BY <1>6, <1>8, <1>9, <1>10, <1>11, <1>12, <1>13, <1>14 DEF Next

\* A response may follow when its record was granted, applied or is ahead of it.
LEMMA OrderedAppend ==
  ASSUME NEW g, NEW v, NEW r, NEW q \in Seq(Frames), NEW f \in Frames
  PROVE  /\ WalIn(q, r) => WalIn(Append(q, f), r)
         /\ IsWal(f) /\ r \in f.recs => WalIn(Append(q, f), r)
         /\ /\ Ordered(q, g, v)
            /\ IsResponse(f) => f.id \in g \/ f.id \in v \/ WalIn(q, f.id)
            => Ordered(Append(q, f), g, v)
<1>1. /\ \A i \in DOMAIN q : i \in DOMAIN Append(q, f) /\ Append(q, f)[i] = q[i] /\ i < Len(q) + 1
      /\ \A i \in DOMAIN Append(q, f) : i \in DOMAIN q \/ i = Len(q) + 1
      /\ Append(q, f)[Len(q) + 1] = f /\ Len(q) + 1 \in DOMAIN Append(q, f)
  OBVIOUS
<1>2. WalIn(q, r) => WalIn(Append(q, f), r)
  BY <1>1 DEF WalIn
<1>3. IsWal(f) /\ r \in f.recs => WalIn(Append(q, f), r)
  BY <1>1 DEF WalIn
<1>4. ASSUME Ordered(q, g, v), IsResponse(f) => f.id \in g \/ f.id \in v \/ WalIn(q, f.id),
             NEW i \in DOMAIN Append(q, f), IsResponse(Append(q, f)[i]),
             Append(q, f)[i].id \notin g, Append(q, f)[i].id \notin v
      PROVE  WalBefore(Append(q, f), i, Append(q, f)[i].id)
  <2>1. CASE i = Len(q) + 1
    <3>1. WalIn(q, f.id) /\ Append(q, f)[i] = f
      BY <1>1, <1>4, <2>1
    <3> QED
      BY <1>1, <2>1, <3>1 DEF WalIn, WalBefore
  <2>2. CASE i \in DOMAIN q
    <3>1. WalBefore(q, i, q[i].id) /\ Append(q, f)[i] = q[i]
      BY <1>1, <1>4, <2>2 DEF Ordered
    <3> QED
      BY <1>1, <3>1 DEF WalBefore
  <2> QED
    BY <1>1, <2>1, <2>2
<1>5. Ordered(q, g, v) /\ (IsResponse(f) => f.id \in g \/ f.id \in v \/ WalIn(q, f.id))
        => Ordered(Append(q, f), g, v)
  BY <1>4 DEF Ordered
<1> QED
  BY <1>2, <1>3, <1>5

\* WAL frames keep the responses in order.
LEMMA OrderedPush ==
  ASSUME NEW g, NEW v, NEW r, NEW q \in Seq(Frames), NEW b \in SUBSET Records
  PROVE  /\ Pushed(q, b) \in Seq(Frames)
         /\ WalIn(q, r) \/ r \in b => WalIn(Pushed(q, b), r)
         /\ Ordered(q, g, v) => Ordered(Pushed(q, b), g, v)
<1>1. CASE b = {}
  BY <1>1 DEF Pushed
<1>2. CASE b # {}
  <2>1. Wal(b) \in Frames /\ IsWal(Wal(b)) /\ Wal(b).recs = b /\ ~IsResponse(Wal(b))
    BY FrameTypes, FrameKinds DEF Frames
  <2>2. Pushed(q, b) = Append(q, Wal(b)) /\ Append(q, Wal(b)) \in Seq(Frames)
    BY <1>2, <2>1 DEF Pushed
  <2>3. WalIn(q, r) \/ r \in b => WalIn(Append(q, Wal(b)), r)
    BY <2>1, OrderedAppend
  <2>4. Ordered(q, g, v) => Ordered(Append(q, Wal(b)), g, v)
    BY <2>1, OrderedAppend
  <2> QED
    BY <2>2, <2>3, <2>4
<1> QED
  BY <1>1, <1>2

\* Where the frames of q are once the one at k is gone.
LEMMA DroppedMoves ==
  ASSUME NEW q, NEW d, NEW k \in Int, Dropped(q, d, k)
  PROVE  /\ \A i \in DOMAIN q : i \in Int
         /\ \A i \in DOMAIN q : i < k => i \in DOMAIN d /\ d[i] = q[i]
         /\ \A i \in DOMAIN q : i > k => i - 1 \in DOMAIN d /\ d[i - 1] = q[i]
         /\ \A i \in DOMAIN d : i < k => i \in DOMAIN q /\ d[i] = q[i]
         /\ \A i \in DOMAIN d : ~(i < k) => i + 1 \in DOMAIN q /\ d[i] = q[i + 1]
         /\ \A i \in DOMAIN d : i \in Int
BY DEF Dropped

\* Applying a frame keeps the responses in order, its records being applied then.
LEMMA OrderedDrop ==
  ASSUME NEW g, NEW v, NEW w, NEW q, NEW d, NEW k \in Int, Dropped(q, d, k),
         v \subseteq w, IsWal(q[k]) => q[k].recs \subseteq w
  PROVE  /\ \A r : WalIn(q, r) => r \in w \/ WalIn(d, r)
         /\ Ordered(q, g, v) => Ordered(d, g, w)
<1>1. ASSUME NEW r, WalIn(q, r), r \notin w PROVE WalIn(d, r)
  <2>1. PICK j \in DOMAIN q : IsWal(q[j]) /\ r \in q[j].recs
    BY <1>1 DEF WalIn
  <2>2. j # k
    BY <1>1, <2>1
  <2> QED
    BY <2>1, <2>2, DroppedMoves DEF WalIn
<1>2. ASSUME Ordered(q, g, v), NEW i \in DOMAIN d, IsResponse(d[i]), d[i].id \notin g, d[i].id \notin w
      PROVE  WalBefore(d, i, d[i].id)
  <2>1. PICK m \in DOMAIN q : d[i] = q[m] /\ m = IF i < k THEN i ELSE i + 1
    BY DroppedMoves
  <2>2. PICK j \in DOMAIN q : j < m /\ IsWal(q[j]) /\ d[i].id \in q[j].recs
    BY <1>2, <2>1 DEF Ordered, WalBefore
  <2>3. j # k /\ i \in Int /\ j \in Int
    BY <1>2, <2>2, DroppedMoves
  <2>4. CASE j < k
    <3>1. j \in DOMAIN d /\ d[j] = q[j] /\ j < i
      BY <2>1, <2>2, <2>3, <2>4, DroppedMoves
    <3> QED
      BY <2>2, <3>1 DEF WalBefore
  <2>5. CASE j > k
    <3>1. j - 1 \in DOMAIN d /\ d[j - 1] = q[j] /\ j - 1 < i
      BY <2>1, <2>2, <2>3, <2>5, DroppedMoves
    <3> QED
      BY <2>2, <3>1 DEF WalBefore
  <2> QED
    BY <2>3, <2>4, <2>5
<1> QED
  BY <1>1, <1>2 DEF Ordered

\* The WAL bytes of a write leave before its answer.
LEMMA AckStep ==
  ASSUME TypeOK, RootsInv, DownInv, AckInv, [Next]_vars, TypeOK'
  PROVE  AckInv'
<1> USE DEF logVars, memVars, flushVars, connVars, repVars, histVars
<1>1. Sent \in Seq(Frames) /\ buf \in SUBSET Records
  BY SentType DEF TypeOK
<1>2. ASSUME UNCHANGED <<link, evCh>> PROVE Sent' = Sent
  BY <1>2 DEF Sent
<1>3. CASE Insert \/ DeleteDurable \/ CaptureFlush \/ PrepareFlush \/ PublishFlush \/ Collect
           \/ UNCHANGED vars
  <2>1. UNCHANGED <<conn, link, evCh, acked, direct, received, reply, buf>>
    BY <1>3 DEF Insert, DeleteDurable, CaptureFlush, PrepareFlush, PublishFlush, Collect, vars
  <2> QED
    BY <1>2, <2>1 DEF AckInv, Subscribed
<1>4. ASSUME UNCHANGED <<conn, evCh, acked, direct, received>>, Subscribed,
             NEW b \in SUBSET Records, buf \subseteq b, reply' \subseteq reply \cup b,
             NEW e \in Frames, ~IsResponse(e), Sent' = Append(Pushed(Sent, b), e)
      PROVE  AckInv'
  <2>1. Pushed(Sent, b) \in Seq(Frames) /\ Ordered(Pushed(Sent, b), direct, received)
    BY <1>1, OrderedPush DEF AckInv
  <2>2. Ordered(Sent', direct, received)
    BY <1>4, <2>1, OrderedAppend
  <2>3. ASSUME NEW r \in reply' PROVE r \in received \/ WalIn(Sent', r)
    <3>1. r \in received \/ r \in b \/ WalIn(Sent, r)
      BY <1>4, <2>3 DEF AckInv
    <3>2. r \in received \/ WalIn(Pushed(Sent, b), r)
      BY <1>1, <3>1, OrderedPush
    <3> QED
      BY <1>4, <2>1, <3>2, OrderedAppend
  <2> QED
    BY <1>4, <2>2, <2>3 DEF AckInv
<1>5. ASSUME NEW r \in Records, Sink(r) PROVE AckInv'
  <2>1. /\ UNCHANGED <<conn, evCh, acked, direct, received>>
        /\ reply' = (IF r \in Own THEN reply \cup {r} ELSE reply)
    BY <1>5 DEF Sink
  <2>2. CASE ~Subscribed
    <3>1. UNCHANGED link
      BY <1>5, <2>2 DEF Sink, Rotate, Broadcast
    <3> QED
      BY <1>2, <2>1, <2>2, <3>1 DEF AckInv, Subscribed
  <2>3. CASE Subscribed
    <3>1. Buffered(buf, {r}) = buf \cup {r} /\ buf \cup {r} \in SUBSET Records
      BY <1>1, <2>3 DEF Buffered
    <3>2. CASE UNCHANGED link /\ buf' = Buffered(buf, {r})
      BY <1>2, <2>1, <3>1, <3>2 DEF AckInv, Subscribed
    <3>3. CASE Broadcast(Buffered(buf, {r}), SealEv)
      <4>1. SealEv \in Events /\ SealEv \in Frames /\ ~IsResponse(SealEv)
        BY FrameTypes, FrameKinds DEF Frames
      <4>2. Sent' = Append(Pushed(Sent, buf \cup {r}), SealEv)
        BY <2>1, <2>3, <3>1, <3>3, <4>1, BroadcastSends
      <4> QED
        BY <1>4, <2>1, <2>3, <3>1, <4>1, <4>2
    <3> QED
      BY <1>5, <3>2, <3>3 DEF Sink, Rotate
  <2> QED
    BY <2>2, <2>3
<1>6. CASE Tick \/ Announce
  <2>1. UNCHANGED <<conn, evCh, acked, direct, received, reply>>
    BY <1>6 DEF Tick, Announce
  <2>2. \E e \in Events : ~IsResponse(e) /\ Broadcast(buf, e)
    BY <1>6, FrameTypes, FrameKinds, NewestType DEF Tick, Rotate, Announce
  <2>3. CASE ~Subscribed
    BY <1>1, <2>1, <2>2, <2>3, BroadcastSends DEF AckInv, Subscribed
  <2>4. CASE Subscribed
    BY <1>1, <1>4, <2>1, <2>2, <2>4, BroadcastSends
  <2> QED
    BY <2>3, <2>4
<1>7. ASSUME NEW r \in Own, Respond(r) PROVE AckInv'
  <2> DEFINE f == Response(r)
  <2>1. UNCHANGED <<conn, evCh, acked, received>> /\ reply' = reply \ {r} /\ r \in reply
        /\ direct' = (IF conn = "dialed" THEN direct \cup {r} ELSE direct)
    BY <1>7 DEF Respond
  <2>2. f \in Frames /\ f.id = r
    BY <1>7, ResponseSends, FrameKinds
  <2>3. CASE conn = "dialed"
    <3>1. Sent' = Append(Sent, f) /\ ~Subscribed /\ ~Subscribed'
      BY <1>7, <2>1, <2>3, ResponseSends DEF Subscribed
    <3>2. Ordered(Sent, direct', received)
      BY <2>1, <2>3 DEF AckInv, Ordered
    <3>3. Ordered(Sent', direct', received)
      <4>1. f.id \in direct'
        BY <2>1, <2>2, <2>3
      <4> HIDE DEF f
      <4>2. Ordered(Append(Sent, f), direct', received)
        BY <1>1, <2>2, <3>2, <4>1, OrderedAppend
      <4> QED
        BY <3>1, <4>2
    <3> QED
      BY <2>1, <2>3, <3>1, <3>3 DEF AckInv
  <2>4. CASE Subscribed
    <3>1. /\ buf' = {} /\ Sent' = Append(Pushed(Sent, buf), f) /\ UNCHANGED direct
      BY <1>7, <2>1, <2>4, ResponseSends DEF Subscribed
    <3>2. Pushed(Sent, buf) \in Seq(Frames) /\ Ordered(Pushed(Sent, buf), direct, received)
      BY <1>1, OrderedPush DEF AckInv
    <3>3. ASSUME NEW x \in reply PROVE x \in received \/ WalIn(Pushed(Sent, buf), x)
      <4>1. x \in received \/ x \in buf \/ WalIn(Sent, x)
        BY <2>4 DEF AckInv
      <4> QED
        BY <1>1, <4>1, OrderedPush
    <3>4. r \in received \/ WalIn(Pushed(Sent, buf), r)
      BY <2>1, <3>3
    <3> HIDE DEF f
    <3>5. Ordered(Append(Pushed(Sent, buf), f), direct, received)
      BY <2>2, <3>2, <3>4, OrderedAppend
    <3>6. \A x \in reply : x \in received \/ WalIn(Append(Pushed(Sent, buf), f), x)
      BY <2>2, <3>2, <3>3, OrderedAppend
    <3> QED
      BY <2>1, <3>1, <3>5, <3>6 DEF AckInv
  <2> QED
    BY <1>7, <2>3, <2>4, ResponseSends
<1>8. CASE Dial
  BY <1>2, <1>8 DEF Dial, AckInv, Subscribed
<1>9. CASE Subscribe
  <2> DEFINE f == Snapshot(DOMAIN segs' \ {segIdx'}, segs'[segIdx'].recs, root)
  <2>1. f \in Frames /\ Sent' = Append(Sent, f) /\ ~IsResponse(f)
    BY <1>9, SubscribeSends, FrameKinds
  <2>2. UNCHANGED <<evCh, acked, direct, received, reply>> /\ reply = {}
    BY <1>9 DEF Subscribe
  <2> HIDE DEF f
  <2>3. Ordered(Sent', direct, received)
    BY <1>1, <2>1, OrderedAppend DEF AckInv
  <2> QED
    BY <2>2, <2>3 DEF AckInv
<1>10. CASE ReadFrame
  <2>1. UNCHANGED <<conn, direct, received, reply, buf>>
    BY <1>10 DEF ReadFrame
  <2>2. CASE Sent' = Sent /\ UNCHANGED acked /\ evCh' = Append(evCh, Head(link))
             /\ Head(link) \in Events
    <3>1. evCh \in Seq(Frames) /\ Head(link) \in Frames
      BY <2>2, SentType DEF Frames
    <3>2. \A r : WalIn(evCh, r) => WalIn(evCh', r)
      BY <2>2, <3>1, OrderedAppend
    <3> QED
      BY <2>1, <2>2, <3>2 DEF AckInv, Subscribed
  <2>3. CASE /\ Dropped(Sent, Sent', Len(evCh) + 1) /\ UNCHANGED evCh
             /\ IsResponse(Sent[Len(evCh) + 1]) /\ ~IsWal(Sent[Len(evCh) + 1])
             /\ acked' = acked \cup {Sent[Len(evCh) + 1].id}
    <3> DEFINE k == Len(evCh) + 1
    <3>1. k \in Int /\ k \in DOMAIN Sent /\ evCh \in Seq(Frames) /\ link \in Seq(Frames)
      BY <2>3, SentType DEF Dropped
    <3>2. \A j \in DOMAIN Sent : j < k => j \in DOMAIN evCh /\ Sent[j] = evCh[j]
      BY <3>1 DEF Sent
    <3>3. Sent[k].id \notin direct => Sent[k].id \in received \/ WalIn(evCh, Sent[k].id)
      BY <2>3, <3>1, <3>2 DEF AckInv, Ordered, WalBefore, WalIn
    <3>4. /\ \A r : WalIn(Sent, r) => r \in received \/ WalIn(Sent', r)
          /\ Ordered(Sent', direct, received)
      BY <2>3, <3>1, OrderedDrop DEF AckInv
    <3> QED
      BY <2>1, <2>3, <3>3, <3>4 DEF AckInv, Subscribed
  <2> QED
    BY <1>10, <2>2, <2>3, ReadMoves
<1>11. CASE Disconnect
  <2>1. conn' = "down" /\ link' = <<>> /\ evCh' = <<>> /\ acked' = {}
    BY <1>11 DEF Disconnect
  <2>2. Sent' = <<>> /\ ~Subscribed'
    BY <2>1 DEF Sent, Subscribed
  <2> QED
    BY <2>1, <2>2 DEF AckInv, Ordered
<1>12. CASE RestartReplica
  <2>1. conn = "down" /\ UNCHANGED connVars /\ link = <<>> /\ evCh = <<>> /\ acked = {}
    BY <1>12 DEF RestartReplica, DownInv
  <2>2. Sent' = <<>> /\ ~Subscribed' /\ acked' = {}
    BY <2>1 DEF Sent, Subscribed
  <2> QED
    BY <2>2 DEF AckInv, Ordered
<1>13. CASE ApplyEvent
  <2>1. UNCHANGED <<conn, acked, direct, reply, buf>>
    BY <1>13 DEF ApplyEvent
  <2>2. Dropped(Sent, Sent', 1) /\ received \subseteq received' /\ Sent[1] = Head(evCh)
        /\ Brings(segs, Sent[1]) \subseteq received'
    BY <1>13, ApplyTakes, Applies
  <2>3. IsWal(Sent[1]) => Sent[1].recs \subseteq received'
    BY <2>2 DEF Brings
  <2>4. /\ \A r : WalIn(Sent, r) => r \in received' \/ WalIn(Sent', r)
        /\ Ordered(Sent', direct, received')
    <3>1. 1 \in Int /\ Ordered(Sent, direct, received)
      BY DEF AckInv
    <3>2. \A r : WalIn(Sent, r) => r \in received' \/ WalIn(Sent', r)
      BY <2>2, <2>3, <3>1, OrderedDrop
    <3>3. Ordered(Sent', direct, received')
      BY <2>2, <2>3, <3>1, OrderedDrop
    <3> QED
      BY <3>2, <3>3
  <2>5. ASSUME NEW r, WalIn(evCh, r) PROVE r \in received' \/ WalIn(evCh', r)
    <3>1. PICK j \in DOMAIN evCh : IsWal(evCh[j]) /\ r \in evCh[j].recs
      BY <2>5 DEF WalIn
    <3> QED
      BY <1>13, <2>2, <2>3, <3>1, ApplyTakes DEF WalIn
  <2> QED
    BY <2>1, <2>2, <2>4, <2>5 DEF AckInv, Subscribed
<1> QED
  BY <1>3, <1>5, <1>6, <1>7, <1>8, <1>9, <1>10, <1>11, <1>12, <1>13 DEF Next
-----------------------------------------------------------------------------
(* Where a record ends up once the queue is applied.                       *)

\* A seal freezes what would have ended live; other frames that name no root change nothing.
LEMMA EndsAppend ==
  ASSUME NEW s, NEW l, NEW d, NEW r, NEW q \in Seq(Frames), NEW f \in Frames
  PROVE  /\ ~IsSeal(f) /\ EndsLive(s, l, q, r) => EndsLive(s, l, Append(q, f), r)
         /\ ~IsSeal(f) /\ r \in Brings(s, f) => EndsLive(s, l, Append(q, f), r)
         /\ IsSeal(f) /\ EndsLive(s, l, q, r) => EndsFrozen(s, l, d, Append(q, f), r)
         /\ ~IsSeal(f) /\ ~IsNamed(f) /\ EndsFrozen(s, l, d, q, r)
              => EndsFrozen(s, l, d, Append(q, f), r)
<1> DEFINE a == Append(q, f)
           n == Len(q) + 1
<1>1. /\ a \in Seq(Frames) /\ Len(a) = n /\ n \in Nat /\ a[n] = f /\ n \in DOMAIN a
      /\ \A i \in DOMAIN q : i \in DOMAIN a /\ a[i] = q[i] /\ i \in Nat /\ i < n
      /\ \A i \in DOMAIN a : (i \in DOMAIN q \/ i = n) /\ i \in Nat /\ ~(i > n)
      /\ \A p \in 0 .. Len(q) : p \in 0 .. Len(a) /\ p < n /\ p \in Nat
      /\ \A p \in 0 .. Len(q) : p # 0 => p \in DOMAIN q
      /\ n \in 0 .. Len(a) /\ n # 0
  OBVIOUS
<1> HIDE DEF a, n
<1>2. \A p \in 0 .. Len(q) : Source(s, l, q, p, r) <=> Source(s, l, a, p, r)
  BY <1>1 DEF Source
<1>3. ASSUME ~IsSeal(f) PROVE \A p \in 0 .. Len(q) : NoSeal(q, p) => NoSeal(a, p)
  BY <1>1, <1>3 DEF NoSeal
<1>4. ASSUME ~IsNamed(f) PROVE \A p \in 0 .. Len(q) : NoName(q, p) => NoName(a, p)
  BY <1>1, <1>4 DEF NoName
<1>5. NoSeal(a, n) /\ NoName(a, n)
  BY <1>1 DEF NoSeal, NoName
<1>6. ASSUME ~IsSeal(f), EndsLive(s, l, q, r) PROVE EndsLive(s, l, a, r)
  BY <1>1, <1>2, <1>3, <1>6 DEF EndsLive
<1>7. ASSUME ~IsSeal(f), r \in Brings(s, f) PROVE EndsLive(s, l, a, r)
  <2>1. Source(s, l, a, n, r)
    BY <1>1, <1>7 DEF Source
  <2> QED
    BY <1>1, <1>5, <2>1 DEF EndsLive
<1>8. ASSUME IsSeal(f), EndsLive(s, l, q, r) PROVE EndsFrozen(s, l, d, a, r)
  <2>1. PICK p \in 0 .. Len(q) : Source(s, l, q, p, r) /\ NoSeal(q, p)
    BY <1>8 DEF EndsLive
  <2>2. p \in 0 .. Len(a) /\ p < n /\ Source(s, l, a, p, r) /\ IsSeal(a[n])
    BY <1>1, <1>2, <1>8, <2>1
  <2>3. \A m \in DOMAIN a : p < m /\ m < n => ~IsSeal(a[m])
    BY <1>1, <2>1 DEF NoSeal
  <2> QED
    BY <1>1, <1>5, <2>2, <2>3 DEF EndsFrozen
<1>9. ASSUME ~IsSeal(f), ~IsNamed(f), EndsFrozen(s, l, d, q, r) PROVE EndsFrozen(s, l, d, a, r)
  <2>1. CASE r \in d /\ NoSeal(q, 0) /\ NoName(q, 0)
    <3>1. 0 \in 0 .. Len(q)
      OBVIOUS
    <3> QED
      BY <1>3, <1>4, <1>9, <2>1, <3>1 DEF EndsFrozen
  <2>2. ASSUME NEW p \in 0 .. Len(q), NEW k \in DOMAIN q,
               p < k, Source(s, l, q, p, r), IsSeal(q[k]), NoSeal(q, k), NoName(q, k),
               \A m \in DOMAIN q : p < m /\ m < k => ~IsSeal(q[m])
        PROVE  EndsFrozen(s, l, d, a, r)
    <3>1. k \in 0 .. Len(q)
      OBVIOUS
    <3>2. /\ p \in 0 .. Len(a) /\ k \in DOMAIN a /\ Source(s, l, a, p, r) /\ IsSeal(a[k])
          /\ NoSeal(a, k) /\ NoName(a, k)
      BY <1>1, <1>2, <1>3, <1>4, <1>9, <2>2, <3>1
    <3>3. \A m \in DOMAIN a : p < m /\ m < k => ~IsSeal(a[m])
      BY <1>1, <1>9, <2>2
    <3> QED
      BY <2>2, <3>2, <3>3 DEF EndsFrozen
  <2> QED
    BY <1>9, <2>1, <2>2 DEF EndsFrozen
<1> QED
  BY <1>6, <1>7, <1>8, <1>9 DEF a

\* WAL frames end live and unfreeze nothing.
LEMMA EndsPush ==
  ASSUME NEW s, NEW l, NEW d, NEW r, NEW q \in Seq(Frames), NEW b \in SUBSET Records
  PROVE  /\ Pushed(q, b) \in Seq(Frames)
         /\ r \in b \/ EndsLive(s, l, q, r) => EndsLive(s, l, Pushed(q, b), r)
         /\ EndsFrozen(s, l, d, q, r) => EndsFrozen(s, l, d, Pushed(q, b), r)
<1>1. CASE b = {}
  BY <1>1 DEF Pushed
<1>2. CASE b # {}
  <2>1. /\ Wal(b) \in Frames /\ ~IsSeal(Wal(b)) /\ ~IsNamed(Wal(b))
        /\ Brings(s, Wal(b)) = b
    BY FrameTypes, FrameKinds DEF Frames, Brings
  <2>2. Pushed(q, b) = Append(q, Wal(b)) /\ Append(q, Wal(b)) \in Seq(Frames)
    BY <1>2, <2>1 DEF Pushed
  <2>3. r \in b \/ EndsLive(s, l, q, r) => EndsLive(s, l, Append(q, Wal(b)), r)
    BY <2>1, EndsAppend
  <2>4. EndsFrozen(s, l, d, q, r) => EndsFrozen(s, l, d, Append(q, Wal(b)), r)
    BY <2>1, EndsAppend
  <2> QED
    BY <2>2, <2>3, <2>4
<1> QED
  BY <1>1, <1>2

\* A segment file that is gone takes nothing with it but records of the root
\* in use, c.
LEMMA EndsSegments ==
  ASSUME NEW s, NEW t, NEW c, NEW l, NEW d, NEW q, NEW r,
         \A f : Brings(s, f) \subseteq Brings(t, f) \cup c, r \notin c
  PROVE  /\ EndsLive(s, l, q, r) => EndsLive(t, l, q, r)
         /\ EndsFrozen(s, l, d, q, r) => EndsFrozen(t, l, d, q, r)
<1>1. \A p : Source(s, l, q, p, r) => Source(t, l, q, p, r)
  BY DEF Source
<1>2. EndsLive(s, l, q, r) => EndsLive(t, l, q, r)
  BY <1>1 DEF EndsLive
<1>3. EndsFrozen(s, l, d, q, r) => EndsFrozen(t, l, d, q, r)
  BY <1>1 DEF EndsFrozen
<1> QED
  BY <1>2, <1>3

\* What follows position p of q follows its position in the shorter queue.
LEMMA AfterDrop ==
  ASSUME NEW q, NEW e, NEW k \in Int, Dropped(q, e, k), NEW p \in Int, NEW n \in Int,
         n = IF p < k THEN p ELSE p - 1
  PROVE  /\ NoSeal(q, p) => NoSeal(e, n)
         /\ NoName(q, p) => NoName(e, n)
<1>1. ASSUME NEW m \in DOMAIN e, m > n
      PROVE  \E j \in DOMAIN q : j > p /\ e[m] = q[j]
  <2>1. m \in Int
    BY DroppedMoves
  <2>2. CASE m < k
    <3>1. m \in DOMAIN q /\ e[m] = q[m] /\ m > p
      BY <1>1, <2>1, <2>2, DroppedMoves
    <3> QED
      BY <3>1
  <2>3. CASE ~(m < k)
    <3>1. m + 1 \in DOMAIN q /\ e[m] = q[m + 1] /\ m + 1 > p
      BY <1>1, <2>1, <2>3, DroppedMoves
    <3> QED
      BY <3>1
  <2> QED
    BY <2>2, <2>3
<1> QED
  BY <1>1 DEF NoSeal, NoName

\* A response that is taken out brings nothing and orders nothing.
LEMMA EndsSkip ==
  ASSUME NEW s, NEW l, NEW d, NEW r, NEW q, NEW e, NEW k \in Int, Dropped(q, e, k),
         ~IsSeal(q[k]), Brings(s, q[k]) = {}
  PROVE  /\ EndsLive(s, l, q, r) => EndsLive(s, l, e, r)
         /\ EndsFrozen(s, l, d, q, r) => EndsFrozen(s, l, d, e, r)
<1> DEFINE N(p) == IF p < k THEN p ELSE p - 1
<1>1. k \in DOMAIN q /\ k >= 1 /\ k <= Len(q) /\ Len(q) \in Nat /\ Len(e) = Len(q) - 1
      /\ DOMAIN q = 1 .. Len(q) /\ DOMAIN e = 1 .. Len(e) /\ Len(e) \in Nat
  BY DEF Dropped
<1>2. ASSUME NEW p \in 0 .. Len(q), Source(s, l, q, p, r)
      PROVE  p # k /\ N(p) \in 0 .. Len(e) /\ Source(s, l, e, N(p), r)
  <2>1. p # k
    BY <1>1, <1>2 DEF Source
  <2>2. N(p) \in 0 .. Len(e)
    BY <1>1, <2>1
  <2>3. CASE p = 0
    BY <1>1, <1>2, <2>3 DEF Source
  <2>4. CASE p # 0
    <3>1. p \in DOMAIN q /\ N(p) \in DOMAIN e /\ N(p) # 0 /\ e[N(p)] = q[p]
      BY <1>1, <2>1, <2>4, DroppedMoves
    <3> QED
      BY <1>2, <2>4, <3>1 DEF Source
  <2> QED
    BY <2>1, <2>2, <2>3, <2>4
<1>3. ASSUME NEW p \in 0 .. Len(q)
      PROVE  (NoSeal(q, p) => NoSeal(e, N(p))) /\ (NoName(q, p) => NoName(e, N(p)))
  <2>1. p \in Int /\ N(p) \in Int
    BY <1>1
  <2> QED
    BY <2>1, AfterDrop
<1>4. ASSUME EndsLive(s, l, q, r) PROVE EndsLive(s, l, e, r)
  <2>1. PICK p \in 0 .. Len(q) : Source(s, l, q, p, r) /\ NoSeal(q, p)
    BY <1>4 DEF EndsLive
  <2> HIDE DEF N
  <2> QED
    BY <1>2, <1>3, <2>1 DEF EndsLive
<1>5. ASSUME EndsFrozen(s, l, d, q, r) PROVE EndsFrozen(s, l, d, e, r)
  <2>1. CASE r \in d /\ NoSeal(q, 0) /\ NoName(q, 0)
    <3>1. 0 \in 0 .. Len(q) /\ N(0) = 0
      BY <1>1
    <3> HIDE DEF N
    <3> QED
      BY <1>3, <2>1, <3>1 DEF EndsFrozen
  <2>2. ASSUME NEW p \in 0 .. Len(q), NEW j \in DOMAIN q,
               p < j, Source(s, l, q, p, r), IsSeal(q[j]), NoSeal(q, j), NoName(q, j),
               \A m \in DOMAIN q : p < m /\ m < j => ~IsSeal(q[m])
        PROVE  EndsFrozen(s, l, d, e, r)
    <3>1. j \in 0 .. Len(q) /\ j # k
      BY <1>1, <2>2
    <3>2. N(j) \in DOMAIN e /\ e[N(j)] = q[j]
      <4>1. CASE j < k
        BY <2>2, <4>1, DroppedMoves
      <4>2. CASE j > k
        BY <1>1, <2>2, <4>2, DroppedMoves
      <4> QED
        BY <1>1, <3>1, <4>1, <4>2
    <3>3. N(p) < N(j)
      BY <1>1, <1>2, <2>2, <3>1
    <3>4. ASSUME NEW m \in DOMAIN e, N(p) < m, m < N(j) PROVE ~IsSeal(e[m])
      <4>1. CASE m < k
        <5>1. m \in DOMAIN q /\ e[m] = q[m] /\ p < m /\ m < j
          BY <1>1, <3>4, <4>1, DroppedMoves
        <5> QED
          BY <2>2, <5>1
      <4>2. CASE ~(m < k)
        <5>1. m + 1 \in DOMAIN q /\ e[m] = q[m + 1] /\ p < m + 1 /\ m + 1 < j
          BY <1>1, <3>4, <4>2, DroppedMoves
        <5> QED
          BY <2>2, <5>1
      <4> QED
        BY <4>1, <4>2
    <3> HIDE DEF N
    <3>5. /\ N(p) \in 0 .. Len(e) /\ Source(s, l, e, N(p), r) /\ IsSeal(e[N(j)])
          /\ NoSeal(e, N(j)) /\ NoName(e, N(j))
      BY <1>2, <1>3, <2>2, <3>1, <3>2
    <3> QED
      BY <3>2, <3>3, <3>4, <3>5 DEF EndsFrozen
  <2> QED
    BY <1>5, <2>1, <2>2 DEF EndsFrozen
<1> QED
  BY <1>4, <1>5

\* Applying the oldest event moves a record on its way to where it ends.
LEMMA EndsApply ==
  ASSUME NEW s, NEW l, NEW d, NEW lx, NEW dx, NEW r, NEW q, NEW e, Dropped(q, e, 1),
         IsSeal(q[1]) => lx = {} /\ dx = l /\ Brings(s, q[1]) = {},
         ~IsSeal(q[1]) => lx = l \cup Brings(s, q[1]),
         ~IsSeal(q[1]) /\ ~IsNamed(q[1]) => dx = d
  PROVE  /\ EndsLive(s, l, q, r) => EndsLive(s, lx, e, r)
         /\ EndsFrozen(s, l, d, q, r) => EndsFrozen(s, lx, dx, e, r)
<1>1. /\ 1 \in DOMAIN q /\ Len(q) \in Nat /\ Len(e) = Len(q) - 1 /\ Len(e) \in Nat
      /\ DOMAIN q = 1 .. Len(q) /\ DOMAIN e = 1 .. Len(e)
      /\ \A i \in DOMAIN e : e[i] = q[i + 1]
  BY DEF Dropped
<1> DEFINE N(p) == IF p < 1 THEN 0 ELSE p - 1
<1>2. ASSUME NEW p \in 0 .. Len(q), Source(s, l, q, p, r), p = 0 => ~IsSeal(q[1])
      PROVE  N(p) \in 0 .. Len(e) /\ Source(s, lx, e, N(p), r)
  <2>1. CASE p = 0
    BY <1>1, <1>2, <2>1 DEF Source
  <2>2. CASE p = 1
    BY <1>1, <1>2, <2>2 DEF Source
  <2>3. CASE p > 1
    <3>1. N(p) \in DOMAIN e /\ N(p) # 0 /\ e[N(p)] = q[p] /\ p # 0 /\ N(p) \in 0 .. Len(e)
      BY <1>1, <2>3
    <3> QED
      BY <1>2, <3>1 DEF Source
  <2> QED
    BY <1>1, <2>1, <2>2, <2>3
<1>3. ASSUME NEW p \in 0 .. Len(q)
      PROVE  (NoSeal(q, p) => NoSeal(e, N(p))) /\ (NoName(q, p) => NoName(e, N(p)))
  <2>1. p \in Int /\ N(p) \in Int /\ N(p) = (IF p < 1 THEN p ELSE p - 1) /\ 1 \in Int
    BY <1>1
  <2> QED
    BY <2>1, AfterDrop
<1>4. ASSUME EndsLive(s, l, q, r) PROVE EndsLive(s, lx, e, r)
  <2>1. PICK p \in 0 .. Len(q) : Source(s, l, q, p, r) /\ NoSeal(q, p)
    BY <1>4 DEF EndsLive
  <2>2. p = 0 => ~IsSeal(q[1])
    BY <1>1, <2>1 DEF NoSeal
  <2> HIDE DEF N
  <2> QED
    BY <1>2, <1>3, <2>1, <2>2 DEF EndsLive
<1>5. ASSUME EndsFrozen(s, l, d, q, r) PROVE EndsFrozen(s, lx, dx, e, r)
  <2>1. CASE r \in d /\ NoSeal(q, 0) /\ NoName(q, 0)
    <3>1. 0 \in 0 .. Len(q) /\ N(0) = 0
      BY <1>1
    <3>2. dx = d
      BY <1>1, <2>1 DEF NoSeal, NoName
    <3> HIDE DEF N
    <3> QED
      BY <1>3, <2>1, <3>1, <3>2 DEF EndsFrozen
  <2>2. ASSUME NEW p \in 0 .. Len(q), NEW j \in DOMAIN q,
               p < j, Source(s, l, q, p, r), IsSeal(q[j]), NoSeal(q, j), NoName(q, j),
               \A m \in DOMAIN q : p < m /\ m < j => ~IsSeal(q[m])
        PROVE  EndsFrozen(s, lx, dx, e, r)
    <3>1. j \in 0 .. Len(q)
      BY <1>1
    <3>2. CASE j = 1
      <4>1. p = 0 /\ r \in dx /\ N(j) = 0
        BY <1>1, <2>2, <3>2 DEF Source
      <4> HIDE DEF N
      <4> QED
        BY <1>3, <2>2, <3>1, <4>1 DEF EndsFrozen
    <3>3. CASE j > 1
      <4>1. N(j) \in DOMAIN e /\ e[N(j)] = q[j] /\ N(p) < N(j)
        BY <1>1, <2>2, <3>3
      <4>2. p = 0 => ~IsSeal(q[1])
        BY <1>1, <2>2, <3>3
      <4>3. ASSUME NEW m \in DOMAIN e, N(p) < m, m < N(j) PROVE ~IsSeal(e[m])
        <5>1. m + 1 \in DOMAIN q /\ e[m] = q[m + 1] /\ p < m + 1 /\ m + 1 < j
          BY <1>1, <3>3, <4>3
        <5> QED
          BY <2>2, <5>1
      <4> HIDE DEF N
      <4>4. /\ N(p) \in 0 .. Len(e) /\ Source(s, lx, e, N(p), r) /\ IsSeal(e[N(j)])
            /\ NoSeal(e, N(j)) /\ NoName(e, N(j))
        BY <1>2, <1>3, <2>2, <3>1, <4>1, <4>2
      <4> QED
        BY <4>1, <4>3, <4>4 DEF EndsFrozen
    <3> QED
      BY <1>1, <3>2, <3>3
  <2> QED
    BY <1>5, <2>1, <2>2 DEF EndsFrozen
<1> QED
  BY <1>4, <1>5

\* A record of the transactor's memtable ends in the replica's, through
\* rotations, flushes and the deletion of segments and roots.
LEMMA MirrorStep ==
  ASSUME TypeOK, RootsInv, CaptureInv, SegmentsInv, DownInv, MirrorInv, [Next]_vars,
         TypeOK', SegmentsInv', CaptureInv'
  PROVE  MirrorInv'
<1> USE DEF logVars, memVars, flushVars, connVars, repVars, histVars
<1> DEFINE Held == live \cup (IF pending = NoRecord THEN {} ELSE {pending})
           Exempt == overtaking \cup contents[root]
           Live(r) == r \in buf' \/ EndsLive(segs', rlive', Sent', r)
           Frozen(r) == EndsFrozen(segs', rlive', rdraining', Sent', r)
<1> SUFFICES ASSUME Subscribed'
             PROVE  /\ \A r \in Held' \ Exempt' : Live(r)
                    /\ \A r \in draining' \ Exempt' : Live(r) \/ (seal' < 0 /\ Frozen(r))
  BY DEF MirrorInv, GoesLive, GoesFrozen
<1> DEFINE Goal == /\ \A r \in Held' \ Exempt' : Live(r)
                   /\ \A r \in draining' \ Exempt' : Live(r) \/ (seal' < 0 /\ Frozen(r))
<1>1. /\ Sent \in Seq(Frames) /\ buf \in SUBSET Records /\ contents[root] \subseteq contents'[root']
      /\ seal \in Int /\ (seal < 0 \/ seal >= 0)
  <2>1. seal \in Int /\ buf \in SUBSET Records
    BY DEF TypeOK
  <2>2. Sent \in Seq(Frames) /\ contents[root] \subseteq contents'[root']
    BY SentType, RootGrows
  <2> QED
    BY <2>1, <2>2
<1>2. ASSUME UNCHANGED <<link, evCh>> PROVE Sent' = Sent
  BY <1>2 DEF Sent
<1>3. ASSUME Subscribed
      PROVE  /\ \A r \in Held \ Exempt : r \in buf \/ EndsLive(segs, rlive, Sent, r)
             /\ \A r \in draining \ Exempt : \/ r \in buf \/ EndsLive(segs, rlive, Sent, r)
                                             \/ seal < 0 /\ EndsFrozen(segs, rlive, rdraining, Sent, r)
  BY <1>3 DEF MirrorInv, GoesLive, GoesFrozen
<1>4. ASSUME NEW q, NEW r, r \notin contents'[root']
      PROVE  /\ EndsLive(segs, rlive, q, r) => EndsLive(segs', rlive, q, r)
             /\ EndsFrozen(segs, rlive, rdraining, q, r) => EndsFrozen(segs', rlive, rdraining, q, r)
  <2>1. \A f : Brings(segs, f) \subseteq Brings(segs', f) \cup contents[root]
    BY BringsKept
  <2>2. r \notin contents[root]
    BY <1>1, <1>4
  <2> QED
    BY <2>1, <2>2, EndsSegments
<1>5. ASSUME Subscribed, UNCHANGED <<link, evCh, rlive, rdraining>>, buf \subseteq buf',
             overtaking' = overtaking, Held' \subseteq Held \cup buf',
             draining' \subseteq draining \cup Held,
             (seal' < 0 /\ seal < 0) \/ draining' \subseteq Held \/ UNCHANGED <<draining, seal>>
      PROVE  Goal
  <2>1. Sent' = Sent
    BY <1>2, <1>5
  <2>2. ASSUME NEW r \in Held \ Exempt' PROVE Live(r)
    BY <1>1, <1>3, <1>4, <1>5, <2>1, <2>2
  <2>3. ASSUME NEW r \in draining' \ Exempt',
               (seal' < 0 /\ seal < 0) \/ UNCHANGED <<draining, seal>>
        PROVE  Live(r) \/ (seal' < 0 /\ Frozen(r))
    <3>1. r \notin Exempt /\ r \notin contents'[root'] /\ (r \in draining \/ r \in Held)
      BY <1>1, <1>5, <2>3
    <3>2. CASE r \in Held
      BY <2>2, <2>3, <3>2
    <3>3. CASE r \in draining
      BY <1>3, <1>4, <1>5, <2>1, <2>3, <3>1, <3>3
    <3> QED
      BY <3>1, <3>2, <3>3
  <2> QED
    BY <1>5, <2>2, <2>3
<1>6. CASE Insert \/ DeleteDurable \/ PrepareFlush \/ Collect \/ UNCHANGED vars
  <2>1. /\ UNCHANGED <<conn, link, evCh, rlive, rdraining, buf, overtaking, draining, seal>>
        /\ Held' = Held
    BY <1>6 DEF Insert, DeleteDurable, PrepareFlush, Collect, vars
  <2> QED
    BY <1>5, <2>1 DEF Subscribed
<1>7. CASE CaptureFlush
  <2>1. /\ UNCHANGED <<conn, link, evCh, rlive, rdraining, buf, overtaking>> /\ Held' = {}
        /\ draining' = live
    BY <1>7 DEF CaptureFlush
  <2> QED
    BY <1>5, <2>1 DEF Subscribed
<1>8. CASE PublishFlush
  <2>1. /\ UNCHANGED <<conn, link, evCh, rlive, rdraining, buf, overtaking, seal>> /\ Held' = Held
        /\ draining' = {}
    BY <1>8 DEF PublishFlush
  <2> QED
    BY <1>5, <2>1 DEF Subscribed
\* Frames that are neither seals nor roots leave the ends alone.
<1>9. ASSUME Subscribed, UNCHANGED <<rlive, rdraining, overtaking, live, pending, draining, seal>>,
             NEW e \in Frames, ~IsSeal(e), IsNamed(e) => draining = {},
             Sent' = Append(Pushed(Sent, buf), e)
      PROVE  Goal
  <2>1. Pushed(Sent, buf) \in Seq(Frames)
    BY <1>1, EndsPush
  <2>2. ASSUME NEW r, r \notin Exempt', r \in buf \/ EndsLive(segs, rlive, Sent, r) PROVE Live(r)
    <3>1. r \in buf \/ EndsLive(segs', rlive, Sent, r)
      BY <1>4, <2>2
    <3>2. EndsLive(segs', rlive, Pushed(Sent, buf), r)
      BY <1>1, <3>1, EndsPush
    <3> QED
      BY <1>9, <2>1, <3>2, EndsAppend
  <2>3. ASSUME NEW r \in draining, r \notin Exempt', EndsFrozen(segs, rlive, rdraining, Sent, r)
        PROVE  Frozen(r)
    <3>1. EndsFrozen(segs', rlive, rdraining, Sent, r)
      BY <1>4, <2>3
    <3>2. EndsFrozen(segs', rlive, rdraining, Pushed(Sent, buf), r) /\ ~IsNamed(e)
      BY <1>1, <1>9, <2>3, <3>1, EndsPush
    <3> QED
      BY <1>9, <2>1, <3>2, EndsAppend
  <2>4. Held' = Held /\ \A r : r \notin Exempt' => r \notin Exempt
    BY <1>1, <1>9
  <2> QED
    BY <1>3, <1>9, <2>2, <2>3, <2>4
<1>10. ASSUME NEW r \in Own, Respond(r) PROVE Goal
  <2>1. UNCHANGED <<conn, rlive, rdraining, overtaking, live, pending, draining, seal>>
    BY <1>10 DEF Respond
  <2>2. ~IsSeal(Response(r)) /\ ~IsNamed(Response(r)) /\ Subscribed
    BY <2>1, FrameKinds DEF Subscribed
  <2> QED
    BY <1>9, <1>10, <2>1, <2>2, ResponseSends
<1>11. CASE Announce
  <2>1. /\ UNCHANGED <<conn, evCh, rlive, rdraining, overtaking, live, pending, draining, seal>>
        /\ Subscribed /\ Broadcast(buf, Root(root)) /\ draining = {}
    BY <1>11 DEF Announce, Subscribed, CaptureInv, Flushing
  <2>2. Root(root) \in Events /\ ~IsSeal(Root(root))
    BY NewestType, FrameTypes, FrameKinds
  <2> QED
    BY <1>1, <1>9, <2>1, <2>2, BroadcastSends
\* A seal turns what ends live into what ends frozen.
<1>12. ASSUME Subscribed, UNCHANGED <<rlive, rdraining, draining>>, seal >= 0, seal' < 0,
              overtaking \subseteq overtaking', Held' \subseteq overtaking',
              NEW b \in SUBSET Records, buf \subseteq b, Sent' = Append(Pushed(Sent, b), SealEv)
       PROVE  Goal
  <2>1. SealEv \in Frames /\ IsSeal(SealEv)
    BY FrameTypes, FrameKinds DEF Frames
  <2>2. ASSUME NEW r \in draining' \ Exempt' PROVE Frozen(r)
    <3>1. r \in buf \/ EndsLive(segs, rlive, Sent, r)
      BY <1>1, <1>3, <1>12, <2>2
    <3>2. r \in b \/ EndsLive(segs', rlive, Sent, r)
      BY <1>4, <1>12, <2>2, <3>1
    <3>3. EndsLive(segs', rlive, Pushed(Sent, b), r) /\ Pushed(Sent, b) \in Seq(Frames)
      BY <1>1, <3>2, EndsPush
    <3>4. EndsFrozen(segs', rlive, rdraining, Append(Pushed(Sent, b), SealEv), r)
      BY <2>1, <3>3, EndsAppend
    <3> QED
      BY <1>12, <3>4
  <2> QED
    BY <1>12, <2>2
<1>13. CASE Tick
  <2>1. /\ UNCHANGED <<conn, evCh, rlive, rdraining, overtaking, live, pending, draining>>
        /\ Subscribed /\ Broadcast(buf, SealEv) /\ seal >= 0 /\ seal' = -1
    BY <1>13 DEF Tick, Rotate, RotateSegment, Subscribed
  <2>2. Held' = {}
    BY <2>1 DEF CaptureInv
  <2>3. Sent' = Append(Pushed(Sent, buf), SealEv)
    BY <1>1, <2>1, BroadcastSends, FrameTypes
  <2> QED
    BY <1>1, <1>12, <2>1, <2>2, <2>3
<1>14. ASSUME NEW x \in Records, Sink(x) PROVE Goal
  <2>1. /\ UNCHANGED <<conn, evCh, rlive, rdraining, live, draining>> /\ Subscribed
        /\ pending = NoRecord /\ pending' = x
    BY <1>14 DEF Sink, Subscribed
  <2>2. Buffered(buf, {x}) = buf \cup {x} /\ buf \cup {x} \in SUBSET Records
    BY <1>1, <2>1 DEF Buffered
  <2>3. Held' \subseteq Held \cup {x}
    BY <2>1
  <2>4. CASE buf' = Buffered(buf, {x}) /\ UNCHANGED <<segIdx, seal, link, overtaking>>
    BY <1>5, <2>1, <2>2, <2>3, <2>4
  <2>5. CASE /\ seal >= 0 /\ Rotate({x}, Buffered(buf, {x}))
             /\ overtaking' = Buffered(overtaking, {x})
    <3>1. overtaking' = overtaking \cup {x}
      BY <2>1, <2>5 DEF Buffered
    <3>2. Held' \subseteq overtaking'
      BY <2>1, <2>5, <3>1 DEF CaptureInv
    <3>3. Broadcast(buf \cup {x}, SealEv) /\ seal' = -1
      BY <2>2, <2>5 DEF Rotate, RotateSegment
    <3>4. Sent' = Append(Pushed(Sent, buf \cup {x}), SealEv)
      BY <2>1, <2>2, <3>3, BroadcastSends, FrameTypes
    <3>5. /\ Subscribed /\ UNCHANGED <<rlive, rdraining, draining>> /\ seal >= 0 /\ seal' < 0
          /\ overtaking \subseteq overtaking' /\ buf \subseteq buf \cup {x}
      BY <2>1, <2>5, <3>1, <3>3
    <3> HIDE DEF Goal, Held
    <3> QED
      BY <1>12, <2>2, <3>2, <3>4, <3>5
  <2> QED
    BY <1>14, <2>4, <2>5 DEF Sink
<1>15. CASE Subscribe
  <2> DEFINE f == Snapshot(DOMAIN segs' \ {segIdx'}, segs'[segIdx'].recs, root)
  <2>1. f \in Frames /\ Sent' = Append(Sent, f) /\ ~IsSeal(f)
    BY <1>15, SubscribeSends, FrameKinds
  <2>2. Brings(segs', f) = segs'[segIdx'].recs
                           \cup UNION {segs'[i].recs : i \in (DOMAIN segs' \ {segIdx'}) \cap DOMAIN segs'}
    BY FrameKinds DEF Brings
  <2> HIDE DEF f
  <2>3. ASSUME NEW r \in sunk', r \notin Exempt' PROVE Live(r)
    <3>1. \E i \in DOMAIN segs' : r \in segs'[i].recs
      BY <2>3 DEF SegmentsInv, RecsIn
    <3>2. r \in Brings(segs', f)
      BY <2>2, <3>1
    <3> QED
      BY <1>1, <2>1, <3>2, EndsAppend
  <2>4. Held' \subseteq sunk' /\ draining' \subseteq sunk'
    BY DEF CaptureInv
  <2> QED
    BY <2>3, <2>4
<1>16. CASE ReadFrame
  <2> DEFINE k == Len(evCh) + 1
  <2>1. /\ UNCHANGED <<conn, segs, buf, rlive, rdraining, overtaking, live, pending, draining, seal,
                       contents, root>>
        /\ Subscribed
    BY <1>16 DEF ReadFrame, Subscribed
  <2>2. CASE Sent' = Sent
    BY <1>3, <2>1, <2>2
  <2>3. CASE Dropped(Sent, Sent', k) /\ ~IsSeal(Sent[k]) /\ Brings(segs, Sent[k]) = {}
    <3>1. k \in Int
      BY SentType
    <3> HIDE DEF k
    <3>2. \A r : /\ EndsLive(segs, rlive, Sent, r) => EndsLive(segs, rlive, Sent', r)
                 /\ EndsFrozen(segs, rlive, rdraining, Sent, r)
                      => EndsFrozen(segs, rlive, rdraining, Sent', r)
      BY <2>3, <3>1, EndsSkip
    <3> QED
      BY <1>3, <2>1, <3>2
  <2> QED
    BY <1>16, <2>2, <2>3, ReadMoves
<1>17. CASE ApplyEvent
  <2>1. /\ UNCHANGED <<conn, segs, buf, overtaking, live, pending, draining, seal, contents, root>>
        /\ Subscribed
    BY <1>17 DEF ApplyEvent, Subscribed
  <2>2. Dropped(Sent, Sent', 1) /\ Sent[1] = Head(evCh) /\ Sent[1] \in Events
    BY <1>17, ApplyTakes
  <2>3. /\ IsSeal(Sent[1]) => rlive' = {} /\ rdraining' = rlive
        /\ ~IsSeal(Sent[1]) => rlive' = rlive \cup Brings(segs, Sent[1])
        /\ ~IsSeal(Sent[1]) /\ ~IsNamed(Sent[1]) => rdraining' = rdraining
    BY <1>17, <2>2, Applies
  <2>4. IsSeal(Sent[1]) => Brings(segs, Sent[1]) = {}
    BY <2>2, EventKinds DEF Brings
  <2>5. \A r : /\ EndsLive(segs, rlive, Sent, r) => EndsLive(segs, rlive', Sent', r)
               /\ EndsFrozen(segs, rlive, rdraining, Sent, r)
                    => EndsFrozen(segs, rlive', rdraining', Sent', r)
    BY <2>2, <2>3, <2>4, EndsApply
  <2> QED
    BY <1>3, <2>1, <2>5
<1>18. CASE Dial \/ Disconnect \/ RestartReplica
  BY <1>18 DEF Dial, Disconnect, RestartReplica, Subscribed
<1> QED
  BY <1>6, <1>7, <1>8, <1>10, <1>11, <1>13, <1>14, <1>15, <1>16, <1>17, <1>18 DEF Next
-----------------------------------------------------------------------------
(* The theorems.                                                           *)

StoreInv == TypeOK /\ RootsInv /\ CaptureInv /\ SegmentsInv
ReplicationInv == StoreInv /\ DownInv /\ NamesInv /\ StreamInv /\ AckInv /\ MirrorInv

\* The invariant holds of a transactor and a replica that have just started.
LEMMA InitInv == Init => ReplicationInv
<1> SUFFICES ASSUME Init PROVE ReplicationInv
  OBVIOUS
<1> USE ReplicationRecords, ReplicationBounds
<1>1. Cardinality({0}) = 1 /\ {0} = 0 .. 0 /\ IsFiniteSet({}) /\ Cardinality({}) = 0
  <2>1. Cardinality({0}) = 1
    BY FS_Singleton
  <2>2. IsFiniteSet({}) /\ Cardinality({}) = 0
    BY FS_EmptySet
  <2>3. {0} = 0 .. 0
    OBVIOUS
  <2> QED
    BY <2>1, <2>2, <2>3
<1>2. Newest = 0 /\ DOMAIN contents = {0} /\ contents[0] = {} /\ contents = [n \in {0} |-> {}]
  BY <1>1 DEF Init, Newest
<1>3. Sent = <<>> /\ link \in Seq(Events \cup [id : Own]) /\ evCh \in Seq(Events)
  BY DEF Init, Sent
<1>4. /\ DOMAIN segs = {0} /\ segs[0] = [recs |-> {}, boundary |-> -1]
      /\ segs[0].recs = {} /\ segs[0].boundary = -1
  BY DEF Init
<1>5. TypeOK
  <2>1. contents \in [0 .. Cardinality(DOMAIN contents) - 1 -> SUBSET Records]
    BY <1>1, <1>2
  <2>2. DOMAIN segs \subseteq 0 .. MaxFlushes /\ segIdx \in DOMAIN segs
        /\ \A i \in DOMAIN segs : segs[i] \in [recs : SUBSET Records, boundary : Nat \cup {-1}]
    BY <1>4 DEF Init
  <2> QED
    BY <1>2, <1>3, <2>1, <2>2 DEF Init, TypeOK
<1>6. RootsInv
  BY <1>1, <1>2 DEF Init, RootsInv
<1>7. CaptureInv
  BY <1>1, <1>2 DEF Init, CaptureInv, Flushing
<1>8. SegmentsInv
  BY <1>2, <1>4 DEF Init, SegmentsInv, Flushing
<1>9. DownInv /\ NamesInv /\ StreamInv /\ AckInv /\ MirrorInv
  BY <1>2, <1>3 DEF Init, DownInv, NamesInv, StreamInv, AckInv, Ordered, MirrorInv, Subscribed
<1> QED
  BY <1>5, <1>6, <1>7, <1>8, <1>9 DEF ReplicationInv, StoreInv

\* Every step keeps the invariant.
LEMMA NextInv == ReplicationInv /\ [Next]_vars => ReplicationInv'
<1> SUFFICES ASSUME ReplicationInv, [Next]_vars PROVE ReplicationInv'
  OBVIOUS
<1> USE DEF ReplicationInv, StoreInv
<1>1. StoreInv'
  BY TypeStep, RootsStep, CaptureStep, SegmentsStep
<1>2. DownInv' /\ NamesInv' /\ StreamInv' /\ AckInv' /\ MirrorInv'
  BY <1>1, DownStep, NamesStep, StreamStep, AckStep, MirrorStep
<1> QED
  BY <1>1, <1>2

\* Everything proved below rests on this invariant.
THEOREM Invariance == Spec => []ReplicationInv
BY InitInv, NextInv, PTL DEF Spec

\* No broadcast, snapshot, rotation or flush takes a variable out of its type:
\* the queue of a connection holds frames of the protocol, the reader hands
\* only events to the applier, and the root in use and the replica's root
\* exist.
THEOREM TypeCorrect == Spec => []TypeOK
<1>1. ReplicationInv => TypeOK
  BY DEF ReplicationInv, StoreInv
<1> QED
  BY <1>1, Invariance, PTL

\* What the queues hold.
LEMMA QueuedFrames ==
  ASSUME TypeOK, NEW i \in DOMAIN Sent, "ev" \in DOMAIN Sent[i]
  PROVE  Carries(Sent[i]) \subseteq Queued(link) \cup Queued(evCh)
<1>1. link \in Seq(Frames) /\ evCh \in Seq(Frames) /\ i \in 1 .. Len(evCh) + Len(link)
  BY SentType DEF Sent
<1>2. CASE i <= Len(evCh)
  <2>1. i \in DOMAIN evCh /\ Sent[i] = evCh[i]
    BY <1>1, <1>2 DEF Sent
  <2> QED
    BY <2>1 DEF Queued
<1>3. CASE i > Len(evCh)
  <2>1. i - Len(evCh) \in DOMAIN link /\ Sent[i] = link[i - Len(evCh)]
    BY <1>1, <1>3 DEF Sent
  <2> QED
    BY <2>1 DEF Queued
<1> QED
  BY <1>1, <1>2, <1>3

\* The records of a frame under way are counted among those queued on one of the two channels.
LEMMA FrameCarries ==
  ASSUME TypeOK, NEW i \in DOMAIN Sent
  PROVE  /\ Brings(segs, Sent[i]) \subseteq Queued(link) \cup Queued(evCh)
         /\ IsNamed(Sent[i]) => contents[Sent[i].name] \subseteq Queued(link) \cup Queued(evCh)
<1> DEFINE f == Sent[i]
<1>1. f \in Frames
  BY SentType
<1>2. CASE f \in [id : Own] /\ ~IsWal(f) /\ ~IsNamed(f) /\ ~IsSnapshot(f)
  BY <1>2 DEF Brings
<1>3. CASE f \in Events /\ "ev" \in DOMAIN f
  <2>1. Carries(f) \subseteq Queued(link) \cup Queued(evCh)
    BY <1>3, QueuedFrames
  <2> HIDE DEF f
  <2>2. Brings(segs, f) \subseteq Carries(f) /\ (IsNamed(f) => contents[f.name] \subseteq Carries(f))
    <3>1. CASE f.ev = "wal" /\ IsWal(f) /\ ~IsNamed(f)
      BY <3>1 DEF Brings, Carries
    <3>2. CASE f.ev = "seal" /\ ~IsWal(f) /\ ~IsNamed(f) /\ ~IsSnapshot(f)
      BY <3>2 DEF Brings
    <3>3. CASE f.ev = "root" /\ ~IsWal(f) /\ ~IsSnapshot(f)
      BY <3>3 DEF Brings, Carries
    <3>4. CASE f.ev = "snapshot" /\ ~IsWal(f) /\ IsSnapshot(f)
      BY <3>4 DEF Brings, Carries, RecsIn
    <3> QED
      BY <1>3, <3>1, <3>2, <3>3, <3>4, EventKinds
  <2> QED
    BY <2>1, <2>2 DEF f
<1> QED
  BY <1>1, <1>2, <1>3, FrameIsEvent

\* While the query server is registered, every record of the transactor's log
\* has reached the replica, or is in a frame on its way, or is in a root that
\* is about to be announced: registering under the WAL lock leaves no gap
\* between the snapshot and the stream, also when segments or roots that were
\* listed are deleted before the replica reads them.
THEOREM StreamIsComplete == Spec => []StreamComplete
<1>1. ReplicationInv => StreamComplete
  <2> SUFFICES ASSUME ReplicationInv, Subscribed, NEW r \in sunk
               PROVE  r \in received \cup buf \cup Queued(link) \cup Queued(evCh)
                           \cup (IF flush = "published" THEN contents[root] ELSE {})
    BY DEF StreamComplete
  <2> USE DEF ReplicationInv, StoreInv
  <2>1. CASE r \in received \cup buf
    BY <2>1
  <2>2. CASE Carried(segs, Sent, r)
    BY <2>2, FrameCarries DEF Carried
  <2>3. CASE r \in contents[root] /\ flush # "published"
    <3>1. CASE Names(Sent, root)
      <4>1. PICK i \in DOMAIN Sent : IsNamed(Sent[i]) /\ Sent[i].name = root
        BY <3>1 DEF Names
      <4> QED
        BY <2>3, <4>1, FrameCarries
    <3>2. CASE rroot >= root
      <4>1. contents[root] \subseteq contents[rroot]
        BY <3>2 DEF RootsInv, TypeOK
      <4> QED
        BY <2>3, <4>1 DEF DownInv
    <3> QED
      BY <2>3, <3>1, <3>2 DEF NamesInv
  <2> QED
    BY <2>1, <2>2, <2>3 DEF StreamInv
<1> QED
  BY <1>1, Invariance, PTL

\* When a client of the query server has its answer, the record is with the
\* replica or in its event queue, unless the connection was not registered
\* when the answer was sent: writeFrameQueued flushes the buffered WAL bytes
\* ahead of the response and the connection keeps the order.
THEOREM AcksFollowWal == Spec => []AckedAfterWal
<1>1. ReplicationInv => AckedAfterWal
  <2> SUFFICES ASSUME ReplicationInv, NEW r \in acked \ direct
               PROVE  r \in received \cup Queued(evCh)
    BY DEF AckedAfterWal
  <2> USE DEF ReplicationInv, StoreInv
  <2>1. CASE WalIn(evCh, r)
    <3>1. PICK j \in DOMAIN evCh : IsWal(evCh[j]) /\ r \in evCh[j].recs
      BY <2>1 DEF WalIn
    <3>2. evCh[j] \in Events
      BY SentType
    <3>3. evCh[j] \in Frames
      BY <3>2 DEF Frames
    <3>4. evCh[j].ev = "wal" /\ "ev" \in DOMAIN evCh[j]
      BY <3>1, <3>2, <3>3, EventKinds, FrameIsEvent
    <3>5. r \in Carries(evCh[j])
      BY <3>1, <3>4 DEF Carries
    <3> QED
      BY <3>4, <3>5 DEF Queued
  <2> QED
    BY <2>1 DEF AckInv
<1> QED
  BY <1>1, Invariance, PTL

\* Once nothing is on its way, the replica shows what the transactor shows,
\* but for the records that Sink broadcast ahead of the seal of the segment
\* before them: through disconnects, restarts, flushes at any point of the
\* stream and the deletion of segments and roots.
THEOREM Mirrors == Spec => []ReplicaMirrors
<1>1. ReplicationInv => ReplicaMirrors
  <2> SUFFICES ASSUME ReplicationInv, AtRest, NEW r \in Visible, r \notin overtaking
               PROVE  r \in ReplicaVisible
    BY DEF ReplicaMirrors
  <2> USE DEF ReplicationInv, StoreInv
  <2>1. /\ Subscribed /\ buf = {} /\ Sent = <<>> /\ flush # "published" /\ Len(Sent) = 0
        /\ DOMAIN Sent = {}
    BY DEF AtRest, Sent
  <2>2. CASE r \in contents[root]
    <3>1. rroot >= root
      BY <2>1 DEF NamesInv, Names
    <3>2. contents[root] \subseteq contents[rroot]
      BY <3>1 DEF RootsInv, TypeOK
    <3> QED
      BY <2>2, <3>2 DEF ReplicaVisible
  <2>3. ASSUME EndsLive(segs, rlive, Sent, r) PROVE r \in rlive
    BY <2>1, <2>3 DEF EndsLive, Source
  <2>4. ASSUME EndsFrozen(segs, rlive, rdraining, Sent, r) PROVE r \in rdraining
    BY <2>1, <2>4 DEF EndsFrozen
  <2>5. CASE r \notin contents[root]
    <3>1. r \in live \/ r \in draining
      BY <2>5 DEF Visible
    <3> QED
      BY <2>1, <2>3, <2>4, <2>5, <3>1 DEF MirrorInv, GoesLive, GoesFrozen, ReplicaVisible
  <2> QED
    BY <2>2, <2>5
<1> QED
  BY <1>1, Invariance, PTL
=============================================================================
