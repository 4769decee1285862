---------------------------- MODULE Replication ----------------------------
(***************************************************************************)
(* WAL streaming from the transactor to the read-only replica of a query   *)
(* server: the broadcasts of internal/replication, the snapshot a          *)
(* subscriber starts from (wal.SnapshotLocked, Engine.Serve), the          *)
(* multiplexed connection of internal/downstream that carries events and   *)
(* responses, and the replica's memtable and root (internal/replica).      *)
(*                                                                         *)
(* A record is one batch of the log, as in Durability; the log never fails *)
(* here, so Sink leaves its buffer empty.  The output queue of a           *)
(* subscriber, drained in order, and the socket are one FIFO, link.  Root  *)
(* n is the n-th root published; contents[n] is what its trees reach.      *)
(* Engine.Serve handles the frames of a connection one at a time, so at    *)
(* most one request of this query server is in progress.                   *)
(***************************************************************************)
EXTENDS Integers, Sequences, FiniteSets

CONSTANTS
  Records,      \* batches written at the transactor, each at most once
  Own,          \* the ones that arrive through this query server
  NoRecord,     \* no batch is between Sink and the memtable
  Faults,       \* which of FaultKinds can happen
  MaxFlushes,   \* bound on flush captures
  MaxConnects   \* bound on connections of the query server

FaultKinds ==
  {"disconnect",  \* the connection breaks
   "restart",     \* the query server restarts with an empty memtable
   "early"}       \* a forwarded request overtakes the replicate request

ASSUME ReplicationFaults == Faults \subseteq FaultKinds
ASSUME ReplicationRecords == Own \subseteq Records /\ NoRecord \notin Records
ASSUME ReplicationBounds == MaxFlushes \in Nat /\ MaxConnects \in Nat

VARIABLES
  (* transactor: log, memtable, flush *)
  sunk,        \* records in the log so far
  segs,        \* segment files: index |-> [recs, boundary], -1 while current
  segIdx,      \* index of the current segment
  seal,        \* Writer.sealBoundary
  durable,     \* Writer.durable
  pending,     \* journaled, not yet in the memtable (Engine.mu is held)
  reply,       \* own records whose response is not enqueued yet
  live, draining,
  flush,       \* "idle", "captured", "prepared" or "published"
  boundary,    \* FlushBatch.SealBoundary
  root,        \* Store.currentRoot
  contents,    \* root |-> records it reaches
  onDisk,      \* roots present in the blob store
  (* the connection *)
  conn,        \* "down", "dialed" or "subscribed"
  connects,
  buf,         \* Subscriber.buf: WAL bytes no frame carries yet
  link,        \* Subscriber.queue and the socket
  evCh,        \* Conn.evCh: events read and not yet applied
  acked,       \* own records acknowledged to a client over this connection
  (* replica *)
  rlive, rdraining, rroot,
  (* history *)
  received,    \* every record that reached the replica
  overtaking,  \* records broadcast ahead of the seal of the segment before them
  direct       \* own records answered on an unregistered connection

logVars   == <<sunk, segs, segIdx, seal, durable>>
memVars   == <<pending, reply, live, draining>>
flushVars == <<flush, boundary, root, contents, onDisk>>
connVars  == <<conn, connects, buf, link, evCh, acked>>
repVars   == <<rlive, rdraining, rroot, received>>
histVars  == <<overtaking, direct>>
vars == <<logVars, memVars, flushVars, connVars, repVars, histVars>>

RecsIn(is) == UNION {segs[i].recs : i \in is}
Visible == live \cup draining \cup contents[root]
ReplicaVisible == rlive \cup rdraining \cup contents[rroot]
logicalEnd == Cardinality(sunk)

Wal(rs)     == [ev |-> "wal", recs |-> rs]
SealEv      == [ev |-> "seal"]
Root(n)     == [ev |-> "root", name |-> n]
Snapshot(is, rs, n) == [ev |-> "snapshot", sealed |-> is, tail |-> rs, name |-> n]
Response(r) == [id |-> r]
Events == [ev : {"wal"}, recs : SUBSET Records] \cup {SealEv}
          \cup [ev : {"root"}, name : 0 .. MaxFlushes]
          \cup [ev : {"snapshot"}, sealed : SUBSET (0 .. MaxFlushes),
                tail : SUBSET Records, name : 0 .. MaxFlushes]

TypeOK ==
  /\ sunk \subseteq Records
  /\ DOMAIN segs \subseteq 0 .. MaxFlushes
  /\ \A i \in DOMAIN segs : segs[i] \in [recs : SUBSET Records, boundary : Nat \cup {-1}]
  /\ segIdx \in DOMAIN segs
  /\ seal \in Nat \cup {-1} /\ durable \in Nat \cup {-1} /\ boundary \in Nat \cup {-1}
  /\ pending \in Records \cup {NoRecord}
  /\ reply \subseteq Own
  /\ live \subseteq Records /\ draining \subseteq Records
  /\ flush \in {"idle", "captured", "prepared", "published"}
  /\ root \in DOMAIN contents /\ rroot \in DOMAIN contents
  /\ contents \in [0 .. Cardinality(DOMAIN contents) - 1 -> SUBSET Records]
  /\ onDisk \subseteq DOMAIN contents
  /\ conn \in {"down", "dialed", "subscribed"}
  /\ connects \in 0 .. MaxConnects
  /\ buf \subseteq Records
  /\ link \in Seq(Events \cup [id : Own])
  /\ evCh \in Seq(Events)
  /\ acked \subseteq Own
  /\ rlive \subseteq Records /\ rdraining \subseteq Records /\ received \subseteq Records
  /\ overtaking \subseteq Records /\ direct \subseteq Own
-----------------------------------------------------------------------------
(* The hub.  Broadcasts reach the subscriber only once it is registered.   *)

Subscribed == conn = "subscribed"

\* flushBufLocked: what is buffered becomes one wal frame.
Flushed == IF buf = {} THEN link ELSE Append(link, Wal(buf))

\* BroadcastWal copies into the buffer and wakes nobody.
Buffered(b, rs) == IF Subscribed THEN b \cup rs ELSE b

\* BroadcastSeal and BroadcastRoot flush the buffer, given as b, first.
Broadcast(b, e) ==
  IF Subscribed
  THEN /\ link' = Append(IF b = {} THEN link ELSE Append(link, Wal(b)), e)
       /\ buf' = {}
  ELSE UNCHANGED <<link, buf>>

-----------------------------------------------------------------------------
(* The log.                                                                *)

\* drainLocked at a pending boundary: the segment is sealed and the next one
\* takes what follows.
RotateSegment(rest) ==
  /\ segs' = [i \in DOMAIN segs \cup {segIdx + 1} |->
                IF i = segIdx THEN [segs[i] EXCEPT !.boundary = seal]
                ELSE IF i = segIdx + 1 THEN [recs |-> rest, boundary |-> -1]
                ELSE segs[i]]
  /\ segIdx' = segIdx + 1
  /\ seal' = -1

\* With the OnSeal call; b is what the subscriber has buffered.
Rotate(rest, b) == RotateSegment(rest) /\ Broadcast(b, SealEv)

\* wal.Sink: OnWal is called before drainLocked, which may rotate.
Sink(r) ==
  /\ pending = NoRecord
  /\ flush # "published"
  /\ r \notin sunk
  /\ r \in Own => conn # "down" /\ reply = {}
                  /\ (conn = "dialed" => "early" \in Faults)
  /\ sunk' = sunk \cup {r}
  /\ pending' = r
  /\ reply' = IF r \in Own THEN reply \cup {r} ELSE reply
  /\ \/ /\ seal < 0
        /\ segs' = [segs EXCEPT ![segIdx].recs = @ \cup {r}]
        /\ buf' = Buffered(buf, {r})
        /\ UNCHANGED <<segIdx, seal, link, overtaking>>
     \/ /\ seal >= 0
        /\ Rotate({r}, Buffered(buf, {r}))
        /\ overtaking' = Buffered(overtaking, {r})
  /\ UNCHANGED <<durable, live, draining, flushVars, conn, connects, evCh,
                 acked, repVars, direct>>

\* The cycle goroutine: drain, which rotates if a seal is pending ...
Tick ==
  /\ seal >= 0
  /\ Rotate({}, buf)
  /\ UNCHANGED <<sunk, durable, memVars, flushVars, conn, connects,
                 evCh, acked, repVars, histVars>>

\* ... and delete what is durable in the page store.
DeleteDurable ==
  /\ LET gone == {i \in DOMAIN segs : segs[i].boundary \in 0 .. durable}
     IN /\ gone # {}
        /\ segs' = [i \in DOMAIN segs \ gone |-> segs[i]]
  /\ UNCHANGED <<sunk, segIdx, seal, durable, memVars, flushVars,
                 connVars, repVars, histVars>>

\* The memtable insert; Engine.mu is released.
Insert ==
  /\ pending # NoRecord
  /\ live' = live \cup {pending}
  /\ pending' = NoRecord
  /\ UNCHANGED <<logVars, reply, draining, flushVars, connVars, repVars, histVars>>

\* Mutant: the response overtakes the buffered WAL bytes.
RespondUnflushed(r) ==
  /\ r \in reply
  /\ r # pending
  /\ reply' = reply \ {r}
  /\ link' = Append(link, Response(r))
  /\ UNCHANGED <<logVars, pending, live, draining, flushVars, conn, connects,
                 buf, evCh, acked, repVars, histVars>>

\* writeFrameQueued: through the subscriber's queue, or straight to the socket
\* when the connection is not registered.
Respond(r) ==
  /\ r \in reply
  /\ r # pending
  /\ reply' = reply \ {r}
  /\ \/ conn = "subscribed" /\ link' = Append(Flushed, Response(r)) /\ buf' = {}
     \/ conn = "dialed"     /\ link' = Append(link, Response(r)) /\ UNCHANGED buf
  /\ direct' = IF conn = "dialed" THEN direct \cup {r} ELSE direct
  /\ UNCHANGED <<logVars, pending, live, draining, flushVars, conn, connects,
                 evCh, acked, repVars, overtaking>>

-----------------------------------------------------------------------------
(* The flush and the auto-GC of the runner.                                *)

CaptureFlush ==
  /\ pending = NoRecord
  /\ flush = "idle"
  /\ Cardinality(DOMAIN contents) <= MaxFlushes
  /\ draining' = live
  /\ live' = {}
  /\ seal' = logicalEnd
  /\ boundary' = logicalEnd
  /\ flush' = "captured"
  /\ UNCHANGED <<sunk, segs, segIdx, durable, pending, reply, root,
                 contents, onDisk, connVars, repVars, histVars>>

PrepareFlush ==
  /\ flush = "captured"
  /\ LET n == Cardinality(DOMAIN contents)
     IN /\ contents' = [i \in 0 .. n |-> IF i = n THEN contents[root] \cup draining
                                                  ELSE contents[i]]
        /\ onDisk' = onDisk \cup {n}
  /\ flush' = "prepared"
  /\ UNCHANGED <<logVars, memVars, boundary, root, connVars, repVars, histVars>>

\* Under Engine.mu: the trees are swapped and the log may be cut ...
PublishFlush ==
  /\ pending = NoRecord
  /\ flush = "prepared"
  /\ root' = Cardinality(DOMAIN contents) - 1
  /\ draining' = {}
  /\ durable' = boundary
  /\ flush' = "published"
  /\ UNCHANGED <<sunk, segs, segIdx, seal, pending, reply, live,
                 boundary, contents, onDisk, connVars, repVars, histVars>>

\* ... and then OnFlushPublish broadcasts the root, still under Engine.mu.
Announce ==
  /\ flush = "published"
  /\ Broadcast(buf, Root(root))
  /\ flush' = "idle"
  /\ UNCHANGED <<logVars, memVars, boundary, root, contents, onDisk, conn,
                 connects, evCh, acked, repVars, histVars>>

\* GcFull with the limits of NewEngineConfig keeps the newest root.
Collect ==
  /\ flush = "idle"
  /\ onDisk # {root}
  /\ onDisk' = {root}
  /\ UNCHANGED <<logVars, memVars, flush, boundary, root, contents, connVars,
                 repVars, histVars>>

-----------------------------------------------------------------------------
(* The connection.                                                         *)

Dial ==
  /\ conn = "down"
  /\ connects < MaxConnects
  /\ conn' = "dialed"
  /\ connects' = connects + 1
  /\ UNCHANGED <<logVars, memVars, flushVars, buf, link, evCh, acked, repVars, histVars>>

\* Mutant: only the bytes of the current segment travel, without a drain.
SubscribeTailOnly ==
  /\ conn = "dialed"
  /\ reply = {}
  /\ link' = Append(link, Snapshot({}, segs[segIdx].recs, root))
  /\ conn' = "subscribed"
  /\ UNCHANGED <<logVars, memVars, flushVars, connects, buf, evCh, acked, repVars, histVars>>

\* Engine.Serve on {"type":"replicate"}: under the WAL lock, drain, list the
\* other segments, read the current one, register and enqueue the snapshot.
\* The subscriber is not registered yet when the drain emits a seal.
Subscribe ==
  /\ conn = "dialed"
  /\ reply = {}
  /\ \/ seal < 0 /\ UNCHANGED <<segs, segIdx, seal>>
     \/ seal >= 0 /\ RotateSegment({})
  /\ link' = Append(link, Snapshot(DOMAIN segs' \ {segIdx'}, segs'[segIdx'].recs, root))
  /\ conn' = "subscribed"
  /\ UNCHANGED <<sunk, durable, memVars, flushVars, connects, buf, evCh,
                 acked, repVars, histVars>>

\* Mutant: a response is taken for an event.
ReadFrameMisrouted ==
  /\ link # <<>>
  /\ evCh' = Append(evCh, Head(link))
  /\ link' = Tail(link)
  /\ UNCHANGED <<logVars, memVars, flushVars, conn, connects, buf, acked, repVars, histVars>>

\* readerLoop: events go to the applier, a response to the waiting request.
ReadFrame ==
  /\ link # <<>>
  /\ LET f == Head(link)
     IN IF "ev" \in DOMAIN f
        THEN evCh' = Append(evCh, f) /\ UNCHANGED acked
        ELSE acked' = acked \cup {f.id} /\ UNCHANGED evCh
  /\ link' = Tail(link)
  /\ UNCHANGED <<logVars, memVars, flushVars, conn, connects, buf, repVars, histVars>>

\* The connection ends: queued events are dropped (dropEvents), requests that
\* wait for a response fail, the hub removes the subscriber.  The handler of a
\* request in progress finishes, its answer goes nowhere.
Disconnect ==
  /\ "disconnect" \in Faults
  /\ conn # "down"
  /\ conn' = "down"
  /\ buf' = {}
  /\ link' = <<>>
  /\ evCh' = <<>>
  /\ acked' = {}
  /\ reply' = {}
  /\ UNCHANGED <<logVars, pending, live, draining, flushVars, connects, repVars, histVars>>

\* A new query server process opens the newest root in the blob store and
\* replays no journal.
RestartReplica ==
  /\ "restart" \in Faults
  /\ conn = "down"
  /\ connects < MaxConnects
  /\ rlive' = {}
  /\ rdraining' = {}
  /\ rroot' = CHOOSE n \in onDisk : \A m \in onDisk : m <= n
  /\ received' = contents[rroot']
  /\ UNCHANGED <<logVars, memVars, flushVars, connVars, histVars>>

-----------------------------------------------------------------------------
(* The replica applies events one at a time.                               *)

\* PublishRoot: a root that is gone is not loaded and the frozen runs stay.
LoadRoot(n) ==
  IF n \in onDisk THEN rroot' = n /\ rdraining' = {}
                  ELSE UNCHANGED <<rroot, rdraining>>

\* Mutant: the live memtable is cleared and not promoted.
SealDiscards == rlive' = {} /\ UNCHANGED rdraining

\* ApplySeal: the live memtable is promoted to the frozen runs.
ApplySeal == rdraining' = rlive /\ rlive' = {}

Applied(f) ==
  CASE f.ev = "snapshot" ->
         LET recs == f.tail \cup RecsIn(f.sealed \cap DOMAIN segs)
         IN /\ rlive' = rlive \cup recs
            /\ LoadRoot(f.name)
            /\ received' = received \cup recs \cup contents[rroot']
    [] f.ev = "wal" ->
         /\ rlive' = rlive \cup f.recs
         /\ received' = received \cup f.recs
         /\ UNCHANGED <<rdraining, rroot>>
    [] f.ev = "seal" ->
         /\ ApplySeal
         /\ UNCHANGED <<rroot, received>>
    [] f.ev = "root" ->
         /\ LoadRoot(f.name)
         /\ received' = received \cup contents[rroot']
         /\ UNCHANGED rlive

\* Mutant: the last event of the queue waits for the next one.
ApplyEventLate ==
  /\ Len(evCh) > 1
  /\ Applied(Head(evCh))
  /\ evCh' = Tail(evCh)
  /\ UNCHANGED <<logVars, memVars, flushVars, conn, connects, buf, link, acked, histVars>>

ApplyEvent ==
  /\ evCh # <<>>
  /\ Applied(Head(evCh))
  /\ evCh' = Tail(evCh)
  /\ UNCHANGED <<logVars, memVars, flushVars, conn, connects, buf, link, acked, histVars>>

-----------------------------------------------------------------------------
Init ==
  /\ sunk = {}
  /\ segs = [i \in {0} |-> [recs |-> {}, boundary |-> -1]]
  /\ segIdx = 0
  /\ seal = -1 /\ durable = -1 /\ boundary = -1
  /\ pending = NoRecord
  /\ reply = {} /\ live = {} /\ draining = {}
  /\ flush = "idle"
  /\ root = 0
  /\ contents = [n \in {0} |-> {}]
  /\ onDisk = {0}
  /\ conn = "down"
  /\ connects = 0
  /\ buf = {}
  /\ link = <<>> /\ evCh = <<>>
  /\ acked = {}
  /\ rlive = {} /\ rdraining = {} /\ rroot = 0
  /\ received = {} /\ overtaking = {} /\ direct = {}

Next ==
  \/ \E r \in Records : Sink(r)
  \/ Insert
  \/ \E r \in Own : Respond(r)
  \/ Tick
  \/ DeleteDurable
  \/ CaptureFlush
  \/ PrepareFlush
  \/ PublishFlush
  \/ Announce
  \/ Collect
  \/ Dial
  \/ Subscribe
  \/ ReadFrame
  \/ Disconnect
  \/ RestartReplica
  \/ ApplyEvent

Spec == Init /\ [][Next]_vars

\* Goroutines that are runnable run: the request handler, the reader and the
\* applier of the query server, the cycle of the log, the flush runner.
Fairness ==
  /\ WF_vars(Insert)
  /\ WF_vars(\E r \in Own : Respond(r))
  /\ WF_vars(Tick)
  /\ WF_vars(PrepareFlush) /\ WF_vars(PublishFlush) /\ WF_vars(Announce)
  /\ WF_vars(Subscribe)
  /\ WF_vars(ReadFrame)
  /\ WF_vars(ApplyEvent)

FairSpec == Spec /\ Fairness
-----------------------------------------------------------------------------
(* Properties.                                                             *)

\* What a queued event will still bring to the replica.
Carries(f) ==
  CASE f.ev = "wal"      -> f.recs
    [] f.ev = "root"     -> contents[f.name]
    [] f.ev = "snapshot" -> f.tail \cup RecsIn(f.sealed \cap DOMAIN segs)
                            \cup contents[f.name]
    [] OTHER             -> {}

Queued(q) == UNION {IF "ev" \in DOMAIN q[i] THEN Carries(q[i]) ELSE {} : i \in DOMAIN q}

\* Nothing falls between the snapshot and the stream: every record of the log
\* has reached the replica, or is on its way to it, or is in a root that is
\* about to be announced.  Registration races the writer, the rotation and the
\* deletion of the segments the snapshot lists.
StreamComplete ==
  Subscribed => sunk \subseteq received \cup buf \cup Queued(link) \cup Queued(evCh)
                        \cup (IF flush = "published" THEN contents[root] ELSE {})

\* docs/replication.md: the request's wal frames are written "before the
\* response on the same transport".  When a client has its answer, the record
\* has been handed to the replica or waits in its event queue.  A connection
\* that is not registered yet gets its response without any stream.
AckedAfterWal == acked \ direct \subseteq received \cup Queued(evCh)

\* Nothing is on its way between the two engines.
AtRest ==
  /\ Subscribed
  /\ buf = {} /\ link = <<>> /\ evCh = <<>>
  /\ pending = NoRecord /\ seal < 0 /\ flush # "published"

\* docs/replication.md: "Replica state (exact mirror of the transactor)".
ReplicaIsExactMirror == AtRest => Visible \subseteq ReplicaVisible

\* The same, for all records but those that overtook a seal: through
\* disconnects, restarts, a flush with its seal and its root, and the deletion
\* of segments and roots.
ReplicaMirrors == AtRest => Visible \ overtaking \subseteq ReplicaVisible

\* An acknowledged write of this query server shows on its replica unless the
\* connection breaks, also when it was answered before the subscription.
OwnWritesShow ==
  \A r \in Own : r \in acked ~> (r \in ReplicaVisible \cup overtaking \/ conn = "down")
=============================================================================
