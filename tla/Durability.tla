----------------------------- MODULE Durability -----------------------------
(***************************************************************************)
(* The durability core of the transactor: the segmented write-ahead log    *)
(* (internal/wal), the live/draining halves of the memtable                *)
(* (internal/memtable), the capture / prepare / publish / abort flush of   *)
(* internal/kvstore and the root of the page store, through process and    *)
(* machine crashes and the bootstrap that replays the log.                 *)
(*                                                                         *)
(* A record is one batch handed to wal.Writer.Sink: the CF-0 keys of one   *)
(* eavt.Engine.BatchWrite.  Keys are immutable datoms, so the contents of  *)
(* a memtable half, of a segment and of a tree are sets of records and a   *)
(* replay of a record that is already there changes nothing.  A byte       *)
(* offset of the log is abstracted to the number of records before it.     *)
(***************************************************************************)
EXTENDS Integers, FiniteSets

CONSTANTS
  Records,     \* the batches clients may write, each written at most once
  NoRecord,    \* no batch is between Sink and MT.Batch
  Faults,      \* which of FaultKinds can happen
  MaxCrashes,  \* bound on crashes and shutdowns
  MaxFlushes   \* bound on flush captures

FaultKinds ==
  {"write",    \* WriteAt on a segment fails, the bytes stay in the buffer
   "prepare",  \* the blob I/O of a flush fails after the capture
   "process",  \* the process is killed; the page cache survives
   "machine"}  \* the machine stops; what was not written back is lost

ASSUME FaultsAssumption == Faults \subseteq FaultKinds
ASSUME NoRecordAssumption == NoRecord \notin Records
ASSUME BoundsAssumption == MaxCrashes \in Nat /\ MaxFlushes \in Nat

VARIABLES
  engine,        \* "open" between NewEngineConfig and Close or a crash
  (* wal.Writer *)
  buf,           \* records appended by Sink and not yet written to a segment
  at,            \* logical end offset of a record of this session, else 0
  logicalEnd,    \* Writer.logicalEnd
  sealBoundary,  \* Writer.sealBoundary; -1 when no seal is pending
  segIdx,        \* Writer.segIdx
  sealed,        \* Writer.sealed: rotated segments that wait for deletion
  segs,          \* the segment files on disk (page cache), by index
  synced,        \* records of those files that reached the medium
  durable,       \* the atomic shared by kvstore (store) and wal (load)
  cycle,         \* "delete": cycle() dropped the lock before deleteDurable()
  (* kvstore.KVStore and memtable.MemTable *)
  pending,       \* the batch the writer that holds Engine.mu has journaled
  live,          \* MemTable.runs and MemTable.buf
  draining,      \* MemTable.draining
  trees,         \* what the in-memory trees of the page store reach
  flush,         \* phase of runFlush: "idle", "captured" or "prepared"
  batch,         \* FlushBatch: base trees, captured keys, seal boundary
  (* the blob store *)
  newest,        \* what the newest root in the blob store reaches
  stable,        \* what the newest root on the medium reaches
  (* history *)
  written,       \* every record ever given to Sink
  acked,         \* every record whose write returned
  ticked,        \* records acknowledged before the last fsync of cycle()
  forfeited,     \* records a crash was entitled to take
  crashes, flushes

walVars   == <<buf, at, logicalEnd, sealBoundary, segIdx, sealed, segs>>
memVars   == <<pending, live, draining, trees>>
flushVars == <<flush, batch, flushes>>
blobVars  == <<newest, stable>>
histVars  == <<written, acked, ticked, forfeited>>
vars == <<engine, walVars, synced, durable, cycle, memVars, flushVars,
          blobVars, histVars, crashes>>

NoBatch == [base |-> {}, keys |-> {}, seal |-> -1]

\* The engine is running.
Up == engine = "open"

InSegments == UNION {segs[i] : i \in DOMAIN segs}

\* What the next bootstrap will find: kvstore.New opens the newest root and
\* replays every segment into the memtable.
Recoverable == newest \cup InSegments

\* What a read of the running engine sees.
Visible == live \cup draining \cup trees

TypeOK ==
  /\ engine \in {"open", "closed"}
  /\ buf \subseteq Records
  /\ at \in [Records -> Nat]
  /\ logicalEnd \in Nat
  /\ sealBoundary \in Nat \cup {-1}
  /\ segIdx \in Nat
  /\ sealed \subseteq [idx : Nat, boundary : Nat]
  /\ DOMAIN segs \subseteq Nat
  /\ \A i \in DOMAIN segs : segs[i] \subseteq Records
  /\ synced \subseteq Records
  /\ durable \in Nat \cup {-1}
  /\ cycle \in {"wait", "delete"}
  /\ pending \in Records \cup {NoRecord}
  /\ live \subseteq Records
  /\ draining \subseteq Records
  /\ trees \subseteq Records
  /\ flush \in {"idle", "captured", "prepared"}
  /\ batch \in [base : SUBSET Records, keys : SUBSET Records,
                seal : Nat \cup {-1}]
  /\ newest \subseteq Records
  /\ stable \subseteq Records
  /\ written \subseteq Records
  /\ acked \subseteq Records
  /\ ticked \subseteq Records
  /\ forfeited \subseteq Records
  /\ crashes \in Nat
  /\ flushes \in Nat

-----------------------------------------------------------------------------
(* drainLocked: write the buffer, rotating at a pending seal boundary.     *)

\* The part of the buffer that belongs to the segment being sealed.
BeforeSeal(b) == {r \in b : at'[r] <= sealBoundary}

AppendToSegment(b) ==
  /\ sealBoundary < 0
  /\ segs' = [segs EXCEPT ![segIdx] = @ \cup b]
  /\ buf' = {}
  /\ UNCHANGED <<segIdx, sealed, sealBoundary>>

\* Mutant: what follows the boundary is not carried to the next segment.
RotateLosesRest(b, after) ==
  /\ sealBoundary >= 0
  /\ segs' = [i \in DOMAIN segs \cup {segIdx + 1} |->
                IF i = segIdx + 1 THEN {}
                ELSE segs[i] \cup (IF i = segIdx THEN BeforeSeal(b) ELSE {})]
  /\ sealed' = sealed \cup {[idx |-> segIdx, boundary |-> sealBoundary]}
  /\ segIdx' = segIdx + 1
  /\ sealBoundary' = -1
  /\ buf' = {}

\* The sealed segment is closed without Sync, recorded for deletion, and the
\* next one is created; the rest of the buffer, after, goes there.
RotateSegment(b, after) ==
  /\ sealBoundary >= 0
  /\ segs' = [i \in DOMAIN segs \cup {segIdx + 1} |->
                IF i = segIdx + 1 THEN after
                ELSE segs[i] \cup (IF i = segIdx THEN BeforeSeal(b) ELSE {})]
  /\ sealed' = sealed \cup {[idx |-> segIdx, boundary |-> sealBoundary]}
  /\ segIdx' = segIdx + 1
  /\ sealBoundary' = -1
  /\ buf' = (b \ BeforeSeal(b)) \ after

DrainOK(b) ==
  \/ AppendToSegment(b)
  \/ RotateSegment(b, b \ BeforeSeal(b))

\* Mutant: the buffer is dropped with the error.
DrainDrops(b) ==
  /\ "write" \in Faults
  /\ buf' = {}
  /\ UNCHANGED <<segs, sealed, segIdx, sealBoundary>>

\* WriteAt fails, before or after a rotation; Sink and cycle only log it.
DrainFails(b) ==
  /\ "write" \in Faults
  /\ \/ /\ \/ sealBoundary < 0 /\ b # {}
           \/ BeforeSeal(b) # {}
        /\ buf' = b
        /\ UNCHANGED <<segs, sealed, segIdx, sealBoundary>>
     \/ /\ b \ BeforeSeal(b) # {}
        /\ RotateSegment(b, {})

DrainLocked(b) == DrainOK(b) \/ DrainFails(b)

-----------------------------------------------------------------------------
(* The write path: eavt.Engine.BatchWrite holds Engine.mu across the sink  *)
(* and the memtable insert; the WAL lock is released between the two.      *)

Sink(r) ==
  /\ Up
  /\ pending = NoRecord
  /\ r \notin written
  /\ at' = [at EXCEPT ![r] = logicalEnd + 1]
  /\ logicalEnd' = logicalEnd + 1
  /\ DrainLocked(buf \cup {r})
  /\ pending' = r
  /\ written' = written \cup {r}
  /\ UNCHANGED <<engine, synced, durable, cycle, live, draining, trees,
                 flushVars, blobVars, acked, ticked, forfeited, crashes>>

\* Mutant: the memtable insert does not wait for a journaled batch.
BatchWriteUnguarded ==
  /\ Up
  /\ live' = live \cup {pending}
  /\ pending' = NoRecord
  /\ UNCHANGED <<engine, walVars, synced, durable, cycle, draining, trees,
                 flushVars, blobVars, histVars, crashes>>

\* MT.Batch, and the reply to the client once Engine.mu is released.
BatchWrite ==
  /\ Up
  /\ pending # NoRecord
  /\ live' = live \cup {pending}
  /\ acked' = acked \cup {pending}
  /\ pending' = NoRecord
  /\ UNCHANGED <<engine, walVars, synced, durable, cycle, draining, trees,
                 flushVars, blobVars, written, ticked, forfeited, crashes>>

-----------------------------------------------------------------------------
(* The 100 ms cycle of the WAL.                                            *)

\* Mutants: the fsync is left out; the tick ends before the deletion.
SyncNothing   == UNCHANGED synced
NoDeletion    == cycle' = "wait"

\* fsync of the segment that is current after the drain.
SyncCurrent == synced' = synced \cup segs'[segIdx']

\* cycle() releases the lock before it calls deleteDurable().
ThenDelete == cycle' = "delete"

\* Drain and, when that succeeds, fsync the current segment.
Tick ==
  /\ Up
  /\ cycle = "wait"
  /\ at' = at
  /\ \/ /\ DrainOK(buf)
        /\ SyncCurrent
        /\ ticked' = acked
     \/ /\ DrainFails(buf)
        /\ UNCHANGED <<synced, ticked>>
  /\ ThenDelete
  /\ UNCHANGED <<engine, logicalEnd, durable, memVars, flushVars, blobVars,
                 written, acked, forfeited, crashes>>

\* Mutant: an off-by-one in the comparison with the durable offset.
DeletableEarly == {s \in sealed : s.boundary <= durable + 1}

\* Unlink the sealed segments at or below the durable offset.  Boundaries grow
\* along Writer.sealed, so popping its head while it qualifies removes exactly
\* the ones that do.
Deletable == {s \in sealed : s.boundary <= durable}

DeleteDurable ==
  /\ Up
  /\ cycle = "delete"
  /\ LET gone == {s.idx : s \in Deletable}
     IN segs' = [i \in DOMAIN segs \ gone |-> segs[i]]
  /\ sealed' = sealed \ Deletable
  /\ cycle' = "wait"
  /\ UNCHANGED <<engine, buf, at, logicalEnd, sealBoundary, segIdx, synced,
                 durable, memVars, flushVars, blobVars, histVars, crashes>>

-----------------------------------------------------------------------------
(* runFlush, on the single flush goroutine.                                *)

\* Mutants: MemTable.Clear for Publish; a Publish that keeps the frozen runs;
\* the end of the log taken for the boundary of the capture.
MTClear       == draining' = {} /\ live' = {}
MTKeep        == UNCHANGED <<draining, live>>
SealedUpToEnd == logicalEnd

\* MemTable.Publish: the frozen runs are dropped, the active ones stay.
MTPublish == draining' = {} /\ UNCHANGED live

\* The offset PublishFlush stores in walDurableUpTo.
SealedUpTo == batch.seal

\* Under Engine.mu, so no write is between its Sink and its BatchWrite.
\* FreezeAllCapture replaces draining; Seal only marks the boundary.
CaptureFlush ==
  /\ Up
  /\ pending = NoRecord
  /\ flush = "idle"
  /\ flushes < MaxFlushes
  /\ draining' = live
  /\ live' = {}
  /\ sealBoundary' = logicalEnd
  /\ batch' = [base |-> trees, keys |-> live, seal |-> logicalEnd]
  /\ flush' = "captured"
  /\ flushes' = flushes + 1
  /\ UNCHANGED <<engine, buf, at, logicalEnd, segIdx, sealed, segs, synced,
                 durable, cycle, pending, trees, blobVars, histVars,
                 crashes>>

\* The merged pages and then the root are written, off the lock.
PrepareFlush ==
  /\ Up
  /\ flush = "captured"
  /\ newest' = batch.base \cup batch.keys
  /\ flush' = "prepared"
  /\ UNCHANGED <<engine, walVars, synced, durable, cycle, memVars, batch,
                 flushes, stable, histVars, crashes>>

\* Under Engine.mu.
PublishFlush ==
  /\ Up
  /\ pending = NoRecord
  /\ flush = "prepared"
  /\ trees' = batch.base \cup batch.keys
  /\ MTPublish
  /\ durable' = SealedUpTo
  /\ flush' = "idle"
  /\ batch' = NoBatch
  /\ UNCHANGED <<engine, walVars, synced, cycle, pending, flushes,
                 blobVars, histVars, crashes>>

\* PrepareFlush failed: no root was written, or the first of the two roots of
\* a flush that also carries KV pairs was.  AbortFlush (under Engine.mu)
\* discards the frozen runs.
AbortFlush ==
  /\ "prepare" \in Faults
  /\ Up
  /\ pending = NoRecord
  /\ flush = "captured"
  /\ newest' \in {newest, batch.base \cup batch.keys}
  /\ MTPublish
  /\ flush' = "idle"
  /\ batch' = NoBatch
  /\ UNCHANGED <<engine, walVars, synced, durable, cycle, pending, trees,
                 flushes, stable, histVars, crashes>>

-----------------------------------------------------------------------------
(* The environment: write-back of dirty pages, crashes, shutdown, restart. *)

WriteBack ==
  /\ Up
  /\ synced' = synced \cup InSegments
  /\ stable' = newest
  /\ UNCHANGED <<engine, walVars, durable, cycle, memVars, flushVars,
                 newest, histVars, crashes>>

ProcessLost ==
  /\ crashes < MaxCrashes
  /\ crashes' = crashes + 1
  /\ engine' = "closed"
  /\ buf' = {}
  /\ pending' = NoRecord
  /\ live' = {}
  /\ draining' = {}
  /\ trees' = {}
  /\ flush' = "idle"
  /\ batch' = NoBatch
  /\ cycle' = "wait"

ProcessCrash ==
  /\ "process" \in Faults
  /\ Up
  /\ ProcessLost
  /\ forfeited' = forfeited \cup buf
  /\ UNCHANGED <<at, logicalEnd, sealBoundary, segIdx, sealed, segs, synced,
                 durable, flushes, blobVars, written, acked, ticked>>

\* A file that was not written back may have lost any part of its tail, and a
\* root and its pages may be gone (writeAtomic renames without a Sync).
MachineCrash ==
  /\ "machine" \in Faults
  /\ Up
  /\ ProcessLost
  /\ \E kept \in SUBSET (InSegments \ synced) :
       /\ segs' = [i \in DOMAIN segs |-> segs[i] \cap (synced \cup kept)]
       /\ synced' = synced \cup kept
  /\ newest' \in {newest, stable}
  /\ stable' = newest'
  /\ forfeited' = forfeited \cup buf \cup (Recoverable \ ticked)
  /\ UNCHANGED <<at, logicalEnd, sealBoundary, segIdx, sealed, durable,
                 flushes, written, acked, ticked>>

\* Engine.Close: the runner is idle, then Stop drains, fsyncs and closes.
Close ==
  /\ Up
  /\ pending = NoRecord
  /\ flush = "idle"
  /\ crashes < MaxCrashes
  /\ crashes' = crashes + 1
  /\ at' = at
  /\ \/ /\ DrainOK(buf)
        /\ SyncCurrent
        /\ ticked' = acked
     \/ /\ DrainFails(buf)
        /\ UNCHANGED <<synced, ticked>>
  /\ forfeited' = forfeited \cup buf'
  /\ engine' = "closed"
  /\ live' = {}
  /\ trees' = {}
  /\ cycle' = "wait"
  /\ UNCHANGED <<logicalEnd, durable, pending, draining, flushVars, blobVars,
                 written, acked>>

\* NewEngineConfig: kvstore.New opens the newest root and replays the segments
\* of earlier sessions; Attach starts a session in a fresh segment.  Those of
\* earlier sessions are not in Writer.sealed and are never deleted.
Open ==
  /\ engine = "closed"
  /\ engine' = "open"
  /\ trees' = newest
  /\ live' = InSegments
  /\ buf' = {}
  /\ at' = [r \in Records |-> 0]
  /\ logicalEnd' = 0
  /\ sealBoundary' = -1
  /\ segIdx' = segIdx + 1
  /\ segs' = [i \in DOMAIN segs \cup {segIdx + 1} |->
                IF i = segIdx + 1 THEN {} ELSE segs[i]]
  /\ sealed' = {}
  /\ durable' = -1
  /\ UNCHANGED <<synced, cycle, pending, draining, flushVars,
                 blobVars, histVars, crashes>>

-----------------------------------------------------------------------------
Init ==
  /\ engine = "open"
  /\ buf = {}
  /\ at = [r \in Records |-> 0]
  /\ logicalEnd = 0
  /\ sealBoundary = -1
  /\ segIdx = 0
  /\ sealed = {}
  /\ segs = [i \in {0} |-> {}]
  /\ synced = {}
  /\ durable = -1
  /\ cycle = "wait"
  /\ pending = NoRecord
  /\ live = {}
  /\ draining = {}
  /\ trees = {}
  /\ flush = "idle"
  /\ batch = NoBatch
  /\ newest = {}
  /\ stable = {}
  /\ written = {}
  /\ acked = {}
  /\ ticked = {}
  /\ forfeited = {}
  /\ crashes = 0
  /\ flushes = 0

Next ==
  \/ \E r \in Records : Sink(r)
  \/ BatchWrite
  \/ Tick
  \/ DeleteDurable
  \/ CaptureFlush
  \/ PrepareFlush
  \/ PublishFlush
  \/ AbortFlush
  \/ WriteBack
  \/ ProcessCrash
  \/ MachineCrash
  \/ Close
  \/ Open

Spec == Init /\ [][Next]_vars
-----------------------------------------------------------------------------
(* Properties.                                                             *)

\* Every acknowledged write is found by the next bootstrap, whenever the
\* process dies: it is in a segment on disk or under the newest root.  This is
\* what deleteDurable, the seal of CaptureFlush and the store of
\* walDurableUpTo in PublishFlush must agree on.
AckedRecoverable == acked \subseteq Recoverable

\* Segment writes may fail; Sink and cycle then only log, and keep the bytes
\* for a later drain.  Whichever side of a pending seal a record was on, it is
\* in the buffer, in a segment or under the newest root, and only a process
\* that ends with the buffer undrained takes it along.
AckedHeldOrRecoverable ==
  acked \subseteq (Recoverable \cup buf \cup forfeited)

\* A running engine shows every acknowledged write through a capture, the
\* off-lock prepare, the publish, a crash and a replay.
AckedVisible == Up => acked \subseteq Visible

\* A capture finds the draining half of the memtable empty: FreezeAllCapture
\* overwrites it, so anything left there would vanish from readers.
CaptureOverwritesNothing ==
  [][flush = "idle" /\ flush' = "captured" => draining = {}]_vars

\* A segment is unlinked only when the published trees reach every record in
\* it (docs/wal.md: segments are "deleted only once their records are durable
\* in the PageStore").
UnlinkedArePublished ==
  [][\A i \in DOMAIN segs \ DOMAIN segs' : segs[i] \subseteq trees]_vars

\* The machine may stop at any time: what was acknowledged before the last
\* fsync tick is still there after the restart (docs/wal.md: "machine crash
\* loses at most the last ~100 ms").
TickedSurvive == Up => (ticked \ forfeited) \subseteq Visible

\* The engine implements the abstract store: a flush, an fsync, a rotation and
\* the deletion of a segment change neither what is committed nor what is
\* visible.
Store == INSTANCE DurableStore WITH
           store     <- engine,
           committed <- Recoverable,
           visible   <- Visible
ImplementsStore == Store!StoreSpec

\* The cycle goroutine runs until the engine is closed, and the flush
\* goroutine finishes what it started.
Fairness ==
  /\ WF_vars(Tick)
  /\ WF_vars(DeleteDurable)
  /\ WF_vars(BatchWrite)
  /\ WF_vars(PrepareFlush)
  /\ WF_vars(PublishFlush)

FairSpec == Spec /\ Fairness

\* Log space is given back: once a session's records are published, their
\* segment disappears, unless the session ends first.
PublishedSegmentsReclaimed ==
  \A i \in 0 .. MaxFlushes + MaxCrashes :
    (Up /\ i \in {s.idx : s \in Deletable})
      ~> (~Up \/ i \notin DOMAIN segs)
-----------------------------------------------------------------------------
(* The inductive invariant behind AckedRecoverable, AckedVisible and       *)
(* UnlinkedArePublished, for runs without failed flushes and machine       *)
(* crashes.                                                                *)

\* A process that is not running holds nothing.
DownInv ==
  ~Up => /\ pending = NoRecord /\ flush = "idle"
         /\ live = {} /\ draining = {} /\ trees = {}

\* Offsets of this session, and where its records are in memory.
OffsetInv ==
  /\ sealBoundary <= logicalEnd
  /\ \A r \in Records : at[r] <= logicalEnd
  /\ Up => \A r \in Records : at[r] > 0 => r \in Visible \cup {pending}

\* The flush in progress covers everything below its boundary.
FlushInv ==
  /\ flush = "idle" => draining = {}
  /\ flush # "idle" =>
       /\ batch.base = trees /\ batch.keys = draining
       /\ batch.seal \in 0 .. logicalEnd
       /\ \A r \in Records :
            at[r] \in 1 .. batch.seal => r \in trees \cup draining

\* Everything at or below the durable offset is published, and published
\* trees are those of the newest root (or about to be).
PublishInv ==
  Up => /\ durable <= logicalEnd
        /\ \A r \in Records : at[r] \in 1 .. durable => r \in trees
        /\ newest = IF flush = "prepared" THEN trees \cup draining ELSE trees

\* The current segment is the last one, and is not waiting for deletion.
OpenSegmentInv ==
  /\ segIdx \in DOMAIN segs
  /\ \A i \in DOMAIN segs : i <= segIdx
  /\ \A s \in sealed : s.idx < segIdx
  /\ \A s, t \in sealed : s.idx = t.idx => s = t

\* Segments hold records of the session at or below their boundary.
SegmentInv ==
  Up =>
    /\ \A r \in buf : at[r] > 0
    /\ \A r \in segs[segIdx] :
         at[r] > 0 /\ (sealBoundary >= 0 => at[r] <= sealBoundary)
    /\ \A s \in sealed :
         /\ s.idx \in DOMAIN segs
         /\ \A r \in segs[s.idx] : at[r] \in 1 .. s.boundary

\* What memory shows is held by the log or the store, or was forfeited.
HeldInv ==
  /\ Recoverable \cup buf \cup acked \subseteq written
  /\ Up => Visible \subseteq Recoverable \cup buf
  /\ pending # NoRecord => pending \in Recoverable \cup buf
  /\ acked \subseteq Recoverable \cup buf \cup forfeited
  /\ IF Up THEN acked \subseteq Visible \cup forfeited
           ELSE acked \subseteq Recoverable \cup forfeited
  /\ "write" \notin Faults => buf = {} /\ forfeited = {}

IInv ==
  /\ TypeOK
  /\ DownInv
  /\ OffsetInv
  /\ FlushInv
  /\ PublishInv
  /\ OpenSegmentInv
  /\ SegmentInv
  /\ HeldInv
=============================================================================
