---------------------------- MODULE FlushRunner ----------------------------
(***************************************************************************)
(* The flush/GC runner of the transactor (internal/transactor/server.go):  *)
(* the single-flight goroutine that captures, prepares and publishes       *)
(* flushes and runs the garbage collector of the page store between them,  *)
(* the requests that start it (threshold crossings, admin flush,           *)
(* flush-sync, gc and gc-dry), Engine.Close, and the blobs it writes and   *)
(* deletes (internal/pagestore/gc.go).                                     *)
(*                                                                         *)
(* A page is the set of blobs one flush wrote; the pages of a root are     *)
(* those its trees reach.  A root name is its time stamp.  What a flush    *)
(* makes durable is abstracted to sets of records.                         *)
(***************************************************************************)
EXTENDS Integers, Sequences, FiniteSets

CONSTANTS
  Records,         \* what clients write, each at most once
  KvRecords,       \* the ones that are KV pairs (kv put), not datoms
  Clients,         \* connections that issue admin commands
  Runners,         \* goroutines that may execute flushLoop
  NoClient,        \* the owner of an auto-GC request
  Faults,          \* which of FaultKinds can happen
  GcMaxAge,        \* KVStore.GcMaxAgeSecs (0 in NewEngineConfig)
  GcMaxRootCount,  \* KVStore.GcMaxRootCount (0 in NewEngineConfig)
  MaxRequests      \* bound on admin commands

FaultKinds ==
  {"prepare",  \* the blob I/O of a flush fails
   "cursor"}   \* a reader keeps a snapshot open across flushes

ASSUME RunnerFaults == Faults \subseteq FaultKinds
ASSUME RunnerBounds == GcMaxAge \in Nat /\ GcMaxRootCount \in Nat
                       /\ MaxRequests \in Nat
ASSUME RunnerClients == NoClient \notin Clients
ASSUME RunnerRecords == IsFiniteSet(Records) /\ KvRecords \subseteq Records

\* Every flush answers at least one request, and one that carries a KV pair
\* writes a second root.
MaxPages == Cardinality(Records) + Cardinality(KvRecords) + MaxRequests

VARIABLES
  (* Engine, under flushMu *)
  flushWant,  \* "wanted" or "none"
  flushing,   \* "running" from the start of a flushLoop to its exit
  gcQueue,    \* queued GC requests: [owner, dry]
  (* the goroutines *)
  pc,         \* where each runner is in flushLoop, "off" when it does not run
  job,        \* per runner: the GC request in progress, live set, doomed roots
  client,     \* per connection: "idle", "check", "wait" (flushSync), "gc"
  engine,     \* Engine.Close: "open", "drained" (it has waited for the runner and
              \* released flushMu), "closed" (KVStore.PS is nil); "down" when a
              \* goroutine has used the page store that is gone and panicked
  (* KVStore and page store *)
  active,     \* KVStore.flushActive, "yes" or "no"
  live, draining, published, \* records: memtable halves, reached by the trees
  trees,      \* pages the in-memory trees reach
  prepared,   \* pages of the trees PrepareFlush returned
  (* blob store *)
  pages,      \* page blobs present
  roots,      \* root stamp |-> the pages its trees reach
  nextStamp,  \* wall clock
  (* readers and history *)
  pinned,     \* pages reached by the snapshot of an open cursor or a replica
  written,    \* records written so far
  owed,       \* per connection: what was written when its flush-sync began
  requests,   \* number of admin commands issued
  late,       \* "yes" once a request has come after Engine.Close drained the runner
  aborted     \* what failed flushes left: records dropped from memory, and
              \* whether a root was written that no publish adopted

engVars    == <<flushWant, flushing, gcQueue>>
storeVars  == <<active, live, draining, published, trees, prepared>>
blobVars   == <<pages, roots, nextStamp>>
clientVars == <<client, owed, requests, late>>
vars == <<engVars, pc, job, engine, storeVars, blobVars, pinned, written,
          clientVars, aborted>>

NoJob == [owner |-> NoClient, dry |-> "no", keep |-> {}, doomed |-> {}]
GcRequest == [owner : Clients \cup {NoClient}, dry : {"yes", "no"}]
Pages == 0 .. MaxPages
GcJob == [owner : Clients \cup {NoClient}, dry : {"yes", "no"},
          keep : SUBSET Pages, doomed : SUBSET Pages]
Steps == {"off", "gc1", "mark1", "sweep1", "want", "capture", "prepare",
          "prepareKv", "abort", "publish", "autogc", "gc2", "mark2", "sweep2",
          "exit"}

TypeOK ==
  /\ flushWant \in {"wanted", "none"}
  /\ flushing \in {"running", "idle"}
  /\ gcQueue \in Seq(GcRequest)
  /\ pc \in [Runners -> Steps]
  /\ job \in [Runners -> GcJob]
  /\ \A g \in Runners : pc[g] \notin {"mark1", "sweep1", "mark2", "sweep2"} => job[g] = NoJob
  /\ client \in [Clients -> {"idle", "check", "wait", "gc"}]
  /\ engine \in {"open", "drained", "closed", "down"}
  /\ late \in {"yes", "no"}
  /\ active \in {"yes", "no"}
  /\ live \subseteq Records /\ draining \subseteq Records
  /\ published \subseteq Records /\ written \subseteq Records
  /\ trees \subseteq Pages /\ prepared \subseteq Pages /\ pages \subseteq Pages
  /\ pinned \subseteq Pages
  /\ DOMAIN roots \subseteq Pages /\ \A n \in DOMAIN roots : roots[n] \subseteq Pages
  /\ nextStamp \in 1 .. MaxPages + 1
  /\ owed \in [Clients -> SUBSET Records]
  /\ requests \in 0 .. MaxRequests
  /\ aborted \in [lost : SUBSET Records, root : {"yes", "no"}]
-----------------------------------------------------------------------------
(* Starting the runner.                                                    *)

\* Goroutines not in use; which of them is started is immaterial.
Free == {g \in Runners : pc[g] = "off"}

\* Start flushLoop unless it is running; decided under flushMu.
StartIfIdle ==
  \/ flushing = "running" /\ UNCHANGED <<flushing, pc>>
  \/ /\ flushing = "idle"
     /\ flushing' = "running"
     /\ Free # {}
     /\ pc' = [pc EXCEPT ![CHOOSE g \in Free : TRUE] = "gc1"]

\* Mutant: a request that finds a runner at work takes it for its own.
RequestIfIdle ==
  /\ flushWant' = IF flushing = "idle" THEN "wanted" ELSE flushWant
  /\ StartIfIdle

RequestFlush ==
  /\ flushWant' = "wanted"
  /\ StartIfIdle

\* An auto request coalesces with a pending one.
RequestGc(owner, dry) ==
  IF owner = NoClient /\ \E i \in DOMAIN gcQueue : gcQueue[i].owner = NoClient
  THEN UNCHANGED <<gcQueue, flushing, pc>>
  ELSE /\ gcQueue' = Append(gcQueue, [owner |-> owner, dry |-> dry])
       /\ StartIfIdle

\* requestFlush, requestGc and flushSync ask for no open engine: a connection
\* that outlives Engine.Close starts the runner again.
Arrive == late' = IF engine = "open" THEN late ELSE "yes"

-----------------------------------------------------------------------------
(* Connections.                                                            *)

\* A transaction, under Engine.mu, or a kv put; maybeArmFlush may find the
\* threshold crossed.  A put needs the memtable only, a transaction reads first.
Write(r) ==
  /\ engine # "down"
  /\ engine = "closed" => r \in KvRecords
  /\ r \notin written
  /\ Arrive
  /\ live' = live \cup {r}
  /\ written' = written \cup {r}
  /\ \/ RequestFlush
     \/ UNCHANGED <<flushWant, flushing, pc>>
  /\ UNCHANGED <<gcQueue, job, engine, active, draining, published, trees,
                 prepared, blobVars, pinned, client, owed, requests, aborted>>

\* On a closed store the first cursor a transaction opens panics.
TransactPanics ==
  /\ engine = "closed"
  /\ engine' = "down"
  /\ UNCHANGED <<engVars, pc, job, storeVars, blobVars, pinned, written,
                 clientVars, aborted>>

Command(c) ==
  /\ engine # "down"
  /\ client[c] = "idle"
  /\ requests < MaxRequests
  /\ requests' = requests + 1
  /\ Arrive

\* flush: answered at once.
AdminFlush(c) ==
  /\ Command(c)
  /\ RequestFlush
  /\ UNCHANGED <<gcQueue, job, engine, storeVars, blobVars, pinned, written,
                 client, owed, aborted>>

FlushSync(c) ==
  /\ Command(c)
  /\ RequestFlush
  /\ client' = [client EXCEPT ![c] = "check"]
  /\ owed' = [owed EXCEPT ![c] = written]
  /\ UNCHANGED <<gcQueue, job, engine, storeVars, blobVars, pinned, written, aborted>>

\* for e.flushing { e.flushCond.Wait() }
FlushSyncCheck(c) ==
  /\ engine # "down"
  /\ client[c] = "check"
  /\ client' = [client EXCEPT ![c] = IF flushing = "running" THEN "wait" ELSE "idle"]
  /\ UNCHANGED <<engVars, pc, job, engine, storeVars, blobVars, pinned, written,
                 owed, requests, late, aborted>>

AdminGc(c, dry) ==
  /\ Command(c)
  /\ RequestGc(c, dry)
  /\ client' = [client EXCEPT ![c] = "gc"]
  /\ UNCHANGED <<flushWant, job, engine, storeVars, blobVars, pinned, written,
                 owed, aborted>>

\* Mutant: Close does not wait for the runner.
CloseAtOnce ==
  /\ engine = "open"
  /\ engine' = "drained"
  /\ UNCHANGED <<engVars, pc, job, storeVars, blobVars, pinned, written,
                 clientVars, aborted>>

\* Engine.Close waits for the runner and releases flushMu.
CloseDrain ==
  /\ engine = "open"
  /\ flushing = "idle"
  /\ engine' = "drained"
  /\ UNCHANGED <<engVars, pc, job, storeVars, blobVars, pinned, written,
                 clientVars, aborted>>

\* It then stops the WAL and closes the KV store, whatever has come since.
CloseStore ==
  /\ engine = "drained"
  /\ engine' = "closed"
  /\ UNCHANGED <<engVars, pc, job, storeVars, blobVars, pinned, written,
                 clientVars, aborted>>

\* Bound: snapshots are pinned until this stamp, which the next flush outdates.
LastPinned == 1

\* A cursor or a replica that keeps reading the trees it started from.
OpenCursor ==
  /\ "cursor" \in Faults
  /\ nextStamp <= LastPinned
  /\ engine \in {"open", "drained"}
  /\ pinned' = trees
  /\ UNCHANGED <<engVars, pc, job, engine, storeVars, blobVars, written,
                 clientVars, aborted>>

-----------------------------------------------------------------------------
(* flushLoop.                                                              *)

Goto(g, from, to) ==
  engine # "down" /\ pc[g] = from /\ pc' = [pc EXCEPT ![g] = to]

\* Mutant: a root exactly as old as the limit is dropped.
KeepRootsStrict ==
  {n \in DOMAIN roots :
     /\ \A m \in DOMAIN roots : m - n < GcMaxAge
     /\ GcMaxRootCount > 0 =>
          Cardinality({m \in DOMAIN roots : m > n}) < GcMaxRootCount}

\* ClassifyRoots: stamps to keep, by age relative to the newest and by rank.
KeepRoots ==
  {n \in DOMAIN roots :
     /\ \A m \in DOMAIN roots : m - n <= GcMaxAge
     /\ GcMaxRootCount > 0 =>
          Cardinality({m \in DOMAIN roots : m > n}) < GcMaxRootCount}

HasOldRoots == KeepRoots # DOMAIN roots

\* finish(): a manual request is answered.
Finish(owner) ==
  client' = IF owner = NoClient THEN client ELSE [client EXCEPT ![owner] = "idle"]

\* runGC pops at most one request; an auto pass with nothing to remove, or any
\* pass on a closed store or while a capture is in flight, ends here.  A pass
\* that has begun keeps the page store it was called on.
GcTake(g, here, mark, next) ==
  /\ \/ /\ gcQueue = <<>>
        /\ Goto(g, here, next)
        /\ UNCHANGED <<gcQueue, job, client>>
     \/ /\ gcQueue # <<>>
        /\ gcQueue' = Tail(gcQueue)
        /\ LET r == Head(gcQueue)
               skip == \/ engine = "closed" \/ active = "yes"
                       \/ (r.owner = NoClient /\ ~HasOldRoots)
           IN \/ /\ skip
                 /\ Goto(g, here, next)
                 /\ Finish(r.owner)
                 /\ UNCHANGED job
              \/ /\ ~skip
                 /\ Goto(g, here, mark)
                 /\ job' = [job EXCEPT ![g] = [NoJob EXCEPT !.owner = r.owner,
                                                            !.dry = r.dry]]
                 /\ UNCHANGED client
  /\ UNCHANGED <<flushWant, flushing, engine, storeVars, blobVars, pinned,
                 written, owed, requests, late, aborted>>

\* The live set: everything the kept roots reach.
LiveSet == UNION {roots[n] : n \in KeepRoots}

GcMark(g, here, sweep) ==
  /\ Goto(g, here, sweep)
  /\ job' = [job EXCEPT ![g].keep = LiveSet,
                        ![g].doomed = DOMAIN roots \ KeepRoots]
  /\ UNCHANGED <<engVars, engine, storeVars, blobVars, pinned, written,
                 clientVars, aborted>>

\* Mutant: the request in progress is not reset.
GcSweepKeepsJob(g, here, next) ==
  /\ Goto(g, here, next)
  /\ IF job[g].dry = "yes"
     THEN UNCHANGED <<roots, pages>>
     ELSE /\ roots' = [n \in DOMAIN roots \ job[g].doomed |-> roots[n]]
          /\ pages' = pages \cap job[g].keep
  /\ Finish(job[g].owner)
  /\ UNCHANGED <<engVars, job, engine, storeVars, nextStamp, pinned, written, owed,
                 requests, late, aborted>>

\* Remove the doomed roots, then every listed blob that is not live.
GcSweep(g, here, next) ==
  /\ Goto(g, here, next)
  /\ IF job[g].dry = "yes"
     THEN UNCHANGED <<roots, pages>>
     ELSE /\ roots' = [n \in DOMAIN roots \ job[g].doomed |-> roots[n]]
          /\ pages' = pages \cap job[g].keep
  /\ Finish(job[g].owner)
  /\ job' = [job EXCEPT ![g] = NoJob]
  /\ UNCHANGED <<engVars, engine, storeVars, nextStamp, pinned, written, owed,
                 requests, late, aborted>>

\* takeFlushWant clears the flag before the flush begins.
TakeFlushWant(g) ==
  /\ Goto(g, "want", IF flushWant = "wanted" THEN "capture" ELSE "exit")
  /\ flushWant' = "none"
  /\ UNCHANGED <<flushing, gcQueue, job, engine, storeVars, blobVars, pinned,
                 written, clientVars, aborted>>

\* Under Engine.mu; CaptureFlush refuses when a capture is in flight.
Capture(g) ==
  /\ IF active = "yes"
     THEN Goto(g, "capture", "gc2") /\ UNCHANGED <<active, live, draining>>
     ELSE /\ engine # "closed"
          /\ Goto(g, "capture", "prepare")
          /\ active' = "yes"
          /\ draining' = live
          /\ live' = {}
  /\ UNCHANGED <<engVars, job, engine, published, trees, prepared, blobVars,
                 pinned, written, clientVars, aborted>>

\* The merge writes new pages, then a root over them and over the pages of the
\* base trees it did not replace.
WriteRoot(base) ==
  \E shared \in SUBSET base :
    /\ prepared' = shared \cup {nextStamp}
    /\ pages' = pages \cup {nextStamp}
    /\ roots' = [n \in DOMAIN roots \cup {nextStamp} |->
                   IF n = nextStamp THEN prepared' ELSE roots[n]]
    /\ nextStamp' = nextStamp + 1

\* PrepareMergeMap, also of an empty capture; captured KV pairs go on to
\* PrepareMergeKv.
Prepare(g) ==
  /\ Goto(g, "prepare", IF draining \cap KvRecords = {} THEN "publish" ELSE "prepareKv")
  /\ engine # "closed"
  /\ WriteRoot(trees)
  /\ UNCHANGED <<engVars, job, engine, active, live, draining, published, trees,
                 pinned, written, clientVars, aborted>>

\* PrepareMergeKv merges the pairs over the trees of the first merge and
\* writes a second root.
PrepareKv(g) ==
  /\ Goto(g, "prepareKv", "publish")
  /\ engine # "closed"
  /\ WriteRoot(prepared)
  /\ UNCHANGED <<engVars, job, engine, active, live, draining, published, trees,
                 pinned, written, clientVars, aborted>>

PrepareFails(g) ==
  /\ "prepare" \in Faults
  /\ \E from \in {"prepare", "prepareKv"} :
       /\ Goto(g, from, "abort")
       /\ aborted' = IF from = "prepare" THEN aborted ELSE [aborted EXCEPT !.root = "yes"]
  /\ UNCHANGED <<engVars, job, engine, storeVars, blobVars, pinned, written,
                 clientVars>>

\* AbortFlush, under Engine.mu: the frozen runs are gone from memory.
Abort(g) ==
  /\ Goto(g, "abort", "gc2")
  /\ draining' = {}
  /\ prepared' = {}
  /\ active' = "no"
  /\ aborted' = [aborted EXCEPT !.lost = @ \cup draining]
  /\ UNCHANGED <<engVars, job, engine, live, published, trees, blobVars, pinned,
                 written, clientVars>>

\* PublishFlush, under Engine.mu.
Publish(g) ==
  /\ engine # "closed"
  /\ Goto(g, "publish", "autogc")
  /\ trees' = prepared
  /\ prepared' = {}
  /\ published' = published \cup draining
  /\ draining' = {}
  /\ active' = "no"
  /\ UNCHANGED <<engVars, job, engine, live, blobVars, pinned, written,
                 clientVars, aborted>>

\* Capture, merge and publication dereference KVStore.PS: on a closed store the
\* goroutine panics, and the process with it.
Panics(g) ==
  /\ engine = "closed"
  /\ \/ pc[g] = "capture" /\ active = "no"
     \/ pc[g] \in {"prepare", "prepareKv", "publish"}
  /\ engine' = "down"
  /\ UNCHANGED <<engVars, pc, job, storeVars, blobVars, pinned, written,
                 clientVars, aborted>>

\* The last call of runFlush; the runner itself is running, so none starts.
AutoGc(g) ==
  /\ Goto(g, "autogc", "gc2")
  /\ IF \E i \in DOMAIN gcQueue : gcQueue[i].owner = NoClient
     THEN UNCHANGED gcQueue
     ELSE gcQueue' = Append(gcQueue, [owner |-> NoClient, dry |-> "no"])
  /\ UNCHANGED <<flushWant, flushing, job, engine, storeVars, blobVars, pinned,
                 written, clientVars, aborted>>

\* Mutants: only flush requests keep the runner going; nobody is woken.
ExitUnlessWanted(g) ==
  /\ IF flushWant = "none"
     THEN /\ Goto(g, "exit", "off")
          /\ flushing' = "idle"
          /\ client' = [c \in Clients |-> IF client[c] = "wait" THEN "check" ELSE client[c]]
     ELSE Goto(g, "exit", "gc1") /\ UNCHANGED <<flushing, client>>
  /\ UNCHANGED <<flushWant, gcQueue, job, engine, storeVars, blobVars, pinned,
                 written, owed, requests, late, aborted>>
ExitNoBroadcast(g) ==
  /\ IF flushWant = "none" /\ gcQueue = <<>>
     THEN Goto(g, "exit", "off") /\ flushing' = "idle"
     ELSE Goto(g, "exit", "gc1") /\ UNCHANGED flushing
  /\ UNCHANGED <<flushWant, gcQueue, job, engine, storeVars, blobVars, pinned,
                 written, clientVars, aborted>>

\* The check for more work, the reset of flushing and the broadcast are one
\* critical section of flushMu.
Exit(g) ==
  /\ IF flushWant = "none" /\ gcQueue = <<>>
     THEN /\ Goto(g, "exit", "off")
          /\ flushing' = "idle"
          /\ client' = [c \in Clients |-> IF client[c] = "wait" THEN "check" ELSE client[c]]
     ELSE Goto(g, "exit", "gc1") /\ UNCHANGED <<flushing, client>>
  /\ UNCHANGED <<flushWant, gcQueue, job, engine, storeVars, blobVars, pinned,
                 written, owed, requests, late, aborted>>

FlushLoop(g) ==
  \/ GcTake(g, "gc1", "mark1", "want")
  \/ GcMark(g, "mark1", "sweep1")
  \/ GcSweep(g, "sweep1", "want")
  \/ TakeFlushWant(g)
  \/ Capture(g)
  \/ Prepare(g)
  \/ PrepareKv(g)
  \/ PrepareFails(g)
  \/ Abort(g)
  \/ Publish(g)
  \/ AutoGc(g)
  \/ GcTake(g, "gc2", "mark2", "exit")
  \/ GcMark(g, "mark2", "sweep2")
  \/ GcSweep(g, "sweep2", "exit")
  \/ Exit(g)

-----------------------------------------------------------------------------
\* kvstore.New has opened the store and found or written root 0.
Init ==
  /\ flushWant = "none"
  /\ flushing = "idle"
  /\ gcQueue = <<>>
  /\ pc = [g \in Runners |-> "off"]
  /\ job = [g \in Runners |-> NoJob]
  /\ client = [c \in Clients |-> "idle"]
  /\ engine = "open"
  /\ active = "no"
  /\ live = {} /\ draining = {} /\ published = {} /\ written = {}
  /\ trees = {0} /\ prepared = {} /\ pages = {0} /\ pinned = {}
  /\ roots = [n \in {0} |-> {0}]
  /\ nextStamp = 1
  /\ owed = [c \in Clients |-> {}]
  /\ requests = 0
  /\ late = "no"
  /\ aborted = [lost |-> {}, root |-> "no"]

Next ==
  \/ \E r \in Records : Write(r)
  \/ TransactPanics
  \/ \E c \in Clients :
       \/ AdminFlush(c)
       \/ FlushSync(c)
       \/ FlushSyncCheck(c)
       \/ \E dry \in {"yes", "no"} : AdminGc(c, dry)
  \/ CloseDrain
  \/ CloseStore
  \/ OpenCursor
  \/ \E g \in Runners : FlushLoop(g) \/ Panics(g)

Spec == Init /\ [][Next]_vars

\* The Go scheduler runs every runnable goroutine.
Fairness ==
  /\ \A g \in Runners : WF_vars(FlushLoop(g) \/ Panics(g))
  /\ \A c \in Clients : WF_vars(FlushSyncCheck(c))

FairSpec == Spec /\ Fairness
-----------------------------------------------------------------------------
(* Properties.                                                             *)

\* No pass deletes a blob of the trees in use, of a root about to be
\* published, or of a root that a restart would open: a pass and a publish
\* never overlap (the contract GcFull states for its callers).  Except after a
\* flush that failed between its two roots: the first is then the newest, and
\* a pass keeps what it reaches instead of what the trees in memory reach.
PublishedPagesKept ==
  aborted.root = "no" =>
    /\ trees \subseteq pages
    /\ prepared \subseteq pages
    /\ \A n \in KeepRoots : roots[n] \subseteq pages

\* A flush-sync that returns has published everything written before it was
\* issued, whatever flush was under way at that time, except what a failed
\* flush dropped.
FlushSyncPublishes ==
  [][\A c \in Clients :
       client[c] = "check" /\ client'[c] = "idle" =>
         owed[c] \subseteq published \cup aborted.lost]_vars

\* Once the runner is idle no root older than the published one is retained
\* beyond the limits: the pass every publish queues has run too
\* (TestAutoGCPostFlush relies on it), through failed flushes.  The youngest
\* page of the trees carries the stamp of the published root.  Except on a
\* store that was closed under a runner which a late request had started: the
\* pass is then answered with an error.
IdleRunnerHasCollected ==
  flushing = "idle" /\ (late = "no" \/ engine = "drained") =>
    \A n \in DOMAIN roots \ KeepRoots : \A m \in trees : m <= n

\* Every flush-sync and every gc command is answered, those that race with or
\* follow Engine.Close too, unless the process dies of a panic on the closed store.
CommandsAnswered ==
  \A c \in Clients : client[c] # "idle" ~> (client[c] = "idle" \/ engine = "down")

\* Engine.Close drains "the flush/GC runner first": until a request comes after
\* that, no runner is at work, no flush or pass is queued and no connection
\* waits for a pass.  What the runner leaves when it exits and what Close waits
\* for must agree for this.
CloseDrains ==
  engine \in {"drained", "closed"} /\ late = "no" =>
    /\ \A g \in Runners : pc[g] = "off"
    /\ flushWant = "none" /\ gcQueue = <<>>
    /\ \A c \in Clients : client[c] # "gc"

\* Engine.Close: "neither a prepare nor a GC pass may run against a closed
\* KV/blob store".
NoRunnerOnClosedStore == engine = "closed" => \A g \in Runners : pc[g] = "off"

\* Queries "run against the snapshot pinned by their cursors": its pages are
\* there until the cursor is closed.
PinnedPagesKept == pinned \subseteq pages
=============================================================================
