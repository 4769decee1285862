------------------------- MODULE FlushRunner_proofs -------------------------
(***************************************************************************)
(* Proofs about FlushRunner, for every set of records, clients and         *)
(* goroutines, every GC limit and any number of commands.                  *)
(***************************************************************************)
EXTENDS FlushRunner, FiniteSetTheorems, TLAPS

\* The steps of Engine.Close, and the panics on the store it has closed.
Lifecycle ==
  CloseDrain \/ CloseStore \/ TransactPanics \/ \E g \in Runners : Panics(g)

\* Where a runner is between CaptureFlush and the end of the flush.
InFlight == {"prepare", "prepareKv", "abort", "publish"}
Sweeping == {"sweep1", "sweep2"}
Collecting == {"mark1", "mark2"} \cup Sweeping

\* At most one goroutine is in flushLoop, and flushing tells whether one is;
\* an idle runner left no work behind; Close has waited for it.
SingleFlight ==
  /\ \A g, h \in Runners : pc[g] # "off" /\ pc[h] # "off" => g = h
  /\ flushing = "idle" =>
       gcQueue = <<>> /\ flushWant = "none" /\ \A g \in Runners : pc[g] = "off"
  /\ engine = "open" => late = "no"
  /\ engine \in {"drained", "closed"} /\ late = "no" => flushing = "idle"

\* flushActive is set exactly while a runner carries a capture.
CaptureInv ==
  /\ \A g \in Runners : pc[g] \in InFlight => active = "yes"
  /\ active = "yes" => \E g \in Runners : pc[g] \in InFlight
  /\ active = "no" => draining = {}
  /\ \A g \in Runners : pc[g] = "prepareKv" => draining \cap KvRecords # {}

\* Every record written is in one memtable half, published or lost with a
\* failed flush.
RecordsInv ==
  /\ written \subseteq live \cup draining \cup published \cup aborted.lost
  /\ live \subseteq written /\ draining \subseteq written
  /\ live \cap draining = {}

\* The records whose merge is still to come: of the live half, and of a
\* capture whose KV pairs were not merged.
Unmerged ==
  live \cup {r \in draining : \E g \in Runners : pc[g] \in {"prepare", "prepareKv"}}

\* The KV pairs a second root was written for, if not more.
Merged == (KvRecords \cap written) \ Unmerged

\* Flushes asked for and not yet written.
Pending ==
  (IF flushWant = "wanted" THEN 1 ELSE 0)
  + (IF \E g \in Runners : pc[g] \in {"capture", "prepare"} THEN 1 ELSE 0)

\* Every root answers a request of its own or the first merge of a KV pair.
StampsPaid ==
  nextStamp + Pending <= 1 + Cardinality(written) + requests + Cardinality(Merged)

\* The clock is ahead of every root, and the newest root is always there.
NewestRoot ==
  /\ nextStamp - 1 \in DOMAIN roots
  /\ \A n \in DOMAIN roots : n < nextStamp
  /\ \A m \in trees \cup prepared : m < nextStamp

\* What the newest root reaches: the trees in memory, or those about to be
\* published.
RootIsTrees ==
  aborted.root = "no" =>
    /\ (\A g \in Runners : pc[g] \notin {"prepareKv", "publish"}) =>
         roots[nextStamp - 1] = trees /\ prepared = {}
    /\ \A g \in Runners : pc[g] \in {"prepareKv", "publish"} =>
         roots[nextStamp - 1] = prepared

\* Between its mark and its sweep a pass holds what the mark found.
SweepInv ==
  \A g \in Runners : pc[g] \in Sweeping =>
    /\ job[g].keep = LiveSet
    /\ job[g].doomed = DOMAIN roots \ KeepRoots

\* The connections that wait for a GC answer are the owners of the requests
\* queued and in progress, each of one.
OwnersWait ==
  /\ \A i \in DOMAIN gcQueue :
       gcQueue[i].owner # NoClient => client[gcQueue[i].owner] = "gc"
  /\ \A i, j \in DOMAIN gcQueue :
       gcQueue[i].owner # NoClient /\ gcQueue[i].owner = gcQueue[j].owner => i = j
  /\ \A g \in Runners : pc[g] \in Collecting /\ job[g].owner # NoClient =>
       /\ client[job[g].owner] = "gc"
       /\ \A i \in DOMAIN gcQueue : gcQueue[i].owner # job[g].owner

\* Each of them has its request queued or at work.
GcAwaited ==
  \A c \in Clients : client[c] = "gc" =>
    \/ \E i \in DOMAIN gcQueue : gcQueue[i].owner = c
    \/ \E g \in Runners : pc[g] \in Collecting /\ job[g].owner = c

\* What a flush-sync waits for is out of the live half, unless a flush that
\* will capture it is still to start.
SyncInv ==
  \A c \in Clients : client[c] \in {"check", "wait"} =>
    \/ flushWant = "wanted"
    \/ \E g \in Runners : pc[g] = "capture"
    \/ owed[c] \subseteq draining \cup published \cup aborted.lost

\* No root older than the trees is retained beyond the limits.
Collected == \A n \in DOMAIN roots \ KeepRoots : \A m \in trees : m <= n

\* A pass that removes them is queued, at work or about to be queued.
CollectionDue ==
  \/ \E i \in DOMAIN gcQueue : gcQueue[i].owner = NoClient
  \/ \E g \in Runners : pc[g] \in Collecting /\ job[g].owner = NoClient
  \/ \E g \in Runners : pc[g] \in {"publish", "autogc"}
  \/ \E g \in Runners : pc[g] = "prepareKv" /\ "prepare" \notin Faults

\* Where the runner promises to collect: with the limit of NewEngineConfig, or
\* when no flush fails.  With a larger limit a root that a failed flush left
\* makes older ones exceed it, and no pass is queued for them.
Collects == GcMaxAge = 0 \/ "prepare" \notin Faults

\* Until the store is closed under a runner that a late request has started.
Timely == late = "no" \/ engine = "drained"

\* An automatic pass is never dry, and one is due whenever there is something
\* to collect.
AutoInv ==
  /\ \A i \in DOMAIN gcQueue : gcQueue[i].owner = NoClient => gcQueue[i].dry = "no"
  /\ \A g \in Runners : pc[g] \in Collecting /\ job[g].owner = NoClient => job[g].dry = "no"
  /\ Collects /\ Timely => Collected \/ CollectionDue
-----------------------------------------------------------------------------
(* The steps.                                                              *)

\* StartIfIdle starts at most one goroutine, and only when none runs.
LEMMA StartsOne ==
  ASSUME StartIfIdle
  PROVE  \/ flushing = "running" /\ UNCHANGED <<flushing, pc>>
         \/ /\ flushing = "idle" /\ flushing' = "running"
            /\ \E g \in Runners : pc[g] = "off" /\ pc' = [pc EXCEPT ![g] = "gc1"]
<1>1. CASE flushing = "running" /\ UNCHANGED <<flushing, pc>>
  BY <1>1
<1>2. CASE flushing = "idle" /\ flushing' = "running" /\ Free # {}
           /\ pc' = [pc EXCEPT ![CHOOSE g \in Free : TRUE] = "gc1"]
  <2> DEFINE h == CHOOSE g \in Free : TRUE
  <2>1. h \in Free
    BY <1>2
  <2> QED
    BY <1>2, <2>1 DEF Free
<1> QED
  BY <1>1, <1>2 DEF StartIfIdle

\* What a request does to the runners.
LEMMA StartStep ==
  ASSUME pc \in [Runners -> Steps], StartIfIdle
  PROVE  /\ flushing' = "running"
         /\ pc' \in [Runners -> Steps]
         /\ \A g \in Runners : pc'[g] = pc[g] \/ (pc[g] = "off" /\ pc'[g] = "gc1")
<1>1. CASE flushing = "running" /\ UNCHANGED <<flushing, pc>>
  BY <1>1
<1>2. CASE /\ flushing = "idle" /\ flushing' = "running"
           /\ \E g \in Runners : pc[g] = "off" /\ pc' = [pc EXCEPT ![g] = "gc1"]
  BY <1>2 DEF Steps
<1> QED
  BY <1>1, <1>2, StartsOne

\* A step of flushLoop moves one runner.
LEMMA GotoStep ==
  ASSUME TypeOK, NEW g \in Runners, NEW from, NEW to \in Steps, Goto(g, from, to)
  PROVE  /\ pc' \in [Runners -> Steps]
         /\ pc[g] = from /\ pc'[g] = to
         /\ \A h \in Runners : h # g => pc'[h] = pc[h]
BY DEF Goto, TypeOK

\* No step takes a variable out of its type, as long as the clock keeps within
\* the pages there can be.
LEMMA TypeStep ==
  ASSUME TypeOK, [Next]_vars, nextStamp' <= MaxPages + 1
  PROVE  TypeOK'
<1> USE RunnerBounds, RunnerClients, RunnerRecords
<1> USE DEF engVars, storeVars, blobVars, clientVars
<1>0. MaxPages \in Nat
  BY FS_CardinalityType, FS_Subset DEF MaxPages
<1>2. ASSUME NEW r \in Records, Write(r) PROVE TypeOK'
  BY StartStep, <1>2 DEF Write, Arrive, RequestFlush, TypeOK
<1>3. ASSUME NEW c \in Clients, AdminFlush(c) PROVE TypeOK'
  BY StartStep, <1>3 DEF AdminFlush, Command, Arrive, RequestFlush, TypeOK
<1>4. ASSUME NEW c \in Clients, FlushSync(c) PROVE TypeOK'
  BY StartStep, <1>4 DEF FlushSync, Command, Arrive, RequestFlush, TypeOK
<1>5. ASSUME NEW c \in Clients, FlushSyncCheck(c) PROVE TypeOK'
  BY <1>5 DEF FlushSyncCheck, TypeOK
<1>6. ASSUME NEW c \in Clients, NEW dry \in {"yes", "no"}, AdminGc(c, dry) PROVE TypeOK'
  <2>1. [owner |-> c, dry |-> dry] \in GcRequest
    BY DEF GcRequest
  <2>2. gcQueue' \in Seq(GcRequest)
    <3>1. gcQueue \in Seq(GcRequest)
             /\ gcQueue' = Append(gcQueue, [owner |-> c, dry |-> dry])
      BY <1>6 DEF AdminGc, RequestGc, TypeOK
    <3> QED
      BY <2>1, <3>1
  <2>3. StartIfIdle
    BY <1>6 DEF AdminGc, RequestGc
  <2> QED
    BY <1>6, <2>2, <2>3, StartStep DEF AdminGc, Command, Arrive, TypeOK
<1>7. CASE Lifecycle
  BY <1>7 DEF Lifecycle, CloseDrain, CloseStore, TransactPanics, Panics, TypeOK
<1>8. CASE OpenCursor
  BY <1>8 DEF OpenCursor, TypeOK
<1>9. ASSUME NEW g \in Runners, FlushLoop(g) PROVE TypeOK'
  <2>1. ASSUME NEW here \in {"gc1", "gc2"}, NEW mark \in {"mark1", "mark2"},
               NEW next \in {"want", "exit"}, GcTake(g, here, mark, next)
        PROVE  TypeOK'
    <3>1. ASSUME gcQueue = <<>> PROVE TypeOK'
      <4> Goto(g, here, next) /\ UNCHANGED <<gcQueue, job, client>>
        BY <2>1, <3>1 DEF GcTake
      <4> QED
        BY <2>1, GotoStep DEF GcTake, TypeOK, Steps
    <3>2. ASSUME gcQueue # <<>> PROVE TypeOK'
      <4>1. Head(gcQueue) \in GcRequest /\ gcQueue' \in Seq(GcRequest)
        <5>1. gcQueue \in Seq(GcRequest) /\ gcQueue' = Tail(gcQueue)
          BY <2>1, <3>2 DEF GcTake, TypeOK
        <5> QED
          BY <3>2, <5>1
      <4>2. CASE Goto(g, here, next) /\ Finish(Head(gcQueue).owner) /\ UNCHANGED job
        <5>1. Head(gcQueue).owner \in Clients \cup {NoClient}
          BY <4>1 DEF GcRequest
        <5>2. client' \in [Clients -> {"idle", "check", "wait", "gc"}]
          BY <4>2, <5>1 DEF Finish, TypeOK
        <5>3. pc' \in [Runners -> Steps] /\ pc'[g] = next /\ pc[g] = here
               /\ \A h \in Runners : h # g => pc'[h] = pc[h]
          BY <4>2, GotoStep DEF Steps
        <5> QED
          BY <2>1, <4>1, <4>2, <5>2, <5>3 DEF GcTake, TypeOK
      <4>3. CASE Goto(g, here, mark)
                 /\ job' = [job EXCEPT ![g] = [NoJob EXCEPT !.owner = Head(gcQueue).owner,
                                                           !.dry = Head(gcQueue).dry]]
                 /\ UNCHANGED client
        <5>1. [NoJob EXCEPT !.owner = Head(gcQueue).owner, !.dry = Head(gcQueue).dry]
                \in GcJob
          BY <4>1 DEF NoJob, GcJob, GcRequest
        <5> QED
          BY <2>1, <4>1, <4>3, <5>1, GotoStep DEF GcTake, TypeOK, Steps
      <4> QED
        BY <2>1, <3>2, <4>2, <4>3 DEF GcTake
    <3> QED
      BY <3>1, <3>2
  <2>2. ASSUME NEW here \in {"mark1", "mark2"}, NEW sweep \in Sweeping,
               GcMark(g, here, sweep)
        PROVE  TypeOK'
    <3>1. LiveSet \in SUBSET Pages /\ DOMAIN roots \ KeepRoots \in SUBSET Pages
      <4>1. KeepRoots \subseteq DOMAIN roots
        BY DEF KeepRoots
      <4> QED
        BY <4>1 DEF LiveSet, TypeOK
    <3>2. [job[g] EXCEPT !.keep = LiveSet, !.doomed = DOMAIN roots \ KeepRoots] \in GcJob
      <4>1. job[g] \in GcJob
        BY DEF TypeOK
      <4> QED
        BY <3>1, <4>1 DEF GcJob
    <3> QED
      BY <2>2, <3>2, GotoStep DEF GcMark, TypeOK, Steps, Sweeping
  <2>3. ASSUME NEW here \in Sweeping, NEW next \in {"want", "exit"}, GcSweep(g, here, next)
        PROVE  TypeOK'
    <3>1. job[g].owner \in Clients \cup {NoClient} /\ NoJob \in GcJob
      BY DEF TypeOK, GcJob, NoJob
    <3>2. client' \in [Clients -> {"idle", "check", "wait", "gc"}]
      BY <2>3, <3>1 DEF GcSweep, Finish, TypeOK
    <3>3. /\ DOMAIN roots' \subseteq Pages /\ pages' \subseteq Pages
          /\ \A n \in DOMAIN roots' : roots'[n] \subseteq Pages
      BY <2>3 DEF GcSweep, TypeOK
    <3> QED
      BY <2>3, <3>1, <3>2, <3>3, GotoStep DEF GcSweep, TypeOK, Steps, Sweeping
  <2>4. CASE TakeFlushWant(g)
    BY <2>4, GotoStep DEF TakeFlushWant, Steps, TypeOK
  <2>5. CASE Capture(g)
    BY <2>5, GotoStep DEF Capture, Steps, TypeOK
  <2>6. CASE Prepare(g)
    <3>1. PICK shared \in SUBSET trees :
            /\ prepared' = shared \cup {nextStamp}
            /\ pages' = pages \cup {nextStamp}
            /\ roots' = [n \in DOMAIN roots \cup {nextStamp} |->
                           IF n = nextStamp THEN prepared' ELSE roots[n]]
            /\ nextStamp' = nextStamp + 1
      BY <2>6 DEF Prepare, WriteRoot
    <3>2. nextStamp \in Pages /\ nextStamp' \in 1 .. MaxPages + 1
      BY <1>0, <3>1 DEF TypeOK, Pages
    <3>3. /\ prepared' \subseteq Pages /\ pages' \subseteq Pages
          /\ DOMAIN roots' \subseteq Pages
          /\ \A n \in DOMAIN roots' : roots'[n] \subseteq Pages
      BY <3>1, <3>2 DEF TypeOK
    <3> QED
      <4>1. CASE Goto(g, "prepare", "publish")
        <5>1. /\ pc' \in [Runners -> Steps] /\ pc'[g] = "publish" /\ pc[g] = "prepare"
              /\ \A h \in Runners : h # g => pc'[h] = pc[h]
          BY <4>1, GotoStep DEF Steps
        <5> QED
          BY <2>6, <3>2, <3>3, <5>1 DEF Prepare, TypeOK
      <4>2. CASE Goto(g, "prepare", "prepareKv")
        <5>1. /\ pc' \in [Runners -> Steps] /\ pc'[g] = "prepareKv" /\ pc[g] = "prepare"
              /\ \A h \in Runners : h # g => pc'[h] = pc[h]
          BY <4>2, GotoStep DEF Steps
        <5> QED
          BY <2>6, <3>2, <3>3, <5>1 DEF Prepare, TypeOK
      <4> QED
        BY <2>6, <4>1, <4>2 DEF Prepare
  <2>7. CASE PrepareKv(g)
    <3>1. PICK shared \in SUBSET prepared :
            /\ prepared' = shared \cup {nextStamp}
            /\ pages' = pages \cup {nextStamp}
            /\ roots' = [n \in DOMAIN roots \cup {nextStamp} |->
                           IF n = nextStamp THEN prepared' ELSE roots[n]]
            /\ nextStamp' = nextStamp + 1
      BY <2>7 DEF PrepareKv, WriteRoot
    <3>2. nextStamp \in Pages /\ nextStamp' \in 1 .. MaxPages + 1
      BY <1>0, <3>1 DEF TypeOK, Pages
    <3>3. /\ prepared' \subseteq Pages /\ pages' \subseteq Pages
          /\ DOMAIN roots' \subseteq Pages
          /\ \A n \in DOMAIN roots' : roots'[n] \subseteq Pages
      BY <3>1, <3>2 DEF TypeOK
    <3>4. /\ pc' \in [Runners -> Steps] /\ pc'[g] = "publish" /\ pc[g] = "prepareKv"
          /\ \A h \in Runners : h # g => pc'[h] = pc[h]
      BY <2>7, GotoStep DEF PrepareKv, Steps
    <3> QED
      BY <2>7, <3>2, <3>3, <3>4 DEF PrepareKv, TypeOK
  <2>8. CASE PrepareFails(g)
    BY <2>8, GotoStep DEF PrepareFails, Steps, TypeOK
  <2>9. CASE Abort(g)
    <3>1. /\ pc' \in [Runners -> Steps] /\ pc'[g] = "gc2" /\ pc[g] = "abort"
          /\ \A h \in Runners : h # g => pc'[h] = pc[h]
      BY <2>9, GotoStep DEF Abort, Steps
    <3> QED
      BY <2>9, <3>1 DEF Abort, TypeOK
  <2>10. CASE Publish(g)
    <3>1. /\ pc' \in [Runners -> Steps] /\ pc'[g] = "autogc" /\ pc[g] = "publish"
          /\ \A h \in Runners : h # g => pc'[h] = pc[h]
      BY <2>10, GotoStep DEF Publish, Steps
    <3> QED
      BY <2>10, <3>1 DEF Publish, TypeOK
  <2>11. CASE AutoGc(g)
    <3>1. [owner |-> NoClient, dry |-> "no"] \in GcRequest
      BY DEF GcRequest
    <3>2. gcQueue' \in Seq(GcRequest)
      <4>1. /\ gcQueue \in Seq(GcRequest)
            /\ \/ gcQueue' = gcQueue
               \/ gcQueue' = Append(gcQueue, [owner |-> NoClient, dry |-> "no"])
        BY <2>11 DEF AutoGc, TypeOK
      <4> QED
        BY <3>1, <4>1
    <3>3. Goto(g, "autogc", "gc2")
      BY <2>11 DEF AutoGc, Goto
    <3> QED
      BY <2>11, <3>2, <3>3, GotoStep DEF AutoGc, Steps, TypeOK
  <2>12. CASE Exit(g)
    BY <2>12, GotoStep DEF Exit, Steps, TypeOK
  <2> QED
    BY <1>9, <2>1, <2>2, <2>3, <2>4, <2>5, <2>6, <2>7, <2>8, <2>9, <2>10, <2>11,
       <2>12 DEF FlushLoop, Sweeping
<1>10. CASE UNCHANGED vars
  BY <1>10 DEF vars, TypeOK
<1> QED
  BY <1>2, <1>3, <1>4, <1>5, <1>6, <1>7, <1>8, <1>9, <1>10 DEF Next, Lifecycle
-----------------------------------------------------------------------------
(* One runner at a time.                                                   *)

\* A step of flushLoop is taken by a goroutine that runs; only the last one
\* resets flushing, and it leaves nothing behind.
LEMMA LoopStep ==
  ASSUME TypeOK, NEW g \in Runners, FlushLoop(g)
  PROVE  /\ pc[g] # "off"
         /\ \E to \in Steps : pc' = [pc EXCEPT ![g] = to]
         /\ engine' = engine /\ late' = late
         /\ \/ flushing' = flushing
            \/ /\ flushing' = "idle" /\ pc'[g] = "off"
               /\ flushWant' = "none" /\ gcQueue' = <<>>
<1> USE DEF Goto, Steps, engVars, clientVars
<1>1. ASSUME NEW here, NEW sweep \in Steps, GcMark(g, here, sweep)
      PROVE  pc[g] = here /\ (\E to \in Steps : pc' = [pc EXCEPT ![g] = to])
             /\ UNCHANGED <<engine, late, flushing>>
  BY <1>1 DEF GcMark
<1>2. ASSUME NEW here, NEW next \in Steps, GcSweep(g, here, next)
      PROVE  pc[g] = here /\ (\E to \in Steps : pc' = [pc EXCEPT ![g] = to])
             /\ UNCHANGED <<engine, late, flushing>>
  BY <1>2 DEF GcSweep
<1>3. CASE \/ TakeFlushWant(g) \/ Capture(g) \/ Prepare(g) \/ PrepareKv(g)
           \/ PrepareFails(g) \/ Abort(g) \/ Publish(g) \/ AutoGc(g)
  BY <1>3 DEF TakeFlushWant, Capture, Prepare, PrepareKv, PrepareFails, Abort, Publish,
              AutoGc
<1>4. CASE Exit(g)
  BY <1>4 DEF Exit, TypeOK
<1>5. CASE GcTake(g, "gc1", "mark1", "want")
  BY <1>5 DEF GcTake
<1>6. CASE GcTake(g, "gc2", "mark2", "exit")
  BY <1>6 DEF GcTake
<1>7. CASE GcMark(g, "mark1", "sweep1") \/ GcMark(g, "mark2", "sweep2")
  BY <1>1, <1>7
<1>8. CASE GcSweep(g, "sweep1", "want") \/ GcSweep(g, "sweep2", "exit")
  BY <1>2, <1>8
<1> QED
  BY <1>3, <1>4, <1>5, <1>6, <1>7, <1>8 DEF FlushLoop

\* Requests start a goroutine only when none runs, and an idle runner has
\* neither a flush nor a pass to do.
LEMMA SingleFlightStep ==
  ASSUME TypeOK, SingleFlight, [Next]_vars
  PROVE  SingleFlight'
<1> USE DEF engVars, storeVars, blobVars, clientVars
<1>1. ASSUME StartIfIdle, Arrive, engine' = engine PROVE SingleFlight'
  <2> USE DEF Arrive
  <2>1. CASE flushing = "running" /\ UNCHANGED <<flushing, pc>>
    BY <1>1, <2>1 DEF SingleFlight
  <2>2. CASE flushing = "idle" /\ flushing' = "running"
    <3> PICK g \in Runners : pc[g] = "off" /\ pc' = [pc EXCEPT ![g] = "gc1"]
      BY <1>1, <2>2, StartsOne
    <3> QED
      BY <1>1, <2>2 DEF SingleFlight, TypeOK
  <2> QED
    BY <1>1, <2>1, <2>2, StartsOne
<1>2. ASSUME NEW r \in Records, Write(r) PROVE SingleFlight'
  <2>1. CASE UNCHANGED <<flushWant, flushing, pc>>
    BY <1>2, <2>1 DEF Write, Arrive, SingleFlight
  <2> QED
    BY <1>1, <1>2, <2>1 DEF Write, RequestFlush
<1>3. ASSUME NEW c \in Clients, AdminFlush(c) \/ FlushSync(c) PROVE SingleFlight'
  BY <1>1, <1>3 DEF AdminFlush, FlushSync, Command, RequestFlush
<1>4. ASSUME NEW c \in Clients, NEW dry, AdminGc(c, dry) PROVE SingleFlight'
  BY <1>1, <1>4, RunnerClients DEF AdminGc, Command, RequestGc
<1>5. CASE OpenCursor \/ Lifecycle \/ (\E c \in Clients : FlushSyncCheck(c)) \/ UNCHANGED vars
  BY <1>5
  DEF OpenCursor, Lifecycle, CloseDrain, CloseStore, TransactPanics, Panics, FlushSyncCheck,
      vars, SingleFlight
<1>6. ASSUME NEW g \in Runners, FlushLoop(g) PROVE SingleFlight'
  <2>1. PICK to \in Steps : pc' = [pc EXCEPT ![g] = to]
    BY <1>6, LoopStep
  <2>2. /\ pc[g] # "off" /\ engine' = engine /\ late' = late
        /\ \/ flushing' = flushing
           \/ flushing' = "idle" /\ pc'[g] = "off" /\ flushWant' = "none" /\ gcQueue' = <<>>
    BY <1>6, LoopStep
  <2> QED
    BY <2>1, <2>2 DEF SingleFlight, TypeOK
<1> QED
  BY <1>2, <1>3, <1>4, <1>5, <1>6 DEF Next, Lifecycle

\* While one goroutine steps, the others are off.
LEMMA OthersOff ==
  ASSUME TypeOK, SingleFlight, NEW g \in Runners, FlushLoop(g)
  PROVE  /\ \A h \in Runners : h # g => pc[h] = "off" /\ pc'[h] = "off"
         /\ flushing = "running"
<1>1. PICK to \in Steps : pc' = [pc EXCEPT ![g] = to]
  BY LoopStep
<1>2. pc[g] # "off"
  BY LoopStep
<1> QED
  BY <1>1, <1>2 DEF SingleFlight, TypeOK

\* What the commands leave to the runner: the store, the blobs and the pass in
\* progress.
LEMMA CommandStep ==
  ASSUME TypeOK, NEW c \in Clients,
         \/ AdminFlush(c) \/ FlushSync(c) \/ FlushSyncCheck(c)
         \/ \E dry \in {"yes", "no"} : AdminGc(c, dry)
  PROVE  /\ UNCHANGED <<job, engine, storeVars, blobVars, pinned, written, aborted>>
         /\ pc' \in [Runners -> Steps]
         /\ \A g \in Runners : pc'[g] = pc[g] \/ (pc[g] = "off" /\ pc'[g] = "gc1")
<1> USE DEF engVars
<1>1. CASE AdminFlush(c) \/ FlushSync(c)
  BY <1>1, StartStep DEF AdminFlush, FlushSync, RequestFlush, TypeOK
<1>2. CASE FlushSyncCheck(c)
  BY <1>2 DEF FlushSyncCheck, TypeOK
<1>3. ASSUME NEW dry, AdminGc(c, dry) PROVE StartIfIdle
  BY <1>3, RunnerClients DEF AdminGc, RequestGc
<1>4. CASE \E dry \in {"yes", "no"} : AdminGc(c, dry)
  BY <1>3, <1>4, StartStep DEF AdminGc, TypeOK
<1> QED
  BY <1>1, <1>2, <1>4

\* flushActive follows the runner from CaptureFlush to its publish or abort.
LEMMA CaptureStep ==
  ASSUME TypeOK, SingleFlight, CaptureInv, [Next]_vars
  PROVE  CaptureInv'
<1> USE DEF engVars, storeVars, blobVars, clientVars, InFlight
<1>1. ASSUME NEW r \in Records, Write(r) PROVE CaptureInv'
  <2>1. \A g \in Runners : pc'[g] = pc[g] \/ (pc[g] = "off" /\ pc'[g] = "gc1")
    BY <1>1, StartStep DEF Write, Arrive, RequestFlush, TypeOK
  <2> QED
    BY <1>1, <2>1 DEF Write, CaptureInv
<1>2. ASSUME NEW c \in Clients, \/ AdminFlush(c) \/ FlushSync(c) \/ FlushSyncCheck(c)
                                \/ \E dry \in {"yes", "no"} : AdminGc(c, dry)
      PROVE  CaptureInv'
  BY <1>2, CommandStep DEF CaptureInv
<1>3. CASE OpenCursor \/ Lifecycle \/ UNCHANGED vars
  BY <1>3
  DEF OpenCursor, Lifecycle, CloseDrain, CloseStore, TransactPanics, Panics, vars, CaptureInv
<1>4. ASSUME NEW g \in Runners, FlushLoop(g) PROVE CaptureInv'
  <2> USE <1>4, OthersOff
  <2>1. CASE \/ GcTake(g, "gc1", "mark1", "want") \/ GcTake(g, "gc2", "mark2", "exit")
    BY <2>1 DEF GcTake, Goto, CaptureInv, TypeOK
  <2>2. CASE \/ GcMark(g, "mark1", "sweep1") \/ GcMark(g, "mark2", "sweep2")
    BY <2>2 DEF GcMark, Goto, CaptureInv, TypeOK
  <2>3. CASE \/ GcSweep(g, "sweep1", "want") \/ GcSweep(g, "sweep2", "exit")
    BY <2>3 DEF GcSweep, Goto, CaptureInv, TypeOK
  <2>4. CASE TakeFlushWant(g) \/ AutoGc(g) \/ Exit(g)
    BY <2>4 DEF TakeFlushWant, AutoGc, Exit, Goto, CaptureInv, TypeOK
  <2>5. CASE Capture(g)
    BY <2>5 DEF Capture, Goto, CaptureInv, TypeOK
  <2>6. CASE Prepare(g) \/ PrepareKv(g) \/ PrepareFails(g)
    BY <2>6 DEF Prepare, PrepareKv, PrepareFails, Goto, CaptureInv, TypeOK
  <2>7. CASE Abort(g) \/ Publish(g)
    BY <2>7 DEF Abort, Publish, Goto, CaptureInv, TypeOK
  <2> QED
    BY <2>1, <2>2, <2>3, <2>4, <2>5, <2>6, <2>7 DEF FlushLoop
<1> QED
  BY <1>1, <1>2, <1>3, <1>4 DEF Next, Lifecycle

\* No record leaves the store but with an abort.
LEMMA RecordsStep ==
  ASSUME TypeOK, CaptureInv, RecordsInv, [Next]_vars
  PROVE  RecordsInv'
<1> USE DEF engVars, storeVars, blobVars, clientVars
<1>1. ASSUME NEW r \in Records, Write(r) PROVE RecordsInv'
  BY <1>1 DEF Write, RecordsInv
<1>2. ASSUME NEW c \in Clients, \/ AdminFlush(c) \/ FlushSync(c) \/ FlushSyncCheck(c)
                                \/ \E dry \in {"yes", "no"} : AdminGc(c, dry)
      PROVE  RecordsInv'
  BY <1>2, CommandStep DEF RecordsInv
<1>3. CASE OpenCursor \/ Lifecycle \/ UNCHANGED vars
  BY <1>3
  DEF OpenCursor, Lifecycle, CloseDrain, CloseStore, TransactPanics, Panics, vars, RecordsInv
<1>4. ASSUME NEW g \in Runners, FlushLoop(g) PROVE RecordsInv'
  <2>1. CASE UNCHANGED <<live, draining, published, written, aborted>>
    BY <2>1 DEF RecordsInv
  <2>2. CASE Capture(g)
    BY <2>2 DEF Capture, CaptureInv, RecordsInv, TypeOK
  <2>3. CASE PrepareFails(g)
    BY <2>3 DEF PrepareFails, RecordsInv, TypeOK
  <2>4. CASE Abort(g)
    BY <2>4 DEF Abort, RecordsInv, TypeOK
  <2>5. CASE Publish(g)
    BY <2>5 DEF Publish, RecordsInv
  <2> QED
    BY <1>4, <2>1, <2>2, <2>3, <2>4, <2>5
    DEF FlushLoop, GcTake, GcMark, GcSweep, TakeFlushWant, Prepare, PrepareKv, AutoGc, Exit
<1> QED
  BY <1>1, <1>2, <1>3, <1>4 DEF Next, Lifecycle
-----------------------------------------------------------------------------
(* Type correctness.                                                       *)

\* A record whose merge is over stays merged.
LEMMA MergedGrows ==
  ASSUME TypeOK, SingleFlight, CaptureInv, RecordsInv, [Next]_vars
  PROVE  Merged \subseteq Merged'
<1> USE DEF engVars, storeVars, blobVars, clientVars, Merged, Unmerged
<1>1. ASSUME NEW r \in Records, Write(r) PROVE Merged \subseteq Merged'
  <2>1. \A g \in Runners : pc'[g] = pc[g] \/ (pc[g] = "off" /\ pc'[g] = "gc1")
    BY <1>1, StartStep DEF Write, Arrive, RequestFlush, TypeOK
  <2> QED
    BY <1>1, <2>1 DEF Write
<1>2. ASSUME NEW c \in Clients, \/ AdminFlush(c) \/ FlushSync(c) \/ FlushSyncCheck(c)
                                \/ \E dry \in {"yes", "no"} : AdminGc(c, dry)
      PROVE  Merged \subseteq Merged'
  BY <1>2, CommandStep
<1>3. CASE OpenCursor \/ Lifecycle \/ UNCHANGED vars
  BY <1>3 DEF OpenCursor, Lifecycle, CloseDrain, CloseStore, TransactPanics, Panics, vars
<1>4. ASSUME NEW g \in Runners, FlushLoop(g) PROVE Merged \subseteq Merged'
  <2> USE <1>4, OthersOff
  <2>1. CASE \/ GcTake(g, "gc1", "mark1", "want") \/ GcTake(g, "gc2", "mark2", "exit")
    BY <2>1 DEF GcTake, Goto, TypeOK
  <2>2. CASE \/ GcMark(g, "mark1", "sweep1") \/ GcMark(g, "mark2", "sweep2")
    BY <2>2 DEF GcMark, Goto, TypeOK
  <2>3. CASE \/ GcSweep(g, "sweep1", "want") \/ GcSweep(g, "sweep2", "exit")
    BY <2>3 DEF GcSweep, Goto, TypeOK
  <2>4. CASE TakeFlushWant(g) \/ AutoGc(g) \/ Exit(g)
    BY <2>4 DEF TakeFlushWant, AutoGc, Exit, Goto, TypeOK
  <2>5. CASE Capture(g)
    BY <2>5 DEF Capture, Goto, CaptureInv, TypeOK
  <2>6. CASE Prepare(g) \/ PrepareKv(g) \/ PrepareFails(g)
    BY <2>6 DEF Prepare, PrepareKv, PrepareFails, Goto, TypeOK
  <2>7. CASE Abort(g) \/ Publish(g)
    BY <2>7 DEF Abort, Publish, Goto, TypeOK
  <2> QED
    BY <2>1, <2>2, <2>3, <2>4, <2>5, <2>6, <2>7 DEF FlushLoop
<1> QED
  BY <1>1, <1>2, <1>3, <1>4 DEF Next, Lifecycle

\* A root is written for a request or for the pairs of a capture, and no
\* request and no capture pays twice.
LEMMA StampsStep ==
  ASSUME TypeOK, SingleFlight, CaptureInv, RecordsInv, StampsPaid, [Next]_vars
  PROVE  StampsPaid'
<1> USE RunnerBounds, RunnerRecords
<1> USE DEF engVars, storeVars, blobVars, clientVars
<1>1. /\ IsFiniteSet(written) /\ Cardinality(written) \in Nat
      /\ IsFiniteSet(Merged) /\ Cardinality(Merged) \in Nat
      /\ nextStamp \in Nat /\ requests \in Nat
  BY FS_Subset, FS_CardinalityType DEF Merged, TypeOK
<1>2. written' \subseteq Records
  <2>1. ASSUME NEW r \in Records, Write(r) PROVE written' \subseteq Records
    BY <2>1 DEF Write, TypeOK
  <2>2. CASE UNCHANGED written
    BY <2>2 DEF TypeOK
  <2> QED
    BY <2>1, <2>2, CommandStep
    DEF Next, vars, Lifecycle, CloseDrain, CloseStore, TransactPanics, Panics, OpenCursor,
        FlushLoop, GcTake, GcMark, GcSweep, TakeFlushWant, Capture, Prepare,
        PrepareKv, PrepareFails, Abort, Publish, AutoGc, Exit
<1>3. IsFiniteSet(Merged') /\ Cardinality(Merged') \in Nat
      /\ Cardinality(Merged) <= Cardinality(Merged')
  <2>1. Merged' \subseteq Records
    BY <1>2 DEF Merged
  <2> QED
    BY <2>1, MergedGrows, FS_Subset, FS_CardinalityType
<1>4. ASSUME NEW r \in Records, Write(r) PROVE StampsPaid'
  <2>1. Cardinality(written') = Cardinality(written) + 1
    BY <1>1, <1>4, FS_AddElement DEF Write
  <2>2. \A g \in Runners : pc'[g] = pc[g] \/ (pc[g] = "off" /\ pc'[g] = "gc1")
    BY <1>4, StartStep DEF Write, Arrive, RequestFlush, TypeOK
  <2>3. Pending' <= Pending + 1 /\ Pending \in Nat /\ Pending' \in Nat
    BY <1>4, <2>2 DEF Write, Pending
  <2> QED
    BY <1>1, <1>3, <1>4, <2>1, <2>3 DEF Write, StampsPaid
<1>5. ASSUME NEW c \in Clients, \/ AdminFlush(c) \/ FlushSync(c) \/ FlushSyncCheck(c)
                                \/ \E dry \in {"yes", "no"} : AdminGc(c, dry)
      PROVE  StampsPaid'
  <2>1. \A g \in Runners : pc'[g] = pc[g] \/ (pc[g] = "off" /\ pc'[g] = "gc1")
    BY <1>5, CommandStep
  <2>2. /\ \/ requests' = requests /\ Pending' <= Pending
           \/ requests' = requests + 1 /\ Pending' <= Pending + 1
        /\ Pending \in Nat /\ Pending' \in Nat
    BY <1>1, <1>5, <2>1
    DEF AdminFlush, FlushSync, FlushSyncCheck, AdminGc, Command, Pending
  <2>3. UNCHANGED <<nextStamp, written>>
    BY <1>5, CommandStep
  <2> QED
    <3>1. Cardinality(written') = Cardinality(written) /\ nextStamp' = nextStamp
      BY <2>3
    <3>2. CASE requests' = requests /\ Pending' <= Pending
      BY <1>1, <1>3, <2>2, <3>1, <3>2 DEF StampsPaid
    <3>3. CASE requests' = requests + 1 /\ Pending' <= Pending + 1
      BY <1>1, <1>3, <2>2, <3>1, <3>3 DEF StampsPaid
    <3> QED
      BY <2>2, <3>2, <3>3
<1>6. CASE OpenCursor \/ Lifecycle \/ UNCHANGED vars
  <2>1. UNCHANGED <<flushWant, pc, nextStamp, written, requests>>
    BY <1>6 DEF OpenCursor, Lifecycle, CloseDrain, CloseStore, TransactPanics, Panics, vars
  <2> QED
    BY <1>1, <1>3, <2>1 DEF StampsPaid, Pending
<1>7. ASSUME NEW g \in Runners, FlushLoop(g) PROVE StampsPaid'
  <2> USE <1>7, OthersOff
  <2>1. UNCHANGED <<written, requests>>
    BY DEF FlushLoop, GcTake, GcMark, GcSweep, TakeFlushWant, Capture, Prepare, PrepareKv,
           PrepareFails, Abort, Publish, AutoGc, Exit
  <2>2. ASSUME Pending \in Nat, Pending' \in Nat,
               \/ nextStamp' = nextStamp /\ Pending' <= Pending
               \/ nextStamp' = nextStamp + 1 /\ Pending = Pending' + 1
        PROVE  StampsPaid'
    <3>1. Cardinality(written') = Cardinality(written) /\ requests' = requests
      BY <2>1
    <3>2. CASE nextStamp' = nextStamp /\ Pending' <= Pending
      BY <1>1, <1>3, <2>2, <3>1, <3>2 DEF StampsPaid
    <3>3. CASE nextStamp' = nextStamp + 1 /\ Pending = Pending' + 1
      BY <1>1, <1>3, <2>2, <3>1, <3>3 DEF StampsPaid
    <3> QED
      BY <2>2, <3>2, <3>3
  <2>3. CASE \/ GcTake(g, "gc1", "mark1", "want") \/ GcTake(g, "gc2", "mark2", "exit")
             \/ GcMark(g, "mark1", "sweep1") \/ GcMark(g, "mark2", "sweep2")
             \/ GcSweep(g, "sweep1", "want") \/ GcSweep(g, "sweep2", "exit")
    <3>1. UNCHANGED <<flushWant, nextStamp>>
      BY <2>3 DEF GcTake, GcMark, GcSweep
    <3>2. /\ pc[g] \notin {"capture", "prepare"} /\ pc'[g] \notin {"capture", "prepare"}
      BY <2>3 DEF GcTake, GcMark, GcSweep, Goto, TypeOK
    <3> QED
      BY <1>1, <2>2, <3>1, <3>2 DEF Pending
  <2>4. CASE TakeFlushWant(g) \/ AutoGc(g) \/ Exit(g)
    BY <1>1, <2>2, <2>4 DEF TakeFlushWant, AutoGc, Exit, Goto, TypeOK, Pending
  <2>5. CASE Capture(g)
    BY <1>1, <2>2, <2>5 DEF Capture, Goto, TypeOK, Pending
  <2>6. CASE Prepare(g)
    BY <1>1, <2>2, <2>6 DEF Prepare, WriteRoot, Goto, TypeOK, Pending
  <2>7. CASE PrepareKv(g)
    <3>1. PICK r \in KvRecords : r \in draining
      BY <2>7 DEF PrepareKv, Goto, CaptureInv
    <3>2. r \in Merged' /\ r \notin Merged
      BY <2>7, <3>1 DEF PrepareKv, Goto, Merged, Unmerged, RecordsInv, TypeOK
    <3>3. Cardinality(Merged \cup {r}) = Cardinality(Merged) + 1
      BY <1>1, <3>2, FS_AddElement
    <3>4. Cardinality(Merged \cup {r}) <= Cardinality(Merged')
      <4>1. Merged \cup {r} \subseteq Merged'
        BY <3>2, MergedGrows
      <4> QED
        BY <1>3, <4>1, FS_Subset
    <3>5. Pending \in Nat /\ Pending' = Pending /\ nextStamp' = nextStamp + 1
      BY <2>7 DEF PrepareKv, WriteRoot, Goto, TypeOK, Pending
    <3> QED
      BY <1>1, <1>3, <2>1, <3>3, <3>4, <3>5 DEF StampsPaid
  <2>8. CASE PrepareFails(g) \/ Abort(g) \/ Publish(g)
    BY <1>1, <2>2, <2>8 DEF PrepareFails, Abort, Publish, Goto, TypeOK, Pending
  <2> QED
    BY <2>3, <2>4, <2>5, <2>6, <2>7, <2>8 DEF FlushLoop
<1> QED
  BY <1>4, <1>5, <1>6, <1>7 DEF Next, Lifecycle

\* The clock stays within the pages there can be: every root was paid for.
LEMMA StampsBounded ==
  ASSUME TypeOK, RecordsInv, [Next]_vars, StampsPaid'
  PROVE  nextStamp' <= MaxPages + 1
<1> USE RunnerBounds, RunnerRecords
<1> USE DEF engVars, storeVars, blobVars, clientVars
<1>1. /\ written' \subseteq Records /\ requests' \in 0 .. MaxRequests
      /\ nextStamp' \in Nat /\ flushWant' \in {"wanted", "none"}
  <2>1. ASSUME NEW r \in Records, Write(r)
        PROVE  /\ written' \subseteq Records /\ UNCHANGED <<requests, nextStamp>>
               /\ flushWant' \in {"wanted", "none"}
    BY <2>1 DEF Write, Arrive, RequestFlush, TypeOK
  <2>2. ASSUME NEW c \in Clients, \/ AdminFlush(c) \/ FlushSync(c) \/ FlushSyncCheck(c)
                                  \/ \E dry \in {"yes", "no"} : AdminGc(c, dry)
        PROVE  /\ UNCHANGED <<written, nextStamp>> /\ requests' \in 0 .. MaxRequests
               /\ flushWant' \in {"wanted", "none"}
    BY <2>2
    DEF AdminFlush, FlushSync, FlushSyncCheck, AdminGc, Command, Arrive, RequestFlush, TypeOK
  <2>3. CASE OpenCursor \/ Lifecycle \/ UNCHANGED vars
    BY <2>3
    DEF OpenCursor, Lifecycle, CloseDrain, CloseStore, TransactPanics, Panics, vars, TypeOK
  <2>4. ASSUME NEW g \in Runners, FlushLoop(g)
        PROVE  /\ UNCHANGED <<written, requests>> /\ flushWant' \in {"wanted", "none"}
               /\ nextStamp' \in Nat
    <3>1. CASE TakeFlushWant(g)
      BY <3>1 DEF TakeFlushWant, TypeOK
    <3>2. CASE Prepare(g) \/ PrepareKv(g)
      BY <3>2 DEF Prepare, PrepareKv, WriteRoot, TypeOK
    <3>3. CASE UNCHANGED <<written, requests, flushWant, nextStamp>>
      BY <3>3 DEF TypeOK
    <3> QED
      BY <2>4, <3>1, <3>2, <3>3
      DEF FlushLoop, GcTake, GcMark, GcSweep, Capture, PrepareFails, Abort, Publish,
          AutoGc, Exit
  <2> QED
    BY <2>1, <2>2, <2>3, <2>4 DEF Next, Lifecycle, TypeOK
<1>2. /\ Cardinality(written') \in Nat /\ Cardinality(Records) \in Nat
      /\ Cardinality(written') <= Cardinality(Records)
  BY <1>1, FS_Subset, FS_CardinalityType
<1>3. /\ Cardinality(Merged') \in Nat /\ Cardinality(KvRecords) \in Nat
      /\ Cardinality(Merged') <= Cardinality(KvRecords)
  <2>1. IsFiniteSet(KvRecords) /\ Merged' \subseteq KvRecords
    BY FS_Subset DEF Merged
  <2> QED
    BY <2>1, FS_Subset, FS_CardinalityType
<1>4. Pending' \in Nat
  BY DEF Pending
<1>5. nextStamp' + Pending' <= 1 + Cardinality(written') + requests' + Cardinality(Merged')
  BY DEF StampsPaid
<1> QED
  BY <1>1, <1>2, <1>3, <1>4, <1>5 DEF MaxPages

\* The part of the invariant type correctness rests on.
CountInv == TypeOK /\ SingleFlight /\ CaptureInv /\ RecordsInv /\ StampsPaid

\* The runner, its capture, its records and the stamps are consistent in every reachable state.
LEMMA CountInvariant == Spec => []CountInv
<1> USE RunnerBounds, RunnerRecords, RunnerClients
<1>1. Init => CountInv
  <2> SUFFICES ASSUME Init PROVE CountInv
    OBVIOUS
  <2>1. MaxPages \in Nat
    BY FS_CardinalityType, FS_Subset DEF MaxPages
  <2>2. NoJob \in GcJob /\ 0 \in Pages
    BY <2>1 DEF NoJob, GcJob, Pages
  <2>3. TypeOK
    BY <2>1, <2>2 DEF Init, TypeOK, Steps
  <2>4. SingleFlight /\ CaptureInv /\ RecordsInv
    BY DEF Init, SingleFlight, CaptureInv, RecordsInv, InFlight
  <2>5. Merged = {} /\ written = {} /\ Pending = 0 /\ Cardinality({}) = 0
    BY FS_EmptySet DEF Init, Merged, Pending
  <2> QED
    BY <2>3, <2>4, <2>5 DEF Init, CountInv, StampsPaid
<1>2. CountInv /\ [Next]_vars => CountInv'
  BY SingleFlightStep, CaptureStep, RecordsStep, StampsStep, StampsBounded, TypeStep
  DEF CountInv
<1> QED
  BY <1>1, <1>2, PTL DEF Spec

\* No interleaving of commands, flushes and passes takes a variable out of its
\* type: in particular the clock never outruns the roots that requests and KV
\* pairs account for, so no flush writes a root nobody asked for.
THEOREM TypeCorrect == Spec => []TypeOK
<1>1. CountInv => TypeOK
  BY DEF CountInv
<1> QED
  BY <1>1, CountInvariant, PTL
-----------------------------------------------------------------------------
(* What a pass keeps.                                                      *)

\* Roots are finitely many stamps.
LEMMA RootsFinite ==
  ASSUME TypeOK
  PROVE  /\ IsFiniteSet(DOMAIN roots) /\ DOMAIN roots \subseteq Nat
         /\ \A S \in SUBSET DOMAIN roots : IsFiniteSet(S) /\ Cardinality(S) \in Nat
<1>1. MaxPages \in Nat
  BY FS_CardinalityType, FS_Subset, RunnerBounds, RunnerRecords DEF MaxPages
<1>2. IsFiniteSet(Pages) /\ Pages \subseteq Nat
  BY <1>1, FS_Interval DEF Pages
<1> QED
  BY <1>2, FS_Subset, FS_CardinalityType DEF TypeOK

\* ClassifyRoots keeps the newest root whatever the limits are.
LEMMA NewestKept ==
  ASSUME TypeOK, NewestRoot
  PROVE  nextStamp - 1 \in KeepRoots
<1>1. nextStamp \in Nat /\ DOMAIN roots \subseteq Nat
  BY RootsFinite DEF TypeOK
<1>2. {m \in DOMAIN roots : m > nextStamp - 1} = {}
  BY <1>1 DEF NewestRoot
<1>3. Cardinality({m \in DOMAIN roots : m > nextStamp - 1}) = 0
  BY <1>2, FS_EmptySet
<1>4. \A m \in DOMAIN roots : m - (nextStamp - 1) <= GcMaxAge
  BY <1>1, RunnerBounds DEF NewestRoot
<1> QED
  BY <1>3, <1>4, RunnerBounds DEF KeepRoots, NewestRoot

\* A new root only makes others lose their place.
LEMMA KeepShrinks ==
  ASSUME TypeOK, TypeOK', DOMAIN roots' = DOMAIN roots \cup {nextStamp}
  PROVE  KeepRoots' \subseteq KeepRoots \cup {nextStamp}
<1> SUFFICES ASSUME NEW n \in KeepRoots', n # nextStamp PROVE n \in KeepRoots
  OBVIOUS
<1> DEFINE Younger == {m \in DOMAIN roots : m > n}
           YoungerThen == {m \in DOMAIN roots' : m > n}
<1>1. /\ n \in DOMAIN roots
      /\ \A m \in DOMAIN roots' : m - n <= GcMaxAge
      /\ GcMaxRootCount > 0 => Cardinality(YoungerThen) < GcMaxRootCount
  BY DEF KeepRoots
<1>2. IsFiniteSet(DOMAIN roots')
  BY RootsFinite, FS_AddElement
<1>3. IsFiniteSet(YoungerThen) /\ Younger \subseteq YoungerThen
  BY <1>2, FS_Subset
<1>4. /\ Cardinality(Younger) <= Cardinality(YoungerThen)
      /\ Cardinality(Younger) \in Nat /\ Cardinality(YoungerThen) \in Nat
  BY <1>3, FS_Subset, FS_CardinalityType
<1>5. GcMaxRootCount > 0 => Cardinality(Younger) < GcMaxRootCount
  BY <1>1, <1>4, RunnerBounds
<1> QED
  BY <1>1, <1>5 DEF KeepRoots

\* A pass leaves no root that the next pass would remove.
LEMMA SweepIsStable ==
  ASSUME TypeOK, roots' = [n \in KeepRoots |-> roots[n]]
  PROVE  KeepRoots' = DOMAIN roots' /\ DOMAIN roots' = KeepRoots
<1> SUFFICES ASSUME NEW n \in KeepRoots PROVE n \in KeepRoots'
  BY DEF KeepRoots
<1> DEFINE Younger == {m \in DOMAIN roots : m > n}
           YoungerThen == {m \in DOMAIN roots' : m > n}
<1>1. /\ n \in DOMAIN roots' /\ DOMAIN roots' \subseteq DOMAIN roots
      /\ \A m \in DOMAIN roots : m - n <= GcMaxAge
      /\ GcMaxRootCount > 0 => Cardinality(Younger) < GcMaxRootCount
  BY DEF KeepRoots
<1>2. IsFiniteSet(Younger) /\ YoungerThen \subseteq Younger
  BY <1>1, RootsFinite
<1>3. /\ Cardinality(YoungerThen) <= Cardinality(Younger)
      /\ Cardinality(Younger) \in Nat /\ Cardinality(YoungerThen) \in Nat
  BY <1>2, FS_Subset, FS_CardinalityType
<1>4. GcMaxRootCount > 0 => Cardinality(YoungerThen) < GcMaxRootCount
  BY <1>1, <1>3, RunnerBounds
<1> QED
  BY <1>1, <1>4 DEF KeepRoots

\* A step outside flushLoop moves a runner at most from "off" to "gc1".
LEMMA OutsideStep ==
  ASSUME TypeOK, [Next]_vars, \A g \in Runners : ~FlushLoop(g)
  PROVE  /\ UNCHANGED <<job, active, draining, published, trees, prepared, blobVars, aborted>>
         /\ \A g \in Runners : pc'[g] = pc[g] \/ (pc[g] = "off" /\ pc'[g] = "gc1")
<1> USE DEF engVars, storeVars, blobVars, clientVars
<1>1. ASSUME NEW r \in Records, Write(r)
      PROVE  /\ UNCHANGED <<job, active, draining, published, trees, prepared, blobVars, aborted>>
             /\ \A g \in Runners : pc'[g] = pc[g] \/ (pc[g] = "off" /\ pc'[g] = "gc1")
  BY <1>1, StartStep DEF Write, Arrive, RequestFlush, TypeOK
<1>2. ASSUME NEW c \in Clients, \/ AdminFlush(c) \/ FlushSync(c) \/ FlushSyncCheck(c)
                                \/ \E dry \in {"yes", "no"} : AdminGc(c, dry)
      PROVE  /\ UNCHANGED <<job, active, draining, published, trees, prepared, blobVars, aborted>>
             /\ \A g \in Runners : pc'[g] = pc[g] \/ (pc[g] = "off" /\ pc'[g] = "gc1")
  BY <1>2, CommandStep
<1>3. CASE OpenCursor \/ Lifecycle \/ UNCHANGED vars
  BY <1>3 DEF OpenCursor, Lifecycle, CloseDrain, CloseStore, TransactPanics, Panics, vars
<1> QED
  BY <1>1, <1>2, <1>3 DEF Next, Lifecycle

\* Between its mark and its sweep no other step changes the roots.
LEMMA SweepStep ==
  ASSUME TypeOK, SingleFlight, SweepInv, [Next]_vars
  PROVE  SweepInv'
<1> USE DEF Sweeping
<1>1. ASSUME UNCHANGED roots PROVE KeepRoots' = KeepRoots /\ LiveSet' = LiveSet
  BY <1>1 DEF LiveSet, KeepRoots
<1>2. CASE \A g \in Runners : ~FlushLoop(g)
  BY <1>1, <1>2, OutsideStep DEF SweepInv, blobVars
<1>3. ASSUME NEW g \in Runners, FlushLoop(g) PROVE SweepInv'
  <2>1. \A h \in Runners : h # g => pc'[h] = "off"
    BY <1>3, OthersOff
  <2>2. ASSUME NEW here, NEW sweep \in Sweeping, GcMark(g, here, sweep) PROVE SweepInv'
    <3>1. /\ UNCHANGED roots /\ pc'[g] \in Sweeping
          /\ job' = [job EXCEPT ![g] = [job[g] EXCEPT !.keep = LiveSet,
                                                       !.doomed = DOMAIN roots \ KeepRoots]]
      BY <2>2 DEF GcMark, Goto, blobVars, TypeOK
    <3>2. job[g] \in GcJob /\ job \in [Runners -> GcJob]
      BY DEF TypeOK
    <3>3. job'[g].keep = LiveSet /\ job'[g].doomed = DOMAIN roots \ KeepRoots
      BY <3>1, <3>2 DEF GcJob
    <3> QED
      BY <1>1, <2>1, <3>1, <3>3 DEF SweepInv
  <2>3. CASE pc'[g] \notin Sweeping
    BY <2>1, <2>3 DEF SweepInv
  <2>4. CASE \/ GcTake(g, "gc1", "mark1", "want") \/ GcTake(g, "gc2", "mark2", "exit")
             \/ GcSweep(g, "sweep1", "want") \/ GcSweep(g, "sweep2", "exit")
    BY <2>3, <2>4 DEF GcTake, GcSweep, Goto, TypeOK
  <2>5. CASE \/ TakeFlushWant(g) \/ Capture(g) \/ Prepare(g) \/ PrepareKv(g)
             \/ PrepareFails(g) \/ Abort(g) \/ Publish(g) \/ AutoGc(g) \/ Exit(g)
    BY <2>3, <2>5 DEF TakeFlushWant, Capture, Prepare, PrepareKv, PrepareFails, Abort,
                      Publish, AutoGc, Exit, Goto, TypeOK
  <2> QED
    BY <1>3, <2>2, <2>4, <2>5 DEF FlushLoop
<1> QED
  BY <1>2, <1>3

\* What a sweep that is not dry does: it leaves the kept roots and their pages.
LEMMA SweepKeeps ==
  ASSUME TypeOK, NewestRoot, SweepInv, NEW g \in Runners, NEW here \in Sweeping, NEW next,
         GcSweep(g, here, next)
  PROVE  /\ UNCHANGED <<trees, prepared, nextStamp, aborted>>
         /\ nextStamp - 1 \in DOMAIN roots'
         /\ roots'[nextStamp - 1] = roots[nextStamp - 1]
         /\ \/ UNCHANGED <<roots, pages>>
            \/ /\ roots' = [n \in KeepRoots |-> roots[n]]
               /\ pages' = pages \cap LiveSet
<1>1. /\ UNCHANGED <<trees, prepared, nextStamp, aborted>>
      /\ \/ UNCHANGED <<roots, pages>>
         \/ /\ roots' = [n \in DOMAIN roots \ job[g].doomed |-> roots[n]]
            /\ pages' = pages \cap job[g].keep
  BY DEF GcSweep, storeVars
<1>2. job[g].keep = LiveSet /\ job[g].doomed = DOMAIN roots \ KeepRoots
  BY DEF GcSweep, Goto, SweepInv
<1>3. DOMAIN roots \ job[g].doomed = KeepRoots
  BY <1>2 DEF KeepRoots
<1> QED
  BY <1>1, <1>2, <1>3, NewestKept DEF NewestRoot

\* The newest root survives every pass.
LEMMA NewestRootStep ==
  ASSUME TypeOK, NewestRoot, SweepInv, [Next]_vars
  PROVE  NewestRoot'
<1>1. CASE \A g \in Runners : ~FlushLoop(g)
  BY <1>1, OutsideStep DEF NewestRoot, blobVars
<1>2. ASSUME NEW g \in Runners, FlushLoop(g) PROVE NewestRoot'
  <2>1. ASSUME NEW here \in Sweeping, NEW next, GcSweep(g, here, next) PROVE NewestRoot'
    <3>1. DOMAIN roots' \subseteq DOMAIN roots
      BY <2>1, SweepKeeps DEF KeepRoots
    <3> QED
      BY <2>1, <3>1, SweepKeeps DEF NewestRoot
  <2>2. ASSUME NEW base, base = trees \/ base = prepared, WriteRoot(base), UNCHANGED trees
        PROVE  NewestRoot'
    <3>1. nextStamp \in Nat /\ DOMAIN roots \subseteq Nat
      BY RootsFinite DEF TypeOK
    <3>2. /\ nextStamp' = nextStamp + 1
          /\ DOMAIN roots' = DOMAIN roots \cup {nextStamp}
          /\ prepared' \subseteq base \cup {nextStamp}
      BY <2>2 DEF WriteRoot
    <3>3. trees \cup prepared \subseteq Nat
      BY DEF TypeOK, Pages
    <3> QED
      BY <2>2, <3>1, <3>2, <3>3 DEF NewestRoot
  <2>3. CASE UNCHANGED <<blobVars, trees, prepared>>
    BY <2>3 DEF NewestRoot, blobVars
  <2>4. CASE Abort(g) \/ Publish(g)
    BY <2>4 DEF Abort, Publish, NewestRoot, blobVars
  <2>5. CASE \/ GcTake(g, "gc1", "mark1", "want") \/ GcTake(g, "gc2", "mark2", "exit")
             \/ GcMark(g, "mark1", "sweep1") \/ GcMark(g, "mark2", "sweep2")
             \/ TakeFlushWant(g) \/ Capture(g) \/ PrepareFails(g) \/ AutoGc(g) \/ Exit(g)
    BY <2>3, <2>5 DEF GcTake, GcMark, TakeFlushWant, Capture, PrepareFails, AutoGc, Exit,
                      storeVars
  <2> QED
    BY <1>2, <2>1, <2>2, <2>4, <2>5 DEF FlushLoop, Sweeping, Prepare, PrepareKv
<1> QED
  BY <1>1, <1>2

\* The newest root is the one in memory, or the one a runner is to publish.
LEMMA RootIsTreesStep ==
  ASSUME TypeOK, SingleFlight, NewestRoot, RootIsTrees, SweepInv, [Next]_vars
  PROVE  RootIsTrees'
<1> USE DEF blobVars, storeVars
<1>1. CASE \A g \in Runners : ~FlushLoop(g)
  BY <1>1, OutsideStep DEF RootIsTrees
<1>2. ASSUME NEW g \in Runners, FlushLoop(g) PROVE RootIsTrees'
  <2> USE <1>2, OthersOff
  <2>1. ASSUME NEW here \in Sweeping, NEW next \in {"want", "exit"}, GcSweep(g, here, next)
        PROVE  RootIsTrees'
    <3>1. pc[g] \in Sweeping /\ pc'[g] = next
      BY <2>1 DEF GcSweep, Goto, TypeOK
    <3>2. /\ UNCHANGED <<trees, prepared, nextStamp, aborted>>
          /\ roots'[nextStamp - 1] = roots[nextStamp - 1]
      BY <2>1, SweepKeeps
    <3> QED
      BY <3>1, <3>2 DEF RootIsTrees, Sweeping
  <2>2. ASSUME NEW base, WriteRoot(base), pc'[g] \in {"prepareKv", "publish"}
        PROVE  RootIsTrees'
    <3>1. nextStamp \in Nat /\ nextStamp' = nextStamp + 1 /\ roots'[nextStamp] = prepared'
      BY <2>2 DEF WriteRoot, TypeOK
    <3> QED
      BY <2>2, <3>1 DEF RootIsTrees
  <2>3. CASE Prepare(g) \/ PrepareKv(g)
    <3>1. pc'[g] \in {"prepareKv", "publish"}
      BY <2>3 DEF Prepare, PrepareKv, Goto, TypeOK
    <3> QED
      BY <2>2, <2>3, <3>1 DEF Prepare, PrepareKv
  <2>4. CASE PrepareFails(g)
    BY <2>4 DEF PrepareFails, Goto, RootIsTrees, TypeOK
  <2>5. CASE Abort(g)
    BY <2>5 DEF Abort, Goto, RootIsTrees, TypeOK
  <2>6. CASE Publish(g)
    BY <2>6 DEF Publish, Goto, RootIsTrees, TypeOK
  <2>7. CASE \/ GcTake(g, "gc1", "mark1", "want") \/ GcTake(g, "gc2", "mark2", "exit")
             \/ GcMark(g, "mark1", "sweep1") \/ GcMark(g, "mark2", "sweep2")
    BY <2>7 DEF GcTake, GcMark, Goto, RootIsTrees, TypeOK
  <2>8. CASE TakeFlushWant(g) \/ Capture(g) \/ AutoGc(g) \/ Exit(g)
    BY <2>8 DEF TakeFlushWant, Capture, AutoGc, Exit, Goto, RootIsTrees, TypeOK
  <2> QED
    BY <2>1, <2>3, <2>4, <2>5, <2>6, <2>7, <2>8 DEF FlushLoop, Sweeping
<1> QED
  BY <1>1, <1>2

\* No step removes a page that is in use.
LEMMA PagesStep ==
  ASSUME TypeOK, TypeOK', SingleFlight, NewestRoot, RootIsTrees, SweepInv,
         PublishedPagesKept, [Next]_vars
  PROVE  PublishedPagesKept'
<1> USE DEF blobVars, storeVars
<1> SUFFICES ASSUME aborted'.root = "no"
             PROVE  /\ trees' \subseteq pages' /\ prepared' \subseteq pages'
                    /\ \A n \in KeepRoots' : roots'[n] \subseteq pages'
  BY DEF PublishedPagesKept
<1>0. ASSUME aborted.root = "no"
      PROVE  /\ trees \subseteq pages /\ prepared \subseteq pages
             /\ \A n \in KeepRoots : roots[n] \subseteq pages
  BY <1>0 DEF PublishedPagesKept
<1>1. ASSUME UNCHANGED <<roots, pages>>, aborted.root = "no",
             trees' \subseteq trees \cup prepared, prepared' \subseteq prepared
      PROVE  /\ trees' \subseteq pages' /\ prepared' \subseteq pages'
             /\ \A n \in KeepRoots' : roots'[n] \subseteq pages'
  BY <1>0, <1>1 DEF KeepRoots
<1>2. CASE \A g \in Runners : ~FlushLoop(g)
  BY <1>1, <1>2, OutsideStep
<1>3. ASSUME NEW g \in Runners, FlushLoop(g)
      PROVE  /\ trees' \subseteq pages' /\ prepared' \subseteq pages'
             /\ \A n \in KeepRoots' : roots'[n] \subseteq pages'
  <2> USE <1>3, OthersOff
  <2>1. ASSUME NEW here \in Sweeping, NEW next, GcSweep(g, here, next)
        PROVE  /\ trees' \subseteq pages' /\ prepared' \subseteq pages'
               /\ \A n \in KeepRoots' : roots'[n] \subseteq pages'
    <3>1. UNCHANGED <<trees, prepared, aborted>>
      BY <2>1, SweepKeeps
    <3>2. CASE UNCHANGED <<roots, pages>>
      BY <1>1, <3>1, <3>2
    <3>3. CASE roots' = [n \in KeepRoots |-> roots[n]] /\ pages' = pages \cap LiveSet
      <4>1. \A n \in KeepRoots : roots[n] \subseteq LiveSet
        BY DEF LiveSet
      <4>2. trees = roots[nextStamp - 1] /\ prepared = {}
        <5>1. pc[g] \in Sweeping
          BY <2>1 DEF GcSweep, Goto
        <5> QED
          BY <3>1, <5>1 DEF RootIsTrees, Sweeping
      <4>3. KeepRoots' = KeepRoots
        BY <3>3, SweepIsStable
      <4> QED
        BY <1>0, <3>1, <3>3, <4>1, <4>2, <4>3, NewestKept
    <3> QED
      BY <2>1, <3>2, <3>3, SweepKeeps
  <2>2. ASSUME NEW base, base = trees \/ base = prepared, WriteRoot(base),
               UNCHANGED <<trees, aborted>>
        PROVE  /\ trees' \subseteq pages' /\ prepared' \subseteq pages'
               /\ \A n \in KeepRoots' : roots'[n] \subseteq pages'
    <3>1. PICK shared \in SUBSET base :
            /\ prepared' = shared \cup {nextStamp}
            /\ pages' = pages \cup {nextStamp}
            /\ roots' = [n \in DOMAIN roots \cup {nextStamp} |->
                           IF n = nextStamp THEN prepared' ELSE roots[n]]
      BY <2>2 DEF WriteRoot
    <3>2. prepared' \subseteq pages' /\ trees' \subseteq pages'
      BY <1>0, <2>2, <3>1
    <3>3. KeepRoots' \subseteq KeepRoots \cup {nextStamp} /\ KeepRoots \subseteq DOMAIN roots
      BY <3>1, KeepShrinks DEF KeepRoots
    <3>4. ASSUME NEW n \in KeepRoots' PROVE roots'[n] \subseteq pages'
      <4>1. CASE n = nextStamp
        BY <3>1, <3>2, <4>1
      <4>2. CASE n \in KeepRoots /\ n # nextStamp
        BY <1>0, <2>2, <3>1, <3>3, <4>2
      <4> QED
        BY <3>3, <4>1, <4>2
    <3> QED
      BY <3>2, <3>4
  <2>3. CASE PrepareFails(g)
    <3>1. aborted.root = "no"
      BY <2>3 DEF PrepareFails, TypeOK
    <3> QED
      BY <1>1, <2>3, <3>1 DEF PrepareFails
  <2>4. CASE Abort(g)
    <3>1. aborted.root = "no"
      BY <2>4 DEF Abort, TypeOK
    <3> QED
      BY <1>1, <2>4, <3>1 DEF Abort
  <2>5. CASE Publish(g)
    BY <1>1, <2>5 DEF Publish
  <2>6. CASE \/ GcTake(g, "gc1", "mark1", "want") \/ GcTake(g, "gc2", "mark2", "exit")
             \/ GcMark(g, "mark1", "sweep1") \/ GcMark(g, "mark2", "sweep2")
             \/ TakeFlushWant(g) \/ Capture(g) \/ AutoGc(g) \/ Exit(g)
    BY <1>1, <2>6 DEF GcTake, GcMark, TakeFlushWant, Capture, AutoGc, Exit
  <2> QED
    BY <2>1, <2>2, <2>3, <2>4, <2>5, <2>6 DEF FlushLoop, Sweeping, Prepare, PrepareKv
<1> QED
  BY <1>2, <1>3

PagesInv == NewestRoot /\ RootIsTrees /\ SweepInv /\ PublishedPagesKept

\* A pass and a publish never overlap: no blob of the trees in use, of a root
\* about to be published or of a root a restart would open is deleted, unless a
\* flush failed between its two roots.
THEOREM PagesKept == Spec => []PublishedPagesKept
<1>1. Init => PagesInv
  <2> SUFFICES ASSUME Init PROVE PagesInv
    OBVIOUS
  <2>1. NewestRoot /\ RootIsTrees /\ SweepInv
    BY DEF Init, NewestRoot, RootIsTrees, SweepInv, Sweeping
  <2>2. PublishedPagesKept
    BY DEF Init, PublishedPagesKept, KeepRoots
  <2> QED
    BY <2>1, <2>2 DEF PagesInv
<1>2. CountInv /\ CountInv' /\ PagesInv /\ [Next]_vars => PagesInv'
  BY NewestRootStep, RootIsTreesStep, SweepStep, PagesStep DEF PagesInv, CountInv
<1>3. PagesInv => PublishedPagesKept
  BY DEF PagesInv
<1> QED
  BY <1>1, <1>2, <1>3, CountInvariant, PTL DEF Spec
-----------------------------------------------------------------------------
(* What flush-sync waits for.                                              *)

\* The queue after a request was taken, and after one was added.
LEMMA QueueTail ==
  ASSUME NEW q \in Seq(GcRequest), q # <<>>
  PROVE  /\ 1 \in DOMAIN q /\ Head(q) = q[1] /\ Head(q) \in GcRequest
         /\ \A i \in DOMAIN Tail(q) : i + 1 \in DOMAIN q /\ Tail(q)[i] = q[i + 1] /\ i + 1 # 1
         /\ \A i \in DOMAIN q : i # 1 => i - 1 \in DOMAIN Tail(q) /\ Tail(q)[i - 1] = q[i]
OBVIOUS

\* A request appended to gcQueue comes last and moves none of the others.
LEMMA QueueAppend ==
  ASSUME NEW q \in Seq(GcRequest), NEW e \in GcRequest
  PROVE  /\ \A i \in DOMAIN Append(q, e) :
              \/ i \in DOMAIN q /\ Append(q, e)[i] = q[i]
              \/ i = Len(q) + 1 /\ i \notin DOMAIN q /\ Append(q, e)[i] = e
         /\ \A i \in DOMAIN q : i \in DOMAIN Append(q, e) /\ Append(q, e)[i] = q[i]
         /\ Len(q) + 1 \in DOMAIN Append(q, e) /\ Append(q, e)[Len(q) + 1] = e
OBVIOUS

\* The owner of a request is a connection or nobody.
LEMMA OwnerTypes ==
  ASSUME TypeOK
  PROVE  /\ \A i \in DOMAIN gcQueue : gcQueue[i].owner \in Clients \cup {NoClient}
         /\ \A g \in Runners : job[g].owner \in Clients \cup {NoClient}
<1>1. \A i \in DOMAIN gcQueue : gcQueue[i] \in GcRequest
  BY DEF TypeOK
<1>2. \A g \in Runners : job[g] \in GcJob
  BY DEF TypeOK
<1> QED
  BY <1>1, <1>2 DEF GcRequest, GcJob

\* A connection that waits for a GC answer waits for one request, and only
\* that request's pass answers it.
LEMMA OwnersStep ==
  ASSUME TypeOK, SingleFlight, OwnersWait, [Next]_vars
  PROVE  OwnersWait'
<1> USE OwnerTypes, RunnerClients
<1> USE DEF engVars, storeVars, blobVars, clientVars, Collecting, Sweeping
<1>1. ASSUME UNCHANGED <<gcQueue, job>>,
             \A g \in Runners : pc'[g] \in Collecting => pc'[g] = pc[g],
             \A c \in Clients : client[c] = "gc" => client'[c] = "gc"
      PROVE  OwnersWait'
  BY <1>1 DEF OwnersWait
<1>2. ASSUME NEW r \in Records, Write(r) PROVE OwnersWait'
  <2>1. \A g \in Runners : pc'[g] = pc[g] \/ (pc[g] = "off" /\ pc'[g] = "gc1")
    BY <1>2, StartStep DEF Write, Arrive, RequestFlush, TypeOK
  <2> QED
    BY <1>1, <1>2, <2>1 DEF Write
<1>3. ASSUME NEW c \in Clients, AdminFlush(c) \/ FlushSync(c) \/ FlushSyncCheck(c)
      PROVE  OwnersWait'
  <2>1. \A g \in Runners : pc'[g] = pc[g] \/ (pc[g] = "off" /\ pc'[g] = "gc1")
    BY <1>3, CommandStep
  <2>2. UNCHANGED <<gcQueue, job>>
    BY <1>3 DEF AdminFlush, FlushSync, FlushSyncCheck
  <2>3. \A d \in Clients : client[d] = "gc" => client'[d] = "gc"
    BY <1>3 DEF AdminFlush, FlushSync, FlushSyncCheck, Command, TypeOK
  <2> QED
    BY <1>1, <2>1, <2>2, <2>3
<1>4. ASSUME NEW c \in Clients, NEW dry \in {"yes", "no"}, AdminGc(c, dry) PROVE OwnersWait'
  <2>1. \A g \in Runners : pc'[g] = pc[g] \/ (pc[g] = "off" /\ pc'[g] = "gc1")
    BY <1>4, CommandStep
  <2> DEFINE e == [owner |-> c, dry |-> dry]
  <2>2. /\ gcQueue' = Append(gcQueue, e) /\ UNCHANGED job
        /\ client[c] = "idle" /\ client' = [client EXCEPT ![c] = "gc"]
    BY <1>4 DEF AdminGc, Command, RequestGc
  <2>3. gcQueue \in Seq(GcRequest) /\ e \in GcRequest /\ e.owner = c
    BY DEF TypeOK, GcRequest
  <2> HIDE DEF e
  <2>4. \A i \in DOMAIN gcQueue' :
          \/ i \in DOMAIN gcQueue /\ gcQueue'[i] = gcQueue[i]
          \/ i = Len(gcQueue) + 1 /\ gcQueue'[i].owner = c
    BY <2>2, <2>3, QueueAppend
  <2>5. \A i \in DOMAIN gcQueue : gcQueue[i].owner # c
    BY <2>2 DEF OwnersWait, TypeOK
  <2>6. \A d \in Clients : client[d] = "gc" => client'[d] = "gc"
    BY <2>2 DEF TypeOK
  <2>7. client'[c] = "gc"
    BY <2>2 DEF TypeOK
  <2> QED
    BY <2>1, <2>2, <2>4, <2>5, <2>6, <2>7 DEF OwnersWait
<1>5. CASE OpenCursor \/ Lifecycle \/ UNCHANGED vars
  BY <1>1, <1>5 DEF OpenCursor, Lifecycle, CloseDrain, CloseStore, TransactPanics, Panics, vars
<1>6. ASSUME NEW g \in Runners, FlushLoop(g) PROVE OwnersWait'
  <2> USE <1>6, OthersOff
  <2>1. ASSUME NEW here \in {"gc1", "gc2"}, NEW mark \in {"mark1", "mark2"},
               NEW next \in {"want", "exit"}, GcTake(g, here, mark, next)
        PROVE  OwnersWait'
    <3>1. CASE gcQueue = <<>>
      <4>1. pc'[g] = next /\ UNCHANGED <<gcQueue, job, client>>
        BY <2>1, <3>1 DEF GcTake, Goto, TypeOK
      <4> QED
        BY <1>1, <4>1
    <3>2. CASE gcQueue # <<>>
      <4>1. gcQueue' = Tail(gcQueue) /\ gcQueue \in Seq(GcRequest)
        BY <2>1, <3>2 DEF GcTake, TypeOK
      <4> DEFINE o == gcQueue[1].owner
      <4>2. /\ 1 \in DOMAIN gcQueue /\ o = Head(gcQueue).owner
            /\ \A i \in DOMAIN gcQueue' : /\ i + 1 \in DOMAIN gcQueue
                                          /\ gcQueue'[i] = gcQueue[i + 1] /\ i + 1 # 1
        BY <3>2, <4>1, QueueTail
      <4>3. \A i \in DOMAIN gcQueue' : gcQueue'[i].owner # NoClient => gcQueue'[i].owner # o
        BY <4>2 DEF OwnersWait
      <4>4. \A i, j \in DOMAIN gcQueue' :
              gcQueue'[i].owner # NoClient /\ gcQueue'[i].owner = gcQueue'[j].owner => i = j
        <5> SUFFICES ASSUME NEW i \in DOMAIN gcQueue', NEW j \in DOMAIN gcQueue',
                            gcQueue'[i].owner # NoClient,
                            gcQueue'[i].owner = gcQueue'[j].owner
                     PROVE  i = j
          OBVIOUS
        <5>1. i + 1 = j + 1
          BY <4>2 DEF OwnersWait
        <5>2. i \in Int /\ j \in Int
          BY <4>1
        <5> QED
          BY <5>1, <5>2
      <4>5. CASE pc'[g] = next /\ Finish(o) /\ UNCHANGED job
        <5>1. \A c \in Clients : client[c] = "gc" /\ c # o => client'[c] = "gc"
          BY <4>5 DEF Finish, TypeOK
        <5> QED
          BY <4>2, <4>3, <4>4, <4>5, <5>1 DEF OwnersWait
      <4>6. CASE /\ pc'[g] = mark /\ UNCHANGED client
                 /\ job' = [job EXCEPT ![g] = [NoJob EXCEPT !.owner = o,
                                                            !.dry = Head(gcQueue).dry]]
        <5>1. job'[g].owner = o
          BY <4>6 DEF TypeOK, NoJob
        <5> QED
          BY <4>2, <4>3, <4>4, <4>6, <5>1 DEF OwnersWait
      <4> QED
        BY <2>1, <3>2, <4>2, <4>5, <4>6 DEF GcTake, Goto, TypeOK
    <3> QED
      BY <3>1, <3>2
  <2>2. ASSUME NEW here \in {"mark1", "mark2"}, NEW sweep, GcMark(g, here, sweep)
        PROVE  OwnersWait'
    <3>1. job'[g].owner = job[g].owner /\ pc[g] = here /\ UNCHANGED <<gcQueue, client>>
      BY <2>2 DEF GcMark, Goto, TypeOK, GcJob
    <3> QED
      BY <3>1 DEF OwnersWait
  <2>3. ASSUME NEW here \in Sweeping, NEW next \in {"want", "exit"}, GcSweep(g, here, next)
        PROVE  OwnersWait'
    <3>1. pc[g] = here /\ pc'[g] = next /\ UNCHANGED gcQueue /\ Finish(job[g].owner)
      BY <2>3 DEF GcSweep, Goto, TypeOK
    <3>2. \A c \in Clients : client[c] = "gc" /\ c # job[g].owner => client'[c] = "gc"
      BY <3>1 DEF Finish, TypeOK
    <3> QED
      BY <3>1, <3>2 DEF OwnersWait
  <2>4. CASE \/ TakeFlushWant(g) \/ Capture(g) \/ Prepare(g) \/ PrepareKv(g)
             \/ PrepareFails(g) \/ Abort(g) \/ Publish(g)
    <3>1. pc'[g] \notin Collecting /\ UNCHANGED <<gcQueue, job, client>>
      BY <2>4 DEF TakeFlushWant, Capture, Prepare, PrepareKv, PrepareFails, Abort, Publish,
                  Goto, TypeOK
    <3> QED
      BY <1>1, <3>1
  <2>5. CASE AutoGc(g)
    <3> DEFINE e == [owner |-> NoClient, dry |-> "no"]
    <3>1. gcQueue \in Seq(GcRequest) /\ e \in GcRequest /\ e.owner = NoClient
      BY DEF TypeOK, GcRequest
    <3>2. /\ pc'[g] = "gc2" /\ UNCHANGED <<job, client>>
          /\ gcQueue' = gcQueue \/ gcQueue' = Append(gcQueue, e)
      BY <2>5 DEF AutoGc, Goto, TypeOK
    <3> HIDE DEF e
    <3>3. \A i \in DOMAIN gcQueue' :
            \/ i \in DOMAIN gcQueue /\ gcQueue'[i] = gcQueue[i]
            \/ gcQueue'[i].owner = NoClient
      BY <3>1, <3>2, QueueAppend
    <3> QED
      BY <3>2, <3>3 DEF OwnersWait
  <2>6. CASE Exit(g)
    <3>1. /\ pc'[g] \notin Collecting /\ UNCHANGED <<gcQueue, job>>
          /\ \A c \in Clients : client[c] = "gc" => client'[c] = "gc"
      BY <2>6 DEF Exit, Goto, TypeOK
    <3> QED
      BY <1>1, <3>1
  <2> QED
    BY <2>1, <2>2, <2>3, <2>4, <2>5, <2>6 DEF FlushLoop
<1> QED
  BY <1>2, <1>3, <1>4, <1>5, <1>6 DEF Next, Lifecycle

\* A request is dropped only with its answer.
LEMMA AwaitedStep ==
  ASSUME TypeOK, SingleFlight, GcAwaited, [Next]_vars
  PROVE  GcAwaited'
<1> USE OwnerTypes, RunnerClients
<1> USE DEF engVars, storeVars, blobVars, clientVars, Collecting, Sweeping
<1>1. ASSUME UNCHANGED <<gcQueue, job>>,
             \A g \in Runners : pc[g] \in Collecting => pc'[g] = pc[g],
             \A c \in Clients : client'[c] = "gc" => client[c] = "gc"
      PROVE  GcAwaited'
  BY <1>1 DEF GcAwaited
<1>2. ASSUME NEW r \in Records, Write(r) PROVE GcAwaited'
  <2>1. \A g \in Runners : pc'[g] = pc[g] \/ (pc[g] = "off" /\ pc'[g] = "gc1")
    BY <1>2, StartStep DEF Write, RequestFlush, TypeOK
  <2> QED
    BY <1>1, <1>2, <2>1 DEF Write
<1>3. ASSUME NEW c \in Clients, AdminFlush(c) \/ FlushSync(c) \/ FlushSyncCheck(c)
      PROVE  GcAwaited'
  <2>1. \A g \in Runners : pc'[g] = pc[g] \/ (pc[g] = "off" /\ pc'[g] = "gc1")
    BY <1>3, CommandStep
  <2>2. UNCHANGED <<gcQueue, job>>
    BY <1>3 DEF AdminFlush, FlushSync, FlushSyncCheck
  <2>3. \A d \in Clients : client'[d] = "gc" => client[d] = "gc"
    BY <1>3 DEF AdminFlush, FlushSync, FlushSyncCheck, TypeOK
  <2> QED
    BY <1>1, <2>1, <2>2, <2>3
<1>4. ASSUME NEW c \in Clients, NEW dry \in {"yes", "no"}, AdminGc(c, dry) PROVE GcAwaited'
  <2>1. /\ \A g \in Runners : pc'[g] = pc[g] \/ (pc[g] = "off" /\ pc'[g] = "gc1")
        /\ UNCHANGED job
    BY <1>4, CommandStep
  <2> DEFINE e == [owner |-> c, dry |-> dry]
  <2>2. gcQueue' = Append(gcQueue, e) /\ client' = [client EXCEPT ![c] = "gc"]
    BY <1>4 DEF AdminGc, RequestGc
  <2>3. gcQueue \in Seq(GcRequest) /\ e \in GcRequest /\ e.owner = c
    BY DEF TypeOK, GcRequest
  <2> HIDE DEF e
  <2>4. /\ \A i \in DOMAIN gcQueue : i \in DOMAIN gcQueue' /\ gcQueue'[i] = gcQueue[i]
        /\ \E i \in DOMAIN gcQueue' : gcQueue'[i].owner = c
    BY <2>2, <2>3, QueueAppend
  <2>5. \A d \in Clients : d # c /\ client'[d] = "gc" => client[d] = "gc"
    BY <2>2 DEF TypeOK
  <2> QED
    BY <2>1, <2>4, <2>5 DEF GcAwaited
<1>5. CASE OpenCursor \/ Lifecycle \/ UNCHANGED vars
  BY <1>1, <1>5 DEF OpenCursor, Lifecycle, CloseDrain, CloseStore, TransactPanics, Panics, vars
<1>6. ASSUME NEW g \in Runners, FlushLoop(g) PROVE GcAwaited'
  <2> USE <1>6, OthersOff
  <2>1. ASSUME NEW here \in {"gc1", "gc2"}, NEW mark \in {"mark1", "mark2"},
               NEW next \in {"want", "exit"}, GcTake(g, here, mark, next)
        PROVE  GcAwaited'
    <3>1. pc[g] = here
      BY <2>1 DEF GcTake, Goto
    <3>2. CASE gcQueue = <<>>
      <4>1. UNCHANGED <<gcQueue, job, client>>
        BY <2>1, <3>2 DEF GcTake
      <4> QED
        BY <1>1, <3>1, <4>1
    <3>3. CASE gcQueue # <<>>
      <4>1. gcQueue' = Tail(gcQueue) /\ gcQueue \in Seq(GcRequest)
        BY <2>1, <3>3 DEF GcTake, TypeOK
      <4> DEFINE o == gcQueue[1].owner
      <4>2. /\ 1 \in DOMAIN gcQueue /\ o = Head(gcQueue).owner
            /\ \A i \in DOMAIN gcQueue : i # 1 => /\ i - 1 \in DOMAIN gcQueue'
                                                  /\ gcQueue'[i - 1] = gcQueue[i]
        BY <3>3, <4>1, QueueTail
      <4>3. o \in Clients \cup {NoClient}
        BY <4>2
      <4>4. \A c \in Clients : client[c] = "gc" /\ c # o =>
              \E i \in DOMAIN gcQueue' : gcQueue'[i].owner = c
        BY <3>1, <4>2 DEF GcAwaited
      <4>5. CASE Finish(o)
        <5>1. \A c \in Clients : client'[c] = "gc" => client[c] = "gc" /\ c # o
          BY <4>3, <4>5 DEF Finish, TypeOK
        <5> QED
          BY <4>4, <5>1 DEF GcAwaited
      <4>6. CASE /\ pc'[g] = mark /\ UNCHANGED client
                 /\ job' = [job EXCEPT ![g] = [NoJob EXCEPT !.owner = o,
                                                            !.dry = Head(gcQueue).dry]]
        <5>1. job'[g].owner = o
          BY <4>6 DEF TypeOK, NoJob
        <5> QED
          BY <4>4, <4>6, <5>1 DEF GcAwaited
      <4> QED
        BY <2>1, <3>3, <4>2, <4>5, <4>6 DEF GcTake, Goto, TypeOK
    <3> QED
      BY <3>2, <3>3
  <2>2. ASSUME NEW here \in {"mark1", "mark2"}, NEW sweep \in Sweeping,
               GcMark(g, here, sweep)
        PROVE  GcAwaited'
    <3>1. /\ job'[g].owner = job[g].owner /\ pc[g] = here /\ pc'[g] = sweep
          /\ UNCHANGED <<gcQueue, client>>
      BY <2>2 DEF GcMark, Goto, TypeOK, GcJob
    <3> QED
      BY <3>1 DEF GcAwaited
  <2>3. ASSUME NEW here \in Sweeping, NEW next \in {"want", "exit"}, GcSweep(g, here, next)
        PROVE  GcAwaited'
    <3>1. pc[g] = here /\ UNCHANGED gcQueue /\ Finish(job[g].owner)
      BY <2>3 DEF GcSweep, Goto
    <3>2. \A c \in Clients : client'[c] = "gc" => client[c] = "gc" /\ c # job[g].owner
      BY <3>1 DEF Finish, TypeOK
    <3> QED
      BY <3>1, <3>2 DEF GcAwaited
  <2>4. CASE \/ TakeFlushWant(g) \/ Capture(g) \/ Prepare(g) \/ PrepareKv(g)
             \/ PrepareFails(g) \/ Abort(g) \/ Publish(g)
    <3>1. pc[g] \notin Collecting /\ UNCHANGED <<gcQueue, job, client>>
      BY <2>4 DEF TakeFlushWant, Capture, Prepare, PrepareKv, PrepareFails, Abort, Publish,
                  Goto
    <3> QED
      BY <1>1, <3>1
  <2>5. CASE AutoGc(g)
    <3> DEFINE e == [owner |-> NoClient, dry |-> "no"]
    <3>1. gcQueue \in Seq(GcRequest) /\ e \in GcRequest
      BY DEF TypeOK, GcRequest
    <3>2. /\ pc[g] = "autogc" /\ UNCHANGED <<job, client>>
          /\ gcQueue' = gcQueue \/ gcQueue' = Append(gcQueue, e)
      BY <2>5 DEF AutoGc, Goto
    <3> HIDE DEF e
    <3>3. \A i \in DOMAIN gcQueue : i \in DOMAIN gcQueue' /\ gcQueue'[i] = gcQueue[i]
      BY <3>1, <3>2, QueueAppend
    <3> QED
      BY <3>2, <3>3 DEF GcAwaited
  <2>6. CASE Exit(g)
    <3>1. /\ pc[g] \notin Collecting /\ UNCHANGED <<gcQueue, job>>
          /\ \A c \in Clients : client'[c] = "gc" => client[c] = "gc"
      BY <2>6 DEF Exit, Goto, TypeOK
    <3> QED
      BY <1>1, <3>1
  <2> QED
    BY <2>1, <2>2, <2>3, <2>4, <2>5, <2>6 DEF FlushLoop, Sweeping
<1> QED
  BY <1>2, <1>3, <1>4, <1>5, <1>6 DEF Next, Lifecycle

\* What a waiting flush-sync is owed is captured by the flush its own request
\* stands for, or was before.
LEMMA SyncStep ==
  ASSUME TypeOK, SingleFlight, CaptureInv, RecordsInv, OwnersWait, SyncInv, [Next]_vars,
         \A c \in Clients : owed[c] \subseteq written
  PROVE  SyncInv'
<1> USE DEF engVars, storeVars, blobVars, clientVars
<1>1. ASSUME UNCHANGED <<draining, published, aborted, owed>>,
             flushWant = "wanted" => flushWant' = "wanted",
             \A g \in Runners : pc[g] = "capture" => pc'[g] = "capture",
             \A c \in Clients : client'[c] \in {"check", "wait"} => client[c] \in {"check", "wait"}
      PROVE  SyncInv'
  BY <1>1 DEF SyncInv
<1>2. ASSUME NEW r \in Records, Write(r) PROVE SyncInv'
  <2>1. \A g \in Runners : pc'[g] = pc[g] \/ (pc[g] = "off" /\ pc'[g] = "gc1")
    BY <1>2, StartStep DEF Write, Arrive, RequestFlush, TypeOK
  <2> QED
    BY <1>1, <1>2, <2>1 DEF Write, RequestFlush
<1>3. ASSUME NEW c \in Clients, AdminFlush(c) \/ FlushSync(c) PROVE SyncInv'
  BY <1>3 DEF AdminFlush, FlushSync, RequestFlush, SyncInv
<1>4. ASSUME NEW c \in Clients,
             FlushSyncCheck(c) \/ \E dry \in {"yes", "no"} : AdminGc(c, dry)
      PROVE  SyncInv'
  <2>1. /\ UNCHANGED <<draining, published, aborted>>
        /\ \A g \in Runners : pc'[g] = pc[g] \/ (pc[g] = "off" /\ pc'[g] = "gc1")
    BY <1>4, CommandStep
  <2>2. UNCHANGED <<flushWant, owed>>
    BY <1>4 DEF FlushSyncCheck, AdminGc
  <2>3. \A d \in Clients :
          client'[d] \in {"check", "wait"} => client[d] \in {"check", "wait"}
    BY <1>4 DEF FlushSyncCheck, AdminGc, TypeOK
  <2> QED
    BY <1>1, <2>1, <2>2, <2>3
<1>5. CASE OpenCursor \/ Lifecycle \/ UNCHANGED vars
  BY <1>1, <1>5 DEF OpenCursor, Lifecycle, CloseDrain, CloseStore, TransactPanics, Panics, vars
<1>6. ASSUME NEW g \in Runners, FlushLoop(g) PROVE SyncInv'
  <2> USE <1>6, OthersOff
  <2>1. ASSUME NEW o \in Clients \cup {NoClient}, Finish(o)
        PROVE  \A d \in Clients :
                 client'[d] \in {"check", "wait"} => client[d] \in {"check", "wait"}
    BY <2>1 DEF Finish, TypeOK
  <2>2. CASE \/ GcTake(g, "gc1", "mark1", "want") \/ GcTake(g, "gc2", "mark2", "exit")
    <3>1. gcQueue # <<>> => Head(gcQueue).owner \in Clients \cup {NoClient}
      BY OwnerTypes, QueueTail DEF TypeOK
    <3>2. /\ UNCHANGED <<draining, published, aborted, owed, flushWant>>
          /\ pc[g] # "capture"
          /\ UNCHANGED client \/ (gcQueue # <<>> /\ Finish(Head(gcQueue).owner))
      BY <2>2 DEF GcTake, Goto
    <3> QED
      BY <1>1, <2>1, <3>1, <3>2
  <2>3. CASE \/ GcMark(g, "mark1", "sweep1") \/ GcMark(g, "mark2", "sweep2")
    BY <1>1, <2>3 DEF GcMark, Goto
  <2>4. CASE \/ GcSweep(g, "sweep1", "want") \/ GcSweep(g, "sweep2", "exit")
    <3>1. /\ UNCHANGED <<draining, published, aborted, owed, flushWant>>
          /\ pc[g] # "capture" /\ Finish(job[g].owner)
      BY <2>4 DEF GcSweep, Goto
    <3> QED
      BY <1>1, <2>1, <3>1, OwnerTypes
  <2>5. CASE TakeFlushWant(g)
    <3>1. CASE flushWant = "wanted"
      <4>1. pc'[g] = "capture"
        BY <2>5, <3>1 DEF TakeFlushWant, Goto, TypeOK
      <4> QED
        BY <4>1 DEF SyncInv
    <3>2. CASE flushWant # "wanted"
      BY <1>1, <2>5, <3>2 DEF TakeFlushWant, Goto
    <3> QED
      BY <3>1, <3>2
  <2>6. CASE Capture(g)
    <3>1. active = "no"
      BY <2>6 DEF Capture, Goto, CaptureInv, InFlight, TypeOK
    <3>2. /\ draining' = live /\ UNCHANGED <<published, aborted, owed, written, client>>
      BY <2>6, <3>1 DEF Capture
    <3>3. draining = {}
      BY <3>1 DEF CaptureInv
    <3> QED
      BY <3>2, <3>3 DEF RecordsInv, SyncInv
  <2>7. CASE Abort(g) \/ Publish(g)
    <3>1. /\ draining \cup published \cup aborted.lost
               \subseteq draining' \cup published' \cup aborted'.lost
          /\ UNCHANGED <<flushWant, owed, client>>
      BY <2>7 DEF Abort, Publish, TypeOK
    <3>2. pc[g] # "capture"
      BY <2>7 DEF Abort, Publish, Goto
    <3> QED
      BY <3>1, <3>2 DEF SyncInv
  <2>8. CASE PrepareFails(g)
    <3>1. /\ aborted'.lost = aborted.lost /\ pc[g] # "capture"
          /\ UNCHANGED <<draining, published, flushWant, owed, client>>
      BY <2>8 DEF PrepareFails, Goto, TypeOK
    <3> QED
      BY <3>1 DEF SyncInv
  <2>9. CASE Prepare(g) \/ PrepareKv(g) \/ AutoGc(g)
    BY <1>1, <2>9 DEF Prepare, PrepareKv, AutoGc, Goto
  <2>10. CASE Exit(g)
    <3>1. /\ UNCHANGED <<draining, published, aborted, owed, flushWant>> /\ pc[g] # "capture"
          /\ \A d \in Clients :
               client'[d] \in {"check", "wait"} => client[d] \in {"check", "wait"}
      BY <2>10 DEF Exit, Goto, TypeOK
    <3> QED
      BY <1>1, <3>1
  <2> QED
    BY <2>2, <2>3, <2>4, <2>5, <2>6, <2>7, <2>8, <2>9, <2>10 DEF FlushLoop
<1> QED
  BY <1>2, <1>3, <1>4, <1>5, <1>6 DEF Next, Lifecycle

\* A flush-sync is owed records that were written.
LEMMA OwedStep ==
  ASSUME TypeOK, [Next]_vars, \A c \in Clients : owed[c] \subseteq written
  PROVE  \A c \in Clients : owed'[c] \subseteq written'
<1> USE DEF engVars, storeVars, blobVars, clientVars
<1>1. ASSUME NEW r \in Records, Write(r) PROVE \A c \in Clients : owed'[c] \subseteq written'
  BY <1>1 DEF Write
<1>2. ASSUME NEW c \in Clients, FlushSync(c)
      PROVE  \A d \in Clients : owed'[d] \subseteq written'
  BY <1>2 DEF FlushSync, TypeOK
<1>3. CASE UNCHANGED <<owed, written>>
  BY <1>3
<1> QED
  BY <1>1, <1>2, <1>3
  DEF Next, vars, AdminFlush, FlushSyncCheck, AdminGc, CloseDrain, CloseStore, TransactPanics,
      Panics, OpenCursor, FlushLoop, GcTake,
      GcMark, GcSweep, TakeFlushWant, Capture, Prepare, PrepareKv, PrepareFails, Abort,
      Publish, AutoGc, Exit

WaitInv ==
  OwnersWait /\ GcAwaited /\ SyncInv /\ \A c \in Clients : owed[c] \subseteq written

\* Who waits in flush-sync or admin gc is owed something that is still under way.
LEMMA WaitInvariant == Spec => [](CountInv /\ WaitInv)
<1>1. Init => WaitInv
  BY DEF Init, WaitInv, OwnersWait, GcAwaited, SyncInv, Collecting, Sweeping
<1>2. CountInv /\ WaitInv /\ [Next]_vars => WaitInv'
  BY OwnersStep, AwaitedStep, SyncStep, OwedStep DEF CountInv, WaitInv
<1> QED
  BY <1>1, <1>2, CountInvariant, PTL DEF Spec

\* What Engine.Close drains: until a request comes after it, no runner is at
\* work, nothing is queued for one and no connection waits for a pass.  That a
\* runner exits only with nothing to do, that a request starts one unless one
\* runs, and that a pass at work answers its owner make this so.
THEOREM ClosedStoreQuiet == Spec => []CloseDrains
<1>1. CountInv /\ WaitInv => CloseDrains
  <2> SUFFICES ASSUME CountInv, WaitInv, engine \in {"drained", "closed"}, late = "no"
               PROVE  /\ \A g \in Runners : pc[g] = "off"
                      /\ flushWant = "none" /\ gcQueue = <<>>
                      /\ \A c \in Clients : client[c] # "gc"
    BY DEF CloseDrains
  <2>1. flushWant = "none" /\ gcQueue = <<>> /\ \A g \in Runners : pc[g] = "off"
    BY DEF CountInv, SingleFlight
  <2>2. \A c \in Clients : client[c] # "gc"
    BY <2>1 DEF WaitInv, GcAwaited, Collecting, Sweeping
  <2> QED
    BY <2>1, <2>2
<1> QED
  BY <1>1, WaitInvariant, PTL

\* A flush-sync that returns finds in the trees everything written before it
\* was issued, but what a failed flush dropped: a flush already under way when
\* it came does not count as its own, and only its own answer releases it.
THEOREM SyncPublishes == Spec => FlushSyncPublishes
<1> DEFINE Returns ==
      \A c \in Clients : client[c] = "check" /\ client'[c] = "idle"
                           => owed[c] \subseteq published \cup aborted.lost
<1>1. CountInv /\ WaitInv /\ [Next]_vars => [Returns]_vars
  <2> SUFFICES ASSUME CountInv, WaitInv, Next,
                      NEW c \in Clients, client[c] = "check", client'[c] = "idle"
               PROVE  owed[c] \subseteq published \cup aborted.lost
    BY DEF Returns
  <2> USE OwnerTypes, RunnerClients
  <2> USE DEF engVars, storeVars, blobVars, clientVars
  <2>1. TypeOK /\ SingleFlight /\ CaptureInv /\ OwnersWait /\ SyncInv
    BY DEF CountInv, WaitInv
  <2>2. client'[c] # client[c]
    OBVIOUS
  <2>3. ASSUME NEW d \in Clients, FlushSyncCheck(d) PROVE flushing = "idle"
    BY <2>1, <2>2, <2>3 DEF FlushSyncCheck, TypeOK
  <2>4. ASSUME NEW d \in Clients, NEW dry,
               AdminFlush(d) \/ FlushSync(d) \/ AdminGc(d, dry)
        PROVE  FALSE
    BY <2>1, <2>4 DEF AdminFlush, FlushSync, AdminGc, Command, TypeOK
  <2>5. ASSUME NEW o, o # NoClient => o \in Clients /\ client[o] = "gc", Finish(o) PROVE FALSE
    BY <2>1, <2>5 DEF Finish, TypeOK
  <2>6. ASSUME NEW g \in Runners, FlushLoop(g) PROVE FALSE
    <3>1. ASSUME NEW here, NEW mark, NEW next, GcTake(g, here, mark, next) PROVE FALSE
      <4>1. gcQueue # <<>> /\ Finish(Head(gcQueue).owner)
        BY <2>2, <3>1 DEF GcTake
      <4>2. 1 \in DOMAIN gcQueue /\ Head(gcQueue) = gcQueue[1]
        BY <2>1, <4>1, QueueTail DEF TypeOK
      <4> QED
        BY <2>1, <2>5, <4>1, <4>2 DEF OwnersWait
    <3>2. ASSUME NEW here \in Sweeping, NEW next, GcSweep(g, here, next) PROVE FALSE
      BY <2>1, <2>5, <3>2 DEF GcSweep, Goto, OwnersWait, Collecting
    <3>3. CASE Exit(g)
      BY <2>1, <3>3 DEF Exit, TypeOK
    <3>4. CASE UNCHANGED client
      BY <2>2, <3>4
    <3> QED
      BY <2>6, <3>1, <3>2, <3>3, <3>4
      DEF FlushLoop, Sweeping, GcMark, TakeFlushWant, Capture, Prepare, PrepareKv,
          PrepareFails, Abort, Publish, AutoGc
  <2>7. flushing = "idle"
    BY <2>2, <2>3, <2>4, <2>6
    DEF Next, Write, CloseDrain, CloseStore, TransactPanics, Panics, OpenCursor
  <2>8. draining = {} /\ flushWant = "none" /\ \A g \in Runners : pc[g] = "off"
    BY <2>1, <2>7 DEF SingleFlight, CaptureInv, InFlight, TypeOK
  <2> QED
    BY <2>1, <2>8 DEF SyncInv
<1> QED
  BY <1>1, WaitInvariant, PTL DEF Spec, FlushSyncPublishes, Returns
-----------------------------------------------------------------------------
(* What an idle runner has collected.                                      *)

\* A failed flush dooms no root older than the published one, when only the
\* newest is kept.
LEMMA CollectedUnderNewRoot ==
  ASSUME TypeOK, NewestRoot, Collected, GcMaxAge = 0, UNCHANGED trees,
         DOMAIN roots' = DOMAIN roots \cup {nextStamp}
  PROVE  Collected'
<1>1. nextStamp \in Nat /\ DOMAIN roots \subseteq Nat /\ trees \subseteq Nat
  BY RootsFinite DEF TypeOK, Pages
<1> SUFFICES ASSUME NEW n \in DOMAIN roots', NEW m \in trees, n \notin KeepRoots'
             PROVE  m <= n
  BY DEF Collected
<1>2. CASE n \in {nextStamp, nextStamp - 1}
  BY <1>1, <1>2 DEF NewestRoot
<1>3. CASE n \in DOMAIN roots /\ n < nextStamp - 1
  <2>1. n \notin KeepRoots
    BY <1>1, <1>3 DEF KeepRoots, NewestRoot
  <2> QED
    BY <1>3, <2>1 DEF Collected
<1> QED
  BY <1>1, <1>2, <1>3 DEF NewestRoot

\* A store closed under a late request's runner stays so.
LEMMA TimelyStep ==
  ASSUME TypeOK, SingleFlight, [Next]_vars
  PROVE  Timely' => Timely
<1> USE DEF engVars, storeVars, blobVars, clientVars, Timely
<1>1. ASSUME NEW r \in Records, Write(r) PROVE Timely' => Timely
  BY <1>1 DEF Write, Arrive
<1>2. ASSUME NEW c \in Clients, NEW dry, AdminFlush(c) \/ FlushSync(c) \/ AdminGc(c, dry)
      PROVE  Timely' => Timely
  BY <1>2 DEF AdminFlush, FlushSync, AdminGc, Command, Arrive
<1>3. CASE \/ OpenCursor \/ Lifecycle \/ UNCHANGED vars
           \/ \E c \in Clients : FlushSyncCheck(c)
  BY <1>3 DEF OpenCursor, Lifecycle, CloseDrain, CloseStore, TransactPanics, Panics, vars,
              FlushSyncCheck, SingleFlight
<1>4. ASSUME NEW g \in Runners, FlushLoop(g) PROVE Timely' => Timely
  BY <1>4, LoopStep
<1> QED
  BY <1>1, <1>2, <1>3, <1>4 DEF Next, Lifecycle

\* A pass is queued for what every publish leaves, and removes it.
LEMMA AutoStep ==
  ASSUME TypeOK, SingleFlight, CaptureInv, NewestRoot, SweepInv, AutoInv, [Next]_vars
  PROVE  AutoInv'
<1> USE RunnerClients, TimelyStep
<1> USE DEF engVars, storeVars, blobVars, clientVars, Collecting, Sweeping
<1>1. ASSUME UNCHANGED <<roots, trees>>, Collected PROVE Collected'
  BY <1>1 DEF Collected, KeepRoots
<1>2. ASSUME UNCHANGED <<gcQueue, job, roots, trees>>,
             \A g \in Runners : pc'[g] = pc[g] \/ (pc[g] = "off" /\ pc'[g] = "gc1")
      PROVE  AutoInv'
  BY <1>1, <1>2 DEF AutoInv, CollectionDue
<1>3. ASSUME NEW r \in Records, Write(r) PROVE AutoInv'
  <2>1. \A g \in Runners : pc'[g] = pc[g] \/ (pc[g] = "off" /\ pc'[g] = "gc1")
    BY <1>3, StartStep DEF Write, Arrive, RequestFlush, TypeOK
  <2> QED
    BY <1>2, <1>3, <2>1 DEF Write
<1>4. ASSUME NEW c \in Clients, AdminFlush(c) \/ FlushSync(c) \/ FlushSyncCheck(c)
      PROVE  AutoInv'
  <2>1. /\ UNCHANGED <<job, roots, trees>>
        /\ \A g \in Runners : pc'[g] = pc[g] \/ (pc[g] = "off" /\ pc'[g] = "gc1")
    BY <1>4, CommandStep
  <2> QED
    BY <1>2, <1>4, <2>1 DEF AdminFlush, FlushSync, FlushSyncCheck
<1>5. ASSUME NEW c \in Clients, NEW dry \in {"yes", "no"}, AdminGc(c, dry) PROVE AutoInv'
  <2>1. /\ UNCHANGED <<job, roots, trees>>
        /\ \A g \in Runners : pc'[g] = pc[g] \/ (pc[g] = "off" /\ pc'[g] = "gc1")
    BY <1>5, CommandStep
  <2> DEFINE e == [owner |-> c, dry |-> dry]
  <2>2. gcQueue \in Seq(GcRequest) /\ e \in GcRequest /\ e.owner = c
    BY DEF TypeOK, GcRequest
  <2>3. gcQueue' = Append(gcQueue, e)
    BY <1>5 DEF AdminGc, RequestGc
  <2> HIDE DEF e
  <2>4. /\ \A i \in DOMAIN gcQueue : i \in DOMAIN gcQueue' /\ gcQueue'[i] = gcQueue[i]
        /\ \A i \in DOMAIN gcQueue' :
             \/ i \in DOMAIN gcQueue /\ gcQueue'[i] = gcQueue[i]
             \/ gcQueue'[i].owner = c
    BY <2>2, <2>3, QueueAppend
  <2> QED
    BY <1>1, <2>1, <2>4 DEF AutoInv, CollectionDue
<1>6. CASE OpenCursor \/ Lifecycle \/ UNCHANGED vars
  BY <1>2, <1>6 DEF OpenCursor, Lifecycle, CloseDrain, CloseStore, TransactPanics, Panics, vars
<1>7. ASSUME NEW g \in Runners, FlushLoop(g) PROVE AutoInv'
  <2> USE <1>7, OthersOff
  <2>1. ASSUME NEW here \in {"gc1", "gc2"}, NEW mark \in {"mark1", "mark2"},
               NEW next \in {"want", "exit"}, GcTake(g, here, mark, next)
        PROVE  AutoInv'
    <3>1. UNCHANGED <<roots, trees>> /\ pc[g] = here
      BY <2>1 DEF GcTake, Goto
    <3>2. CASE gcQueue = <<>>
      <4>1. pc'[g] = next /\ UNCHANGED <<gcQueue, job>>
        BY <2>1, <3>2 DEF GcTake, Goto, TypeOK
      <4> QED
        BY <1>1, <3>1, <4>1 DEF AutoInv, CollectionDue
    <3>3. CASE gcQueue # <<>>
      <4> DEFINE r == gcQueue[1]
      <4>1. gcQueue' = Tail(gcQueue) /\ gcQueue \in Seq(GcRequest)
        BY <2>1, <3>3 DEF GcTake, TypeOK
      <4>2. /\ 1 \in DOMAIN gcQueue /\ r = Head(gcQueue)
            /\ \A i \in DOMAIN gcQueue' : /\ i + 1 \in DOMAIN gcQueue
                                          /\ gcQueue'[i] = gcQueue[i + 1]
            /\ \A i \in DOMAIN gcQueue : i # 1 => /\ i - 1 \in DOMAIN gcQueue'
                                                  /\ gcQueue'[i - 1] = gcQueue[i]
        BY <3>3, <4>1, QueueTail
      <4>3. active = "no"
        BY <3>1 DEF CaptureInv, InFlight, TypeOK
      <4>4. CASE pc'[g] = next /\ UNCHANGED job /\ (r.owner = NoClient => ~HasOldRoots)
        <5>1. CASE r.owner = NoClient
          <6>1. Collected
            BY <4>4, <5>1 DEF HasOldRoots, Collected
          <6> QED
            BY <1>1, <3>1, <4>2, <4>4, <6>1 DEF AutoInv
        <5>2. CASE r.owner # NoClient
          BY <1>1, <3>1, <4>2, <4>4, <5>2 DEF AutoInv, CollectionDue
        <5> QED
          BY <5>1, <5>2
      <4>5. CASE /\ pc'[g] = mark
                 /\ job' = [job EXCEPT ![g] = [NoJob EXCEPT !.owner = r.owner, !.dry = r.dry]]
        <5>1. job'[g].owner = r.owner /\ job'[g].dry = r.dry
          BY <4>5 DEF TypeOK, NoJob
        <5> QED
          BY <1>1, <3>1, <4>2, <4>5, <5>1 DEF AutoInv, CollectionDue
      <4>6. CASE pc'[g] = next /\ UNCHANGED job /\ engine = "closed"
        <5>1. ~Timely
          BY <3>1, <4>6 DEF Timely, SingleFlight
        <5> QED
          BY <4>2, <4>6, <5>1 DEF AutoInv
      <4> QED
        BY <2>1, <3>3, <4>2, <4>3, <4>4, <4>5, <4>6 DEF GcTake, Goto, TypeOK
    <3> QED
      BY <3>2, <3>3
  <2>2. ASSUME NEW here \in {"mark1", "mark2"}, NEW sweep \in Sweeping, GcMark(g, here, sweep)
        PROVE  AutoInv'
    <3>1. /\ job'[g].owner = job[g].owner /\ job'[g].dry = job[g].dry
          /\ pc[g] = here /\ pc'[g] = sweep /\ UNCHANGED <<gcQueue, roots, trees>>
      BY <2>2 DEF GcMark, Goto, TypeOK, GcJob
    <3> QED
      BY <1>1, <3>1 DEF AutoInv, CollectionDue
  <2>3. ASSUME NEW here \in Sweeping, NEW next \in {"want", "exit"}, GcSweep(g, here, next)
        PROVE  AutoInv'
    <3>1. pc[g] = here /\ pc'[g] = next /\ UNCHANGED <<gcQueue, trees>>
      BY <2>3 DEF GcSweep, Goto, TypeOK
    <3>2. CASE UNCHANGED roots /\ job[g].dry = "yes"
      BY <1>1, <3>1, <3>2 DEF AutoInv, CollectionDue
    <3>3. CASE roots' = [n \in KeepRoots |-> roots[n]]
      <4>1. Collected'
        BY <3>3, SweepIsStable DEF Collected
      <4> QED
        BY <3>1, <4>1 DEF AutoInv
    <3>4. CASE roots' = [n \in DOMAIN roots \ job[g].doomed |-> roots[n]]
      <4>1. DOMAIN roots \ job[g].doomed = KeepRoots
        BY <3>1 DEF SweepInv, KeepRoots
      <4> QED
        BY <3>3, <3>4, <4>1
    <3> QED
      BY <2>3, <3>2, <3>4 DEF GcSweep
  <2>4. CASE Prepare(g)
    <3>1. /\ pc[g] = "prepare" /\ pc'[g] \in {"prepareKv", "publish"}
          /\ UNCHANGED <<gcQueue, job, trees>>
          /\ DOMAIN roots' = DOMAIN roots \cup {nextStamp}
      BY <2>4 DEF Prepare, WriteRoot, Goto, TypeOK
    <3>2. ASSUME Collected, GcMaxAge = 0 PROVE Collected'
      BY <3>1, <3>2, CollectedUnderNewRoot
    <3> QED
      BY <3>1, <3>2 DEF AutoInv, CollectionDue, Collects
  <2>5. CASE PrepareKv(g) \/ Publish(g)
    <3>1. pc'[g] \in {"publish", "autogc"} /\ UNCHANGED <<gcQueue, job>>
      BY <2>5 DEF PrepareKv, Publish, Goto, TypeOK
    <3> QED
      BY <3>1 DEF AutoInv, CollectionDue
  <2>6. CASE PrepareFails(g)
    <3>1. /\ pc[g] \in {"prepare", "prepareKv"} /\ pc'[g] = "abort" /\ "prepare" \in Faults
          /\ UNCHANGED <<gcQueue, job, roots, trees>>
      BY <2>6 DEF PrepareFails, Goto, TypeOK
    <3> QED
      BY <1>1, <3>1 DEF AutoInv, CollectionDue
  <2>7. CASE TakeFlushWant(g) \/ Capture(g) \/ Abort(g) \/ Exit(g)
    <3>1. /\ pc[g] \in {"want", "capture", "abort", "exit"}
          /\ pc'[g] \in {"capture", "exit", "gc2", "prepare", "off", "gc1"}
          /\ UNCHANGED <<gcQueue, job, roots, trees>>
      BY <2>7 DEF TakeFlushWant, Capture, Abort, Exit, Goto, TypeOK
    <3> QED
      BY <1>1, <3>1 DEF AutoInv, CollectionDue
  <2>8. CASE AutoGc(g)
    <3> DEFINE e == [owner |-> NoClient, dry |-> "no"]
    <3>1. /\ gcQueue \in Seq(GcRequest) /\ e \in GcRequest
          /\ e.owner = NoClient /\ e.dry = "no"
      BY DEF TypeOK, GcRequest
    <3>2. /\ pc'[g] = "gc2" /\ UNCHANGED <<job, roots, trees>>
          /\ \/ gcQueue' = gcQueue /\ \E i \in DOMAIN gcQueue : gcQueue[i].owner = NoClient
             \/ gcQueue' = Append(gcQueue, e)
      BY <2>8 DEF AutoGc, Goto, TypeOK
    <3> HIDE DEF e
    <3>3. /\ \A i \in DOMAIN gcQueue' :
               \/ i \in DOMAIN gcQueue /\ gcQueue'[i] = gcQueue[i]
               \/ gcQueue'[i].dry = "no"
          /\ \E i \in DOMAIN gcQueue' : gcQueue'[i].owner = NoClient
      BY <3>1, <3>2, QueueAppend
    <3> QED
      BY <3>2, <3>3 DEF AutoInv, CollectionDue
  <2> QED
    BY <2>1, <2>2, <2>3, <2>4, <2>5, <2>6, <2>7, <2>8 DEF FlushLoop
<1> QED
  BY <1>3, <1>4, <1>5, <1>6, <1>7 DEF Next, Lifecycle

\* The pass every publish queues has run before the runner goes idle: with the
\* limits of NewEngineConfig even through failed flushes, with any limits when
\* no flush fails.
THEOREM IdleCollected ==
  ASSUME Collects
  PROVE  Spec => []IdleRunnerHasCollected
<1> DEFINE Inv == NewestRoot /\ SweepInv /\ AutoInv
<1>1. Init => Inv
  <2> SUFFICES ASSUME Init PROVE Inv
    OBVIOUS
  <2>1. NewestRoot /\ SweepInv
    BY DEF Init, NewestRoot, SweepInv, Sweeping
  <2>2. AutoInv
    BY DEF Init, AutoInv, Collected, Collecting, Sweeping
  <2> QED
    BY <2>1, <2>2
<1>2. CountInv /\ Inv /\ [Next]_vars => Inv'
  BY NewestRootStep, SweepStep, AutoStep DEF CountInv
<1>3. CountInv /\ Inv => IdleRunnerHasCollected
  BY DEF CountInv, SingleFlight, AutoInv, CollectionDue, Collected, IdleRunnerHasCollected,
         Timely, Collecting, Sweeping
<1> QED
  BY <1>1, <1>2, <1>3, CountInvariant, PTL DEF Spec
=============================================================================
