# Verification of the eavt-sql servers

eavt-sql is an immutable fact database: a *transactor* process writes datoms to
a write-ahead log, a memtable and a copy-on-write page store, and *query
servers* answer queries from read-only replicas fed by a replication stream.
The repository holds the original Nim implementation and a Go port
(`src/go/internal/...`). The Go port is the reference here, because it is the
one that runs a goroutine per connection, a background log writer, a flush/GC
runner, a replication applier and a reconnecting link; the Nim servers run on a
single event loop.

## 1. Inventory

| Component (Go package) | State | Operations | Talks to |
|---|---|---|---|
| Write-ahead log (`wal`) | buffer, logical end, pending seal boundary, current segment, sealed segments, durable offset | `Sink`, `Seal`, `drainLocked` with rotation, `cycle` (100 ms fsync + deletion), `Stop`, `SnapshotLocked` | called by `kvstore` under `Engine.mu`; calls the hub through `OnWal` and `OnSeal` |
| Memtable (`memtable`) | a write buffer, a live ladder of sorted runs, a draining list, accounted sizes | `Put`, `PutKv`, `DeleteKv`, `Batch`, `FreezeAllCapture`, `Publish`, `SnapshotRuns`, lookups | owned by `kvstore` |
| KV store (`kvstore`) | memtable, page store, `flushActive`, `walDurableUpTo` | `BatchWrite`, capture / prepare / publish / abort, journal replay, `PublishRoot`, `SealLiveToFlush`, KV pairs, scans | `wal`, `memtable`, `pagestore` |
| Page store (`pagestore`) | trees of the current root, page cache, blobs | copy-on-write merges, `LoadRoot`, cursors, `GcFull` | `blobstore` |
| Blob store (`blobstore`) | files or S3 objects | atomic put, get, list, delete | file system, S3 |
| Transactor (`transactor`) | `flushWant`, `flushing`, `gcQueue`, condition variable, `Engine.mu` | `Serve`, tx / scheme / kv / admin handlers, `flushLoop`, `runGC`, `flushSync`, `Close` | everything above |
| Replication hub (`replication`) | per subscriber: WAL buffer, queue, backlog | register, broadcast wal / seal / root, enqueue a response, drain | called by `wal` and the flush runner |
| Downstream link (`downstream`) | connection, pending requests with their response channels, event queue | dial, register, send, read, deliver, disconnect, reconnect | transactor socket, replica |
| Replica (`replica`) | a memtable and page store of its own, never flushed | apply snapshot / wal / seal / root | events of the link |
| Query server (`querysrv`) | compile-statistics cache, per client a frame writer with a byte cap | compile and run queries, stream rows, forward requests | link, replica |
| EAVT engine (`eavt`, `engine`) | attribute resolver, partitions and counters, caches (`hydrated`, `anchor`) | batch write with supersession, recovery | `kvstore` |
| Transactions (`query/edn_tx`) | tempids of one transaction | interpret tx data | `engine` |
| Query compiler (`datalog`) | none; reads cached statistics | parse conditions, choose indexes and a variable order, emit a program of nested loops | called by `querysrv` |
| Query execution (`scheme`, `query`, `cursor`) | per query: program, scanners with their prefix stacks, iterators, a row batch | open scanners, leapfrog, push and pop prefixes, send frames | cursors of `kvstore` |
| Edges (`front`, `client`, `repl`, `loader`, `msgpack`, `edn`, `sexpr`, `cmd/*`) | per connection | framing, encoding, terminal I/O | sockets |

What is hard to get right, and what makes each part correct:

- *Log, memtable and page store hand records over to each other.* A record is
  in the buffer, then in a segment; a capture freezes it and seals the log; the
  blob I/O happens off the lock; a publish swaps the trees and lets another
  goroutine unlink the segment. A crash, an I/O error or a second flush can fall
  between any two of these steps. Correct means: nothing acknowledged is lost or
  hidden, nothing is unlinked too early, everything is unlinked eventually.
- *One runner serves flushes and GC.* Requests, the runner's exit check,
  `flush-sync` waiters and `Close` race for one mutex. Correct means: at most one
  runner, no request forgotten, no waiter left asleep, no page deleted that a
  published tree reaches.
- *A replica starts in the middle of the stream.* The snapshot is captured
  while writers, rotations and publishes go on; segments listed in it may be
  deleted and its root collected before the replica reads them. Correct means: no
  record falls between snapshot and stream, a response never overtakes the write
  it acknowledges, and a replica at rest shows what the transactor shows.
- *Entity ids and schema are rebuilt from datoms after a restart*; caches are
  kept beside the write path; a transaction may write two batches. Correct means:
  ids are never reused, a lookup by unique value finds the entity that has it,
  the caches agree with the store whatever was evicted, and a transaction changes
  what its protocol says.

- *Reads run beside writes and flushes.* A cursor merges the runs and the tree of
  the moment it was opened, while runs are merged, frozen and replaced below it.
  Correct means: a point read finds the newest version wherever it is by now, a
  scan shows its snapshot, in order, and trees answer prefix scans at any height.
- *A query is a program made from stale statistics.* The planner chooses indexes
  and an order of variables by cost; the program pushes, leaps and pops scanners
  in nested loops. Correct means: whatever the statistics say, the rows are those
  of the relational meaning of the query, and the program ends.
- *One connection carries everybody.* All forwarded requests and the replication
  stream share one reader; clients stop reading or leave in the middle of a
  response; the connection breaks and is replaced. Correct means: every client
  gets whole answers to its own requests, nobody waits for ever, and no client
  stops the stream.

`PROJECT.json` lists every component and, under `hazards`, the places that are
hardest to test, with their lines.

## 2. Modules

| Module | Models | Kind |
|---|---|---|
| `DurableStore` | what the durability core promises: committed records only grow, a restart shows them all | abstract specification |
| `Durability` | log + memtable halves + flush + newest root, through process and machine crashes | component composition |
| `Durability_proofs` | theorems about `Durability` | TLAPS |
| `FlushRunner` | the flush/GC runner, admin commands, `Close`, root and page blobs | component |
| `FlushRunner_proofs`, `Replication_proofs`, `Entities_proofs`, `Gateway_proofs` | theorems about the module of that name | TLAPS |
| `MemTable_proofs` | theorems about `MemTable`, with the order of keys, the binary search and the merge of runs, and about the prefixes and page codecs of `Pages` | TLAPS |
| `EntityCaches_proofs` | theorems about the caches of `Entities` and what relies on them; extends `Entities_proofs` | TLAPS |
| `SequenceFacts` | induction, and what `Min`, `Max`, `SetToSeq`, `FlattenSeq` and `FoldLeft` compute | TLAPS |
| `Replication` | transactor side of the stream, the link, the replica | component composition |
| `Entities` | transactions over datoms, id allocation and its recovery, the hydrated and anchor caches, concurrent hydration | component composition |
| `Pages` | the order of keys, prefixes, page encodings | operators |
| `MemTable` | delta, ladder of runs and flush of one column family, point reads | component |
| `PageTree` | the copy-on-write tree of one column family, prefix scans | operators over `Pages` |
| `Cursors` | page, run, hydrated and merged cursors | operators over `PageTree` |
| `ReadPath` | `MemTable` over a tree of `PageTree`, with an open cursor of `Cursors` | component composition |
| `Ranges` | predicates of a query, from the parser to intervals | operators |
| `Scanner` | the trie-join scanner and the leapfrog iteration | operators over `Ranges` |
| `Planner` | index choice, cost search, the plan and its soundness test | operators |
| `TrieJoin` | the program a plan is compiled to | operators over `Planner`, `Scanner` |
| `Query` | one query from compilation to its last frame, with transactions arriving | component composition |
| `Gateway` | serve loops, frame writers, the link with its response channels, the transactor answering | component composition |
| `MCDurability`, `MCFlushRunner`, `MCReplication`, `MCEntities`, `MCReadPath`, `MCQuery`, `MCGateway` | symmetry sets; the transactions, keys, databases, queries and requests of the instances | instances |

### Durability

A *record* is one batch given to `Writer.Sink`. Datom keys are immutable, so a
memtable half, a segment or a tree is a *set* of records, and replaying a record
twice is harmless. A byte offset is the number of records before it; `at[r]` is
the end offset of `r` in this session.

- `Sink(r)` is `wal.Writer.Sink` up to the release of the log's mutex, with the
  drain inside (`DrainLocked`): a plain append, a rotation that splits the buffer
  at the seal boundary, or an I/O error that leaves the bytes in the buffer.
  `BatchWrite` is the memtable insert that follows; `Engine.mu` is held between
  the two, which is the `pending` variable.
- `Tick` and `DeleteDurable` are the two critical sections of `cycle()`.
- `CaptureFlush`, `PrepareFlush`, `PublishFlush`, `AbortFlush` are the four
  functions of `kvstore` that `runFlush` calls; the first, third and fourth under
  `Engine.mu`, the second off it.
- `WriteBack` is the operating system moving dirty data to the medium;
  `ProcessCrash` keeps the page cache, `MachineCrash` keeps only the medium.
  `Open` is `NewEngineConfig`: newest root, replay of the segments, a fresh
  segment. `Close` is `Engine.Close`.
- History: `written`, `acked` (the write returned), `ticked` (acknowledged
  before the last fsync), `forfeited` (in the buffer of a process that ended).

### FlushRunner

One process per goroutine: runners with a program counter through `flushLoop`,
connections with the state of their admin command, and the engine. Every action
is one critical section of `flushMu`, one of `Engine.mu`, or one call off the
locks. A *page* stands for the blobs one merge wrote; a new root may share any
subset of the pages of the root it was merged from. A flush with KV pairs writes
two roots (`PrepareMergeMap`, then `PrepareMergeKv`). Root names are time stamps,
which the model lets advance between two roots. `GcTake`, `GcMark` and `GcSweep`
are `runGC`: the pop and its shortcuts, the walk that builds the live set, and
the deletions. `Engine.Close` is two steps: `CloseDrain` waits for the runner and
releases `flushMu`, `CloseStore` stops the log and sets `KVStore.PS` to nil.
Nothing in `requestFlush`, `requestGc` or `flushSync` looks at either, so a
connection that outlives `Close` goes on: a pass on the closed store ends with an
error, a flush that captures, merges or publishes there panics and takes the
process with it (`Panics`), and so does a transaction (`TransactPanics`). History:
`late`, whether a request came after the drain.

### Replication

The transactor is reduced to the log, memtable and flush steps that broadcast or
that move records; `link` is the subscriber's queue and the socket, `evCh` the
event queue of the query server. `Subscribe` is the section under the log's lock
that drains, lists the segments, reads the current one, registers and enqueues
the snapshot. `Sink` broadcasts *before* it drains, as the code does, which
decides on which side of a seal marker a record travels. `Own` records arrive
through this query server's connection and are answered on it; the others come
from elsewhere. `Engine.Serve` is sequential, hence at most one own request is
in progress. History: `received`, what has ever reached this replica;
`overtaking`, the records broadcast ahead of the seal of the segment before
them; `direct`, own records answered before the connection was registered.

### Entities

A datom key is `[e, a, v, t, op]`; `datoms` is what scans find, `journal` what
the log was given. A fact is active when its newest key (`EncodeSuffix`: by `t`,
retraction last) is an assertion. The attributes are declared beforehand: one
unique, one of cardinality one, one reference of cardinality many. `EntityRequests`
is what the parser of tx data guarantees of the transactions `TxData`: their ops
are additions or retractions whose slots are of the kinds listed.

- `Transact` is `TransactTx` under `Engine.mu` up to the first write: the lookup
  each op owns (`LookupKey`), the resolution of tempids in order of first use,
  the checks of the apply pass (`Rejected`), the assertions that are already
  present (`HasDatomW`), the retractions that supersede (`SaveInto`), and the one
  or two batches (`SaveBatchEdn`, `RetractBatch`). `TransactFails` is an early
  return of the apply pass: ids are spent, new entities stay hydrated as empty.
- `ExecSave`, `ExecRetract`, `ExecFound`, `ExecCreate` are the write functions of
  Scheme programs; their transaction entity is a batch of its own.
- `Journal`, `ApplyKeys`, `Insert` are the three parts of `Engine.BatchWrite`:
  anchors and log, hydrated set, memtable. A crash may fall between any two.
- `QueryScan` and `QueryInstall` are `HydrateEID`, which queries call without the
  lock. Budgets are counted in anchors and keys, and the victims of an eviction
  are any, which includes what the LRU order picks.
- `Restart` is recovery from the log: `RecoverWriteState` for the anchors,
  `SeedPartitionCounters` for the allocation counters, with the stop of its walk.
- History: `expect`, the facts that hold according to `docs/tx-protocol.md`;
  `intent`, the batches of each transaction; `raced`, entities whose hydration
  overlapped a write; `resaved`, entities of which a program saved a value they
  already had. The last two are exceptions of the properties, because there the
  code does not keep them (section 3).

### Read path

`Pages` has pages as they are encoded: prefix-compressed entries and a 16-bit
count. Page ids are random and pages immutable, so an index entry of `PageTree`
holds the child page itself. `mergeLeaf` and `mergeSubtree` carry the index of the
next key to merge, as the code does; `rebuild` and `PrepareMergeKv` are the second
way a tree is made. `Cursors` has a record per cursor and an operator per method,
the heap of the merged cursor included (`SiftUp`, `SiftDown`: the order among equal
keys decides which source's version is shown).

`MemTable` is one column family, of keys or of pairs: `Batch`, `PutKv` and `DeleteKv`
append to the delta, which materialises into a run and merges the ladder when it is
too long; `FreezeAllCapture`, `DrainBatch`, `PublishTrees`, `Publish` are the flush
without its log, the last two because point reads do not take the lock under which
`PublishFlush` swaps the pages and discards the runs. A point read is two steps, as its
calls take their locks one by one: `StartRead` searches the delta, then each run from
the newest to the oldest (`findRun`, the binary search); `GetValue` looks a pair up
again for its value, `ReadPages` asks the pages for a key that memory does not decide.
There `pages` is just what the published pages hold for each key. `ReadPath` puts a tree below it: each of its steps is one of
`MemTable`'s together with what it does to the tree and the cursor, or leaves the
memtable alone, so a behaviour of `ReadPath` is one of `MemSpec` by construction, and
`TreeAnswersPrefixScans` checks that the tree holds exactly `pages`. `OpenScanCursor`,
`CursorNext`, `CursorSeek` use one cursor; a seek into a hydrated entity is
`ProbeComplete`, then `KeysFrom` under a lock of its own; `HydrateOrEvict` changes what
the hydrated set answers, also in between. History: `store`, what the writes mean;
`rd.seen`, the values a key had while it was read; `scan`, what the cursor has shown
and should have.

### Queries

`Query` compiles with the cached statistics (`Compile`: `BuildQueryPlan`, then
`buildTriejoinScheme`), opens one scanner per pattern (`OpenScanner`, each with a
snapshot of its own), and runs the program. The Scheme forms the compiler emits
are a nest with one place for the next form, so the program is a sequence and the
interpreter a position in it: `EnterBind`, `EnterIter`, `IterNext`, `ResultRow`,
`LeaveBind`, `LeaveIter`, `Finish`. `ApplyWal` is a transaction arriving in between.
A key is a tuple of numbers, the value encodings being order preserving. `Planner`
is the whole search: candidate order, index reachability, blind and non-blind
costs, the two passes, skip variables and the soundness test; costs are integers,
in hundredths. `Scanner` is `V2Scanner` method by method, `leapConverge` with its
limit of rounds included. The reference is `Answer`: all assignments that match
every pattern on the contents its scanner saw and satisfy every predicate.

### Gateway

Per client the goroutine of `serve` (`st`), its `frameWriter` and the drain
goroutine; one link with its reader (`ReadWire` up to the unlock in `deliver`,
`Deliver` and `QueueEvent` for the sends after it), the applier (`eventLoop`) and
the reconnect loop (`Disconnected`, `Redial`); the transactor answers one request
after the other in frames (`Answer`). `Register` and `Send` are the two halves of
`register`, `Receive` and `Relay` the loop of `Request`. A frame is one unit of
the byte caps. `sent` is what the drain wrote to a client's socket: a client that
does not read is one to which a write never ends. `Break` loses what is on its
way, from any point on, and is noticed by the reader later (`link = "broken"`). The
connection holds `MaxWire` messages, so a reader that blocks stops the transactor too.
The history variable `size` keeps the length of each forwarded response: the
properties tell by it which answers can stop the reader. `Served` and `EventsFlow`
name that one obstacle (`ReaderBlocked`: it waits for ever on the channel of a client
that does not read or has left) and claim that there is no other.

## 3. Runs

| Run | Bounds | Shows |
|---|---|---|
| `durability_process` | 3 records, 2 flushes, 2 crashes/shutdowns | no acknowledged record is lost or hidden; a capture never overwrites; unlinking is safe; `Durability` implements `DurableStore` |
| `durability_write_error` | 3 records, 2 flushes, 1 crash, failing segment writes | bytes that could not be written stay in the buffer and are not misplaced around a seal |
| `durability_reclaim` | 2 records, 2 flushes, 1 crash, all faults, fair | segments covered by a publish are eventually unlinked |
| `durability_abort` (violation) | 2 records, a failed flush then a good one | the discarded capture's segment is unlinked |
| `runner_flush_gc` | 1 KV record, 2 clients, 2 commands, failing flushes, a reader, fair | no live page is deleted, `flush-sync` publishes what it owes, an idle runner has collected, `Close` leaves no work behind until a request comes after it, every command is answered or the process has died on the closed store |
| `replication_stream` | 3 records, 1 flush, 2 connections, disconnects, restarts, early requests, fair | snapshot plus stream are complete, a response never overtakes its write, at rest the replica mirrors the transactor, own writes eventually show |
| `entities_tx` | 3 transactions of 23 kinds, 2 entities, 1 crash, room for 1 anchor and 2 hydrated keys | the store holds what the protocol says; lookups and hydrated sets are exact; the log holds whole batches; transaction ids are fresh after recovery; tempids and lookup refs of the e slot resolve as documented |
| `read_path` | 5 keys in 2 batches or 2 pairs with 2 values, pages of 2 entries, buffer of 2, ladder of 1, 3 writes, 2 flushes, point reads of one key or 2 seeks, 1 entity that may be hydrated | a point read answers a value its key had while it ran, a cursor shows its snapshot, trees answer prefix scans, the accounted size covers the ladder |
| `query_star` | 13 queries, 81 databases, 2 statistics, 1 transaction during the query | every plan shows all variables, the rows are exactly those of the query, every query is answered |
| `query_join` (violation) | 1 query that joins two values, the same databases | rows that do not join are returned |
| `gateway_flow` | a client that reads and one that may not, one request each, responses of 1, 2 and 5 frames, every cap 1, 1 event, 1 break, fair | answers are whole and in order, registrations and requests agree, only a long response strands the reader, and requests and events get through unless the reader waits for ever on one |
| `gateway_abandoned` (violation) | a response of 4 frames, to the client that may leave | the reader blocks on the channel of a request that gave up |

*Why the bounds suffice.* Three records are one on each side of a seal and one
more for the flush that follows; two flushes are one that publishes while the
next captures, or one that fails before one that succeeds; two crashes are one
during a flush and one during the recovery's own session; two runners are enough
to see a second one start; two connections are one that breaks and one that
re-subscribes; three transactions are one that creates, one that changes and one
that depends on what the caches then hold, and budgets of one anchor and two keys
force every eviction, rejection and fallback to the indexes. The transactions of
`entities_tx` use each kind of slot and each refusal, but no reference by lookup
ref from a slot that is itself being resolved (see Divergences). Pages of two entries give
trees of several levels from five keys; a buffer of two and a ladder of one make
every third write merge. The databases of `query_star` give two entities each value
or none of two attributes, with a superseded value before, beside one that is
always there and two references; the statistics are the extremes that make every
index look cheap or dear. In `gateway_flow` the response of 5 frames
stops the reader when its client does not read (a frame being written, one queued, one
being relayed, one in the channel and one in the reader's hand), and also when it
leaves; the one of 2 is the longest that cannot strand it whatever came before, which
`NotStranded` proves for all bounds; two clients are the one
that misbehaves and the one that must not notice. All runs explore their bounded state space completely.

*Deadlock.* The durability runs keep the check on (a crashed store can always be
opened, an open one always ticks). `read_path` too, where
a state in which the bounds are used up has a stuttering step (`Done`). The other
runs switch it off: a closed engine, an answered query, or an idle system whose
bounded inputs are used up, really stops.

*Fairness.* Weak fairness stands for "a runnable goroutine runs": the log's cycle
and the flush steps (`Durability`), each runner and the re-check of a woken
`flush-sync` waiter (`FlushRunner`), the handler, reader, applier, subscription
and flush steps (`Replication`), the interpreter (`Query`), each serve loop, drain
goroutine, reader, applier and the transactor (`Gateway`). A write to a socket ends
only for clients that read (`Patient`). No fairness is assumed of writes, commands,
reconnects, crashes or the write-back. Mutexes are held over one action each, so
no strong fairness is needed.

### Divergences

The violated runs:

1. **A failed flush, then a successful one, loses data** (`durability_abort`).
   `AbortFlush` says its datoms "remain durable in the WAL"; the next successful
   flush has a larger boundary, and `deleteDurable` unlinks the aborted segment
   although no root reaches its records.
2. **A shared variable is not always joined** (`query_join`). The planner takes a
   plan in which some scanner shows each variable; a pattern whose index does not
   show it takes no part in the join. Two patterns that share a value, one of an
   attribute without an index, return pairs that differ in it.
3. **A client that leaves can stop the replication stream** (`gateway_abandoned`).
   `deliver` sends to a channel it looked up before the request gave up. With the
   channel full nobody ever receives: no response and no event passes any more.

Properties that the modules state and TLC refutes, each on the constants of the run
named here with the changes given:

| Property | Instance | What happens |
|---|---|---|
| `Durability!TickedSurvive` | `durability_abort`, `Faults = {"machine"}`, `MaxFlushes = 1` | `drainLocked` closes the sealed segment unsynced and the tick syncs only its successor; "at most the last ~100 ms" (docs/wal.md) does not hold across a flush. Blobs are not synced either (`writeAtomic`) |
| `FlushRunner!NoRunnerOnClosedStore` | `runner_flush_gc`, `Spec` | `Close` drains so that "neither a prepare nor a GC pass may run against a closed KV/blob store" (transactor/server.go), and releases `flushMu` before it closes: a write or command of a connection that is still open starts a runner in between or afterwards. `CloseDrains` says what the drain does guarantee |
| `FlushRunner!PinnedPagesKept` | `runner_flush_gc`, `Records = {r1, r2}`, `Faults = {"cursor"}`, `Spec` | with the default limits the auto-GC keeps the newest root only; no cursor or replica pins one |
| `Replication!ReplicaIsExactMirror` | `replication_stream` | `Sink` broadcasts a record before its drain emits the pending seal: the replica freezes a record the coming root does not contain, and drops it. `ReplicaMirrors` excepts just these |
| `Entities!SlotsResolve` | `entities_tx`, `TxData <- RefTxData`, `MaxRestarts = 0` | an op owns one lookup: with a lookup ref in the v slot a tempid becomes the referenced entity, and a lookup ref in the e slot the entity of the other one |
| `Entities!AllocatedAreNew` | `entities_tx`, `TxData <- NewTxData`, `ExecFacts = {}` | `SeedPartitionCounters` stops at the first user entity: later ones are handed out again after a restart |
| `Gateway!ReaderFlows` | `gateway_flow` | "A slow client must never stall this reader" (downstream.go): a client that does not read a long response fills its writer and its channel, and the one reader waits with the next frame, in front of every event. `EventsFlow` says that nothing else stops it |
| `MemTable!PointReadsExact` | `read_path` | `GetKv` asks the memtable for the kind of the record and again for its value; a publish in between discards the draining runs it was in, and the read answers that there is no value although the pages have it. `PointReadsCurrent` excepts just this |
| `ReadPath!ScanFollowsSnapshotEvicted` | `read_path` | `Seek` probes the hydrated set and takes the keys of the entity in a second call; an eviction in between gives no keys, and the scan of a live entity is empty. `ScanFollowsSnapshot` excepts just this |
| `ReadPath!ScanFollowsSnapshotDeep` | `read_path` | `advanceToNextLeaf` treats the children of a lower index page as index pages unless the height is 1; a scan of a tree of height 2 ends at its first leaf boundary |
| `Query!OneSnapshot` | `query_star`, `Queries <- TwoOfOne`, `MaxTx = 2` | every scanner takes its snapshot when it opens: of two transactions between two of them, an answer can hold the later and not the earlier ("pinned to the snapshot captured at session open", querysrv/server.go) |

Met while modelling, without a run of its own:

- the first root of a flush whose second merge fails becomes the newest one, and
  a GC pass then drops pages that only the trees in use reach (excepted in
  `PublishedPagesKept` through `aborted.root`);
- `collectTreeUUIDs` ignores a page it cannot read, and what is below it is
  deleted, although the comment on `GcFull` calls the walk fail-stop;
- a response is relayed while the events before it still wait for the applier, so
  reading one's writes is not immediate; `appendWal` wakes nobody, so a replica
  that sends no writes lags until the next seal or root; a request sent right
  after a reconnect can overtake the subscription (the `"early"` fault);
- a hydration that overlaps a write installs an outdated set (`raced`), on which
  later transactions decide what is present and what to supersede;
- a program that saves a value once more retracts and asserts it with one `t`, and
  the retraction wins: the value disappears from the store (`resaved`);
- queries other than `query_star`'s are incomplete or wrong in more ways than the
  one above: a scanner never rewinds, so cross products, and joins on the entity
  over attributes of cardinality many, lose rows; `AdvanceToActiveAtPreserving`
  keeps a key ahead of the value the join needs, which loses rows of joins through
  references; `leapConverge` gives up after 2n + 1 rounds; `[_ :a 5]` is planned on
  AVET even when `:a` has no such keys; a `=` after a `>` replaces the interval, and
  `in` with two values is united with the other conditions instead of intersected;
  `false` ends the loop over a boolean variable. The tests of the repository only
  use the joins that work;
- a KV scan shows a pair whose deletion, or
  newer value, is not flushed yet; `GetPairsInPrefix` reverses pages from height 3;
- an index page that cannot be read ends a merge silently with an empty subtree
  (`mergeSubtree`);
- a request registered before a reconnect is sent on the new connection after its
  client was told that the transactor is disconnected: it is executed nevertheless;
- statistics are rebuilt before the dirty mark is cleared (`querysrv`), so a schema
  change in between stays unnoticed for 30 seconds;
- the subscriber's backlog is compared with its limit only when WAL bytes are
  buffered; root names are wall-clock time stamps; a transaction that declares
  schema writes it in batches of its own before its data; the synchronous `Flush`
  leaves `flushActive` set after an error;
- recovery rebuilds anchors from assertions that were retracted since, so after a
  restart a lookup may answer an entity that no longer has the value; the
  properties of lookups and caches are therefore claimed up to the first restart.

## 4. Proofs

`Durability_proofs` holds, for **every** set of records and any number of crashes
and flushes:

| Theorem | Assumes | States |
|---|---|---|
| `TypeCorrect` | nothing | types, and the current segment is never one that waits for deletion |
| `InvariantHolds` | no failed flush, no machine crash (`Benign`) | the inductive invariant `IInv` |
| `AckedIsHeld` | `Benign` | `AckedHeldOrRecoverable`, with failing segment writes |
| `AckedIsRecoverable`, `AckedIsVisible` | `Benign`, no failing writes | `AckedRecoverable`, `AckedVisible` |
| `CaptureIsSafe`, `UnlinkIsSafe` | `Benign` | the two action properties |
| `EngineImplementsStore` | `Benign`, no failing writes | `Spec => Store!StoreSpec` with `committed <- Recoverable`, `visible <- Visible` |

The assumptions are exactly what the violated runs show to be necessary. The
argument: recoverability alone is not inductive, because whether a segment may be
unlinked depends on a boundary captured earlier. `IInv` therefore relates the
three clocks. `OffsetInv`: every record of the session at an offset up to the
logical end is in memory or pending. `FlushInv`: what the flush in progress froze,
with the trees, covers every offset below its boundary. `PublishInv`: everything
at or below the durable offset is in the trees, and the newest root is the trees
(or the prepared ones). `SegmentInv`: a sealed segment holds only records at or
below its boundary. From these, a segment with `boundary <= durable` holds only
published records (`DeleteUnlinksPublished`), and `HeldInv` - what memory shows is
in the log or the store - survives its deletion. The drain, used by three actions,
has its own lemmas (`DrainType`, `DrainHolds`, `DrainSegments`, `DrainKeepsLog`).
`IInv` was checked with TLC before it was proved.

`FlushRunner_proofs`, for any runners, clients, records, faults and GC limits:

| Theorem | Assumes | States |
|---|---|---|
| `TypeCorrect`, `ClosedStoreQuiet` | nothing | `TypeOK` with its bound on root stamps; `CloseDrains` |
| `PagesKept` | nothing | `PublishedPagesKept` |
| `SyncPublishes` | nothing | the action property `FlushSyncPublishes` |
| `IdleCollected` | `Collects` | `IdleRunnerHasCollected` |

That one goroutine is in `flushLoop` is not visible in a mutex, only in `flushing`
and the program counters; `SingleFlight` ties them together and everything else
rests on it. The number of roots is bounded by an account (`StampsPaid`): each root
pays with a request of its own or with a KV pair merged for the first time. For the
pages, `NewestRoot` and `RootIsTrees` say which root reaches the trees in use or
those about to be published, so that the set a pass keeps (`SweepInv`: what the mark
found is still right at the sweep) contains their pages. `OwnersWait`, `GcAwaited` and
`SyncInv` follow the waiters: who waits for a pass has its request queued or at work,
and what a `flush-sync` is owed has left the live half, unless a
flush that will capture it is still to start. `AutoInv`: roots beyond the limits, or
a pass for them, are always there together. `Collects` is the limit of
`NewEngineConfig` (`GcMaxAge = 0`) or the absence of failing flushes; with a larger
limit and a failing flush TLC shows roots that nobody collects until the next
flush, because only a successful flush queues a pass.

`Replication_proofs`, for any records, number of flushes, connections and restarts,
without hypotheses: `Invariance`, `TypeCorrect`, `StreamIsComplete`
(`StreamComplete`), `AcksFollowWal` (`AckedAfterWal`) and `Mirrors`
(`ReplicaMirrors`). None of the three properties is inductive, because a frame is
judged by what will be true when it is applied. `Sent` is the event queue followed by
the connection, one sequence in which frames only enter at one end and leave at the
other. `StoreInv` (`RootsInv`, `CaptureInv`, `SegmentsInv`) is the transactor: a
segment that may be deleted holds only what the root in use reaches. `NamesInv`: roots
are named in order, and the last one named is in use, so a snapshot that lists a
segment deleted since is followed by a root that has its records. `StreamInv`: every
record of the log is received, buffered, in the root in use, or carried by a frame.
`AckInv`: the WAL frame of a response is ahead of it in `Sent`. `MirrorInv` says where
a record will be once all of `Sent` is applied: in the live memtable when no seal
follows it, in the frozen runs when one seal does and no root after that.

`Gateway_proofs`, for any clients, caps, numbers of requests and lengths of responses:

| Theorem | Assumes | States |
|---|---|---|
| `Invariance`, `TypeCorrect` | nothing | the inductive invariant; `TypeOK` with all caps |
| `Framed` | nothing | `RepliesFramed` |
| `Registered` | nothing | `RegistrationsMatch` |
| `NotStranded` | nothing | `StrandedByLong` |

`IdsInv` and `OwnInv`: an id belongs to one request, and everything with that id, in
the channel, in the reader's hand, on the wire and with the transactor, is part of the
answer to it. `LastInv` and `WaitInv`: a last frame that was read has ended the
registration, and who expects more is registered, closed or has the last frame ready.
`FramedInv` then follows the frames of a client through its three queues. `FlowInv`
counts what can still come for an id against the length of its response: a request
gives up while it relays a frame, so it leaves at most the others behind, and these fit
the channel and the reader's hand unless there are more than `responseQueueSize + 1`
in all. With more, `deliver` does block for ever (`gateway_abandoned`).

`Entities_proofs`, for every schema, set of transactions, number of entities, budget of
the caches and number of restarts, without hypotheses:

| Theorem | States |
|---|---|
| `Invariance` | the inductive invariant `EntitiesInv` |
| `TypeCorrect` | `TypeOK`: ids, keys and both caches stay within partitions and schema |
| `TxIdsAreFresh` | `TxIdsFresh`, also after recovery |
| `JournalIsPrefix` | `JournalHoldsPrefix` |

`SeedPartitionCounters` sees a `t` only through its transaction entity, so freshness
after a restart needs that every `t` in the log has its entity there (`StampInv`),
which holds because the first batch of every transaction asserts it (`IntentInv`) and
the log holds batches in order. `WriteInv` says how far the transaction under
`Engine.mu` is: its first `k` batches are logged, the rest is what it still has to
write, and its `t` is the newest. The types of what a batch contains need the
evaluation of `FlattenSeq`, `SetToSeq` and `FoldLeft`, and `TypeOK` the finiteness of
what scans find; `SequenceFacts` has these. It proves induction in the form "a set of
numbers that has 0 and is closed under the step has them all" (`Induct`), by the least
number that is missing; the predicate is a set, not an operator.

`EntityCaches_proofs`, for every schema, set of transactions and programs, number of
entities and budget of the caches, up to the first restart (recovery rebuilds anchors
from assertions that were retracted since):

| Theorem | Assumes | States |
|---|---|---|
| `CachesInvariance` | nothing | the inductive invariant `CachesInv` |
| `HydratedIsComplete` | nothing | `HydratedComplete` |
| `LookupIsExact` | nothing | `LookupExact` |
| `StoreIsAsDocumented` | nothing | `StoreAsDocumented` |
| `SlotsAreResolved` | `OneLookupPerOp` | `SlotsResolve` |

The caches follow a batch key by key, so the last key about a fact decides; in the
store the keys of a transaction carry one `t`, and there a retraction wins. The two
agree because no batch asserts a fact that its transaction retracts in the same batch
or an earlier one (`TidyInv`); a program that saves the value an entity already has
breaks this rule, and `resaved` has these entities. `HydInv` and `AnchorInv` say what each cache
agrees with at each point of `BatchWrite`: the anchors with the store and the batch
from `Journal` on, the hydrated set from `ApplyKeys` on, except for entities whose
scan by a query overlapped a write of theirs (`raced`). `FreshInv` - whatever the log,
the caches and a waiting query name was allocated - is why `HydrateEmpty` may install
an entity without keys. `DocInv` says of the keys stored *and still to be written*
that they make the facts of the protocol active; it is established when a transaction
begins, by `WritesDo` (what superseding by the caches writes is what the protocol says
of the store, as the two agree) and kept by every step that only moves keys.
`Overlay` and `ApplyEffect`, which everything rests on, say what a batch does to the
facts of one entity in the store and in the hydrated set.

`OneLookupPerOp` - no op has a lookup ref in its v slot next to a tempid or a lookup
ref in its e slot - holds of the transactions of `entities_tx` and is what the code
does not check: `lookupOwner` keeps one lookup per op, so such an op resolves its e
slot by the lookup of its v slot.

`MemTable_proofs`, for any keys, values, batches, delta size, ladder length and number
of writes and flushes, without hypotheses:

| Theorem | States |
|---|---|
| `MemTypes` | `TypeOK`: every run, live or captured, is sorted with one record per key, and the accounted size covers the live ladder |
| `ReadsCurrent` | `PointReadsCurrent` |
| `FindRun` | the binary search of `findRun` finds the record of a key in a sorted run, and only then |
| `KeyOrder` | `CmpSeq` is a strict total order of strings of bytes |
| `PrefixIsRange` | the keys with a prefix are those from the prefix on and below its `PrefixEnd`, or all from it on when there is no such bound |
| `PageRoundTrip` | a page of fewer than 2^16 entries (`CountMod`) is read back as it was written |
| `FlatRoundTrip` | so is it by the arena decoder of the read path, entry by entry |

`PointReadsCurrent` speaks of the answer of a read whose calls ran in different states,
of a binary search, which is right only in sorted runs, and of the pages, which are
right for a key only when no run holds it; so it is not inductive. `ReadInv` says what
a read in progress relies on: it has seen the value its key has now; a read on its way
to the pages has seen both what they hold and what the flush in flight leaves there
(`Drained`), so that a swap of the pages between its calls does no harm; a read on its
way to the value finds some record again (`Deciding`), unless a publish has discarded
it, which `torn` records. It is kept by the steps that keep `MemInv`, which has four
parts. `LadderOK`: runs are sorted (`IsLadder`) and the
size is at least the length of the delta plus the number of keys in the runs - of the
delta its *length*, because materialising subtracts the records it supersedes, and
without this the size could fall below the content. `KeysOnly`: a key-only family has no tombstones, which
`DrainSorted` relies on. `FlushOK`: the pages of a flush in flight are the published
ones, and once prepared, those with the captured runs merged in (`Drained`), which are
published before the runs are discarded.
`NewestDecides`: the record `Newest` finds, or else the pages, give the value of each
key. The operations on the ladder do not change `Newest` (`Rearranged`), whatever runs
are draining below it, or change it for the key written (`Appended`); `LookupNewest`
says that the code's search finds `Newest`, by `FindRun`. All of it rests on `CmpSeq`
being a strict total order (`CmpEqual`, `CmpTotal`, `CmpTransitive`) and `SortedKeys`
listing a finite set of keys in that order (`SortedKeysList`). The assumptions are that keys are
strings of bytes, batches sequences of keys, and the delta is not of size zero
(`MemTableAssumption`, `BytesAssumption`).

`PrefixIsRange` and the two round trips are the facts about pages that a tree and its
cursors rest on. The first is a case split on where key and prefix part: `PrefixEnd`
raises the last byte that is not 255 and cuts the rest, so a key that parts from the
prefix there or later is below the bound only if it has the prefix. The round trips
need no order of the keys: a record says how much it shares with the key before it
(`SharedAndRest`), and the decoders are recursive functions whose values are followed
entry by entry (`SerializedRecord`, `FlatStep`). A page holds its count in 16 bits, so
the bound on the number of entries is needed; `BuildPages` splits by bytes alone
(`MaxRawSize`, 512 KiB), so the code meets it when the keys of a page have more than 8
bytes on average. That the code's `ReadVarint` and `WriteVarint` agree is outside
them: a record's lengths are numbers here.

Every inductive invariant was checked with TLC on an instance of its run before it was
relied on, the type invariant of `Entities` with its sets of functions written out, which TLC does not
enumerate. All theorems together state 29 of the properties the runs check.

Only model-checked: liveness (`PublishedSegmentsReclaimed`, `CommandsAnswered`,
`OwnWritesShow`, `Answered`, `Served`, `EventsFlow`), which needs fairness and
`ENABLED`; and trees, cursors and queries (`TreeAnswersPrefixScans`,
`ScanFollowsSnapshot` of `ReadPath`, all properties of `Query`) for good, because
trees, heaps, the cost search and the leapfrog rounds are recursive operators on data,
checked against reference definitions on bounded inputs.

## 5. Abstractions

- Record contents, key encodings and journal byte formats: a record is atomic.
  `ParseJournalRecords` can resynchronise inside a torn record; a torn tail is a
  record that is not there.
- `Engine.mu` makes a write atomic between Sink and insert; several writers are
  several choices of the next record.
- File-system errors other than segment writes and flush blob I/O.
- The S3 backend behaves as the file backend does, without its rename.
- In `Replication` the log does not fail and flushes succeed.
- In `MemTable` and `ReadPath` there is one column family and one cursor, flushes succeed, and page
  sizes are counted in entries; which page ids a collector keeps is `FlushRunner`'s.
- In `Query` values are numbers, attributes are constants of the patterns, the `t`
  and `added` slots are blank, and as-of and history scans, which no server
  reaches, are left out; so are aggregates and the parsing of EDN text.
- In `Gateway` frames have no contents, `Close` of the link and `RequestCollect` are
  left out, and the transactor breaks the connection rather than being slow.
- In `Entities` the read phase of a transaction is one step (an eviction between
  two of its cache reads is not seen), the schema is given, queries hydrate user
  entities only, and the log keeps what it was given (`Durability` shows when).

Not modelled, with the reason, are the components marked so in `PROJECT.json`:
pure translations and encoders, terminal and socket I/O, the Nim original, and
the parts planned below.

## 6. Plan

In order of importance; what is done is marked.

1. `Durability`, `DurableStore`, their runs and proofs - done.
2. `FlushRunner`, its runs and proofs - done.
3. `Replication`, its runs and proofs - done.
4. `Entities` with the caches and its runs - done for a fixed schema; to add:
   schema-as-data and partition declarations with their batches, the replica's
   application of foreign batches; all its invariants are proved.
5. Storage reads: `Pages`, `MemTable`, `PageTree`, `Cursors`, `ReadPath` - done for one
   column family, and the memtable proved; to add: blob reads that fail.
6. Flow control: `Gateway`, its runs and proofs - done; to add: the subscriber's
   backlog.
7. Queries: `Ranges`, `Scanner`, `Planner`, `TrieJoin`, `Query` - done; to add:
   boolean values, `or` over several variables.

Modules to be proved about use no `RECURSIVE` operator, string-valued flags and
invariants that are conjunctions of named parts.
