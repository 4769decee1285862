------------------------------ MODULE MemTable ------------------------------
(***************************************************************************)
(* The memtable of the key-value store: the run ladder of one column       *)
(* family (internal/memtable/memtable.go), the flush that drains it and    *)
(* the point reads that must see through it (internal/kvstore/kvstore.go). *)
(*                                                                         *)
(* `kv` is fixed at the start: a key-only family (column families 0..9,    *)
(* written by batches) or a family of pairs (written by put and delete).   *)
(* What the page store holds for each key is the function `pages`; that    *)
(* the page tree answers so is a property of ReadPath.  The history        *)
(* variable `store` is what the writes so far mean.  An aborted flush and  *)
(* a crash are the subject of Durability.                                  *)
(***************************************************************************)
EXTENDS Pages

CONSTANTS Keys,           \* the keys of a key-only family
          KvKeys,         \* the keys of a family of pairs
          Vals,           \* the values of pairs
          Batches,        \* the batches of keys written to a key-only family
          MaxActiveRuns,  \* memtable.MaxActiveRuns
          MaxBufEntries,  \* memtable.MaxBufEntries
          MaxWrites, MaxFlushes   \* bounds of the instance

AllKeys == Keys \cup KvKeys

ASSUME MemTableAssumption ==
    /\ AllKeys \subseteq Seq(0 .. MaxByte) /\ Batches \subseteq Seq(Keys)
    /\ MaxActiveRuns \in Nat /\ MaxBufEntries \in Nat \ {0}

VARIABLES kv,         \* is this a family of pairs
          buf,        \* the delta: records in order of arrival
          runs,       \* active runs, oldest first; each sorted by key
          draining,   \* the runs a flush has captured
          size,       \* cfSize, in keys
          pages,      \* what the published pages hold for every key
          nextPages,  \* what the pages of the flush in flight hold
          phase,      \* the flush in flight: idle, captured, prepared or swapped
          store,      \* history: the value of every key
          rd,         \* the point read in progress, or the last one
          used        \* how many writes and flushes there were

ladder == <<buf, runs, draining, size>>
memVars == <<kv, ladder, pages, nextPages, phase, store, rd, used>>

Absent == "absent"
Rec(k, v, del) == [k |-> k, v |-> v, del |-> del]
Records == [k : AllKeys, v : Vals \cup {NoValue}, del : BOOLEAN]
Contents == [AllKeys -> Vals \cup {NoValue, Absent}]
Nothing == [k \in AllKeys |-> Absent]

\* A point read: pc, its key, its answer and, as history, the values the key had
\* while it ran (seen) and whether a flush took the record it had found (torn).
NoRead == [pc |-> "idle", k |-> NoKey, ans |-> Absent, seen |-> {}, torn |-> FALSE]
Reading == rd.pc \in {"value", "pages"}

MemInit ==
    /\ kv \in BOOLEAN
    /\ buf = <<>> /\ runs = <<>> /\ draining = <<>> /\ size = 0
    /\ pages = Nothing /\ nextPages = Nothing /\ phase = "idle"
    /\ store = Nothing /\ rd = NoRead /\ used = [writes |-> 0, flushes |-> 0]

-----------------------------------------------------------------------------
(* The ladder.                                                             *)

CmpKeys(a, b) == CmpSeq(a, b)

RecKeys(recs) == {recs[i].k : i \in DOMAIN recs}

\* Mutant: The oldest record of a key wins.
OldestPerKey(recs) ==
    LET ks == SortedKeys(RecKeys(recs))
    IN [i \in DOMAIN ks |-> recs[Min({j \in DOMAIN recs : recs[j].k = ks[i]})]]

\* One record per key, the last of the list, in key order.
NewestPerKey(recs) ==
    LET ks == SortedKeys(RecKeys(recs))
    IN [i \in DOMAIN ks |-> recs[Max({j \in DOMAIN recs : recs[j].k = ks[i]})]]

\* Mutant: The size loses the whole delta.
materializeForgets(l) ==
    IF l.buf = <<>> THEN l
    ELSE [buf |-> <<>>, runs |-> Append(l.runs, NewestPerKey(l.buf)), size |-> l.size - Len(l.buf)]

\* The delta becomes a run; the size loses the records it superseded.
materialize(l) ==
    IF l.buf = <<>> THEN l
    ELSE LET run == NewestPerKey(l.buf)
         IN [buf |-> <<>>, runs |-> Append(l.runs, run),
             size |-> l.size - (Len(l.buf) - Len(run))]

RunKeys(rs) == UNION {RecKeys(rs[i]) : i \in DOMAIN rs}
Holders(rs, k) == {i \in DOMAIN rs : k \in RecKeys(rs[i])}
RecOf(run, k) == run[CHOOSE i \in DOMAIN run : run[i].k = k]

\* Runs, oldest first, as one: a record per key, in key order, each from the
\* newest run that has the key.
MergeRuns(rs) ==
    LET ks == SortedKeys(RunKeys(rs))
    IN [i \in DOMAIN ks |-> RecOf(rs[Max(Holders(rs, ks[i]))], ks[i])]

\* Too many runs become one; the size is left as it is.
maybeMerge(l) ==
    IF Len(l.runs) <= MaxActiveRuns THEN l ELSE [l EXCEPT !.runs = <<MergeRuns(@)>>]

Live == [buf |-> buf, runs |-> runs, size |-> size]
Materialized == maybeMerge(materialize(Live))
SetLive(l) == buf' = l.buf /\ runs' = l.runs /\ size' = l.size

appendRec(l, r) ==
    LET m == [buf |-> Append(l.buf, r), runs |-> l.runs, size |-> l.size + 1]
    IN IF Len(m.buf) >= MaxBufEntries THEN maybeMerge(materialize(m)) ELSE m

appendKey(l, k) == appendRec(l, Rec(k, NoValue, FALSE))

\* A write: the store changes, also for a read that has begun.
Writes(content) ==
    /\ used.writes < MaxWrites
    /\ store' = content
    /\ rd' = IF Reading THEN [rd EXCEPT !.seen = @ \cup {content[rd.k]}] ELSE rd
    /\ used' = [used EXCEPT !.writes = @ + 1]

Batch(ks) ==
    /\ ~kv
    /\ SetLive(FoldLeft(appendKey, Live, ks))
    /\ Writes([k \in AllKeys |-> IF k \in ToSet(ks) THEN NoValue ELSE store[k]])
    /\ UNCHANGED <<kv, draining, pages, nextPages, phase>>

PutKv(k, v) ==
    /\ kv
    /\ SetLive(appendRec(Live, Rec(k, v, FALSE)))
    /\ Writes([store EXCEPT ![k] = v])
    /\ UNCHANGED <<kv, draining, pages, nextPages, phase>>

DeleteKv(k) ==
    /\ kv
    /\ SetLive(appendRec(Live, Rec(k, NoValue, TRUE)))
    /\ Writes([store EXCEPT ![k] = Absent])
    /\ UNCHANGED <<kv, draining, pages, nextPages, phase>>

\* What every scan does first.
EnsureMaterialized ==
    /\ SetLive(Materialized)
    /\ UNCHANGED <<kv, draining, pages, nextPages, phase, store, rd, used>>

-----------------------------------------------------------------------------
(* A flush: the ladder is frozen and captured, drained and merged into the *)
(* pages captured with it, and the new pages replace the captured runs.    *)

FreezeAllCapture ==
    /\ phase = "idle" /\ used.flushes < MaxFlushes
    /\ draining' = Materialized.runs
    /\ SetLive([buf |-> <<>>, runs |-> <<>>, size |-> 0])
    /\ phase' = "captured" /\ nextPages' = pages
    /\ used' = [used EXCEPT !.flushes = @ + 1]
    /\ UNCHANGED <<kv, pages, store, rd>>

\* The k-way merge over the captured runs, oldest first.
DrainSorted(captured) ==
    LET recs == MergeRuns(captured)
    IN [i \in DOMAIN recs |-> Entry(recs[i].k, NoValue)]

\* The same for pairs, with the tombstones apart.
DrainKvSorted(captured) ==
    LET recs == MergeRuns(captured)
        deleted == {k \in RecKeys(recs) : RecOf(recs, k).del}
        alive == SortedKeys(RecKeys(recs) \ deleted)
    IN [pairs |-> [i \in DOMAIN alive |-> Entry(alive[i], RecOf(recs, alive[i]).v)],
        deleted |-> deleted]

\* What the pages hold once the entries are merged in and the deleted keys left out.
MergedPages(content, entries, deleted) ==
    [k \in AllKeys |-> CASE k \in deleted -> Absent
                         [] k \in RecKeys(entries) \ deleted -> RecOf(entries, k).x
                         [] OTHER -> content[k]]

DrainBatch ==
    /\ phase = "captured"
    /\ LET d == IF kv THEN DrainKvSorted(draining)
                ELSE [pairs |-> DrainSorted(draining), deleted |-> {}]
       IN nextPages' = MergedPages(nextPages, d.pairs, d.deleted)
    /\ phase' = "prepared"
    /\ UNCHANGED <<kv, ladder, pages, store, rd, used>>

\* PublishFlush holds snapshotMu, which point reads do not take: the pages are
\* replaced first, and the draining runs discarded under a lock of their own.
PublishTrees ==
    /\ phase = "prepared" /\ phase' = "swapped"
    /\ pages' = nextPages /\ nextPages' = Nothing
    /\ UNCHANGED <<kv, ladder, store, rd, used>>

-----------------------------------------------------------------------------
(* Point reads: the newest record of the memtable, else the pages.  Each of *)
(* the calls a read makes takes the lock of the memtable, or looks at the   *)
(* pages, on its own.                                                       *)

\* The binary search in a run: the position of the key, 0 if the run has none.
findRun(run, k) ==
    LET search[n \in 0 .. Len(run)] ==
          IF n = 0 THEN [lo |-> 0, hi |-> Len(run)]
          ELSE LET s == search[n - 1]
                   mid == (s.lo + s.hi) \div 2
               IN CASE s.lo >= s.hi -> s
                    [] s.lo < s.hi /\ CmpKeys(run[mid + 1].k, k) < 0 -> [s EXCEPT !.lo = mid + 1]
                    [] OTHER -> [s EXCEPT !.hi = mid]
        lo == search[Len(run)].lo
    IN IF lo < Len(run) /\ CmpKeys(run[lo + 1].k, k) = 0 THEN lo + 1 ELSE 0

\* The record that decides the key, if there is one: in the delta, then in the
\* newest of the runs that has the key.
Lookup(rs, delta, k) ==
    LET b == SelectLastInSeq(delta, LAMBDA r : r.k = k)
        i == SelectLastInSeq(rs, LAMBDA run : findRun(run, k) # 0)
    IN CASE b # 0 -> <<delta[b]>>
         [] b = 0 /\ i # 0 -> <<rs[i][findRun(rs[i], k)]>>
         [] OTHER -> <<>>

\* Delta, active runs, draining runs.
LookupKv(k) == Lookup(draining \o runs, buf, k)

Answered(v) == rd' = [rd EXCEPT !.pc = "done", !.ans = v]

\* The first call of Get (ContainsAny) and of GetKv (LookupKv).
StartRead(k) ==
    LET hit == LookupKv(k)
        begun == [NoRead EXCEPT !.k = k, !.seen = {store[k]}]
    IN /\ ~Reading
       /\ \/ hit = <<>> /\ rd' = [begun EXCEPT !.pc = "pages"]
          \/ hit # <<>> /\ hit[1].del /\ rd' = [begun EXCEPT !.pc = "done", !.ans = Absent]
          \/ /\ hit # <<>> /\ ~hit[1].del
             /\ rd' = IF kv THEN [begun EXCEPT !.pc = "value"]
                      ELSE [begun EXCEPT !.pc = "done", !.ans = NoValue]
       /\ UNCHANGED <<kv, ladder, pages, nextPages, phase, store, used>>

\* The second call of GetKv looks the key up once more, for its value.
GetValue ==
    LET hit == LookupKv(rd.k)
    IN /\ rd.pc = "value"
       /\ Answered(IF hit # <<>> /\ ~hit[1].del THEN hit[1].v ELSE Absent)
       /\ UNCHANGED <<kv, ladder, pages, nextPages, phase, store, used>>

\* KeyExists and KeyExistsKv, for a key the memtable does not decide.
ReadPages ==
    /\ rd.pc = "pages"
    /\ Answered(pages[rd.k])
    /\ UNCHANGED <<kv, ladder, pages, nextPages, phase, store, used>>

\* MemTable.Publish: the record a read has found is lost to its second call unless
\* the live ladder has one too.
Publish ==
    /\ phase = "swapped" /\ phase' = "idle"
    /\ draining' = <<>>
    /\ rd' = IF rd.pc = "value" THEN [rd EXCEPT !.torn = @ \/ Lookup(runs, buf, rd.k) = <<>>] ELSE rd
    /\ UNCHANGED <<kv, buf, runs, size, pages, nextPages, store, used>>

-----------------------------------------------------------------------------
MemNext ==
    \/ \E ks \in Batches : Batch(ks)
    \/ \E k \in KvKeys, v \in Vals : PutKv(k, v)
    \/ \E k \in KvKeys : DeleteKv(k)
    \/ EnsureMaterialized
    \/ FreezeAllCapture \/ DrainBatch \/ PublishTrees \/ Publish
    \/ \E k \in AllKeys : StartRead(k)
    \/ GetValue \/ ReadPages

MemSpec == MemInit /\ [][MemNext]_memVars

-----------------------------------------------------------------------------
(* Properties.                                                             *)

\* A run holds a record per key, in key order.
IsRun(run) ==
    \A i, j \in DOMAIN run : i < j => CmpSeq(run[i].k, run[j].k) < 0

\* Types; every run, on which the binary search and the cursors rely, holds a
\* record per key in key order; and the accounted size, which arms a flush, never
\* falls below the number of keys the live ladder holds.
TypeOK ==
    /\ kv \in BOOLEAN /\ buf \in Seq(Records) /\ size \in Nat
    /\ phase \in {"idle", "captured", "prepared", "swapped"}
    /\ rd.pc \in {"idle", "value", "pages", "done"} /\ rd.ans \in Vals \cup {NoValue, Absent}
    /\ pages \in Contents /\ nextPages \in Contents /\ store \in Contents
    /\ \A rs \in {runs, draining} :
         rs \in Seq(Seq(Records)) /\ \A i \in DOMAIN rs : IsRun(rs[i])
    /\ size >= Cardinality(RecKeys(buf) \cup RunKeys(runs))

\* A point read answers with a value its key had while it ran, wherever the newest
\* record is by then: in the delta, in a run, in the runs of a flush in flight or in
\* the pages, and however writes, captures and publishes fall between its calls
\* (Get, GetKv).  Excepted is the read that has found its record in draining runs
\* and looks for the value after they were discarded.
PointReadsCurrent == rd.pc = "done" => rd.ans \in rd.seen \/ rd.torn

\* What GetKv is to do: the same without the exception.
PointReadsExact == rd.pc = "done" => rd.ans \in rd.seen
=============================================================================
