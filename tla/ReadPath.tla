------------------------------ MODULE ReadPath ------------------------------
(***************************************************************************)
(* Scans of the key-value store while it is written and flushed: the       *)
(* memtable of MemTable over a page tree of PageTree, for one column       *)
(* family, with the scan cursors of internal/kvstore/kvstore.go.           *)
(*                                                                         *)
(* Every step of the memtable is a step here, together with what it does   *)
(* to the tree.  The scan is compared with the store as it was when the    *)
(* cursor was opened or, for a seek into a hydrated entity, when the keys  *)
(* of that entity were taken.                                              *)
(***************************************************************************)
EXTENDS MemTable, Cursors

CONSTANTS ReadKeys,       \* the keys of point reads
          Targets,        \* the seek targets
          ScanPrefixes,   \* the prefixes of prefix scans of the tree
          HydEntities,    \* the entities (first bytes) that may be hydrated
          MaxSeeks        \* bound of the instance

VARIABLES tree,      \* the published page tree
          nextTree,  \* the tree of the flush in flight
          hyd,       \* the entities whose hydrated entry is complete
          mc,        \* the open merged cursor
          scan,      \* where a seek is, and as history what the cursor has shown
          seeks      \* how many seeks there were

readVars == <<tree, nextTree, hyd, mc, scan, seeks>>
vars == <<memVars, readVars>>

NoCursor == Unseeded(<<>>, FALSE)
NoScan == [open |-> FALSE, probed |-> FALSE, base |-> Nothing, snap |-> Nothing, from |-> NoKey,
           hyd |-> FALSE, torn |-> FALSE, deep |-> FALSE, shadowed |-> {}, shown |-> <<>>,
           ended |-> FALSE]

Init ==
    /\ MemInit
    /\ tree = EmptyTree /\ nextTree = EmptyTree
    /\ hyd = {} /\ mc = NoCursor /\ scan = NoScan /\ seeks = 0

-----------------------------------------------------------------------------
(* A flush: the tree it starts from is captured with the ladder, the       *)
(* drained runs are merged into it, and the new tree replaces them.        *)

CaptureFlush ==
    /\ FreezeAllCapture
    /\ nextTree' = tree
    /\ UNCHANGED <<tree, hyd, mc, scan, seeks>>

PrepareFlush ==
    /\ DrainBatch
    /\ LET d == DrainKvSorted(draining)
       IN nextTree' = IF kv THEN PrepareMergeKv(nextTree, d.pairs, d.deleted)
                      ELSE PrepareMerge(nextTree, DrainSorted(draining))
    /\ UNCHANGED <<tree, hyd, mc, scan, seeks>>

PublishFlush ==
    /\ PublishTrees
    /\ tree' = nextTree /\ nextTree' = EmptyTree
    /\ UNCHANGED <<hyd, mc, scan, seeks>>

\* KeyExists and KeyExistsKv: the tree is asked for the key as a prefix.
KeyExists(k) ==
    LET found == SelectSeq(IF kv THEN GetPairsInPrefix(tree, k) ELSE GetKeysInPrefix(tree, k),
                           LAMBDA e : e.k = k)
    IN IF found = <<>> THEN Absent ELSE found[1].x

-----------------------------------------------------------------------------
(* Scans.                                                                  *)

TreeKeys(t) == LET es == GetKeysInPrefix(t, <<>>) IN {es[i].k : i \in DOMAIN es}

\* Runs and tree are taken under snapshotMu, which a publish holds over both of its
\* steps; the delta is materialized first.
OpenScanCursor ==
    LET l == Materialized
        all == draining \o l.runs
        page == IF kv /\ tree.root = NoPage THEN <<>> ELSE <<NewPageCursor(tree)>>
    IN /\ ~scan.open /\ rd.pc = "idle" /\ phase # "swapped"
       /\ EnsureMaterialized
       /\ mc' = NewMergedCursor(page \o [i \in DOMAIN all |-> NewRunCursor(all[i])], kv)
       /\ scan' = [NoScan EXCEPT !.open = TRUE, !.base = store, !.snap = store, !.deep = tree.height > 1,
                     !.shadowed = {k \in AllKeys : \/ Cardinality(Holders(all, k)) > 1
                                                   \/ k \in TreeKeys(tree) /\ Holders(all, k) # {}}]
       /\ UNCHANGED <<tree, nextTree, hyd, seeks>>

CursorNext ==
    /\ scan.open /\ ~scan.probed /\ ~scan.ended
    /\ \E at \in {ensure(mc)} :
         /\ mc' = advance(at)
         /\ scan' = IF at.cur = NoEntry THEN [scan EXCEPT !.ended = TRUE]
                    ELSE [scan EXCEPT !.shown = Append(@, at.cur)]
    /\ UNCHANGED <<memVars, tree, nextTree, hyd, seeks>>

\* A seek asks first whether the hydrated set holds the entity of the target, and
\* takes its keys in a second call.
ProbeComplete(t) ==
    /\ scan.open /\ ~scan.probed /\ seeks < MaxSeeks
    /\ t # <<>> /\ Head(t) \in hyd
    /\ scan' = [scan EXCEPT !.probed = TRUE, !.from = t, !.shown = <<>>, !.ended = FALSE]
    /\ seeks' = seeks + 1
    /\ UNCHANGED <<memVars, tree, nextTree, hyd, mc>>

\* The entry as it is by now: no keys when it was evicted in between.
KeysFrom ==
    LET e == Head(scan.from)
        mine == {k \in AllKeys : /\ hasPrefix(k, <<e>>) /\ CmpSeq(k, scan.from) >= 0
                                 /\ store[k] # Absent}
        ks == SortedKeys(IF e \in hyd THEN mine ELSE {})
    IN /\ scan.probed
       /\ mc' = SeekHydrated(mc, [i \in DOMAIN ks |-> Rec(ks[i], NoValue, FALSE)])
       /\ scan' = [scan EXCEPT !.probed = FALSE, !.hyd = TRUE, !.snap = store, !.torn = e \notin hyd]
       /\ UNCHANGED <<memVars, tree, nextTree, hyd, seeks>>

\* A seek to an entity that is not hydrated is served by the sources the cursor was
\* opened on; one to no entity, by those it has.
CursorSeek(t) ==
    LET stays == t = <<>> /\ mc.hydMode
    IN /\ scan.open /\ ~scan.probed /\ seeks < MaxSeeks
       /\ t # <<>> => Head(t) \notin hyd
       /\ mc' = Seek(mc, t, t # <<>>)
       /\ scan' = [scan EXCEPT !.shown = <<>>, !.ended = FALSE, !.from = IF stays THEN @ ELSE t,
                     !.hyd = stays, !.torn = stays /\ @, !.snap = IF stays THEN @ ELSE scan.base]
       /\ seeks' = seeks + 1
       /\ UNCHANGED <<memVars, tree, nextTree, hyd>>

\* The hydrated set holds key-only entities; an entry is complete and follows
\* every write (Entities!HydratedComplete), and may come and go at any time; here
\* only when a seek looks at it next.
HydrateOrEvict(e) ==
    /\ ~kv /\ scan.open /\ IF e \in hyd THEN scan.probed ELSE seeks < MaxSeeks
    /\ hyd' = IF e \in hyd THEN hyd \ {e} ELSE hyd \cup {e}
    /\ UNCHANGED <<memVars, tree, nextTree, mc, scan, seeks>>

-----------------------------------------------------------------------------
\* The one reader makes point reads or opens a scan: neither changes what the other
\* sees.
Read ==
    /\ \/ ~scan.open /\ \E k \in ReadKeys \cap (IF kv THEN KvKeys ELSE Keys) : StartRead(k)
       \/ GetValue
       \/ ReadPages
    /\ UNCHANGED readVars

Write ==
    /\ \/ \E ks \in Batches : Batch(ks)
       \/ \E k \in KvKeys, v \in Vals : PutKv(k, v)
       \/ \E k \in KvKeys : DeleteKv(k)
    /\ UNCHANGED readVars

Done ==
    /\ used.writes = MaxWrites /\ phase = "idle" /\ scan.ended /\ UNCHANGED vars

NextStep ==
    \/ Write
    \/ Read
    \/ CaptureFlush
    \/ PrepareFlush
    \/ PublishFlush
    \/ Publish /\ UNCHANGED readVars
    \/ OpenScanCursor
    \/ CursorNext
    \/ \E t \in Targets : ProbeComplete(t) \/ CursorSeek(t)
    \/ KeysFrom
    \/ \E e \in HydEntities : HydrateOrEvict(e)
    \/ Done

Spec == Init /\ [][NextStep]_vars

-----------------------------------------------------------------------------
(* Properties.                                                             *)

\* The tree that a flush publishes holds its keys in order and once, every prefix
\* scan returns exactly the keys with the prefix at any height, and a key is found
\* with the value that the flushes so far left it.  (It is looked at when it has
\* just been published; nothing else changes it.)
TreeAnswersPrefixScans ==
    LET all == GetKeysInPrefix(tree, <<>>)
        ks  == [i \in DOMAIN all |-> all[i].k]
    IN phase = "swapped" =>
       /\ ks = SortedKeys(Range(ks))
       /\ \A t \in ScanPrefixes :
            /\ GetKeysInPrefix(tree, t) = WithPrefix(all, t)
            /\ tree.height <= 2 => GetPairsInPrefix(tree, t) = WithPrefix(all, t)
       /\ \A k \in AllKeys : KeyExists(k) = pages[k]

ShownKeys == [i \in DOMAIN scan.shown |-> scan.shown[i].k]

\* The keys a scan of the snapshot must have shown by now.
Due ==
    {k \in AllKeys : /\ scan.snap[k] # Absent
                     /\ CmpSeq(k, scan.from) >= 0
                     /\ scan.hyd => Head(k) = Head(scan.from)
                     /\ scan.ended \/ (scan.shown # <<>> /\ CmpSeq(k, Last(ShownKeys)) <= 0)}

ScanFollows(excepted) ==
    scan.open /\ ~scan.probed =>
        /\ ShownKeys = SortedKeys(Range(ShownKeys))
        /\ excepted \/ IF kv THEN Due \subseteq Range(ShownKeys) ELSE Due = Range(ShownKeys)
        /\ \A i \in DOMAIN scan.shown :
             kv /\ scan.shown[i].k \notin scan.shadowed =>
                 scan.snap[scan.shown[i].k] = scan.shown[i].x

OverDeepTree == scan.deep /\ ~scan.hyd

\* A scan shows, in ascending order and once, the keys of the store as it was when
\* the cursor was opened; after a seek that the hydrated set serves, those of the
\* entity as it was when its keys were taken; whatever is written, flushed and
\* published while it runs.  Excepted are trees of height two and more
\* (advanceToNextLeaf) and a seek between whose two calls the entity was evicted.
\* A scan of pairs may also show keys whose deletion is not flushed yet, but a pair
\* held in one place (one run, or the tree) only if it is live, and with its value.
ScanFollowsSnapshot == ScanFollows(OverDeepTree \/ scan.torn)

\* The same over trees of every height.
ScanFollowsSnapshotDeep == ScanFollows(scan.torn)

\* The same when the entity is evicted between the two calls of a seek.
ScanFollowsSnapshotEvicted == ScanFollows(OverDeepTree)
=============================================================================
