------------------------------ MODULE Cursors -------------------------------
(***************************************************************************)
(* The cursors a scan is made of: the page cursor                          *)
(* (internal/pagestore/cursor.go), the cursor over one memtable run        *)
(* (internal/memtable/run_cursor.go), the cursor over a hydrated entity,   *)
(* and the merged cursor over all of them (internal/cursor/cursor.go).     *)
(*                                                                         *)
(* A cursor is a record and an operation an operator from the record to    *)
(* the record the call leaves behind.  `kv` tells a scan of pairs from a   *)
(* scan of keys; a record of a run is [k, v, del].                         *)
(***************************************************************************)
EXTENDS PageTree

-----------------------------------------------------------------------------
(* The page cursor.  stack holds one (entries, pos) per index level, leaf  *)
(* the entries of the current leaf (<<>> while none is loaded), idx the    *)
(* position in it, cur the current entry or NoEntry, failed whether the last *)
(* call returned an error (which the merge ignores).                       *)

NewPageCursor(tree) ==
    [kind |-> "page", root |-> tree.root, height |-> tree.height, stack |-> <<>>,
     leaf |-> <<>>, idx |-> 0, cur |-> NoEntry, failed |-> FALSE,
     atEnd |-> tree.root = NoPage]

LoadLeaf(c, page) == [c EXCEPT !.leaf = FlatEntries(page), !.idx = 0]

\* The child an index page leads to: the last one whose key is not above target.
ChildAt(entries, target) ==
    LET n == Cardinality({i \in DOMAIN entries : CmpSeq(entries[i].k, target) <= 0})
    IN IF n > 0 THEN n ELSE 1

\* Down to a leaf from `page` of height h; the empty target leads to the first.
RECURSIVE descendToLeafAt(_, _, _, _)
descendToLeafAt(c, page, h, target) ==
    IF h = 0 THEN LoadLeaf(c, page)
    ELSE LET entries == DeserializeIndexPage(page)
             pos == ChildAt(entries, target)
         IN descendToLeafAt([c EXCEPT !.stack = Append(@, [entries |-> entries, pos |-> pos])],
                            entries[pos].x, h - 1, target)

FromRoot(c, target) == descendToLeafAt([c EXCEPT !.stack = <<>>], c.root, c.height, target)

\* The next leaf.  Except in a tree of height 1 the pages below the next child
\* are read as index pages until one holds no entries: the last page of the way
\* down is a leaf, which cannot be decoded as an index page, and the call fails.
RECURSIVE advanceToNextLeaf(_)
advanceToNextLeaf(c) ==
    IF c.stack = <<>> THEN [c EXCEPT !.atEnd = TRUE]
    ELSE LET n == Len(c.stack)
             moved == [c EXCEPT !.stack[n].pos = @ + 1]
             top == moved.stack[n]
             down == descendToLeafAt(moved, top.entries[top.pos].x, c.height - n, NoKey)
         IN CASE top.pos > Len(top.entries) ->
                   advanceToNextLeaf([c EXCEPT !.stack = Front(@)])
              [] top.pos <= Len(top.entries) /\ c.height = 1 -> down
              [] OTHER -> [down EXCEPT !.leaf = c.leaf, !.idx = c.idx, !.failed = TRUE]

RECURSIVE PageAdvance(_)
PageAdvance(c) ==
    LET d == [c EXCEPT !.cur = NoEntry, !.idx = @ + 1, !.failed = FALSE]
        OnLeaf(e) == IF e.failed THEN e ELSE PageAdvance(e)
    IN CASE c.atEnd -> c
         [] ~c.atEnd /\ d.idx <= Len(d.leaf) -> [d EXCEPT !.cur = d.leaf[d.idx]]
         [] OTHER -> IF d.stack = <<>> THEN [d EXCEPT !.atEnd = TRUE]
                     ELSE OnLeaf(advanceToNextLeaf(d))

PageEnsure(c) ==
    IF c.cur # NoEntry \/ c.atEnd THEN c
    ELSE PageAdvance(IF c.leaf = <<>> /\ c.stack = <<>> THEN FromRoot(c, NoKey) ELSE c)

\* The first entry of the leaf at or after target; when the current leaf does
\* not span it, after a new descent, on through the following leaves.
RECURSIVE SkipTo(_, _)
SkipTo(c, target) ==
    LET From(d) == IF d.atEnd \/ d.cur = NoEntry \/ CmpSeq(d.cur.k, target) >= 0 THEN d
                   ELSE SkipTo(d, target)
    IN From(PageAdvance(c))

PageSeek(c, target) ==
    LET spans == /\ c.leaf # <<>>
                 /\ CmpSeq(Head(c.leaf).k, target) <= 0
                 /\ CmpSeq(Last(c.leaf).k, target) >= 0
        At(d) == [d EXCEPT !.idx = partitionPoint(d.leaf, target), !.cur = NoEntry, !.atEnd = FALSE]
    IN CASE c.root = NoPage -> [c EXCEPT !.atEnd = TRUE]
         [] c.root # NoPage /\ spans -> PageAdvance(At(c))
         [] OTHER -> SkipTo(At(FromRoot(c, target)), target)

-----------------------------------------------------------------------------
(* The cursor over a run of records, or over the keys of a hydrated entity *)
(* (kind "hyd"), which are records without tombstones.                     *)

NewRunCursor(recs) == [kind |-> "run", recs |-> recs, pos |-> 1, atEnd |-> recs = <<>>]
NewHydCursor(recs) == [NewRunCursor(recs) EXCEPT !.kind = "hyd"]

RunAdvance(c) == [c EXCEPT !.pos = @ + 1, !.atEnd = c.pos + 1 > Len(c.recs)]

\* A scan of pairs passes over the tombstones of this run.
RECURSIVE PeekKv(_)
PeekKv(c) == IF ~c.atEnd /\ c.recs[c.pos].del THEN PeekKv(RunAdvance(c)) ELSE c

RunSeek(c, target) ==
    LET pos == 1 + Cardinality({i \in DOMAIN c.recs : CmpSeq(c.recs[i].k, target) < 0})
    IN [c EXCEPT !.pos = pos, !.atEnd = pos > Len(c.recs)]

-----------------------------------------------------------------------------
(* A source of the merge: what its CurrentKey, Step and Seek do to it.     *)

\* CurrentKey positions a source lazily; Current is the entry it then shows.
Positioned(c, kv) == CASE c.kind = "page" -> PageEnsure(c)
                       [] c.kind # "page" /\ kv -> PeekKv(c)
                       [] OTHER -> c
Current(c) == CASE c.atEnd -> NoEntry
                [] ~c.atEnd /\ c.kind = "page" -> c.cur
                [] OTHER -> Entry(c.recs[c.pos].k, c.recs[c.pos].v)

\* Step of a source that has been positioned.
Step(p) ==
    CASE p.kind = "page" -> PageAdvance(p)
      [] p.kind # "page" /\ p.atEnd -> p
      [] OTHER -> RunAdvance(p)

SeekSource(c, target) == IF c.kind = "page" THEN PageSeek(c, target) ELSE RunSeek(c, target)

-----------------------------------------------------------------------------
(* The merge: a binary heap of (key, source) and the key shown last.       *)

RECURSIVE SiftUp(_, _)
SiftUp(h, i) ==
    LET p == i \div 2
    IN IF i > 1 /\ CmpSeq(h[i].k, h[p].k) < 0
       THEN SiftUp([h EXCEPT ![i] = h[p], ![p] = h[i]], p) ELSE h

push(h, e) == SiftUp(Append(h, e), Len(h) + 1)

RECURSIVE SiftDown(_, _)
SiftDown(h, i) ==
    LET left  == 2 * i
        right == left + 1
        a == IF CmpSeq(h[left].k, h[i].k) < 0 THEN left ELSE i
        b == IF right <= Len(h) /\ CmpSeq(h[right].k, h[a].k) < 0 THEN right ELSE a
    IN IF left > Len(h) \/ b = i THEN h
       ELSE SiftDown([h EXCEPT ![i] = h[b], ![b] = h[i]], b)

pop(h) == IF Len(h) = 1 THEN <<>> ELSE SiftDown([Front(h) EXCEPT ![1] = Last(h)], 1)

\* A source with a current key enters the heap.
Seed(mc, i) ==
    LET Put(s) == [mc EXCEPT !.sources[i] = s,
                             !.heap = IF Current(s) = NoEntry THEN @
                                      ELSE push(@, [k |-> Current(s).k, src |-> i])]
    IN IF mc.sources[i].atEnd THEN mc ELSE Put(Positioned(mc.sources[i], mc.kv))

SeedAll(mc) == FoldLeft(Seed, [mc EXCEPT !.heap = <<>>], [i \in DOMAIN mc.sources |-> i])

Unseeded(sources, isKv) ==
    [kv |-> isKv, sources |-> sources, base |-> <<>>, hydMode |-> FALSE, heap |-> <<>>,
     last |-> NoKey, cur |-> NoEntry, atEnd |-> FALSE]

NewMergedCursor(sources, isKv) == SeedAll(Unseeded(sources, isKv))

\* Mutant: A key that several sources hold is shown once per source.
advanceAll(mc) ==
    CASE mc.atEnd -> mc
      [] ~mc.atEnd /\ mc.heap = <<>> -> [mc EXCEPT !.atEnd = TRUE, !.cur = NoEntry]
      [] OTHER ->
           LET e == Head(mc.heap)
           IN [Seed([mc EXCEPT !.heap = pop(@), !.sources[e.src] = Step(Positioned(@, mc.kv))], e.src)
                EXCEPT !.last = e.k, !.cur = Current(Positioned(mc.sources[e.src], mc.kv))]

\* The smallest key that is not the last one shown becomes the current one; the
\* source it came from steps on and enters the heap again.
RECURSIVE advance(_)
advance(mc) ==
    CASE mc.atEnd -> mc
      [] ~mc.atEnd /\ mc.heap = <<>> -> [mc EXCEPT !.atEnd = TRUE, !.cur = NoEntry]
      [] OTHER ->
           LET e == Head(mc.heap)
               From(s) == Seed([mc EXCEPT !.heap = pop(@), !.sources[e.src] = Step(s)], e.src)
               Show(s, next) ==
                   IF e.k = mc.last THEN advance(next)
                   ELSE [next EXCEPT !.last = e.k,
                                     !.cur = Entry(e.k, IF mc.kv THEN Current(s).x ELSE NoValue)]
               Take(s) == Show(s, From(s))
           IN Take(Positioned(mc.sources[e.src], mc.kv))

\* Peek shows the cur of the cursor ensure leaves (NoEntry at the end); Next
\* advances that cursor.
ensure(mc) == IF mc.cur = NoEntry THEN advance(mc) ELSE mc

Restarted(mc) == [mc EXCEPT !.last = NoKey, !.cur = NoEntry, !.atEnd = FALSE]

parked(mc) == IF mc.hydMode THEN mc.base ELSE mc.sources

\* Seek into an entity that the hydrated set holds: its keys from the target on
\* replace the sources, which are parked.
SeekHydrated(mc, keys) ==
    advance(SeedAll(Restarted([mc EXCEPT !.base = parked(mc), !.hydMode = TRUE,
                                         !.sources = <<NewHydCursor(keys)>>])))

\* Any other seek.  One whose target names an entity brings the parked sources back;
\* one with a shorter target moves the sources there are.
Seek(mc, target, named) ==
    LET sources == IF named THEN parked(mc) ELSE mc.sources
    IN advance(SeedAll(Restarted(
           [mc EXCEPT !.sources = [i \in DOMAIN sources |-> SeekSource(sources[i], target)],
                      !.hydMode = @ /\ ~named])))

=============================================================================
