------------------------------ MODULE PageTree ------------------------------
(***************************************************************************)
(* The page store as a data structure: the copy-on-write B-tree of one     *)
(* column family and its prefix scans (internal/pagestore/store.go,        *)
(* types.go), over the pages of Pages.                                     *)
(*                                                                         *)
(* Pages are immutable and named by random ids, so a page is represented   *)
(* by its encoded contents and an index entry holds the child page itself; *)
(* which ids a collector keeps is the subject of FlushRunner.  The two     *)
(* page size limits are measured in entries: LeafMax for MaxRawSize and    *)
(* IndexMax for IndexPageMaxSize.                                          *)
(***************************************************************************)
EXTENDS Pages

CONSTANTS LeafMax,     \* how many entries a leaf holds before it is split
          IndexMax     \* how many entries an index page holds

ASSUME PageAssumption ==
    /\ LeafMax \in Nat \ {0} /\ IndexMax \in Nat \ {0, 1}
    /\ CountMod > LeafMax /\ CountMod > IndexMax

-----------------------------------------------------------------------------
(* Writing: leaves, index levels, the copy-on-write merge.                 *)

Halves(s) == <<SubSeq(s, 1, Len(s) \div 2), SubSeq(s, Len(s) \div 2 + 1, Len(s))>>

\* Leaves of a sorted list of entries, as index entries (first key, page).
RECURSIVE BuildPages(_)
BuildPages(entries) ==
    CASE entries = <<>> -> <<>>
      [] Len(entries) <= LeafMax \/ Len(entries) = 1 ->
           <<Entry(entries[1].k, SerializePage(entries))>>
      [] OTHER -> BuildPages(Halves(entries)[1]) \o BuildPages(Halves(entries)[2])

RECURSIVE SplitIndexEntries(_)
SplitIndexEntries(entries) ==
    IF Len(entries) <= IndexMax \/ Len(entries) = 1
    THEN <<Entry(entries[1].k, SerializeIndexPage(entries))>>
    ELSE SplitIndexEntries(Halves(entries)[1]) \o SplitIndexEntries(Halves(entries)[2])

writeIndexLevel(entries) ==
    IF Len(entries) <= IndexMax \/ Len(entries) <= 1
    THEN <<Entry(entries[1].k, SerializeIndexPage(entries))>>
    ELSE SplitIndexEntries(entries)

\* Index levels on top of `entries`, whose children have height childHeight,
\* until one page holds a whole level.
RECURSIVE buildIndexTree(_, _)
buildIndexTree(entries, childHeight) ==
    LET pages == SplitIndexEntries(entries)
    IN IF Len(entries) <= IndexMax \/ Len(pages) = Len(entries)
       THEN [root |-> SerializeIndexPage(entries), height |-> childHeight + 1]
       ELSE buildIndexTree(pages, childHeight + 1)

EmptyTree == [root |-> NoPage, height |-> 0]

rebuild(entries) ==
    IF entries = <<>> THEN EmptyTree ELSE buildIndexTree(BuildPages(entries), 0)

\* The two-pointer merge of two sorted lists of entries; on equal keys the entry
\* of b is kept if newerWins, else the one of a.
RECURSIVE MergeSorted(_, _, _)
MergeSorted(a, b, newerWins) ==
    CASE a = <<>> -> b
      [] b = <<>> -> a
      [] OTHER ->
           LET c == CmpSeq(a[1].k, b[1].k)
           IN CASE c < 0 -> <<a[1]>> \o MergeSorted(Tail(a), b, newerWins)
                [] c > 0 -> <<b[1]>> \o MergeSorted(a, Tail(b), newerWins)
                [] c = 0 -> <<IF newerWins THEN b[1] ELSE a[1]>>
                              \o MergeSorted(Tail(a), Tail(b), newerWins)

\* The new keys from idx on that are below rangeEnd (NoKey: no bound) go into
\* this leaf.  The result is the replacement entries and the index reached;
\* <<>> stands for nil, "unchanged".
mergeLeaf(leaf, rangeEnd, newKeys, idx) ==
    LET mine == {i \in idx .. Len(newKeys) :
                   rangeEnd = NoKey \/ \A j \in idx .. i : CmpSeq(newKeys[j].k, rangeEnd) < 0}
        toMerge == [i \in 1 .. Cardinality(mine) |-> newKeys[idx + i - 1]]
    IN [entries |-> IF toMerge = <<>> THEN <<>>
                    ELSE BuildPages(MergeSorted(DeserializePage(leaf), toMerge, FALSE)),
        idx |-> idx + Len(toMerge)]

\* Only children with keys in their range are rewritten, from left to right.
RECURSIVE mergeSubtree(_, _, _, _, _)
mergeSubtree(node, height, rangeEnd, newKeys, idx) ==
    IF height = 0 THEN mergeLeaf(node, rangeEnd, newKeys, idx)
    ELSE LET entries == DeserializeIndexPage(node)
             End(i) == IF i < Len(entries) THEN entries[i + 1].k ELSE rangeEnd
             step[i \in 0 .. Len(entries)] ==
               IF i = 0 THEN [entries |-> <<>>, idx |-> idx, changed |-> FALSE]
               ELSE LET s == step[i - 1]
                        hasKeys == /\ s.idx <= Len(newKeys)
                                   /\ End(i) = NoKey \/ CmpSeq(newKeys[s.idx].k, End(i)) < 0
                        r == mergeSubtree(entries[i].x, height - 1, End(i), newKeys, s.idx)
                    IN CASE ~hasKeys -> [s EXCEPT !.entries = Append(@, entries[i])]
                         [] hasKeys /\ r.entries = <<>> ->
                              [s EXCEPT !.entries = Append(@, entries[i]), !.idx = r.idx]
                         [] OTHER -> [entries |-> s.entries \o r.entries, idx |-> r.idx,
                                      changed |-> TRUE]
             last == step[Len(entries)]
         IN [entries |-> IF last.changed THEN writeIndexLevel(last.entries) ELSE <<>>,
             idx |-> last.idx]

\* PrepareMerge of one key-only column family.
PrepareMerge(tree, newKeys) ==
    LET res == mergeSubtree(tree.root, tree.height, NoKey, newKeys, 1).entries
    IN CASE newKeys = <<>> -> tree
         [] newKeys # <<>> /\ tree.root = NoPage -> rebuild(newKeys)
         [] OTHER -> CASE res = <<>> -> tree
                       [] Len(res) = 1 -> [root |-> res[1].x, height |-> tree.height]
                       [] OTHER -> buildIndexTree(res, tree.height)

-----------------------------------------------------------------------------
(* Reading: prefix scans.                                                  *)

\* The number of index entries with a key below target.
partitionPoint(entries, target) ==
    Cardinality({i \in DOMAIN entries : CmpSeq(entries[i].k, target) < 0})

\* Mutant: The child before the first boundary at or above the prefix is left out.
FindPrefixRangeLate(entries, prefix) ==
    LET end == IF PrefixEnd(prefix) = NoKey THEN Len(entries)
               ELSE partitionPoint(entries, PrefixEnd(prefix))
    IN IF prefix = <<>> THEN 1 .. Len(entries) ELSE partitionPoint(entries, prefix) + 1 .. end

\* The children that can hold a key with the prefix: first and last position.
FindPrefixRange(entries, prefix) ==
    LET s   == partitionPoint(entries, prefix)
        end == IF PrefixEnd(prefix) = NoKey THEN Len(entries)
               ELSE partitionPoint(entries, PrefixEnd(prefix))
    IN IF prefix = <<>> THEN 1 .. Len(entries) ELSE (IF s > 0 THEN s ELSE 1) .. end

WithPrefix(entries, prefix) == SelectSeq(entries, LAMBDA e : hasPrefix(e.k, prefix))

\* The entries below `node`, child by child.
RECURSIVE collectKeysFromIndex(_, _, _)
collectKeysFromIndex(node, height, prefix) ==
    LET entries == DeserializeIndexPage(node)
        Below(i) == IF height = 1 THEN WithPrefix(FlatEntries(entries[i].x), prefix)
                    ELSE collectKeysFromIndex(entries[i].x, height - 1, prefix)
        range == FindPrefixRange(entries, prefix)
    IN FlattenSeq([i \in 1 .. Cardinality(range) |-> Below(Min(range) + i - 1)])

GetKeysInPrefix(tree, prefix) ==
    CASE tree.root = NoPage -> <<>>
      [] tree.root # NoPage /\ tree.height = 0 -> WithPrefix(FlatEntries(tree.root), prefix)
      [] OTHER -> collectKeysFromIndex(tree.root, tree.height, prefix)

\* The scan of key-value pairs walks the levels below the second with a stack:
\* the children of a page are pushed in order and popped in reverse.
RECURSIVE PairsFromStack(_, _)
PairsFromStack(stack, prefix) ==
    IF stack = <<>> THEN <<>>
    ELSE LET n == Last(stack)
             entries == DeserializeIndexPage(n.page)
             range == FindPrefixRange(entries, prefix)
             kids == [i \in 1 .. Cardinality(range) |-> entries[Min(range) + i - 1].x]
         IN IF n.height = 1
            THEN FlattenSeq([i \in DOMAIN kids |-> WithPrefix(FlatEntries(kids[i]), prefix)])
                   \o PairsFromStack(Front(stack), prefix)
            ELSE PairsFromStack(Front(stack) \o
                   [i \in DOMAIN kids |-> [page |-> kids[i], height |-> n.height - 1]], prefix)

GetPairsInPrefix(tree, prefix) ==
    IF tree.root = NoPage \/ tree.height <= 1 THEN GetKeysInPrefix(tree, prefix)
    ELSE LET entries == DeserializeIndexPage(tree.root)
             range == FindPrefixRange(entries, prefix)
         IN FlattenSeq([i \in 1 .. Cardinality(range) |->
              PairsFromStack(<<[page |-> entries[Min(range) + i - 1].x,
                                height |-> tree.height - 1]>>, prefix)])

\* PrepareMergeKv of one family: the pairs of the tree without the deleted
\* ones are merged with the new pairs, and the tree is built anew.
PrepareMergeKv(tree, pairs, deleted) ==
    LET Kept(s) == SelectSeq(s, LAMBDA e : e.k \notin deleted)
        live == Kept(GetPairsInPrefix(tree, <<>>))
    IN CASE pairs = <<>> /\ (deleted = {} \/ tree.root = NoPage) -> tree
         [] pairs = <<>> /\ deleted # {} /\ tree.root # NoPage -> rebuild(live)
         [] pairs # <<>> /\ tree.root = NoPage -> rebuild(Kept(pairs))
         [] OTHER -> rebuild(Kept(MergeSorted(live, pairs, TRUE)))

=============================================================================
