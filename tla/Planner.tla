------------------------------- MODULE Planner ------------------------------
(***************************************************************************)
(* The join planner (datalog/planner.go, with the statistics of              *)
(* datalog/resolve.go and the pattern helpers of datalog/ast.go).            *)
(*                                                                         *)
(* A pattern is [e, a, v]: a is an attribute id (the parser takes no other), *)
(* e and v are slots, and the t and added slots are always blank.  Variables *)
(* are natural numbers in the order of their names; the second occurrence of *)
(* a variable in pattern p is a variable of its own, Synth(x, p), which       *)
(* sorts behind x, and the skip variables of blank slots sort last.           *)
(*                                                                         *)
(* Costs are kept in hundredths, element counts in tenths: the only          *)
(* fractions of the code are 0.1 and its products.                           *)
(***************************************************************************)
EXTENDS Integers, Sequences, SequencesExt, FiniteSets, FiniteSetsExt, TLC

CONSTANTS
    Attrs,            \* attribute ids
    IndexedAttrs,     \* attributes with AVET keys
    RefAttrs          \* attributes with VAET keys

ASSUME AttrAssumption == IndexedAttrs \subseteq Attrs /\ RefAttrs \subseteq Attrs

Indexes == <<"EAVT", "AEVT", "AVET", "VAET">>

\* IndexEntry without its t and added positions, which hold no variable.
IndexEntry(index) ==
    CASE index = "EAVT" -> <<"e", "a", "v">>
      [] index = "AEVT" -> <<"a", "e", "v">>
      [] index = "AVET" -> <<"a", "v", "e">>
      [] index = "VAET" -> <<"v", "a", "e">>

NoIndex == "none"

DsVar(x) == [k |-> "var", n |-> x]
DsConst(c) == [k |-> "const", n |-> c]
DsMissing == [k |-> "blank", n |-> 0]

SlotAt(p, pos) == IF pos = "a" THEN DsConst(p.a) ELSE p[pos]
IsVar(s) == s.k = "var"
VarAt(p, pos, x) == SlotAt(p, pos) = DsVar(x)

IsLookup(p) == p.e.k = "const" /\ p.v.k = "const"
HasVar(p) == IsVar(p.e) \/ IsVar(p.v)
ContainsVarInEAV(p, x) == VarAt(p, "e", x) \/ VarAt(p, "v", x)

IndexOf(s, x) == IF \E i \in DOMAIN s : s[i] = x THEN CHOOSE i \in DOMAIN s : s[i] = x ELSE 0

\* Names the planner makes up.
Synth(x, p) == x + p
SkipVar(pos, index) == 1000 + 10 * IndexOf(<<"e", "a", "v">>, pos) + IndexOf(Indexes, index)

(***************************************************************************)
(* Index selection                                                          *)
(***************************************************************************)
isSlotBound(slot, bound) == slot.k = "const" \/ (IsVar(slot) /\ slot.n \in bound)
isPrefixOK(slot, bound) == slot.k # "var" \/ slot.n \in bound

targetPosOf(p, x) == IF VarAt(p, "e", x) THEN "e" ELSE "v"

\* The slots of p that stand before pos in an index, in its order.
SlotsBefore(p, index, pos) ==
    LET entry == IndexEntry(index)
    IN [i \in 1 .. IndexOf(entry, pos) - 1 |-> SlotAt(p, entry[i])]

PrefixLen(slots, bound) ==
    Max({n \in 0 .. Len(slots) : \A i \in 1 .. n : isSlotBound(slots[i], bound)})
GapCount(slots) == Len(SelectSeq(slots, LAMBDA s : s.k = "blank"))

IndexExists(index, a) ==
    (index = "VAET" => a \in RefAttrs) /\ (index = "AVET" => a \in IndexedAttrs)

\* The index with the longest bound prefix before the variable, then the fewest
\* blanks, then the first; no unbound variable may stand before it.
findBestIndex(p, x, bound) ==
    LET before(i) == SlotsBefore(p, Indexes[i], targetPosOf(p, x))
        ok == {i \in DOMAIN Indexes :
                 /\ IndexExists(Indexes[i], p.a)
                 /\ \A j \in DOMAIN before(i) : isPrefixOK(before(i)[j], bound)}
        better(i, j) ==
            \/ PrefixLen(before(i), bound) > PrefixLen(before(j), bound)
            \/ /\ PrefixLen(before(i), bound) = PrefixLen(before(j), bound)
               /\ GapCount(before(i)) < GapCount(before(j))
    IN IF ok = {} THEN NoIndex
       ELSE Indexes[CHOOSE i \in ok : \A j \in ok \ {i} : better(i, j) \/ (~better(j, i) /\ i < j)]

isVarReachableInIndex(p, x, index, bound) ==
    LET slots == SlotsBefore(p, index, targetPosOf(p, x))
    IN \A i \in DOMAIN slots : isSlotBound(slots[i], bound)

\* computePlanStats knows one count per index and no count below an attribute, so
\* that only the first position of VAET differs from the total.
estimate(stats, p, index, x) ==
    IF index = "VAET" /\ VarAt(p, "v", x) /\ ~VarAt(p, "e", x) THEN stats.vaet ELSE stats.total

(***************************************************************************)
(* The ordering search.  env is [clauses, find, ranges, stats, synth]: the    *)
(* join patterns, the projected and the restricted variables, the estimates   *)
(* and the synthetic variables [name, source, pat].                           *)
(***************************************************************************)
SynthNames(env) == {s.name : s \in env.synth}
SourceOf(env, x) == (CHOOSE s \in env.synth : s.name = x).source

\* Find variables first, then by name.
candidateCmp(env, x, y) ==
    IF (x \in env.find) # (y \in env.find) THEN x \in env.find ELSE x < y

\* The index each clause would show variable x in, given the ones assigned.
ActiveIndexes(env, x, bound, assigned) ==
    [c \in DOMAIN env.clauses |->
        LET p == env.clauses[c]
        IN IF ~ContainsVarInEAV(p, x) THEN NoIndex
           ELSE IF assigned[c] = NoIndex THEN findBestIndex(p, x, bound)
           ELSE IF isVarReachableInIndex(p, x, assigned[c], bound) THEN assigned[c] ELSE NoIndex]

Active(act) == {c \in DOMAIN act : act[c] # NoIndex}

\* Elements (in tenths) and cost (in hundredths) of binding x at this depth.
StepCost(env, x, bound, assigned, act, depth, top) ==
    LET sel == IF x \in env.ranges THEN 1 ELSE 10
        blindEl == env.stats.total * sel
        sizes == {estimate(env.stats, env.clauses[c], act[c], x) : c \in Active(act)}
        el == Min(sizes) * sel
        undef(c) == Cardinality({pos \in {"e", "v"} :
                                   LET s == SlotAt(env.clauses[c], pos)
                                   IN IsVar(s) /\ s.n # x /\ s.n \notin bound})
        gaps == FoldSet(LAMBDA c, n : n + GapCount(SlotsBefore(env.clauses[c], act[c],
                                                              targetPosOf(env.clauses[c], x))),
                        0, {c \in Active(act) : assigned[c] = NoIndex})
    IN CASE x \in SynthNames(env) -> [el |-> top, cost |-> 10 * depth]
         [] x \notin SynthNames(env) /\ Active(act) = {} ->
              [el |-> blindEl, cost |-> IF depth = 0 THEN blindEl * blindEl ELSE top * blindEl]
         [] OTHER ->
              [el |-> el, cost |-> el * 10 * Cardinality(Active(act))
                                     * (1 + Max({undef(c) : c \in Active(act)})) * (1 + gaps)]

Infinite == 1000000000
NoPlan(env) == [cost |-> Infinite, ordering |-> <<>>, indexes |-> [c \in DOMAIN env.clauses |-> NoIndex]]

\* Every order of the remaining variables is tried, cut off where it costs no
\* less than the best so far.  preferNonBlind leaves out a variable no clause
\* can show while another can be shown.
RECURSIVE exploreOrderingDepth(_, _, _, _, _, _, _, _, _)
exploreOrderingDepth(env, preferNonBlind, remaining, bound, assigned, acc, top, best, path) ==
    LET ready == {x \in remaining : x \in SynthNames(env) => SourceOf(env, x) \in bound}
        act == [x \in ready |-> ActiveIndexes(env, x, bound, assigned)]
        blind == {x \in ready : Active(act[x]) = {}}
        tried == IF preferNonBlind /\ blind # ready THEN ready \ blind ELSE ready
        try(b, x) ==
            LET step == StepCost(env, x, bound, assigned, act[x], Len(path), top)
                now == [c \in DOMAIN assigned |-> IF assigned[c] = NoIndex THEN act[x][c] ELSE assigned[c]]
            IN exploreOrderingDepth(env, preferNonBlind, remaining \ {x}, bound \cup {x}, now,
                                    acc + step.cost, step.el, b, Append(path, x))
    IN CASE remaining = {} /\ acc < best.cost -> [cost |-> acc, ordering |-> path, indexes |-> assigned]
         [] acc >= best.cost -> best
         [] OTHER -> FoldLeft(try, best, SetToSortSeq(tried, LAMBDA x, y : candidateCmp(env, x, y)))

(***************************************************************************)
(* From the best ordering to a plan                                          *)
(***************************************************************************)
\* A pattern without a variable takes the index with the longest constant prefix.
ValidationIndex(p) ==
    LET slots(i) == [j \in 1 .. 3 |-> SlotAt(p, IndexEntry(Indexes[i])[j])]
        score(i) == PrefixLen(slots(i), {})
        best == Max({score(i) : i \in DOMAIN Indexes})
    IN IF best = 0 THEN NoIndex ELSE Indexes[Min({i \in DOMAIN Indexes : score(i) = best})]

\* A blank before the first variable of a pattern's index has a depth of its own,
\* just before that variable.
InsertSkips(ordered, p, index) ==
    LET entry == IndexEntry(index)
        vars == {i \in 1 .. 3 : IsVar(SlotAt(p, entry[i]))}
        target == SlotAt(p, entry[Min(vars)]).n
        insert(o, pos) ==
            LET at == IndexOf(o, target)
            IN IF IndexOf(o, SkipVar(pos, index)) # 0 THEN o
               ELSE IF at = 0 THEN Append(o, SkipVar(pos, index))
               ELSE InsertAt(o, at, SkipVar(pos, index))
    IN IF index = NoIndex \/ vars = {} THEN ordered
       ELSE FoldLeft(insert, ordered,
                     SelectSeq(SubSeq(entry, 1, Min(vars) - 1), LAMBDA pos : SlotAt(p, pos).k = "blank"))

\* The depths at which pattern number i shows a variable, and where in its index:
\* only where everything before that position is bound by then.  A skip variable
\* is looked up under another name than it was given, and so never found.
VarDepths(p, i, index, ordered, synth) ==
    LET name(pos) == IF \E s \in synth : s.pat = i /\ pos = "v"
                     THEN (CHOOSE s \in synth : s.pat = i).name ELSE SlotAt(p, pos).n
        depth(pos) == IndexOf(ordered, name(pos))
        before(pos) == SlotsBefore(p, index, pos)
    IN {[depth |-> depth(pos), pos |-> pos] :
          pos \in {q \in {"e", "v"} :
                     /\ IsVar(SlotAt(p, q)) /\ depth(q) # 0
                     /\ \A j \in DOMAIN before(q) :
                          isPrefixOK(before(q)[j], {ordered[k] : k \in 1 .. depth(q) - 1})}}

buildIterPlan(p, i, index, ordered, synth) ==
    [index |-> index, pat |-> p, depths |-> VarDepths(p, i, index, ordered, synth),
     bound |-> {"a"} \cup {pos \in {"e", "v"} : SlotAt(p, pos).k = "const"}]

finalize(env, state, allVars) ==
    LET base == IF state.ordering = <<>> THEN allVars ELSE state.ordering
        index == [c \in DOMAIN env.clauses |->
                    IF state.indexes[c] = NoIndex /\ ~HasVar(env.clauses[c])
                    THEN ValidationIndex(env.clauses[c]) ELSE state.indexes[c]]
        ordered == FoldLeft(LAMBDA o, c : InsertSkips(o, env.clauses[c], index[c]),
                            base, [c \in DOMAIN env.clauses |-> c])
        used == SelectSeq([c \in DOMAIN env.clauses |-> c], LAMBDA c : index[c] # NoIndex)
    IN [ordered |-> ordered, synth |-> env.synth,
        iters |-> [k \in DOMAIN used |->
                     buildIterPlan(env.clauses[used[k]], used[k], index[used[k]], ordered, env.synth)]]

\* Mutant: The first plan the search finds is taken, sound or not.
SoundAlways(plan, allVars) == TRUE

\* Every variable is shown by some scanner at its depth.
Sound(plan, allVars) ==
    \A i \in DOMAIN allVars :
        \E k \in DOMAIN plan.iters : \E d \in plan.iters[k].depths :
            d.depth = IndexOf(plan.ordered, allVars[i])

\* The variables in the order of their first occurrence, synthetic ones included.
AllVars(joins) ==
    LET of(i) == LET p == joins[i]
                 IN (IF IsVar(p.e) THEN <<p.e.n>> ELSE <<>>)
                    \o (IF ~IsVar(p.v) THEN <<>>
                        ELSE IF p.v = p.e THEN <<Synth(p.v.n, i)>> ELSE <<p.v.n>>)
    IN FoldLeft(LAMBDA acc, x : IF IndexOf(acc, x) = 0 THEN Append(acc, x) ELSE acc,
                <<>>, FlattenSeq([i \in DOMAIN joins |-> of(i)]))

BuildQueryPlan(patterns, find, ranges, stats) ==
    LET joins == SelectSeq(patterns, LAMBDA p : ~IsLookup(p))
        synth == {[name |-> Synth(joins[i].v.n, i), source |-> joins[i].v.n, pat |-> i] :
                    i \in {j \in DOMAIN joins : IsVar(joins[j].e) /\ joins[j].e = joins[j].v}}
        env == [clauses |-> joins, find |-> find, ranges |-> ranges, stats |-> stats, synth |-> synth]
        vars == AllVars(joins)
        runSearch(prefer) == exploreOrderingDepth(env, prefer, ToSet(vars), {}, NoPlan(env).indexes,
                                                  0, 10, NoPlan(env), <<>>)
        first == finalize(env, runSearch(FALSE), vars)
        plan == IF Sound(first, vars) THEN first ELSE finalize(env, runSearch(TRUE), vars)
    IN plan @@ [lookups |-> SelectSeq(patterns, IsLookup)]

=============================================================================
