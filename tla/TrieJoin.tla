------------------------------ MODULE TrieJoin ------------------------------
(***************************************************************************)
(* The program a plan is compiled to (datalog/scheme_compile.go).  The code   *)
(* writes a nest of Scheme forms, each with one place for the next; here it   *)
(* is the sequence of those forms from the outside in, the leaf being the     *)
(* projection.  A form is                                                     *)
(*   bind  push pre and then val on a scanner, run the rest, pop them again   *)
(*   iter  push pre, scanner-iterate-init, push post; then, while              *)
(*         scanner-iterate-next of the iterator variable it gives a value,     *)
(*         set var to it, push it (push), run the rest, pop it                *)
(* Iterator variables are global to the program, like every Scheme variable.  *)
(***************************************************************************)
EXTENDS Planner, Scanner

NoRanges == [eq |-> DsMissing, branches |-> <<>>]

Bind(k, pre, val) == [form |-> "bind", scs |-> <<k>>, pre |-> pre, val |-> val]

Iter(it, scs, pre, post, ranges, push) ==
    [form |-> "iter", it |-> it, scs |-> scs, pre |-> pre, post |-> post, ranges |-> ranges,
     push |-> push, pos |-> "v"]

\* The positions of an iterator plan in index order that satisfy P.
Positions(ip, P(_)) == SelectSeq(IndexEntry(ip.index), P)

PosAt(ip, depth) == (CHOOSE d \in ip.depths : d.depth = depth).pos
ShownAt(plan, depth) ==
    SelectSeq([k \in DOMAIN plan.iters |-> k],
              LAMBDA k : \E d \in plan.iters[k].depths : d.depth = depth)

(***************************************************************************)
(* One depth.  c is [ops, emitted, scanPos]: the forms so far, and for each   *)
(* scanner the positions already pushed or shown and how far along its index  *)
(* it is.                                                                    *)
(***************************************************************************)
\* The constants that stand before the variable, each once.
BindBefore(c, plan, k, varPos) ==
    LET ip == plan.iters[k]
        cut == IndexOf(IndexEntry(ip.index), varPos)
        new == Positions(ip, LAMBDA pos : /\ IndexOf(IndexEntry(ip.index), pos) < cut
                                          /\ pos \in ip.bound \ c.emitted[k])
    IN [c EXCEPT !.ops = @ \o [i \in DOMAIN new |-> Bind(k, <<>>, SlotAt(ip.pat, new[i]))],
                 !.emitted[k] = @ \cup ToSet(new),
                 !.scanPos[k] = @ + Len(new)]

\* A blank between the scanner's place and the variable is iterated over.
RECURSIVE CloseGaps(_, _, _, _, _)
CloseGaps(c, plan, k, depth, target) ==
    LET ip == plan.iters[k]
        slot == IndexEntry(ip.index)[c.scanPos[k] + 1]
        handled == \/ slot \in c.emitted[k]
                   \/ \E d \in ip.depths : d.depth <= depth /\ d.pos = slot
        stepped == [c EXCEPT !.scanPos[k] = @ + 1]
        gap == Iter(SkipVar(slot, ip.index), <<k>>, <<>>, <<>>, NoRanges, TRUE)
    IN IF c.scanPos[k] >= target THEN c
       ELSE IF handled THEN CloseGaps(stepped, plan, k, depth, target)
       ELSE CloseGaps([stepped EXCEPT !.ops = Append(@, gap)], plan, k, depth, target)

DepthRanges(plan, x, preds) ==
    IF \E s \in plan.synth : s.name = x
    THEN [eq |-> DsVar((CHOOSE s \in plan.synth : s.name = x).source), branches |-> <<>>]
    ELSE [eq |-> DsMissing, branches |-> RangeBounds(preds, x)]

CompileDepth(c, plan, depth, preds) ==
    LET shown == ShownAt(plan, depth)
        prepare(acc, k) ==
            LET pos == PosAt(plan.iters[k], depth)
            IN CloseGaps(BindBefore(acc, plan, k, pos), plan, k, depth,
                         IndexOf(IndexEntry(plan.iters[k].index), pos) - 1)
        ready == FoldLeft(prepare, c, shown)
        inner == depth < Len(plan.ordered)
        x == plan.ordered[depth]
    IN IF shown = <<>> THEN c
       ELSE [ready EXCEPT
               !.ops = Append(@, Iter(x, shown, <<>>, <<>>, DepthRanges(plan, x, preds), inner)),
               !.emitted = [k \in DOMAIN @ |->
                   IF inner /\ IndexOf(shown, k) # 0
                   THEN @[k] \cup {PosAt(plan.iters[k], depth)} ELSE @[k]]]

(***************************************************************************)
(* Constants behind the last variable: the last of them is an iteration held  *)
(* to the constant, any before it are pushed.                                 *)
(***************************************************************************)
TrailVar(pos) == 2000 + IndexOf(<<"e", "a", "v">>, pos)

CompileTrailing(c, plan, k) ==
    LET ip == plan.iters[k]
        trailing == Positions(ip, LAMBDA pos : pos \in ip.bound \ c.emitted[k])
        pre == Positions(ip, LAMBDA pos : /\ pos \notin c.emitted[k]
                                          /\ \E d \in ip.depths : d.pos = pos)
        preVars == [i \in DOMAIN pre |->
                      DsVar(plan.ordered[(CHOOSE d \in ip.depths : d.pos = pre[i]).depth])]
        last == Len(trailing)
        eq == [eq |-> SlotAt(ip.pat, trailing[last]), branches |-> <<>>]
    IN IF trailing = <<>> THEN c
       ELSE [c EXCEPT
               !.ops = @ \o [i \in 1 .. last - 1 |-> Bind(k, preVars, SlotAt(ip.pat, trailing[i]))]
                         \o <<[Iter(TrailVar(trailing[last]), <<k>>, preVars, <<>>, eq, TRUE)
                                 EXCEPT !.pos = trailing[last]]>>]

\* A pattern of constants only is probed outside everything else, in one scanner
\* variable of its own; the last one is the outermost.
Probe == 3000
ProbeScanner(plan) == Len(plan.iters) + 1

CompileProbe(plan, p) ==
    Iter(Probe, <<ProbeScanner(plan)>>, <<>>, <<p.e, DsConst(p.a), p.v>>, NoRanges, TRUE)

\* buildTriejoinScheme.  Its section on restricted variables that no scanner shows
\* is left out: a plan shows them all.
buildTriejoinScheme(plan, preds) ==
    LET start == [ops |-> <<>>, emitted |-> [k \in DOMAIN plan.iters |-> {}],
                  scanPos |-> [k \in DOMAIN plan.iters |-> 0]]
        depths == FoldLeft(LAMBDA c, d : CompileDepth(c, plan, d, preds),
                           start, [d \in DOMAIN plan.ordered |-> d])
        all == FoldLeft(LAMBDA c, k : CompileTrailing(c, plan, k),
                        depths, [k \in DOMAIN plan.iters |-> k])
    IN Reverse([i \in DOMAIN plan.lookups |-> CompileProbe(plan, plan.lookups[i])]) \o all.ops

=============================================================================
