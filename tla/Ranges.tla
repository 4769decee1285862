------------------------------- MODULE Ranges -------------------------------
(***************************************************************************)
(* Predicates of a Datalog query, from the parser to the intervals a scan   *)
(* is held to: datalog/query_edn.go collects the conditions of a variable   *)
(* into branches, datalog/scheme_compile.go writes them as a tree, and      *)
(* scheme/scheme.go (ranges-create) turns the tree into sorted intervals.   *)
(*                                                                         *)
(* A value is a natural number: the encodings of the code are order         *)
(* preserving, and only the order is used here.                             *)
(***************************************************************************)
EXTENDS Integers, Sequences, SequencesExt

NoBound == -1

Cond(op, v) == [op |-> op, v |-> v]

(***************************************************************************)
(* The where clause.  A predicate element is [var, or], or being one or     *)
(* more alternatives, each a sequence of conditions on var: a plain          *)
(* predicate has one alternative, (in ?v x y) several conditions of op in.   *)
(***************************************************************************)
\* addRange: the branches of a variable grow to the branch the condition is for.
addRange(branches, branch, cond) ==
    LET grown == IF branch <= Len(branches) THEN branches
                 ELSE branches \o [i \in 1 .. branch - Len(branches) |-> <<>>]
    IN [grown EXCEPT ![branch] = Append(@, cond)]

\* parsePredicate, one alternative: every condition goes to the same branch.
parsePredicate(branches, branch, conds) ==
    FoldLeft(LAMBDA b, c : addRange(b, branch, c), branches, conds)

\* parseWhereElement: alternative i of an or goes to branch i, and so does the
\* only alternative of a plain predicate (branch 1) whatever branches there are.
parseWhereElement(branches, element) ==
    FoldLeft(LAMBDA b, i : parsePredicate(b, i, element.or[i]),
             branches, [i \in DOMAIN element.or |-> i])

\* The range bounds of variable x after the whole clause.
RangeBounds(preds, x) ==
    FoldLeft(parseWhereElement, <<>>, SelectSeq(preds, LAMBDA p : p.var = x))

RangeVars(preds) == {preds[i].var : i \in DOMAIN preds}

(***************************************************************************)
(* The tree, flattened: what buildRangeTree writes and the walk of           *)
(* ranges-create reads back is a sequence of conjunctions.  Several values   *)
(* of an in become an (or ...) inside the branch, and the walk starts a new  *)
(* conjunction at every element of an or.                                    *)
(***************************************************************************)
buildRangeTree(branch) ==
    LET ins == SelectSeq(branch, LAMBDA c : c.op = "in")
        others == SelectSeq(branch, LAMBDA c : c.op # "in")
        eqs == [i \in DOMAIN ins |-> Cond("=", ins[i].v)]
    IN IF Len(ins) <= 1 THEN <<others \o eqs>>
       ELSE <<others>> \o [i \in DOMAIN eqs |-> <<eqs[i]>>]

Conjunctions(branches) ==
    SelectSeq(FlattenSeq([i \in DOMAIN branches |-> buildRangeTree(branches[i])]),
              LAMBDA c : c # <<>>)

(***************************************************************************)
(* Intervals                                                                *)
(***************************************************************************)
Interval(lo, hi, loOpen, hiOpen) == [lo |-> lo, hi |-> hi, loOpen |-> loOpen, hiOpen |-> hiOpen]

\* The flag -1 of the code: no value at all.
Nothing == Interval(NoBound, NoBound, TRUE, TRUE)

RECURSIVE InsertByLo(_, _)
InsertByLo(s, iv) ==
    IF s = <<>> \/ s[Len(s)].lo <= iv.lo THEN Append(s, iv)
    ELSE Append(InsertByLo(Front(s), iv), s[Len(s)])

\* Two neighbours of the sorted list that overlap or touch become one.
Touches(prev, cur) ==
    \/ prev.hi = NoBound
    \/ cur.lo # NoBound /\ \/ cur.lo < prev.hi
                           \/ cur.lo = prev.hi /\ ~prev.hiOpen /\ ~cur.loOpen

Joined(prev, cur) ==
    LET from(iv) == [prev EXCEPT !.hi = iv.hi, !.hiOpen = iv.hiOpen]
    IN CASE prev.hi = NoBound -> from(cur)
         [] prev.hi # NoBound /\ cur.hi = NoBound -> [prev EXCEPT !.hi = NoBound, !.hiOpen = FALSE]
         [] OTHER -> IF cur.hi > prev.hi THEN from(cur)
                     ELSE IF cur.hi < prev.hi THEN prev
                     ELSE [prev EXCEPT !.hiOpen = @ /\ cur.hiOpen]

mergeIntervals(intervals) ==
    IF Len(intervals) <= 1 THEN intervals
    ELSE LET sorted == FoldLeft(InsertByLo, <<>>, intervals)
         IN FoldLeft(LAMBDA acc, cur :
                        IF Touches(Last(acc), cur)
                        THEN Append(Front(acc), Joined(Last(acc), cur))
                        ELSE Append(acc, cur),
                     <<Head(sorted)>>, Tail(sorted))

\* One comparison narrows the interval; an equality replaces it.
Narrow(iv, c) ==
    CASE c.op \in {">", ">="} ->
            IF iv.lo = NoBound \/ c.v > iv.lo \/ (c.v = iv.lo /\ c.op = ">")
            THEN [iv EXCEPT !.lo = c.v, !.loOpen = (c.op = ">")] ELSE iv
      [] c.op \in {"<", "<="} ->
            IF iv.hi = NoBound \/ c.v < iv.hi \/ (c.v = iv.hi /\ c.op = "<")
            THEN [iv EXCEPT !.hi = c.v, !.hiOpen = (c.op = "<")] ELSE iv
      [] c.op = "=" -> Interval(c.v, c.v, FALSE, FALSE)

BeforeLo(v, iv) == iv.lo # NoBound /\ (v < iv.lo \/ (iv.loOpen /\ v = iv.lo))
PastHi(v, iv) == iv.hi # NoBound /\ (v > iv.hi \/ (iv.hiOpen /\ v = iv.hi))
Holds(v, iv) == ~BeforeLo(v, iv) /\ ~PastHi(v, iv)

\* A != splits the interval that holds its value.
Split(intervals, v) ==
    FlattenSeq([i \in DOMAIN intervals |->
        LET iv == intervals[i]
        IN IF ~Holds(v, iv) THEN <<iv>>
           ELSE <<[iv EXCEPT !.hi = v, !.hiOpen = TRUE], [iv EXCEPT !.lo = v, !.loOpen = TRUE]>>])

opsToIntervals(conds) ==
    LET neqs == SelectSeq(conds, LAMBDA c : c.op = "!=")
        rest == SelectSeq(conds, LAMBDA c : c.op # "!=")
        iv == FoldLeft(Narrow, Interval(NoBound, NoBound, FALSE, FALSE), rest)
    IN IF iv.lo # NoBound /\ iv.hi # NoBound /\ iv.lo > iv.hi THEN <<>>
       ELSE mergeIntervals(FoldLeft(LAMBDA ivs, c : Split(ivs, c.v), <<iv>>, neqs))

\* ranges-create: no conjunction is no restriction, no interval is Nothing.
RangesCreate(branches) ==
    LET cs == Conjunctions(branches)
        ivs == mergeIntervals(FlattenSeq([i \in DOMAIN cs |-> opsToIntervals(cs[i])]))
    IN IF cs = <<>> THEN <<>> ELSE IF ivs = <<>> THEN <<Nothing>> ELSE ivs

(***************************************************************************)
(* What a clause means: every predicate on the variable holds, one of its    *)
(* alternatives at least, every condition of it (the values of an in are     *)
(* alternatives themselves).                                                 *)
(***************************************************************************)
CondHolds(v, c) ==
    CASE c.op \in {"=", "in"} -> v = c.v
      [] c.op = "!=" -> v # c.v
      [] c.op = ">" -> v > c.v
      [] c.op = ">=" -> v >= c.v
      [] c.op = "<" -> v < c.v
      [] c.op = "<=" -> v <= c.v

AlternativeHolds(v, conds) ==
    /\ \A i \in DOMAIN conds : conds[i].op # "in" => CondHolds(v, conds[i])
    /\ (\E i \in DOMAIN conds : conds[i].op = "in")
         => \E i \in DOMAIN conds : conds[i].op = "in" /\ conds[i].v = v

Satisfies(preds, x, v) ==
    \A i \in DOMAIN preds :
        preds[i].var = x => \E k \in DOMAIN preds[i].or : AlternativeHolds(v, preds[i].or[k])

=============================================================================
