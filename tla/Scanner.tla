------------------------------- MODULE Scanner ------------------------------
(***************************************************************************)
(* The trie-join scanner (query/scanner.go) and the leapfrog iteration over *)
(* several of them (query/hostfns.go), as operators on scanner records.      *)
(*                                                                         *)
(* A key of an index is a tuple: three components in the order of the       *)
(* index and the suffix 2t, plus 1 for a retraction.  Every component is a   *)
(* natural number, so that the order of tuples is the order of the encoded   *)
(* keys, and Top is the value whose encoding is all ones.  The key type of a *)
(* value only chooses an encoding and is left out, and so are the as-of and  *)
(* history branches, which no server reaches: sessions are opened without a  *)
(* time and no compiled program reads the t position of a history scanner.   *)
(***************************************************************************)
EXTENDS Ranges, FiniteSets, FiniteSetsExt

CONSTANT Top

ASSUME TopAssumption == Top \in Nat

NoKey == <<>>
NoValue == -1

IdxOrder(index) ==
    CASE index = "EAVT" -> <<"e", "a", "v", "t">>
      [] index = "AEVT" -> <<"a", "e", "v", "t">>
      [] index = "AVET" -> <<"a", "v", "e", "t">>
      [] index = "VAET" -> <<"v", "a", "e", "t">>

EncodeSuffix(t, retracted) == 2 * t + (IF retracted THEN 1 ELSE 0)
Retracted(key) == key[4] % 2 = 1
Group(key) == SubSeq(key, 1, 3)

\* Lexicographic comparison of the first n components.
CmpComponents(a, b, n) ==
    LET d == {i \in 1 .. n : a[i] # b[i]}
    IN IF d = {} THEN 0 ELSE IF a[Min(d)] < b[Min(d)] THEN -1 ELSE 1

KeyLess(a, b) == CmpComponents(a, b, 4) < 0

(***************************************************************************)
(* The record.  keys is the snapshot the cursor was opened on and pos the    *)
(* cursor's place in it (Len + 1 when it is not valid); stack is the prefix  *)
(* pushed so far, key the active key.                                        *)
(***************************************************************************)
NewV2Scanner(index, keys) ==
    [index |-> index, keys |-> keys, pos |-> 1, stack |-> <<>>, key |-> NoKey, atEnd |-> FALSE]

Valid(sc) == sc.pos <= Len(sc.keys)
Invalidate(sc) == [sc EXCEPT !.pos = Len(sc.keys) + 1]

\* The cursor goes to the first key that is not smaller than the target, whose
\* missing components are zero bytes.
CursorSeek(sc, target) ==
    [sc EXCEPT !.pos = 1 + Cardinality({i \in DOMAIN sc.keys :
                                          CmpComponents(sc.keys[i], target, Len(target)) < 0})]

SaveValue(sc, v) == [sc EXCEPT !.stack = Append(@, v)]
PopSavedValue(sc) == IF sc.stack = <<>> THEN sc ELSE [sc EXCEPT !.stack = Front(@)]

currentPosition(sc) == Len(sc.stack) + 1
posName(sc) == IF currentPosition(sc) <= 4 THEN IdxOrder(sc.index)[currentPosition(sc)] ELSE "added"

\* A t in the prefix is compared without the retraction bit of the key.
ClassifyKey(sc, key) ==
    LET k == [key EXCEPT ![4] = @ \div 2]
        c == CmpComponents(k, sc.stack, Len(sc.stack))
    IN CASE sc.stack = <<>> -> "noPrefix"
         [] sc.stack # <<>> /\ c < 0 -> "before"
         [] sc.stack # <<>> /\ c > 0 -> "after"
         [] OTHER -> "match"

InPrefix(sc) == sc.key # NoKey /\ ClassifyKey(sc, sc.key) \in {"match", "noPrefix"}

\* ValueStart .. ValueEnd is one component of the tuple.
Component(sc, key) == key[currentPosition(sc)]

ExtractCurrent(sc) ==
    IF ~InPrefix(sc) THEN NoValue
    ELSE IF posName(sc) = "t" THEN sc.key[4] \div 2 ELSE Component(sc, sc.key)

CurrentValueBytes(sc) == IF InPrefix(sc) THEN Component(sc, sc.key) ELSE NoValue

\* Mutant: The newest record of a fact is taken as active even when it retracts it.
AdvanceToActiveShowsRetracted(sc) ==
    IF ~Valid(sc) \/ ClassifyKey(sc, sc.keys[sc.pos]) = "after"
    THEN [sc EXCEPT !.key = NoKey, !.atEnd = TRUE]
    ELSE LET from == IF ClassifyKey(sc, sc.keys[sc.pos]) = "before" THEN CursorSeek(sc, sc.stack) ELSE sc
         IN IF ~Valid(from) \/ ClassifyKey(from, from.keys[from.pos]) = "after"
            THEN [from EXCEPT !.key = NoKey, !.atEnd = TRUE]
            ELSE LET g == Group(from.keys[from.pos])
                     last == Max({i \in DOMAIN from.keys : Group(from.keys[i]) = g})
                 IN [from EXCEPT !.pos = last + 1, !.key = from.keys[last], !.atEnd = FALSE]

\* The records of one fact are next to each other, the newest last: the first
\* fact of the prefix whose newest record asserts it becomes active, and the
\* cursor stands behind it.
RECURSIVE AdvanceToActiveAt(_)
AdvanceToActiveAt(sc) ==
    IF ~Valid(sc) THEN [sc EXCEPT !.key = NoKey, !.atEnd = TRUE]
    ELSE CASE ClassifyKey(sc, sc.keys[sc.pos]) = "before" -> AdvanceToActiveAt(CursorSeek(sc, sc.stack))
           [] ClassifyKey(sc, sc.keys[sc.pos]) = "after" -> [sc EXCEPT !.key = NoKey, !.atEnd = TRUE]
           [] OTHER ->
                LET g == Group(sc.keys[sc.pos])
                    last == Max({i \in DOMAIN sc.keys : Group(sc.keys[i]) = g})
                    moved == [sc EXCEPT !.pos = last + 1]
                IN IF Retracted(sc.keys[last]) THEN AdvanceToActiveAt(moved)
                   ELSE [moved EXCEPT !.key = sc.keys[last], !.atEnd = FALSE]

AdvanceToActiveAtPreserving(sc) ==
    IF sc.key # NoKey /\ ClassifyKey(sc, sc.key) = "match" THEN [sc EXCEPT !.atEnd = FALSE]
    ELSE AdvanceToActiveAt(sc)

\* The successor of the component at the current position, Invalidate where
\* its encoding has none.
seekPastValueAt(sc) ==
    LET ci == currentPosition(sc)
        v == sc.key[ci]
        none == IF ci = 4 THEN v = 0 ELSE v = Top
    IN IF none THEN Invalidate(sc) ELSE CursorSeek(sc, Append(SubSeq(sc.key, 1, ci - 1), v + 1))

LeapNextAt(sc) == AdvanceToActiveAt(IF sc.key = NoKey THEN sc ELSE seekPastValueAt(sc))

\* SeekToValue and SeekToBytes; at the t position the value is not encoded.
SeekToValue(sc, v) ==
    AdvanceToActiveAt(CursorSeek(sc, IF posName(sc) = "t" THEN sc.stack ELSE Append(sc.stack, v)))

(***************************************************************************)
(* Leapfrog.  The operators take and return the scanners that meet at one    *)
(* variable, as a sequence; ok tells whether they all show one value.         *)
(***************************************************************************)
Result(ok, scs) == [ok |-> ok, scs |-> scs]

\* The scanners behind the greatest value seek it, in turn, until one is at its end.
RECURSIVE SeekLaggards(_, _, _)
SeekLaggards(scs, i, max) ==
    IF i > Len(scs) THEN Result(TRUE, scs)
    ELSE LET Sought(s) == IF s.atEnd THEN Result(FALSE, [scs EXCEPT ![i] = s])
                          ELSE SeekLaggards([scs EXCEPT ![i] = s], i + 1, max)
         IN IF ExtractCurrent(scs[i]) = max THEN SeekLaggards(scs, i + 1, max)
            ELSE Sought(SeekToValue(scs[i], max))

\* At most 2n + 1 rounds, n the number of scanners.
RECURSIVE leapRounds(_, _)
leapRounds(scs, rounds) ==
    LET vals == {ExtractCurrent(scs[i]) : i \in DOMAIN scs}
        After(r) == IF r.ok THEN leapRounds(r.scs, rounds - 1) ELSE r
    IN CASE rounds = 0 \/ vals = {NoValue} -> Result(FALSE, scs)
         [] rounds > 0 /\ vals # {NoValue} /\ Cardinality(vals) = 1 -> Result(TRUE, scs)
         [] OTHER -> After(SeekLaggards(scs, 1, Max(vals)))

leapConverge(scs) == leapRounds(scs, 2 * Len(scs) + 1)

\* ValidateOrProposeNextElementBytes: a value inside some interval is valid;
\* else the first interval it lies before proposes its bound; else the scan is
\* over when it lies past all of them.  hasLo tells a bound from no proposal.
Validate(sc, specs) ==
    LET cur == CurrentValueBytes(sc)
        before == {i \in DOMAIN specs : BeforeLo(cur, specs[i])}
        reply(res, bound) == [res |-> res, bound |-> bound]
    IN CASE cur = NoValue -> reply("atEnd", NoBound)
         [] cur # NoValue /\ \E i \in DOMAIN specs : Holds(cur, specs[i]) -> reply("valid", NoBound)
         [] OTHER -> IF before # {} THEN reply("propose", specs[Min(before)].lo)
                     ELSE IF \A i \in DOMAIN specs : PastHi(cur, specs[i])
                     THEN reply("atEnd", NoBound) ELSE reply("propose", NoBound)

\* The first scanner goes to the bound a spec proposed, and past it when the
\* bound is open.
SeekProposed(sc, specs, bound) ==
    LET open == \E i \in DOMAIN specs : specs[i].lo = bound /\ specs[i].loOpen
        Past(s) == IF ~s.atEnd /\ open /\ CurrentValueBytes(s) = bound THEN LeapNextAt(s) ELSE s
    IN Past(SeekToValue(sc, bound))

\* The scanner to move on: the first with the least value, or the first that has none.
LeastBytes(scs) ==
    LET cur == [i \in DOMAIN scs |-> CurrentValueBytes(scs[i])]
        none == {i \in DOMAIN scs : cur[i] = NoValue}
    IN IF none # {} THEN Min(none)
       ELSE CHOOSE i \in DOMAIN scs : /\ \A j \in DOMAIN scs : cur[i] <= cur[j]
                                      /\ \A j \in 1 .. i - 1 : cur[i] < cur[j]

\* One round: the first scanner is validated and, on a proposal, one is moved
\* and all converge again.
RECURSIVE rangeRounds(_, _, _)
rangeRounds(scs, specs, rounds) ==
    LET Again(c) == IF c.ok THEN rangeRounds(c.scs, specs, rounds - 1) ELSE c
        Moved(i, s) == LET m == [scs EXCEPT ![i] = s]
                       IN IF s.atEnd THEN Result(FALSE, m) ELSE Again(leapConverge(m))
        Leap(i) == Moved(i, LeapNextAt(scs[i]))
        Round(r) ==
            CASE r.res = "atEnd" -> Result(FALSE, scs)
              [] r.res = "valid" -> Result(TRUE, scs)
              [] OTHER -> IF r.bound = NoBound THEN Leap(LeastBytes(scs))
                          ELSE Moved(1, SeekProposed(scs[1], specs, r.bound))
    IN IF rounds = 0 THEN Result(FALSE, scs) ELSE Round(Validate(scs[1], specs))

convergeWithRanges(scs, specs) ==
    LET Ranged(c) == IF ~c.ok \/ specs = <<>> THEN c
                     ELSE IF specs = <<Nothing>> THEN Result(FALSE, c.scs)
                     ELSE rangeRounds(c.scs, specs, Len(specs) + 30)
    IN Ranged(leapConverge(scs))

\* The scanner scanner-iterate-next moves: the least value shown, a later
\* scanner taking the place of those before it that show none.
MinIdx(scs) ==
    FoldLeft(LAMBDA m, i :
                LET v == ExtractCurrent(scs[i])
                IN IF m.v = NoValue \/ (v # NoValue /\ v < m.v) THEN [i |-> i, v |-> v] ELSE m,
             [i |-> 1, v |-> NoValue], [i \in DOMAIN scs |-> i]).i

\* scanner-iterate-next: the first call converges, a later one moves the least
\* scanner first.
IterateNext(scs, specs, started) ==
    LET Moved(m, s) == LET moved == [scs EXCEPT ![m] = s]
                       IN IF s.atEnd THEN Result(FALSE, moved) ELSE convergeWithRanges(moved, specs)
        Leap(m) == Moved(m, LeapNextAt(scs[m]))
    IN IF started THEN Leap(MinIdx(scs)) ELSE convergeWithRanges(scs, specs)

\* scanner-open
scannerOpen(index, keys) == AdvanceToActiveAt(NewV2Scanner(index, keys))

=============================================================================
