-------------------------------- MODULE Query --------------------------------
(***************************************************************************)
(* One Datalog query on a query server: compiled against cached statistics   *)
(* (querysrv/server.go, datalog/), run by the Scheme VM over trie-join        *)
(* scanners (scheme/scheme.go, query/), its rows sent in batches, while       *)
(* transactions keep arriving from the transactor.                           *)
(*                                                                         *)
(* db is the set of records the replica holds, each <<e, a, v, suffix>>.  A   *)
(* scanner takes the snapshot of the moment it is opened.  The VM is at form  *)
(* pc of the program: it enters it, asks its iterator for the next value, or  *)
(* returns to it when the forms inside are done.                             *)
(***************************************************************************)
EXTENDS TrieJoin

CONSTANTS
    Datasets,        \* the contents the replica may start from
    Queries,         \* the queries: [patterns, find, preds]
    Statistics,      \* the cached estimates: [total, vaet]
    ManyAttrs,       \* attributes of cardinality many
    TxFacts,         \* facts a later transaction may write or retract
    MaxTx,           \* bound: transactions applied during the query
    BatchSize        \* rows per frame

ASSUME QueryAssumption == MaxTx \in Nat /\ BatchSize \in Nat \ {0}

VARIABLES
    db, tx,          \* the replica's records, transactions applied so far
    query, plan, ops, \* the request, its plan and its program
    phase, pc, dir,  \* where the VM is
    scs, snaps,      \* the open scanners and the contents each was opened on
    its, env,        \* Scheme variables: iterators, and values by variable
    batch, frames    \* rows of the current batch, frames sent

vars == <<db, tx, query, plan, ops, phase, pc, dir, scs, snaps, its, env, batch, frames>>
compiled == <<query, plan, ops>>

NoProgram == [ordered |-> <<>>, synth |-> {}, iters |-> <<>>, lookups |-> <<>>]

(***************************************************************************)
(* The indexes                                                              *)
(***************************************************************************)
\* A fact is active when its newest record asserts it.
ActiveFacts(records) ==
    {f \in {Group(r) : r \in records} :
        ~Retracted(CHOOSE r \in records : /\ Group(r) = f
                                          /\ \A q \in records : Group(q) = f => q[4] <= r[4])}

\* The keys of one index, sorted: every fact has EAVT and AEVT keys, the facts of
\* an indexed attribute AVET keys, those of a reference VAET keys.
KeysOf(records, index) ==
    LET at(r, pos) == r[IndexOf(IdxOrder("EAVT"), pos)]
        key(r) == [i \in 1 .. 4 |-> at(r, IdxOrder(index)[i])]
        keys == {key(r) : r \in {q \in records : IndexExists(index, q[2])}}
        rank(k) == 1 + Cardinality({q \in keys : KeyLess(q, k)})
    IN [i \in 1 .. Cardinality(keys) |-> CHOOSE k \in keys : rank(k) = i]

(***************************************************************************)
(* Transactions and the compiler                                            *)
(***************************************************************************)
Init ==
    /\ db \in Datasets /\ tx = 0
    /\ query \in [of : Queries, stats : Statistics]
    /\ plan = NoProgram /\ ops = <<>>
    /\ phase = "compile" /\ pc = 0 /\ dir = "enter"
    /\ scs = <<>> /\ snaps = <<>>
    /\ its = <<>> /\ env = <<>>
    /\ batch = <<>> /\ frames = <<>>

\* One transaction: a fact that is active is retracted; another is asserted, and
\* takes the place of the other values of an attribute of cardinality one.
Written(f) ==
    LET t == 9 + tx
        old == {g \in ActiveFacts(db) : g[1] = f[1] /\ g[2] = f[2]}
    IN IF f \in ActiveFacts(db) THEN {Append(f, EncodeSuffix(t, TRUE))}
       ELSE {Append(f, EncodeSuffix(t, FALSE))}
            \cup (IF f[2] \in ManyAttrs THEN {} ELSE {Append(g, EncodeSuffix(t, TRUE)) : g \in old})

\* A WAL frame is applied to the replica.  Nothing reads db once the last scanner
\* of the program is open, and the model stops there.
ApplyWal(f) ==
    /\ tx < MaxTx
    /\ phase = "compile" \/ Len(scs) < Len(plan.iters) + Len(plan.lookups)
    /\ tx' = tx + 1 /\ db' = db \cup Written(f)
    /\ UNCHANGED <<compiled, phase, pc, dir, scs, snaps, its, env, batch, frames>>

Compile ==
    /\ phase = "compile"
    /\ plan' = BuildQueryPlan(query.of.patterns, ToSet(query.of.find),
                              RangeVars(query.of.preds), query.stats)
    /\ ops' = buildTriejoinScheme(plan', query.of.preds)
    /\ phase' = "open"
    /\ UNCHANGED <<db, tx, query, pc, dir, scs, snaps, its, env, batch, frames>>

(***************************************************************************)
(* The VM                                                                   *)
(***************************************************************************)
\* One scanner-open of the program's prefix, over the replica as it is now.
OpenScanner ==
    /\ phase = "open" /\ Len(scs) < Len(plan.iters)
    /\ LET index == plan.iters[Len(scs) + 1].index
       IN scs' = Append(scs, scannerOpen(index, KeysOf(db, index)))
    /\ snaps' = Append(snaps, db)
    /\ UNCHANGED <<db, tx, compiled, phase, pc, dir, its, env, batch, frames>>

StartBody ==
    /\ phase = "open" /\ Len(scs) = Len(plan.iters)
    /\ phase' = "run" /\ pc' = 1
    /\ UNCHANGED <<db, tx, compiled, dir, scs, snaps, its, env, batch, frames>>

At(form, d) == phase = "run" /\ pc \in DOMAIN ops /\ ops[pc].form = form /\ dir = d
Op == ops[pc]

\* ?s_probe names the scanner opened last.
ScannerAt(k, open) == IF k > Len(plan.iters) THEN Len(open) ELSE k
Value(slot) == IF IsVar(slot) THEN env[slot.n] ELSE slot.n

PushAll(open, k, slots) ==
    FoldLeft(LAMBDA o, s : [o EXCEPT ![k] = SaveValue(@, Value(s))], open, slots)
RECURSIVE PopN(_, _, _)
PopN(open, k, n) == IF n = 0 THEN open ELSE PopN([open EXCEPT ![k] = PopSavedValue(@)], k, n - 1)

\* An attribute compared with a bound is four bytes against eight: no attribute
\* reaches it.
BoundOf(op) == IF op.pos = "a" THEN Top + 1 ELSE Value(op.ranges.eq)
SpecsOf(op) ==
    RangesCreate(IF op.ranges.eq = DsMissing THEN op.ranges.branches
                 ELSE <<<<Cond("=", BoundOf(op))>>>>)

EnterBind ==
    /\ At("bind", "enter")
    /\ scs' = PushAll(scs, Op.scs[1], Append(Op.pre, Op.val))
    /\ pc' = pc + 1
    /\ UNCHANGED <<db, tx, compiled, phase, dir, snaps, its, env, batch, frames>>

\* scanner-iterate-init, with the scanner-open of a probe before it.
EnterIter ==
    /\ At("iter", "enter")
    /\ LET probe == Op.it = Probe
           opened == IF probe THEN Append(scs, scannerOpen("EAVT", KeysOf(db, "EAVT"))) ELSE scs
           used == [i \in DOMAIN Op.scs |-> ScannerAt(Op.scs[i], opened)]
           pushed == PushAll(opened, used[1], Op.pre)
           ready == [k \in DOMAIN pushed |-> IF IndexOf(used, k) = 0 THEN pushed[k]
                                             ELSE AdvanceToActiveAtPreserving(pushed[k])]
       IN /\ scs' = PushAll(ready, used[1], Op.post)
          /\ snaps' = IF probe THEN Append(snaps, db) ELSE snaps
          /\ its' = (Op.it :> [scs |-> used, specs |-> SpecsOf(Op), started |-> FALSE]) @@ its
    /\ dir' = "next"
    /\ UNCHANGED <<db, tx, compiled, phase, pc, env, batch, frames>>

\* scanner-iterate-next of the iterator the variable holds now, as the condition
\* of the loop: with a value its body is entered, without one it is left.
IterNext ==
    /\ At("iter", "next")
    /\ LET it == its[Op.it]
           here == [i \in DOMAIN it.scs |-> scs[it.scs[i]]]
           named == [i \in DOMAIN Op.scs |-> ScannerAt(Op.scs[i], scs)]
           Moved(r) == [k \in DOMAIN scs |-> IF IndexOf(it.scs, k) = 0 THEN scs[k]
                                             ELSE r.scs[IndexOf(it.scs, k)]]
           Shown(r) == IF r.ok THEN ExtractCurrent(r.scs[1]) ELSE NoValue
       IN \E r \in {IterateNext(here, it.specs, it.started)} :
            /\ its' = [its EXCEPT ![Op.it].started = @ \/ r.ok]
            /\ env' = (Op.it :> Shown(r)) @@ env
            /\ \/ /\ Shown(r) # NoValue
                  /\ scs' = IF ~Op.push THEN Moved(r)
                            ELSE FoldLeft(LAMBDA o, k : [o EXCEPT ![k] = SaveValue(@, Shown(r))],
                                          Moved(r), named)
                  /\ pc' = pc + 1 /\ dir' = "enter"
               \/ /\ Shown(r) = NoValue
                  /\ scs' = PopN(Moved(r), named[1], Len(Op.pre) + Len(Op.post))
                  /\ pc' = pc - 1 /\ dir' = "leave"
    /\ UNCHANGED <<db, tx, compiled, phase, snaps, batch, frames>>

\* Mutant: A full batch is not handed over before the next row.
ResultRowOverfull ==
    /\ phase = "run" /\ pc = Len(ops) + 1
    /\ batch' = Append(batch, [i \in DOMAIN query.of.find |-> env[query.of.find[i]]])
    /\ pc' = pc - 1 /\ dir' = "leave"
    /\ UNCHANGED <<db, tx, compiled, phase, scs, snaps, its, env, frames>>

\* The projection of the program: the find variables in their order.
Projection == [i \in DOMAIN query.of.find |-> env[query.of.find[i]]]

\* result-row, and the end of a batch that is full.
ResultRow ==
    /\ phase = "run" /\ pc = Len(ops) + 1
    /\ LET rows == Append(batch, Projection)
           full == Len(rows) = BatchSize
       IN /\ batch' = IF full THEN <<>> ELSE rows
          /\ frames' = IF full THEN Append(frames, [rows |-> rows, more |-> TRUE]) ELSE frames
    /\ pc' = pc - 1 /\ dir' = "leave"
    /\ UNCHANGED <<db, tx, compiled, phase, scs, snaps, its, env>>

LeaveBind ==
    /\ At("bind", "leave")
    /\ scs' = PopN(scs, Op.scs[1], Len(Op.pre) + 1)
    /\ pc' = pc - 1
    /\ UNCHANGED <<db, tx, compiled, phase, dir, snaps, its, env, batch, frames>>

LeaveIter ==
    /\ At("iter", "leave")
    /\ scs' = IF Op.push
              THEN FoldLeft(LAMBDA o, k : PopN(o, ScannerAt(k, o), 1), scs, Op.scs) ELSE scs
    /\ dir' = "next"
    /\ UNCHANGED <<db, tx, compiled, phase, pc, snaps, its, env, batch, frames>>

\* Mutant: No last frame when there are no rows left to send.
CanFinishWithRows == phase = "run" /\ pc = 0 /\ batch # <<>>

CanFinish == phase = "run" /\ pc = 0

\* The program is done: the last frame, whatever is in it, says so.
Finish ==
    /\ CanFinish
    /\ frames' = Append(frames, [rows |-> batch, more |-> FALSE])
    /\ batch' = <<>> /\ phase' = "done"
    /\ UNCHANGED <<db, tx, compiled, pc, dir, scs, snaps, its, env>>

Vm == Compile \/ OpenScanner \/ StartBody \/ EnterBind \/ EnterIter \/ IterNext \/ ResultRow
        \/ LeaveBind \/ LeaveIter \/ Finish
Next == Vm \/ \E f \in TxFacts : ApplyWal(f)

\* The goroutine of the connection runs its query to the end: WF_vars(Vm), with the
\* enabledness of Vm and the steps of Vm (those that apply no WAL) spelled out.
CanStep == phase \in {"compile", "open"} \/ (phase = "run" /\ pc > 0) \/ CanFinish
Fairness == []<>~CanStep \/ []<><<tx' = tx>>_vars

Spec == Init /\ [][Next]_vars /\ Fairness

(***************************************************************************)
(* What a query means                                                       *)
(***************************************************************************)
Rows == FlattenSeq([i \in DOMAIN frames |-> frames[i].rows])

QueryVars ==
    UNION {{p[pos].n : pos \in {q \in {"e", "v"} : IsVar(p[q])}} : p \in ToSet(query.of.patterns)}

Matches(p, assign, records) ==
    \E f \in ActiveFacts(records) :
        /\ f[2] = p.a
        /\ \A pos \in {"e", "v"} :
             LET x == f[IF pos = "e" THEN 1 ELSE 3]
             IN CASE p[pos].k = "blank" -> TRUE
                  [] p[pos].k = "const" -> x = p[pos].n
                  [] p[pos].k = "var" -> x = assign[p[pos].n]

\* The rows of the query, pattern p being evaluated on the contents On(p).
Answer(On(_)) ==
    LET values == UNION {{r[1], r[3]} : r \in db}
    IN {[i \in DOMAIN query.of.find |-> assign[query.of.find[i]]] :
          assign \in {s \in [QueryVars -> values] :
                        /\ \A p \in ToSet(query.of.patterns) : \A records \in On(p) : Matches(p, s, records)
                        /\ \A x \in QueryVars : Satisfies(query.of.preds, x, s[x])}}

\* What the scanners of pattern p were opened on.
SeenBy(p) ==
    {snaps[k] : k \in {k \in DOMAIN snaps :
                         IF k > Len(plan.iters) THEN IsLookup(p) ELSE plan.iters[k].pat = p}}

(***************************************************************************)
(* Properties                                                               *)
(***************************************************************************)
\* Types, and the framing of streamProgram: no frame holds more rows than a batch,
\* and exactly the last one says that no more will follow.
TypeOK ==
    /\ phase \in {"compile", "open", "run", "done"} /\ dir \in {"enter", "next", "leave"}
    /\ pc \in 0 .. Len(ops) + 1 /\ tx \in 0 .. MaxTx
    /\ Len(snaps) = Len(scs)
    /\ \A k \in DOMAIN scs : scs[k].pos \in 1 .. Len(scs[k].keys) + 1 /\ Len(scs[k].stack) <= 4
    /\ Len(batch) < BatchSize
    /\ \A i \in DOMAIN frames : /\ Len(frames[i].rows) <= BatchSize
                                /\ frames[i].more = (phase # "done" \/ i < Len(frames))

\* Whatever the cached statistics say, the plan has a scanner for every pattern and
\* a depth for every variable of it: a variable that a pattern's scanner does not
\* show is not joined (BuildQueryPlan, the soundness test behind finalize).
PlanShowsAll ==
    phase # "compile" =>
        \A p \in ToSet(query.of.patterns) : HasVar(p) =>
            \E k \in DOMAIN plan.iters :
                /\ plan.iters[k].pat = p
                /\ \A pos \in {"e", "v"} :
                     IsVar(p[pos]) => \E d \in plan.iters[k].depths : d.pos = pos

\* The rows sent are those of the query: every assignment of its variables that all
\* patterns, each on the contents its scanner was opened on, and all predicates
\* admit, and no other (docs/datalog-reference.md, sections 2 and 4).  A query that
\* returns all its variables and has no blanks returns no row twice.
RowsExact ==
    phase = "done" =>
        /\ ToSet(Rows) = Answer(SeenBy)
        /\ (/\ ToSet(query.of.find) = QueryVars
            /\ \A p \in ToSet(query.of.patterns) : p.e # DsMissing /\ p.v # DsMissing)
              => IsInjective(Rows)

\* The rows are those of the query at one moment between its start and its end
\* (querysrv/server.go: the cursors are pinned to the snapshot captured at session
\* open).
Past(i) == {r \in db : r[4] \div 2 < 9 + i}
OneSnapshot ==
    phase = "done" =>
        \E i \in 0 .. tx : ToSet(Rows) = Answer(LAMBDA p : {Past(i)})

\* Every query is answered to its last frame: no leapfrog loop runs for ever.
Answered == <>(phase = "done")

=============================================================================
