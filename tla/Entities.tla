------------------------------ MODULE Entities ------------------------------
(***************************************************************************)
(* The entity layer of the transactor: the transaction interpreter         *)
(* (internal/query/edn_tx.go), the write methods it drives                 *)
(* (internal/engine/write.go, internal/eavt/write.go), the allocation of   *)
(* entity ids (internal/eavt/resolver.go) and its recovery, and the two    *)
(* read caches, hydrated entities and unique-value anchors.                *)
(*                                                                         *)
(* A datom key is [e, a, v, t, op]; the store is a set of such keys, and   *)
(* a fact (e, a, v) is active when its newest key is an assertion.  The    *)
(* attributes are declared beforehand.  Writers hold Engine.mu; queries    *)
(* do not, and fill the hydrated cache while a writer is at work.          *)
(***************************************************************************)
EXTENDS Integers, FiniteSets, SequencesExt

CONSTANTS
  Attrs,        \* declared attributes
  Unique,       \* the unique (hence indexed) ones
  Many,         \* the ones of cardinality many
  Values,       \* scalar values
  TxInstant,    \* db/txInstant
  NoValue,      \* the value of a db/txInstant datom
  TxData,       \* the transactions clients may send: sequences of ops
  ExecFacts,    \* the <<a, v>> that Scheme programs write
  MaxTx,        \* bound on transactions
  MaxUser,      \* bound on user entities
  MaxRestarts,  \* bound on crashes of the process
  MaxAnchors,   \* budget of the anchor index, in anchors
  MaxHydrated   \* budget of the hydrated set, in keys

ASSUME EntitySchema == /\ Unique \subseteq Attrs /\ Many \subseteq Attrs
                       /\ ExecFacts \subseteq Attrs \X Values /\ TxInstant \notin Attrs

\* Transactions as they are parsed: a keyword in a value slot is a scalar like
\* any other, and attributes may be undeclared.
TidSlots == [k : {"tid"}, n : Nat]
EidSlots == [k : {"eid"}, n : Nat \ {0}]
ASSUME EntityRequests ==
  \A ops \in TxData :
    /\ Len(ops) \in Nat /\ DOMAIN ops = 1 .. Len(ops)
    /\ \A i \in DOMAIN ops :
         /\ ops[i].k \in {"add", "ret"}
         /\ ops[i].e.k \in {"ref", "tx"} \/ ops[i].e \in TidSlots \cup EidSlots
         /\ \/ ops[i].v.k = "ref" \/ ops[i].v \in TidSlots \cup EidSlots
            \/ ops[i].v.k = "val" /\ ops[i].v.v \in Values
ASSUME EntityBounds == /\ MaxTx \in Nat /\ MaxUser \in Nat /\ MaxRestarts \in Nat
                       /\ MaxAnchors \in Nat /\ MaxHydrated \in Nat

VARIABLES
  (* durable *)
  journal,   \* datom keys given to the log
  (* memory *)
  datoms,    \* datom keys a scan finds
  anchors,   \* <<a, v>> |-> entity: Engine.Anchors
  hyd,       \* entity |-> active <<a, v>> pairs: Engine.Hyd
  nextSeq,   \* Resolver.partitions: [tx |-> ..., user |-> ...]
  wr,        \* the transaction under Engine.mu
  rd,        \* a query between its scan and the installation of the result
  (* history *)
  expect,    \* the facts <<e, a, v>> that hold according to the protocol
  intent,    \* t |-> the batches of that transaction
  raced,     \* entities whose hydration overlapped a write of theirs
  resaved,   \* entities of which a program saved a value they already had
  restarts

memVars == <<datoms, anchors, hyd, nextSeq, wr, rd>>
vars == <<journal, memVars, expect, intent, raced, resaved, restarts>>
-----------------------------------------------------------------------------
(* Entity ids and datom keys.                                              *)

\* The partitions one after the other, in key order: transactions, users.
TxEid(seq) == seq
UserEid(seq) == MaxTx + seq
TxEids == 1 .. MaxTx
UserEids == MaxTx + 1 .. MaxTx + MaxUser

Datom(e, a, v, t, op) == [e |-> e, a |-> a, v |-> v, t |-> t, op |-> op]
AnyValue == Values \cup {NoValue} \cup UserEids \cup TxEids

\* EncodeSuffix: orders the versions of a fact.
Suffix(d) == 2 * d.t + IF d.op = "ret" THEN 1 ELSE 0

\* ScanPrefixActive over stored keys: the newest version of each fact decides.
StoreActive(keys, e) ==
  LET mine == {d \in keys : d.e = e}
      newest == {d \in mine : \A n \in mine : n.a = d.a /\ n.v = d.v => Suffix(n) <= Suffix(d)}
  IN {<<d.a, d.v>> : d \in {n \in newest : n.op = "add"}}

\* A scan of a hydrated entity is answered from memory.
ScanActive(cache, e) ==
  IF e \in DOMAIN cache THEN cache[e] ELSE StoreActive(datoms, e)

\* The entities the scan of the unique index finds.
Holders(a, v) ==
  {e \in {d.e : d \in {k \in datoms : k.a = a}} : <<a, v>> \in StoreActive(datoms, e)}

NoEid == 0

\* BatchLookupAvet, LookupEntity: the anchor, else the first key of CF-2.
Lookup(a, v) ==
  IF <<a, v>> \in DOMAIN anchors THEN anchors[<<a, v>>]
  ELSE IF Holders(a, v) = {} THEN NoEid ELSE Min(Holders(a, v))
-----------------------------------------------------------------------------
(* The caches.                                                             *)

Install(cache, k, x) == [i \in DOMAIN cache \cup {k} |-> IF i = k THEN x ELSE cache[i]]

\* Mutant: a retraction leaves the anchor.
MirrorPutOnly(index, d) ==
  IF d.a \in Unique /\ d.op = "add" THEN Install(index, <<d.a, d.v>>, d.e) ELSE index

\* Anchors.Put and Del for one CF-2 key.
Mirror(index, d) ==
  IF d.a \notin Unique THEN index
  ELSE IF d.op = "add" THEN Install(index, <<d.a, d.v>>, d.e)
  ELSE Restrict(index, DOMAIN index \ {<<d.a, d.v>>})

\* The index after a batch.  Put evicts when the budget is exceeded; the LRU
\* order is abstracted to any choice of victims.
Anchored(batch) ==
  LET all == FoldLeft(Mirror, anchors, batch)
      put == {<<d.a, d.v>> : d \in {x \in ToSet(batch) : x.a \in Unique /\ x.op = "add"}}
  IN IF Cardinality(DOMAIN anchors \cup put) <= MaxAnchors THEN {all}
     ELSE {Restrict(all, K) : K \in {S \in SUBSET DOMAIN all : Cardinality(S) <= MaxAnchors}}

\* Mutant: retractions are not mirrored.
ApplyAdds(cache, d) ==
  IF d.e \in DOMAIN cache /\ d.op = "add"
  THEN [cache EXCEPT ![d.e] = @ \cup {<<d.a, d.v>>}] ELSE cache

\* Hyd.ApplyKey: nothing for an entity that is not hydrated.
ApplyKey(cache, d) ==
  IF d.e \notin DOMAIN cache THEN cache
  ELSE IF d.op = "add" THEN [cache EXCEPT ![d.e] = @ \cup {<<d.a, d.v>>}]
  ELSE [cache EXCEPT ![d.e] = @ \ {<<d.a, d.v>>}]

\* Keys held for the entities S.
Size(cache, S) == Cardinality(UNION {{e} \X cache[e] : e \in S})

\* Hyd.Hydrate: present entries stay; too large a set is rejected; otherwise
\* others are evicted until it fits.
Hydrated(cache, e, keys) ==
  IF e \in DOMAIN cache \/ Cardinality(keys) > MaxHydrated THEN {cache}
  ELSE IF Size(cache, DOMAIN cache) + Cardinality(keys) <= MaxHydrated
  THEN {Install(cache, e, keys)}
  ELSE {Install(Restrict(cache, K), e, keys) :
          K \in {S \in SUBSET DOMAIN cache : Size(cache, S) + Cardinality(keys) <= MaxHydrated}}

\* Hyd.HydrateEmpty for newly allocated entities: no budget is consulted.
HydrateEmpty(cache, es) ==
  [e \in DOMAIN cache \cup es |-> IF e \in DOMAIN cache THEN cache[e] ELSE {}]
-----------------------------------------------------------------------------
(* TransactTx: an op is [k |-> "add" or "ret", e |-> slot, a |-> attribute,*)
(* v |-> slot].  Slots: "tid" a tempid, "eid" the n-th user entity, "ref" a *)
(* lookup ref, "tx" :db/current-tx, "val" a scalar.                        *)

Tid(n) == [k |-> "tid", n |-> n]
Eid(n) == [k |-> "eid", n |-> n]
Ref(a, v) == [k |-> "ref", a |-> a, v |-> v]
CurrentTx == [k |-> "tx"]
Val(v) == [k |-> "val", v |-> v]
Add(e, a, v) == [k |-> "add", e |-> e, a |-> a, v |-> v]
Ret(e, a, v) == [k |-> "ret", e |-> e, a |-> a, v |-> v]

NoKey == <<>>

\* Mutant: any attribute of a tempid identifies an entity.
LookupAnyAttr(op) ==
  IF op.v.k = "ref" THEN <<op.v.a, op.v.v>>
  ELSE IF op.e.k = "ref" THEN <<op.e.a, op.e.v>>
  ELSE IF op.k = "add" /\ op.e.k = "tid" /\ op.v.k = "val"
  THEN <<CHOOSE u \in Unique : TRUE, op.v.v>> ELSE NoKey

\* lookupOwner: the one lookup an op owns, a later assignment replacing an
\* earlier one: the unique value of a tempid, the lookup ref of the e slot,
\* the lookup ref of the v slot.
LookupKey(op) ==
  IF op.v.k = "ref" /\ op.v.a \in Unique THEN <<op.v.a, op.v.v>>
  ELSE IF op.e.k = "ref" /\ op.e.a \in Unique THEN <<op.e.a, op.e.v>>
  ELSE IF op.k = "add" /\ op.e.k = "tid" /\ op.a \in Unique /\ op.v.k = "val"
  THEN <<op.a, op.v.v>> ELSE NoKey

\* lookupResults[lookupOwner[i]]
Result(op) == IF LookupKey(op) = NoKey THEN NoEid ELSE Lookup(LookupKey(op)[1], LookupKey(op)[2])

Tids(ops) == {ops[i].e.n : i \in {j \in DOMAIN ops : ops[j].e.k = "tid"}}
FirstUse(ops, n) == Min({i \in DOMAIN ops : ops[i].e = Tid(n)})

\* The entity found by the first op of a tempid that owns a lookup.
Upserted(ops, n) ==
  LET owners == {i \in DOMAIN ops : ops[i].k = "add" /\ ops[i].e = Tid(n)
                                    /\ LookupKey(ops[i]) # NoKey}
  IN IF owners = {} THEN NoEid ELSE Result(ops[Min(owners)])

FreshTids(ops) == {n \in Tids(ops) : Upserted(ops, n) = NoEid}

\* anchorEid: found, or allocated in the order of first use.
Resolved(ops, n) ==
  IF n \notin FreshTids(ops) THEN Upserted(ops, n)
  ELSE UserEid(nextSeq.user + Cardinality({m \in FreshTids(ops) :
                                             FirstUse(ops, m) < FirstUse(ops, n)}))

\* The checks of the apply pass; the first failure ends the transaction.
Rejected(ops, op) ==
  \/ op.k = "ret" /\ (op.e.k \in {"tx", "tid"} \/ op.v.k \in {"ref", "tid"})
  \/ op.k = "add" /\ op.a \notin Attrs
  \/ "ref" \in {op.e.k, op.v.k} /\ Result(op) = NoEid
  \/ op.v.k = "tid" /\ op.v.n \notin Tids(ops)

EidOf(ops, op, t) ==
  IF op.e.k = "tid" THEN Resolved(ops, op.e.n)
  ELSE IF op.e.k = "eid" THEN UserEid(op.e.n)
  ELSE IF op.e.k = "ref" THEN Result(op) ELSE TxEid(t)

ValueOf(ops, op) ==
  IF op.v.k = "tid" THEN Resolved(ops, op.v.n)
  ELSE IF op.v.k = "eid" THEN UserEid(op.v.n)
  ELSE IF op.v.k = "ref" THEN Result(op) ELSE op.v.v

\* Mutant: nothing is recognised as present.
NeverPresent(cache, e, a, v) == FALSE

HasDatomW(cache, e, a, v) == <<a, v>> \in ScanActive(cache, e)

\* saveResolvedEncodedInto: retractions of the other values of a
\* cardinality-one attribute, then the assertion.
SaveInto(cache, e, a, v, t) ==
  LET old == IF a \in Many THEN {} ELSE {f \in ScanActive(cache, e) : f[1] = a}
  IN SetToSeq({Datom(e, a, f[2], t, "ret") : f \in old}) \o <<Datom(e, a, v, t, "add")>>

TxInstantEntry(t) == <<Datom(TxEid(t), TxInstant, NoValue, t, "add")>>

\* SaveBatchEdn: the assertions that are not already present.
SaveBatchEdn(ops, cache, t) ==
  TxInstantEntry(t) \o FlattenSeq([i \in DOMAIN ops |->
    LET op == ops[i] IN
    IF op.k = "add" /\ ~HasDatomW(cache, EidOf(ops, op, t), op.a, ValueOf(ops, op))
    THEN SaveInto(cache, EidOf(ops, op, t), op.a, ValueOf(ops, op), t) ELSE <<>>])

\* RetractBatch: a batch of its own, when there is something to retract.
RetractBatch(ops, t) ==
  LET rets == FlattenSeq([i \in DOMAIN ops |->
        LET op == ops[i] IN
        IF op.k = "ret" /\ op.a \in Attrs
        THEN <<Datom(EidOf(ops, op, t), op.a, ValueOf(ops, op), t, "ret")>> ELSE <<>>])
  IN IF rets = <<>> THEN <<>> ELSE <<rets>>
-----------------------------------------------------------------------------
(* Writers, under Engine.mu.                                               *)

Idle == [pc |-> "idle", t |-> 0, todo |-> <<>>, ops |-> <<>>, es |-> <<>>]
NoQuery == [pc |-> "idle", e |-> NoEid, keys |-> {}]

\* Entities a client can name: handed out in this session, or found by a query.
Known(e) == e < UserEid(nextSeq.user) \/ \E d \in datoms : d.e = e

\* The bounds of the model.
Room(fresh) == nextSeq.tx <= MaxTx /\ nextSeq.user + fresh - 1 <= MaxUser

\* Transaction t starts; fresh user entities have been allocated.
Begin(t, fresh, batches, ops, es) ==
  /\ nextSeq' = [tx |-> t + 1, user |-> nextSeq.user + fresh]
  /\ wr' = [pc |-> "journal", t |-> t, todo |-> batches, ops |-> ops, es |-> es]
  /\ intent' = [i \in DOMAIN intent \cup {t} |-> IF i = t THEN batches ELSE intent[i]]
  /\ UNCHANGED <<journal, datoms, anchors, rd, raced, restarts>>

\* What the protocol says a transaction does: an assertion that is present is
\* no change, a new value of a cardinality-one attribute replaces the others.
Expected(adds, rets) ==
  LET new == adds \ expect
      old == {f \in expect : f[2] \notin Many /\ \E g \in new : <<g[1], g[2]>> = <<f[1], f[2]>>}
  IN ((expect \ old) \cup new) \ rets

Requested(ops, kind, t) ==
  {<<EidOf(ops, ops[i], t), ops[i].a, ValueOf(ops, ops[i])>> :
     i \in {j \in DOMAIN ops : ops[j].k = kind}}

Submitted(ops) ==
  /\ wr.pc = "idle"
  /\ Room(Cardinality(FreshTids(ops)))
  /\ \A i \in DOMAIN ops : \A s \in {ops[i].e, ops[i].v} : s.k = "eid" => Known(UserEid(s.n))

\* The whole of TransactTx up to the first write.
Transact(ops) ==
  /\ Submitted(ops)
  /\ \A i \in DOMAIN ops : ~Rejected(ops, ops[i])
  /\ LET t == nextSeq.tx
         fresh == {Resolved(ops, n) : n \in FreshTids(ops)}
         cache == HydrateEmpty(hyd, fresh)
     IN /\ hyd' = cache
        /\ Begin(t, Cardinality(fresh),
                 <<SaveBatchEdn(ops, cache, t)>> \o RetractBatch(ops, t),
                 ops, [i \in DOMAIN ops |-> EidOf(ops, ops[i], t)])
        /\ expect' = Expected(Requested(ops, "add", t), Requested(ops, "ret", t))
  /\ UNCHANGED resaved

\* A failed transaction has used up its ids, and nothing else.
TransactFails(ops) ==
  /\ Submitted(ops)
  /\ \E i \in DOMAIN ops : Rejected(ops, ops[i])
  /\ hyd' = HydrateEmpty(hyd, {Resolved(ops, n) : n \in FreshTids(ops)})
  /\ nextSeq' = [tx |-> nextSeq.tx + 1, user |-> nextSeq.user + Cardinality(FreshTids(ops))]
  /\ UNCHANGED <<journal, datoms, anchors, wr, rd, expect, intent, raced, resaved, restarts>>

\* Scheme programs: AllocateTx writes the transaction entity as a batch of its
\* own, then the program runs.
ExecSave(e, a, v) ==
  /\ wr.pc = "idle" /\ Room(0) /\ Known(e)
  /\ resaved' = IF a \notin Many /\ <<a, v>> \in ScanActive(hyd, e) THEN resaved \cup {e}
                ELSE resaved
  /\ Begin(nextSeq.tx, 0,
           <<TxInstantEntry(nextSeq.tx), SaveInto(hyd, e, a, v, nextSeq.tx)>>, <<>>, <<>>)
  /\ expect' = Expected({<<e, a, v>>}, {})
  /\ UNCHANGED hyd

ExecRetract(e, a, v) ==
  /\ wr.pc = "idle" /\ Room(0) /\ Known(e)
  /\ Begin(nextSeq.tx, 0,
           <<TxInstantEntry(nextSeq.tx), <<Datom(e, a, v, nextSeq.tx, "ret")>>>>, <<>>, <<>>)
  /\ expect' = Expected({}, {<<e, a, v>>})
  /\ UNCHANGED <<hyd, resaved>>

\* get-or-create-entity: LookupEntity hydrates what it finds.
ExecFound(a, v) ==
  /\ wr.pc = "idle" /\ Room(0) /\ a \in Unique
  /\ Lookup(a, v) # NoEid
  /\ LET keys == StoreActive(datoms, Lookup(a, v))
     IN hyd' \in IF keys = {} THEN {hyd} ELSE Hydrated(hyd, Lookup(a, v), keys)
  /\ Begin(nextSeq.tx, 0, <<TxInstantEntry(nextSeq.tx)>>, <<>>, <<>>)
  /\ UNCHANGED <<expect, resaved>>

ExecCreate(a, v) ==
  /\ wr.pc = "idle" /\ Room(1) /\ a \in Unique
  /\ Lookup(a, v) = NoEid
  /\ LET e == UserEid(nextSeq.user)
         cache == HydrateEmpty(hyd, {e})
     IN /\ hyd' = cache
        /\ Begin(nextSeq.tx, 1,
                 <<TxInstantEntry(nextSeq.tx), SaveInto(cache, e, a, v, nextSeq.tx)>>, <<>>, <<>>)
        /\ expect' = Expected({<<e, a, v>>}, {})
  /\ UNCHANGED resaved

-----------------------------------------------------------------------------
(* Engine.BatchWrite, one batch after the other.                           *)

Batch == Head(wr.todo)
Touches(batch, e) == \E d \in ToSet(batch) : d.e = e
Overlapped == IF rd.pc = "scanned" /\ Touches(Batch, rd.e) THEN {rd.e} ELSE {}

\* Mutant: only the assertions of a batch are given to the log.
JournalAdds ==
  /\ wr.pc = "journal"
  /\ anchors' \in Anchored(Batch)
  /\ journal' = journal \cup {d \in ToSet(Batch) : d.op = "add"}
  /\ wr' = [wr EXCEPT !.pc = "apply"]
  /\ UNCHANGED <<datoms, hyd, nextSeq, rd, expect, intent, raced, resaved, restarts>>

\* The anchors are mirrored, then the batch is given to the log (JournalOnly).
Journal ==
  /\ wr.pc = "journal"
  /\ anchors' \in Anchored(Batch)
  /\ journal' = journal \cup ToSet(Batch)
  /\ wr' = [wr EXCEPT !.pc = "apply"]
  /\ UNCHANGED <<datoms, hyd, nextSeq, rd, expect, intent, raced, resaved, restarts>>

ApplyKeys ==
  /\ wr.pc = "apply"
  /\ hyd' = FoldLeft(ApplyKey, hyd, Batch)
  /\ raced' = raced \cup Overlapped
  /\ wr' = [wr EXCEPT !.pc = "insert"]
  /\ UNCHANGED <<journal, datoms, anchors, nextSeq, rd, expect, intent, resaved, restarts>>

\* Mutant: the batch stays in the queue.
InsertKeep ==
  /\ wr.pc = "insert"
  /\ datoms' = datoms \cup ToSet(Batch)
  /\ raced' = raced \cup Overlapped
  /\ wr' = [wr EXCEPT !.pc = "idle"]
  /\ UNCHANGED <<journal, anchors, hyd, nextSeq, rd, expect, intent, resaved, restarts>>

\* KV.BatchWrite: the keys of every index become visible.
Insert ==
  /\ wr.pc = "insert"
  /\ datoms' = datoms \cup ToSet(Batch)
  /\ raced' = raced \cup Overlapped
  /\ wr' = IF Len(wr.todo) = 1 THEN Idle
           ELSE [wr EXCEPT !.pc = "journal", !.todo = Tail(wr.todo)]
  /\ UNCHANGED <<journal, anchors, hyd, nextSeq, rd, expect, intent, resaved, restarts>>

-----------------------------------------------------------------------------
(* Queries, without the lock: HydrateEID in two steps.                     *)

QueryScan(e) ==
  /\ rd.pc = "idle"
  /\ e \notin DOMAIN hyd
  /\ StoreActive(datoms, e) # {}
  /\ rd' = [pc |-> "scanned", e |-> e, keys |-> StoreActive(datoms, e)]
  /\ UNCHANGED <<journal, datoms, anchors, hyd, nextSeq, wr, expect, intent, raced, resaved, restarts>>

QueryInstall ==
  /\ rd.pc = "scanned"
  /\ hyd' \in Hydrated(hyd, rd.e, rd.keys)
  /\ raced' = raced \cup IF wr.pc = "insert" /\ Touches(Batch, rd.e) THEN {rd.e} ELSE {}
  /\ rd' = NoQuery
  /\ UNCHANGED <<journal, datoms, anchors, nextSeq, wr, expect, intent, resaved, restarts>>

-----------------------------------------------------------------------------
(* Recovery: what was given to the log is replayed.                        *)

\* RecoverWriteState: an anchor for every assertion ever made of a unique
\* value, the last one in key order.
RecoveredAnchors ==
  LET adds == {d \in journal : d.a \in Unique /\ d.op = "add"}
      all == [f \in {<<d.a, d.v>> : d \in adds} |->
                Max({d.e : d \in {x \in adds : <<x.a, x.v>> = f}})]
  IN IF Cardinality(DOMAIN all) <= MaxAnchors THEN {all}
     ELSE {Restrict(all, K) : K \in {S \in SUBSET DOMAIN all : Cardinality(S) <= MaxAnchors}}

\* Mutant: the walk stops at the first entity of each partition.
SeedFirst ==
  LET has(part) == {d.e : d \in {x \in journal : x.op = "add"}} \cap part
  IN [tx |-> IF has(TxEids) = {} THEN 1 ELSE Min(has(TxEids)) + 1,
      user |-> IF has(UserEids) = {} THEN 1 ELSE Min(has(UserEids)) + 1 - MaxTx]

\* SeedPartitionCounters walks CF-0 in key order, past every transaction
\* entity, and stops at the first key of the last partition.
SeedPartitionCounters ==
  LET has(part) == {d.e : d \in {x \in journal : x.op = "add"}} \cap part
  IN [tx |-> IF has(TxEids) = {} THEN 1 ELSE Max(has(TxEids)) + 1,
      user |-> IF has(UserEids) = {} THEN 1 ELSE Min(has(UserEids)) + 1 - MaxTx]

\* The process ends at any point and starts again.
Restart ==
  /\ restarts < MaxRestarts
  /\ restarts' = restarts + 1
  /\ datoms' = journal
  /\ anchors' \in RecoveredAnchors
  /\ hyd' = [e \in {} |-> {}]
  /\ nextSeq' = SeedPartitionCounters
  /\ wr' = Idle
  /\ rd' = NoQuery
  /\ expect' = UNION {{<<e, f[1], f[2]>> : f \in StoreActive(journal, e)} :
                        e \in TxEids \cup UserEids}
  /\ raced' = {} /\ resaved' = {}
  /\ UNCHANGED <<journal, intent>>

-----------------------------------------------------------------------------
Init ==
  /\ journal = {} /\ datoms = {}
  /\ anchors = [f \in {} |-> NoEid]
  /\ hyd = [e \in {} |-> {}]
  /\ nextSeq = [tx |-> 1, user |-> 1]
  /\ wr = Idle /\ rd = NoQuery
  /\ expect = {} /\ raced = {} /\ resaved = {} /\ restarts = 0
  /\ intent = [t \in {} |-> <<>>]

Next ==
  \/ \E ops \in TxData : Transact(ops) \/ TransactFails(ops)
  \/ \E f \in ExecFacts :
       \/ \E e \in UserEids : ExecSave(e, f[1], f[2]) \/ ExecRetract(e, f[1], f[2])
       \/ ExecFound(f[1], f[2])
       \/ ExecCreate(f[1], f[2])
  \/ Journal
  \/ ApplyKeys
  \/ Insert
  \/ \E e \in UserEids : QueryScan(e)
  \/ QueryInstall
  \/ Restart

Spec == Init /\ [][Next]_vars
-----------------------------------------------------------------------------
(* Properties.                                                             *)

Facts == (Attrs \cup {TxInstant}) \X AnyValue

TypeOK ==
  /\ \A d \in journal : /\ d.e \in TxEids \cup UserEids /\ <<d.a, d.v>> \in Facts
                        /\ d.t \in 1 .. MaxTx /\ d.op \in {"add", "ret"}
  /\ datoms \subseteq journal
  /\ \A f \in DOMAIN anchors : f \in Facts /\ anchors[f] \in TxEids \cup UserEids
  /\ \A e \in DOMAIN hyd : e \in TxEids \cup UserEids /\ hyd[e] \subseteq Facts
  /\ nextSeq.tx \in 1 .. MaxTx + 1 /\ nextSeq.user \in 1 .. MaxUser + 1
  /\ wr.pc \in {"idle", "journal", "apply", "insert"}
  /\ wr.pc = "idle" <=> wr.todo = <<>>
  /\ rd.pc \in {"idle", "scanned"} /\ rd.keys \subseteq Facts
  /\ raced \subseteq UserEids /\ resaved \subseteq UserEids
  /\ restarts \in 0 .. MaxRestarts

\* The counter of the transaction partition is past every t in the log, also
\* after recovery: the newest version of a fact is the one written last.
TxIdsFresh == wr.pc = "idle" => \A d \in journal : d.t < nextSeq.tx

\* What the log holds of a transaction is a prefix of its batches, whatever
\* was cut short, and no other transaction carries its t.
JournalHoldsPrefix ==
  \A t \in DOMAIN intent :
    \E n \in 0 .. Len(intent[t]) :
      {d \in journal : d.t = t} = UNION {ToSet(intent[t][i]) : i \in 1 .. n}

\* Between transactions the active facts are those the protocol describes: an
\* assertion already present changes nothing, a new value of a
\* cardinality-one attribute replaces the old, retractions win
\* (docs/tx-protocol.md, section 4).  Up to the first restart, except for
\* entities whose hydration overlapped a write and for those a program saved
\* again: the retraction of the value and its assertion then carry one t.
StoreAsDocumented ==
  wr.pc = "idle" /\ restarts = 0 =>
    \A e \in (TxEids \cup UserEids) \ (raced \cup resaved) :
      {f \in StoreActive(datoms, e) : f[1] # TxInstant}
        = {<<f[2], f[3]>> : f \in {x \in expect : x[1] = e}}

\* Between transactions a lookup by unique value answers an entity that has
\* it, and misses only when none has: the anchor index is a "write-through
\* mirror" of CF-2 (anchor.go).  Up to the first restart,
\* except for entities a program saved again.
LookupExact ==
  wr.pc = "idle" /\ restarts = 0 =>
    \A a \in Unique, v \in Values :
      \/ Lookup(a, v) \in Holders(a, v) \cup resaved
      \/ Holders(a, v) = {} /\ Lookup(a, v) = NoEid

\* Between transactions "a hydrated eid has its COMPLETE set of active CF-0
\* datom keys in memory" (hydrated.go), through evictions and rejections.  Up
\* to the first restart, with the exceptions of StoreAsDocumented.
HydratedComplete ==
  wr.pc = "idle" /\ restarts = 0 =>
    \A e \in DOMAIN hyd \ (raced \cup resaved) : hyd[e] = StoreActive(datoms, e)

\* A tempid stands for an existing entity only if that entity has a unique
\* value the transaction asserts of the tempid, and a lookup ref stands for
\* the entity that has the value (docs/tx-protocol.md, sections 5.1 and 5.3).  Up to the
\* first restart, except for entities a program saved again.
SlotsResolve ==
  wr.pc = "journal" /\ restarts = 0 /\ wr.todo = intent[wr.t] =>
    \A i \in {j \in DOMAIN wr.ops : wr.es[j] \notin resaved} :
      LET slot == wr.ops[i].e
          has == StoreActive(datoms, wr.es[i])
      IN /\ slot.k = "ref" => <<slot.a, slot.v>> \in has
         /\ slot.k = "tid" /\ has # {} =>
              \E j \in DOMAIN wr.ops :
                LET op == wr.ops[j]
                IN op.k = "add" /\ op.e = slot /\ op.a \in Unique /\ op.v.k = "val"
                   /\ <<op.a, op.v.v>> \in has

\* An entity id that is handed out has no datoms: recovery "walks CF-0 to
\* advance partition counters" past those in use.
AllocatedAreNew ==
  [][restarts' = restarts =>
       \A e \in UserEids : UserEid(nextSeq.user) <= e /\ e < UserEid(nextSeq'.user)
                             => ~\E d \in datoms : d.e = e]_vars
=============================================================================
