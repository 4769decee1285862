--------------------------- MODULE Entities_proofs --------------------------
(***************************************************************************)
(* Theorems about Entities, for every schema, set of transactions, number  *)
(* of entities and budget of the caches.                                   *)
(***************************************************************************)
EXTENDS Entities, SequenceFacts, SequenceTheorems

Eids == TxEids \cup UserEids
Datoms == [e : Eids, a : Attrs \cup {TxInstant}, v : AnyValue, t : 1 .. MaxTx, op : {"add", "ret"}]
FactSets == {K \in SUBSET Facts : IsFiniteSet(K)}
Caches == UNION {[S -> FactSets] : S \in SUBSET Eids}
Indexes == UNION {[K -> Eids] : K \in SUBSET Facts}

TypeInv ==
  /\ journal \in SUBSET Datoms /\ IsFiniteSet(journal) /\ datoms \subseteq journal
  /\ anchors \in Indexes /\ hyd \in Caches
  /\ nextSeq \in [tx : 1 .. MaxTx + 1, user : 1 .. MaxUser + 1]
  /\ wr \in [pc : {"idle", "journal", "apply", "insert"}, t : 0 .. MaxTx,
             todo : Seq(Seq(Datoms)), ops : TxData \cup {<<>>}, es : Seq(Eids)]
  /\ wr.pc = "idle" <=> wr.todo = <<>>
  /\ rd \in [pc : {"idle", "scanned"}, e : UserEids \cup {NoEid}, keys : FactSets]
  /\ rd.pc = "scanned" => rd.e \in UserEids
  /\ raced \subseteq UserEids /\ resaved \subseteq UserEids
  /\ restarts \in 0 .. MaxRestarts

\* The datom keys transaction t may write.
Stamped(t) == {d \in Datoms : d.t = t}

\* The batches of every transaction carry its t, and the first has the
\* assertion of the transaction entity.
IntentInv ==
  /\ DOMAIN intent \subseteq 1 .. MaxTx
  /\ \A t \in DOMAIN intent :
       /\ intent[t] \in Seq(Seq(Stamped(t))) /\ intent[t] # <<>>
       /\ \E d \in ToSet(intent[t][1]) : d.e = TxEid(t) /\ d.op = "add"

\* Every t in the log is below the counter and has its transaction entity
\* there, from which recovery sees it.
StampInv ==
  /\ \A d \in journal : d.t < nextSeq.tx
  /\ \A d \in journal : \E x \in journal : x.e = TxEid(d.t) /\ x.op = "add"

\* The first n batches of transaction t are what the log holds of it.
Logged(t, n) == {d \in journal : d.t = t} = UNION {ToSet(intent[t][i]) : i \in 1 .. n}

\* The transaction under the lock has the newest t, and its first k batches
\* are done or, the k-th, in progress.
WriteInv ==
  wr.pc # "idle" =>
    /\ wr.t \in DOMAIN intent /\ nextSeq.tx = wr.t + 1
    /\ \E k \in 1 .. Len(intent[wr.t]) :
         /\ Len(wr.todo) = Len(intent[wr.t]) - k + 1
         /\ \A i \in 1 .. Len(wr.todo) : wr.todo[i] = intent[wr.t][i + k - 1]
         /\ Logged(wr.t, IF wr.pc = "journal" THEN k - 1 ELSE k)

EntitiesInv == TypeInv /\ IntentInv /\ StampInv /\ WriteInv /\ JournalHoldsPrefix
-----------------------------------------------------------------------------
(* Finite sets of facts.                                                   *)

\* Ids and bounds are natural numbers.
LEMMA Numbers ==
  /\ MaxTx \in Nat /\ MaxUser \in Nat /\ MaxRestarts \in Nat
  /\ Eids = 1 .. MaxTx + MaxUser /\ Eids \subseteq Nat /\ NoEid \notin Eids
  /\ \A n \in Int : UserEid(n) \in UserEids <=> n \in 1 .. MaxUser
  /\ UserEids \subseteq Eids /\ TxEids \subseteq Eids
BY EntityBounds DEF Eids, TxEids, UserEids, UserEid, NoEid

\* The pairs of finitely many keys are finitely many.
LEMMA PairsFinite ==
  ASSUME NEW K, IsFiniteSet(K)
  PROVE  IsFiniteSet({<<d.a, d.v>> : d \in K})
<1> DEFINE T == {<<d.a, d.v>> : d \in K}
           f == [d \in K |-> <<d.a, d.v>>]
<1>1. f \in Surjection(K, T)
  BY DEF Surjection
<1> QED
  BY <1>1, FS_Surjection

\* ScanPrefixActive finds finitely many facts.
LEMMA StoreActiveType ==
  ASSUME NEW keys \in SUBSET Datoms, IsFiniteSet(keys), NEW e
  PROVE  StoreActive(keys, e) \in FactSets
<1> DEFINE mine == {d \in keys : d.e = e}
           newest == {d \in mine : \A n \in mine : n.a = d.a /\ n.v = d.v => Suffix(n) <= Suffix(d)}
           adds == {n \in newest : n.op = "add"}
<1>1. StoreActive(keys, e) = {<<d.a, d.v>> : d \in adds}
  BY DEF StoreActive
<1>2. adds \in SUBSET keys
  OBVIOUS
<1> HIDE DEF adds
<1>3. IsFiniteSet({<<d.a, d.v>> : d \in adds})
  BY <1>2, FS_Subset, PairsFinite
<1>4. \A d \in adds : <<d.a, d.v>> \in Facts
  BY <1>2 DEF Datoms, Facts
<1> QED
  BY <1>1, <1>3, <1>4 DEF FactSets

\* Nothing outside its domain, and only sets of facts, are in a cache.
LEMMA CacheType ==
  ASSUME NEW cache \in Caches
  PROVE  /\ DOMAIN cache \subseteq Eids /\ \A e \in DOMAIN cache : cache[e] \in FactSets
         /\ cache = [e \in DOMAIN cache |-> cache[e]]
BY DEF Caches

\* A function on entities to sets of facts is a cache.
LEMMA IsCache ==
  ASSUME NEW S \in SUBSET Eids, NEW f \in [S -> FactSets]
  PROVE  f \in Caches
BY DEF Caches

\* A scan, from memory or from the store, finds finitely many facts.
LEMMA ScanActiveType ==
  ASSUME TypeInv, NEW cache \in Caches, NEW e
  PROVE  ScanActive(cache, e) \in FactSets
<1>1. datoms \in SUBSET Datoms /\ IsFiniteSet(datoms)
  BY FS_Subset DEF TypeInv
<1> QED
  BY <1>1, StoreActiveType, CacheType DEF ScanActive

\* A lookup answers an entity or NoEid.
LEMMA LookupType ==
  ASSUME TypeInv, NEW a, NEW v
  PROVE  Lookup(a, v) \in Eids \cup {NoEid}
<1>1. CASE <<a, v>> \in DOMAIN anchors
  BY <1>1 DEF Lookup, TypeInv, Indexes
<1>2. CASE <<a, v>> \notin DOMAIN anchors
  <2>1. Holders(a, v) \subseteq Eids
    BY DEF Holders, TypeInv, Datoms
  <2>2. Holders(a, v) # {} => Min(Holders(a, v)) \in Holders(a, v)
    BY <2>1, Numbers, MinLeast
  <2> QED
    BY <1>2, <2>1, <2>2 DEF Lookup
<1> QED
  BY <1>1, <1>2

\* The lookup an op owns.
LEMMA ResultType ==
  ASSUME TypeInv, NEW op
  PROVE  Result(op) \in Eids \cup {NoEid}
BY LookupType DEF Result
-----------------------------------------------------------------------------
(* The slots of a transaction.                                             *)

\* A transaction that is handed to the apply pass: every op passes its checks.
Accepted(ops) ==
  /\ ops \in TxData /\ Submitted(ops)
  /\ \A i \in DOMAIN ops : ~Rejected(ops, ops[i])

\* A transaction is a finite sequence of ops.
LEMMA RequestShape ==
  ASSUME NEW ops \in TxData
  PROVE  /\ Len(ops) \in Nat /\ DOMAIN ops = 1 .. Len(ops) /\ IsFiniteSet(DOMAIN ops)
         /\ \A i \in DOMAIN ops :
              /\ ops[i].k \in {"add", "ret"}
              /\ ops[i].e.k \in {"ref", "tx"} \/ ops[i].e \in TidSlots \cup EidSlots
              /\ \/ ops[i].v.k = "ref" \/ ops[i].v \in TidSlots \cup EidSlots
                 \/ ops[i].v.k = "val" /\ ops[i].v.v \in Values
<1>1. Len(ops) \in Nat /\ DOMAIN ops = 1 .. Len(ops)
  BY EntityRequests
<1>2. IsFiniteSet(DOMAIN ops)
  BY <1>1, FS_Interval
<1> QED
  BY <1>1, <1>2, EntityRequests

\* A transaction has finitely many tempids, each with a first use.
LEMMA TidsFinite ==
  ASSUME NEW ops \in TxData
  PROVE  /\ IsFiniteSet(Tids(ops)) /\ IsFiniteSet(FreshTids(ops))
         /\ \A n \in Tids(ops) : FirstUse(ops, n) \in Nat
<1> DEFINE Used == {j \in DOMAIN ops : ops[j].e.k = "tid"}
           f == [i \in Used |-> ops[i].e.n]
<1>1. Used \in SUBSET DOMAIN ops /\ IsFiniteSet(Used)
  BY RequestShape, FS_Subset
<1>2. f \in Surjection(Used, Tids(ops))
  BY DEF Surjection, Tids
<1>3. IsFiniteSet(Tids(ops))
  BY <1>1, <1>2, FS_Surjection
<1>4. IsFiniteSet(FreshTids(ops))
  BY <1>3, FS_Subset DEF FreshTids
<1>5. ASSUME NEW n \in Tids(ops) PROVE FirstUse(ops, n) \in Nat
  <2> DEFINE U == {i \in DOMAIN ops : ops[i].e = Tid(n)}
  <2>1. PICK i \in DOMAIN ops : ops[i].e.k = "tid" /\ ops[i].e.n = n
    BY DEF Tids
  <2>2. ops[i].e \in TidSlots
    BY <2>1, RequestShape DEF EidSlots, TidSlots
  <2>3. ops[i].e = Tid(n)
    BY <2>1, <2>2 DEF TidSlots, Tid
  <2>4. U # {} /\ U \in SUBSET Nat
    BY <2>3, RequestShape
  <2>5. Min(U) \in U
    BY <2>4, MinLeast
  <2> QED
    BY <2>4, <2>5 DEF FirstUse
<1> QED
  BY <1>3, <1>4, <1>5

\* anchorEid: a tempid stands for an entity, a fresh one for a new user entity.
LEMMA ResolvedType ==
  ASSUME TypeInv, NEW ops \in TxData, Submitted(ops), NEW n \in Tids(ops)
  PROVE  /\ Resolved(ops, n) \in Eids
         /\ n \in FreshTids(ops) => Resolved(ops, n) \in UserEids
<1>1. CASE n \notin FreshTids(ops)
  <2>1. Upserted(ops, n) \in Eids \cup {NoEid}
    BY ResultType DEF Upserted
  <2> QED
    BY <1>1, <2>1 DEF Resolved, FreshTids
<1>2. CASE n \in FreshTids(ops)
  <2> DEFINE F == FreshTids(ops)
             B == {m \in F : FirstUse(ops, m) < FirstUse(ops, n)}
  <2>1. IsFiniteSet(F) /\ Cardinality(F) \in Nat
    BY TidsFinite, FS_CardinalityType
  <2>2. n \in F /\ n \notin B
    BY <1>2, TidsFinite
  <2>3. B \in SUBSET (F \ {n})
    BY <2>2
  <2>4. IsFiniteSet(F \ {n}) /\ Cardinality(F \ {n}) = Cardinality(F) - 1
    BY <2>1, <2>2, FS_RemoveElement
  <2>5. IsFiniteSet(B) /\ Cardinality(B) <= Cardinality(F) - 1 /\ Cardinality(B) \in Nat
    BY <2>3, <2>4, FS_Subset, FS_CardinalityType
  <2>6. nextSeq.user \in 1 .. MaxUser + 1 /\ nextSeq.user + Cardinality(F) - 1 <= MaxUser
    BY DEF Submitted, Room, TypeInv
  <2>7. Resolved(ops, n) = UserEid(nextSeq.user + Cardinality(B))
    BY <1>2 DEF Resolved
  <2>8. nextSeq.user + Cardinality(B) \in 1 .. MaxUser
    BY <2>1, <2>5, <2>6, Numbers
  <2>9. Resolved(ops, n) \in UserEids
    BY <2>7, <2>8, EntityBounds DEF UserEid, UserEids
  <2> QED
    BY <2>9, Numbers
<1> QED
  BY <1>1, <1>2

\* A known entity that is named by number is a user entity.
LEMMA KnownIsUser ==
  ASSUME TypeInv, NEW n \in Nat \ {0}, Known(UserEid(n))
  PROVE  UserEid(n) \in UserEids
<1>1. nextSeq.user \in 1 .. MaxUser + 1
  BY DEF TypeInv
<1>2. CASE UserEid(n) < UserEid(nextSeq.user)
  BY <1>1, <1>2, Numbers DEF UserEid
<1>3. CASE \E d \in datoms : d.e = UserEid(n)
  <2>1. UserEid(n) \in Eids
    BY <1>3 DEF TypeInv, Datoms
  <2> QED
    BY <2>1, Numbers DEF UserEid
<1> QED
  BY <1>2, <1>3 DEF Known

\* The entity and the value an accepted op stands for.
LEMMA SlotTypes ==
  ASSUME TypeInv, NEW ops, Accepted(ops), NEW i \in DOMAIN ops, NEW t \in 1 .. MaxTx
  PROVE  EidOf(ops, ops[i], t) \in Eids /\ ValueOf(ops, ops[i]) \in AnyValue
<1>1. ops \in TxData /\ Submitted(ops) /\ ~Rejected(ops, ops[i])
  BY DEF Accepted
<1>2. \A s \in {ops[i].e, ops[i].v} : s \in EidSlots => UserEid(s.n) \in UserEids
  BY <1>1, KnownIsUser DEF Submitted, EidSlots
<1>3. \A s \in {ops[i].e, ops[i].v} : s.k = "ref" => Result(ops[i]) \in Eids
  BY <1>1, ResultType DEF Rejected
<1>4. EidOf(ops, ops[i], t) \in Eids
  <2>1. CASE ops[i].e.k = "tid"
    <3>1. ops[i].e.n \in Tids(ops)
      BY <2>1 DEF Tids
    <3> QED
      BY <1>1, <2>1, <3>1, ResolvedType DEF EidOf
  <2>2. CASE ops[i].e.k = "eid"
    <3>1. ops[i].e \in EidSlots
      BY <1>1, <2>2, RequestShape DEF TidSlots
    <3> QED
      BY <1>2, <2>2, <3>1, Numbers DEF EidOf
  <2>3. CASE ops[i].e.k = "ref"
    BY <1>3, <2>3 DEF EidOf
  <2>4. CASE ops[i].e.k \notin {"tid", "eid", "ref"}
    BY <2>4, Numbers DEF EidOf, TxEid, TxEids
  <2> QED
    BY <2>1, <2>2, <2>3, <2>4
<1>5. ValueOf(ops, ops[i]) \in AnyValue
  <2>1. CASE ops[i].v.k = "tid"
    <3>1. ops[i].v.n \in Tids(ops)
      BY <1>1, <2>1 DEF Rejected
    <3>2. ValueOf(ops, ops[i]) \in Eids
      BY <1>1, <2>1, <3>1, ResolvedType DEF ValueOf
    <3> QED
      BY <3>2 DEF AnyValue, Eids
  <2>2. CASE ops[i].v.k = "eid"
    <3>1. ops[i].v \in EidSlots
      BY <1>1, <2>2, RequestShape DEF TidSlots
    <3> QED
      BY <1>2, <2>2, <3>1 DEF ValueOf, AnyValue
  <2>3. CASE ops[i].v.k = "ref"
    BY <1>3, <2>3 DEF ValueOf, AnyValue, Eids
  <2>4. CASE ops[i].v.k \notin {"tid", "eid", "ref"}
    <3>1. ops[i].v.v \in Values
      BY <1>1, <2>4, RequestShape DEF TidSlots, EidSlots
    <3> QED
      BY <2>4, <3>1 DEF ValueOf, AnyValue
  <2> QED
    BY <2>1, <2>2, <2>3, <2>4
<1> QED
  BY <1>4, <1>5
-----------------------------------------------------------------------------
(* The batches of a transaction.                                           *)

\* A key of transaction t.
LEMMA DatomStamped ==
  ASSUME NEW e \in Eids, NEW a \in Attrs \cup {TxInstant}, NEW v \in AnyValue,
         NEW t \in 1 .. MaxTx, NEW op \in {"add", "ret"}
  PROVE  Datom(e, a, v, t, op) \in Stamped(t)
BY DEF Datom, Stamped, Datoms

\* saveResolvedEncodedInto: keys of the transaction, the assertion among them.
LEMMA SaveIntoType ==
  ASSUME TypeInv, NEW cache \in Caches, NEW e \in Eids, NEW a \in Attrs, NEW v \in AnyValue,
         NEW t \in 1 .. MaxTx
  PROVE  SaveInto(cache, e, a, v, t) \in Seq(Stamped(t))
<1> DEFINE old == IF a \in Many THEN {} ELSE {f \in ScanActive(cache, e) : f[1] = a}
           D == {Datom(e, a, f[2], t, "ret") : f \in old}
           g == [f \in old |-> Datom(e, a, f[2], t, "ret")]
<1>1. ScanActive(cache, e) \in FactSets
  BY ScanActiveType
<1>2. old \in SUBSET ScanActive(cache, e) /\ IsFiniteSet(old)
  <2>1. old \in SUBSET ScanActive(cache, e)
    OBVIOUS
  <2> HIDE DEF old
  <2> QED
    BY <1>1, <2>1, FS_Subset DEF FactSets
<1>3. \A f \in old : f[2] \in AnyValue
  BY <1>1, <1>2 DEF FactSets, Facts
<1>4. SaveInto(cache, e, a, v, t) = SetToSeq(D) \o <<Datom(e, a, v, t, "add")>>
  BY DEF SaveInto
<1> HIDE DEF old
<1>5. g \in Surjection(old, D)
  BY DEF Surjection
<1>6. IsFiniteSet(D)
  BY <1>2, <1>5, FS_Surjection
<1>7. D \subseteq Stamped(t)
  BY <1>3, DatomStamped
<1> HIDE DEF D
<1>8. SetToSeq(D) \in Seq(Stamped(t))
  <2>1. SetToSeq(D) \in Seq(D)
    BY <1>6, SetToSeqElements
  <2> QED
    BY <1>7, <2>1
<1>9. <<Datom(e, a, v, t, "add")>> \in Seq(Stamped(t))
  BY DatomStamped
<1> QED
  BY <1>4, <1>8, <1>9

\* The assertion of the transaction entity.
LEMMA TxInstantType ==
  ASSUME NEW t \in 1 .. MaxTx
  PROVE  /\ TxInstantEntry(t) \in Seq(Stamped(t)) /\ TxInstantEntry(t) # <<>>
         /\ \E d \in ToSet(TxInstantEntry(t)) : d.e = TxEid(t) /\ d.op = "add"
<1> DEFINE x == Datom(TxEid(t), TxInstant, NoValue, t, "add")
<1>1. x \in Stamped(t) /\ x.e = TxEid(t) /\ x.op = "add"
  <2>1. TxEid(t) \in Eids
    BY DEF TxEid, Eids, TxEids
  <2> QED
    BY <2>1, DatomStamped DEF AnyValue, Datom
<1>2. TxInstantEntry(t) = <<x>>
  BY DEF TxInstantEntry
<1> HIDE DEF x
<1> QED
  BY <1>1, <1>2 DEF ToSet

\* SaveBatchEdn begins with the transaction entity.
LEMMA SaveBatchType ==
  ASSUME TypeInv, NEW ops, Accepted(ops), NEW cache \in Caches, NEW t \in 1 .. MaxTx
  PROVE  /\ SaveBatchEdn(ops, cache, t) \in Seq(Stamped(t))
         /\ \E d \in ToSet(SaveBatchEdn(ops, cache, t)) : d.e = TxEid(t) /\ d.op = "add"
<1> DEFINE Part(op) == IF op.k = "add" /\ ~HasDatomW(cache, EidOf(ops, op, t), op.a, ValueOf(ops, op))
                       THEN SaveInto(cache, EidOf(ops, op, t), op.a, ValueOf(ops, op), t) ELSE <<>>
           parts == [i \in DOMAIN ops |-> Part(ops[i])]
<1>1. ops \in TxData
  BY DEF Accepted
<1>2. SaveBatchEdn(ops, cache, t) = TxInstantEntry(t) \o FlattenSeq(parts)
  BY DEF SaveBatchEdn
<1>3. ASSUME NEW i \in DOMAIN ops PROVE Part(ops[i]) \in Seq(Stamped(t))
  <2>1. CASE ops[i].k = "add"
    <3>1. ops[i].a \in Attrs
      BY <2>1 DEF Accepted, Rejected
    <3>2. SaveInto(cache, EidOf(ops, ops[i], t), ops[i].a, ValueOf(ops, ops[i]), t) \in Seq(Stamped(t))
      BY <3>1, SlotTypes, SaveIntoType
    <3> QED
      BY <3>2
  <2>2. CASE ops[i].k # "add"
    BY <2>2
  <2> QED
    BY <2>1, <2>2
<1> HIDE DEF Part
<1>4. parts \in Seq(Seq(Stamped(t)))
  BY <1>1, <1>3, RequestShape
<1> HIDE DEF parts
<1>5. FlattenSeq(parts) \in Seq(Stamped(t))
  BY <1>4, FlattenElements
<1>6. TxInstantEntry(t) \in Seq(Stamped(t))
  BY TxInstantType
<1>7. ToSet(TxInstantEntry(t)) \subseteq ToSet(SaveBatchEdn(ops, cache, t))
  BY <1>2, <1>5, <1>6, ConcatElements
<1>8. SaveBatchEdn(ops, cache, t) \in Seq(Stamped(t))
  BY <1>2, <1>5, <1>6
<1> QED
  BY <1>7, <1>8, TxInstantType

\* RetractBatch is no batch or one.
LEMMA RetractBatchType ==
  ASSUME TypeInv, NEW ops, Accepted(ops), NEW t \in 1 .. MaxTx
  PROVE  RetractBatch(ops, t) \in Seq(Seq(Stamped(t)))
<1> DEFINE Part(op) == IF op.k = "ret" /\ op.a \in Attrs
                       THEN <<Datom(EidOf(ops, op, t), op.a, ValueOf(ops, op), t, "ret")>> ELSE <<>>
           parts == [i \in DOMAIN ops |-> Part(ops[i])]
<1>1. ops \in TxData
  BY DEF Accepted
<1>2. RetractBatch(ops, t) = IF FlattenSeq(parts) = <<>> THEN <<>> ELSE <<FlattenSeq(parts)>>
  BY DEF RetractBatch
<1>3. ASSUME NEW i \in DOMAIN ops PROVE Part(ops[i]) \in Seq(Stamped(t))
  <2>1. CASE ops[i].a \in Attrs
    <3>1. Datom(EidOf(ops, ops[i], t), ops[i].a, ValueOf(ops, ops[i]), t, "ret") \in Stamped(t)
      BY <2>1, SlotTypes, DatomStamped
    <3> QED
      BY <3>1
  <2>2. CASE ops[i].a \notin Attrs
    BY <2>2
  <2> QED
    BY <2>1, <2>2
<1> HIDE DEF Part
<1>4. parts \in Seq(Seq(Stamped(t)))
  BY <1>1, <1>3, RequestShape
<1> HIDE DEF parts
<1>5. FlattenSeq(parts) \in Seq(Stamped(t))
  BY <1>4, FlattenElements
<1> QED
  BY <1>2, <1>5
-----------------------------------------------------------------------------
(* The caches.                                                             *)

\* One key given to the hydrated set.
LEMMA ApplyKeyType ==
  ASSUME NEW cache \in Caches, NEW d \in Datoms
  PROVE  ApplyKey(cache, d) \in Caches /\ DOMAIN ApplyKey(cache, d) = DOMAIN cache
<1>1. DOMAIN cache \in SUBSET Eids /\ (\A e \in DOMAIN cache : cache[e] \in FactSets)
  BY CacheType
<1>2. CASE d.e \notin DOMAIN cache
  BY <1>2 DEF ApplyKey
<1>3. CASE d.e \in DOMAIN cache
  <2>1. <<d.a, d.v>> \in Facts
    BY DEF Datoms, Facts
  <2>2. cache[d.e] \cup {<<d.a, d.v>>} \in FactSets
    BY <1>1, <1>3, <2>1, FS_AddElement DEF FactSets
  <2>3. cache[d.e] \ {<<d.a, d.v>>} \in FactSets
    BY <1>1, <1>3, FS_RemoveElement DEF FactSets
  <2> DEFINE K == IF d.op = "add" THEN cache[d.e] \cup {<<d.a, d.v>>} ELSE cache[d.e] \ {<<d.a, d.v>>}
  <2>4. ApplyKey(cache, d) = [cache EXCEPT ![d.e] = K]
    BY <1>3 DEF ApplyKey
  <2>5. K \in FactSets
    BY <2>2, <2>3
  <2> HIDE DEF K
  <2>6. [cache EXCEPT ![d.e] = K] \in [DOMAIN cache -> FactSets]
    BY <1>1, <2>5, CacheType
  <2> QED
    BY <1>1, <2>4, <2>6, IsCache
<1> QED
  BY <1>2, <1>3

\* The caches between the keys of a batch.
Applies(h, cache, batch) ==
  /\ h \in [0 .. Len(batch) -> Caches] /\ h[0] = cache
  /\ \A i \in 1 .. Len(batch) : h[i] = ApplyKey(h[i - 1], batch[i])

\* Hyd.ApplyKey for a batch is one key after the other.
LEMMA ApplyFold ==
  ASSUME NEW cache \in Caches, NEW batch \in Seq(Datoms)
  PROVE  \E h : Applies(h, cache, batch) /\ FoldLeft(ApplyKey, cache, batch) = h[Len(batch)]
<1> DEFINE F == [p \in Caches \X Datoms |-> ApplyKey(p[1], p[2])]
           n == Len(batch)
           Rec(g) == g = [s \in SUBSET (DOMAIN batch) |->
                           IF s = {} THEN cache ELSE ApplyKey(g[s \ {Max(s)}], batch[Max(s)])]
<1>1. F \in [Caches \X Datoms -> Caches]
  <2>1. \A p \in Caches \X Datoms : ApplyKey(p[1], p[2]) \in Caches
    BY ApplyKeyType
  <2> QED
    BY <2>1
<1>2. \A c \in Caches, d \in Datoms : F[<<c, d>>] = ApplyKey(c, d)
  OBVIOUS
<1>3. DOMAIN batch = 1 .. n /\ n \in Nat
  OBVIOUS
<1>4. FoldLeft(ApplyKey, cache, batch) = (CHOOSE g : Rec(g))[DOMAIN batch]
  BY DEF FoldLeft, MapThenFoldSet
<1> HIDE DEF F
<1>5. \E g : Rec(g)
  <2>1. PICK g \in [SUBSET (1 .. n) -> Caches] : FoldsSets(g, F, cache, batch, n)
    BY <1>1, FoldSetsExists
  <2>2. ASSUME NEW s \in SUBSET (1 .. n)
        PROVE  g[s] = IF s = {} THEN cache ELSE ApplyKey(g[s \ {Max(s)}], batch[Max(s)])
    <3>1. g[s] = IF s = {} THEN cache ELSE F[<<g[s \ {Max(s)}], batch[Max(s)]>>]
      BY <2>1 DEF FoldsSets
    <3>2. s # {} => g[s \ {Max(s)}] \in Caches /\ batch[Max(s)] \in Datoms
      BY <1>3, <2>1, MaxIsIndex
    <3> QED
      BY <1>2, <3>1, <3>2
  <2> QED
    BY <1>3, <2>1, <2>2
<1>6. PICK g : Rec(g) /\ FoldLeft(ApplyKey, cache, batch) = g[1 .. n]
  <2>1. Rec(CHOOSE g : Rec(g))
    BY <1>5, Zenon
  <2> QED
    BY <1>3, <1>4, <2>1, Zenon
<1> DEFINE h == [i \in 0 .. n |-> g[1 .. i]]
<1>7. h[0] = cache
  <2>1. h[0] = g[{}] /\ {} \in SUBSET (1 .. n)
    BY <1>3
  <2> QED
    BY <1>3, <1>6, <2>1
<1>8. ASSUME NEW i \in 1 .. n PROVE h[i] = ApplyKey(h[i - 1], batch[i])
  <2>1. 1 .. i \in SUBSET (1 .. n) /\ 1 .. i # {} /\ i \in Nat \ {0}
    BY <1>3
  <2>2. g[1 .. i] = ApplyKey(g[(1 .. i) \ {Max(1 .. i)}], batch[Max(1 .. i)])
    BY <1>3, <1>6, <2>1
  <2>3. h[i] = g[1 .. i] /\ h[i - 1] = g[1 .. i - 1]
    BY <1>3
  <2> QED
    BY <2>1, <2>2, <2>3, LastIndex
<1>9. h[n] = g[1 .. n]
  BY <1>3
<1> HIDE DEF h
<1>10. \A i \in 0 .. n : h[i] \in Caches
  <2> DEFINE T == {i \in 0 .. n : h[i] \in Caches}
  <2>1. 0 \in T
    BY <1>3, <1>7
  <2>2. ASSUME NEW i \in 1 .. n, i - 1 \in T PROVE i \in T
    BY <1>3, <1>8, <2>2, ApplyKeyType
  <2> HIDE DEF T
  <2>3. \A i \in 0 .. n : i \in T
    BY <1>3, <2>1, <2>2, Induct
  <2> QED
    BY <2>3 DEF T
<1>11. h \in [0 .. n -> Caches]
  BY <1>10 DEF h
<1>12. Applies(h, cache, batch)
  BY <1>7, <1>8, <1>11 DEF Applies
<1> QED
  BY <1>6, <1>9, <1>12

\* One key mirrored in the anchors.
LEMMA MirrorType ==
  ASSUME NEW index \in Indexes, NEW d \in Datoms
  PROVE  Mirror(index, d) \in Indexes
<1>1. DOMAIN index \in SUBSET Facts /\ (\A f \in DOMAIN index : index[f] \in Eids)
  BY DEF Indexes
<1>2. <<d.a, d.v>> \in Facts /\ d.e \in Eids
  BY DEF Datoms, Facts
<1>3. Install(index, <<d.a, d.v>>, d.e) \in [DOMAIN index \cup {<<d.a, d.v>>} -> Eids]
  BY <1>1, <1>2 DEF Install
<1>4. Restrict(index, DOMAIN index \ {<<d.a, d.v>>}) \in [DOMAIN index \ {<<d.a, d.v>>} -> Eids]
  BY <1>1 DEF Restrict
<1>5. DOMAIN index \cup {<<d.a, d.v>>} \in SUBSET Facts /\ DOMAIN index \ {<<d.a, d.v>>} \in SUBSET Facts
  BY <1>1, <1>2
<1> QED
  BY <1>3, <1>4, <1>5 DEF Mirror, Indexes

\* The index between the keys of a batch.
Mirrors(h, index, batch) ==
  /\ h \in [0 .. Len(batch) -> Indexes] /\ h[0] = index
  /\ \A i \in 1 .. Len(batch) : h[i] = Mirror(h[i - 1], batch[i])

\* Anchors.Put and Del for a batch are one key after the other.
LEMMA MirrorFold ==
  ASSUME NEW index \in Indexes, NEW batch \in Seq(Datoms)
  PROVE  \E h : Mirrors(h, index, batch) /\ FoldLeft(Mirror, index, batch) = h[Len(batch)]
<1> DEFINE F == [p \in Indexes \X Datoms |-> Mirror(p[1], p[2])]
           n == Len(batch)
           Rec(g) == g = [s \in SUBSET (DOMAIN batch) |->
                           IF s = {} THEN index ELSE Mirror(g[s \ {Max(s)}], batch[Max(s)])]
<1>1. F \in [Indexes \X Datoms -> Indexes]
  <2>1. \A p \in Indexes \X Datoms : Mirror(p[1], p[2]) \in Indexes
    BY MirrorType
  <2> QED
    BY <2>1
<1>2. \A c \in Indexes, d \in Datoms : F[<<c, d>>] = Mirror(c, d)
  OBVIOUS
<1>3. DOMAIN batch = 1 .. n /\ n \in Nat
  OBVIOUS
<1>4. FoldLeft(Mirror, index, batch) = (CHOOSE g : Rec(g))[DOMAIN batch]
  BY DEF FoldLeft, MapThenFoldSet
<1> HIDE DEF F
<1>5. \E g : Rec(g)
  <2>1. PICK g \in [SUBSET (1 .. n) -> Indexes] : FoldsSets(g, F, index, batch, n)
    BY <1>1, FoldSetsExists
  <2>2. ASSUME NEW s \in SUBSET (1 .. n)
        PROVE  g[s] = IF s = {} THEN index ELSE Mirror(g[s \ {Max(s)}], batch[Max(s)])
    <3>1. g[s] = IF s = {} THEN index ELSE F[<<g[s \ {Max(s)}], batch[Max(s)]>>]
      BY <2>1 DEF FoldsSets
    <3>2. s # {} => g[s \ {Max(s)}] \in Indexes /\ batch[Max(s)] \in Datoms
      BY <1>3, <2>1, MaxIsIndex
    <3> QED
      BY <1>2, <3>1, <3>2
  <2> QED
    BY <1>3, <2>1, <2>2
<1>6. PICK g : Rec(g) /\ FoldLeft(Mirror, index, batch) = g[1 .. n]
  <2>1. Rec(CHOOSE g : Rec(g))
    BY <1>5, Zenon
  <2> QED
    BY <1>3, <1>4, <2>1, Zenon
<1> DEFINE h == [i \in 0 .. n |-> g[1 .. i]]
<1>7. h[0] = index
  <2>1. h[0] = g[{}] /\ {} \in SUBSET (1 .. n)
    BY <1>3
  <2> QED
    BY <1>3, <1>6, <2>1
<1>8. ASSUME NEW i \in 1 .. n PROVE h[i] = Mirror(h[i - 1], batch[i])
  <2>1. 1 .. i \in SUBSET (1 .. n) /\ 1 .. i # {} /\ i \in Nat \ {0}
    BY <1>3
  <2>2. g[1 .. i] = Mirror(g[(1 .. i) \ {Max(1 .. i)}], batch[Max(1 .. i)])
    BY <1>3, <1>6, <2>1
  <2>3. h[i] = g[1 .. i] /\ h[i - 1] = g[1 .. i - 1]
    BY <1>3
  <2> QED
    BY <2>1, <2>2, <2>3, LastIndex
<1>9. h[n] = g[1 .. n]
  BY <1>3
<1> HIDE DEF h
<1>10. \A i \in 0 .. n : h[i] \in Indexes
  <2> DEFINE T == {i \in 0 .. n : h[i] \in Indexes}
  <2>1. 0 \in T
    BY <1>3, <1>7
  <2>2. ASSUME NEW i \in 1 .. n, i - 1 \in T PROVE i \in T
    BY <1>3, <1>8, <2>2, MirrorType
  <2> HIDE DEF T
  <2>3. \A i \in 0 .. n : i \in T
    BY <1>3, <2>1, <2>2, Induct
  <2> QED
    BY <2>3 DEF T
<1>11. h \in [0 .. n -> Indexes]
  BY <1>10 DEF h
<1>12. Mirrors(h, index, batch)
  BY <1>7, <1>8, <1>11 DEF Mirrors
<1> QED
  BY <1>6, <1>9, <1>12

\* What is left of an index is an index.
LEMMA RestrictIndex ==
  ASSUME NEW index \in Indexes, NEW K \in SUBSET DOMAIN index
  PROVE  Restrict(index, K) \in Indexes
<1>1. DOMAIN index \in SUBSET Facts /\ (\A f \in DOMAIN index : index[f] \in Eids)
  BY DEF Indexes
<1>2. Restrict(index, K) \in [K -> Eids] /\ K \in SUBSET Facts
  BY <1>1 DEF Restrict
<1> QED
  BY <1>2 DEF Indexes

\* The anchors after a batch, and after an eviction.
LEMMA AnchoredType ==
  ASSUME TypeInv, NEW batch \in Seq(Datoms)
  PROVE  Anchored(batch) \subseteq Indexes
<1> DEFINE all == FoldLeft(Mirror, anchors, batch)
<1>1. all \in Indexes
  <2>1. anchors \in Indexes /\ Len(batch) \in Nat
    BY DEF TypeInv
  <2>2. PICK h : Mirrors(h, anchors, batch) /\ all = h[Len(batch)]
    BY <2>1, MirrorFold
  <2> HIDE DEF all
  <2> QED
    BY <2>1, <2>2 DEF Mirrors
<1> HIDE DEF all
<1>2. \A K \in SUBSET DOMAIN all : Restrict(all, K) \in Indexes
  BY <1>1, RestrictIndex
<1> QED
  BY <1>1, <1>2 DEF Anchored, all

\* Recovered anchors name the greatest entity that ever had the value.
LEMMA RecoveredType ==
  ASSUME TypeInv
  PROVE  RecoveredAnchors \subseteq Indexes
<1> DEFINE adds == {d \in journal : d.a \in Unique /\ d.op = "add"}
           keys == {<<d.a, d.v>> : d \in adds}
           of(f) == {d.e : d \in {x \in adds : <<x.a, x.v>> = f}}
           all == [f \in keys |-> Max(of(f))]
<1>1. adds \subseteq Datoms
  BY DEF TypeInv
<1>2. keys \subseteq Facts
  BY <1>1 DEF Datoms, Facts
<1>3. ASSUME NEW f \in keys PROVE Max(of(f)) \in Eids
  <2>1. of(f) # {} /\ of(f) \subseteq Eids
    BY <1>1 DEF Datoms
  <2> HIDE DEF of
  <2> DEFINE b == MaxTx + MaxUser
             S == of(f)
  <2>2. b \in Nat /\ S \in SUBSET Nat /\ S # {} /\ \A x \in S : x <= b
    BY <2>1, Numbers
  <2> HIDE DEF b, S
  <2>3. Max(S) \in S
    BY <2>2, MaxGreatest
  <2> USE DEF S
  <2> QED
    BY <2>1, <2>3
<1>4. RecoveredAnchors =
        IF Cardinality(DOMAIN all) <= MaxAnchors THEN {all}
        ELSE {Restrict(all, K) : K \in {S \in SUBSET DOMAIN all : Cardinality(S) <= MaxAnchors}}
  BY DEF RecoveredAnchors
<1>5. all \in Indexes
  <2>1. all \in [keys -> Eids]
    BY <1>3
  <2> HIDE DEF all, keys
  <2> QED
    BY <1>2, <2>1 DEF Indexes
<1> HIDE DEF all
<1>6. \A K \in SUBSET DOMAIN all : Restrict(all, K) \in Indexes
  BY <1>5, RestrictIndex
<1> QED
  BY <1>4, <1>5, <1>6

\* Hyd.HydrateEmpty.
LEMMA HydrateEmptyType ==
  ASSUME NEW cache \in Caches, NEW es \in SUBSET Eids
  PROVE  HydrateEmpty(cache, es) \in Caches
<1>1. DOMAIN cache \in SUBSET Eids /\ (\A e \in DOMAIN cache : cache[e] \in FactSets)
  BY CacheType
<1>2. {} \in FactSets
  BY FS_EmptySet DEF FactSets
<1>3. HydrateEmpty(cache, es) \in [DOMAIN cache \cup es -> FactSets]
  BY <1>1, <1>2 DEF HydrateEmpty
<1> QED
  BY <1>1, <1>3, IsCache

\* Hyd.Hydrate, with its evictions.
LEMMA HydratedType ==
  ASSUME NEW cache \in Caches, NEW e \in Eids, NEW keys \in FactSets
  PROVE  Hydrated(cache, e, keys) \subseteq Caches
<1>1. DOMAIN cache \in SUBSET Eids /\ (\A x \in DOMAIN cache : cache[x] \in FactSets)
  BY CacheType
<1>2. ASSUME NEW c \in Caches PROVE Install(c, e, keys) \in Caches
  <2>1. DOMAIN c \in SUBSET Eids /\ (\A x \in DOMAIN c : c[x] \in FactSets)
    BY CacheType
  <2>2. Install(c, e, keys) \in [DOMAIN c \cup {e} -> FactSets]
    BY <2>1 DEF Install
  <2> QED
    BY <2>1, <2>2, IsCache
<1>3. ASSUME NEW K \in SUBSET DOMAIN cache PROVE Restrict(cache, K) \in Caches
  <2>1. Restrict(cache, K) \in [K -> FactSets]
    BY <1>1 DEF Restrict
  <2> QED
    BY <1>1, <2>1, IsCache
<1> QED
  BY <1>2, <1>3 DEF Hydrated

\* The hydrated set after a batch.
LEMMA AppliedType ==
  ASSUME NEW cache \in Caches, NEW batch \in Seq(Datoms)
  PROVE  FoldLeft(ApplyKey, cache, batch) \in Caches
<1>1. PICK h : Applies(h, cache, batch) /\ FoldLeft(ApplyKey, cache, batch) = h[Len(batch)]
  BY ApplyFold
<1>2. Len(batch) \in 0 .. Len(batch)
  OBVIOUS
<1> QED
  BY <1>1, <1>2 DEF Applies
-----------------------------------------------------------------------------
(* The steps.                                                              *)

\* The log and what is to be written to it are as before.
SameWrites == UNCHANGED <<journal, wr, intent>>

\* Steps that write nothing keep what is said of the log.
LEMMA QuietStep ==
  ASSUME EntitiesInv, SameWrites, nextSeq'.tx \in Int, nextSeq'.tx >= nextSeq.tx,
         wr.pc # "idle" => nextSeq' = nextSeq
  PROVE  IntentInv' /\ StampInv' /\ WriteInv' /\ JournalHoldsPrefix'
<1>1. nextSeq.tx \in Int /\ \A d \in journal : d.t \in Int
  BY DEF EntitiesInv, TypeInv, Datoms
<1>2. IntentInv'
  BY DEF EntitiesInv, IntentInv, SameWrites
<1>3. StampInv'
  BY <1>1 DEF EntitiesInv, StampInv, SameWrites
<1>4. WriteInv'
  BY DEF EntitiesInv, WriteInv, SameWrites, Logged
<1>5. JournalHoldsPrefix'
  BY DEF EntitiesInv, JournalHoldsPrefix, SameWrites
<1> QED
  BY <1>2, <1>3, <1>4, <1>5

\* The batch in progress is one of its transaction's.
LEMMA BatchType ==
  ASSUME EntitiesInv, wr.pc # "idle"
  PROVE  /\ wr.todo \in Seq(Seq(Datoms)) /\ wr.todo # <<>> /\ Batch = wr.todo[1]
         /\ Batch \in Seq(Datoms) /\ ToSet(Batch) \subseteq Datoms /\ IsFiniteSet(ToSet(Batch))
<1>1. wr.todo \in Seq(Seq(Datoms)) /\ wr.todo # <<>>
  BY DEF EntitiesInv, TypeInv
<1>2. Batch = wr.todo[1] /\ Batch \in Seq(Datoms)
  BY <1>1 DEF Batch
<1> DEFINE b == Batch
<1>3. b \in Seq(Datoms) /\ IsFiniteSet(DOMAIN b)
  <2>1. Len(b) \in Nat /\ DOMAIN b = 1 .. Len(b)
    BY <1>2
  <2>2. IsFiniteSet(1 .. Len(b))
    BY <2>1, FS_Interval
  <2> QED
    BY <1>2, <2>1, <2>2
<1> HIDE DEF b
<1>4. b \in Surjection(DOMAIN b, ToSet(b))
  BY <1>3 DEF Surjection, ToSet
<1>5. IsFiniteSet(ToSet(b)) /\ ToSet(b) \subseteq Datoms
  <2>1. IsFiniteSet(ToSet(b))
    BY <1>3, <1>4, FS_Surjection
  <2>2. ToSet(b) \subseteq Datoms
    BY <1>3 DEF ToSet
  <2> QED
    BY <2>1, <2>2
<1> QED
  BY <1>1, <1>2, <1>5 DEF b

\* A transaction begins: its t is new to the log.
LEMMA BeginStep ==
  ASSUME EntitiesInv, wr.pc = "idle", NEW t \in 1 .. MaxTx, t = nextSeq.tx,
         NEW fresh, nextSeq.user + fresh \in 1 .. MaxUser + 1,
         NEW batches \in Seq(Seq(Stamped(t))), batches # <<>>,
         \E d \in ToSet(batches[1]) : d.e = TxEid(t) /\ d.op = "add",
         NEW ops \in TxData \cup {<<>>}, NEW es \in Seq(Eids),
         Begin(t, fresh, batches, ops, es),
         hyd' \in Caches, resaved' \subseteq UserEids
  PROVE  EntitiesInv'
<1>1. /\ nextSeq' = [tx |-> t + 1, user |-> nextSeq.user + fresh]
      /\ wr' = [pc |-> "journal", t |-> t, todo |-> batches, ops |-> ops, es |-> es]
      /\ intent' = [i \in DOMAIN intent \cup {t} |-> IF i = t THEN batches ELSE intent[i]]
      /\ UNCHANGED <<journal, datoms, anchors, rd, raced, restarts>>
  BY DEF Begin
<1>2. t \in 1 .. MaxTx /\ MaxTx \in Nat /\ \A d \in journal : d.t \in Int
  BY Numbers DEF EntitiesInv, TypeInv, Datoms
<1>3. batches \in Seq(Seq(Datoms))
  BY DEF Stamped
<1>4. TypeInv'
  <2>1. /\ wr' \in [pc : {"idle", "journal", "apply", "insert"}, t : 0 .. MaxTx,
                    todo : Seq(Seq(Datoms)), ops : TxData \cup {<<>>}, es : Seq(Eids)]
        /\ wr'.pc # "idle" /\ wr'.todo # <<>>
    BY <1>1, <1>2, <1>3
  <2>2. nextSeq' \in [tx : 1 .. MaxTx + 1, user : 1 .. MaxUser + 1]
    BY <1>1, <1>2
  <2> QED
    BY <1>1, <2>1, <2>2 DEF EntitiesInv, TypeInv
<1>5. IntentInv'
  BY <1>1, <1>2 DEF EntitiesInv, IntentInv
<1>6. \A d \in journal : d.t < t
  BY DEF EntitiesInv, StampInv
<1>7. StampInv'
  BY <1>1, <1>2, <1>6 DEF EntitiesInv, StampInv
<1>8. {d \in journal' : d.t = t} = {}
  BY <1>1, <1>2, <1>6
<1>9. intent'[t] = batches /\ Len(batches) \in Nat \ {0} /\ t \in DOMAIN intent'
  BY <1>1
<1>10. Logged(t, 0)'
  BY <1>8 DEF Logged
<1>11. WriteInv'
  <2>1. wr'.pc = "journal" /\ wr'.t = t /\ wr'.todo = batches /\ nextSeq'.tx = t + 1
    BY <1>1
  <2>2. /\ 1 \in 1 .. Len(batches) /\ Len(batches) = Len(batches) - 1 + 1
        /\ \A i \in 1 .. Len(batches) : batches[i] = batches[i + 1 - 1]
    BY <1>9
  <2>3. 1 - 1 = 0
    OBVIOUS
  <2> QED
    BY <1>9, <1>10, <2>1, <2>2, <2>3 DEF WriteInv
<1>12. JournalHoldsPrefix'
  <2> SUFFICES ASSUME NEW u \in DOMAIN intent'
               PROVE  \E n \in 0 .. Len(intent'[u]) : Logged(u, n)'
    BY DEF JournalHoldsPrefix, Logged
  <2>1. CASE u = t
    BY <1>9, <1>10, <2>1
  <2>2. CASE u # t
    <3>1. u \in DOMAIN intent /\ intent'[u] = intent[u] /\ journal' = journal
      BY <1>1, <2>2
    <3>2. PICK n \in 0 .. Len(intent[u]) : Logged(u, n)
      BY <3>1 DEF EntitiesInv, JournalHoldsPrefix, Logged
    <3>3. Logged(u, n)'
      BY <3>1, <3>2 DEF Logged
    <3> QED
      BY <3>1, <3>2, <3>3
  <2> QED
    BY <2>1, <2>2
<1> QED
  BY <1>4, <1>5, <1>7, <1>11, <1>12 DEF EntitiesInv

\* A transaction of two or one batches, by TransactTx.
LEMMA TransactStep ==
  ASSUME EntitiesInv, NEW ops \in TxData, Transact(ops)
  PROVE  EntitiesInv'
<1> USE DEF EntitiesInv
<1>1. Accepted(ops) /\ wr.pc = "idle"
  BY DEF Transact, Accepted, Submitted
<1>2. PICK t \in 1 .. MaxTx : t = nextSeq.tx
  BY Numbers DEF Transact, Submitted, Room, TypeInv
<1> DEFINE F == FreshTids(ops)
           fresh == {Resolved(ops, n) : n \in F}
           cache == HydrateEmpty(hyd, fresh)
           batches == <<SaveBatchEdn(ops, cache, t)>> \o RetractBatch(ops, t)
           es == [i \in DOMAIN ops |-> EidOf(ops, ops[i], t)]
<1>3. IsFiniteSet(F) /\ Cardinality(F) \in Nat
  BY TidsFinite, FS_CardinalityType
<1>4. fresh \in SUBSET UserEids
  BY <1>1, ResolvedType DEF Accepted, FreshTids
<1>5. IsFiniteSet(fresh) /\ Cardinality(fresh) <= Cardinality(F) /\ Cardinality(fresh) \in Nat
  <2> DEFINE f == [n \in F |-> Resolved(ops, n)]
  <2>1. f \in Surjection(F, fresh)
    BY DEF Surjection
  <2> HIDE DEF F, f, fresh
  <2> QED
    BY <1>3, <2>1, FS_Surjection, FS_CardinalityType
<1>6. nextSeq.user + Cardinality(fresh) \in 1 .. MaxUser + 1
  <2>1. nextSeq.user \in 1 .. MaxUser + 1 /\ nextSeq.user + Cardinality(F) - 1 <= MaxUser
    BY <1>1 DEF Accepted, Submitted, Room, TypeInv
  <2> HIDE DEF F, fresh
  <2> QED
    BY <1>3, <1>5, <2>1, Numbers
<1>7. cache \in Caches
  BY <1>4, Numbers, HydrateEmptyType DEF TypeInv
<1>8. es \in Seq(Eids)
  <2>1. Len(ops) \in Nat /\ DOMAIN ops = 1 .. Len(ops)
    BY RequestShape
  <2>2. \A i \in DOMAIN ops : EidOf(ops, ops[i], t) \in Eids
    BY <1>1, SlotTypes
  <2> QED
    BY <2>1, <2>2
<1>9. hyd' = cache /\ Begin(t, Cardinality(fresh), batches, ops, es) /\ UNCHANGED resaved
  BY <1>2 DEF Transact
<1> HIDE DEF F, fresh, cache, es
<1>10. /\ SaveBatchEdn(ops, cache, t) \in Seq(Stamped(t)) /\ RetractBatch(ops, t) \in Seq(Seq(Stamped(t)))
       /\ \E d \in ToSet(SaveBatchEdn(ops, cache, t)) : d.e = TxEid(t) /\ d.op = "add"
  BY <1>1, <1>7, SaveBatchType, RetractBatchType
<1>11. /\ batches \in Seq(Seq(Stamped(t))) /\ batches # <<>>
       /\ batches[1] = SaveBatchEdn(ops, cache, t)
  BY <1>10
<1> HIDE DEF batches
<1>12. hyd' \in Caches /\ resaved' \subseteq UserEids
  BY <1>7, <1>9 DEF TypeInv
<1> QED
  BY <1>1, <1>2, <1>6, <1>8, <1>9, <1>10, <1>11, <1>12, BeginStep

\* A rejected transaction only spends ids.
LEMMA TransactFailsStep ==
  ASSUME EntitiesInv, NEW ops \in TxData, TransactFails(ops)
  PROVE  EntitiesInv'
<1> USE DEF EntitiesInv
<1> DEFINE F == FreshTids(ops)
<1>1. IsFiniteSet(F) /\ Cardinality(F) \in Nat
  BY TidsFinite, FS_CardinalityType
<1>2. /\ nextSeq' = [tx |-> nextSeq.tx + 1, user |-> nextSeq.user + Cardinality(F)]
      /\ hyd' = HydrateEmpty(hyd, {Resolved(ops, n) : n \in F})
      /\ UNCHANGED <<journal, datoms, anchors, wr, rd, expect, intent, raced, resaved, restarts>>
      /\ Submitted(ops) /\ wr.pc = "idle"
  BY DEF TransactFails, Submitted
<1>3. {Resolved(ops, n) : n \in F} \in SUBSET Eids
  BY <1>2, ResolvedType DEF FreshTids
<1>4. hyd' \in Caches
  BY <1>2, <1>3, HydrateEmptyType DEF TypeInv
<1>5. nextSeq.tx \in 1 .. MaxTx /\ nextSeq.user \in 1 .. MaxUser + 1
      /\ nextSeq.user + Cardinality(F) - 1 <= MaxUser
  BY <1>2, Numbers DEF Submitted, Room, TypeInv
<1> HIDE DEF F
<1>6. nextSeq' \in [tx : 1 .. MaxTx + 1, user : 1 .. MaxUser + 1]
  <2>1. nextSeq.tx + 1 \in 1 .. MaxTx + 1 /\ nextSeq.user + Cardinality(F) \in 1 .. MaxUser + 1
    <3>1. PICK c \in Nat : c = Cardinality(F)
      BY <1>1
    <3>2. MaxTx \in Nat /\ MaxUser \in Nat
      BY Numbers
    <3> QED
      BY <1>5, <3>1, <3>2
  <2> QED
    BY <1>2, <2>1
<1>7. TypeInv'
  BY <1>2, <1>4, <1>6 DEF TypeInv
<1>8. nextSeq'.tx \in Int /\ nextSeq'.tx >= nextSeq.tx
  BY <1>2, <1>5
<1> QED
  BY <1>2, <1>7, <1>8, QuietStep DEF SameWrites

\* The writes of Scheme programs: the transaction entity is a batch of its own.
LEMMA ExecStep ==
  ASSUME EntitiesInv, NEW f \in ExecFacts,
         \/ \E e \in UserEids : ExecSave(e, f[1], f[2]) \/ ExecRetract(e, f[1], f[2])
         \/ ExecFound(f[1], f[2]) \/ ExecCreate(f[1], f[2])
  PROVE  EntitiesInv'
<1> USE DEF EntitiesInv
<1>1. wr.pc = "idle" /\ Room(0)
  <2>1. wr.pc = "idle" /\ (Room(0) \/ Room(1))
    BY DEF ExecSave, ExecRetract, ExecFound, ExecCreate
  <2>2. nextSeq.user \in Int /\ MaxUser \in Int
    BY Numbers DEF TypeInv
  <2> QED
    BY <2>1, <2>2 DEF Room
<1>2. PICK t \in 1 .. MaxTx : t = nextSeq.tx
  BY <1>1, Numbers DEF Room, TypeInv
<1>3. f[1] \in Attrs /\ f[2] \in AnyValue
  BY EntitySchema DEF AnyValue
<1>4. nextSeq.user \in 1 .. MaxUser + 1 /\ MaxUser \in Nat /\ hyd \in Caches
  BY Numbers DEF TypeInv
<1>5. /\ TxInstantEntry(t) \in Seq(Stamped(t))
      /\ \E d \in ToSet(TxInstantEntry(t)) : d.e = TxEid(t) /\ d.op = "add"
  BY TxInstantType
<1>6. <<>> \in TxData \cup {<<>>} /\ <<>> \in Seq(Eids)
  OBVIOUS
<1>7. ASSUME NEW b \in Seq(Stamped(t)), NEW n \in {0, 1}, nextSeq.user + n \in 1 .. MaxUser + 1,
             Begin(t, n, <<TxInstantEntry(t), b>>, <<>>, <<>>),
             hyd' \in Caches, resaved' \subseteq UserEids
      PROVE  EntitiesInv'
  <2> DEFINE batches == <<TxInstantEntry(t), b>>
  <2>1. batches \in Seq(Seq(Stamped(t))) /\ batches # <<>> /\ batches[1] = TxInstantEntry(t)
    BY <1>5
  <2>2. Begin(t, n, batches, <<>>, <<>>)
    BY <1>7
  <2> HIDE DEF batches
  <2> QED
    BY <1>1, <1>2, <1>5, <1>6, <1>7, <2>1, <2>2, BeginStep
<1>8. ASSUME NEW e \in UserEids, ExecSave(e, f[1], f[2]) PROVE EntitiesInv'
  <2>1. SaveInto(hyd, e, f[1], f[2], t) \in Seq(Stamped(t))
    BY <1>3, <1>4, Numbers, SaveIntoType
  <2>2. /\ Begin(t, 0, <<TxInstantEntry(t), SaveInto(hyd, e, f[1], f[2], t)>>, <<>>, <<>>)
        /\ hyd' = hyd /\ resaved' \subseteq resaved \cup {e}
    BY <1>2, <1>8 DEF ExecSave
  <2>3. hyd' \in Caches /\ resaved' \subseteq UserEids
    BY <1>4, <2>2 DEF TypeInv
  <2> QED
    BY <1>4, <1>7, <2>1, <2>2, <2>3
<1>9. ASSUME NEW e \in UserEids, ExecRetract(e, f[1], f[2]) PROVE EntitiesInv'
  <2>1. <<Datom(e, f[1], f[2], t, "ret")>> \in Seq(Stamped(t))
    BY <1>3, Numbers, DatomStamped
  <2>2. /\ Begin(t, 0, <<TxInstantEntry(t), <<Datom(e, f[1], f[2], t, "ret")>>>>, <<>>, <<>>)
        /\ UNCHANGED <<hyd, resaved>>
    BY <1>2, <1>9 DEF ExecRetract
  <2>3. hyd' \in Caches /\ resaved' \subseteq UserEids
    BY <1>4, <2>2 DEF TypeInv
  <2> DEFINE b == <<Datom(e, f[1], f[2], t, "ret")>>
  <2>4. b \in Seq(Stamped(t)) /\ Begin(t, 0, <<TxInstantEntry(t), b>>, <<>>, <<>>)
    BY <2>1, <2>2
  <2> HIDE DEF b
  <2> QED
    BY <1>4, <1>7, <2>3, <2>4
<1>10. ASSUME ExecFound(f[1], f[2]) PROVE EntitiesInv'
  <2> DEFINE e == Lookup(f[1], f[2])
             keys == StoreActive(datoms, e)
  <2>1. e \in Eids
    BY <1>10, LookupType DEF ExecFound
  <2>2. keys \in FactSets
    BY StoreActiveType, FS_Subset DEF TypeInv
  <2>3. /\ hyd' \in IF keys = {} THEN {hyd} ELSE Hydrated(hyd, e, keys)
        /\ Begin(t, 0, <<TxInstantEntry(t)>>, <<>>, <<>>) /\ UNCHANGED resaved
    BY <1>2, <1>10 DEF ExecFound
  <2>4. hyd' \in Caches /\ resaved' \subseteq UserEids
    BY <1>4, <2>1, <2>2, <2>3, HydratedType DEF TypeInv
  <2> DEFINE batches == <<TxInstantEntry(t)>>
  <2>5. batches \in Seq(Seq(Stamped(t))) /\ batches # <<>> /\ batches[1] = TxInstantEntry(t)
    BY <1>5
  <2>6. Begin(t, 0, batches, <<>>, <<>>) /\ nextSeq.user + 0 \in 1 .. MaxUser + 1
    BY <1>4, <2>3
  <2> HIDE DEF batches
  <2> QED
    BY <1>1, <1>2, <1>5, <1>6, <2>4, <2>5, <2>6, BeginStep
<1>11. ASSUME ExecCreate(f[1], f[2]) PROVE EntitiesInv'
  <2> DEFINE e == UserEid(nextSeq.user)
             cache == HydrateEmpty(hyd, {e})
  <2>1. nextSeq.user \in 1 .. MaxUser
    BY <1>4, <1>11 DEF ExecCreate, Room
  <2>2. e \in Eids
    BY <2>1, Numbers DEF UserEid
  <2>3. cache \in Caches
    BY <1>4, <2>2, HydrateEmptyType
  <2>4. /\ hyd' = cache /\ UNCHANGED resaved
        /\ Begin(t, 1, <<TxInstantEntry(t), SaveInto(cache, e, f[1], f[2], t)>>, <<>>, <<>>)
    BY <1>2, <1>11 DEF ExecCreate
  <2> HIDE DEF e, cache
  <2>5. SaveInto(cache, e, f[1], f[2], t) \in Seq(Stamped(t))
    BY <1>3, <2>2, <2>3, SaveIntoType
  <2>6. hyd' \in Caches /\ resaved' \subseteq UserEids /\ nextSeq.user + 1 \in 1 .. MaxUser + 1
    BY <1>4, <2>1, <2>3, <2>4 DEF TypeInv
  <2> QED
    BY <1>7, <2>4, <2>5, <2>6
<1> QED
  BY <1>8, <1>9, <1>10, <1>11

\* Steps that leave the log, the intents and the counters alone.
LEMMA SameLog ==
  ASSUME EntitiesInv, UNCHANGED <<journal, intent, nextSeq>>
  PROVE  IntentInv' /\ StampInv' /\ JournalHoldsPrefix'
<1>1. IntentInv'
  BY DEF EntitiesInv, IntentInv
<1>2. StampInv'
  BY DEF EntitiesInv, StampInv
<1>3. JournalHoldsPrefix'
  BY DEF EntitiesInv, JournalHoldsPrefix
<1> QED
  BY <1>1, <1>2, <1>3

\* The log takes the next batch of the transaction under the lock.
LEMMA JournalStep ==
  ASSUME EntitiesInv, Journal
  PROVE  EntitiesInv'
<1> USE DEF EntitiesInv
<1>1. /\ wr.pc = "journal" /\ anchors' \in Anchored(Batch) /\ journal' = journal \cup ToSet(Batch)
      /\ wr' = [wr EXCEPT !.pc = "apply"]
      /\ UNCHANGED <<datoms, hyd, nextSeq, rd, expect, intent, raced, resaved, restarts>>
  BY DEF Journal
<1>2. /\ wr.todo \in Seq(Seq(Datoms)) /\ wr.todo # <<>> /\ Batch = wr.todo[1]
      /\ Batch \in Seq(Datoms) /\ ToSet(Batch) \subseteq Datoms /\ IsFiniteSet(ToSet(Batch))
  BY <1>1, BatchType
<1>3. /\ wr'.pc = "apply" /\ wr'.t = wr.t /\ wr'.todo = wr.todo
      /\ wr' \in [pc : {"idle", "journal", "apply", "insert"}, t : 0 .. MaxTx,
                  todo : Seq(Seq(Datoms)), ops : TxData \cup {<<>>}, es : Seq(Eids)]
  BY <1>1 DEF TypeInv
<1>4. TypeInv'
  <2>1. anchors' \in Indexes
    BY <1>1, <1>2, AnchoredType
  <2>2. journal' \in SUBSET Datoms /\ IsFiniteSet(journal') /\ datoms' \subseteq journal'
    BY <1>1, <1>2, FS_Union DEF TypeInv
  <2> QED
    BY <1>1, <1>2, <1>3, <2>1, <2>2 DEF TypeInv
<1>5. PICK t \in DOMAIN intent : t = wr.t
  BY <1>1 DEF WriteInv
<1>6. PICK k \in 1 .. Len(intent[t]) :
         /\ Len(wr.todo) = Len(intent[t]) - k + 1
         /\ \A i \in 1 .. Len(wr.todo) : wr.todo[i] = intent[t][i + k - 1]
         /\ Logged(t, k - 1)
  BY <1>1, <1>5 DEF WriteInv
<1>7. t \in 1 .. MaxTx /\ MaxTx \in Nat /\ nextSeq.tx = t + 1
  BY <1>1, <1>5, Numbers DEF WriteInv, IntentInv
<1>8. /\ intent[t] \in Seq(Seq(Stamped(t))) /\ Len(intent[t]) \in Nat
      /\ \E d \in ToSet(intent[t][1]) : d.e = TxEid(t) /\ d.op = "add"
  BY DEF IntentInv
<1>9. Batch = intent[t][k]
  <2>1. 1 \in 1 .. Len(wr.todo) /\ 1 + k - 1 = k
    BY <1>2, <1>6, <1>8
  <2> QED
    BY <1>2, <1>6, <2>1
<1>10. \A d \in ToSet(Batch) : d.t = t
  <2>1. intent[t][k] \in Seq(Stamped(t))
    BY <1>8
  <2> QED
    BY <1>9, <2>1 DEF ToSet, Stamped
<1>11. Logged(t, k)'
  <2> DEFINE done == UNION {ToSet(intent[t][i]) : i \in 1 .. k - 1}
             all == UNION {ToSet(intent[t][i]) : i \in 1 .. k}
  <2>1. {d \in journal : d.t = t} = done
    BY <1>6 DEF Logged
  <2>2. all = done \cup ToSet(intent[t][k])
    <3>1. 1 .. k = (1 .. k - 1) \cup {k}
      BY <1>6, <1>8
    <3> QED
      BY <3>1
  <2>3. {d \in journal' : d.t = t} = {d \in journal : d.t = t} \cup ToSet(Batch)
    BY <1>1, <1>10
  <2>4. {d \in journal' : d.t = t} = all
    BY <1>9, <2>1, <2>2, <2>3
  <2> QED
    BY <1>1, <2>4 DEF Logged
<1>12. StampInv'
  <2>1. \A d \in journal : d.t < nextSeq.tx
    BY DEF StampInv
  <2>2. \A d \in journal' : d.t < nextSeq'.tx
    BY <1>1, <1>7, <1>10, <2>1
  <2>3. ToSet(intent[t][1]) \subseteq journal'
    <3>1. 1 \in 1 .. k
      BY <1>6, <1>8
    <3> QED
      BY <1>1, <1>11, <3>1 DEF Logged
  <2>4. \E x \in journal' : x.e = TxEid(t) /\ x.op = "add"
    BY <1>8, <2>3
  <2>5. \A d \in journal' : \E x \in journal' : x.e = TxEid(d.t) /\ x.op = "add"
    BY <1>1, <1>10, <2>4 DEF StampInv
  <2> QED
    BY <2>2, <2>5 DEF StampInv
<1>13. WriteInv'
  <2>1. PICK s \in {wr.todo} : s = wr.todo
    OBVIOUS
  <2>2. wr'.pc = "apply" /\ wr'.t = t /\ wr'.todo = s /\ intent' = intent /\ nextSeq'.tx = t + 1
    BY <1>1, <1>3, <1>5, <1>7, <2>1
  <2>3. PICK j \in 1 .. Len(intent[t]) :
          /\ Len(s) = Len(intent[t]) - j + 1
          /\ \A i \in 1 .. Len(s) : s[i] = intent[t][i + j - 1]
          /\ Logged(t, j)'
    BY <1>6, <1>11, <2>1
  <2> QED
    BY <2>2, <2>3 DEF WriteInv
<1>14. JournalHoldsPrefix'
  <2> SUFFICES ASSUME NEW u \in DOMAIN intent
               PROVE  \E n \in 0 .. Len(intent[u]) : Logged(u, n)'
    BY <1>1 DEF JournalHoldsPrefix, Logged
  <2>1. CASE u = t
    BY <1>6, <1>8, <1>11, <2>1
  <2>2. CASE u # t
    <3>1. PICK n \in 0 .. Len(intent[u]) : Logged(u, n)
      BY DEF JournalHoldsPrefix, Logged
    <3>2. {d \in journal' : d.t = u} = {d \in journal : d.t = u}
      BY <1>1, <1>10, <2>2
    <3>3. Logged(u, n)'
      BY <1>1, <3>1, <3>2 DEF Logged
    <3> QED
      BY <3>1, <3>3
  <2> QED
    BY <2>1, <2>2
<1>15. IntentInv'
  BY <1>1 DEF IntentInv
<1> QED
  BY <1>4, <1>12, <1>13, <1>14, <1>15

\* A query whose scan meets the batch in progress is about a user entity.
LEMMA OverlapType ==
  ASSUME EntitiesInv
  PROVE  Overlapped \subseteq UserEids
BY DEF EntitiesInv, TypeInv, Overlapped

\* The hydrated set takes the batch.
LEMMA ApplyStep ==
  ASSUME EntitiesInv, ApplyKeys
  PROVE  EntitiesInv'
<1> USE DEF EntitiesInv
<1>1. /\ wr.pc = "apply" /\ hyd' = FoldLeft(ApplyKey, hyd, Batch) /\ raced' = raced \cup Overlapped
      /\ wr' = [wr EXCEPT !.pc = "insert"]
      /\ UNCHANGED <<journal, datoms, anchors, nextSeq, rd, expect, intent, resaved, restarts>>
  BY DEF ApplyKeys
<1>2. wr.todo # <<>> /\ Batch \in Seq(Datoms)
  BY <1>1, BatchType
<1>3. hyd' \in Caches
  <2>1. hyd \in Caches
    BY DEF TypeInv
  <2> QED
    BY <1>1, <1>2, <2>1, AppliedType
<1>4. /\ wr'.pc = "insert" /\ wr'.t = wr.t /\ wr'.todo = wr.todo
      /\ wr' \in [pc : {"idle", "journal", "apply", "insert"}, t : 0 .. MaxTx,
                  todo : Seq(Seq(Datoms)), ops : TxData \cup {<<>>}, es : Seq(Eids)]
  BY <1>1 DEF TypeInv
<1>5. TypeInv'
  BY <1>1, <1>2, <1>3, <1>4, OverlapType DEF TypeInv
<1>6. WriteInv'
  <2>1. PICK t \in DOMAIN intent : t = wr.t
    BY <1>1 DEF WriteInv
  <2>2. PICK k \in 1 .. Len(intent[t]) :
          /\ Len(wr.todo) = Len(intent[t]) - k + 1
          /\ \A i \in 1 .. Len(wr.todo) : wr.todo[i] = intent[t][i + k - 1]
          /\ Logged(t, k)
    BY <1>1, <2>1 DEF WriteInv
  <2>3. PICK s \in {wr.todo} : s = wr.todo
    OBVIOUS
  <2>4. wr'.pc = "insert" /\ wr'.t = t /\ wr'.todo = s /\ intent' = intent /\ nextSeq'.tx = t + 1
    BY <1>1, <1>4, <2>1, <2>3 DEF WriteInv
  <2>5. PICK j \in 1 .. Len(intent[t]) :
          /\ Len(s) = Len(intent[t]) - j + 1
          /\ \A i \in 1 .. Len(s) : s[i] = intent[t][i + j - 1]
          /\ Logged(t, j)'
    BY <1>1, <2>2, <2>3 DEF Logged
  <2> QED
    BY <2>4, <2>5 DEF WriteInv
<1>7. IntentInv' /\ StampInv' /\ JournalHoldsPrefix'
  BY <1>1, SameLog
<1> QED
  BY <1>5, <1>6, <1>7

\* The keys become visible, and the next batch or none is up.
LEMMA InsertStep ==
  ASSUME EntitiesInv, Insert
  PROVE  EntitiesInv'
<1> USE DEF EntitiesInv
<1>1. /\ wr.pc = "insert" /\ datoms' = datoms \cup ToSet(Batch) /\ raced' = raced \cup Overlapped
      /\ wr' = IF Len(wr.todo) = 1 THEN Idle
               ELSE [wr EXCEPT !.pc = "journal", !.todo = Tail(wr.todo)]
      /\ UNCHANGED <<journal, anchors, hyd, nextSeq, rd, expect, intent, resaved, restarts>>
  BY DEF Insert
<1>2. wr.todo \in Seq(Seq(Datoms)) /\ wr.todo # <<>> /\ Batch = wr.todo[1]
  BY <1>1, BatchType
<1>3. PICK t \in DOMAIN intent : t = wr.t
  BY <1>1 DEF WriteInv
<1>4. PICK k \in 1 .. Len(intent[t]) :
         /\ Len(wr.todo) = Len(intent[t]) - k + 1
         /\ \A i \in 1 .. Len(wr.todo) : wr.todo[i] = intent[t][i + k - 1]
         /\ Logged(t, k)
  BY <1>1, <1>3 DEF WriteInv
<1>5. Len(intent[t]) \in Nat /\ nextSeq.tx = t + 1
  BY <1>1, <1>3 DEF WriteInv, IntentInv
<1>6. ToSet(Batch) \subseteq journal
  <2>1. 1 \in 1 .. Len(wr.todo) /\ 1 + k - 1 = k /\ k \in 1 .. k
    BY <1>2, <1>4, <1>5
  <2>2. Batch = intent[t][k]
    BY <1>2, <1>4, <2>1
  <2> QED
    BY <1>4, <2>1, <2>2 DEF Logged
<1>7. CASE Len(wr.todo) = 1
  <2>1. wr' = Idle
    BY <1>1, <1>7
  <2>2. /\ wr' \in [pc : {"idle", "journal", "apply", "insert"}, t : 0 .. MaxTx,
                    todo : Seq(Seq(Datoms)), ops : TxData \cup {<<>>}, es : Seq(Eids)]
        /\ wr'.pc = "idle" /\ wr'.todo = <<>>
    BY <2>1, Numbers DEF Idle
  <2>3. TypeInv'
    BY <1>1, <1>6, <2>2, OverlapType DEF TypeInv
  <2>4. WriteInv'
    BY <2>2 DEF WriteInv
  <2>5. IntentInv' /\ StampInv' /\ JournalHoldsPrefix'
    BY <1>1, SameLog
  <2> QED
    BY <2>3, <2>4, <2>5
<1>8. CASE Len(wr.todo) # 1
  <2> DEFINE rest == Tail(wr.todo)
             n == Len(wr.todo)
  <2>1. wr' = [wr EXCEPT !.pc = "journal", !.todo = rest]
    BY <1>1, <1>8
  <2>2. /\ rest \in Seq(Seq(Datoms)) /\ Len(rest) = n - 1 /\ n \in Nat /\ n > 1
        /\ \A i \in 1 .. n - 1 : rest[i] = wr.todo[i + 1]
    <3>1. PICK s \in Seq(Seq(Datoms)) : s = wr.todo /\ s # <<>>
      BY <1>2
    <3>2. /\ Tail(s) \in Seq(Seq(Datoms)) /\ Len(Tail(s)) = Len(s) - 1
          /\ \A i \in 1 .. Len(s) - 1 : Tail(s)[i] = s[i + 1]
      BY <3>1, HeadTailProperties
    <3>3. Len(s) \in Nat /\ Len(s) > 1
      <4>1. Len(s) \in Nat \ {0}
        BY <3>1, EmptySeq
      <4>2. Len(s) # 1
        BY <1>8, <3>1, Zenon
      <4>3. PICK len \in Nat \ {0, 1} : len = Len(s)
        BY <4>1, <4>2, Zenon
      <4>4. len \in Nat /\ len > 1
        OBVIOUS
      <4> QED
        BY <4>3, <4>4
    <3> QED
      BY <3>1, <3>2, <3>3
  <2> HIDE DEF rest
  <2>3. rest # <<>>
    BY <2>2
  <2>4. /\ wr' \in [pc : {"idle", "journal", "apply", "insert"}, t : 0 .. MaxTx,
                    todo : Seq(Seq(Datoms)), ops : TxData \cup {<<>>}, es : Seq(Eids)]
        /\ wr'.pc = "journal" /\ wr'.todo = rest /\ wr'.t = t
    BY <1>3, <2>1, <2>2 DEF TypeInv
  <2>5. TypeInv'
    BY <1>1, <1>6, <2>3, <2>4, OverlapType DEF TypeInv
  <2>6. /\ k + 1 \in 1 .. Len(intent[t]) /\ Len(rest) = Len(intent[t]) - (k + 1) + 1
        /\ (k + 1) - 1 = k
    BY <1>4, <1>5, <2>2
  <2>7. \A i \in 1 .. Len(rest) : rest[i] = intent[t][i + (k + 1) - 1]
    <3> TAKE i \in 1 .. Len(rest)
    <3>1. i \in 1 .. n - 1 /\ i + 1 \in 1 .. n /\ (i + 1) + k - 1 = i + (k + 1) - 1
      BY <1>4, <1>5, <2>2
    <3>2. rest[i] = wr.todo[i + 1] /\ wr.todo[i + 1] = intent[t][(i + 1) + k - 1]
      BY <1>4, <2>2, <3>1
    <3> QED
      BY <3>1, <3>2
  <2>8. Logged(t, (k + 1) - 1)'
    BY <1>1, <1>4, <2>6 DEF Logged
  <2>9. WriteInv'
    <3>1. PICK j \in 1 .. Len(intent[t]) :
            /\ Len(rest) = Len(intent[t]) - j + 1
            /\ \A i \in 1 .. Len(rest) : rest[i] = intent[t][i + j - 1]
            /\ Logged(t, j - 1)'
      BY <2>6, <2>7, <2>8
    <3>2. intent' = intent /\ nextSeq'.tx = wr'.t + 1
      BY <1>1, <1>5, <2>4
    <3> QED
      BY <2>4, <3>1, <3>2 DEF WriteInv
  <2>10. IntentInv' /\ StampInv' /\ JournalHoldsPrefix'
    BY <1>1, SameLog
  <2> QED
    BY <2>5, <2>9, <2>10
<1> QED
  BY <1>7, <1>8

\* A query reads what is stored of an entity, or installs what it read.
LEMMA QueryStep ==
  ASSUME EntitiesInv, (\E e \in UserEids : QueryScan(e)) \/ QueryInstall
  PROVE  EntitiesInv'
<1> USE DEF EntitiesInv
<1>1. SameWrites /\ nextSeq' = nextSeq /\ nextSeq'.tx \in Int
  BY DEF QueryScan, QueryInstall, SameWrites, TypeInv
<1>2. IntentInv' /\ StampInv' /\ WriteInv' /\ JournalHoldsPrefix'
  BY <1>1, QuietStep
<1>3. ASSUME NEW e \in UserEids, QueryScan(e) PROVE TypeInv'
  <2> DEFINE keys == StoreActive(datoms, e)
  <2>1. keys \in FactSets
    BY StoreActiveType, FS_Subset DEF TypeInv
  <2>2. /\ rd' = [pc |-> "scanned", e |-> e, keys |-> keys]
        /\ UNCHANGED <<journal, datoms, anchors, hyd, nextSeq, wr, raced, resaved, restarts>>
    BY <1>3 DEF QueryScan
  <2> HIDE DEF keys
  <2>3. /\ rd' \in [pc : {"idle", "scanned"}, e : UserEids \cup {NoEid}, keys : FactSets]
        /\ rd'.pc = "scanned" /\ rd'.e \in UserEids
    BY <2>1, <2>2
  <2> QED
    BY <2>2, <2>3 DEF TypeInv
<1>4. ASSUME QueryInstall PROVE TypeInv'
  <2>1. /\ rd.pc = "scanned" /\ hyd' \in Hydrated(hyd, rd.e, rd.keys)
        /\ raced' \subseteq raced \cup {rd.e} /\ rd' = NoQuery
        /\ UNCHANGED <<journal, datoms, anchors, nextSeq, wr, resaved, restarts>>
    BY <1>4 DEF QueryInstall
  <2>2. rd.e \in UserEids /\ rd.e \in Eids /\ rd.keys \in FactSets /\ hyd \in Caches
    BY <2>1, Numbers DEF TypeInv
  <2>3. hyd' \in Caches
    BY <2>1, <2>2, HydratedType
  <2>4. /\ rd' \in [pc : {"idle", "scanned"}, e : UserEids \cup {NoEid}, keys : FactSets]
        /\ rd'.pc = "idle"
    <3>1. {} \in FactSets
      BY FS_EmptySet DEF FactSets
    <3> QED
      BY <2>1, <3>1 DEF NoQuery
  <2> QED
    BY <2>1, <2>2, <2>3, <2>4 DEF TypeInv
<1> QED
  BY <1>2, <1>3, <1>4

\* Nothing is hydrated at the start.
LEMMA EmptyCache == [e \in {} |-> {}] \in Caches
<1>1. [e \in {} |-> {}] \in [{} -> FactSets] /\ {} \in SUBSET Eids
  OBVIOUS
<1> QED
  BY <1>1, IsCache

\* The walk over the log passes every t in it.
LEMMA SeedPast ==
  ASSUME TypeInv, StampInv
  PROVE  /\ SeedPartitionCounters \in [tx : 1 .. MaxTx + 1, user : 1 .. MaxUser + 1]
         /\ \A d \in journal : d.t < SeedPartitionCounters.tx
<1> DEFINE all == {d.e : d \in {x \in journal : x.op = "add"}}
           tx == all \cap TxEids
           user == all \cap UserEids
           m == IF tx = {} THEN 1 ELSE Max(tx) + 1
           u == IF user = {} THEN 1 ELSE Min(user) + 1 - MaxTx
<1>1. SeedPartitionCounters = [tx |-> m, user |-> u]
  BY DEF SeedPartitionCounters
<1>2. \A d \in journal : d.t \in tx
  <2> TAKE d \in journal
  <2>1. PICK x \in journal : x.e = TxEid(d.t) /\ x.op = "add"
    BY DEF StampInv
  <2>2. d.t \in TxEids
    BY DEF TypeInv, Datoms, TxEids
  <2> QED
    BY <2>1, <2>2 DEF TxEid
<1>3. tx \in SUBSET TxEids /\ user \in SUBSET UserEids
  OBVIOUS
<1> HIDE DEF tx, user
<1>4. tx \in SUBSET Nat /\ (\A x \in tx : x <= MaxTx /\ x >= 1) /\ MaxTx \in Nat
  BY <1>3, Numbers DEF TxEids
<1>5. tx # {} => Max(tx) \in tx /\ \A x \in tx : x <= Max(tx)
  BY <1>4, MaxGreatest
<1>6. m \in 1 .. MaxTx + 1 /\ \A d \in journal : d.t < m
  <2>1. m \in 1 .. MaxTx + 1 /\ \A x \in tx : x < m
    <3>1. CASE tx = {}
      BY <1>4, <3>1
    <3>2. CASE tx # {}
      <4>1. PICK x \in tx : x = Max(tx) /\ \A y \in tx : y <= x
        BY <1>5, <3>2
      <4>2. m = x + 1
        BY <3>2, <4>1
      <4> HIDE DEF m
      <4> QED
        BY <1>4, <4>1, <4>2
    <3> QED
      BY <3>1, <3>2
  <2> HIDE DEF m
  <2> QED
    BY <1>2, <2>1
<1>7. u \in 1 .. MaxUser + 1
  <2>1. user \in SUBSET Nat /\ MaxUser \in Nat
    BY <1>3, Numbers DEF UserEids
  <2>2. user # {} => Min(user) \in UserEids
    BY <1>3, <2>1, MinLeast
  <2> QED
    BY <1>4, <2>1, <2>2 DEF UserEids
<1> HIDE DEF m, u
<1> QED
  BY <1>1, <1>6, <1>7

\* The process starts again from the log.
LEMMA RestartStep ==
  ASSUME EntitiesInv, Restart
  PROVE  EntitiesInv'
<1> USE DEF EntitiesInv
<1>1. /\ restarts < MaxRestarts /\ restarts' = restarts + 1 /\ datoms' = journal
      /\ anchors' \in RecoveredAnchors /\ hyd' = [e \in {} |-> {}]
      /\ nextSeq' = SeedPartitionCounters /\ wr' = Idle /\ rd' = NoQuery
      /\ raced' = {} /\ resaved' = {} /\ UNCHANGED <<journal, intent>>
  BY DEF Restart
<1>2. /\ nextSeq' \in [tx : 1 .. MaxTx + 1, user : 1 .. MaxUser + 1]
      /\ \A d \in journal' : d.t < nextSeq'.tx
  BY <1>1, SeedPast
<1>3. /\ wr' \in [pc : {"idle", "journal", "apply", "insert"}, t : 0 .. MaxTx,
                  todo : Seq(Seq(Datoms)), ops : TxData \cup {<<>>}, es : Seq(Eids)]
      /\ wr'.pc = "idle" /\ wr'.todo = <<>>
  BY <1>1, Numbers DEF Idle
<1>4. /\ rd' \in [pc : {"idle", "scanned"}, e : UserEids \cup {NoEid}, keys : FactSets]
      /\ rd'.pc = "idle"
  <2>1. {} \in FactSets
    BY FS_EmptySet DEF FactSets
  <2> QED
    BY <1>1, <2>1 DEF NoQuery
<1>5. hyd' \in Caches /\ anchors' \in Indexes
  BY <1>1, EmptyCache, RecoveredType
<1>6. restarts' \in 0 .. MaxRestarts
  BY <1>1, Numbers DEF TypeInv
<1>7. TypeInv'
  BY <1>1, <1>2, <1>3, <1>4, <1>5, <1>6 DEF TypeInv
<1>8. StampInv'
  BY <1>1, <1>2 DEF StampInv
<1>9. IntentInv'
  BY <1>1 DEF IntentInv
<1>10. JournalHoldsPrefix'
  BY <1>1 DEF JournalHoldsPrefix
<1>11. WriteInv'
  BY <1>3 DEF WriteInv
<1> QED
  BY <1>7, <1>8, <1>9, <1>10, <1>11

\* The empty store.
LEMMA InitInv == Init => EntitiesInv
<1> SUFFICES ASSUME Init PROVE EntitiesInv
  OBVIOUS
<1>1. /\ journal = {} /\ datoms = {} /\ anchors = [f \in {} |-> NoEid]
      /\ hyd = [e \in {} |-> {}] /\ nextSeq = [tx |-> 1, user |-> 1] /\ wr = Idle /\ rd = NoQuery
      /\ raced = {} /\ resaved = {} /\ restarts = 0 /\ intent = [t \in {} |-> <<>>]
  BY DEF Init
<1>2. hyd \in Caches
  BY <1>1, EmptyCache
<1>3. anchors \in Indexes
  <2>1. anchors \in [{} -> Eids] /\ {} \in SUBSET Facts
    BY <1>1
  <2> QED
    BY <2>1 DEF Indexes
<1>4. IsFiniteSet(journal) /\ {} \in FactSets
  BY <1>1, FS_EmptySet DEF FactSets
<1>5. /\ wr \in [pc : {"idle", "journal", "apply", "insert"}, t : 0 .. MaxTx,
                 todo : Seq(Seq(Datoms)), ops : TxData \cup {<<>>}, es : Seq(Eids)]
      /\ wr.pc = "idle" /\ wr.todo = <<>>
  BY <1>1, Numbers DEF Idle
<1>6. /\ rd \in [pc : {"idle", "scanned"}, e : UserEids \cup {NoEid}, keys : FactSets]
      /\ rd.pc = "idle"
  BY <1>1, <1>4 DEF NoQuery
<1>7. nextSeq \in [tx : 1 .. MaxTx + 1, user : 1 .. MaxUser + 1] /\ restarts \in 0 .. MaxRestarts
  BY <1>1, Numbers
<1>8. TypeInv
  BY <1>1, <1>2, <1>3, <1>4, <1>5, <1>6, <1>7 DEF TypeInv
<1>9. DOMAIN intent = {}
  BY <1>1
<1>10. IntentInv /\ JournalHoldsPrefix
  BY <1>9 DEF IntentInv, JournalHoldsPrefix
<1>11. StampInv /\ WriteInv
  BY <1>1, <1>5 DEF StampInv, WriteInv
<1> QED
  BY <1>8, <1>10, <1>11 DEF EntitiesInv

\* Every step, and stuttering.
LEMMA NextInv == EntitiesInv /\ [Next]_vars => EntitiesInv'
<1> SUFFICES ASSUME EntitiesInv, [Next]_vars PROVE EntitiesInv'
  OBVIOUS
<1>1. ASSUME NEW ops \in TxData, Transact(ops) \/ TransactFails(ops) PROVE EntitiesInv'
  BY <1>1, TransactStep, TransactFailsStep
<1>2. ASSUME NEW f \in ExecFacts,
             \/ \E e \in UserEids : ExecSave(e, f[1], f[2]) \/ ExecRetract(e, f[1], f[2])
             \/ ExecFound(f[1], f[2]) \/ ExecCreate(f[1], f[2])
      PROVE  EntitiesInv'
  BY <1>2, ExecStep
<1>3. CASE Journal
  BY <1>3, JournalStep
<1>4. CASE ApplyKeys
  BY <1>4, ApplyStep
<1>5. CASE Insert
  BY <1>5, InsertStep
<1>6. CASE (\E e \in UserEids : QueryScan(e)) \/ QueryInstall
  BY <1>6, QueryStep
<1>7. CASE Restart
  BY <1>7, RestartStep
<1>8. CASE UNCHANGED vars
  <2>1. TypeInv'
    BY <1>8 DEF EntitiesInv, TypeInv, vars, memVars
  <2>2. SameWrites /\ nextSeq' = nextSeq /\ nextSeq'.tx \in Int
    BY <1>8 DEF EntitiesInv, TypeInv, SameWrites, vars, memVars
  <2>3. IntentInv' /\ StampInv' /\ WriteInv' /\ JournalHoldsPrefix'
    BY <2>2, QuietStep
  <2> QED
    BY <2>1, <2>3 DEF EntitiesInv
<1> QED
  BY <1>1, <1>2, <1>3, <1>4, <1>5, <1>6, <1>7, <1>8 DEF Next
-----------------------------------------------------------------------------
(* The theorems.                                                           *)

\* In every state the caches, the counters and the transaction under
\* Engine.mu have their types, the batches of every transaction carry its t,
\* each t in the log has its transaction entity there, and the log of the
\* transaction in progress is the part of its batches it has reached.
THEOREM Invariance == Spec => []EntitiesInv
BY InitInv, NextInv, PTL DEF Spec

\* Whatever transactions, programs, queries, evictions and restarts do, ids,
\* datom keys and both caches stay within their partitions and the schema
\* (internal/eavt/resolver.go, write.go).
THEOREM TypeCorrect == Spec => []TypeOK
<1>1. EntitiesInv => TypeOK
  <2> SUFFICES ASSUME EntitiesInv PROVE TypeOK
    OBVIOUS
  <2>1. \A d \in journal : /\ d.e \in TxEids \cup UserEids /\ <<d.a, d.v>> \in Facts
                           /\ d.t \in 1 .. MaxTx /\ d.op \in {"add", "ret"}
    BY DEF EntitiesInv, TypeInv, Datoms, Facts, Eids
  <2>2. \A f \in DOMAIN anchors : f \in Facts /\ anchors[f] \in TxEids \cup UserEids
    BY DEF EntitiesInv, TypeInv, Indexes, Eids
  <2>3. \A e \in DOMAIN hyd : e \in TxEids \cup UserEids /\ hyd[e] \subseteq Facts
    BY CacheType DEF EntitiesInv, TypeInv, Eids, FactSets
  <2>4. rd.keys \subseteq Facts
    BY DEF EntitiesInv, TypeInv, FactSets
  <2> QED
    BY <2>1, <2>2, <2>3, <2>4 DEF EntitiesInv, TypeInv, TypeOK
<1> QED
  BY <1>1, Invariance, PTL

\* The id a transaction is given is above every t in the log, also when
\* SeedPartitionCounters rebuilt the counter from the entities the log holds:
\* no later write is older than an earlier one.
THEOREM TxIdsAreFresh == Spec => []TxIdsFresh
<1>1. EntitiesInv => TxIdsFresh
  BY DEF EntitiesInv, StampInv, TxIdsFresh
<1> QED
  BY <1>1, Invariance, PTL

\* A crash between the batches of SaveBatchEdn and RetractBatch, or between
\* AllocateTx and the writes of a program, leaves whole batches, the first of
\* the transaction, and no transaction after the restart reuses its t.
THEOREM JournalIsPrefix == Spec => []JournalHoldsPrefix
<1>1. EntitiesInv => JournalHoldsPrefix
  BY DEF EntitiesInv
<1> QED
  BY <1>1, Invariance, PTL
=============================================================================
