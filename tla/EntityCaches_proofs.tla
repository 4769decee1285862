------------------------ MODULE EntityCaches_proofs -------------------------
(***************************************************************************)
(* Theorems about the read caches of Entities: the hydrated set and the    *)
(* anchor index agree with the stored keys, and what is stored by relying  *)
(* on them is what docs/tx-protocol.md describes, for every schema, set of *)
(* transactions and budget, through evictions and concurrent queries, up   *)
(* to the first restart.                                                   *)
(***************************************************************************)
EXTENDS Entities_proofs

SameFact(d, r) == d.e = r.e /\ d.a = r.a /\ d.v = r.v

\* The facts of entity e that the keys K assert and retract.
Adds(K, e) == {<<d.a, d.v>> : d \in {x \in K : x.e = e /\ x.op = "add"}}
Rets(K, e) == {<<d.a, d.v>> : d \in {x \in K : x.e = e /\ x.op = "ret"}}
-----------------------------------------------------------------------------
(* What a batch does to the facts of an entity.                            *)

\* Key d shows that e has the fact f.
Shows(keys, d, e, f) ==
  /\ d \in keys /\ d.e = e /\ d.op = "add" /\ <<d.a, d.v>> = f
  /\ \A n \in keys : SameFact(n, d) => Suffix(n) <= Suffix(d)

\* The newest key of an active fact is an assertion.
LEMMA ActiveShown ==
  ASSUME NEW keys, NEW e, NEW f
  PROVE  f \in StoreActive(keys, e) <=> \E d \in keys : Shows(keys, d, e, f)
<1> DEFINE mine == {d \in keys : d.e = e}
           newest == {d \in mine : \A n \in mine : n.a = d.a /\ n.v = d.v => Suffix(n) <= Suffix(d)}
           adds == {n \in newest : n.op = "add"}
<1>1. StoreActive(keys, e) = {<<d.a, d.v>> : d \in adds}
  BY DEF StoreActive
<1>2. ASSUME NEW d \in keys
      PROVE  Shows(keys, d, e, f) <=> d \in adds /\ <<d.a, d.v>> = f
  BY DEF Shows, SameFact
<1>3. adds \subseteq keys
  OBVIOUS
<1> HIDE DEF adds
<1> QED
  BY <1>1, <1>2, <1>3

\* The order of versions: by t, the retraction last.
LEMMA SuffixOrder ==
  ASSUME NEW d \in Datoms, NEW n \in Datoms
  PROVE  /\ d.t < n.t => Suffix(d) < Suffix(n)
         /\ d.t = n.t /\ d.op = n.op => Suffix(d) = Suffix(n)
         /\ d.t = n.t /\ d.op = "add" /\ n.op = "ret" => Suffix(d) < Suffix(n)
         /\ Suffix(d) \in Int /\ Suffix(n) \in Int
<1>1. d.t \in Int /\ n.t \in Int /\ d.op \in {"add", "ret"} /\ n.op \in {"add", "ret"}
  BY DEF Datoms
<1> QED
  BY <1>1 DEF Suffix

\* The keys K are no older than the keys D, and assert no fact of e that D
\* retracts under the same t.
Newer(D, K, t, e) ==
  /\ \A d \in D : d.t <= t
  /\ \A d \in K : d.t = t
  /\ \A d \in K : \A r \in D :
       d.e = e /\ d.op = "add" /\ r.op = "ret" /\ SameFact(d, r) => r.t < t

\* Such keys add what they assert and then remove what they retract.
LEMMA Overlay ==
  ASSUME NEW D \in SUBSET Datoms, NEW K \in SUBSET Datoms, NEW t \in 1 .. MaxTx, NEW e,
         Newer(D, K, t, e)
  PROVE  StoreActive(D \cup K, e) = (StoreActive(D, e) \cup Adds(K, e)) \ Rets(K, e)
<1> SUFFICES ASSUME NEW f
             PROVE  f \in StoreActive(D \cup K, e)
                      <=> f \in (StoreActive(D, e) \cup Adds(K, e)) \ Rets(K, e)
  OBVIOUS
<1> USE DEF Newer
<1>0. t \in Int /\ \A d \in D \cup K : d.t \in Int /\ d.op \in {"add", "ret"}
  BY DEF Datoms
<1>1. ASSUME NEW d \in D \cup K, Shows(D \cup K, d, e, f)
      PROVE  f \in (StoreActive(D, e) \cup Adds(K, e)) \ Rets(K, e)
  <2>1. d.e = e /\ d.op = "add" /\ <<d.a, d.v>> = f
    BY <1>1 DEF Shows
  <2>2. d \in K => f \in Adds(K, e)
    BY <2>1 DEF Adds
  <2>3. ASSUME d \in D PROVE f \in StoreActive(D, e)
    <3>1. Shows(D, d, e, f)
      BY <1>1, <2>3 DEF Shows
    <3> QED
      BY <2>3, <3>1, ActiveShown
  <2>4. ASSUME NEW r \in K, r.e = e, r.op = "ret", <<r.a, r.v>> = f PROVE FALSE
    <3>1. SameFact(r, d)
      BY <2>1, <2>4 DEF SameFact
    <3>2. Suffix(r) <= Suffix(d)
      BY <1>1, <3>1 DEF Shows
    <3>3. d.t <= r.t /\ d.t \in Int /\ r.t \in Int
      BY <1>0
    <3>4. Suffix(d) < Suffix(r) /\ Suffix(d) \in Int /\ Suffix(r) \in Int
      BY <2>1, <2>4, <3>3, SuffixOrder
    <3> QED
      BY <3>2, <3>4
  <2>5. f \notin Rets(K, e)
    BY <2>4 DEF Rets
  <2> QED
    BY <2>2, <2>3, <2>5
<1>2. ASSUME f \in Adds(K, e), f \notin Rets(K, e) PROVE f \in StoreActive(D \cup K, e)
  <2>1. PICK d \in K : d.e = e /\ d.op = "add" /\ <<d.a, d.v>> = f
    BY <1>2 DEF Adds
  <2>2. ASSUME NEW n \in D \cup K, SameFact(n, d) PROVE Suffix(n) <= Suffix(d)
    <3>1. n.op = "ret" => n.t < t
      <4>1. n \in K => n.op # "ret"
        BY <1>2, <2>1, <2>2 DEF SameFact, Rets
      <4> QED
        BY <2>1, <2>2, <4>1 DEF SameFact
    <3>2. n.t <= t /\ d.t = t /\ n.t \in Int /\ n.op \in {"add", "ret"}
      BY <1>0
    <3>3. n.t < d.t \/ (n.t = d.t /\ n.op = d.op)
      BY <1>0, <2>1, <3>1, <3>2
    <3>4. n \in Datoms /\ d \in Datoms
      OBVIOUS
    <3> QED
      BY <3>3, <3>4, SuffixOrder
  <2>3. Shows(D \cup K, d, e, f)
    BY <2>1, <2>2 DEF Shows
  <2> QED
    BY <2>3, ActiveShown
<1>3. ASSUME f \in StoreActive(D, e), f \notin Adds(K, e), f \notin Rets(K, e)
      PROVE  f \in StoreActive(D \cup K, e)
  <2>1. PICK d \in D : Shows(D, d, e, f)
    BY <1>3, ActiveShown
  <2>2. ASSUME NEW n \in K, SameFact(n, d) PROVE FALSE
    <3>1. n.e = e /\ <<n.a, n.v>> = f /\ n.op \in {"add", "ret"}
      BY <1>0, <2>1, <2>2 DEF Shows, SameFact
    <3> QED
      BY <1>3, <3>1 DEF Adds, Rets
  <2>3. Shows(D \cup K, d, e, f)
    BY <2>1, <2>2 DEF Shows
  <2> QED
    BY <2>3, ActiveShown
<1> QED
  BY <1>1, <1>2, <1>3, ActiveShown

\* Keys of other entities change nothing.
LEMMA Untouched ==
  ASSUME NEW D, NEW K, NEW e, \A d \in K : d.e # e
  PROVE  StoreActive(D \cup K, e) = StoreActive(D, e)
<1> SUFFICES ASSUME NEW f PROVE f \in StoreActive(D \cup K, e) <=> f \in StoreActive(D, e)
  OBVIOUS
<1>1. ASSUME NEW d \in D \cup K, Shows(D \cup K, d, e, f) PROVE d \in D /\ Shows(D, d, e, f)
  BY <1>1 DEF Shows
<1>2. ASSUME NEW d \in D, Shows(D, d, e, f) PROVE Shows(D \cup K, d, e, f)
  BY <1>2 DEF Shows, SameFact
<1> QED
  BY <1>1, <1>2, ActiveShown

\* An entity without keys has no facts.
LEMMA NoKeysNoFacts ==
  ASSUME NEW keys, NEW e, \A d \in keys : d.e # e
  PROVE  StoreActive(keys, e) = {}
BY ActiveShown DEF Shows
-----------------------------------------------------------------------------
(* What a batch does to the caches.                                        *)

\* Hyd.ApplyKey for a batch in which no fact of e is asserted and retracted.
LEMMA ApplyEffect ==
  ASSUME NEW cache \in Caches, NEW batch \in Seq(Datoms), NEW e \in DOMAIN cache,
         Adds(ToSet(batch), e) \cap Rets(ToSet(batch), e) = {}
  PROVE  /\ e \in DOMAIN FoldLeft(ApplyKey, cache, batch)
         /\ FoldLeft(ApplyKey, cache, batch)[e]
              = (cache[e] \cup Adds(ToSet(batch), e)) \ Rets(ToSet(batch), e)
<1> DEFINE n == Len(batch)
           K(i) == {batch[j] : j \in 1 .. i}
<1>1. PICK h : Applies(h, cache, batch) /\ FoldLeft(ApplyKey, cache, batch) = h[n]
  BY ApplyFold
<1>2. /\ n \in Nat /\ DOMAIN batch = 1 .. n /\ (\A i \in 1 .. n : batch[i] \in Datoms)
      /\ h[0] = cache /\ (\A i \in 0 .. n : h[i] \in Caches)
      /\ \A i \in 1 .. n : h[i] = ApplyKey(h[i - 1], batch[i])
  BY <1>1 DEF Applies
<1>3. ToSet(batch) = K(n) /\ (\A i \in 0 .. n : K(i) \subseteq ToSet(batch))
  BY <1>2 DEF ToSet
<1> DEFINE T == {i \in 0 .. n : /\ e \in DOMAIN h[i]
                                /\ h[i][e] = (cache[e] \cup Adds(K(i), e)) \ Rets(K(i), e)}
<1>4. 0 \in T
  <2>1. K(0) = {} /\ 0 \in 0 .. n
    BY <1>2
  <2>2. Adds({}, e) = {} /\ Rets({}, e) = {}
    BY DEF Adds, Rets
  <2> QED
    BY <1>2, <2>1, <2>2
<1>5. ASSUME NEW i \in 1 .. n, i - 1 \in T PROVE i \in T
  <2> DEFINE d == batch[i]
             f == <<d.a, d.v>>
             old == h[i - 1]
  <2>1. K(i) = K(i - 1) \cup {d} /\ i \in 0 .. n /\ i - 1 \in 0 .. n
    <3>1. 1 .. i = (1 .. i - 1) \cup {i} /\ i \in 0 .. n /\ i - 1 \in 0 .. n
      BY <1>2
    <3> QED
      BY <3>1
  <2>2. d \in Datoms /\ d \in ToSet(batch) /\ d.op \in {"add", "ret"}
    BY <1>2 DEF ToSet, Datoms
  <2>3. h[i] = ApplyKey(old, d) /\ old \in Caches /\ e \in DOMAIN old
        /\ old[e] = (cache[e] \cup Adds(K(i - 1), e)) \ Rets(K(i - 1), e)
    BY <1>2, <1>5, <2>1
  <2>4. old = [x \in DOMAIN old |-> old[x]]
    BY <2>3, CacheType
  <2>5. K(i - 1) \subseteq ToSet(batch)
    BY <1>3, <2>1
  <2> HIDE DEF K, old
  <2>6. CASE d.e # e
    <3>1. Adds(K(i), e) = Adds(K(i - 1), e) /\ Rets(K(i), e) = Rets(K(i - 1), e)
      BY <2>1, <2>6 DEF Adds, Rets
    <3>2. e \in DOMAIN h[i] /\ h[i][e] = old[e]
      BY <2>3, <2>4, <2>6 DEF ApplyKey
    <3> QED
      BY <2>1, <2>3, <3>1, <3>2
  <2>7. CASE d.e = e /\ d.op = "add"
    <3>1. Adds(K(i), e) = Adds(K(i - 1), e) \cup {f} /\ Rets(K(i), e) = Rets(K(i - 1), e)
      BY <2>1, <2>7 DEF Adds, Rets
    <3>2. f \notin Rets(K(i - 1), e)
      BY <2>2, <2>5, <2>7 DEF Adds, Rets
    <3>3. e \in DOMAIN h[i] /\ h[i][e] = old[e] \cup {f}
      BY <2>3, <2>4, <2>7 DEF ApplyKey
    <3>4. (old[e] \cup {f}) = (cache[e] \cup Adds(K(i), e)) \ Rets(K(i), e)
      BY <2>3, <3>1, <3>2
    <3> QED
      BY <2>1, <3>3, <3>4
  <2>8. CASE d.e = e /\ d.op = "ret"
    <3>1. Adds(K(i), e) = Adds(K(i - 1), e) /\ Rets(K(i), e) = Rets(K(i - 1), e) \cup {f}
      BY <2>1, <2>8 DEF Adds, Rets
    <3>2. e \in DOMAIN h[i] /\ h[i][e] = old[e] \ {f}
      BY <2>3, <2>4, <2>8 DEF ApplyKey
    <3> QED
      BY <2>1, <2>3, <3>1, <3>2
  <2> QED
    BY <2>2, <2>6, <2>7, <2>8
<1> HIDE DEF T
<1>6. \A i \in 0 .. n : i \in T
  <2> HIDE DEF n
  <2> QED
    BY <1>2, <1>4, <1>5, Induct
<1>7. n \in T
  BY <1>2, <1>6
<1> QED
  BY <1>1, <1>3, <1>7 DEF T

\* Hyd.ApplyKey hydrates and drops nobody.
LEMMA ApplyDomain ==
  ASSUME NEW cache \in Caches, NEW batch \in Seq(Datoms)
  PROVE  DOMAIN FoldLeft(ApplyKey, cache, batch) = DOMAIN cache
<1> DEFINE n == Len(batch)
<1>1. PICK h : Applies(h, cache, batch) /\ FoldLeft(ApplyKey, cache, batch) = h[n]
  BY ApplyFold
<1>2. /\ n \in Nat /\ h[0] = cache /\ (\A i \in 0 .. n : h[i] \in Caches)
      /\ \A i \in 1 .. n : h[i] = ApplyKey(h[i - 1], batch[i])
  BY <1>1 DEF Applies
<1> DEFINE T == {i \in 0 .. n : DOMAIN h[i] = DOMAIN cache}
<1>3. 0 \in T
  BY <1>2
<1>4. ASSUME NEW i \in 1 .. n, i - 1 \in T PROVE i \in T
  <2>1. i - 1 \in 0 .. n /\ i \in 0 .. n
    BY <1>2
  <2>2. h[i - 1] = [e \in DOMAIN cache |-> h[i - 1][e]]
    BY <1>2, <1>4, <2>1, CacheType
  <2>3. DOMAIN ApplyKey(h[i - 1], batch[i]) = DOMAIN cache
    BY <1>4, <2>2 DEF ApplyKey
  <2> QED
    BY <1>2, <2>1, <2>3
<1> HIDE DEF T
<1>5. \A i \in 0 .. n : i \in T
  <2> HIDE DEF n
  <2> QED
    BY <1>2, <1>3, <1>4, Induct
<1>6. n \in T
  BY <1>2, <1>5
<1> QED
  BY <1>1, <1>6 DEF T

\* Where the anchor of f, entity e, comes from: the keys K name it, or it was
\* in index c and no key is about f.
Mirrored(c, K, f, e) ==
  \/ \E d \in K : d.op = "add" /\ <<d.a, d.v>> = f /\ d.e = e
  \/ f \in DOMAIN c /\ e = c[f] /\ \A d \in K : d.a \in Unique => <<d.a, d.v>> # f

\* Anchors.Put and Del for one key.
LEMMA MirrorEffect ==
  ASSUME NEW index \in Indexes, NEW d \in Datoms, NEW f \in DOMAIN Mirror(index, d)
  PROVE  \/ d.a \in Unique /\ d.op = "add" /\ <<d.a, d.v>> = f /\ Mirror(index, d)[f] = d.e
         \/ /\ f \in DOMAIN index /\ Mirror(index, d)[f] = index[f]
            /\ d.a \in Unique => <<d.a, d.v>> # f
<1>1. CASE d.a \notin Unique
  BY <1>1 DEF Mirror
<1>2. CASE d.a \in Unique /\ d.op = "add"
  BY <1>2 DEF Mirror, Install
<1>3. CASE d.a \in Unique /\ d.op # "add"
  BY <1>3 DEF Mirror, Restrict
<1> QED
  BY <1>1, <1>2, <1>3

\* Anchors.Put and Del for a batch: the last key about a value decides.
LEMMA MirrorsEffect ==
  ASSUME NEW index \in Indexes, NEW batch \in Seq(Datoms),
         NEW f \in DOMAIN FoldLeft(Mirror, index, batch)
  PROVE  Mirrored(index, ToSet(batch), f, FoldLeft(Mirror, index, batch)[f])
         /\ (f \in DOMAIN index \/ f[1] \in Unique)
<1> DEFINE n == Len(batch)
           K(i) == {batch[j] : j \in 1 .. i}
<1>1. PICK h : Mirrors(h, index, batch) /\ FoldLeft(Mirror, index, batch) = h[n]
  BY MirrorFold
<1>2. /\ n \in Nat /\ DOMAIN batch = 1 .. n /\ (\A i \in 1 .. n : batch[i] \in Datoms)
      /\ h[0] = index /\ (\A i \in 0 .. n : h[i] \in Indexes)
      /\ \A i \in 1 .. n : h[i] = Mirror(h[i - 1], batch[i])
  <2>1. n \in Nat /\ DOMAIN batch = 1 .. n /\ (\A i \in 1 .. n : batch[i] \in Datoms)
    OBVIOUS
  <2>2. h \in [0 .. n -> Indexes] /\ h[0] = index /\ \A i \in 1 .. n : h[i] = Mirror(h[i - 1], batch[i])
    BY <1>1 DEF Mirrors
  <2>3. \A i \in 0 .. n : h[i] \in Indexes
    BY <2>2
  <2> QED
    BY <2>1, <2>2, <2>3
<1>3. ToSet(batch) = K(n)
  BY <1>2 DEF ToSet
<1> DEFINE T == {i \in 0 .. n : f \in DOMAIN h[i] =>
                                  /\ Mirrored(index, K(i), f, h[i][f])
                                  /\ f \in DOMAIN index \/ f[1] \in Unique}
<1>4. 0 \in T
  <2>1. K(0) = {} /\ 0 \in 0 .. n
    BY <1>2
  <2> QED
    BY <1>2, <2>1 DEF Mirrored
<1>5. ASSUME NEW i \in 1 .. n, i - 1 \in T PROVE i \in T
  <2> DEFINE d == batch[i]
             old == h[i - 1]
  <2>1. K(i) = K(i - 1) \cup {d} /\ i \in 0 .. n /\ i - 1 \in 0 .. n
    <3>1. 1 .. i = (1 .. i - 1) \cup {i} /\ i \in 0 .. n /\ i - 1 \in 0 .. n
      BY <1>2
    <3> QED
      BY <3>1
  <2>2. /\ d \in Datoms /\ h[i] = Mirror(old, d) /\ old \in Indexes
        /\ f \in DOMAIN old => /\ Mirrored(index, K(i - 1), f, old[f])
                               /\ f \in DOMAIN index \/ f[1] \in Unique
    BY <1>2, <1>5, <2>1
  <2> HIDE DEF K, old, d
  <2> SUFFICES ASSUME f \in DOMAIN h[i]
               PROVE  Mirrored(index, K(i), f, h[i][f]) /\ (f \in DOMAIN index \/ f[1] \in Unique)
    BY <2>1
  <2>3. \/ d.a \in Unique /\ d.op = "add" /\ <<d.a, d.v>> = f /\ h[i][f] = d.e
        \/ f \in DOMAIN old /\ h[i][f] = old[f] /\ (d.a \in Unique => <<d.a, d.v>> # f)
    BY <2>2, MirrorEffect
  <2>4. CASE d.a \in Unique /\ d.op = "add" /\ <<d.a, d.v>> = f /\ h[i][f] = d.e
    BY <2>1, <2>4 DEF Mirrored
  <2>5. CASE f \in DOMAIN old /\ h[i][f] = old[f] /\ (d.a \in Unique => <<d.a, d.v>> # f)
    BY <2>1, <2>2, <2>5 DEF Mirrored
  <2> QED
    BY <2>3, <2>4, <2>5
<1> HIDE DEF T
<1>6. \A i \in 0 .. n : i \in T
  <2> HIDE DEF n
  <2> QED
    BY <1>2, <1>4, <1>5, Induct
<1>7. n \in T
  BY <1>2, <1>6
<1> QED
  BY <1>1, <1>3, <1>7 DEF T

\* What is left after an eviction is as it was.
LEMMA AnchoredEffect ==
  ASSUME TypeInv, NEW batch \in Seq(Datoms), NEW index \in Anchored(batch), NEW f \in DOMAIN index
  PROVE  Mirrored(anchors, ToSet(batch), f, index[f]) /\ (f \in DOMAIN anchors \/ f[1] \in Unique)
<1> DEFINE all == FoldLeft(Mirror, anchors, batch)
<1>1. f \in DOMAIN all /\ index[f] = all[f]
  <2>1. index = all \/ \E K \in SUBSET DOMAIN all : index = Restrict(all, K)
    BY DEF Anchored
  <2> HIDE DEF all
  <2> QED
    BY <2>1 DEF Restrict
<1>2. anchors \in Indexes
  BY DEF TypeInv
<1> QED
  BY <1>1, <1>2, MirrorsEffect

\* What Hyd.Hydrate leaves and installs.
LEMMA HydratedEffect ==
  ASSUME NEW cache \in Caches, NEW e, NEW keys, NEW new \in Hydrated(cache, e, keys), NEW x \in DOMAIN new
  PROVE  \/ x \in DOMAIN cache /\ new[x] = cache[x]
         \/ x = e /\ new[x] = keys
<1>1. CASE new = cache
  BY <1>1
<1>2. CASE new = Install(cache, e, keys)
  BY <1>2 DEF Install
<1>3. CASE \E K \in SUBSET DOMAIN cache : new = Install(Restrict(cache, K), e, keys)
  BY <1>3 DEF Install, Restrict
<1> QED
  BY <1>1, <1>2, <1>3 DEF Hydrated
-----------------------------------------------------------------------------
(* The invariant.                                                          *)

\* Entities in use have been allocated.
FreshInv ==
  /\ \A d \in journal : d.e < UserEid(nextSeq.user)
  /\ \A i \in DOMAIN wr.todo : \A d \in ToSet(wr.todo[i]) : d.e < UserEid(nextSeq.user)
  /\ \A e \in DOMAIN hyd : e < UserEid(nextSeq.user)
  /\ \A f \in DOMAIN anchors : anchors[f] < UserEid(nextSeq.user)
  /\ rd.pc = "scanned" => rd.e < UserEid(nextSeq.user)

\* No transaction asserts a fact after it retracted it: under one t the
\* retraction would win in the store and lose in the caches.
TidyInv ==
  \A j \in DOMAIN wr.todo : \A d \in ToSet(wr.todo[j]) : d.op = "add" /\ d.e \notin resaved =>
    \A r \in datoms \cup UNION {ToSet(wr.todo[i]) : i \in 1 .. j} :
      r.op = "ret" /\ SameFact(d, r) => r.t < d.t

\* What is stored, with the batch in progress once a cache has taken it.
Shown(pcs) == IF wr.pc \in pcs THEN datoms \cup ToSet(Batch) ELSE datoms

\* The hydrated set, and what a query is about to install in it.
HydInv ==
  /\ \A e \in DOMAIN hyd \ (raced \cup resaved) : hyd[e] = StoreActive(Shown({"insert"}), e)
  /\ rd.pc = "scanned" /\ rd.e \notin raced => rd.keys = StoreActive(datoms, rd.e)

\* The anchors.
AnchorInv ==
  \A f \in DOMAIN anchors :
    /\ f[1] \in Unique
    /\ \/ anchors[f] \in resaved
       \/ f \in StoreActive(Shown({"apply", "insert"}), anchors[f])

\* The facts of e among the triples S.
Of(S, e) == {<<f[2], f[3]>> : f \in {x \in S : x[1] = e}}

\* What will be stored once the transaction under the lock is done.
Pending == datoms \cup UNION {ToSet(wr.todo[i]) : i \in DOMAIN wr.todo}

\* The active facts of e, by the keys K, are those the protocol describes.
Documented(K, S, e) == {f \in StoreActive(K, e) : f[1] # TxInstant} = Of(S, e)

\* The store, or what it will be.
DocInv ==
  /\ expect \in SUBSET (Eids \X Attrs \X AnyValue)
  /\ \A e \in Eids \ (raced \cup resaved) : Documented(Pending, expect, e)

CachesInv == restarts = 0 => FreshInv /\ TidyInv /\ HydInv /\ AnchorInv /\ DocInv
-----------------------------------------------------------------------------
(* The steps of BatchWrite.                                                *)

\* The batch in progress is the newest part of the store.
LEMMA BatchOverlay ==
  ASSUME EntitiesInv, TidyInv, wr.pc # "idle", NEW e, e \notin resaved
  PROVE  /\ StoreActive(datoms \cup ToSet(Batch), e)
              = (StoreActive(datoms, e) \cup Adds(ToSet(Batch), e)) \ Rets(ToSet(Batch), e)
         /\ Adds(ToSet(Batch), e) \cap Rets(ToSet(Batch), e) = {}
<1> DEFINE K == ToSet(Batch)
<1>1. wr.todo \in Seq(Seq(Datoms)) /\ wr.todo # <<>> /\ Batch = wr.todo[1] /\ K \subseteq Datoms
  BY BatchType
<1>2. PICK t \in 1 .. MaxTx : t = wr.t
  BY DEF EntitiesInv, WriteInv, IntentInv
<1>3. datoms \in SUBSET Datoms /\ \A d \in datoms : d.t <= t
  <2>1. \A d \in datoms : d \in Datoms /\ d.t < t + 1
    BY <1>2 DEF EntitiesInv, TypeInv, StampInv, WriteInv
  <2> QED
    BY <2>1, Numbers DEF Datoms
<1>4. \A d \in K : d.t = t
  <2>1. PICK k \in 1 .. Len(intent[t]) :
           /\ Len(wr.todo) = Len(intent[t]) - k + 1
           /\ \A i \in 1 .. Len(wr.todo) : wr.todo[i] = intent[t][i + k - 1]
    BY <1>2 DEF EntitiesInv, WriteInv
  <2>2. t \in DOMAIN intent /\ intent[t] \in Seq(Seq(Stamped(t))) /\ Len(intent[t]) \in Nat
    BY <1>2 DEF EntitiesInv, WriteInv, IntentInv
  <2>3. 1 \in 1 .. Len(wr.todo) /\ 1 + k - 1 = k
    BY <1>1, <2>1, <2>2
  <2>4. Batch = intent[t][k] /\ intent[t][k] \in Seq(Stamped(t))
    BY <1>1, <2>1, <2>2, <2>3
  <2> QED
    BY <2>4 DEF ToSet, Stamped
<1>5. \A d \in K : \A r \in datoms \cup K :
        d.e = e /\ d.op = "add" /\ r.op = "ret" /\ SameFact(d, r) => r.t < t
  <2>1. 1 \in DOMAIN wr.todo /\ 1 \in 1 .. 1
    BY <1>1
  <2>2. K \subseteq UNION {ToSet(wr.todo[i]) : i \in 1 .. 1}
    BY <1>1, <2>1
  <2>3. ASSUME NEW d \in K, NEW r \in datoms \cup K,
               d.e = e, d.op = "add", r.op = "ret", SameFact(d, r)
        PROVE  r.t < t
    <3>1. d \in ToSet(wr.todo[1]) /\ d.e \notin resaved /\ d.t = t
      BY <1>1, <1>4, <2>3
    <3>2. r \in datoms \cup UNION {ToSet(wr.todo[i]) : i \in 1 .. 1}
      BY <2>2
    <3>3. r.t < d.t
      BY <2>1, <2>3, <3>1, <3>2 DEF TidyInv
    <3> QED
      BY <3>1, <3>3
  <2> QED
    BY <2>3
<1> HIDE DEF K
<1>6. StoreActive(datoms \cup K, e) = (StoreActive(datoms, e) \cup Adds(K, e)) \ Rets(K, e)
  <2>1. Newer(datoms, K, t, e)
    BY <1>3, <1>4, <1>5 DEF Newer
  <2>2. datoms \in SUBSET Datoms /\ K \in SUBSET Datoms /\ t \in 1 .. MaxTx
    BY <1>1, <1>3
  <2> QED
    BY <2>1, <2>2, Overlay
<1>7. Adds(K, e) \cap Rets(K, e) = {}
  <2> SUFFICES ASSUME NEW d \in K, NEW r \in K, d.e = e, d.op = "add", r.e = e, r.op = "ret",
                      <<d.a, d.v>> = <<r.a, r.v>>
               PROVE  FALSE
    BY DEF Adds, Rets
  <2>1. SameFact(d, r)
    BY DEF SameFact
  <2>2. r.t < t /\ r.t = t /\ t \in Int
    BY <1>4, <1>5, <2>1
  <2> QED
    BY <2>2
<1> QED
  BY <1>6, <1>7 DEF K

\* The anchors take the batch before the log does.
LEMMA JournalCaches ==
  ASSUME EntitiesInv, FreshInv, TidyInv, HydInv, AnchorInv, Journal
  PROVE  FreshInv' /\ TidyInv' /\ HydInv' /\ AnchorInv'
<1>1. /\ wr.pc = "journal" /\ anchors' \in Anchored(Batch) /\ journal' = journal \cup ToSet(Batch)
      /\ wr' = [wr EXCEPT !.pc = "apply"]
      /\ UNCHANGED <<datoms, hyd, nextSeq, rd, raced, resaved>>
  BY DEF Journal
<1>2. wr'.pc = "apply" /\ wr'.todo = wr.todo /\ Batch' = Batch
  BY <1>1 DEF EntitiesInv, TypeInv, Batch
<1>3. /\ TypeInv /\ Batch \in Seq(Datoms) /\ Batch = wr.todo[1] /\ 1 \in DOMAIN wr.todo
  BY <1>1, BatchType DEF EntitiesInv
<1>4. \A f \in DOMAIN anchors' : /\ Mirrored(anchors, ToSet(Batch), f, anchors'[f])
                                 /\ f \in DOMAIN anchors \/ f[1] \in Unique
  BY <1>1, <1>3, AnchoredEffect
<1>5. \A d \in ToSet(Batch) : d.e < UserEid(nextSeq.user)
  BY <1>3 DEF FreshInv
<1>6. FreshInv'
  BY <1>1, <1>2, <1>4, <1>5 DEF FreshInv, Mirrored
<1>7. TidyInv'
  BY <1>1, <1>2 DEF TidyInv
<1>8. HydInv'
  BY <1>1, <1>2 DEF HydInv, Shown
<1>9. AnchorInv'
  <2> SUFFICES ASSUME NEW f \in DOMAIN anchors', anchors'[f] \notin resaved
               PROVE  f[1] \in Unique /\ f \in StoreActive(datoms \cup ToSet(Batch), anchors'[f])
    <3>1. Shown({"apply", "insert"})' = datoms \cup ToSet(Batch)
      BY <1>1, <1>2 DEF Shown
    <3>2. \A f \in DOMAIN anchors' : f[1] \in Unique
      BY <1>4 DEF AnchorInv
    <3> QED
      BY <1>1, <3>1, <3>2 DEF AnchorInv
  <2>1. f[1] \in Unique
    BY <1>4 DEF AnchorInv
  <2>2. PICK e : e = anchors'[f] /\ e \notin resaved
    OBVIOUS
  <2> DEFINE K == ToSet(Batch)
  <2>3. /\ StoreActive(datoms \cup K, e) = (StoreActive(datoms, e) \cup Adds(K, e)) \ Rets(K, e)
        /\ Adds(K, e) \cap Rets(K, e) = {}
    BY <1>1, <2>2, BatchOverlay
  <2> HIDE DEF K
  <2>4. CASE \E d \in K : d.op = "add" /\ <<d.a, d.v>> = f /\ d.e = e
    <3>1. f \in Adds(K, e)
      BY <2>4 DEF Adds
    <3> QED
      BY <2>1, <2>2, <2>3, <3>1 DEF K
  <2>5. CASE f \in DOMAIN anchors /\ e = anchors[f] /\ \A d \in K : d.a \in Unique => <<d.a, d.v>> # f
    <3>1. f \in StoreActive(datoms, e)
      BY <1>1, <2>2, <2>5 DEF AnchorInv, Shown
    <3>2. f \notin Rets(K, e)
      BY <2>1, <2>5 DEF Rets
    <3> QED
      BY <2>1, <2>2, <2>3, <3>1, <3>2 DEF K
  <2> QED
    BY <1>4, <2>2, <2>4, <2>5 DEF Mirrored, K
<1> QED
  BY <1>6, <1>7, <1>8, <1>9

\* The hydrated set takes the batch before the memtable does.
LEMMA ApplyCaches ==
  ASSUME EntitiesInv, FreshInv, TidyInv, HydInv, AnchorInv, ApplyKeys
  PROVE  FreshInv' /\ TidyInv' /\ HydInv' /\ AnchorInv'
<1>1. /\ wr.pc = "apply" /\ hyd' = FoldLeft(ApplyKey, hyd, Batch) /\ raced' = raced \cup Overlapped
      /\ wr' = [wr EXCEPT !.pc = "insert"]
      /\ UNCHANGED <<journal, datoms, anchors, nextSeq, rd, resaved>>
  BY DEF ApplyKeys
<1>2. wr'.pc = "insert" /\ wr'.todo = wr.todo /\ Batch' = Batch
  BY <1>1 DEF EntitiesInv, TypeInv, Batch
<1>3. Batch \in Seq(Datoms) /\ hyd \in Caches
  BY <1>1, BatchType DEF EntitiesInv, TypeInv
<1>4. DOMAIN hyd' = DOMAIN hyd
  BY <1>1, <1>3, ApplyDomain
<1>5. FreshInv'
  BY <1>1, <1>2, <1>4 DEF FreshInv
<1>6. TidyInv'
  BY <1>1, <1>2 DEF TidyInv
<1>7. AnchorInv'
  <2>1. Shown({"apply", "insert"})' = Shown({"apply", "insert"})
    BY <1>1, <1>2 DEF Shown
  <2> QED
    BY <1>1, <2>1 DEF AnchorInv
<1>8. HydInv'
  <2>1. Shown({"insert"})' = datoms \cup ToSet(Batch)
    BY <1>1, <1>2 DEF Shown
  <2>2. ASSUME NEW e \in DOMAIN hyd, e \notin raced, e \notin resaved
        PROVE  hyd'[e] = StoreActive(datoms \cup ToSet(Batch), e)
    <3> DEFINE K == ToSet(Batch)
    <3>1. /\ StoreActive(datoms \cup K, e) = (StoreActive(datoms, e) \cup Adds(K, e)) \ Rets(K, e)
          /\ Adds(K, e) \cap Rets(K, e) = {}
      BY <1>1, <2>2, BatchOverlay
    <3>2. hyd[e] = StoreActive(datoms, e)
      BY <1>1, <2>2 DEF HydInv, Shown
    <3>3. hyd'[e] = (hyd[e] \cup Adds(K, e)) \ Rets(K, e)
      BY <1>1, <1>3, <3>1, ApplyEffect
    <3> QED
      BY <3>1, <3>2, <3>3
  <2>3. \A e \in DOMAIN hyd' \ (raced' \cup resaved') : hyd'[e] = StoreActive(Shown({"insert"})', e)
    BY <1>1, <1>4, <2>1, <2>2
  <2>4. rd'.pc = "scanned" /\ rd'.e \notin raced' => rd'.keys = StoreActive(datoms', rd'.e)
    BY <1>1 DEF HydInv
  <2> QED
    BY <2>3, <2>4 DEF HydInv
<1> QED
  BY <1>5, <1>6, <1>7, <1>8

\* The memtable takes the batch; a query that scanned before is out of date
\* if the batch touches its entity.
LEMMA InsertCaches ==
  ASSUME EntitiesInv, FreshInv, TidyInv, HydInv, AnchorInv, Insert
  PROVE  FreshInv' /\ TidyInv' /\ HydInv' /\ AnchorInv'
<1>1. /\ wr.pc = "insert" /\ datoms' = datoms \cup ToSet(Batch) /\ raced' = raced \cup Overlapped
      /\ wr' = IF Len(wr.todo) = 1 THEN Idle
               ELSE [wr EXCEPT !.pc = "journal", !.todo = Tail(wr.todo)]
      /\ UNCHANGED <<journal, anchors, hyd, nextSeq, rd, resaved>>
  BY DEF Insert
<1>2. /\ wr.todo \in Seq(Seq(Datoms)) /\ wr.todo # <<>> /\ Batch = wr.todo[1]
  BY <1>1, BatchType
<1>3. /\ wr'.pc \in {"idle", "journal"} /\ DOMAIN wr'.todo \subseteq Nat
      /\ \A j \in DOMAIN wr'.todo : /\ j \in Nat /\ j + 1 \in DOMAIN wr.todo
                                    /\ wr'.todo[j] = wr.todo[j + 1]
  <2>1. CASE Len(wr.todo) = 1
    BY <1>1, <2>1 DEF Idle
  <2>2. CASE Len(wr.todo) # 1
    <3>1. wr'.pc = "journal" /\ wr'.todo = Tail(wr.todo)
      BY <1>1, <2>2 DEF EntitiesInv, TypeInv
    <3>2. PICK s \in Seq(Seq(Datoms)) : s = wr.todo /\ s # <<>>
      BY <1>2
    <3>3. /\ Tail(s) \in Seq(Seq(Datoms)) /\ Len(Tail(s)) = Len(s) - 1
          /\ \A i \in 1 .. Len(Tail(s)) : Tail(s)[i] = s[i + 1]
      BY <3>2, HeadTailProperties
    <3>4. Len(s) \in Nat /\ DOMAIN s = 1 .. Len(s) /\ DOMAIN Tail(s) = 1 .. Len(s) - 1
      BY <3>2, <3>3
    <3>5. ASSUME NEW j \in DOMAIN Tail(s) PROVE j \in Nat /\ j + 1 \in DOMAIN s /\ Tail(s)[j] = s[j + 1]
      <4>1. j \in 1 .. Len(Tail(s))
        BY <3>3, <3>4
      <4> QED
        BY <3>3, <3>4, <4>1
    <3> QED
      BY <3>1, <3>2, <3>5
  <2> QED
    BY <2>1, <2>2
<1>4. FreshInv'
  BY <1>1, <1>3 DEF FreshInv
<1>5. TidyInv'
  <2> SUFFICES ASSUME NEW j \in DOMAIN wr'.todo, NEW d \in ToSet(wr'.todo[j]),
                      d.op = "add", d.e \notin resaved,
                      NEW r \in datoms' \cup UNION {ToSet(wr'.todo[i]) : i \in 1 .. j},
                      r.op = "ret", SameFact(d, r)
               PROVE  r.t < d.t
    BY <1>1 DEF TidyInv
  <2>1. /\ j \in Nat /\ j + 1 \in DOMAIN wr.todo /\ wr'.todo[j] = wr.todo[j + 1]
        /\ DOMAIN wr.todo = 1 .. Len(wr.todo) /\ Len(wr.todo) \in Nat
    BY <1>2, <1>3
  <2>2. r \in datoms \cup UNION {ToSet(wr.todo[i]) : i \in 1 .. j + 1}
    <3>1. 1 \in 1 .. j + 1
      BY <2>1
    <3>2. CASE r \in datoms'
      BY <1>1, <1>2, <3>1, <3>2
    <3>3. CASE \E i \in 1 .. j : r \in ToSet(wr'.todo[i])
      <4>1. PICK i \in 1 .. j : r \in ToSet(wr'.todo[i])
        BY <3>3
      <4>2. i \in DOMAIN wr'.todo
        <5>1. wr'.todo \in Seq(Seq(Datoms))
          BY EntitiesInv, InsertStep DEF EntitiesInv, TypeInv
        <5>2. DOMAIN wr'.todo = 1 .. Len(wr'.todo) /\ Len(wr'.todo) \in Nat
          BY <5>1
        <5> QED
          BY <2>1, <5>2
      <4>3. r \in ToSet(wr.todo[i + 1]) /\ i + 1 \in 1 .. j + 1
        BY <1>3, <2>1, <4>1, <4>2
      <4> QED
        BY <4>3
    <3> QED
      BY <3>2, <3>3
  <2> QED
    BY <2>1, <2>2 DEF TidyInv
<1>6. HydInv'
  <2>1. Shown({"insert"})' = datoms' /\ Shown({"insert"}) = datoms'
    BY <1>1, <1>3 DEF Shown
  <2>2. \A e \in DOMAIN hyd' \ (raced' \cup resaved') : hyd'[e] = StoreActive(Shown({"insert"})', e)
    BY <1>1, <2>1 DEF HydInv
  <2>3. ASSUME rd'.pc = "scanned", rd'.e \notin raced' PROVE rd'.keys = StoreActive(datoms', rd'.e)
    <3>1. rd.keys = StoreActive(datoms, rd.e) /\ rd' = rd
      BY <1>1, <2>3 DEF HydInv
    <3>2. \A d \in ToSet(Batch) : d.e # rd.e
      BY <1>1, <2>3 DEF Overlapped, Touches
    <3>3. StoreActive(datoms \cup ToSet(Batch), rd.e) = StoreActive(datoms, rd.e)
      BY <3>2, Untouched
    <3> QED
      BY <1>1, <3>1, <3>3
  <2> QED
    BY <2>2, <2>3 DEF HydInv
<1>7. AnchorInv'
  <2>1. Shown({"apply", "insert"})' = datoms' /\ Shown({"apply", "insert"}) = datoms'
    BY <1>1, <1>3 DEF Shown
  <2> QED
    BY <1>1, <2>1 DEF AnchorInv
<1> QED
  BY <1>4, <1>5, <1>6, <1>7

\* Queries, between the steps of a writer.
LEMMA QueryCaches ==
  ASSUME EntitiesInv, FreshInv, TidyInv, HydInv, AnchorInv,
         (\E e \in UserEids : QueryScan(e)) \/ QueryInstall
  PROVE  FreshInv' /\ TidyInv' /\ HydInv' /\ AnchorInv'
<1>1. /\ UNCHANGED <<journal, datoms, anchors, nextSeq, wr, resaved>> /\ raced \subseteq raced'
      /\ Batch' = Batch /\ (\A S : Shown(S)' = Shown(S))
  BY DEF QueryScan, QueryInstall, Batch, Shown
<1>2. TidyInv' /\ AnchorInv'
  BY <1>1 DEF TidyInv, AnchorInv
<1>3. ASSUME NEW e \in UserEids, QueryScan(e) PROVE FreshInv' /\ HydInv'
  <2>1. /\ StoreActive(datoms, e) # {} /\ UNCHANGED <<hyd, raced>>
        /\ rd' = [pc |-> "scanned", e |-> e, keys |-> StoreActive(datoms, e)]
    BY <1>3 DEF QueryScan
  <2>2. rd'.e = e /\ rd'.keys = StoreActive(datoms, e) /\ rd'.pc = "scanned"
    BY <2>1
  <2>3. \E d \in datoms : d.e = e
    BY <2>1, NoKeysNoFacts
  <2>4. e < UserEid(nextSeq.user)
    BY <2>3 DEF FreshInv, EntitiesInv, TypeInv
  <2>5. FreshInv'
    BY <1>1, <2>1, <2>2, <2>4 DEF FreshInv
  <2>6. HydInv'
    BY <1>1, <2>1, <2>2 DEF HydInv
  <2> QED
    BY <2>5, <2>6
<1>4. ASSUME QueryInstall PROVE FreshInv' /\ HydInv'
  <2>1. /\ rd.pc = "scanned" /\ hyd' \in Hydrated(hyd, rd.e, rd.keys) /\ rd'.pc = "idle"
        /\ raced' = raced \cup IF wr.pc = "insert" /\ Touches(Batch, rd.e) THEN {rd.e} ELSE {}
    BY <1>4 DEF QueryInstall, NoQuery
  <2>2. hyd \in Caches
    BY DEF EntitiesInv, TypeInv
  <2>3. \A x \in DOMAIN hyd' : \/ x \in DOMAIN hyd /\ hyd'[x] = hyd[x]
                               \/ x = rd.e /\ hyd'[x] = rd.keys
    BY <2>1, <2>2, HydratedEffect
  <2>4. FreshInv'
    BY <1>1, <2>1, <2>3 DEF FreshInv
  <2>5. ASSUME rd.e \notin raced' PROVE rd.keys = StoreActive(Shown({"insert"}), rd.e)
    <3>1. rd.keys = StoreActive(datoms, rd.e)
      BY <2>1, <2>5 DEF HydInv
    <3>2. wr.pc = "insert" => \A d \in ToSet(Batch) : d.e # rd.e
      BY <2>1, <2>5 DEF Touches
    <3> QED
      BY <3>1, <3>2, Untouched DEF Shown
  <2>6. HydInv'
    BY <1>1, <2>1, <2>3, <2>5 DEF HydInv
  <2> QED
    BY <2>4, <2>6
<1> QED
  BY <1>2, <1>3, <1>4
-----------------------------------------------------------------------------
(* The entities of a transaction.                                          *)

\* A lookup answers an entity that was allocated.
LEMMA LookupBelow ==
  ASSUME EntitiesInv, FreshInv, NEW a, NEW v, Lookup(a, v) # NoEid
  PROVE  Lookup(a, v) < UserEid(nextSeq.user)
<1>1. CASE <<a, v>> \in DOMAIN anchors
  BY <1>1 DEF Lookup, FreshInv
<1>2. CASE <<a, v>> \notin DOMAIN anchors
  <2>1. Holders(a, v) # {} /\ Holders(a, v) \subseteq Eids /\ Lookup(a, v) = Min(Holders(a, v))
    <3>1. Holders(a, v) \subseteq Eids
      BY DEF Holders, EntitiesInv, TypeInv, Datoms
    <3> QED
      BY <1>2, <3>1 DEF Lookup
  <2>2. Lookup(a, v) \in Holders(a, v)
    BY <2>1, Numbers, MinLeast
  <2>3. \E d \in datoms : d.e = Lookup(a, v)
    BY <2>2 DEF Holders
  <2> QED
    BY <2>3 DEF FreshInv, EntitiesInv, TypeInv
<1> QED
  BY <1>1, <1>2

\* Between transactions it answers one that has the value.
LEMMA LookupActive ==
  ASSUME EntitiesInv, AnchorInv, wr.pc = "idle", NEW a, NEW v, NEW e, e = Lookup(a, v), e # NoEid
  PROVE  e \in resaved \/ (e \in Holders(a, v) /\ <<a, v>> \in StoreActive(datoms, e))
<1>1. Shown({"apply", "insert"}) = datoms
  BY DEF Shown
<1>2. CASE <<a, v>> \in DOMAIN anchors
  <2>1. e = anchors[<<a, v>>]
    BY <1>2 DEF Lookup
  <2>2. e \in resaved \/ <<a, v>> \in StoreActive(datoms, e)
    BY <1>1, <1>2, <2>1 DEF AnchorInv
  <2>3. ASSUME <<a, v>> \in StoreActive(datoms, e) PROVE e \in Holders(a, v)
    <3>1. PICK d \in datoms : Shows(datoms, d, e, <<a, v>>)
      BY <2>3, ActiveShown
    <3>2. d.e = e /\ d.a = a
      BY <3>1 DEF Shows
    <3> QED
      BY <2>3, <3>2 DEF Holders
  <2> QED
    BY <2>2, <2>3
<1>3. CASE <<a, v>> \notin DOMAIN anchors
  <2>1. Holders(a, v) # {} /\ e = Min(Holders(a, v))
    BY <1>3 DEF Lookup
  <2>2. Holders(a, v) \in SUBSET Nat
    BY Numbers DEF Holders, EntitiesInv, TypeInv, Datoms
  <2>3. e \in Holders(a, v)
    BY <2>1, <2>2, MinLeast
  <2> QED
    BY <2>3 DEF Holders
<1> QED
  BY <1>2, <1>3

\* So does the lookup an op owns.
LEMMA ResultBelow ==
  ASSUME EntitiesInv, FreshInv, NEW op, Result(op) # NoEid
  PROVE  Result(op) < UserEid(nextSeq.user)
BY LookupBelow DEF Result

\* A tempid is first used by an op of its own.
LEMMA FirstUses ==
  ASSUME NEW ops \in TxData, NEW n \in Tids(ops)
  PROVE  /\ FirstUse(ops, n) \in Nat /\ FirstUse(ops, n) \in DOMAIN ops
         /\ ops[FirstUse(ops, n)].e = Tid(n)
<1> DEFINE U == {i \in DOMAIN ops : ops[i].e = Tid(n)}
<1>1. PICK i \in DOMAIN ops : ops[i].e.k = "tid" /\ ops[i].e.n = n
  BY DEF Tids
<1>2. ops[i].e \in TidSlots
  BY <1>1, RequestShape DEF EidSlots, TidSlots
<1>3. ops[i].e = Tid(n)
  BY <1>1, <1>2 DEF TidSlots, Tid
<1>4. U # {} /\ U \in SUBSET Nat
  BY <1>3, RequestShape
<1>5. Min(U) \in U
  BY <1>4, MinLeast
<1> QED
  BY <1>4, <1>5 DEF FirstUse

\* anchorEid: fresh tempids get different new entities, next to each other.
LEMMA FreshRanks ==
  ASSUME EntitiesInv, NEW ops \in TxData, Submitted(ops),
         NEW fresh, fresh = {Resolved(ops, n) : n \in FreshTids(ops)}
  PROVE  /\ Cardinality(fresh) = Cardinality(FreshTids(ops)) /\ Cardinality(fresh) \in Nat
         /\ fresh \subseteq UserEids
         /\ \A e \in fresh : /\ UserEid(nextSeq.user) <= e
                             /\ e < UserEid(nextSeq.user + Cardinality(fresh))
<1> DEFINE F == FreshTids(ops)
           B(n) == {m \in F : FirstUse(ops, m) < FirstUse(ops, n)}
           rank(n) == Cardinality(B(n))
<1>1. IsFiniteSet(F) /\ Cardinality(F) \in Nat /\ F \subseteq Tids(ops)
  BY TidsFinite, FS_CardinalityType DEF FreshTids
<1>2. \A n \in F : FirstUse(ops, n) \in Nat
  BY <1>1, FirstUses
<1>3. ASSUME NEW n \in F, NEW m \in F, FirstUse(ops, n) = FirstUse(ops, m) PROVE n = m
  <2>1. Tid(n) = Tid(m)
    BY <1>1, <1>3, FirstUses
  <2> QED
    BY <2>1 DEF Tid
<1>4. ASSUME NEW n \in F PROVE IsFiniteSet(B(n)) /\ rank(n) \in Nat /\ n \notin B(n) /\ rank(n) < Cardinality(F)
  <2>1. n \notin B(n) /\ B(n) \subseteq F \ {n}
    BY <1>2
  <2>2. IsFiniteSet(F \ {n}) /\ Cardinality(F \ {n}) = Cardinality(F) - 1
    BY <1>1, FS_RemoveElement
  <2> HIDE DEF F, B
  <2>3. IsFiniteSet(B(n)) /\ Cardinality(B(n)) <= Cardinality(F \ {n}) /\ Cardinality(B(n)) \in Nat
    BY <2>1, <2>2, FS_Subset, FS_CardinalityType
  <2> QED
    BY <1>1, <2>1, <2>2, <2>3
<1>5. ASSUME NEW n \in F, NEW m \in F, FirstUse(ops, n) < FirstUse(ops, m) PROVE rank(n) < rank(m)
  <2>1. B(n) \cup {n} \subseteq B(m)
    BY <1>2, <1>5
  <2>2. /\ IsFiniteSet(B(n)) /\ IsFiniteSet(B(m)) /\ n \notin B(n)
        /\ Cardinality(B(n)) \in Nat /\ Cardinality(B(m)) \in Nat
    BY <1>4
  <2> HIDE DEF F, B
  <2>3. IsFiniteSet(B(n) \cup {n}) /\ Cardinality(B(n) \cup {n}) = Cardinality(B(n)) + 1
    BY <2>2, FS_AddElement
  <2>4. Cardinality(B(n) \cup {n}) <= Cardinality(B(m))
    BY <2>1, <2>2, FS_Subset
  <2> QED
    BY <2>2, <2>3, <2>4
<1>6. ASSUME NEW n \in F PROVE Resolved(ops, n) = UserEid(nextSeq.user + rank(n))
  BY DEF Resolved
<1>7. nextSeq.user \in Nat /\ MaxTx \in Nat
  BY Numbers DEF EntitiesInv, TypeInv
<1> DEFINE f == [n \in F |-> Resolved(ops, n)]
<1>8. ASSUME NEW n \in F, NEW m \in F, Resolved(ops, n) = Resolved(ops, m) PROVE n = m
  <2>1. rank(n) \in Nat /\ rank(m) \in Nat
    BY <1>4
  <2>2. UserEid(nextSeq.user + rank(n)) = UserEid(nextSeq.user + rank(m))
    BY <1>6, <1>8
  <2>3. ~(rank(n) < rank(m)) /\ ~(rank(m) < rank(n))
    <3> HIDE DEF rank
    <3> QED
      BY <1>7, <2>1, <2>2 DEF UserEid
  <2>4. FirstUse(ops, n) = FirstUse(ops, m)
    BY <1>2, <1>5, <2>3
  <2> QED
    BY <1>3, <2>4
<1>9. f \in Bijection(F, fresh)
  <2> HIDE DEF F
  <2>1. f \in [F -> fresh] /\ \A e \in fresh : \E n \in F : f[n] = e
    BY DEF F
  <2>2. \A n, m \in F : f[n] = f[m] => n = m
    BY <1>8
  <2> QED
    BY <2>1, <2>2 DEF Bijection, Injection, Surjection, IsInjective
<1>10. Cardinality(fresh) = Cardinality(F)
  <2> HIDE DEF F, f
  <2>1. ExistsBijection(F, fresh)
    BY <1>9 DEF ExistsBijection
  <2> QED
    BY <1>1, <2>1, FS_Bijection
<1>11. fresh \subseteq UserEids
  BY <1>1, ResolvedType DEF EntitiesInv
<1>12. ASSUME NEW e \in fresh
       PROVE UserEid(nextSeq.user) <= e /\ e < UserEid(nextSeq.user + Cardinality(fresh))
  <2>1. PICK n \in F : e = UserEid(nextSeq.user + rank(n))
    BY <1>6
  <2>2. rank(n) \in Nat /\ rank(n) < Cardinality(fresh) /\ Cardinality(fresh) \in Nat
    BY <1>1, <1>4, <1>10
  <2> HIDE DEF rank, F
  <2> QED
    BY <1>7, <2>1, <2>2 DEF UserEid
<1> QED
  BY <1>1, <1>10, <1>11, <1>12

\* Every accepted op is about an entity that is allocated once the transaction
\* has its ids.
LEMMA EidBelow ==
  ASSUME EntitiesInv, FreshInv, NEW ops, Accepted(ops), NEW i \in DOMAIN ops, NEW t \in 1 .. MaxTx,
         NEW c \in Nat, c = Cardinality({Resolved(ops, n) : n \in FreshTids(ops)})
  PROVE  EidOf(ops, ops[i], t) < UserEid(nextSeq.user + c)
<1>1. ops \in TxData /\ Submitted(ops) /\ ~Rejected(ops, ops[i])
  BY DEF Accepted
<1>2. nextSeq.user \in Nat \ {0} /\ MaxTx \in Nat
  BY Numbers DEF EntitiesInv, TypeInv
<1>3. EidOf(ops, ops[i], t) \in Nat
  BY SlotTypes, Numbers DEF EntitiesInv
<1>4. ASSUME EidOf(ops, ops[i], t) < UserEid(nextSeq.user) PROVE EidOf(ops, ops[i], t) < UserEid(nextSeq.user + c)
  BY <1>2, <1>3, <1>4 DEF UserEid
<1>5. CASE ops[i].e.k = "tid"
  <2>1. PICK n \in Tids(ops) : EidOf(ops, ops[i], t) = Resolved(ops, n)
    BY <1>5 DEF Tids, EidOf
  <2>2. CASE n \in FreshTids(ops)
    BY <1>1, <2>1, <2>2, FreshRanks
  <2>3. CASE n \notin FreshTids(ops)
    <3>1. Resolved(ops, n) = Upserted(ops, n) /\ Upserted(ops, n) # NoEid
      BY <2>3 DEF Resolved, FreshTids
    <3>2. PICK op : Resolved(ops, n) = Result(op) /\ Result(op) # NoEid
      BY <3>1 DEF Upserted
    <3> QED
      BY <1>4, <2>1, <3>2, ResultBelow
  <2> QED
    BY <2>2, <2>3
<1>6. CASE ops[i].e.k = "eid"
  <2>1. EidOf(ops, ops[i], t) = UserEid(ops[i].e.n) /\ Known(UserEid(ops[i].e.n))
    BY <1>1, <1>6 DEF EidOf, Submitted
  <2>2. UserEid(ops[i].e.n) < UserEid(nextSeq.user)
    BY <2>1 DEF Known, FreshInv, EntitiesInv, TypeInv
  <2> QED
    BY <1>4, <2>1, <2>2
<1>7. CASE ops[i].e.k = "ref"
  <2>1. EidOf(ops, ops[i], t) = Result(ops[i]) /\ Result(ops[i]) # NoEid
    BY <1>1, <1>7 DEF EidOf, Rejected
  <2> QED
    BY <1>4, <2>1, ResultBelow
<1>8. CASE ops[i].e.k \notin {"tid", "eid", "ref"}
  <2>1. EidOf(ops, ops[i], t) = t
    BY <1>8 DEF EidOf, TxEid
  <2> QED
    BY <1>2, <2>1 DEF UserEid
<1> QED
  BY <1>5, <1>6, <1>7, <1>8
-----------------------------------------------------------------------------
(* The keys of a batch.                                                    *)

\* What saveResolvedEncodedInto finds to supersede.
Superseded(cache, e, a) == IF a \in Many THEN {} ELSE {f \in ScanActive(cache, e) : f[1] = a}

\* The keys it writes: those and the assertion.
LEMMA SaveIntoKeys ==
  ASSUME TypeInv, NEW cache \in Caches, NEW e, NEW a, NEW v, NEW t
  PROVE  ToSet(SaveInto(cache, e, a, v, t))
           = {Datom(e, a, f[2], t, "ret") : f \in Superseded(cache, e, a)} \cup {Datom(e, a, v, t, "add")}
<1> DEFINE old == Superseded(cache, e, a)
           D == {Datom(e, a, f[2], t, "ret") : f \in old}
           g == [f \in old |-> Datom(e, a, f[2], t, "ret")]
           x == Datom(e, a, v, t, "add")
<1>1. ScanActive(cache, e) \in FactSets
  BY ScanActiveType
<1>2. IsFiniteSet(old)
  <2>1. old \in SUBSET ScanActive(cache, e)
    BY DEF Superseded
  <2> HIDE DEF old
  <2> QED
    BY <1>1, <2>1, FS_Subset DEF FactSets
<1>3. SaveInto(cache, e, a, v, t) = SetToSeq(D) \o <<x>>
  BY DEF SaveInto, Superseded
<1> HIDE DEF old
<1>4. g \in Surjection(old, D)
  BY DEF Surjection
<1>5. IsFiniteSet(D)
  BY <1>2, <1>4, FS_Surjection
<1> HIDE DEF D, x
<1>6. SetToSeq(D) \in Seq(D) /\ ToSet(SetToSeq(D)) = D
  BY <1>5, SetToSeqElements
<1>7. SetToSeq(D) \in Seq(D \cup {x}) /\ <<x>> \in Seq(D \cup {x}) /\ ToSet(<<x>>) = {x}
  BY <1>6 DEF ToSet
<1>8. ToSet(SetToSeq(D) \o <<x>>) = D \cup {x}
  <2> DEFINE p == SetToSeq(D)
             q == <<x>>
             S == D \cup {x}
  <2>1. p \in Seq(S) /\ q \in Seq(S) /\ ToSet(p) = D /\ ToSet(q) = {x}
    BY <1>6, <1>7
  <2> HIDE DEF p, q, S
  <2>2. ToSet(p \o q) = ToSet(p) \cup ToSet(q)
    BY <2>1, ConcatElements
  <2> QED
    BY <2>1, <2>2 DEF p, q
<1> QED
  BY <1>3, <1>8 DEF D, x, old

\* Op i of a transaction is an assertion of something that is not there.
Asserted(ops, cache, t, i) ==
  ops[i].k = "add" /\ ~HasDatomW(cache, EidOf(ops, ops[i], t), ops[i].a, ValueOf(ops, ops[i]))

\* The keys of SaveBatchEdn: the transaction entity, and what each assertion saves.
LEMMA SaveBatchKeys ==
  ASSUME TypeInv, NEW ops, Accepted(ops), NEW cache \in Caches, NEW t \in 1 .. MaxTx
  PROVE  ToSet(SaveBatchEdn(ops, cache, t))
           = ToSet(TxInstantEntry(t)) \cup
             UNION {ToSet(SaveInto(cache, EidOf(ops, ops[i], t), ops[i].a, ValueOf(ops, ops[i]), t)) :
                      i \in {j \in DOMAIN ops : Asserted(ops, cache, t, j)}}
<1> DEFINE Save(i) == SaveInto(cache, EidOf(ops, ops[i], t), ops[i].a, ValueOf(ops, ops[i]), t)
           parts == [i \in DOMAIN ops |-> IF Asserted(ops, cache, t, i) THEN Save(i) ELSE <<>>]
           A == {j \in DOMAIN ops : Asserted(ops, cache, t, j)}
<1>1. ops \in TxData
  BY DEF Accepted
<1>2. SaveBatchEdn(ops, cache, t) = TxInstantEntry(t) \o FlattenSeq(parts)
  BY DEF SaveBatchEdn, Asserted
<1>3. ASSUME NEW i \in A PROVE Save(i) \in Seq(Stamped(t))
  <2>1. ops[i].a \in Attrs
    BY DEF Accepted, Rejected, Asserted
  <2> QED
    BY <2>1, SlotTypes, SaveIntoType
<1> HIDE DEF Save
<1>4. parts \in Seq(Seq(Stamped(t))) /\ DOMAIN parts = DOMAIN ops
  <2> DEFINE S == Seq(Stamped(t))
  <2>1. parts \in [DOMAIN ops -> S]
    BY <1>3
  <2>2. PICK n \in Nat : DOMAIN ops = 1 .. n
    BY <1>1, RequestShape
  <2> HIDE DEF parts, S
  <2>3. parts \in Seq(S) /\ DOMAIN parts = DOMAIN ops
    BY <2>1, <2>2
  <2> QED
    BY <2>3 DEF S
<1>5. \A i \in DOMAIN ops : ToSet(parts[i]) = IF i \in A THEN ToSet(Save(i)) ELSE {}
  BY DEF ToSet
<1> HIDE DEF parts, A
<1>6. /\ FlattenSeq(parts) \in Seq(Stamped(t))
      /\ ToSet(FlattenSeq(parts)) = UNION {ToSet(parts[i]) : i \in DOMAIN ops}
  BY <1>4, FlattenElements
<1>7. UNION {ToSet(parts[i]) : i \in DOMAIN ops} = UNION {ToSet(Save(i)) : i \in A}
  <2>1. A \subseteq DOMAIN ops
    BY DEF A
  <2> QED
    BY <1>5, <2>1
<1>8. TxInstantEntry(t) \in Seq(Stamped(t))
  BY TxInstantType
<1>9. ToSet(SaveBatchEdn(ops, cache, t)) = ToSet(TxInstantEntry(t)) \cup UNION {ToSet(Save(i)) : i \in A}
  <2> DEFINE p == TxInstantEntry(t)
             q == FlattenSeq(parts)
             S == Stamped(t)
  <2>1. p \in Seq(S) /\ q \in Seq(S)
    BY <1>6, <1>8
  <2> HIDE DEF p, q, S
  <2>2. ToSet(p \o q) = ToSet(p) \cup ToSet(q)
    BY <2>1, ConcatElements
  <2>3. ToSet(q) = UNION {ToSet(Save(i)) : i \in A}
    BY <1>6, <1>7 DEF q
  <2> QED
    BY <1>2, <2>2, <2>3 DEF p, q
<1> QED
  BY <1>9 DEF Save, A

\* The key of the transaction entity.
LEMMA TxInstantKey ==
  ASSUME NEW t
  PROVE  ToSet(TxInstantEntry(t)) = {Datom(TxEid(t), TxInstant, NoValue, t, "add")}
<1> DEFINE x == Datom(TxEid(t), TxInstant, NoValue, t, "add")
<1>1. TxInstantEntry(t) = <<x>>
  BY DEF TxInstantEntry
<1> HIDE DEF x
<1> QED
  BY <1>1 DEF ToSet, x

\* RetractBatch retracts what the ops of declared attributes say.
RetractKeys(ops, t) ==
  {Datom(EidOf(ops, ops[i], t), ops[i].a, ValueOf(ops, ops[i]), t, "ret") :
     i \in {j \in DOMAIN ops : ops[j].k = "ret" /\ ops[j].a \in Attrs}}

\* They are the batch, when there are any.
LEMMA RetractBatchKeys ==
  ASSUME TypeInv, NEW ops, Accepted(ops), NEW t \in 1 .. MaxTx
  PROVE  \/ RetractBatch(ops, t) = <<>> /\ RetractKeys(ops, t) = {}
         \/ \E b \in Seq(Stamped(t)) : RetractBatch(ops, t) = <<b>> /\ ToSet(b) = RetractKeys(ops, t)
<1> DEFINE key(i) == Datom(EidOf(ops, ops[i], t), ops[i].a, ValueOf(ops, ops[i]), t, "ret")
           A == {j \in DOMAIN ops : ops[j].k = "ret" /\ ops[j].a \in Attrs}
           parts == [i \in DOMAIN ops |-> IF i \in A THEN <<key(i)>> ELSE <<>>]
           all == FlattenSeq(parts)
<1>1. ops \in TxData
  BY DEF Accepted
<1>2. RetractBatch(ops, t) = IF all = <<>> THEN <<>> ELSE <<all>>
  <2>1. parts = [i \in DOMAIN ops |-> IF ops[i].k = "ret" /\ ops[i].a \in Attrs
                                      THEN <<key(i)>> ELSE <<>>]
    OBVIOUS
  <2> HIDE DEF parts
  <2> QED
    BY <2>1 DEF RetractBatch
<1>3. \A i \in A : key(i) \in Stamped(t)
  BY SlotTypes, DatomStamped
<1>4. RetractKeys(ops, t) = {key(i) : i \in A} /\ A \subseteq DOMAIN ops
  BY DEF RetractKeys
<1> HIDE DEF key, A
<1>5. parts \in Seq(Seq(Stamped(t))) /\ DOMAIN parts = DOMAIN ops
  <2> DEFINE S == Seq(Stamped(t))
  <2>1. parts \in [DOMAIN ops -> S]
    BY <1>3
  <2>2. PICK n \in Nat : DOMAIN ops = 1 .. n
    BY <1>1, RequestShape
  <2> HIDE DEF parts, S
  <2>3. parts \in Seq(S) /\ DOMAIN parts = DOMAIN ops
    BY <2>1, <2>2
  <2> QED
    BY <2>3 DEF S
<1>6. \A i \in DOMAIN ops : ToSet(parts[i]) = IF i \in A THEN {key(i)} ELSE {}
  BY DEF ToSet
<1> HIDE DEF parts
<1>7. all \in Seq(Stamped(t)) /\ ToSet(all) = UNION {ToSet(parts[i]) : i \in DOMAIN ops}
  BY <1>5, FlattenElements
<1>8. ToSet(all) = RetractKeys(ops, t)
  <2>1. UNION {ToSet(parts[i]) : i \in DOMAIN ops} = {key(i) : i \in A}
    <3> DEFINE P(i) == ToSet(parts[i])
    <3>1. \A i \in DOMAIN ops : P(i) = IF i \in A THEN {key(i)} ELSE {}
      BY <1>6
    <3>2. A \subseteq DOMAIN ops
      BY <1>4
    <3> HIDE DEF P
    <3>3. UNION {P(i) : i \in DOMAIN ops} = {key(i) : i \in A}
      BY <3>1, <3>2
    <3> QED
      BY <3>3 DEF P
  <2>2. ToSet(all) = UNION {ToSet(parts[i]) : i \in DOMAIN ops}
    BY <1>5, <1>7
  <2> QED
    BY <1>4, <2>1, <2>2
<1> HIDE DEF all
<1>9. all = <<>> => ToSet(all) = {}
  BY DEF ToSet
<1> QED
  BY <1>2, <1>7, <1>8, <1>9

\* Key d asserts the fact, or retracts another value that was found.
SavedAs(d, cache, e, a, v) ==
  /\ d.e = e /\ d.a = a
  /\ \/ d.op = "add" /\ d.v = v
     \/ d.op = "ret" /\ a \notin Many /\ <<a, d.v>> \in ScanActive(cache, e)

\* What one assertion saves is about its entity and attribute.
LEMMA SavedKeys ==
  ASSUME TypeInv, NEW cache \in Caches, NEW e, NEW a, NEW v, NEW t,
         NEW d, d \in ToSet(SaveInto(cache, e, a, v, t))
  PROVE  SavedAs(d, cache, e, a, v)
<1>1. ScanActive(cache, e) \in FactSets
  BY ScanActiveType
<1>2. \/ d = Datom(e, a, v, t, "add")
      \/ \E f \in Superseded(cache, e, a) : d = Datom(e, a, f[2], t, "ret")
  BY SaveIntoKeys
<1>3. ASSUME NEW f \in Superseded(cache, e, a)
      PROVE  a \notin Many /\ f \in ScanActive(cache, e) /\ f = <<a, f[2]>>
  <2>1. a \notin Many /\ f \in ScanActive(cache, e) /\ f[1] = a
    BY DEF Superseded
  <2>2. f \in Facts
    BY <1>1, <2>1 DEF FactSets
  <2> QED
    BY <2>1, <2>2 DEF Facts
<1>4. CASE d = Datom(e, a, v, t, "add")
  BY <1>4 DEF Datom, SavedAs
<1>5. ASSUME NEW f \in Superseded(cache, e, a), d = Datom(e, a, f[2], t, "ret")
      PROVE  d.e = e /\ d.a = a /\ d.op = "ret" /\ a \notin Many /\ <<a, d.v>> \in ScanActive(cache, e)
  BY <1>3, <1>5 DEF Datom
<1> QED
  BY <1>2, <1>4, <1>5 DEF SavedAs

\* SaveBatchEdn retracts what is there and asserts what is not.
LEMMA SaveBatchTidy ==
  ASSUME TypeInv, NEW ops, Accepted(ops), NEW cache \in Caches, NEW t \in 1 .. MaxTx,
         NEW y \in ToSet(SaveBatchEdn(ops, cache, t)), NEW r \in ToSet(SaveBatchEdn(ops, cache, t)),
         y.op = "add", r.op = "ret"
  PROVE  ~SameFact(y, r)
<1> DEFINE Save(i) == SaveInto(cache, EidOf(ops, ops[i], t), ops[i].a, ValueOf(ops, ops[i]), t)
           A == {j \in DOMAIN ops : Asserted(ops, cache, t, j)}
           x == Datom(TxEid(t), TxInstant, NoValue, t, "add")
<1>1. \A z \in ToSet(SaveBatchEdn(ops, cache, t)) : z = x \/ \E i \in A : z \in ToSet(Save(i))
  BY SaveBatchKeys, TxInstantKey
<1>2. x.op = "add" /\ x.a = TxInstant
  BY DEF Datom
<1>3. PICK i \in A : r \in ToSet(Save(i))
  BY <1>1, <1>2
<1>4. <<r.a, r.v>> \in ScanActive(cache, r.e) /\ r.a = ops[i].a
  <2>1. PICK e, a, v : r \in ToSet(SaveInto(cache, e, a, v, t)) /\ a = ops[i].a
    BY <1>3
  <2>2. r.e = e /\ r.a = a /\ <<a, r.v>> \in ScanActive(cache, e)
    <3>1. SavedAs(r, cache, e, a, v)
      BY <2>1, SavedKeys
    <3> QED
      BY <3>1 DEF SavedAs
  <2> QED
    BY <2>1, <2>2
<1>5. r.a # TxInstant
  <2>1. ops[i].a \in Attrs
    BY DEF Accepted, Rejected, Asserted
  <2> QED
    BY <1>4, <2>1, EntitySchema
<1>6. CASE y = x
  BY <1>2, <1>5, <1>6 DEF SameFact
<1>7. CASE \E j \in A : y \in ToSet(Save(j))
  <2>1. PICK j \in A : y \in ToSet(Save(j))
    BY <1>7
  <2>2. y.e = EidOf(ops, ops[j], t) /\ y.a = ops[j].a /\ y.v = ValueOf(ops, ops[j])
    <3>1. PICK e, a, v : /\ y \in ToSet(SaveInto(cache, e, a, v, t))
                         /\ e = EidOf(ops, ops[j], t) /\ a = ops[j].a /\ v = ValueOf(ops, ops[j])
      BY <2>1
    <3>2. SavedAs(y, cache, e, a, v)
      BY <3>1, SavedKeys
    <3> QED
      BY <3>1, <3>2 DEF SavedAs
  <2>3. <<y.a, y.v>> \notin ScanActive(cache, y.e)
    BY <2>2 DEF Asserted, HasDatomW
  <2> QED
    BY <1>4, <2>3 DEF SameFact
<1> QED
  BY <1>1, <1>6, <1>7

\* The entities of SaveBatchEdn are its transaction and those of its ops.
LEMMA SaveBatchEids ==
  ASSUME TypeInv, NEW ops, Accepted(ops), NEW cache \in Caches, NEW t \in 1 .. MaxTx,
         NEW y \in ToSet(SaveBatchEdn(ops, cache, t))
  PROVE  y.e = TxEid(t) \/ \E i \in DOMAIN ops : y.e = EidOf(ops, ops[i], t)
<1> DEFINE Save(i) == SaveInto(cache, EidOf(ops, ops[i], t), ops[i].a, ValueOf(ops, ops[i]), t)
           A == {j \in DOMAIN ops : Asserted(ops, cache, t, j)}
           x == Datom(TxEid(t), TxInstant, NoValue, t, "add")
<1>1. y = x \/ \E i \in A : y \in ToSet(Save(i))
  BY SaveBatchKeys, TxInstantKey
<1>2. CASE y = x
  BY <1>2 DEF Datom
<1>3. CASE \E i \in A : y \in ToSet(Save(i))
  <2>1. PICK i \in A : y \in ToSet(Save(i))
    BY <1>3
  <2>2. PICK e, a, v : y \in ToSet(SaveInto(cache, e, a, v, t)) /\ e = EidOf(ops, ops[i], t)
    BY <2>1
  <2>3. SavedAs(y, cache, e, a, v)
    BY <2>2, SavedKeys
  <2> QED
    BY <2>2, <2>3 DEF SavedAs
<1> QED
  BY <1>1, <1>2, <1>3
-----------------------------------------------------------------------------
(* A transaction begins.                                                   *)

\* No batch asserts a fact that it or an earlier one retracts, except of S.
Tidy(bs, S) ==
  \A j \in DOMAIN bs : \A i \in 1 .. j : \A d \in ToSet(bs[j]), r \in ToSet(bs[i]) :
    d.op = "add" /\ r.op = "ret" /\ SameFact(d, r) => d.e \in S

\* The batches are about entities below the counter b.
Fits(bs, b) == \A i \in DOMAIN bs : \A d \in ToSet(bs[i]) : d.e < UserEid(b)

\* So is cache h, which agrees with the store except on S.
HydFits(h, b, S) ==
  \A e \in DOMAIN h : /\ e < UserEid(b)
                      /\ e \notin raced \cup S => h[e] = StoreActive(datoms, e)

\* A transaction of such batches begins.
LEMMA BeginCaches ==
  ASSUME EntitiesInv, FreshInv, TidyInv, HydInv, AnchorInv, wr.pc = "idle",
         NEW t \in 1 .. MaxTx, t = nextSeq.tx, NEW fresh \in Nat,
         NEW batches \in Seq(Seq(Stamped(t))), NEW ops, NEW es, Begin(t, fresh, batches, ops, es),
         NEW S, S = resaved', resaved \subseteq S, NEW h, h = hyd',
         Fits(batches, nextSeq.user + fresh), Tidy(batches, S), HydFits(h, nextSeq.user + fresh, S)
  PROVE  FreshInv' /\ TidyInv' /\ HydInv' /\ AnchorInv'
<1>1. /\ nextSeq'.user = nextSeq.user + fresh /\ wr'.pc = "journal" /\ wr'.todo = batches
      /\ UNCHANGED <<journal, datoms, anchors, rd, raced>>
  BY DEF Begin
<1>2. nextSeq.user \in Nat /\ MaxTx \in Nat
  BY Numbers DEF EntitiesInv, TypeInv
<1>3. ASSUME NEW e \in Nat, e < UserEid(nextSeq.user) PROVE e < UserEid(nextSeq'.user)
  BY <1>1, <1>2, <1>3 DEF UserEid
<1>4. FreshInv'
  <2>1. \A d \in journal' : d.e < UserEid(nextSeq'.user)
    <3>1. \A d \in journal : d.e \in Nat
      BY Numbers DEF EntitiesInv, TypeInv, Datoms
    <3> QED
      BY <1>1, <1>3, <3>1 DEF FreshInv
  <2>2. \A f \in DOMAIN anchors' : anchors'[f] < UserEid(nextSeq'.user)
    <3>1. \A f \in DOMAIN anchors : anchors[f] \in Nat
      BY Numbers DEF EntitiesInv, TypeInv, Indexes
    <3> QED
      BY <1>1, <1>3, <3>1 DEF FreshInv
  <2>3. rd'.pc = "scanned" => rd'.e < UserEid(nextSeq'.user)
    <3>1. rd.pc = "scanned" => rd.e \in Nat
      BY Numbers DEF EntitiesInv, TypeInv
    <3> QED
      BY <1>1, <1>3, <3>1 DEF FreshInv
  <2>4. \A i \in DOMAIN wr'.todo : \A d \in ToSet(wr'.todo[i]) : d.e < UserEid(nextSeq'.user)
    BY <1>1 DEF Fits
  <2>5. \A e \in DOMAIN hyd' : e < UserEid(nextSeq'.user)
    BY <1>1 DEF HydFits
  <2> QED
    BY <2>1, <2>2, <2>3, <2>4, <2>5 DEF FreshInv
<1>5. TidyInv'
  <2> SUFFICES ASSUME NEW j \in DOMAIN batches, NEW d \in ToSet(batches[j]),
                      d.op = "add", d.e \notin S,
                      NEW r \in datoms \cup UNION {ToSet(batches[i]) : i \in 1 .. j},
                      r.op = "ret", SameFact(d, r)
               PROVE  r.t < d.t
    BY <1>1 DEF TidyInv
  <2>1. d.t = t
    <3>1. batches[j] \in Seq(Stamped(t))
      OBVIOUS
    <3> QED
      BY <3>1 DEF ToSet, Stamped
  <2>2. r \in datoms
    BY DEF Tidy
  <2> QED
    BY <2>1, <2>2 DEF EntitiesInv, TypeInv, StampInv
<1>6. HydInv'
  <2>1. Shown({"insert"})' = datoms
    BY <1>1 DEF Shown
  <2>2. \A e \in DOMAIN hyd' \ (raced' \cup resaved') : hyd'[e] = StoreActive(datoms, e)
    BY <1>1 DEF HydFits
  <2> QED
    BY <1>1, <2>1, <2>2 DEF HydInv
<1>7. AnchorInv'
  <2>1. Shown({"apply", "insert"})' = datoms /\ Shown({"apply", "insert"}) = datoms
    BY <1>1 DEF Shown
  <2> QED
    BY <1>1, <2>1 DEF AnchorInv
<1> QED
  BY <1>4, <1>5, <1>6, <1>7

\* Hyd.HydrateEmpty of entities that are being allocated.
LEMMA HydrateEmptyFits ==
  ASSUME EntitiesInv, FreshInv, HydInv, wr.pc = "idle", NEW es \in SUBSET Nat, NEW c \in Nat,
         \A e \in es : UserEid(nextSeq.user) <= e /\ e < UserEid(nextSeq.user + c)
  PROVE  /\ HydFits(HydrateEmpty(hyd, es), nextSeq.user + c, resaved)
         /\ \A e \in es : e \in DOMAIN HydrateEmpty(hyd, es) /\ HydrateEmpty(hyd, es)[e] = {}
<1> DEFINE h == HydrateEmpty(hyd, es)
<1>1. DOMAIN h = DOMAIN hyd \cup es /\ \A e \in DOMAIN h : h[e] = IF e \in DOMAIN hyd THEN hyd[e] ELSE {}
  BY DEF HydrateEmpty
<1> HIDE DEF h
<1>2. nextSeq.user \in Nat /\ MaxTx \in Nat /\ hyd \in Caches
  BY Numbers DEF EntitiesInv, TypeInv
<1>3. ASSUME NEW e \in es PROVE e \notin DOMAIN hyd /\ \A d \in datoms : d.e # e
  <2>1. UserEid(nextSeq.user) <= e /\ UserEid(nextSeq.user) \in Nat /\ e \in Nat
    BY <1>2 DEF UserEid
  <2>2. \A d \in datoms : d.e \in Nat /\ d.e < UserEid(nextSeq.user)
    BY Numbers DEF FreshInv, EntitiesInv, TypeInv, Datoms
  <2>3. \A x \in DOMAIN hyd : x < UserEid(nextSeq.user)
    BY DEF FreshInv
  <2> QED
    BY <2>1, <2>2, <2>3
<1>4. ASSUME NEW e \in DOMAIN hyd
      PROVE  /\ e < UserEid(nextSeq.user + c)
             /\ e \notin raced \cup resaved => hyd[e] = StoreActive(datoms, e)
  <2>1. e \in Nat /\ e < UserEid(nextSeq.user)
    BY <1>2, CacheType, Numbers DEF FreshInv
  <2>2. e < UserEid(nextSeq.user + c)
    BY <1>2, <2>1 DEF UserEid
  <2>3. e \notin raced \cup resaved => hyd[e] = StoreActive(datoms, e)
    BY DEF HydInv, Shown
  <2> QED
    BY <2>2, <2>3
<1>5. HydFits(h, nextSeq.user + c, resaved)
  BY <1>1, <1>3, <1>4, NoKeysNoFacts DEF HydFits
<1>6. \A e \in es : e \in DOMAIN h /\ h[e] = {}
  BY <1>1, <1>3
<1> QED
  BY <1>5, <1>6 DEF h
-----------------------------------------------------------------------------
(* The facts the protocol describes.                                       *)

Triples(S) == \A f \in S : f = <<f[1], f[2], f[3]>>

\* A triple is one fact of its entity.
LEMMA OfTriples ==
  ASSUME NEW S, Triples(S), NEW e, NEW a, NEW v
  PROVE  <<a, v>> \in Of(S, e) <=> <<e, a, v>> \in S
<1>1. ASSUME <<a, v>> \in Of(S, e) PROVE <<e, a, v>> \in S
  <2>1. PICK f \in S : f[1] = e /\ <<a, v>> = <<f[2], f[3]>>
    BY <1>1 DEF Of
  <2>2. f = <<f[1], f[2], f[3]>>
    BY DEF Triples
  <2> QED
    BY <2>1, <2>2
<1>2. ASSUME <<e, a, v>> \in S PROVE <<a, v>> \in Of(S, e)
  BY <1>2 DEF Of
<1> QED
  BY <1>1, <1>2

\* The facts N of attributes of cardinality one replace those of X.
Replaced(X, N) == {f \in X : f[1] \notin Many /\ \E g \in N : g[1] = f[1]}

\* A is asserted and R retracted.
Changed(X, A, R) == ((X \ Replaced(X, A \ X)) \cup (A \ X)) \ R

\* What the protocol says of one entity.
LEMMA ExpectedOf ==
  ASSUME expect \in SUBSET (Eids \X Attrs \X AnyValue),
         NEW adds \in SUBSET (Eids \X Attrs \X AnyValue), NEW rets, Triples(rets), NEW e
  PROVE  /\ Of(Expected(adds, rets), e) = Changed(Of(expect, e), Of(adds, e), Of(rets, e))
         /\ Expected(adds, rets) \in SUBSET (Eids \X Attrs \X AnyValue)
<1>0. PICK X, N : X = Of(expect, e) /\ N = Of(adds, e) \ X
  OBVIOUS
<1> DEFINE new == adds \ expect
           old == {f \in expect : f[2] \notin Many /\ \E g \in new : <<g[1], g[2]>> = <<f[1], f[2]>>}
           T == ((expect \ old) \cup new) \ rets
<1>1. Expected(adds, rets) = T
  BY DEF Expected
<1>2. /\ {T, new, old} \subseteq SUBSET (Eids \X Attrs \X AnyValue)
      /\ Triples(T) /\ Triples(new) /\ Triples(old) /\ Triples(expect) /\ Triples(adds)
  BY DEF Triples
<1>3. \A a, v : <<a, v>> \in N <=> <<e, a, v>> \in new
  BY <1>0, <1>2, OfTriples
<1>4. \A a, v : <<a, v>> \in Replaced(X, N) <=> <<e, a, v>> \in old
  <2> TAKE a, v
  <2>1. <<a, v>> \in X <=> <<e, a, v>> \in expect
    BY <1>0, <1>2, OfTriples
  <2>2. (\E g \in N : g[1] = a) <=> (\E g \in new : <<g[1], g[2]>> = <<e, a>>)
    <3>1. ASSUME NEW g \in N, g[1] = a PROVE \E h \in new : <<h[1], h[2]>> = <<e, a>>
      <4>1. PICK h \in adds : g = <<h[2], h[3]>>
        BY <1>0 DEF Of
      <4>2. g = <<g[1], g[2]>>
        BY <4>1
      <4>3. <<e, g[1], g[2]>> \in new
        BY <1>3, <4>2
      <4> QED
        BY <3>1, <4>3
    <3>2. ASSUME NEW h \in new, <<h[1], h[2]>> = <<e, a>> PROVE \E g \in N : g[1] = a
      <4>1. h = <<h[1], h[2], h[3]>>
        BY <1>2 DEF Triples
      <4>2. <<e, a, h[3]>> \in new
        BY <3>2, <4>1
      <4>3. <<a, h[3]>> \in N
        BY <1>3, <4>2
      <4> QED
        BY <4>3
    <3> QED
      BY <3>1, <3>2
  <2> HIDE DEF new
  <2> QED
    BY <2>1, <2>2 DEF Replaced
<1>5. \A a, v : <<a, v>> \in Of(T, e) <=> <<a, v>> \in ((X \ Replaced(X, N)) \cup N) \ Of(rets, e)
  <2> TAKE a, v
  <2>1. <<a, v>> \in Of(T, e) <=> <<e, a, v>> \in T
    BY <1>0, <1>2, OfTriples
  <2>2. <<a, v>> \in X <=> <<e, a, v>> \in expect
    BY <1>0, <1>2, OfTriples
  <2>3. <<a, v>> \in Of(rets, e) <=> <<e, a, v>> \in rets
    BY OfTriples
  <2> HIDE DEF new, old
  <2> QED
    BY <1>3, <1>4, <2>1, <2>2, <2>3
<1>6. \A f \in Of(T, e) \cup X \cup N : f = <<f[1], f[2]>>
  BY <1>0 DEF Of
<1> HIDE DEF T
<1>7. Of(T, e) = ((X \ Replaced(X, N)) \cup N) \ Of(rets, e)
  <2> DEFINE R == ((X \ Replaced(X, N)) \cup N) \ Of(rets, e)
  <2>1. R \subseteq X \cup N
    OBVIOUS
  <2>2. \A a, v : <<a, v>> \in Of(T, e) <=> <<a, v>> \in R
    BY <1>5
  <2> HIDE DEF R
  <2>3. ASSUME NEW f, f \in Of(T, e) \/ f \in R PROVE f \in Of(T, e) /\ f \in R
    <3>1. PICK a, v : f = <<a, v>>
      BY <1>6, <2>1, <2>3
    <3> QED
      BY <2>2, <2>3, <3>1
  <2> QED
    BY <2>3 DEF R
<1> QED
  BY <1>0, <1>1, <1>2, <1>7 DEF T, Changed

\* The keys K, to the facts X of e: assert A, where new, and retract what that
\* replaces and R.
Does(K, e, X, A, R) ==
  /\ \A f \in Adds(K, e) : f[1] # TxInstant => f \in A
  /\ A \ X \subseteq Adds(K, e)
  /\ Rets(K, e) \subseteq Replaced(X, A \ X) \cup R
  /\ Replaced(X, A \ X) \subseteq Rets(K, e)
  /\ R \cap (X \cup A) \subseteq Rets(K, e)

\* Keys that do what was requested leave the facts the protocol describes.
LEMMA DoesDocument ==
  ASSUME NEW D \in SUBSET Datoms, NEW K \in SUBSET Datoms, NEW t \in 1 .. MaxTx, NEW e,
         \A d \in D : d.t < t, \A d \in K : d.t = t,
         expect \in SUBSET (Eids \X Attrs \X AnyValue), NEW adds \in SUBSET (Eids \X Attrs \X AnyValue),
         NEW rets, Triples(rets),
         Documented(D, expect, e), Does(K, e, Of(expect, e), Of(adds, e), Of(rets, e))
  PROVE  Documented(D \cup K, Expected(adds, rets), e)
<1>1. PICK X, A, R, N : X = Of(expect, e) /\ A = Of(adds, e) /\ R = Of(rets, e) /\ N = A \ X
  OBVIOUS
<1>2. Of(Expected(adds, rets), e) = ((X \ Replaced(X, N)) \cup N) \ R
  <2>1. Of(Expected(adds, rets), e) = Changed(Of(expect, e), Of(adds, e), Of(rets, e))
    BY ExpectedOf
  <2> QED
    BY <1>1, <2>1 DEF Changed
<1>3. StoreActive(D \cup K, e) = (StoreActive(D, e) \cup Adds(K, e)) \ Rets(K, e)
  <2>1. \A d \in D : d.t \in Int
    BY DEF Datoms
  <2>2. Newer(D, K, t, e)
    BY <2>1 DEF Newer
  <2>3. D \in SUBSET Datoms /\ K \in SUBSET Datoms /\ t \in 1 .. MaxTx
    OBVIOUS
  <2> QED
    BY <2>2, <2>3, Overlay
<1>4. PICK Y, B, C : Y = StoreActive(D, e) /\ B = Adds(K, e) /\ C = Rets(K, e)
  OBVIOUS
<1>5. X = {f \in Y : f[1] # TxInstant}
  BY <1>1, <1>4 DEF Documented
<1>6. \A f \in A : f[1] # TxInstant
  <2>1. ASSUME NEW f \in A PROVE f[1] \in Attrs
    <3>1. PICK g \in adds : f = <<g[2], g[3]>>
      BY <1>1 DEF Of
    <3> QED
      BY <3>1
  <2> QED
    BY <2>1, EntitySchema
<1>7. /\ \A f \in B : f[1] # TxInstant => f \in A
      /\ N \subseteq B /\ C \subseteq Replaced(X, N) \cup R /\ Replaced(X, N) \subseteq C
      /\ R \cap (X \cup A) \subseteq C
  BY <1>1, <1>4 DEF Does
<1>8. Replaced(X, N) \subseteq X
  BY DEF Replaced
<1>9. {f \in (Y \cup B) \ C : f[1] # TxInstant} = ((X \ Replaced(X, N)) \cup N) \ R
  <2>1. PICK Q : Q = Replaced(X, N)
    OBVIOUS
  <2> QED
    BY <1>1, <1>5, <1>6, <1>7, <1>8, <2>1
<1> QED
  BY <1>2, <1>3, <1>4, <1>9 DEF Documented

\* The keys that save the triples F, retract G and record transaction t.
Writes(cache, F, G, t) ==
  {Datom(TxEid(t), TxInstant, NoValue, t, "add")}
  \cup {Datom(g[1], g[2], g[3], t, "ret") : g \in G}
  \cup UNION {ToSet(SaveInto(cache, g[1], g[2], g[3], t)) : g \in F}

\* The three kinds of keys.
LEMMA WritesKeys ==
  ASSUME NEW cache, NEW F, NEW G, NEW t, NEW d
  PROVE  d \in Writes(cache, F, G, t)
           <=> \/ d = Datom(TxEid(t), TxInstant, NoValue, t, "add")
               \/ \E g \in F : d \in ToSet(SaveInto(cache, g[1], g[2], g[3], t))
               \/ \E g \in G : d = Datom(g[1], g[2], g[3], t, "ret")
BY DEF Writes

\* Such keys do what was requested of e, unless F has a value of cardinality
\* one that e already has.
LEMMA WritesDo ==
  ASSUME TypeInv, NEW cache \in Caches, NEW t \in 1 .. MaxTx, NEW e,
         NEW adds \in SUBSET (Eids \X Attrs \X AnyValue), NEW rets, Triples(rets),
         NEW F \in SUBSET adds, NEW G, G = {g \in rets : g[2] \in Attrs},
         NEW X, X = {f \in ScanActive(cache, e) : f[1] # TxInstant},
         \A a, v : <<e, a, v>> \in adds /\ <<a, v>> \notin X => <<e, a, v>> \in F,
         \A a, v : <<e, a, v>> \in F /\ a \notin Many => <<a, v>> \notin X
  PROVE  Does(Writes(cache, F, G, t), e, X, Of(adds, e), Of(rets, e))
<1>1. PICK K, A, R : K = Writes(cache, F, G, t) /\ A = Of(adds, e) /\ R = Of(rets, e)
  OBVIOUS
<1>2. ScanActive(cache, e) \in FactSets
  BY ScanActiveType
<1>3. /\ \A f \in X : f = <<f[1], f[2]>> /\ f[1] \in Attrs
      /\ \A a \in Attrs : \A v : <<a, v>> \in X <=> <<a, v>> \in ScanActive(cache, e)
  BY <1>2, EntitySchema DEF FactSets, Facts
<1>4. \A f \in A \cup R : f = <<f[1], f[2]>>
  BY <1>1 DEF Of
<1>5. \A a, v : (<<a, v>> \in A <=> <<e, a, v>> \in adds) /\ (<<a, v>> \in R <=> <<e, a, v>> \in rets)
  <2>1. Triples(adds)
    BY DEF Triples
  <2> QED
    BY <1>1, <2>1, OfTriples
<1>6. ASSUME NEW d \in K, d.e = e
      PROVE  \/ d.op = "add" /\ d.a = TxInstant
             \/ \E a, v : <<e, a, v>> \in F /\ SavedAs(d, cache, e, a, v)
             \/ d.op = "ret" /\ <<e, d.a, d.v>> \in G
  <2>1. CASE d = Datom(TxEid(t), TxInstant, NoValue, t, "add")
    BY <2>1 DEF Datom
  <2>2. CASE \E g \in F : d \in ToSet(SaveInto(cache, g[1], g[2], g[3], t))
    <3>1. PICK g \in F : d \in ToSet(SaveInto(cache, g[1], g[2], g[3], t))
      BY <2>2
    <3>2. PICK x, a, v : x = g[1] /\ a = g[2] /\ v = g[3] /\ g = <<x, a, v>>
      OBVIOUS
    <3>3. SavedAs(d, cache, x, a, v)
      BY <3>1, <3>2, SavedKeys
    <3>4. x = e
      BY <1>6, <3>3 DEF SavedAs
    <3> QED
      BY <3>2, <3>3, <3>4
  <2>3. CASE \E g \in G : d = Datom(g[1], g[2], g[3], t, "ret")
    <3>1. PICK g \in G : d = Datom(g[1], g[2], g[3], t, "ret")
      BY <2>3
    <3>2. g = <<g[1], g[2], g[3]>>
      BY DEF Triples
    <3>3. d.e = g[1] /\ d.a = g[2] /\ d.v = g[3] /\ d.op = "ret"
      BY <3>1 DEF Datom
    <3> QED
      BY <1>6, <3>2, <3>3
  <2>4. d \in Writes(cache, F, G, t)
    BY <1>1
  <2>5. \/ d = Datom(TxEid(t), TxInstant, NoValue, t, "add")
        \/ \E g \in F : d \in ToSet(SaveInto(cache, g[1], g[2], g[3], t))
        \/ \E g \in G : d = Datom(g[1], g[2], g[3], t, "ret")
    BY <2>4, WritesKeys
  <2> QED
    BY <2>1, <2>2, <2>3, <2>5
<1>7. ASSUME NEW a, NEW v, <<e, a, v>> \in F
      PROVE  /\ <<a, v>> \in Adds(K, e) /\ a \in Attrs /\ <<a, v>> \in A
             /\ \A f \in X : f[1] = a /\ a \notin Many => f \in Rets(K, e)
  <2>1. /\ Datom(e, a, v, t, "add") \in K
        /\ \A f \in Superseded(cache, e, a) : Datom(e, a, f[2], t, "ret") \in K
    <3>1. ToSet(SaveInto(cache, e, a, v, t)) \subseteq K
      <4>1. PICK g : g = <<e, a, v>>
        OBVIOUS
      <4>2. g \in F /\ g[1] = e /\ g[2] = a /\ g[3] = v
        BY <1>7, <4>1
      <4> QED
        BY <1>1, <4>2 DEF Writes
    <3> QED
      BY <3>1, SaveIntoKeys
  <2>2. <<a, v>> \in Adds(K, e)
    <3>1. PICK d \in K : d = Datom(e, a, v, t, "add")
      BY <2>1
    <3>2. d.e = e /\ d.a = a /\ d.v = v /\ d.op = "add"
      BY <3>1 DEF Datom
    <3> QED
      BY <3>2 DEF Adds
  <2>3. ASSUME NEW f \in X, f[1] = a, a \notin Many PROVE f \in Rets(K, e)
    <3>1. f \in Superseded(cache, e, a)
      BY <2>3 DEF Superseded
    <3>2. PICK d \in K : d = Datom(e, a, f[2], t, "ret")
      BY <2>1, <3>1
    <3>3. d.e = e /\ d.a = a /\ d.v = f[2] /\ d.op = "ret"
      BY <3>2 DEF Datom
    <3>4. f = <<d.a, d.v>>
      BY <1>3, <2>3, <3>3
    <3> QED
      BY <3>3, <3>4 DEF Rets
  <2>4. a \in Attrs /\ <<a, v>> \in A
    BY <1>5, <1>7
  <2> QED
    BY <2>2, <2>3, <2>4
<1>8. ASSUME NEW f \in Adds(K, e), f[1] # TxInstant PROVE f \in A
  <2>1. PICK d \in K : d.e = e /\ d.op = "add" /\ f = <<d.a, d.v>>
    BY DEF Adds
  <2>2. PICK a, v : <<e, a, v>> \in F /\ SavedAs(d, cache, e, a, v)
    BY <1>6, <1>8, <2>1
  <2>3. f = <<a, v>>
    BY <2>1, <2>2 DEF SavedAs
  <2> QED
    BY <1>7, <2>2, <2>3
<1>9. A \ X \subseteq Adds(K, e)
  <2> SUFFICES ASSUME NEW f \in A \ X PROVE f \in Adds(K, e)
    OBVIOUS
  <2>1. PICK a, v : f = <<a, v>>
    BY <1>4
  <2>2. <<e, a, v>> \in F
    BY <1>5, <2>1
  <2> QED
    BY <1>7, <2>1, <2>2
<1>10. Rets(K, e) \subseteq Replaced(X, A \ X) \cup R
  <2> SUFFICES ASSUME NEW f \in Rets(K, e), f \notin R PROVE f \in Replaced(X, A \ X)
    OBVIOUS
  <2>1. PICK d \in K : d.e = e /\ d.op = "ret" /\ f = <<d.a, d.v>>
    BY DEF Rets
  <2>2. ~(<<e, d.a, d.v>> \in G)
    BY <1>5, <2>1
  <2>3. PICK a, v : <<e, a, v>> \in F /\ SavedAs(d, cache, e, a, v)
    BY <1>6, <2>1, <2>2
  <2>4. a \notin Many /\ f \in ScanActive(cache, e) /\ f[1] = a
    BY <2>1, <2>3 DEF SavedAs
  <2>5. <<a, v>> \in A \ X /\ a \in Attrs
    BY <1>7, <2>3, <2>4
  <2>6. f \in X
    BY <2>4, <2>5, EntitySchema
  <2>7. \E g \in A \ X : g[1] = f[1]
    BY <2>4, <2>5
  <2> QED
    BY <2>4, <2>6, <2>7 DEF Replaced
<1>11. Replaced(X, A \ X) \subseteq Rets(K, e)
  <2> SUFFICES ASSUME NEW f \in X, f[1] \notin Many, NEW g \in A \ X, g[1] = f[1] PROVE f \in Rets(K, e)
    BY DEF Replaced
  <2>1. PICK a, v : g = <<a, v>>
    BY <1>4
  <2>2. <<e, a, v>> \in F /\ f[1] = a
    BY <1>5, <2>1
  <2> QED
    BY <1>7, <2>2
<1>12. R \cap (X \cup A) \subseteq Rets(K, e)
  <2> SUFFICES ASSUME NEW f \in R, f \in X \cup A PROVE f \in Rets(K, e)
    OBVIOUS
  <2>1. PICK a, v : f = <<a, v>>
    BY <1>4
  <2>2. a \in Attrs
    <3>1. CASE f \in X
      BY <1>3, <2>1, <3>1
    <3>2. CASE f \in A
      <4>1. <<e, a, v>> \in Eids \X Attrs \X AnyValue
        BY <1>5, <2>1, <3>2
      <4> QED
        BY <4>1
    <3> QED
      BY <3>1, <3>2
  <2>3. PICK g : g = <<e, a, v>>
    OBVIOUS
  <2>4. g \in G /\ g[1] = e /\ g[2] = a /\ g[3] = v
    BY <1>5, <2>1, <2>2, <2>3
  <2>5. PICK d \in K : d = Datom(e, a, v, t, "ret")
    <3>1. Datom(g[1], g[2], g[3], t, "ret") \in Writes(cache, F, G, t)
      BY <2>4, WritesKeys
    <3> QED
      BY <1>1, <2>4, <3>1
  <2>6. d.e = e /\ d.op = "ret" /\ d.a = a /\ d.v = v
    BY <2>5 DEF Datom
  <2> QED
    BY <2>1, <2>6 DEF Rets
<1> QED
  BY <1>1, <1>8, <1>9, <1>10, <1>11, <1>12 DEF Does

\* Every requested assertion of something new is among F.
Covers(F, adds, cache) ==
  \A x, a, v : <<x, a, v>> \in adds /\ <<a, v>> \notin ScanActive(cache, x) => <<x, a, v>> \in F

\* F has a value of cardinality one only where it is new, except of S.
Novel(F, cache, S) ==
  \A x, a, v : <<x, a, v>> \in F /\ a \notin Many /\ x \notin S => <<a, v>> \notin ScanActive(cache, x)

\* A transaction of such keys begins.
LEMMA WritesDocument ==
  ASSUME EntitiesInv, DocInv, wr.pc = "idle", NEW t \in 1 .. MaxTx, t = nextSeq.tx,
         NEW fresh, NEW bs \in Seq(Seq(Stamped(t))), NEW ops, NEW es, Begin(t, fresh, bs, ops, es),
         NEW cache \in Caches, NEW b, NEW S, S = resaved', resaved \subseteq S, HydFits(cache, b, S),
         NEW adds \in SUBSET (Eids \X Attrs \X AnyValue), NEW rets, Triples(rets),
         NEW F \in SUBSET adds, NEW G, G = {g \in rets : g[2] \in Attrs},
         expect' = Expected(adds, rets), Covers(F, adds, cache), Novel(F, cache, raced \cup S),
         UNION {ToSet(bs[i]) : i \in DOMAIN bs} = Writes(cache, F, G, t)
  PROVE  DocInv'
<1>1. PICK K : K = Writes(cache, F, G, t) /\ K = UNION {ToSet(bs[i]) : i \in DOMAIN bs}
  OBVIOUS
<1>2. Pending = datoms /\ Pending' = datoms \cup K /\ raced' = raced
  <2>1. wr'.todo = bs /\ datoms' = datoms /\ raced' = raced
    BY DEF Begin
  <2>2. wr.todo = <<>>
    BY DEF EntitiesInv, TypeInv
  <2>3. Pending = datoms
    BY <2>2 DEF Pending
  <2>4. Pending' = datoms' \cup UNION {ToSet(wr'.todo[i]) : i \in DOMAIN wr'.todo}
    BY DEF Pending
  <2>5. Pending' = datoms \cup K
    BY <1>1, <2>1, <2>4
  <2> QED
    BY <2>1, <2>3, <2>5
<1>3. /\ datoms \in SUBSET Datoms /\ (\A d \in datoms : d.t < t)
      /\ K \in SUBSET Datoms /\ (\A d \in K : d.t = t)
  <2>1. datoms \in SUBSET Datoms /\ \A d \in datoms : d.t < t
    BY DEF EntitiesInv, TypeInv, StampInv
  <2>2. ASSUME NEW d \in K PROVE d \in Datoms /\ d.t = t
    <3>1. PICK i \in DOMAIN bs : d \in ToSet(bs[i])
      BY <1>1
    <3>2. bs[i] \in Seq(Stamped(t))
      OBVIOUS
    <3> QED
      BY <3>1, <3>2 DEF ToSet, Stamped
  <2> QED
    BY <2>1, <2>2
<1>4. TypeInv /\ expect \in SUBSET (Eids \X Attrs \X AnyValue)
  BY DEF EntitiesInv, DocInv
<1>5. ASSUME NEW e \in Eids \ (raced \cup S) PROVE Documented(datoms \cup K, Expected(adds, rets), e)
  <2>1. PICK X : X = {f \in ScanActive(cache, e) : f[1] # TxInstant}
    OBVIOUS
  <2>2. ScanActive(cache, e) = StoreActive(datoms, e)
    BY DEF HydFits, ScanActive
  <2>3. Documented(datoms, expect, e)
    BY <1>2 DEF DocInv
  <2>4. X = Of(expect, e)
    BY <2>1, <2>2, <2>3 DEF Documented
  <2>5. \A a, v : <<e, a, v>> \in adds /\ <<a, v>> \notin X => <<e, a, v>> \in F
    <3>1. ASSUME NEW a, NEW v, <<e, a, v>> \in adds, <<a, v>> \notin X PROVE <<e, a, v>> \in F
      <4>1. a \in Attrs
        <5>1. <<e, a, v>> \in Eids \X Attrs \X AnyValue
          BY <3>1
        <5> QED
          BY <5>1
      <4>2. <<a, v>> \notin ScanActive(cache, e)
        BY <2>1, <3>1, <4>1, EntitySchema
      <4> QED
        BY <3>1, <4>2 DEF Covers
    <3> QED
      BY <3>1
  <2>6. \A a, v : <<e, a, v>> \in F /\ a \notin Many => <<a, v>> \notin X
    BY <2>1 DEF Novel
  <2>7. Does(Writes(cache, F, G, t), e, X, Of(adds, e), Of(rets, e))
    BY <1>4, <2>1, <2>5, <2>6, WritesDo
  <2>8. Does(K, e, Of(expect, e), Of(adds, e), Of(rets, e))
    BY <1>1, <2>4, <2>7
  <2> QED
    BY <1>3, <1>4, <2>3, <2>8, DoesDocument
<1>6. Expected(adds, rets) \in SUBSET (Eids \X Attrs \X AnyValue)
  BY <1>4, ExpectedOf
<1> QED
  BY <1>2, <1>5, <1>6 DEF DocInv

\* Steps that leave expect and the sum of store and batches alone.
LEMMA PendingKept ==
  ASSUME EntitiesInv, DocInv,
         Journal \/ ApplyKeys \/ Insert \/ (\E e \in UserEids : QueryScan(e)) \/ QueryInstall
  PROVE  DocInv'
<1>1. expect' = expect /\ resaved' = resaved /\ raced \subseteq raced'
  BY DEF Journal, ApplyKeys, Insert, QueryScan, QueryInstall
<1>2. Pending' = Pending
  <2>1. CASE ~Insert
    <3>1. datoms' = datoms /\ wr'.todo = wr.todo
      BY <2>1 DEF Journal, ApplyKeys, QueryScan, QueryInstall, EntitiesInv, TypeInv
    <3> QED
      BY <3>1 DEF Pending
  <2>2. CASE Insert
    <3>1. PICK q : q = wr.todo
      OBVIOUS
    <3>2. /\ datoms' = datoms \cup ToSet(q[1]) /\ q \in Seq(Seq(Datoms)) /\ q # <<>>
          /\ IF Len(q) = 1 THEN wr'.todo = <<>> ELSE wr'.todo = Tail(q)
      <4>1. wr.pc # "idle" /\ datoms' = datoms \cup ToSet(Batch)
            /\ wr' = IF Len(q) = 1 THEN Idle ELSE [wr EXCEPT !.pc = "journal", !.todo = Tail(q)]
        BY <2>2, <3>1 DEF Insert
      <4>2. q \in Seq(Seq(Datoms)) /\ q # <<>> /\ Batch = q[1]
        BY <3>1, <4>1, BatchType
      <4>3. IF Len(q) = 1 THEN wr'.todo = <<>> ELSE wr'.todo = Tail(q)
        BY <4>1 DEF Idle, EntitiesInv, TypeInv
      <4> QED
        BY <4>1, <4>2, <4>3
    <3>3. PICK n \in Nat : n = Len(q) /\ n > 0 /\ DOMAIN q = 1 .. n
      BY <3>2
    <3>4. UNION {ToSet(wr'.todo[i]) : i \in DOMAIN wr'.todo} = UNION {ToSet(q[i]) : i \in 2 .. n}
      <4>1. CASE n = 1
        <5>1. DOMAIN wr'.todo = {} /\ 2 .. n = {}
          BY <3>2, <3>3, <4>1
        <5> QED
          BY <5>1
      <4>2. CASE n # 1
        <5>1. /\ DOMAIN wr'.todo = 1 .. n - 1
              /\ \A i \in 1 .. n - 1 : wr'.todo[i] = q[i + 1]
          <6>1. wr'.todo = Tail(q) /\ Len(q) = n
            BY <3>2, <3>3, <4>2
          <6>2. /\ Tail(q) \in Seq(Seq(Datoms)) /\ Len(Tail(q)) = n - 1
                /\ \A i \in 1 .. Len(Tail(q)) : Tail(q)[i] = q[i + 1]
            BY <3>2, <6>1, HeadTailProperties
          <6> QED
            BY <6>1, <6>2
        <5>2. ASSUME NEW i \in 1 .. n - 1 PROVE ToSet(wr'.todo[i]) = ToSet(q[i + 1]) /\ i + 1 \in 2 .. n
          BY <3>3, <5>1
        <5>3. ASSUME NEW i \in 2 .. n PROVE ToSet(q[i]) = ToSet(wr'.todo[i - 1]) /\ i - 1 \in 1 .. n - 1
          <6>1. i - 1 \in 1 .. n - 1 /\ i - 1 + 1 = i
            BY <3>3
          <6> QED
            BY <5>1, <6>1
        <5> QED
          BY <5>1, <5>2, <5>3
      <4> QED
        BY <4>1, <4>2
    <3>5. UNION {ToSet(q[i]) : i \in 1 .. n} = ToSet(q[1]) \cup UNION {ToSet(q[i]) : i \in 2 .. n}
      <4>1. 1 .. n = {1} \cup 2 .. n
        BY <3>3
      <4> QED
        BY <4>1
    <3>6. Pending = datoms \cup UNION {ToSet(q[i]) : i \in 1 .. n}
      BY <3>1, <3>3 DEF Pending
    <3>7. Pending' = datoms' \cup UNION {ToSet(wr'.todo[i]) : i \in DOMAIN wr'.todo}
      BY DEF Pending
    <3> QED
      BY <3>2, <3>4, <3>5, <3>6, <3>7
  <2> QED
    BY <2>1, <2>2
<1> QED
  BY <1>1, <1>2 DEF DocInv
-----------------------------------------------------------------------------
(* The steps of writers.                                                   *)

\* A transaction has one batch or two.
LEMMA TwoBatches ==
  ASSUME NEW b, NEW q
  PROVE  /\ <<b>> \o <<q>> = <<b, q>>
         /\ \A S : b \in S => <<b>> \in Seq(S)
         /\ \A S : b \in S /\ q \in S => <<b, q>> \in Seq(S)
<1>1. <<b>> \o <<q>> = <<b, q>>
  <2>1. PICK S : b \in S /\ q \in S
    BY b \in {b, q} /\ q \in {b, q}
  <2>2. PICK l, r : l = <<b>> /\ r = <<q>>
    OBVIOUS
  <2>3. /\ l \in Seq(S) /\ Len(l) = 1 /\ l[1] = b
        /\ r \in Seq(S) /\ Len(r) = 1 /\ r[1] = q
    BY <2>1, <2>2
  <2>4. l \o r \in Seq(S) /\ Len(l \o r) = 2 /\ (l \o r)[1] = b /\ (l \o r)[2] = q
    BY <2>3, ConcatProperties
  <2>5. <<b, q>> \in Seq(S) /\ Len(<<b, q>>) = 2 /\ <<b, q>>[1] = b /\ <<b, q>>[2] = q
    BY <2>1
  <2>6. ASSUME NEW x \in Seq(S), NEW y \in Seq(S), Len(x) = 2, Len(y) = 2, x[1] = y[1], x[2] = y[2]
        PROVE  x = y
    <3>1. DOMAIN x = 1 .. 2 /\ DOMAIN y = 1 .. 2
      BY <2>6
    <3>2. \A i \in 1 .. 2 : x[i] = y[i]
      BY <2>6
    <3> QED
      BY <3>1, <3>2
  <2> QED
    BY <2>2, <2>4, <2>5, <2>6
<1>2. ASSUME NEW S, b \in S PROVE <<b>> \in Seq(S)
  BY <1>2
<1>3. ASSUME NEW S, b \in S, q \in S PROVE <<b, q>> \in Seq(S)
  BY <1>3
<1> QED
  BY <1>1, <1>2, <1>3

\* A batch of retractions does not disturb the batch before it.
LEMMA RetractsTidy ==
  ASSUME NEW b, NEW bs, \A y, r \in ToSet(b) : y.op = "add" /\ r.op = "ret" => ~SameFact(y, r),
         NEW S, NEW q, \A r \in ToSet(q) : r.op = "ret", bs = <<b>> \/ bs = <<b, q>>
  PROVE  Tidy(bs, S)
<1> SUFFICES ASSUME NEW j \in DOMAIN bs, NEW i \in 1 .. j, NEW y \in ToSet(bs[j]), NEW r \in ToSet(bs[i]),
                    y.op = "add", r.op = "ret", SameFact(y, r)
             PROVE  FALSE
  BY DEF Tidy
<1>1. j = 1 /\ i = 1 /\ bs[1] = b
  <2>1. CASE bs = <<b>>
    BY <2>1
  <2>2. CASE bs = <<b, q>>
    <3>1. j \in {1, 2} /\ bs[1] = b /\ bs[2] = q
      BY <2>2
    <3>2. j # 2
      BY <3>1
    <3> QED
      BY <3>1, <3>2
  <2> QED
    BY <2>1, <2>2
<1> QED
  BY <1>1

\* The triples an accepted transaction saves.
SavedTriples(ops, cache, t) ==
  {<<EidOf(ops, ops[i], t), ops[i].a, ValueOf(ops, ops[i])>> :
     i \in {j \in DOMAIN ops : Asserted(ops, cache, t, j)}}

\* The requests of an accepted transaction, and which of them are saved.
LEMMA RequestedTriples ==
  ASSUME TypeInv, NEW ops, Accepted(ops), NEW cache \in Caches, NEW t \in 1 .. MaxTx
  PROVE  /\ Requested(ops, "add", t) \in SUBSET (Eids \X Attrs \X AnyValue)
         /\ Triples(Requested(ops, "ret", t))
         /\ SavedTriples(ops, cache, t) \in SUBSET Requested(ops, "add", t)
         /\ Covers(SavedTriples(ops, cache, t), Requested(ops, "add", t), cache)
         /\ \A S : Novel(SavedTriples(ops, cache, t), cache, S)
<1> DEFINE T(i) == <<EidOf(ops, ops[i], t), ops[i].a, ValueOf(ops, ops[i])>>
           A == {j \in DOMAIN ops : ops[j].k = "add"}
           R == {j \in DOMAIN ops : ops[j].k = "ret"}
           W == {j \in DOMAIN ops : Asserted(ops, cache, t, j)}
<1>1. /\ Requested(ops, "add", t) = {T(i) : i \in A} /\ Requested(ops, "ret", t) = {T(i) : i \in R}
      /\ SavedTriples(ops, cache, t) = {T(i) : i \in W}
  BY DEF Requested, SavedTriples
<1>2. \A i \in A : T(i) \in Eids \X Attrs \X AnyValue
  <2> SUFFICES ASSUME NEW i \in A PROVE T(i) \in Eids \X Attrs \X AnyValue
    OBVIOUS
  <2>1. ops[i].a \in Attrs
    BY DEF Accepted, Rejected
  <2>2. EidOf(ops, ops[i], t) \in Eids /\ ValueOf(ops, ops[i]) \in AnyValue
    BY SlotTypes
  <2> QED
    BY <2>1, <2>2
<1>3. Triples(Requested(ops, "ret", t))
  BY <1>1 DEF Triples
<1>4. W \subseteq A
  BY DEF Asserted
<1>5. ASSUME NEW i \in A, NEW x, NEW a, NEW v, T(i) = <<x, a, v>>
      PROVE  i \in W <=> <<a, v>> \notin ScanActive(cache, x)
  BY <1>5 DEF Asserted, HasDatomW
<1> HIDE DEF T, A, R, W
<1>6. Covers(SavedTriples(ops, cache, t), Requested(ops, "add", t), cache)
  BY <1>1, <1>5 DEF Covers
<1>7. \A S : Novel(SavedTriples(ops, cache, t), cache, S)
  BY <1>1, <1>4, <1>5 DEF Novel
<1> QED
  BY <1>1, <1>2, <1>3, <1>4, <1>6, <1>7

\* The keys of the two batches.
LEMMA BatchesWrite ==
  ASSUME TypeInv, NEW ops, Accepted(ops), NEW cache \in Caches, NEW t \in 1 .. MaxTx
  PROVE  ToSet(SaveBatchEdn(ops, cache, t)) \cup RetractKeys(ops, t)
           = Writes(cache, SavedTriples(ops, cache, t),
                    {g \in Requested(ops, "ret", t) : g[2] \in Attrs}, t)
<1> DEFINE e(i) == EidOf(ops, ops[i], t)
           v(i) == ValueOf(ops, ops[i])
           W == {j \in DOMAIN ops : Asserted(ops, cache, t, j)}
           R == {j \in DOMAIN ops : ops[j].k = "ret" /\ ops[j].a \in Attrs}
           F == SavedTriples(ops, cache, t)
           G == {g \in Requested(ops, "ret", t) : g[2] \in Attrs}
<1>1. F = {<<e(i), ops[i].a, v(i)>> : i \in W}
  BY DEF SavedTriples
<1>2. G = {<<e(i), ops[i].a, v(i)>> : i \in R}
  BY DEF Requested
<1>3. RetractKeys(ops, t) = {Datom(e(i), ops[i].a, v(i), t, "ret") : i \in R}
  BY DEF RetractKeys
<1>4. ToSet(SaveBatchEdn(ops, cache, t))
        = {Datom(TxEid(t), TxInstant, NoValue, t, "add")} \cup
          UNION {ToSet(SaveInto(cache, e(i), ops[i].a, v(i), t)) : i \in W}
  BY SaveBatchKeys, TxInstantKey
<1> HIDE DEF e, v, W, R, F, G
<1>5. ASSUME NEW d
      PROVE  (\E g \in F : d \in ToSet(SaveInto(cache, g[1], g[2], g[3], t)))
               <=> (\E i \in W : d \in ToSet(SaveInto(cache, e(i), ops[i].a, v(i), t)))
  <2>1. ASSUME NEW g \in F, d \in ToSet(SaveInto(cache, g[1], g[2], g[3], t))
        PROVE  \E i \in W : d \in ToSet(SaveInto(cache, e(i), ops[i].a, v(i), t))
    <3>1. PICK i \in W : g = <<e(i), ops[i].a, v(i)>>
      BY <1>1
    <3>2. g[1] = e(i) /\ g[2] = ops[i].a /\ g[3] = v(i)
      BY <3>1
    <3> QED
      BY <2>1, <3>2
  <2>2. ASSUME NEW i \in W, d \in ToSet(SaveInto(cache, e(i), ops[i].a, v(i), t))
        PROVE  \E g \in F : d \in ToSet(SaveInto(cache, g[1], g[2], g[3], t))
    <3>1. PICK g \in F : g = <<e(i), ops[i].a, v(i)>>
      BY <1>1
    <3>2. g[1] = e(i) /\ g[2] = ops[i].a /\ g[3] = v(i)
      BY <3>1
    <3> QED
      BY <2>2, <3>2
  <2> QED
    BY <2>1, <2>2
<1>6. ASSUME NEW d
      PROVE  (\E g \in G : d = Datom(g[1], g[2], g[3], t, "ret"))
               <=> (\E i \in R : d = Datom(e(i), ops[i].a, v(i), t, "ret"))
  <2>1. ASSUME NEW g \in G, d = Datom(g[1], g[2], g[3], t, "ret")
        PROVE  \E i \in R : d = Datom(e(i), ops[i].a, v(i), t, "ret")
    <3>1. PICK i \in R : g = <<e(i), ops[i].a, v(i)>>
      BY <1>2
    <3>2. g[1] = e(i) /\ g[2] = ops[i].a /\ g[3] = v(i)
      BY <3>1
    <3> QED
      BY <2>1, <3>2
  <2>2. ASSUME NEW i \in R, d = Datom(e(i), ops[i].a, v(i), t, "ret")
        PROVE  \E g \in G : d = Datom(g[1], g[2], g[3], t, "ret")
    <3>1. PICK g \in G : g = <<e(i), ops[i].a, v(i)>>
      BY <1>2
    <3>2. g[1] = e(i) /\ g[2] = ops[i].a /\ g[3] = v(i)
      BY <3>1
    <3> QED
      BY <2>2, <3>2
  <2> QED
    BY <2>1, <2>2
<1>7. ASSUME NEW d
      PROVE  d \in ToSet(SaveBatchEdn(ops, cache, t)) \cup RetractKeys(ops, t) <=> d \in Writes(cache, F, G, t)
  BY <1>3, <1>4, <1>5, <1>6, WritesKeys
<1> QED
  BY <1>7 DEF F, G

\* TransactTx.
LEMMA TransactCaches ==
  ASSUME EntitiesInv, FreshInv, TidyInv, HydInv, AnchorInv, DocInv, NEW ops \in TxData, Transact(ops)
  PROVE  FreshInv' /\ TidyInv' /\ HydInv' /\ AnchorInv' /\ DocInv'
<1>1. Accepted(ops) /\ wr.pc = "idle" /\ Submitted(ops) /\ TypeInv
  BY DEF Transact, Accepted, Submitted, EntitiesInv
<1>2. PICK t \in 1 .. MaxTx : t = nextSeq.tx
  BY Numbers DEF Transact, Submitted, Room, EntitiesInv, TypeInv
<1>3. PICK fresh : fresh = {Resolved(ops, n) : n \in FreshTids(ops)}
  OBVIOUS
<1>4. PICK cache : cache = HydrateEmpty(hyd, fresh)
  OBVIOUS
<1>5. /\ Cardinality(fresh) \in Nat /\ fresh \subseteq UserEids
      /\ \A e \in fresh : UserEid(nextSeq.user) <= e /\ e < UserEid(nextSeq.user + Cardinality(fresh))
  BY <1>1, <1>3, FreshRanks
<1>6. PICK c \in Nat : c = Cardinality(fresh)
  BY <1>5
<1>7. cache \in Caches /\ fresh \in SUBSET Nat
  <2>1. fresh \in SUBSET Eids /\ hyd \in Caches
    BY <1>1, <1>5, Numbers DEF TypeInv
  <2> QED
    BY <1>4, <2>1, Numbers, HydrateEmptyType
<1>8. PICK b, bs, es : /\ b = SaveBatchEdn(ops, cache, t) /\ bs = <<b>> \o RetractBatch(ops, t)
                       /\ es = [i \in DOMAIN ops |-> EidOf(ops, ops[i], t)]
  OBVIOUS
<1>9. hyd' = cache /\ Begin(t, c, bs, ops, es) /\ resaved' = resaved
  BY <1>2, <1>3, <1>4, <1>6, <1>8 DEF Transact
<1>10. b \in Seq(Stamped(t))
  BY <1>1, <1>7, <1>8, SaveBatchType
<1>11. PICK q \in Seq(Stamped(t)) :
         ToSet(q) = RetractKeys(ops, t) /\ ((bs = <<b>> /\ ToSet(q) = {}) \/ bs = <<b, q>>)
  <2>1. CASE RetractBatch(ops, t) = <<>> /\ RetractKeys(ops, t) = {}
    <3>1. bs = <<b>>
      BY <1>8, <2>1
    <3>2. <<>> \in Seq(Stamped(t)) /\ ToSet(<<>>) = {}
      BY DEF ToSet
    <3> QED
      BY <2>1, <3>1, <3>2
  <2>2. CASE \E x \in Seq(Stamped(t)) : RetractBatch(ops, t) = <<x>> /\ ToSet(x) = RetractKeys(ops, t)
    <3>1. PICK x \in Seq(Stamped(t)) : RetractBatch(ops, t) = <<x>> /\ ToSet(x) = RetractKeys(ops, t)
      BY <2>2
    <3>2. <<b>> \o <<x>> = <<b, x>>
      BY TwoBatches
    <3>3. bs = <<b, x>>
      BY <1>8, <3>1, <3>2
    <3> QED
      BY <3>1, <3>3
  <2> QED
    BY <1>1, <2>1, <2>2, RetractBatchKeys
<1>12. bs \in Seq(Seq(Stamped(t)))
  BY <1>10, <1>11, TwoBatches
<1>13. Fits(bs, nextSeq.user + c)
  <2>1. \A i \in DOMAIN ops : EidOf(ops, ops[i], t) < UserEid(nextSeq.user + c)
    BY <1>1, <1>3, <1>6, EidBelow
  <2>2. TxEid(t) < UserEid(nextSeq.user + c)
    BY <1>1, Numbers DEF TypeInv, TxEid, UserEid
  <2>3. \A y \in ToSet(b) : y.e < UserEid(nextSeq.user + c)
    BY <1>1, <1>7, <1>8, <2>1, <2>2, SaveBatchEids
  <2>4. \A y \in ToSet(q) : y.e < UserEid(nextSeq.user + c)
    BY <1>11, <2>1 DEF RetractKeys, Datom
  <2>5. \A i \in DOMAIN bs : bs[i] = b \/ bs[i] = q
    BY <1>11
  <2> QED
    BY <2>3, <2>4, <2>5 DEF Fits
<1>14. Tidy(bs, resaved)
  <2>1. \A y, r \in ToSet(b) : y.op = "add" /\ r.op = "ret" => ~SameFact(y, r)
    BY <1>1, <1>7, <1>8, SaveBatchTidy
  <2>2. \A r \in ToSet(q) : r.op = "ret"
    BY <1>11 DEF RetractKeys, Datom
  <2> QED
    BY <1>11, <2>1, <2>2, RetractsTidy
<1>15. HydFits(cache, nextSeq.user + c, resaved)
  BY <1>1, <1>4, <1>5, <1>6, <1>7, HydrateEmptyFits
<1>16. PICK S : S = resaved' /\ S = resaved
  BY <1>9
<1>17. DocInv'
  <2>1. PICK adds, rets : adds = Requested(ops, "add", t) /\ rets = Requested(ops, "ret", t)
    OBVIOUS
  <2>2. expect' = Expected(adds, rets)
    BY <1>2, <2>1 DEF Transact
  <2>3. UNION {ToSet(bs[i]) : i \in DOMAIN bs} = ToSet(b) \cup RetractKeys(ops, t)
    <3>1. CASE bs = <<b>> /\ ToSet(q) = {}
      <4>1. DOMAIN bs = {1} /\ bs[1] = b
        BY <3>1
      <4> QED
        BY <1>11, <3>1, <4>1
    <3>2. CASE bs = <<b, q>>
      <4>1. DOMAIN bs = {1, 2} /\ bs[1] = b /\ bs[2] = q
        BY <3>2
      <4> QED
        BY <1>11, <4>1
    <3> QED
      BY <1>11, <3>1, <3>2
  <2>4. PICK F, G : /\ F = SavedTriples(ops, cache, t) /\ G = {g \in rets : g[2] \in Attrs}
                    /\ ToSet(b) \cup RetractKeys(ops, t) = Writes(cache, F, G, t)
    BY <1>1, <1>7, <1>8, <2>1, BatchesWrite
  <2>5. /\ adds \in SUBSET (Eids \X Attrs \X AnyValue) /\ Triples(rets) /\ F \in SUBSET adds
        /\ Covers(F, adds, cache) /\ Novel(F, cache, raced \cup S)
    BY <1>1, <1>7, <2>1, <2>4, RequestedTriples
  <2>6. UNION {ToSet(bs[i]) : i \in DOMAIN bs} = Writes(cache, F, G, t)
    BY <2>3, <2>4
  <2>7. resaved \subseteq S /\ HydFits(cache, nextSeq.user + c, S)
    BY <1>15, <1>16
  <2>8. /\ wr.pc = "idle" /\ t = nextSeq.tx /\ Begin(t, c, bs, ops, es) /\ S = resaved'
        /\ G = {g \in rets : g[2] \in Attrs}
    BY <1>1, <1>2, <1>9, <1>16, <2>4
  <2> QED
    BY <1>7, <1>12, <2>2, <2>5, <2>6, <2>7, <2>8, WritesDocument
<1> QED
  BY <1>1, <1>2, <1>6, <1>9, <1>12, <1>13, <1>14, <1>15, <1>16, <1>17, BeginCaches

\* A rejected transaction.
LEMMA TransactFailsCaches ==
  ASSUME EntitiesInv, FreshInv, TidyInv, HydInv, AnchorInv, DocInv, NEW ops \in TxData, TransactFails(ops)
  PROVE  FreshInv' /\ TidyInv' /\ HydInv' /\ AnchorInv' /\ DocInv'
<1>1. wr.pc = "idle" /\ Submitted(ops) /\ TypeInv
  BY DEF TransactFails, Submitted, EntitiesInv
<1>2. PICK fresh : fresh = {Resolved(ops, n) : n \in FreshTids(ops)}
  OBVIOUS
<1>3. /\ Cardinality(fresh) \in Nat /\ Cardinality(fresh) = Cardinality(FreshTids(ops))
      /\ fresh \subseteq UserEids
      /\ \A e \in fresh : UserEid(nextSeq.user) <= e /\ e < UserEid(nextSeq.user + Cardinality(fresh))
  BY <1>1, <1>2, FreshRanks
<1>4. PICK c \in Nat : c = Cardinality(fresh)
  BY <1>3
<1>5. PICK cache : cache = HydrateEmpty(hyd, fresh)
  OBVIOUS
<1>6. /\ hyd' = cache /\ nextSeq'.user = nextSeq.user + c
      /\ UNCHANGED <<journal, datoms, anchors, wr, rd, raced, resaved, expect>>
  BY <1>2, <1>3, <1>4, <1>5 DEF TransactFails
<1>7. HydFits(cache, nextSeq.user + c, resaved)
  <2>1. fresh \in SUBSET Nat
    BY <1>3, Numbers
  <2> QED
    BY <1>1, <1>3, <1>4, <1>5, <2>1, HydrateEmptyFits
<1>8. nextSeq.user \in Nat /\ MaxTx \in Nat
  BY <1>1, Numbers DEF TypeInv
<1>9. ASSUME NEW e \in Nat, e < UserEid(nextSeq.user) PROVE e < UserEid(nextSeq'.user)
  BY <1>6, <1>8, <1>9 DEF UserEid
<1>10. FreshInv'
  <2>1. \A d \in journal' : d.e < UserEid(nextSeq'.user)
    <3>1. \A d \in journal : d.e \in Nat
      BY <1>1, Numbers DEF TypeInv, Datoms
    <3> QED
      BY <1>6, <1>9, <3>1 DEF FreshInv
  <2>2. \A f \in DOMAIN anchors' : anchors'[f] < UserEid(nextSeq'.user)
    <3>1. \A f \in DOMAIN anchors : anchors[f] \in Nat
      BY <1>1, Numbers DEF TypeInv, Indexes
    <3> QED
      BY <1>6, <1>9, <3>1 DEF FreshInv
  <2>3. rd'.pc = "scanned" => rd'.e < UserEid(nextSeq'.user)
    <3>1. rd.pc = "scanned" => rd.e \in Nat
      BY <1>1, Numbers DEF TypeInv
    <3> QED
      BY <1>6, <1>9, <3>1 DEF FreshInv
  <2>4. DOMAIN wr'.todo = {}
    BY <1>1, <1>6 DEF TypeInv
  <2>5. \A e \in DOMAIN hyd' : e < UserEid(nextSeq'.user)
    BY <1>6, <1>7 DEF HydFits
  <2> QED
    BY <2>1, <2>2, <2>3, <2>4, <2>5 DEF FreshInv
<1>11. Shown({"insert"})' = datoms /\ Shown({"apply", "insert"})' = Shown({"apply", "insert"})
  BY <1>1, <1>6 DEF Shown, Batch
<1>12. HydInv'
  <2>1. \A e \in DOMAIN hyd' \ (raced' \cup resaved') : hyd'[e] = StoreActive(datoms, e)
    BY <1>6, <1>7 DEF HydFits
  <2> QED
    BY <1>6, <1>11, <2>1 DEF HydInv
<1>13. TidyInv' /\ AnchorInv'
  BY <1>6, <1>11 DEF TidyInv, AnchorInv
<1>14. DocInv'
  BY <1>6 DEF DocInv, Pending
<1> QED
  BY <1>10, <1>12, <1>13, <1>14

\* The transaction entity first, then what the program writes.
LEMMA ProgramBatches ==
  ASSUME EntitiesInv, NEW t \in 1 .. MaxTx, NEW n \in Nat, NEW b, NEW S, NEW bs,
         bs = <<TxInstantEntry(t)>> \/ bs = <<TxInstantEntry(t), b>>,
         \A y \in ToSet(b) : y.e < UserEid(nextSeq.user + n),
         \A y, r \in ToSet(b) : y.op = "add" /\ r.op = "ret" /\ SameFact(y, r) => y.e \in S
  PROVE  Fits(bs, nextSeq.user + n) /\ Tidy(bs, S)
<1>1. PICK x : x = TxInstantEntry(t)
  OBVIOUS
<1>2. \A y \in ToSet(x) : y.op = "add" /\ y.e = t
  BY <1>1, TxInstantKey DEF Datom, TxEid
<1>3. t < UserEid(nextSeq.user + n)
  BY Numbers DEF UserEid, EntitiesInv, TypeInv
<1>4. \A i \in DOMAIN bs : i \in {1, 2} /\ bs[1] = x /\ (i = 2 => bs[2] = b)
  BY <1>1
<1>5. Fits(bs, nextSeq.user + n)
  <2> SUFFICES ASSUME NEW i \in DOMAIN bs, NEW y \in ToSet(bs[i]) PROVE y.e < UserEid(nextSeq.user + n)
    BY DEF Fits
  <2> QED
    BY <1>2, <1>3, <1>4
<1>6. Tidy(bs, S)
  <2> SUFFICES ASSUME NEW j \in DOMAIN bs, NEW i \in 1 .. j, NEW y \in ToSet(bs[j]), NEW r \in ToSet(bs[i]),
                      y.op = "add", r.op = "ret", SameFact(y, r)
               PROVE  y.e \in S
    BY DEF Tidy
  <2>1. i # 1
    BY <1>2, <1>4
  <2>2. i = 2 /\ j = 2 /\ bs[2] = b
    BY <1>4, <2>1
  <2> QED
    BY <2>2
<1> QED
  BY <1>5, <1>6

\* What save-entity writes supersedes the value it asserts only when that is
\* already there.
LEMMA SaveIntoTidy ==
  ASSUME TypeInv, NEW cache \in Caches, NEW e, NEW a, NEW v, NEW t,
         NEW y \in ToSet(SaveInto(cache, e, a, v, t)), NEW r \in ToSet(SaveInto(cache, e, a, v, t)),
         y.op = "add", r.op = "ret", SameFact(y, r)
  PROVE  a \notin Many /\ <<a, v>> \in ScanActive(cache, e) /\ y.e = e
<1>1. SavedAs(y, cache, e, a, v) /\ SavedAs(r, cache, e, a, v)
  BY SavedKeys
<1> QED
  BY <1>1 DEF SavedAs, SameFact

\* The keys of the batches of a program that saves a fact.
LEMMA ProgramSaves ==
  ASSUME NEW cache, NEW e, NEW a, NEW v, NEW t, NEW b, NEW bs, NEW F, NEW G,
         F = {<<e, a, v>>}, G = {}, b = SaveInto(cache, e, a, v, t), bs = <<TxInstantEntry(t), b>>
  PROVE  UNION {ToSet(bs[i]) : i \in DOMAIN bs} = Writes(cache, F, G, t)
<1>1. PICK x : x = TxInstantEntry(t)
  OBVIOUS
<1>2. DOMAIN bs = {1, 2} /\ bs[1] = x /\ bs[2] = b
  BY <1>1
<1>3. UNION {ToSet(bs[i]) : i \in DOMAIN bs} = ToSet(x) \cup ToSet(b)
  BY <1>2
<1> QED
  BY <1>1, <1>3, TxInstantKey DEF Writes

\* Of one that retracts a fact, or only finds an entity.
LEMMA ProgramWrites ==
  ASSUME NEW cache, NEW t, NEW b, NEW bs, NEW F, NEW G, F = {},
         \/ bs = <<TxInstantEntry(t)>> /\ G = {}
         \/ /\ bs = <<TxInstantEntry(t), b>>
            /\ \E e, a, v : G = {<<e, a, v>>} /\ ToSet(b) = {Datom(e, a, v, t, "ret")}
  PROVE  UNION {ToSet(bs[i]) : i \in DOMAIN bs} = Writes(cache, F, G, t)
<1>1. PICK x : x = TxInstantEntry(t)
  OBVIOUS
<1>2. CASE bs = <<x>> /\ G = {}
  <2>1. DOMAIN bs = {1} /\ bs[1] = x
    BY <1>2
  <2> QED
    BY <1>1, <1>2, <2>1, TxInstantKey DEF Writes
<1>3. ASSUME NEW e, NEW a, NEW v, bs = <<x, b>>, G = {<<e, a, v>>}, ToSet(b) = {Datom(e, a, v, t, "ret")}
      PROVE  UNION {ToSet(bs[i]) : i \in DOMAIN bs} = Writes(cache, F, G, t)
  <2>1. DOMAIN bs = {1, 2} /\ bs[1] = x /\ bs[2] = b
    BY <1>3
  <2>2. UNION {ToSet(bs[i]) : i \in DOMAIN bs} = ToSet(x) \cup ToSet(b)
    BY <2>1
  <2> QED
    BY <1>1, <1>3, <2>2, TxInstantKey DEF Writes
<1> QED
  BY <1>1, <1>2, <1>3

\* The writes of Scheme programs.
LEMMA ExecCaches ==
  ASSUME EntitiesInv, FreshInv, TidyInv, HydInv, AnchorInv, DocInv, NEW f \in ExecFacts,
         \/ \E e \in UserEids : ExecSave(e, f[1], f[2]) \/ ExecRetract(e, f[1], f[2])
         \/ ExecFound(f[1], f[2]) \/ ExecCreate(f[1], f[2])
  PROVE  FreshInv' /\ TidyInv' /\ HydInv' /\ AnchorInv' /\ DocInv'
<1>1. wr.pc = "idle" /\ Room(0)
  <2>1. wr.pc = "idle" /\ (Room(0) \/ Room(1))
    BY DEF ExecSave, ExecRetract, ExecFound, ExecCreate
  <2>2. nextSeq.user \in Int /\ MaxUser \in Int
    BY Numbers DEF EntitiesInv, TypeInv
  <2> QED
    BY <2>1, <2>2 DEF Room
<1>2. PICK t \in 1 .. MaxTx : t = nextSeq.tx
  BY <1>1, Numbers DEF Room, EntitiesInv, TypeInv
<1>3. PICK a \in Attrs, v \in AnyValue : a = f[1] /\ v = f[2]
  BY EntitySchema DEF AnyValue
<1>4. /\ TypeInv /\ hyd \in Caches /\ TxInstantEntry(t) \in Seq(Stamped(t))
      /\ nextSeq.user \in Nat \ {0} /\ MaxTx \in Nat
  <2>1. TxInstantEntry(t) \in Seq(Stamped(t))
    BY TxInstantType
  <2>2. TypeInv
    BY DEF EntitiesInv
  <2>3. hyd \in Caches /\ nextSeq.user \in Nat \ {0} /\ MaxTx \in Nat
    BY <2>2, Numbers DEF TypeInv
  <2> QED
    BY <2>1, <2>2, <2>3
<1>5. ASSUME NEW n \in Nat, NEW x \in Eids, NEW b \in Seq(Stamped(t)), NEW bs, NEW S, S = resaved', resaved \subseteq S,
             NEW h, h = hyd', HydFits(h, nextSeq.user + n, S),
             bs = <<TxInstantEntry(t)>> \/ bs = <<TxInstantEntry(t), b>>,
             Begin(t, n, bs, <<>>, <<>>),
             \A y \in ToSet(b) : y.e < UserEid(nextSeq.user + n),
             \A y, r \in ToSet(b) : y.op = "add" /\ r.op = "ret" /\ SameFact(y, r) => y.e \in S,
             h \in Caches, NEW adds \in SUBSET {<<x, a, v>>}, NEW rets \in SUBSET {<<x, a, v>>},
             expect' = Expected(adds, rets), Novel(adds, h, raced \cup S),
             UNION {ToSet(bs[i]) : i \in DOMAIN bs} = Writes(h, adds, rets, t)
      PROVE  FreshInv' /\ TidyInv' /\ HydInv' /\ AnchorInv' /\ DocInv'
  <2>1. Fits(bs, nextSeq.user + n) /\ Tidy(bs, S)
    BY <1>5, ProgramBatches
  <2>2. bs \in Seq(Seq(Stamped(t)))
    <3>1. TxInstantEntry(t) \in Seq(Stamped(t)) /\ b \in Seq(Stamped(t))
      BY <1>4
    <3>2. bs = <<TxInstantEntry(t)>> \/ bs = <<TxInstantEntry(t), b>>
      BY <1>5
    <3> QED
      BY <3>1, <3>2, TwoBatches
  <2>3. DocInv'
    <3>1. <<x, a, v>> \in Eids \X Attrs \X AnyValue
      OBVIOUS
    <3>2. adds \in SUBSET (Eids \X Attrs \X AnyValue) /\ Triples(rets) /\ adds \in SUBSET adds
      BY <3>1 DEF Triples
    <3>3. rets = {g \in rets : g[2] \in Attrs} /\ Covers(adds, adds, h)
      BY DEF Covers
    <3> QED
      BY <1>1, <1>2, <1>5, <2>2, <3>2, <3>3, WritesDocument
  <2> QED
    BY <1>1, <1>2, <1>5, <2>1, <2>2, <2>3, BeginCaches
<1>6. HydFits(hyd, nextSeq.user + 0, resaved)
  BY <1>1, <1>4 DEF HydFits, FreshInv, HydInv, Shown
<1>7. ASSUME NEW e \in UserEids, Known(e) PROVE e < UserEid(nextSeq.user + 0)
  BY <1>4, <1>7 DEF Known, FreshInv, TypeInv
<1>8. ASSUME NEW e \in UserEids, ExecSave(e, a, v) PROVE FreshInv' /\ TidyInv' /\ HydInv' /\ AnchorInv' /\ DocInv'
  <2>1. PICK b, bs, S : /\ b = SaveInto(hyd, e, a, v, t) /\ bs = <<TxInstantEntry(t), b>> /\ S = resaved'
    OBVIOUS
  <2>2. /\ Begin(t, 0, bs, <<>>, <<>>) /\ hyd' = hyd /\ Known(e)
        /\ S = IF a \notin Many /\ <<a, v>> \in ScanActive(hyd, e) THEN resaved \cup {e} ELSE resaved
    BY <1>2, <1>8, <2>1 DEF ExecSave
  <2>3. b \in Seq(Stamped(t))
    BY <1>4, <2>1, Numbers, SaveIntoType
  <2>4. \A y \in ToSet(b) : y.e < UserEid(nextSeq.user + 0)
    <3>1. \A y \in ToSet(b) : SavedAs(y, hyd, e, a, v)
      BY <1>4, <2>1, SavedKeys
    <3> QED
      BY <1>7, <2>2, <3>1 DEF SavedAs
  <2>5. \A y, r \in ToSet(b) : y.op = "add" /\ r.op = "ret" /\ SameFact(y, r) => y.e \in S
    BY <1>4, <2>1, <2>2, SaveIntoTidy
  <2>6. resaved \subseteq S /\ HydFits(hyd, nextSeq.user + 0, S)
    BY <1>6, <2>2 DEF HydFits
  <2>7. PICK F, G : F = {<<e, a, v>>} /\ G = {}
    OBVIOUS
  <2>8. F \in SUBSET {<<e, a, v>>} /\ G \in SUBSET {<<e, a, v>>} /\ Novel(F, hyd, raced \cup S)
    BY <2>2, <2>7 DEF Novel
  <2>9. expect' = Expected(F, G)
    BY <1>8, <2>7 DEF ExecSave
  <2>10. UNION {ToSet(bs[i]) : i \in DOMAIN bs} = Writes(hyd, F, G, t)
    <3>1. F = {<<e, a, v>>} /\ G = {} /\ b = SaveInto(hyd, e, a, v, t) /\ bs = <<TxInstantEntry(t), b>>
      BY <2>1, <2>7
    <3> QED
      BY <3>1, ProgramSaves
  <2>11. e \in Eids /\ 0 \in Nat /\ hyd' = hyd /\ hyd \in Caches
    BY <1>4, <2>2, Numbers
  <2>12. S = resaved' /\ (bs = <<TxInstantEntry(t)>> \/ bs = <<TxInstantEntry(t), b>>) /\ Begin(t, 0, bs, <<>>, <<>>)
    BY <2>1, <2>2
  <2> QED
    BY <1>5, <2>3, <2>4, <2>5, <2>6, <2>8, <2>9, <2>10, <2>11, <2>12
<1>9. ASSUME NEW e \in UserEids, ExecRetract(e, a, v) PROVE FreshInv' /\ TidyInv' /\ HydInv' /\ AnchorInv' /\ DocInv'
  <2>1. PICK x, b, bs, S : /\ x = Datom(e, a, v, t, "ret") /\ b = <<x>>
                           /\ bs = <<TxInstantEntry(t), b>> /\ S = resaved'
    OBVIOUS
  <2>2. Begin(t, 0, bs, <<>>, <<>>) /\ hyd' = hyd /\ Known(e) /\ S = resaved
    BY <1>2, <1>9, <2>1 DEF ExecRetract
  <2>3. x \in Stamped(t) /\ x.e = e /\ x.op = "ret"
    <3>1. x \in Stamped(t)
      BY <2>1, Numbers, DatomStamped
    <3> QED
      BY <2>1, <3>1 DEF Datom
  <2>4. b \in Seq(Stamped(t)) /\ ToSet(b) = {x}
    BY <2>1, <2>3 DEF ToSet
  <2>5. /\ \A y \in ToSet(b) : y.e < UserEid(nextSeq.user + 0)
        /\ \A y, r \in ToSet(b) : y.op = "add" /\ r.op = "ret" /\ SameFact(y, r) => y.e \in S
    BY <1>7, <2>2, <2>3, <2>4
  <2>6. resaved \subseteq S /\ HydFits(hyd, nextSeq.user + 0, S)
    BY <1>6, <2>2
  <2>7. PICK F, G : F = {} /\ G = {<<e, a, v>>}
    OBVIOUS
  <2>8. F \in SUBSET {<<e, a, v>>} /\ G \in SUBSET {<<e, a, v>>} /\ Novel(F, hyd, raced \cup S)
    BY <2>7 DEF Novel
  <2>9. expect' = Expected(F, G)
    BY <1>9, <2>7 DEF ExecRetract
  <2>10. UNION {ToSet(bs[i]) : i \in DOMAIN bs} = Writes(hyd, F, G, t)
    <3>1. /\ bs = <<TxInstantEntry(t), b>> /\ F = {} /\ G = {<<e, a, v>>}
          /\ ToSet(b) = {Datom(e, a, v, t, "ret")}
      BY <2>1, <2>4, <2>7
    <3> QED
      BY <3>1, ProgramWrites
  <2>11. e \in Eids /\ 0 \in Nat /\ hyd' = hyd /\ hyd \in Caches
    BY <1>4, <2>2, Numbers
  <2>12. S = resaved' /\ (bs = <<TxInstantEntry(t)>> \/ bs = <<TxInstantEntry(t), b>>) /\ Begin(t, 0, bs, <<>>, <<>>)
    BY <2>1, <2>2
  <2> QED
    BY <1>5, <2>4, <2>5, <2>6, <2>8, <2>9, <2>10, <2>11, <2>12
<1>10. ASSUME ExecFound(a, v) PROVE FreshInv' /\ TidyInv' /\ HydInv' /\ AnchorInv' /\ DocInv'
  <2>1. PICK e, keys : e = Lookup(a, v) /\ keys = StoreActive(datoms, e)
    OBVIOUS
  <2>2. PICK b, bs, S, h : b = <<>> /\ bs = <<TxInstantEntry(t)>> /\ S = resaved' /\ h = hyd'
    OBVIOUS
  <2>3. /\ Begin(t, 0, bs, <<>>, <<>>) /\ S = resaved /\ e # NoEid
        /\ h = hyd \/ h \in Hydrated(hyd, e, keys)
    BY <1>2, <1>10, <2>1, <2>2 DEF ExecFound
  <2>4. e < UserEid(nextSeq.user + 0)
    <3>1. e < UserEid(nextSeq.user)
      BY <2>1, <2>3, LookupBelow
    <3> QED
      BY <1>4, <3>1
  <2>5. \A x \in DOMAIN h : (x \in DOMAIN hyd /\ h[x] = hyd[x]) \/ (x = e /\ h[x] = keys)
    BY <1>4, <2>3, HydratedEffect
  <2>6. HydFits(h, nextSeq.user + 0, S)
    BY <1>6, <2>1, <2>3, <2>4, <2>5 DEF HydFits
  <2>7. b \in Seq(Stamped(t)) /\ ToSet(b) = {}
    BY <2>2 DEF ToSet
  <2>8. /\ \A y \in ToSet(b) : y.e < UserEid(nextSeq.user + 0)
        /\ \A y, r \in ToSet(b) : y.op = "add" /\ r.op = "ret" /\ SameFact(y, r) => y.e \in S
    BY <2>7
  <2>9. PICK F, G : F = {} /\ G = {}
    OBVIOUS
  <2>10. \A x : F \in SUBSET {<<x, a, v>>} /\ G \in SUBSET {<<x, a, v>>} /\ Novel(F, h, raced \cup S)
    BY <2>9 DEF Novel
  <2>11. expect' = Expected(F, G)
    BY <1>10, <2>9 DEF ExecFound, Expected
  <2>12. UNION {ToSet(bs[i]) : i \in DOMAIN bs} = Writes(h, F, G, t)
    <3>1. bs = <<TxInstantEntry(t)>> /\ F = {} /\ G = {}
      BY <2>2, <2>9
    <3> QED
      BY <3>1, ProgramWrites
  <2>13. e \in Eids
    BY <1>4, <2>1, <2>3, LookupType
  <2>14. keys \in FactSets
    <3>1. datoms \in SUBSET Datoms /\ IsFiniteSet(datoms)
      BY <1>4, FS_Subset DEF TypeInv
    <3> QED
      BY <2>1, <3>1, StoreActiveType
  <2>15. h \in Caches
    BY <1>4, <2>3, <2>13, <2>14, HydratedType
  <2>16. S = resaved' /\ h = hyd' /\ 0 \in Nat /\ b \in Seq(Stamped(t)) /\ resaved \subseteq S
    BY <2>2, <2>3, <2>7
  <2>17. (bs = <<TxInstantEntry(t)>> \/ bs = <<TxInstantEntry(t), b>>) /\ Begin(t, 0, bs, <<>>, <<>>)
    BY <2>2, <2>3
  <2>18. F \in SUBSET {<<e, a, v>>} /\ G \in SUBSET {<<e, a, v>>} /\ Novel(F, h, raced \cup S)
    BY <2>10
  <2> QED
    BY <1>5, <2>6, <2>8, <2>11, <2>12, <2>13, <2>15, <2>16, <2>17, <2>18
<1>11. ASSUME ExecCreate(a, v) PROVE FreshInv' /\ TidyInv' /\ HydInv' /\ AnchorInv' /\ DocInv'
  <2>1. PICK e, cache : e = UserEid(nextSeq.user) /\ cache = HydrateEmpty(hyd, {e})
    OBVIOUS
  <2>2. PICK b, bs, S : /\ b = SaveInto(cache, e, a, v, t) /\ bs = <<TxInstantEntry(t), b>> /\ S = resaved'
    OBVIOUS
  <2>3. Begin(t, 1, bs, <<>>, <<>>) /\ hyd' = cache /\ S = resaved
    BY <1>2, <1>11, <2>1, <2>2 DEF ExecCreate
  <2>4. e \in UserEids
    <3>1. nextSeq.user \in 1 .. MaxUser
      BY <1>4, <1>11, Numbers DEF ExecCreate, Room
    <3> QED
      BY <2>1, <3>1, Numbers
  <2>5. e \in Nat /\ UserEid(nextSeq.user) <= e /\ e < UserEid(nextSeq.user + 1)
    BY <1>4, <2>1 DEF UserEid
  <2>6. HydFits(cache, nextSeq.user + 1, resaved) /\ e \in DOMAIN cache /\ cache[e] = {}
    <3>1. {e} \in SUBSET Nat /\ \A x \in {e} : UserEid(nextSeq.user) <= x /\ x < UserEid(nextSeq.user + 1)
      BY <2>5
    <3> QED
      BY <1>1, <2>1, <3>1, HydrateEmptyFits
  <2>7. cache \in Caches /\ b \in Seq(Stamped(t))
    BY <1>4, <2>1, <2>2, <2>4, Numbers, HydrateEmptyType, SaveIntoType
  <2>8. \A y \in ToSet(b) : y.e < UserEid(nextSeq.user + 1)
    <3>1. \A y \in ToSet(b) : SavedAs(y, cache, e, a, v)
      BY <1>4, <2>2, <2>7, SavedKeys
    <3> QED
      BY <2>5, <3>1 DEF SavedAs
  <2>9. \A y, r \in ToSet(b) : y.op = "add" /\ r.op = "ret" /\ SameFact(y, r) => y.e \in S
    <3>1. ScanActive(cache, e) = {}
      BY <2>6 DEF ScanActive
    <3> QED
      BY <1>4, <2>2, <2>7, <3>1, SaveIntoTidy
  <2>10. PICK F, G : F = {<<e, a, v>>} /\ G = {}
    OBVIOUS
  <2>11. F \in SUBSET {<<e, a, v>>} /\ G \in SUBSET {<<e, a, v>>} /\ Novel(F, cache, raced \cup S)
    BY <2>6, <2>10 DEF Novel, ScanActive
  <2>12. expect' = Expected(F, G)
    BY <1>11, <2>1, <2>10 DEF ExecCreate
  <2>13. UNION {ToSet(bs[i]) : i \in DOMAIN bs} = Writes(cache, F, G, t)
    <3>1. F = {<<e, a, v>>} /\ G = {} /\ b = SaveInto(cache, e, a, v, t) /\ bs = <<TxInstantEntry(t), b>>
      BY <2>2, <2>10
    <3> QED
      BY <3>1, ProgramSaves
  <2>14. e \in Eids
    BY <2>4, Numbers
  <2> QED
    BY <1>5, <2>2, <2>3, <2>6, <2>7, <2>8, <2>9, <2>11, <2>12, <2>13, <2>14
<1> QED
  BY <1>3, <1>8, <1>9, <1>10, <1>11
-----------------------------------------------------------------------------
(* The theorems.                                                           *)

\* Every step up to the first restart.
LEMMA NextCaches == EntitiesInv /\ CachesInv /\ [Next]_vars => CachesInv'
<1> SUFFICES ASSUME EntitiesInv, CachesInv, [Next]_vars, restarts' = 0
             PROVE  FreshInv' /\ TidyInv' /\ HydInv' /\ AnchorInv' /\ DocInv'
  BY DEF CachesInv
<1>1. restarts \in Nat
  BY Numbers DEF EntitiesInv, TypeInv
<1>2. ~Restart
  BY <1>1 DEF Restart
<1>3. restarts = 0
  BY <1>2 DEF Next, Transact, TransactFails, ExecSave, ExecRetract, ExecFound, ExecCreate, Begin,
              Journal, ApplyKeys, Insert, QueryScan, QueryInstall, vars
<1>4. FreshInv /\ TidyInv /\ HydInv /\ AnchorInv /\ DocInv
  BY <1>3 DEF CachesInv
<1>5. ASSUME NEW ops \in TxData, Transact(ops) \/ TransactFails(ops)
      PROVE  FreshInv' /\ TidyInv' /\ HydInv' /\ AnchorInv' /\ DocInv'
  BY <1>4, <1>5, TransactCaches, TransactFailsCaches
<1>6. ASSUME NEW f \in ExecFacts,
             \/ \E e \in UserEids : ExecSave(e, f[1], f[2]) \/ ExecRetract(e, f[1], f[2])
             \/ ExecFound(f[1], f[2]) \/ ExecCreate(f[1], f[2])
      PROVE  FreshInv' /\ TidyInv' /\ HydInv' /\ AnchorInv' /\ DocInv'
  BY <1>4, <1>6, ExecCaches
<1>7. CASE Journal
  BY <1>4, <1>7, JournalCaches, PendingKept
<1>8. CASE ApplyKeys
  BY <1>4, <1>8, ApplyCaches, PendingKept
<1>9. CASE Insert
  BY <1>4, <1>9, InsertCaches, PendingKept
<1>10. CASE (\E e \in UserEids : QueryScan(e)) \/ QueryInstall
  BY <1>4, <1>10, QueryCaches, PendingKept
<1>11. CASE UNCHANGED vars
  <2>1. UNCHANGED <<journal, datoms, anchors, hyd, nextSeq, wr, rd, raced, resaved, expect>>
    BY <1>11 DEF vars, memVars
  <2>2. \A S : Shown(S)' = Shown(S)
    BY <2>1 DEF Shown, Batch
  <2>3. FreshInv' /\ TidyInv' /\ HydInv' /\ AnchorInv'
    BY <1>4, <2>1, <2>2 DEF FreshInv, TidyInv, HydInv, AnchorInv
  <2>4. DocInv'
    BY <1>4, <2>1 DEF DocInv, Pending
  <2> QED
    BY <2>3, <2>4
<1> QED
  BY <1>2, <1>5, <1>6, <1>7, <1>8, <1>9, <1>10, <1>11 DEF Next

\* The empty store.
LEMMA InitCaches == Init => CachesInv
<1> SUFFICES ASSUME Init PROVE FreshInv /\ TidyInv /\ HydInv /\ AnchorInv /\ DocInv
  BY DEF CachesInv
<1>1. /\ journal = {} /\ DOMAIN wr.todo = {} /\ DOMAIN hyd = {} /\ DOMAIN anchors = {} /\ rd.pc = "idle"
  BY DEF Init, Idle, NoQuery
<1>2. FreshInv /\ TidyInv /\ HydInv /\ AnchorInv
  BY <1>1 DEF FreshInv, TidyInv, HydInv, AnchorInv
<1>3. DocInv
  <2>1. expect = {} /\ Pending = {}
    BY <1>1 DEF Init, Pending
  <2>2. \A e : StoreActive({}, e) = {} /\ Of({}, e) = {}
    BY NoKeysNoFacts DEF Of
  <2> QED
    BY <2>1, <2>2 DEF DocInv, Documented
<1> QED
  BY <1>2, <1>3

\* Up to the first restart, whatever transactions, programs and queries do:
\* entities in use were allocated, no transaction asserts a fact after it
\* retracted it, each cache agrees with the store and with the batch it has
\* already taken from BatchWrite, and the keys stored and to be stored make
\* exactly the facts the protocol describes active.
THEOREM CachesInvariance == Spec => []CachesInv
<1>1. Init => CachesInv
  BY InitCaches
<1>2. EntitiesInv /\ CachesInv /\ [Next]_vars => CachesInv'
  BY NextCaches
<1> QED
  BY <1>1, <1>2, Invariance, PTL DEF Spec

\* "A hydrated eid has its COMPLETE set of active CF-0 datom keys in memory"
\* (hydrated.go): between transactions what Hyd holds of an entity is what a
\* scan of the store finds, through HydrateEmpty, ApplyKey, the installation of
\* scans that queries made without the lock, and evictions.
THEOREM HydratedIsComplete == Spec => []HydratedComplete
<1>1. CachesInv => HydratedComplete
  BY DEF CachesInv, HydInv, Shown, HydratedComplete
<1> QED
  BY <1>1, CachesInvariance, PTL

\* The anchor index is a "write-through mirror" of CF-2 (anchor.go): between
\* transactions LookupEntity answers an entity that has the unique value, and
\* misses only when none has it, whatever was evicted from the index.
THEOREM LookupIsExact == Spec => []LookupExact
<1>1. EntitiesInv /\ CachesInv => LookupExact
  <2> SUFFICES ASSUME EntitiesInv, CachesInv, wr.pc = "idle", restarts = 0, NEW a \in Unique, NEW v \in Values
               PROVE  \/ Lookup(a, v) \in Holders(a, v) \cup resaved
                      \/ Holders(a, v) = {} /\ Lookup(a, v) = NoEid
    BY DEF LookupExact
  <2>1. AnchorInv /\ Shown({"apply", "insert"}) = datoms
    BY DEF CachesInv, Shown
  <2>2. PICK e : e = Lookup(a, v)
    OBVIOUS
  <2>3. CASE e # NoEid
    BY <2>1, <2>2, <2>3, LookupActive
  <2>4. CASE e = NoEid
    <3>1. Holders(a, v) \subseteq Eids
      BY DEF Holders, EntitiesInv, TypeInv, Datoms
    <3>2. ASSUME <<a, v>> \in DOMAIN anchors PROVE FALSE
      <4>1. anchors[<<a, v>>] \in Eids
        BY <3>2 DEF EntitiesInv, TypeInv, Indexes
      <4> QED
        BY <2>2, <2>4, <3>2, <4>1, Numbers DEF Lookup
    <3>3. ASSUME Holders(a, v) # {} PROVE FALSE
      <4>1. e \in Holders(a, v)
        BY <2>2, <3>1, <3>2, <3>3, Numbers, MinLeast DEF Lookup
      <4> QED
        BY <2>4, <3>1, <4>1, Numbers
    <3> QED
      BY <2>2, <2>4, <3>3
  <2> QED
    BY <2>3, <2>4
<1> QED
  BY <1>1, Invariance, CachesInvariance, PTL

\* What a client sees of its transactions (docs/tx-protocol.md, section 4):
\* between transactions the active facts of an entity are those that the
\* assertions, replacements and retractions acknowledged so far leave, although
\* each transaction decided what to supersede from the caches and wrote its
\* keys in several batches.
THEOREM StoreIsAsDocumented == Spec => []StoreAsDocumented
<1>1. EntitiesInv /\ CachesInv => StoreAsDocumented
  <2> SUFFICES ASSUME EntitiesInv, CachesInv, wr.pc = "idle", restarts = 0,
                      NEW e \in (TxEids \cup UserEids) \ (raced \cup resaved)
               PROVE  {f \in StoreActive(datoms, e) : f[1] # TxInstant}
                        = {<<f[2], f[3]>> : f \in {x \in expect : x[1] = e}}
    BY DEF StoreAsDocumented
  <2>1. DOMAIN wr.todo = {}
    BY DEF EntitiesInv, TypeInv
  <2>2. Pending = datoms
    BY <2>1 DEF Pending
  <2>3. e \in Eids /\ DocInv
    BY Numbers DEF CachesInv
  <2>4. Documented(datoms, expect, e)
    BY <2>2, <2>3 DEF DocInv
  <2> QED
    BY <2>4 DEF Documented, Of
<1> QED
  BY <1>1, Invariance, CachesInvariance, PTL
-----------------------------------------------------------------------------
(* What the slots of a transaction stand for.                              *)

\* An op owns one lookup (lookupOwner), so a lookup ref in the v slot takes it
\* from the e slot: no such op is sent.
OneLookupPerOp ==
  \A ops \in TxData : \A i \in DOMAIN ops : ops[i].v.k = "ref" => ops[i].e.k \notin {"ref", "tid"}

\* The entity e of the slot of an op, as SlotsResolve describes it.
Stands(ops, slot, e) ==
  LET has == StoreActive(datoms, e)
  IN /\ slot.k = "ref" => <<slot.a, slot.v>> \in has
     /\ slot.k = "tid" /\ has # {} =>
          \E j \in DOMAIN ops : /\ ops[j].k = "add" /\ ops[j].e = slot
                                /\ ops[j].a \in Unique /\ ops[j].v.k = "val"
                                /\ <<ops[j].a, ops[j].v.v>> \in has

\* The e slots of a transaction that is accepted.
LEMMA SlotStands ==
  ASSUME OneLookupPerOp, EntitiesInv, FreshInv, AnchorInv, NEW ops, Accepted(ops),
         NEW t, NEW i \in DOMAIN ops, NEW e, e = EidOf(ops, ops[i], t), e \notin resaved
  PROVE  Stands(ops, ops[i].e, e)
<1> DEFINE slot == ops[i].e
           has == StoreActive(datoms, e)
<1>1. /\ ops \in TxData /\ wr.pc = "idle" /\ Submitted(ops) /\ ~Rejected(ops, ops[i])
      /\ \A j \in DOMAIN ops : ops[j].v.k = "ref" => ops[j].e.k \notin {"ref", "tid"}
  BY DEF Accepted, Submitted, OneLookupPerOp
<1>2. ASSUME NEW j \in DOMAIN ops, LookupKey(ops[j]) # NoKey, ops[j].v.k # "ref",
             Result(ops[j]) # NoEid, Result(ops[j]) = e
      PROVE  LookupKey(ops[j]) \in StoreActive(datoms, e)
  <2>1. PICK a, v : LookupKey(ops[j]) = <<a, v>>
    BY <1>2 DEF LookupKey
  <2>2. e = Lookup(a, v) /\ e # NoEid
    BY <1>2, <2>1 DEF Result
  <2> QED
    BY <1>1, <2>1, <2>2, LookupActive
<1>3. ASSUME slot.k = "ref" PROVE <<slot.a, slot.v>> \in has
  <2>1. e = Result(ops[i]) /\ e # NoEid
    BY <1>1, <1>3 DEF EidOf, Rejected
  <2>2. LookupKey(ops[i]) # NoKey
    BY <2>1 DEF Result
  <2>3. ops[i].v.k # "ref"
    BY <1>1, <1>3
  <2>4. LookupKey(ops[i]) = <<slot.a, slot.v>>
    BY <1>3, <2>2, <2>3 DEF LookupKey
  <2> QED
    BY <1>2, <2>1, <2>2, <2>3, <2>4
<1>4. ASSUME slot.k = "tid", has # {}
      PROVE  \E j \in DOMAIN ops : /\ ops[j].k = "add" /\ ops[j].e = slot
                                   /\ ops[j].a \in Unique /\ ops[j].v.k = "val"
                                   /\ <<ops[j].a, ops[j].v.v>> \in has
  <2>1. slot \in TidSlots
    BY <1>1, <1>4, RequestShape DEF EidSlots, TidSlots
  <2>2. PICK n : n = slot.n /\ slot = Tid(n) /\ n \in Tids(ops)
    <3>1. slot.n \in Tids(ops)
      BY <1>4 DEF Tids
    <3>2. slot = Tid(slot.n)
      BY <2>1 DEF TidSlots, Tid
    <3> QED
      BY <3>1, <3>2
  <2>3. e = Resolved(ops, n)
    BY <1>4, <2>2 DEF EidOf
  <2>4. n \notin FreshTids(ops)
    <3> SUFFICES ASSUME n \in FreshTids(ops) PROVE FALSE
      OBVIOUS
    <3>1. PICK fresh : fresh = {Resolved(ops, m) : m \in FreshTids(ops)}
      OBVIOUS
    <3>2. fresh \subseteq UserEids /\ \A x \in fresh : UserEid(nextSeq.user) <= x
      BY <1>1, <3>1, FreshRanks
    <3>3. e \in UserEids /\ UserEid(nextSeq.user) <= e
      BY <2>3, <3>1, <3>2
    <3>4. ASSUME NEW d \in datoms PROVE d.e # e
      <4>1. d.e < UserEid(nextSeq.user) /\ d.e \in Nat /\ UserEid(nextSeq.user) \in Nat /\ e \in Nat
        BY <3>3, Numbers DEF FreshInv, EntitiesInv, TypeInv, Datoms, UserEid
      <4> QED
        BY <3>3, <4>1
    <3>5. has = {}
      BY <3>4, NoKeysNoFacts
    <3> QED
      BY <1>4, <3>5
  <2>5. PICK owners : owners = {j \in DOMAIN ops : ops[j].k = "add" /\ ops[j].e = Tid(n)
                                                   /\ LookupKey(ops[j]) # NoKey}
    OBVIOUS
  <2>6. e = Upserted(ops, n) /\ e # NoEid
    BY <2>2, <2>3, <2>4 DEF Resolved, FreshTids
  <2>7. owners # {} /\ e = Result(ops[Min(owners)])
    BY <2>5, <2>6 DEF Upserted
  <2>8. PICK j \in owners : j = Min(owners)
    <3>1. owners \in SUBSET Nat
      BY <1>1, <2>5, RequestShape
    <3> QED
      BY <2>7, <3>1, MinLeast
  <2>9. /\ j \in DOMAIN ops /\ ops[j].k = "add" /\ ops[j].e = slot /\ LookupKey(ops[j]) # NoKey
        /\ Result(ops[j]) = e /\ ops[j].v.k # "ref"
    BY <1>1, <1>4, <2>2, <2>5, <2>7, <2>8
  <2>10. ops[j].a \in Unique /\ ops[j].v.k = "val" /\ LookupKey(ops[j]) = <<ops[j].a, ops[j].v.v>>
    BY <1>4, <2>9 DEF LookupKey
  <2>11. LookupKey(ops[j]) \in has
    BY <1>2, <2>6, <2>9
  <2> QED
    BY <2>9, <2>10, <2>11
<1> QED
  BY <1>3, <1>4 DEF Stands

\* Once a batch of a transaction is stored, fewer are left than it began with.
LEMMA InsertLeavesFewer ==
  ASSUME EntitiesInv, Insert, wr'.pc = "journal"
  PROVE  wr'.todo # intent'[wr'.t]
<1>1. wr.pc = "insert" /\ intent' = intent
  BY DEF Insert
<1>2. wr'.t = wr.t /\ wr'.todo = Tail(wr.todo) /\ Len(wr.todo) # 1
  BY <1>1 DEF Insert, Idle, EntitiesInv, TypeInv
<1>3. wr.todo \in Seq(Seq(Datoms)) /\ wr.todo # <<>>
  BY <1>1, BatchType
<1>4. Len(Tail(wr.todo)) = Len(wr.todo) - 1 /\ Len(wr.todo) \in Nat
  BY <1>3, HeadTailProperties
<1>5. wr.t \in DOMAIN intent /\ \E k \in 1 .. Len(intent[wr.t]) : Len(wr.todo) = Len(intent[wr.t]) - k + 1
  BY <1>1 DEF EntitiesInv, WriteInv
<1>6. intent[wr.t] \in Seq(Seq(Stamped(wr.t)))
  BY <1>5 DEF EntitiesInv, IntentInv
<1>7. Len(intent[wr.t]) \in Nat
  BY <1>6
<1>8. Len(Tail(wr.todo)) < Len(intent[wr.t])
  BY <1>4, <1>5, <1>7
<1>9. Tail(wr.todo) # intent[wr.t]
  <2>1. PICK p, q : p = Tail(wr.todo) /\ q = intent[wr.t]
    OBVIOUS
  <2>2. Len(p) < Len(q) /\ Len(q) \in Nat
    BY <1>7, <1>8, <2>1
  <2>3. p # q
    BY <2>2
  <2> QED
    BY <2>1, <2>3
<1> QED
  BY <1>1, <1>2, <1>9

\* Every step.
LEMMA NextSlots ==
  ASSUME OneLookupPerOp, EntitiesInv, CachesInv, SlotsResolve, [Next]_vars
  PROVE  SlotsResolve'
<1> DEFINE Slots == \A i \in {j \in DOMAIN wr.ops : wr.es[j] \notin resaved} :
                      Stands(wr.ops, wr.ops[i].e, wr.es[i])
<1>1. SlotsResolve <=> (wr.pc = "journal" /\ restarts = 0 /\ wr.todo = intent[wr.t] => Slots)
  BY DEF SlotsResolve, Stands
<1>2. SlotsResolve' <=> (wr.pc = "journal" /\ restarts = 0 /\ wr.todo = intent[wr.t] => Slots)'
  BY DEF SlotsResolve, Stands
<1> SUFFICES ASSUME restarts' = 0, wr'.pc = "journal", wr'.todo = intent'[wr'.t] PROVE Slots'
  BY <1>2
<1>3. ASSUME NEW ops \in TxData, Transact(ops) PROVE Slots'
  <2>1. Accepted(ops) /\ restarts = 0
    BY <1>3 DEF Transact, Accepted, Begin
  <2>2. FreshInv /\ AnchorInv
    BY <2>1 DEF CachesInv
  <2>3. PICK t, es : t = nextSeq.tx /\ es = [i \in DOMAIN ops |-> EidOf(ops, ops[i], t)]
    OBVIOUS
  <2>4. wr'.ops = ops /\ wr'.es = es /\ datoms' = datoms /\ resaved' = resaved
    BY <1>3, <2>3 DEF Transact, Begin
  <2>5. ASSUME NEW i \in DOMAIN ops, es[i] \notin resaved PROVE Stands(ops, ops[i].e, es[i])
    <3>1. es[i] = EidOf(ops, ops[i], t)
      BY <2>3
    <3> QED
      BY <2>1, <2>2, <2>5, <3>1, SlotStands
  <2> QED
    BY <2>4, <2>5 DEF Stands
<1>4. ASSUME NEW ops \in TxData, TransactFails(ops) PROVE FALSE
  BY <1>4 DEF TransactFails, Submitted
<1>5. ASSUME NEW f \in ExecFacts,
             \/ \E e \in UserEids : ExecSave(e, f[1], f[2]) \/ ExecRetract(e, f[1], f[2])
             \/ ExecFound(f[1], f[2]) \/ ExecCreate(f[1], f[2])
      PROVE  Slots'
  <2>1. \E t, c, bs : Begin(t, c, bs, <<>>, <<>>)
    BY <1>5, Zenon DEF ExecSave, ExecRetract, ExecFound, ExecCreate
  <2>2. wr'.ops = <<>>
    BY <2>1 DEF Begin
  <2> QED
    BY <2>2
<1>6. ASSUME Journal \/ ApplyKeys PROVE FALSE
  BY <1>6 DEF Journal, ApplyKeys, EntitiesInv, TypeInv
<1>7. ASSUME Insert PROVE FALSE
  BY <1>7, InsertLeavesFewer
<1>8. ASSUME (\E e \in UserEids : QueryScan(e)) \/ QueryInstall \/ UNCHANGED vars PROVE Slots'
  <2>1. UNCHANGED <<datoms, wr, intent, resaved, restarts>>
    BY <1>8 DEF QueryScan, QueryInstall, vars, memVars
  <2> QED
    BY <1>1, <2>1 DEF Stands
<1>9. ASSUME Restart PROVE FALSE
  BY <1>9 DEF Restart, Idle
<1> QED
  BY <1>3, <1>4, <1>5, <1>6, <1>7, <1>8, <1>9 DEF Next

\* When an op has at most one lookup ref, in the slot that needs it, a lookup
\* ref stands for the entity that has the value and a tempid stands for an
\* existing entity only by a unique value the transaction asserts of it
\* (docs/tx-protocol.md, sections 5.1 and 5.3), although the lookups answer from
\* the anchor index.
THEOREM SlotsAreResolved ==
  ASSUME OneLookupPerOp
  PROVE  Spec => []SlotsResolve
<1>1. Init => SlotsResolve
  BY DEF Init, Idle, SlotsResolve
<1>2. EntitiesInv /\ CachesInv /\ SlotsResolve /\ [Next]_vars => SlotsResolve'
  BY NextSlots
<1> QED
  BY <1>1, <1>2, Invariance, CachesInvariance, PTL DEF Spec
=============================================================================
