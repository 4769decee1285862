-------------------------------- MODULE Pages --------------------------------
(***************************************************************************)
(* Keys and encoded pages: the order of byte strings and their prefixes    *)
(* (internal/pagestore/types.go, store.go), leaf and index pages as they   *)
(* are written (pages.go) and the arena form the read path decodes a leaf  *)
(* into (flat.go).                                                         *)
(*                                                                         *)
(* A byte is a number 0..MaxByte, MaxByte standing for 0xff, and a key is  *)
(* a tuple of bytes.                                                       *)
(***************************************************************************)
EXTENDS Integers, Sequences, FiniteSets, SequencesExt

CONSTANTS MaxByte,     \* the largest byte
          CountMod     \* the range of the 16-bit entry count of a page

ASSUME BytesAssumption == MaxByte \in Nat /\ CountMod \in Nat \ {0}

NoValue == "novalue"
NoPage == [count |-> 0, recs |-> <<>>]
NoKey == <<>>

-----------------------------------------------------------------------------
(* Keys: byte-wise order and prefixes.                                     *)

CommonPrefixLen(a, b) ==
    CHOOSE n \in 0 .. Len(a) :
        /\ n <= Len(b) /\ SubSeq(a, 1, n) = SubSeq(b, 1, n)
        /\ n = Len(a) \/ n = Len(b) \/ a[n + 1] # b[n + 1]

CmpSeq(a, b) ==
    LET n == CommonPrefixLen(a, b)
    IN CASE n = Len(a) /\ n = Len(b) -> 0
         [] n = Len(a) /\ n < Len(b) -> -1
         [] n = Len(b) /\ n < Len(a) -> 1
         [] OTHER -> IF a[n + 1] < b[n + 1] THEN -1 ELSE 1

hasPrefix(k, prefix) == Len(prefix) <= Len(k) /\ SubSeq(k, 1, Len(prefix)) = prefix

\* The keys in order: the i-th has i - 1 keys below it.
SortedKeys(S) ==
    [i \in 1 .. Cardinality(S) |->
        CHOOSE k \in S : Cardinality({j \in S : CmpSeq(j, k) < 0}) = i - 1]

\* The exclusive upper bound of a prefix: the last byte that is not 0xff plus
\* one, without the bytes after it; NoKey when every byte is 0xff.
PrefixEnd(prefix) ==
    LET below == {i \in DOMAIN prefix : prefix[i] < MaxByte}
        n == Max(below)
    IN IF below = {} THEN NoKey ELSE [SubSeq(prefix, 1, n) EXCEPT ![n] = @ + 1]

-----------------------------------------------------------------------------
(* Encoded pages.  Each entry keeps the number of bytes it shares with the *)
(* key before it and the rest of its key; x is the payload (a value, a     *)
(* child page, or nothing).  The entry count is written in 16 bits.        *)

Entry(k, x) == [k |-> k, x |-> x]
NoEntry == Entry(NoKey, NoValue)

SerializePage(entries) ==
    [count |-> Len(entries) % CountMod,
     recs  |-> [i \in DOMAIN entries |->
                  LET p == IF i = 1 THEN 0
                           ELSE CommonPrefixLen(entries[i - 1].k, entries[i].k)
                  IN [plen |-> p,
                      suffix |-> SubSeq(entries[i].k, p + 1, Len(entries[i].k)),
                      x |-> entries[i].x]]]

\* The bytes a record shares with the key before it, no more than that key has.
Shared(prev, r) == SubSeq(prev, 1, IF r.plen > Len(prev) THEN Len(prev) ELSE r.plen)

DeserializePage(page) ==
    LET key[i \in 0 .. page.count] ==
            IF i = 0 THEN NoKey ELSE Shared(key[i - 1], page.recs[i]) \o page.recs[i].suffix
    IN [i \in 1 .. page.count |-> Entry(key[i], page.recs[i].x)]

\* Index pages have the same layout, with the child page as the payload.
SerializeIndexPage(entries) == SerializePage(entries)
DeserializeIndexPage(page) == DeserializePage(page)

\* The arena form the read path decodes a leaf into: all keys in one buffer,
\* key i between offsets i and i + 1, the shared prefix taken out of the arena.
appendFlat(f, r) ==
    LET start == Len(f.buf)
        prev  == SubSeq(f.buf, f.prev + 1, start)
        buf   == f.buf \o Shared(prev, r) \o r.suffix
    IN [buf |-> buf, prev |-> start, offs |-> Append(f.offs, Len(buf)),
        vals |-> Append(f.vals, r.x)]

DecodePageFlat(page) ==
    LET flat[i \in 0 .. page.count] ==
            IF i = 0 THEN [buf |-> <<>>, prev |-> 0, offs |-> <<0>>, vals |-> <<>>]
            ELSE appendFlat(flat[i - 1], page.recs[i])
    IN flat[page.count]

FlatCount(f) == Len(f.offs) - 1
FlatKey(f, i) == SubSeq(f.buf, f.offs[i] + 1, f.offs[i + 1])
FlatEntries(page) ==
    LET f == DecodePageFlat(page) IN [i \in 1 .. FlatCount(f) |-> Entry(FlatKey(f, i), f.vals[i])]
=============================================================================
