-------------------------- MODULE Durability_proofs --------------------------
(***************************************************************************)
(* Proofs about Durability, for every set of records and any number of     *)
(* crashes and flushes.                                                    *)
(***************************************************************************)
EXTENDS Durability, TLAPS

\* The faults under which nothing acknowledged is lost.
Benign == "prepare" \notin Faults /\ "machine" \notin Faults
-----------------------------------------------------------------------------
(* Type correctness.                                                       *)

\* drainLocked keeps the types of the log, whatever it is given to write.
LEMMA DrainType ==
  ASSUME TypeOK, segIdx \in DOMAIN segs, NEW b \in SUBSET Records, DrainLocked(b)
  PROVE  /\ buf' \subseteq b
         /\ sealBoundary' \in Nat \cup {-1}
         /\ segIdx' \in Nat
         /\ sealed' \subseteq [idx : Nat, boundary : Nat]
         /\ DOMAIN segs' \subseteq Nat
         /\ \A i \in DOMAIN segs' : segs'[i] \subseteq Records
         /\ segIdx' \in DOMAIN segs'
         /\ DOMAIN segs \subseteq DOMAIN segs'
<1> BeforeSeal(b) \subseteq b
  BY DEF BeforeSeal
<1>1. CASE AppendToSegment(b)
  BY <1>1 DEF AppendToSegment, TypeOK
<1>2. CASE \E after \in SUBSET b : RotateSegment(b, after)
  <2> PICK after \in SUBSET b : RotateSegment(b, after)
    BY <1>2
  <2>1. [idx |-> segIdx, boundary |-> sealBoundary] \in [idx : Nat, boundary : Nat]
    BY DEF RotateSegment, TypeOK
  <2> QED
    BY <2>1 DEF RotateSegment, TypeOK
<1>3. CASE buf' = b /\ UNCHANGED <<segs, sealed, segIdx, sealBoundary>>
  BY <1>3 DEF TypeOK
<1> QED
  BY <1>1, <1>2, <1>3 DEF DrainLocked, DrainOK, DrainFails

\* A drain leaves the new current segment open and outside Writer.sealed.
LEMMA DrainKeepsSegmentOpen ==
  ASSUME TypeOK, OpenSegmentInv, NEW b \in SUBSET Records, DrainLocked(b)
  PROVE  OpenSegmentInv'
<1>1. segIdx' \in DOMAIN segs'
  BY DrainType DEF OpenSegmentInv
<1>2. /\ \A s \in sealed' : s.idx < segIdx'
      /\ \A s, t \in sealed' : s.idx = t.idx => s = t
      /\ \A i \in DOMAIN segs' : i <= segIdx'
  <2>1. CASE UNCHANGED <<segIdx, sealed, DOMAIN segs>>
    BY <2>1 DEF OpenSegmentInv
  <2>2. CASE \E after : RotateSegment(b, after)
    BY <2>2 DEF RotateSegment, OpenSegmentInv, TypeOK
  <2> QED
    BY <2>1, <2>2 DEF DrainLocked, DrainOK, DrainFails, AppendToSegment
<1> QED
  BY <1>1, <1>2 DEF OpenSegmentInv

\* No action of the transactor takes a variable out of its type: in particular
\* the current segment file is never the one that is unlinked.
THEOREM TypeCorrect == Spec => [](TypeOK /\ OpenSegmentInv)
<1> USE FaultsAssumption, NoRecordAssumption, BoundsAssumption
<1>1. Init => TypeOK /\ OpenSegmentInv
  BY DEF Init, TypeOK, OpenSegmentInv, NoBatch
<1>2. TypeOK /\ OpenSegmentInv /\ [Next]_vars => (TypeOK /\ OpenSegmentInv)'
  <2> SUFFICES ASSUME TypeOK, OpenSegmentInv, [Next]_vars
               PROVE  (TypeOK /\ OpenSegmentInv)'
    OBVIOUS
  <2> USE DEF walVars, memVars, flushVars, blobVars, histVars
  <2>1. ASSUME NEW r \in Records, Sink(r) PROVE (TypeOK /\ OpenSegmentInv)'
    <3>1. DrainLocked(buf \cup {r}) /\ buf \cup {r} \in SUBSET Records
      BY <2>1 DEF Sink, Up, TypeOK
    <3>2. /\ buf' \subseteq Records
          /\ sealBoundary' \in Nat \cup {-1}
          /\ segIdx' \in Nat
          /\ sealed' \subseteq [idx : Nat, boundary : Nat]
          /\ DOMAIN segs' \subseteq Nat
          /\ \A i \in DOMAIN segs' : segs'[i] \subseteq Records
      BY <3>1, DrainType DEF OpenSegmentInv
    <3>3. OpenSegmentInv'
      BY <3>1, DrainKeepsSegmentOpen
    <3> QED
      BY <2>1, <3>2, <3>3 DEF Sink, Up, TypeOK
  <2>2. CASE BatchWrite
    BY <2>2 DEF BatchWrite, TypeOK, OpenSegmentInv
  <2>3. CASE Tick
    <3>1. DrainLocked(buf) /\ buf \in SUBSET Records
      BY <2>3 DEF Tick, TypeOK, DrainLocked
    <3>2. /\ buf' \subseteq Records
          /\ sealBoundary' \in Nat \cup {-1}
          /\ segIdx' \in Nat
          /\ sealed' \subseteq [idx : Nat, boundary : Nat]
          /\ DOMAIN segs' \subseteq Nat
          /\ \A i \in DOMAIN segs' : segs'[i] \subseteq Records
          /\ segIdx' \in DOMAIN segs'
      BY <3>1, DrainType DEF OpenSegmentInv, TypeOK
    <3>3. OpenSegmentInv'
      BY <3>1, DrainKeepsSegmentOpen
    <3>4. synced' \subseteq Records /\ ticked' \subseteq Records
      BY <2>3, <3>2 DEF Tick, SyncCurrent, TypeOK
    <3> QED
      BY <2>3, <3>2, <3>3, <3>4 DEF Tick, ThenDelete, TypeOK
  <2>4. CASE DeleteDurable
    BY <2>4 DEF DeleteDurable, Deletable, TypeOK, OpenSegmentInv
  <2>5. CASE CaptureFlush
    BY <2>5 DEF CaptureFlush, TypeOK, OpenSegmentInv
  <2>6. CASE PrepareFlush
    BY <2>6 DEF PrepareFlush, TypeOK, OpenSegmentInv
  <2>7. CASE PublishFlush
    BY <2>7 DEF PublishFlush, MTPublish, SealedUpTo, NoBatch, TypeOK, OpenSegmentInv
  <2>8. CASE AbortFlush
    BY <2>8 DEF AbortFlush, MTPublish, NoBatch, TypeOK, OpenSegmentInv
  <2>9. CASE WriteBack
    BY <2>9 DEF WriteBack, InSegments, TypeOK, OpenSegmentInv
  <2>10. CASE ProcessCrash
    BY <2>10 DEF ProcessCrash, ProcessLost, NoBatch, TypeOK, OpenSegmentInv
  <2>11. CASE MachineCrash
    <3>1. InSegments \subseteq Records
      BY DEF InSegments, TypeOK
    <3> QED
      BY <2>11, <3>1 DEF MachineCrash, ProcessLost, Recoverable, NoBatch, TypeOK,
                         OpenSegmentInv
  <2>12. CASE Close
    <3>1. DrainLocked(buf) /\ buf \in SUBSET Records
      BY <2>12 DEF Close, TypeOK, DrainLocked
    <3>2. /\ buf' \subseteq Records
          /\ sealBoundary' \in Nat \cup {-1}
          /\ segIdx' \in Nat
          /\ sealed' \subseteq [idx : Nat, boundary : Nat]
          /\ DOMAIN segs' \subseteq Nat
          /\ \A i \in DOMAIN segs' : segs'[i] \subseteq Records
          /\ segIdx' \in DOMAIN segs'
      BY <3>1, DrainType DEF OpenSegmentInv, TypeOK
    <3>3. OpenSegmentInv'
      BY <3>1, DrainKeepsSegmentOpen
    <3>4. synced' \subseteq Records /\ ticked' \subseteq Records
      BY <2>12, <3>2 DEF Close, SyncCurrent, TypeOK
    <3> QED
      BY <2>12, <3>2, <3>3, <3>4 DEF Close, TypeOK
  <2>13. CASE Open
    <3>1. InSegments \subseteq Records
      BY DEF InSegments, TypeOK
    <3> QED
      BY <2>13, <3>1 DEF Open, TypeOK, OpenSegmentInv
  <2>14. CASE UNCHANGED vars
    BY <2>14 DEF vars, TypeOK, OpenSegmentInv
  <2> QED
    BY <2>1, <2>2, <2>3, <2>4, <2>5, <2>6, <2>7, <2>8, <2>9, <2>10, <2>11,
       <2>12, <2>13, <2>14 DEF Next
<1> QED
  BY <1>1, <1>2, PTL DEF Spec
-----------------------------------------------------------------------------
(* The inductive invariant.                                                *)

\* drainLocked moves records from the buffer to segments and drops none.
LEMMA DrainHolds ==
  ASSUME TypeOK, OpenSegmentInv, NEW b \in SUBSET Records, DrainLocked(b)
  PROVE  InSegments' \cup buf' = InSegments \cup b
<1> BeforeSeal(b) \subseteq b
  BY DEF BeforeSeal
<1>1. CASE AppendToSegment(b)
  BY <1>1 DEF AppendToSegment, TypeOK, OpenSegmentInv, InSegments
<1>2. CASE \E after \in SUBSET (b \ BeforeSeal(b)) : RotateSegment(b, after)
  <2> PICK after \in SUBSET (b \ BeforeSeal(b)) : RotateSegment(b, after)
    BY <1>2
  <2>1. segIdx + 1 # segIdx /\ segIdx \in DOMAIN segs
    BY DEF TypeOK, OpenSegmentInv
  <2>2. buf' \cup after = b \ BeforeSeal(b)
    BY DEF RotateSegment
  <2>3. segs'[segIdx + 1] = after /\ segs'[segIdx] = segs[segIdx] \cup BeforeSeal(b)
    BY <2>1 DEF RotateSegment
  <2>4. segIdx + 1 \notin DOMAIN segs
    BY DEF OpenSegmentInv, TypeOK
  <2>5. \A i \in DOMAIN segs : segs[i] \subseteq segs'[i]
    BY <2>4 DEF RotateSegment
  <2>6. \A i \in DOMAIN segs' :
           \/ i = segIdx + 1
           \/ i \in DOMAIN segs /\ segs'[i] \subseteq segs[i] \cup BeforeSeal(b)
    BY <2>4 DEF RotateSegment
  <2>7. DOMAIN segs' = DOMAIN segs \cup {segIdx + 1}
    BY DEF RotateSegment
  <2> QED
    BY <2>1, <2>2, <2>3, <2>5, <2>6, <2>7 DEF InSegments
<1>3. CASE buf' = b /\ UNCHANGED <<segs, sealed, segIdx, sealBoundary>>
  BY <1>3 DEF InSegments
<1> QED
  BY <1>1, <1>2, <1>3 DEF DrainLocked, DrainOK, DrainFails

\* drainLocked keeps every record on its side of the seal boundary.
LEMMA DrainSegments ==
  ASSUME TypeOK, OpenSegmentInv, SegmentInv, Up,
         NEW b \in SUBSET Records, DrainLocked(b),
         at' \in [Records -> Nat],
         \A r \in b : at'[r] > 0,
         \A r \in InSegments : at'[r] = at[r]
  PROVE  /\ \A r \in buf' : at'[r] > 0
         /\ \A r \in segs'[segIdx'] :
              at'[r] > 0 /\ (sealBoundary' >= 0 => at'[r] <= sealBoundary')
         /\ \A s \in sealed' :
              /\ s.idx \in DOMAIN segs'
              /\ \A r \in segs'[s.idx] : at'[r] \in 1 .. s.boundary
<1> DEFINE Cur == \A r \in segs'[segIdx'] :
              at'[r] > 0 /\ (sealBoundary' >= 0 => at'[r] <= sealBoundary')
           Sld == \A s \in sealed' :
              /\ s.idx \in DOMAIN segs'
              /\ \A r \in segs'[s.idx] : at'[r] \in 1 .. s.boundary
<1> USE DEF Up
<1>0. BeforeSeal(b) = {r \in b : at'[r] <= sealBoundary}
  BY DEF BeforeSeal
<1>1. buf' \subseteq b
  BY DrainType DEF OpenSegmentInv
<1>2. \A i \in DOMAIN segs : \A r \in segs[i] : r \in Records /\ at'[r] = at[r]
  BY DEF InSegments, TypeOK
<1>3. CASE AppendToSegment(b)
  <2>1. Cur
    BY <1>2, <1>3 DEF AppendToSegment, TypeOK, OpenSegmentInv, SegmentInv
  <2>2. Sld
    BY <1>2, <1>3 DEF AppendToSegment, TypeOK, OpenSegmentInv, SegmentInv
  <2> QED
    BY <1>1, <2>1, <2>2
<1>4. CASE \E after \in SUBSET (b \ BeforeSeal(b)) : RotateSegment(b, after)
  <2> PICK after \in SUBSET (b \ BeforeSeal(b)) : RotateSegment(b, after)
    BY <1>4
  <2>1. /\ segIdx + 1 \notin DOMAIN segs
        /\ segIdx \in DOMAIN segs
        /\ segIdx' = segIdx + 1
        /\ sealBoundary' = -1
        /\ DOMAIN segs' = DOMAIN segs \cup {segIdx + 1}
        /\ sealBoundary \in Nat
        /\ segIdx # segIdx + 1
    BY DEF RotateSegment, OpenSegmentInv, TypeOK
  <2>2. segs'[segIdx + 1] = after
    BY DEF RotateSegment
  <2>3. segs'[segIdx] = segs[segIdx] \cup BeforeSeal(b)
    BY <2>1 DEF RotateSegment
  <2>4. \A i \in DOMAIN segs : i # segIdx => segs'[i] = segs[i]
    BY <2>1 DEF RotateSegment
  <2>5. Cur
    BY <2>1, <2>2
  <2>6. ASSUME NEW s \in sealed' PROVE s.idx \in DOMAIN segs' /\ \A r \in segs'[s.idx] : at'[r] \in 1 .. s.boundary
    <3>1. CASE s \in sealed
      <4>1. s.idx \in DOMAIN segs /\ s.idx # segIdx /\ s.boundary \in Nat
        BY <3>1 DEF SegmentInv, OpenSegmentInv, TypeOK
      <4> QED
        BY <1>2, <2>1, <2>4, <3>1, <4>1 DEF SegmentInv, TypeOK
    <3>2. CASE s = [idx |-> segIdx, boundary |-> sealBoundary]
      <4>1. \A r \in segs[segIdx] : at'[r] \in 1 .. sealBoundary
        BY <1>2, <2>1 DEF SegmentInv, TypeOK
      <4>2. \A r \in BeforeSeal(b) : at'[r] \in 1 .. sealBoundary
        BY <1>0, <2>1
      <4> QED
        BY <2>1, <2>3, <3>2, <4>1, <4>2
    <3> QED
      BY <3>1, <3>2 DEF RotateSegment
  <2> QED
    BY <1>1, <2>5, <2>6
<1>5. CASE buf' = b /\ UNCHANGED <<segs, sealed, segIdx, sealBoundary>>
  <2>1. Cur
    BY <1>2, <1>5 DEF TypeOK, OpenSegmentInv, SegmentInv
  <2>2. Sld
    BY <1>2, <1>5 DEF TypeOK, OpenSegmentInv, SegmentInv
  <2> QED
    BY <1>5, <2>1, <2>2
<1> QED
  BY <1>3, <1>4, <1>5 DEF DrainLocked, DrainOK, DrainFails

\* The parts of the invariant that are not typing.
CoreInv == DownInv /\ OffsetInv /\ FlushInv /\ PublishInv /\ SegmentInv /\ HeldInv

\* A write whose bytes may stay in the buffer keeps the invariant.
LEMMA SinkKeepsInv ==
  ASSUME TypeOK, OpenSegmentInv, CoreInv, TypeOK', NEW r \in Records, Sink(r)
  PROVE  CoreInv'
<1> USE DEF walVars, memVars, flushVars, blobVars, histVars, Up
<1>1. DrainLocked(buf \cup {r}) /\ buf \cup {r} \in SUBSET Records
  BY DEF Sink, TypeOK
<1>2. InSegments' \cup buf' = InSegments \cup buf \cup {r}
  BY <1>1, DrainHolds
<1>3. r \notin Recoverable /\ r \notin buf /\ Up
  BY DEF Sink, CoreInv, HeldInv
<1>4. \A q \in Records : q # r => at'[q] = at[q]
  BY DEF Sink, TypeOK
<1>5. at'[r] = logicalEnd + 1 /\ logicalEnd' = logicalEnd + 1 /\ logicalEnd \in Nat
  BY DEF Sink, TypeOK
<1>6. DownInv'
  BY DEF Sink, DownInv
<1>7. OffsetInv'
  <2>1. sealBoundary' <= logicalEnd'
    <3>1. sealBoundary' \in {sealBoundary, -1}
      BY <1>1 DEF DrainLocked, DrainOK, DrainFails, AppendToSegment, RotateSegment
    <3> QED
      BY <1>5, <3>1 DEF CoreInv, OffsetInv, TypeOK
  <2>2. \A q \in Records : at'[q] <= logicalEnd'
    BY <1>4, <1>5 DEF CoreInv, OffsetInv, TypeOK
  <2>3. \A q \in Records : at'[q] > 0 => q \in (Visible \cup {pending})'
    BY <1>4, NoRecordAssumption DEF Sink, CoreInv, OffsetInv, Visible
  <2> QED
    BY <2>1, <2>2, <2>3 DEF OffsetInv
<1>8. FlushInv'
  <2>1. flush # "idle" => batch.seal <= logicalEnd
    BY DEF CoreInv, FlushInv, TypeOK
  <2> QED
    BY <1>4, <1>5, <2>1 DEF Sink, CoreInv, FlushInv, TypeOK
<1>9. PublishInv'
  <2>1. \A q \in Records : at'[q] \in 1 .. durable => q \in trees
    BY <1>3, <1>4, <1>5 DEF CoreInv, PublishInv, TypeOK
  <2> QED
    BY <1>3, <1>5, <2>1 DEF Sink, CoreInv, PublishInv, TypeOK
<1>10. SegmentInv'
  <2>1. \A q \in buf \cup {r} : at'[q] > 0
    BY <1>3, <1>4, <1>5 DEF CoreInv, SegmentInv, TypeOK
  <2>2. \A q \in InSegments : at'[q] = at[q]
    BY <1>3, <1>4 DEF InSegments, Recoverable, TypeOK
  <2> QED
    BY <1>1, <1>3, <2>1, <2>2, DrainSegments DEF CoreInv, SegmentInv, TypeOK
<1>11. HeldInv'
  BY <1>2, <1>3 DEF Sink, CoreInv, HeldInv, Recoverable, Visible, DrainLocked, DrainOK,
    DrainFails, AppendToSegment, RotateSegment
<1> QED
  BY <1>6, <1>7, <1>8, <1>9, <1>10, <1>11 DEF CoreInv

\* The drain of the 100 ms cycle and of Stop keeps the log part of the
\* invariant.
LEMMA DrainKeepsLog ==
  ASSUME TypeOK, OpenSegmentInv, CoreInv, DrainLocked(buf), Up, UNCHANGED at
  PROVE  /\ InSegments' \cup buf' = InSegments \cup buf
         /\ sealBoundary' <= logicalEnd
         /\ \A r \in buf' : at'[r] > 0
         /\ \A r \in segs'[segIdx'] :
              at'[r] > 0 /\ (sealBoundary' >= 0 => at'[r] <= sealBoundary')
         /\ \A s \in sealed' :
              /\ s.idx \in DOMAIN segs'
              /\ \A r \in segs'[s.idx] : at'[r] \in 1 .. s.boundary
         /\ "write" \notin Faults => buf' = {}
<1>1. buf \in SUBSET Records
  BY DEF TypeOK
<1>2. InSegments' \cup buf' = InSegments \cup buf
  BY <1>1, DrainHolds
<1>3. sealBoundary' \in {sealBoundary, -1}
  BY DEF DrainLocked, DrainOK, DrainFails, AppendToSegment, RotateSegment
<1>4. sealBoundary' <= logicalEnd
  BY <1>3 DEF CoreInv, OffsetInv, TypeOK
<1>5. "write" \notin Faults => buf' = {}
  BY DEF DrainLocked, DrainOK, DrainFails, AppendToSegment, RotateSegment
<1>6. /\ at' \in [Records -> Nat]
      /\ \A r \in buf : at'[r] > 0
      /\ \A r \in InSegments : at'[r] = at[r]
  BY DEF CoreInv, SegmentInv, Up, TypeOK
<1> QED
  BY <1>1, <1>2, <1>4, <1>5, <1>6, DrainSegments DEF CoreInv

\* The fsync cycle and a shutdown keep the invariant.
LEMMA TickKeepsInv ==
  ASSUME TypeOK, OpenSegmentInv, CoreInv, Tick PROVE CoreInv'
<1> USE DEF walVars, memVars, flushVars, blobVars, histVars, Up
<1>1. DrainLocked(buf) /\ Up /\ UNCHANGED at
  BY DEF Tick, DrainLocked
<1>2. UNCHANGED <<engine, at, logicalEnd, durable, pending, live, draining, trees,
                  flush, batch, newest, written, acked, forfeited>>
  BY <1>1 DEF Tick
<1>3. DownInv' /\ FlushInv' /\ PublishInv'
  BY <1>2 DEF CoreInv, DownInv, FlushInv, PublishInv
<1>4. OffsetInv'
  BY <1>1, <1>2, DrainKeepsLog DEF CoreInv, OffsetInv, Visible
<1>5. SegmentInv'
  BY <1>1, DrainKeepsLog DEF SegmentInv
<1>6. HeldInv'
  BY <1>1, <1>2, DrainKeepsLog DEF CoreInv, HeldInv, Recoverable, Visible
<1> QED
  BY <1>3, <1>4, <1>5, <1>6 DEF CoreInv

\* A shutdown drains what it can and keeps the invariant; what stays in the

\* buffer is forfeited.
LEMMA CloseKeepsInv ==
  ASSUME TypeOK, OpenSegmentInv, CoreInv, Close PROVE CoreInv'
<1> USE DEF walVars, memVars, flushVars, blobVars, histVars, Up
<1>1. DrainLocked(buf) /\ Up /\ UNCHANGED at
  BY DEF Close, DrainLocked
<1>2. /\ UNCHANGED <<at, logicalEnd, durable, pending, draining, flush, batch, newest,
                     written, acked>>
      /\ engine' = "closed" /\ live' = {} /\ trees' = {}
      /\ flush = "idle" /\ pending = NoRecord
      /\ forfeited' = forfeited \cup buf'
  BY <1>1 DEF Close
<1>3. DownInv' /\ FlushInv' /\ PublishInv' /\ SegmentInv'
  BY <1>2 DEF CoreInv, DownInv, FlushInv, PublishInv, SegmentInv
<1>4. OffsetInv'
  BY <1>1, <1>2, DrainKeepsLog DEF CoreInv, OffsetInv
<1>5. HeldInv'
  BY <1>1, <1>2, DrainKeepsLog DEF CoreInv, HeldInv, Recoverable, Visible
<1> QED
  BY <1>3, <1>4, <1>5 DEF CoreInv

\* deleteDurable unlinks only segments whose records are published.
LEMMA DeleteUnlinksPublished ==
  ASSUME TypeOK, OpenSegmentInv, CoreInv, DeleteDurable
  PROVE  \A i \in DOMAIN segs \ DOMAIN segs' : segs[i] \subseteq trees
<1> SUFFICES ASSUME NEW i \in DOMAIN segs \ DOMAIN segs', NEW r \in segs[i]
             PROVE  r \in trees
  OBVIOUS
<1>1. PICK s \in Deletable : s.idx = i
  BY DEF DeleteDurable
<1>2. s \in sealed /\ s.boundary <= durable /\ s.boundary \in Nat /\ r \in Records
  BY <1>1 DEF Deletable, TypeOK
<1>3. Up /\ at[r] \in 1 .. s.boundary
  BY <1>1, <1>2 DEF DeleteDurable, CoreInv, SegmentInv
<1>4. at[r] \in 1 .. durable
  BY <1>2, <1>3 DEF TypeOK
<1> QED
  BY <1>2, <1>3, <1>4 DEF CoreInv, PublishInv

\* Unlinking published segments (deleteDurable) keeps the invariant, because

\* Recoverable does not change.
LEMMA DeleteKeepsInv ==
  ASSUME TypeOK, OpenSegmentInv, CoreInv, DeleteDurable PROVE CoreInv'
<1> USE DEF memVars, flushVars, blobVars, histVars, Up
<1>1. UNCHANGED <<engine, buf, at, logicalEnd, sealBoundary, segIdx, durable, pending,
                  live, draining, trees, flush, batch, newest, written, acked,
                  forfeited>>
  BY DEF DeleteDurable
<1>2. /\ DOMAIN segs' \subseteq DOMAIN segs
      /\ \A i \in DOMAIN segs' : segs'[i] = segs[i]
  BY DEF DeleteDurable
<1>3. DownInv' /\ OffsetInv' /\ FlushInv' /\ PublishInv'
  BY <1>1 DEF CoreInv, DownInv, OffsetInv, FlushInv, PublishInv, Visible
<1>4. SegmentInv'
  <2>1. segIdx \in DOMAIN segs'
    BY DEF DeleteDurable, OpenSegmentInv, Deletable, TypeOK
  <2>2. ASSUME NEW s \in sealed', Up PROVE s.idx \in DOMAIN segs'
    <3>1. s \in sealed /\ s.boundary > durable /\ s.idx \in DOMAIN segs
      BY <2>2 DEF DeleteDurable, Deletable, CoreInv, SegmentInv, TypeOK
    <3>2. ASSUME NEW d \in Deletable, d.idx = s.idx PROVE FALSE
      <4>1. d \in sealed /\ d.boundary <= durable
        BY <3>2 DEF Deletable
      <4> QED
        BY <3>1, <3>2, <4>1 DEF OpenSegmentInv, TypeOK
    <3> QED
      BY <3>1, <3>2 DEF DeleteDurable
  <2> QED
    BY <1>1, <1>2, <2>1, <2>2 DEF CoreInv, SegmentInv, DeleteDurable
<1>5. HeldInv'
  <2>1. InSegments' \subseteq InSegments
    BY <1>2 DEF InSegments
  <2>2. \A r \in InSegments : r \in InSegments' \/ r \in trees
    BY <1>2, DeleteUnlinksPublished DEF InSegments
  <2>3. trees \subseteq newest
    BY DEF DeleteDurable, CoreInv, PublishInv
  <2>4. Recoverable' = Recoverable
    BY <1>1, <2>1, <2>2, <2>3 DEF Recoverable
  <2> QED
    BY <1>1, <2>4 DEF CoreInv, HeldInv, Visible
<1> QED
  BY <1>3, <1>4, <1>5 DEF CoreInv

\* A capture moves the live half to the draining half and marks a boundary

\* that every record it froze is below.
LEMMA CaptureKeepsInv ==
  ASSUME TypeOK, OpenSegmentInv, CoreInv, CaptureFlush PROVE CoreInv'
<1> USE DEF memVars, flushVars, blobVars, histVars, Up
<1>1. /\ UNCHANGED <<engine, buf, at, logicalEnd, segIdx, sealed, segs, durable,
                     pending, trees, newest, written, acked, forfeited>>
      /\ Up /\ pending = NoRecord /\ flush = "idle" /\ flush' = "captured"
      /\ draining' = live /\ live' = {}
      /\ batch' = [base |-> trees, keys |-> live, seal |-> logicalEnd]
      /\ sealBoundary' = logicalEnd
  BY DEF CaptureFlush
<1>2. draining = {}
  BY <1>1 DEF CoreInv, FlushInv
<1>3. Visible' = Visible
  BY <1>1, <1>2 DEF Visible
<1>4. DownInv' /\ PublishInv' /\ OffsetInv'
  BY <1>1, <1>2, <1>3 DEF CoreInv, DownInv, PublishInv, OffsetInv, TypeOK
<1>5. FlushInv'
  BY <1>1, <1>2, NoRecordAssumption DEF CoreInv, FlushInv, OffsetInv, Visible, TypeOK
<1>6. SegmentInv'
  BY <1>1 DEF CoreInv, SegmentInv, OffsetInv, OpenSegmentInv, TypeOK
<1>7. HeldInv'
  BY <1>1, <1>3 DEF CoreInv, HeldInv, Recoverable, InSegments
<1> QED
  BY <1>4, <1>5, <1>6, <1>7 DEF CoreInv

\* Writing the root of a captured flush only adds what the log still holds.
LEMMA PrepareKeepsInv ==
  ASSUME TypeOK, OpenSegmentInv, CoreInv, PrepareFlush PROVE CoreInv'
<1> USE DEF walVars, memVars, flushVars, blobVars, histVars, Up
<1>1. /\ UNCHANGED <<engine, buf, at, logicalEnd, sealBoundary, segIdx, sealed, segs,
                     durable, pending, live, draining, trees, batch, written, acked,
                     forfeited>>
      /\ Up /\ flush = "captured" /\ flush' = "prepared"
      /\ newest' = trees \cup draining /\ newest = trees
  BY DEF PrepareFlush, CoreInv, FlushInv, PublishInv
<1>2. DownInv' /\ OffsetInv' /\ FlushInv' /\ PublishInv' /\ SegmentInv'
  BY <1>1 DEF CoreInv, DownInv, OffsetInv, FlushInv, PublishInv, SegmentInv, Visible
<1>3. Recoverable' \subseteq Recoverable \cup draining /\ Recoverable \subseteq Recoverable'
  BY <1>1 DEF Recoverable, InSegments
<1>4. HeldInv'
  <2>1. draining \subseteq Recoverable \cup buf
    BY <1>1 DEF CoreInv, HeldInv, Visible
  <2> QED
    BY <1>1, <1>3, <2>1 DEF CoreInv, HeldInv, Visible
<1> QED
  BY <1>2, <1>4 DEF CoreInv

\* PublishFlush raises the durable offset to a boundary below which everything

\* is in the new trees.
LEMMA PublishKeepsInv ==
  ASSUME TypeOK, OpenSegmentInv, CoreInv, PublishFlush PROVE CoreInv'
<1> USE DEF walVars, memVars, flushVars, blobVars, histVars, Up
<1>1. /\ UNCHANGED <<engine, buf, at, logicalEnd, sealBoundary, segIdx, sealed, segs,
                     pending, live, newest, written, acked, forfeited>>
      /\ Up /\ flush = "prepared" /\ flush' = "idle"
      /\ trees' = trees \cup draining /\ draining' = {}
      /\ durable' = batch.seal
  BY DEF PublishFlush, MTPublish, SealedUpTo, CoreInv, FlushInv
<1>2. Visible' = Visible
  BY <1>1 DEF Visible
<1>3. DownInv' /\ OffsetInv' /\ FlushInv' /\ SegmentInv'
  BY <1>1, <1>2 DEF CoreInv, DownInv, OffsetInv, FlushInv, SegmentInv
<1>4. PublishInv'
  BY <1>1 DEF CoreInv, PublishInv, FlushInv, TypeOK
<1>5. HeldInv'
  BY <1>1, <1>2 DEF CoreInv, HeldInv, Recoverable, InSegments
<1> QED
  BY <1>3, <1>4, <1>5 DEF CoreInv

\* The memtable insert shows the journaled batch and acknowledges it.
LEMMA BatchWriteKeepsInv ==
  ASSUME TypeOK, OpenSegmentInv, CoreInv, BatchWrite PROVE CoreInv'
<1> USE DEF walVars, memVars, flushVars, blobVars, histVars, Up
<1>1. /\ UNCHANGED <<engine, buf, at, logicalEnd, sealBoundary, segIdx, sealed, segs,
                     durable, draining, trees, flush, batch, newest, written,
                     forfeited>>
      /\ Up /\ pending \in Records
      /\ live' = live \cup {pending} /\ acked' = acked \cup {pending}
      /\ pending' = NoRecord
  BY DEF BatchWrite, TypeOK
<1>2. Visible' = Visible \cup {pending}
  BY <1>1 DEF Visible
<1>3. DownInv' /\ OffsetInv' /\ FlushInv' /\ PublishInv' /\ SegmentInv'
  BY <1>1, <1>2 DEF CoreInv, DownInv, OffsetInv, FlushInv, PublishInv, SegmentInv
<1>4. HeldInv'
  <2>1. pending # NoRecord
    BY <1>1, NoRecordAssumption
  <2> QED
    BY <1>1, <1>2, <2>1 DEF CoreInv, HeldInv, Recoverable, InSegments
<1> QED
  BY <1>3, <1>4 DEF CoreInv

\* The end of the process takes only the buffer along.
LEMMA ProcessCrashKeepsInv ==
  ASSUME TypeOK, OpenSegmentInv, CoreInv, ProcessCrash PROVE CoreInv'
<1> USE DEF walVars, memVars, flushVars, blobVars, histVars, Up
<1>1. /\ UNCHANGED <<at, logicalEnd, sealBoundary, segIdx, sealed, segs, durable,
                     newest, written, acked>>
      /\ engine' = "closed" /\ pending' = NoRecord /\ flush' = "idle"
      /\ live' = {} /\ draining' = {} /\ trees' = {} /\ buf' = {}
      /\ forfeited' = forfeited \cup buf
  BY DEF ProcessCrash, ProcessLost
<1>2. DownInv' /\ OffsetInv' /\ FlushInv' /\ PublishInv' /\ SegmentInv'
  BY <1>1 DEF CoreInv, DownInv, OffsetInv, FlushInv, PublishInv, SegmentInv
<1>3. HeldInv'
  BY <1>1 DEF CoreInv, HeldInv, Recoverable, InSegments
<1> QED
  BY <1>2, <1>3 DEF CoreInv

\* A bootstrap shows exactly what was recoverable and starts a session in a

\* segment of its own.
LEMMA OpenKeepsInv ==
  ASSUME TypeOK, OpenSegmentInv, CoreInv, Open PROVE CoreInv'
<1> USE DEF walVars, memVars, flushVars, blobVars, histVars, Up
<1>1. /\ UNCHANGED <<pending, draining, flush, batch, newest, written, acked, forfeited>>
      /\ engine = "closed" /\ engine' = "open" /\ trees' = newest /\ live' = InSegments
      /\ buf' = {} /\ logicalEnd' = 0 /\ sealBoundary' = -1
      /\ segIdx' = segIdx + 1 /\ sealed' = {} /\ durable' = -1
      /\ at' = [r \in Records |-> 0]
  BY DEF Open
<1>2. /\ segIdx + 1 \notin DOMAIN segs
      /\ DOMAIN segs' = DOMAIN segs \cup {segIdx + 1}
      /\ segs'[segIdx + 1] = {}
      /\ \A i \in DOMAIN segs : segs'[i] = segs[i]
  BY DEF Open, OpenSegmentInv, TypeOK
<1>3. InSegments' = InSegments
  BY <1>2 DEF InSegments
<1>4. draining = {} /\ flush = "idle" /\ pending = NoRecord
  BY <1>1 DEF CoreInv, DownInv
<1>5. DownInv' /\ OffsetInv' /\ FlushInv' /\ PublishInv'
  BY <1>1, <1>4 DEF DownInv, OffsetInv, FlushInv, PublishInv
<1>6. SegmentInv'
  BY <1>1, <1>2 DEF SegmentInv
<1>7. HeldInv'
  BY <1>1, <1>3, <1>4 DEF CoreInv, HeldInv, Recoverable, Visible
<1> QED
  BY <1>5, <1>6, <1>7 DEF CoreInv

\* Write-back by the operating system touches nothing the invariant mentions.
LEMMA WriteBackKeepsInv ==
  ASSUME CoreInv, WriteBack \/ UNCHANGED vars PROVE CoreInv'
<1>1. UNCHANGED <<engine, buf, at, logicalEnd, sealBoundary, segIdx, sealed, segs,
                  durable, pending, live, draining, trees, flush, batch, newest,
                  written, acked, forfeited>>
  BY DEF WriteBack, vars, walVars, memVars, flushVars, blobVars, histVars
<1> QED
  BY <1>1 DEF CoreInv, DownInv, OffsetInv, FlushInv, PublishInv, SegmentInv, HeldInv,
              Recoverable, InSegments, Visible, Up

\* As long as no flush fails and the machine does not stop, what is in memory,
\* in the log and in the store agree as IInv says, whatever is written,
\* flushed, unlinked, killed and restarted.
THEOREM InvariantHolds == ASSUME Benign PROVE Spec => []IInv
<1>1. Init => CoreInv
  BY DEF Init, CoreInv, DownInv, OffsetInv, FlushInv, PublishInv, SegmentInv, HeldInv,
         Recoverable, InSegments, Visible, Up
<1>2. TypeOK /\ OpenSegmentInv /\ CoreInv /\ TypeOK' /\ [Next]_vars => CoreInv'
  BY Benign, SinkKeepsInv, BatchWriteKeepsInv, TickKeepsInv, DeleteKeepsInv,
     CaptureKeepsInv, PrepareKeepsInv, PublishKeepsInv, CloseKeepsInv,
     ProcessCrashKeepsInv, OpenKeepsInv, WriteBackKeepsInv
     DEF Next, Benign, AbortFlush, MachineCrash
<1>3. TypeOK /\ OpenSegmentInv /\ CoreInv => IInv
  BY DEF IInv, CoreInv
<1> QED
  BY <1>1, <1>2, <1>3, TypeCorrect, PTL DEF Spec
-----------------------------------------------------------------------------
(* What follows for the callers of the engine.                             *)

\* Segment writes may fail: an acknowledged batch is still in the log buffer,
\* in a segment or under the newest root, unless its process ended first.
THEOREM AckedIsHeld == ASSUME Benign PROVE Spec => []AckedHeldOrRecoverable
<1>1. IInv => AckedHeldOrRecoverable
  BY DEF IInv, HeldInv, AckedHeldOrRecoverable
<1> QED
  BY <1>1, InvariantHolds, PTL

\* When segment writes do not fail, every acknowledged batch is found by the
\* next bootstrap, however often the process is killed and whatever was
\* flushed and unlinked before.
THEOREM AckedIsRecoverable ==
  ASSUME Benign, "write" \notin Faults PROVE Spec => []AckedRecoverable
<1>1. IInv => AckedRecoverable
  BY DEF IInv, HeldInv, AckedRecoverable
<1> QED
  BY <1>1, InvariantHolds, PTL

\* Under the same assumption a running engine shows every acknowledged batch:
\* capture, prepare, publish and replay hide nothing from readers.
THEOREM AckedIsVisible ==
  ASSUME Benign, "write" \notin Faults PROVE Spec => []AckedVisible
<1>1. IInv => AckedVisible
  BY DEF IInv, HeldInv, AckedVisible
<1> QED
  BY <1>1, InvariantHolds, PTL

\* FreezeAllCapture never overwrites frozen runs that are still needed.
THEOREM CaptureIsSafe == ASSUME Benign PROVE Spec => CaptureOverwritesNothing
<1>1. IInv => (flush = "idle" /\ flush' = "captured" => draining = {})
  BY DEF IInv, FlushInv
<1> QED
  BY <1>1, InvariantHolds, PTL DEF CaptureOverwritesNothing

\* A segment file disappears only when the published trees reach all of it.
THEOREM UnlinkIsSafe == ASSUME Benign PROVE Spec => UnlinkedArePublished
<1>1. IInv /\ [Next]_vars =>
        \A i \in DOMAIN segs \ DOMAIN segs' : segs[i] \subseteq trees
  <2> SUFFICES ASSUME IInv, [Next]_vars, NEW i \in DOMAIN segs \ DOMAIN segs'
               PROVE  segs[i] \subseteq trees
    OBVIOUS
  <2> USE DEF walVars
  <2>1. TypeOK /\ OpenSegmentInv /\ CoreInv
    BY DEF IInv, CoreInv
  <2>2. CASE DeleteDurable
    BY <2>1, <2>2, DeleteUnlinksPublished
  <2>3. ASSUME NEW b \in SUBSET Records, DrainLocked(b) PROVE FALSE
    BY <2>1, <2>3, DrainType DEF OpenSegmentInv
  <2>4. ASSUME NEW r \in Records, Sink(r) PROVE FALSE
    <3>1. buf \cup {r} \in SUBSET Records
      BY <2>1 DEF TypeOK
    <3> QED
      BY <2>3, <2>4, <3>1 DEF Sink
  <2>5. CASE Tick \/ Close
    <3>1. buf \in SUBSET Records
      BY <2>1 DEF TypeOK
    <3> QED
      BY <2>3, <2>5, <3>1 DEF Tick, Close, DrainLocked
  <2>6. CASE BatchWrite \/ CaptureFlush \/ PrepareFlush \/ PublishFlush \/ AbortFlush
             \/ WriteBack \/ ProcessCrash \/ UNCHANGED vars
    BY <2>6 DEF BatchWrite, CaptureFlush, PrepareFlush, PublishFlush, AbortFlush,
                WriteBack, ProcessCrash, vars
  <2>7. CASE MachineCrash
    BY <2>7 DEF MachineCrash
  <2>8. CASE Open
    BY <2>8 DEF Open
  <2> QED
    BY <2>2, <2>4, <2>5, <2>6, <2>7, <2>8 DEF Next
<1> QED
  BY <1>1, InvariantHolds, PTL DEF UnlinkedArePublished, Spec
-----------------------------------------------------------------------------
(* Refinement.                                                             *)

\* Without I/O errors every step of the engine is a step of DurableStore or
\* leaves it alone: writing is Commit and then Show, a kill or a shutdown is
\* Crash, a bootstrap is Restart, and flush, fsync, rotation, publish and the
\* deletion of segments are invisible.
THEOREM EngineImplementsStore ==
  ASSUME Benign, "write" \notin Faults PROVE Spec => ImplementsStore
<1> USE DEF walVars, memVars, flushVars, blobVars, histVars, Up
<1>1. Init => Store!StoreInit
  BY DEF Init, Store!StoreInit, Recoverable, InSegments, Visible
<1>2. IInv /\ IInv' /\ [Next]_vars => [Store!StoreNext]_(Store!storeVars)
  <2> SUFFICES ASSUME IInv, IInv', [Next]_vars
               PROVE  Store!StoreNext \/ UNCHANGED <<engine, Recoverable, Visible>>
    BY DEF Store!storeVars
  <2>1. TypeOK /\ OpenSegmentInv /\ CoreInv /\ buf = {} /\ buf' = {}
    BY DEF IInv, CoreInv, HeldInv
  <2>2. ASSUME NEW b \in SUBSET Records, DrainLocked(b) PROVE InSegments' = InSegments \cup b
    BY <2>1, <2>2, DrainHolds
  <2>3. ASSUME NEW r \in Records, Sink(r) PROVE Store!Commit(r)
    <3>1. DrainLocked({r}) /\ {r} \in SUBSET Records
      BY <2>1, <2>3 DEF Sink
    <3>2. Recoverable' = Recoverable \cup {r}
      BY <2>2, <2>3, <3>1 DEF Recoverable, Sink
    <3>3. r \notin Recoverable
      BY <2>1, <2>3 DEF Sink, CoreInv, HeldInv
    <3> QED
      BY <2>3, <3>2, <3>3 DEF Sink, Visible, Store!Commit
  <2>4. CASE BatchWrite
    <3>1. pending \in Records /\ pending \in Recoverable
      BY <2>1, <2>4 DEF BatchWrite, TypeOK, CoreInv, HeldInv
    <3>2. Store!Show(pending)
      BY <2>4, <3>1 DEF BatchWrite, Store!Show, Visible, Recoverable, InSegments
    <3> QED
      BY <3>1, <3>2 DEF Store!StoreNext
  <2>5. CASE Tick
    <3>1. DrainLocked({}) /\ {} \in SUBSET Records
      BY <2>1, <2>5 DEF Tick, DrainLocked
    <3> QED
      BY <2>2, <2>5, <3>1 DEF Tick, Visible, Recoverable
  <2>6. CASE Close
    <3>1. DrainLocked({}) /\ {} \in SUBSET Records
      BY <2>1, <2>6 DEF Close, DrainLocked
    <3>2. InSegments' = InSegments
      BY <2>2, <3>1
    <3>3. draining = {}
      BY <2>1, <2>6 DEF Close, CoreInv, FlushInv
    <3> QED
      BY <2>6, <3>2, <3>3 DEF Close, Visible, Recoverable, Store!StoreNext, Store!Crash
  <2>7. CASE DeleteDurable
    <3>1. UNCHANGED <<engine, live, draining, trees, newest>> /\ Up
      BY <2>7 DEF DeleteDurable
    <3>2. /\ DOMAIN segs' \subseteq DOMAIN segs
          /\ \A i \in DOMAIN segs' : segs'[i] = segs[i]
      BY <2>7 DEF DeleteDurable
    <3>3. \A i \in DOMAIN segs \ DOMAIN segs' : segs[i] \subseteq newest
      BY <2>1, <2>7, <3>1, DeleteUnlinksPublished DEF CoreInv, PublishInv
    <3> QED
      BY <3>1, <3>2, <3>3 DEF Recoverable, InSegments, Visible
  <2>8. CASE CaptureFlush
    BY <2>1, <2>8 DEF CaptureFlush, Visible, Recoverable, InSegments, CoreInv, FlushInv
  <2>9. CASE PrepareFlush
    <3>1. /\ UNCHANGED <<engine, live, draining, trees, segs>>
          /\ newest = trees /\ newest' = trees \cup draining
      BY <2>1, <2>9 DEF PrepareFlush, CoreInv, FlushInv, PublishInv
    <3>2. draining \subseteq Recoverable
      BY <2>1, <2>9 DEF PrepareFlush, CoreInv, HeldInv, Visible
    <3> QED
      BY <3>1, <3>2 DEF Recoverable, InSegments, Visible
  <2>10. CASE PublishFlush
    BY <2>1, <2>10 DEF PublishFlush, MTPublish, Visible, Recoverable, InSegments,
                       CoreInv, FlushInv
  <2>11. CASE WriteBack \/ UNCHANGED vars
    BY <2>11 DEF WriteBack, vars, Visible, Recoverable, InSegments
  <2>12. CASE ProcessCrash
    BY <2>12 DEF ProcessCrash, ProcessLost, Visible, Recoverable, InSegments,
                 Store!StoreNext, Store!Crash
  <2>13. CASE Open
    <3>1. draining = {}
      BY <2>1, <2>13 DEF Open, CoreInv, DownInv
    <3>2. InSegments' = InSegments
      <4>1. segIdx + 1 \notin DOMAIN segs
        BY <2>1 DEF OpenSegmentInv, TypeOK
      <4>2. /\ DOMAIN segs' = DOMAIN segs \cup {segIdx + 1}
            /\ segs'[segIdx + 1] = {}
            /\ \A i \in DOMAIN segs : segs'[i] = segs[i]
        BY <2>13, <4>1 DEF Open
      <4> QED
        BY <4>2 DEF InSegments
    <3> QED
      BY <2>13, <3>1, <3>2 DEF Open, Visible, Recoverable, Store!StoreNext, Store!Restart
  <2>14. ~AbortFlush /\ ~MachineCrash
    BY Benign DEF Benign, AbortFlush, MachineCrash
  <2> QED
    BY <2>3, <2>4, <2>5, <2>6, <2>7, <2>8, <2>9, <2>10, <2>11, <2>12, <2>13, <2>14
       DEF Next, Store!StoreNext
<1> QED
  BY <1>1, <1>2, InvariantHolds, PTL DEF Spec, ImplementsStore, Store!StoreSpec
=============================================================================
