------------------------- MODULE SegmentRing_proofs -------------------------
(***************************************************************************)
(* Theorems about SegmentRing, for every ring and stream size.             *)
(***************************************************************************)
EXTENDS SegmentRing, SequenceTheorems, TLAPS

\* The index of the next segment is a segment.
LEMMA NextSegmentType ==
  ASSUME NEW s \in Segments PROVE NextSegment(s) \in Segments
  BY RingAssumption DEF NextSegment, Segments

\* The number of segments a chunk needs is a natural number.
LEMMA SegmentsRequiredType ==
  ASSUME NEW size \in Nat, NEW remaining \in 0 .. SegSize
  PROVE  SegmentsRequired(size, remaining) \in Nat
<1>1. CASE size <= remaining
  BY <1>1 DEF SegmentsRequired
<1>2. CASE size > remaining
  <2> DEFINE x == size - remaining + SegSize - 1
  <2>1. x \in Nat
    BY <1>2, RingAssumption
  <2>2. x \div SegSize \in Nat
    BY <2>1, RingAssumption
  <2> QED
    BY <1>2, <2>2 DEF SegmentsRequired
<1> QED
  BY <1>1, <1>2, RingAssumption

-----------------------------------------------------------------------------
(* The inductive invariant.  Exclusion rests on isFinalized alone: only the*)
(* producer raises a flag and only of the segment it fills, only the       *)
(* consumer lowers one and only of the segment it has written.             *)

\* The chunk in hand is within the stream.
ChunkFits == sizeBuffered + chunk <= Total

\* A segment being filled is not finalized, and the copy stays inside it.
CopyReserved ==
  ppc = "copy" => /\ ~isFinalized[currentFree]
                  /\ writeOffset[currentFree] + room <= SegSize

\* A segment being written to the placeholder is finalized.
WriteReserved == cpc = "write" => isFinalized[currentWrite]

IInv == TypeOK /\ ChunkFits /\ CopyReserved /\ WriteReserved

LEMMA InitIInv == Init => IInv
  BY RingAssumption, EmptySeq
  DEF Init, IInv, TypeOK, ChunkFits, CopyReserved, WriteReserved, Segments,
      Bytes, PPCs, CPCs

LEMMA ReceiveIInv == ASSUME IInv, Receive PROVE IInv'
  BY RingAssumption
  DEF IInv, TypeOK, ChunkFits, CopyReserved, WriteReserved, Receive, Smaller,
      PPCs, CPCs, sharedVars, consumerVars

LEMMA LoadFlagIInv == ASSUME IInv, LoadFlag PROVE IInv'
  BY DEF IInv, TypeOK, ChunkFits, CopyReserved, WriteReserved, LoadFlag,
         PPCs, CPCs, sharedVars, consumerVars

LEMMA LoadOffsetIInv == ASSUME IInv, LoadOffset PROVE IInv'
<1>1. need' \in Nat
  <2>1. SegSize - writeOffset[currentFree] \in 0 .. SegSize
    BY RingAssumption DEF IInv, TypeOK
  <2>2. chunk \in Nat
    BY RingAssumption DEF IInv, TypeOK
  <2> QED
    BY <2>1, <2>2, SegmentsRequiredType DEF LoadOffset
<1> QED
  BY <1>1
  DEF IInv, TypeOK, ChunkFits, CopyReserved, WriteReserved, LoadOffset,
      PPCs, CPCs, sharedVars, consumerVars

LEMMA ScanFlagIInv == ASSUME IInv, ScanFlag PROVE IInv'
<1>1. ppc = "scan" /\ ppc' \in {"calc", "scanOffset", "append", "scan"} /\ idx' \in Nat
  BY DEF ScanFlag, NextScan, IInv, TypeOK
<1>2. UNCHANGED <<sharedVars, consumerVars, currentFree, chunk, left, room, need>>
  BY DEF ScanFlag
<1>3. TypeOK'
  BY <1>1, <1>2 DEF IInv, TypeOK, PPCs, sharedVars, consumerVars
<1>4. ChunkFits' /\ CopyReserved' /\ WriteReserved'
  BY <1>1, <1>2 DEF IInv, ChunkFits, CopyReserved, WriteReserved, sharedVars, consumerVars
<1> QED
  BY <1>3, <1>4 DEF IInv

LEMMA ScanOffsetIInv == ASSUME IInv, ScanOffset PROVE IInv'
<1>1. ppc = "scanOffset" /\ ppc' \in {"threwOffset", "append", "scan"} /\ idx' \in Nat
  BY DEF ScanOffset, NextScan, IInv, TypeOK
<1>2. UNCHANGED <<sharedVars, consumerVars, currentFree, chunk, left, room, need>>
  BY DEF ScanOffset
<1>3. TypeOK'
  BY <1>1, <1>2 DEF IInv, TypeOK, PPCs, sharedVars, consumerVars
<1>4. ChunkFits' /\ CopyReserved' /\ WriteReserved'
  BY <1>1, <1>2 DEF IInv, ChunkFits, CopyReserved, WriteReserved, sharedVars, consumerVars
<1> QED
  BY <1>3, <1>4 DEF IInv

LEMMA BeginCopyIInv == ASSUME IInv, BeginCopy PROVE IInv'
  BY RingAssumption
  DEF IInv, TypeOK, ChunkFits, CopyReserved, WriteReserved, BeginCopy,
      PPCs, CPCs, sharedVars, consumerVars

LEMMA EndCopyIInv == ASSUME IInv, EndCopy PROVE IInv'
<1> DEFINE n    == Smaller(left, room)
           at   == writeOffset[currentFree]
           from == sizeBuffered + (chunk - left)
<1>1. /\ n \in Nat /\ n <= left /\ n <= room
      /\ at \in Nat /\ at + n <= SegSize
      /\ from \in Nat /\ from + n <= Total
  BY RingAssumption
  DEF IInv, TypeOK, ChunkFits, CopyReserved, EndCopy, Smaller
<1>2. data' \in [Segments -> [Bytes -> 0 .. Total]]
  <2> DEFINE seg == [b \in Bytes |-> IF b \in at .. at + n - 1
                                       THEN from + (b - at) + 1
                                       ELSE data[currentFree][b]]
  <2>1. seg \in [Bytes -> 0 .. Total]
    <3>1. ASSUME NEW b \in Bytes, b \in at .. at + n - 1
          PROVE  from + (b - at) + 1 \in 0 .. Total
      BY <3>1, <1>1, RingAssumption DEF Bytes
    <3>2. ASSUME NEW b \in Bytes PROVE data[currentFree][b] \in 0 .. Total
      BY <3>2 DEF IInv, TypeOK
    <3> HIDE DEF n, at, from
    <3> QED
      BY <3>1, <3>2
  <2>2. data' = [data EXCEPT ![currentFree] = seg]
    BY DEF EndCopy
  <2> HIDE DEF seg
  <2> QED
    BY <2>1, <2>2 DEF IInv, TypeOK
<1>3. writeOffset' \in [Segments -> 0 .. SegSize]
  <2>1. writeOffset' = [writeOffset EXCEPT ![currentFree] = at + n]
    BY DEF EndCopy
  <2>2. at + n \in 0 .. SegSize
    BY <1>1, RingAssumption
  <2> HIDE DEF at, n
  <2> QED
    BY <2>1, <2>2 DEF IInv, TypeOK
<1>4. left' \in 0 .. chunk
  BY <1>1, RingAssumption DEF IInv, TypeOK, EndCopy
<1> QED
  BY <1>2, <1>3, <1>4
  DEF IInv, TypeOK, ChunkFits, CopyReserved, WriteReserved, EndCopy,
      PPCs, CPCs, consumerVars

LEMMA FinalizeIInv == ASSUME IInv, Finalize PROVE IInv'
<1>1. currentFree' \in Segments
  BY NextSegmentType DEF IInv, TypeOK, Finalize
<1> QED
  BY <1>1
  DEF IInv, TypeOK, ChunkFits, CopyReserved, WriteReserved, Finalize,
      PPCs, CPCs, consumerVars

LEMMA EndAppendIInv == ASSUME IInv, EndAppend PROVE IInv'
  BY RingAssumption
  DEF IInv, TypeOK, ChunkFits, CopyReserved, WriteReserved, EndAppend,
      PPCs, CPCs, consumerVars

LEMMA FinalizeLastIInv == ASSUME IInv, FinalizeLast PROVE IInv'
  BY DEF IInv, TypeOK, ChunkFits, CopyReserved, WriteReserved, FinalizeLast,
         PPCs, CPCs, consumerVars

LEMMA CanWriteSegmentIInv == ASSUME IInv, CanWriteSegment PROVE IInv'
  BY DEF IInv, TypeOK, ChunkFits, CopyReserved, WriteReserved,
         CanWriteSegment, Writable, PPCs, CPCs, sharedVars, producerVars

LEMMA WriteSegmentIInv == ASSUME IInv, WriteSegment PROVE IInv'
<1>1. placeholder' \in Seq(0 .. Total)
  <2> DEFINE bytes == [i \in 1 .. SizeToWrite |-> data[currentWrite][i - 1]]
  <2>1. SizeToWrite \in Nat /\ SizeToWrite <= SegSize
    BY RingAssumption DEF IInv, TypeOK, SizeToWrite, Smaller
  <2>2. ASSUME NEW i \in 1 .. SizeToWrite
        PROVE  data[currentWrite][i - 1] \in 0 .. Total
    BY <2>1, <2>2, RingAssumption DEF IInv, TypeOK, Bytes
  <2>3. bytes \in Seq(0 .. Total)
    BY <2>1, <2>2, IsASeq
  <2>4. placeholder' = placeholder \o bytes \/ placeholder' = placeholder
    BY DEF WriteSegment
  <2> HIDE DEF bytes
  <2>5. placeholder \in Seq(0 .. Total)
    BY DEF IInv, TypeOK
  <2> QED
    BY <2>3, <2>4, <2>5, ConcatProperties
<1> QED
  BY <1>1
  DEF IInv, TypeOK, ChunkFits, CopyReserved, WriteReserved, WriteSegment,
      PPCs, CPCs, sharedVars, producerVars

LEMMA ReleaseFlagIInv == ASSUME IInv, ReleaseFlag PROVE IInv'
  BY DEF IInv, TypeOK, ChunkFits, CopyReserved, WriteReserved, ReleaseFlag,
         PPCs, CPCs, producerVars

LEMMA ReleaseOffsetIInv == ASSUME IInv, ReleaseOffset PROVE IInv'
  BY RingAssumption
  DEF IInv, TypeOK, ChunkFits, CopyReserved, WriteReserved, ReleaseOffset,
      PPCs, CPCs, producerVars

LEMMA AdvanceWriteIInv == ASSUME IInv, AdvanceWrite PROVE IInv'
<1>1. currentWrite' \in Segments
  BY NextSegmentType DEF IInv, TypeOK, AdvanceWrite
<1>2. sizeWritten' \in 0 .. Total
  BY RingAssumption DEF IInv, TypeOK, AdvanceWrite, SizeToWrite, Smaller
<1> QED
  BY <1>1, <1>2
  DEF IInv, TypeOK, ChunkFits, CopyReserved, WriteReserved, AdvanceWrite,
      PPCs, CPCs, sharedVars, producerVars

LEMMA StutterIInv == ASSUME IInv, UNCHANGED vars PROVE IInv'
  BY DEF IInv, TypeOK, ChunkFits, CopyReserved, WriteReserved, PPCs, CPCs,
         vars, sharedVars, producerVars, consumerVars

LEMMA NextIInv == IInv /\ [Next]_vars => IInv'
<1> SUFFICES ASSUME IInv, [Next]_vars PROVE IInv'
  OBVIOUS
<1>1. CASE Producer
  BY <1>1, ReceiveIInv, LoadFlagIInv, LoadOffsetIInv, ScanFlagIInv,
     ScanOffsetIInv, BeginCopyIInv, EndCopyIInv, FinalizeIInv, EndAppendIInv,
     FinalizeLastIInv
  DEF Producer
<1>2. CASE Consumer
  BY <1>2, CanWriteSegmentIInv, WriteSegmentIInv, ReleaseFlagIInv,
     ReleaseOffsetIInv, AdvanceWriteIInv
  DEF Consumer
<1>3. CASE UNCHANGED vars
  BY <1>3, StutterIInv
<1> QED
  BY <1>1, <1>2, <1>3 DEF Next

\* The inductive invariant holds in every reachable state.
THEOREM Invariance == Spec => []IInv
  BY InitIInv, NextIInv, PTL DEF Spec

\* Indexes stay in the ring, offsets in a segment, sizes in the stream.
THEOREM TypeCorrect == Spec => []TypeOK
<1>1. IInv => TypeOK
  BY DEF IInv
<1> QED
  BY <1>1, Invariance, PTL

\* The producer never copies into the segment the consumer is writing out.
THEOREM Exclusion == Spec => []SegmentExclusion
<1>1. IInv => SegmentExclusion
  BY DEF IInv, CopyReserved, WriteReserved, SegmentExclusion
<1> QED
  BY <1>1, Invariance, PTL
-----------------------------------------------------------------------------
(* The second invariant, for what the ring holds.  Everything is measured  *)
(* from Base, the first segment that has not been given back by both of    *)
(* its stores: a segment k places behind it holds the bytes from           *)
(* Given + k * SegSize on.                                                 *)

\* Bytes in k segments.
Span(k) == k * SegSize

\* How far segment s is behind segment c, going around the ring.
Dist(c, s) == IF s >= c THEN s - c ELSE s - c + NumSegs

\* The first segment that has not been given back, and the bytes before it.
GivenBack == cpc = "release" /\ pendingStores = {}
Base  == IF GivenBack THEN NextSegment(currentWrite) ELSE currentWrite
Given == IF GivenBack THEN sizeWritten + SizeToWrite ELSE sizeWritten

\* The position in the stream of the first byte of a segment.
Start(s) == Given + Span(Dist(Base, s))

\* The bytes copied into the ring so far.
Accepted == sizeBuffered + (chunk - left)

\* A segment has data for the consumer, or is not yet given back completely.
Stale(s) == s = currentWrite /\ cpc = "release" /\ "offset" \in pendingStores
Held(s) == isFinalized[s] \/ Stale(s)

\* The segments held are those from Base up to the producer's, or all.
Ring ==
  ppc # "done" =>
    \/ /\ ~Held(currentFree)
       /\ \A s \in Segments : Held(s) <=> Dist(Base, s) < Dist(Base, currentFree)
       /\ Accepted = Start(currentFree) + writeOffset[currentFree]
    \/ /\ currentFree = Base
       /\ \A s \in Segments : Held(s)
       /\ Accepted = Given + Span(NumSegs)

\* Free segments are empty, held ones full until their offset is reset.
Offsets ==
  ppc # "done" =>
    \A s \in Segments :
      /\ ~Held(s) /\ s # currentFree => writeOffset[s] = 0
      /\ Held(s) => \/ writeOffset[s] = SegSize
                    \/ s = currentWrite /\ cpc = "release" /\ pendingStores = {"flag"}

\* Each segment holds its part of what was accepted.
Contents ==
  \A s \in Segments, b \in Bytes :
    Start(s) + b < Accepted => data[s][b] = Start(s) + b + 1

\* No byte is copied over one that is still held.
Fits == Accepted <= Given + Span(NumSegs)

\* The producer's chunk while it waits for room, and between chunks.
Waiting ==
  /\ ppc \in {"calc", "room", "scan", "scanOffset"} => left = chunk /\ chunk >= 1
  /\ ppc \in {"idle", "last", "done"} => chunk = 0 /\ left = 0
  /\ ppc \in {"last", "done"} => sizeBuffered = Total
  /\ ppc \in {"room", "scan", "scanOffset"} => ~isFinalized[currentFree]

\* Of the segments needed, those looked at are free; the first may be stale.
Scanning ==
  ppc \in {"scan", "scanOffset"} =>
    /\ idx < need /\ need <= NumSegs
    /\ chunk + writeOffset[currentFree] <= Span(need)
    /\ Held(currentFree) => ppc = "scan" /\ idx <= 1
    /\ ~Held(currentFree) => Dist(Base, currentFree) + idx <= NumSegs
    /\ ppc = "scanOffset" => idx >= 1 /\ ~isFinalized[Scanned]

\* The rest of the chunk fits.
Claimed ==
  /\ ppc \in {"append", "copy", "finalize"} => Accepted + left <= Given + Span(NumSegs)
  /\ ppc = "copy" => left > 0 /\ room = SegSize - writeOffset[currentFree]
  /\ ppc = "finalize" => ~Held(currentFree) /\ writeOffset[currentFree] = SegSize

\* The placeholder has what was written, and no more than was accepted.
Written ==
  /\ cpc \in {"write", "release"} => sizeWritten < Total
  /\ Len(placeholder) = (IF cpc = "release" THEN sizeWritten + SizeToWrite ELSE sizeWritten)
  /\ Len(placeholder) <= Accepted

\* Between the two stores, in either order.
Releasing ==
  cpc = "release" =>
    /\ "flag" \in pendingStores => isFinalized[currentWrite]
    /\ "flag" \notin pendingStores /\ "offset" \in pendingStores /\ ppc # "done"
         => ~isFinalized[currentWrite]
    /\ "flag" \in pendingStores /\ "offset" \notin pendingStores
         => writeOffset[currentWrite] = 0

RInv ==
  /\ Ring /\ Offsets /\ Contents /\ Fits
  /\ Waiting /\ Scanning /\ Claimed
  /\ Written /\ Releasing /\ InOrder
-----------------------------------------------------------------------------
(* Counting bytes by segments, and segments around the ring               *)

\* The bytes of segments add up.
LEMMA SpanFacts ==
  /\ Span(0) = 0
  /\ \A k \in Nat : Span(k) \in Nat /\ Span(k + 1) = Span(k) + SegSize
  /\ \A j, k \in Nat : j < k => Span(j) + SegSize <= Span(k)
<1>1. Span(0) = 0
  BY RingAssumption DEF Span
<1>2. ASSUME NEW k \in Nat PROVE Span(k) \in Nat /\ Span(k + 1) = Span(k) + SegSize
  BY RingAssumption DEF Span
<1>3. ASSUME NEW j \in Nat, NEW k \in Nat, j < k PROVE Span(j) + SegSize <= Span(k)
  BY RingAssumption, <1>3 DEF Span
<1> QED
  BY <1>1, <1>2, <1>3

\* The bytes of two groups of segments.
LEMMA SpanSum == \A j, k \in Nat : Span(j + k) = Span(j) + Span(k)
  BY RingAssumption DEF Span

\* The segment after the last is the first.
LEMMA NextIs ==
  \A s \in Segments : NextSegment(s) = IF s + 1 = NumSegs THEN 0 ELSE s + 1
  BY RingAssumption DEF NextSegment, Segments

\* The same for any number of segments ahead.
LEMMA WrapIs ==
  \A s \in Segments, i \in 0 .. NumSegs :
    (s + i) % NumSegs = IF s + i < NumSegs THEN s + i ELSE s + i - NumSegs
  BY RingAssumption DEF Segments

\* Only the segment itself is at distance 0.
LEMMA DistFacts ==
  \A c, s \in Segments : Dist(c, s) \in 0 .. NumSegs - 1 /\ (Dist(c, s) = 0 <=> s = c)
  BY RingAssumption DEF Dist, Segments

\* Different segments are at different distances.
LEMMA DistApart ==
  \A c, s, t \in Segments : Dist(c, s) = Dist(c, t) => s = t
  BY RingAssumption DEF Dist, Segments

\* The next segment is one further, unless the ring closes.
LEMMA DistOfNext ==
  \A c, s \in Segments :
    IF NextSegment(s) = c THEN Dist(c, s) = NumSegs - 1
                          ELSE Dist(c, NextSegment(s)) = Dist(c, s) + 1
  BY RingAssumption, NextIs DEF Dist, Segments

\* Seen from the next segment all are one nearer, and the first is last.
LEMMA DistFromNext ==
  \A c, s \in Segments :
    Dist(NextSegment(c), s) = IF s = c THEN NumSegs - 1 ELSE Dist(c, s) - 1
  BY RingAssumption, NextIs DEF Dist, Segments

\* The segments ahead of one that is not at the end.
LEMMA DistWraps ==
  \A c, s \in Segments, i \in 0 .. NumSegs :
    /\ (s + i) % NumSegs \in Segments
    /\ Dist(c, s) + i < NumSegs => Dist(c, (s + i) % NumSegs) = Dist(c, s) + i
    /\ Dist(c, s) + i = NumSegs => (s + i) % NumSegs = c
<1> SUFFICES ASSUME NEW c \in Segments, NEW s \in Segments, NEW i \in 0 .. NumSegs
             PROVE  /\ (s + i) % NumSegs \in Segments
                    /\ Dist(c, s) + i < NumSegs => Dist(c, (s + i) % NumSegs) = Dist(c, s) + i
                    /\ Dist(c, s) + i = NumSegs => (s + i) % NumSegs = c
  OBVIOUS
<1>1. (s + i) % NumSegs = IF s + i < NumSegs THEN s + i ELSE s + i - NumSegs
  BY WrapIs
<1>2. c \in 0 .. NumSegs - 1 /\ s \in 0 .. NumSegs - 1
  BY DEF Segments
<1> QED
  BY RingAssumption, <1>1, <1>2 DEF Dist, Segments

\* The segments a chunk requires have room for it.
LEMMA Enough ==
  \A size \in Nat, remaining \in 0 .. SegSize :
    size <= remaining + Span(SegmentsRequired(size, remaining) - 1)
<1> SUFFICES ASSUME NEW size \in Nat, NEW remaining \in 0 .. SegSize
             PROVE size <= remaining + Span(SegmentsRequired(size, remaining) - 1)
  OBVIOUS
<1>1. CASE size <= remaining
  BY <1>1, RingAssumption DEF SegmentsRequired, Span
<1>2. CASE size > remaining
  <2> DEFINE x == size - remaining + SegSize - 1
             q == x \div SegSize
  <2>1. x \in Nat
    BY <1>2, RingAssumption
  <2>2. q \in Nat /\ x < q * SegSize + SegSize
    BY <2>1, RingAssumption
  <2>3. SegmentsRequired(size, remaining) - 1 = q
    BY <1>2, <2>2, RingAssumption DEF SegmentsRequired
  <2> QED
    BY <2>2, <2>3, RingAssumption DEF Span
<1> QED
  BY <1>1, <1>2, RingAssumption

\* The positions of the two threads are in range.
LEMMA Positions ==
  ASSUME TypeOK
  PROVE  /\ Base \in Segments /\ currentFree \in Segments /\ currentWrite \in Segments
         /\ Given \in 0 .. Total /\ Accepted \in Nat
         /\ SizeToWrite \in 0 .. SegSize
<1>1. SizeToWrite \in 0 .. SegSize /\ sizeWritten + SizeToWrite \in 0 .. Total
  BY RingAssumption DEF TypeOK, SizeToWrite, Smaller
<1>2. Base \in Segments
  BY NextSegmentType DEF TypeOK, Base
<1>3. Given \in 0 .. Total
  BY <1>1, RingAssumption DEF TypeOK, Given
<1>4. Accepted \in Nat
  BY RingAssumption DEF TypeOK, Accepted
<1> QED
  BY <1>1, <1>2, <1>3, <1>4 DEF TypeOK

\* The empty ring.
LEMMA InitRInv == Init => RInv
<1> SUFFICES ASSUME Init PROVE RInv
  OBVIOUS
<1> USE RingAssumption DEF Init
<1>0. Base = 0 /\ Given = 0 /\ Accepted = 0 /\ 0 \in Segments
  BY DEF Base, Given, GivenBack, Accepted, Segments
<1>1. \A s \in Segments : Dist(0, s) \in 0 .. NumSegs - 1 /\ Start(s) \in Nat /\ ~Held(s)
  <2> TAKE s \in Segments
  <2>1. Dist(0, s) \in 0 .. NumSegs - 1 /\ Dist(0, s) \in Nat
    BY <1>0, DistFacts
  <2>2. Span(Dist(0, s)) \in Nat
    BY <2>1, SpanFacts
  <2>3. Start(s) = Span(Dist(0, s))
    BY <1>0, <2>2 DEF Start
  <2>4. ~Held(s)
    BY DEF Held, Stale
  <2> QED
    BY <2>1, <2>2, <2>3, <2>4
<1>2. Start(0) = 0 /\ Dist(0, 0) = 0
  BY <1>0, DistFacts, SpanFacts DEF Start
<1>3. Ring
  BY <1>0, <1>1, <1>2 DEF Ring
<1>4. Offsets /\ Fits
  <2>1. Span(NumSegs) \in Nat
    BY SpanFacts
  <2>2. Offsets
    BY <1>1 DEF Offsets
  <2> QED
    BY <1>0, <2>1, <2>2 DEF Fits
<1>5. Contents
  BY <1>0, <1>1 DEF Contents, Bytes
<1>6. Waiting /\ Scanning /\ Claimed /\ Releasing
  BY DEF Waiting, Scanning, Claimed, Releasing
<1>7. Written /\ InOrder
  BY <1>0 DEF Written, InOrder
<1> QED
  BY <1>3, <1>4, <1>5, <1>6, <1>7 DEF RInv

\* A step of the producer that changes no segment and no position.
LEMMA QuietKeeps ==
  ASSUME RInv,
         UNCHANGED <<isFinalized, writeOffset, data, currentFree, consumerVars>>,
         Accepted' = Accepted, ppc' = "done" <=> ppc = "done"
  PROVE  Ring' /\ Offsets' /\ Contents' /\ Fits' /\ Written' /\ Releasing' /\ InOrder'
<1> USE DEF consumerVars
<1>1. Base' = Base /\ Given' = Given
  BY DEF Base, Given, GivenBack, SizeToWrite
<1>2. \A s \in Segments : Start(s)' = Start(s) /\ Held(s)' = Held(s)
  BY <1>1 DEF Start, Held, Stale
<1>3. Start(currentFree)' = Start(currentFree) /\ Held(currentFree)' = Held(currentFree)
  BY <1>1 DEF Start, Held, Stale
<1>4. Ring'
  BY <1>1, <1>2, <1>3 DEF RInv, Ring
<1>5. Offsets' /\ Fits'
  BY <1>1, <1>2 DEF RInv, Offsets, Fits
<1>6. Contents'
  BY <1>2 DEF RInv, Contents
<1>7. Written' /\ Releasing' /\ InOrder'
  BY DEF RInv, Written, Releasing, InOrder, SizeToWrite
<1> QED
  BY <1>4, <1>5, <1>6, <1>7

\* With room for more, the producer's segment is free and what follows is too.
LEMMA RoomLeft ==
  ASSUME TypeOK, RInv, ppc # "done", Accepted < Given + Span(NumSegs)
  PROVE  /\ ~Held(currentFree)
         /\ \A s \in Segments : Held(s) <=> Dist(Base, s) < Dist(Base, currentFree)
         /\ Accepted = Given + Span(Dist(Base, currentFree)) + writeOffset[currentFree]
<1>1. Accepted # Given + Span(NumSegs)
  BY Positions, SpanFacts, RingAssumption
<1> QED
  BY <1>1 DEF RInv, Ring, Start

\* A chunk that has arrived is not in the ring yet.
LEMMA ReceiveRInv == ASSUME IInv, RInv, Receive PROVE RInv'
<1> USE DEF Receive, sharedVars, consumerVars
<1>1. chunk' = left' /\ chunk' >= 1 /\ chunk' \in Nat /\ chunk = left
  BY RingAssumption DEF RInv, Waiting, IInv, TypeOK, Smaller
<1>2. Accepted' = Accepted
  BY <1>1 DEF Accepted, IInv, TypeOK
<1>3. Waiting' /\ Scanning' /\ Claimed'
  BY <1>1 DEF Waiting, Scanning, Claimed
<1> QED
  BY <1>2, <1>3, QuietKeeps DEF RInv

\* The flag that was found lowered stays so.
LEMMA LoadFlagRInv == ASSUME IInv, RInv, LoadFlag PROVE RInv'
<1> USE DEF LoadFlag, sharedVars, consumerVars
<1>1. Accepted' = Accepted
  BY DEF Accepted
<1>2. Waiting' /\ Scanning' /\ Claimed'
  BY DEF RInv, Waiting, Scanning, Claimed
<1> QED
  BY <1>1, <1>2, QuietKeeps DEF RInv

\* A stale segment is taken for a full one, so that another is asked for.
LEMMA LoadOffsetRInv == ASSUME IInv, RInv, LoadOffset PROVE RInv'
<1> USE DEF LoadOffset, sharedVars, consumerVars
<1>1. Accepted' = Accepted
  BY DEF Accepted
<1>2. chunk \in Nat /\ chunk >= 1 /\ writeOffset[currentFree] \in 0 .. SegSize /\ ppc # "done"
  BY RingAssumption DEF RInv, Waiting, IInv, TypeOK
<1>3. SegSize - writeOffset[currentFree] \in 0 .. SegSize
  BY <1>2, RingAssumption
<1>4. need' \in Nat /\ need' >= 1
      /\ chunk <= SegSize - writeOffset[currentFree] + Span(need' - 1)
  <2>1. need' \in Nat
    BY <1>2, <1>3, SegmentsRequiredType
  <2>2. need' >= 1
    <3> DEFINE over == chunk - (SegSize - writeOffset[currentFree])
    <3>1. CASE over <= 0
      BY <1>2, <1>3, <3>1 DEF SegmentsRequired
    <3>2. CASE over > 0
      <4>1. over + SegSize - 1 \in Nat
        BY <1>2, <1>3, <3>2, RingAssumption
      <4>2. (over + SegSize - 1) \div SegSize \in Nat
        BY <4>1, RingAssumption
      <4> QED
        BY <1>2, <1>3, <3>2, <4>2 DEF SegmentsRequired
    <3> QED
      BY <1>2, <1>3, <3>1, <3>2, RingAssumption
  <2> QED
    BY <1>2, <1>3, <2>1, <2>2, Enough
<1>5. chunk + writeOffset[currentFree] <= Span(need')
  <2>1. Span(need') = Span(need' - 1) + SegSize /\ Span(need' - 1) \in Nat
    BY <1>4, SpanFacts
  <2> QED
    BY <1>2, <1>4, <2>1, RingAssumption
<1>6. Waiting' /\ Claimed'
  BY DEF RInv, Waiting, Claimed
<1>7. Base' = Base
  BY DEF Base, GivenBack
<1>8. Dist(Base, currentFree) + 0 <= NumSegs
  BY Positions, DistFacts, RingAssumption DEF IInv
<1>9. Scanning'
  BY <1>4, <1>5, <1>7, <1>8, RingAssumption DEF Scanning
<1> QED
  BY <1>1, <1>6, <1>9, QuietKeeps DEF RInv

\* When enough segments are free, the chunk fits.
LEMMA ScanDone ==
  ASSUME IInv, RInv, ppc \in {"scan", "scanOffset"}, ~Held(currentFree),
         Dist(Base, currentFree) + need <= NumSegs
  PROVE  Accepted + left <= Given + Span(NumSegs)
<1> DEFINE d == Dist(Base, currentFree)
<1>1. d \in Nat /\ need \in Nat /\ d + need \in Nat /\ d + need <= NumSegs
  <2>1. TypeOK /\ need \in Nat
    BY DEF IInv, TypeOK
  <2>2. Base \in Segments /\ currentFree \in Segments
    BY <2>1, Positions
  <2>3. d \in 0 .. NumSegs - 1 /\ d + need <= NumSegs
    BY <2>2, DistFacts
  <2> HIDE DEF d
  <2>4. d \in Nat
    BY <2>3
  <2> QED
    BY <2>1, <2>3, <2>4
<1>2. Span(d + need) = Span(d) + Span(need) /\ Span(d) \in Nat /\ Span(need) \in Nat
  BY <1>1, SpanSum, SpanFacts
<1>3. Span(d + need) <= Span(NumSegs) /\ Span(NumSegs) \in Nat
  <2>1. CASE d + need = NumSegs
    BY <2>1, <1>1, <1>2, SpanFacts, RingAssumption
  <2>2. CASE d + need < NumSegs
    <3>1. Span(d + need) + SegSize <= Span(NumSegs)
      BY <2>2, <1>1, SpanFacts, RingAssumption
    <3> QED
      BY <3>1, <1>1, SpanFacts, RingAssumption
  <2> QED
    BY <2>1, <2>2, <1>1, RingAssumption
<1>4. Accepted = Given + Span(d) + writeOffset[currentFree]
  BY Positions DEF RInv, Ring, Start, IInv
<1>5. left = chunk /\ chunk + writeOffset[currentFree] <= Span(need)
  BY DEF RInv, Waiting, Scanning
<1>6. writeOffset[currentFree] \in Nat /\ chunk \in Nat /\ Given \in Nat
  BY Positions, RingAssumption DEF IInv, TypeOK
<1> HIDE DEF d
<1> QED
  BY <1>2, <1>3, <1>4, <1>5, <1>6

\* A stale segment looks full.
LEMMA StaleIsFull ==
  ASSUME IInv, RInv, ppc # "done", NEW s \in Segments, Held(s), ~isFinalized[s]
  PROVE  s = currentWrite /\ cpc = "release" /\ writeOffset[s] = SegSize
BY DEF RInv, Offsets, Held, Stale

\* With the ring full the scan cannot get past a stale segment.
LEMMA ScanFlagRInv == ASSUME IInv, RInv, ScanFlag PROVE RInv'
<1> USE DEF ScanFlag, sharedVars, consumerVars
<1>1. Accepted' = Accepted
  BY DEF Accepted
<1>2. /\ ppc = "scan" /\ idx < need /\ need <= NumSegs /\ idx \in Nat /\ need \in Nat
      /\ left = chunk /\ chunk >= 1 /\ ~isFinalized[currentFree]
      /\ chunk + writeOffset[currentFree] <= Span(need) /\ chunk \in Nat
      /\ writeOffset[currentFree] \in Nat
  BY RingAssumption DEF RInv, Waiting, Scanning, IInv, TypeOK
<1>3. Base' = Base /\ Given' = Given /\ Held(currentFree)' = Held(currentFree)
  BY DEF Base, Given, GivenBack, SizeToWrite, Held, Stale
<1>4. Dist(Base, currentFree) \in 0 .. NumSegs - 1
  BY Positions, DistFacts DEF IInv
<1>5. Waiting' /\ Scanning' /\ Claimed'
  <2>1. CASE isFinalized[Scanned] /\ ppc' = "calc" /\ idx' = 0
    BY <2>1, <1>2 DEF Waiting, Scanning, Claimed
  <2>2. CASE ~isFinalized[Scanned] /\ idx # 0 /\ ppc' = "scanOffset" /\ UNCHANGED idx
    <3>1. ASSUME Held(currentFree) PROVE FALSE
      <4>1. idx = 1
        BY <3>1, <2>2, <1>2 DEF RInv, Scanning
      <4>2. Scanned \in Segments /\ Scanned # currentFree
        <5>1. currentFree \in 0 .. NumSegs - 1
          BY Positions DEF IInv, Segments
        <5>2. Scanned = IF currentFree + 1 < NumSegs THEN currentFree + 1
                                                     ELSE currentFree + 1 - NumSegs
          BY <4>1, <5>1, WrapIs, RingAssumption DEF Scanned, Segments
        <5> QED
          BY <5>1, <5>2, RingAssumption DEF Segments
      <4>3. Held(Scanned)
        BY <3>1, <4>2, <1>2 DEF RInv, Ring
      <4>4. currentFree = currentWrite /\ Scanned = currentWrite
        BY <3>1, <4>2, <4>3, <1>2, <2>2, StaleIsFull, Positions DEF IInv
      <4> QED
        BY <4>2, <4>4
    <3>2. Waiting' /\ Claimed'
      BY <2>2, <1>2 DEF Waiting, Claimed
    <3>3. idx >= 1 /\ Scanned' = Scanned
      BY <2>2, <1>2 DEF Scanned
    <3>4. Scanning'
      BY <3>1, <3>3, <2>2, <1>2, <1>3 DEF RInv, Scanning
    <3> QED
      BY <3>2, <3>4
  <2>3. CASE ~isFinalized[Scanned] /\ idx = 0 /\ NextScan
    <3> USE DEF NextScan
    <3>1. Waiting'
      BY <2>3, <1>2 DEF Waiting
    <3>2. CASE need = 1
      <4>1. ~Held(currentFree)
        <5>1. Span(1) = SegSize
          BY RingAssumption DEF Span
        <5> QED
          BY <5>1, <3>2, <1>2, StaleIsFull, Positions, RingAssumption DEF IInv
      <4>2. Accepted + left <= Given + Span(NumSegs)
        BY <4>1, <3>2, <1>2, <1>4, ScanDone, RingAssumption
      <4> QED
        BY <4>2, <3>1, <3>2, <2>3, <1>1, <1>3 DEF Scanning, Claimed
    <3>3. CASE need # 1
      <4>1. ppc' = "scan" /\ idx' = 1 /\ 1 < need
        BY <3>3, <2>3, <1>2
      <4> QED
        BY <4>1, <3>1, <1>2, <1>3, <1>4, RingAssumption DEF Scanning, Claimed
    <3> QED
      BY <3>2, <3>3
  <2> QED
    BY <2>1, <2>2, <2>3
<1> QED
  BY <1>1, <1>2, <1>5, QuietKeeps DEF RInv, NextScan

\* A segment with no offset is not stale, and not the first one held.
LEMMA ScanOffsetRInv == ASSUME IInv, RInv, ScanOffset PROVE RInv'
<1> USE DEF ScanOffset, sharedVars, consumerVars
<1>1. Accepted' = Accepted
  BY DEF Accepted
<1>2. /\ ppc = "scanOffset" /\ idx < need /\ need <= NumSegs /\ idx \in Nat /\ need \in Nat
      /\ left = chunk /\ chunk >= 1 /\ ~isFinalized[currentFree]
      /\ chunk + writeOffset[currentFree] <= Span(need)
      /\ ~Held(currentFree) /\ Dist(Base, currentFree) + idx <= NumSegs
      /\ idx >= 1 /\ ~isFinalized[Scanned]
  BY RingAssumption DEF RInv, Waiting, Scanning, IInv, TypeOK
<1>3. Base' = Base /\ Given' = Given /\ Held(currentFree)' = Held(currentFree)
  BY DEF Base, Given, GivenBack, SizeToWrite, Held, Stale
<1>4. Dist(Base, currentFree) \in 0 .. NumSegs - 1
  BY Positions, DistFacts DEF IInv
<1>5. Waiting' /\ Scanning' /\ Claimed'
  <2>1. CASE ppc' = "threwOffset"
    BY <2>1 DEF Waiting, Scanning, Claimed
  <2>2. CASE writeOffset[Scanned] = 0 /\ NextScan
    <3> USE DEF NextScan
    <3> idx \in 0 .. NumSegs
      BY <1>2, RingAssumption
    <3>1. Scanned \in Segments
      BY <1>2, Positions, DistWraps DEF Scanned, IInv
    <3>2. ~Held(Scanned)
      BY <3>1, <2>2, <1>2, StaleIsFull, RingAssumption
    <3>3. Dist(Base, currentFree) + idx # NumSegs
      <4>1. SUFFICES ASSUME Dist(Base, currentFree) + idx = NumSegs PROVE FALSE
        OBVIOUS
      <4>2. Scanned = Base
        BY <4>1, <1>2, Positions, DistWraps DEF Scanned, IInv
      <4>3. Dist(Base, Base) = 0 /\ Dist(Base, currentFree) <= 0
        BY <4>2, <3>2, <1>2, <1>4, Positions, DistFacts DEF RInv, Ring, IInv
      <4> QED
        BY <4>1, <4>3, <1>2, <1>4
    <3>4. Dist(Base, currentFree) + (idx + 1) <= NumSegs
      BY <3>3, <1>2, <1>4, RingAssumption
    <3>5. Waiting'
      BY <2>2, <1>2 DEF Waiting
    <3>6. CASE idx + 1 = need
      <4>1. Accepted + left <= Given + Span(NumSegs)
        BY <3>4, <3>6, <1>2, ScanDone
      <4> QED
        BY <4>1, <3>5, <3>6, <2>2, <1>1, <1>3 DEF Scanning, Claimed
    <3>7. CASE idx + 1 # need
      BY <3>4, <3>5, <3>7, <2>2, <1>2, <1>3 DEF Scanning, Claimed
    <3> QED
      BY <3>6, <3>7
  <2> QED
    BY <2>1, <2>2
<1> QED
  BY <1>1, <1>2, <1>5, QuietKeeps DEF RInv, NextScan

\* The copy begins with all of what is left of the segment.
LEMMA BeginCopyRInv == ASSUME IInv, RInv, BeginCopy PROVE RInv'
<1> USE DEF BeginCopy, sharedVars, consumerVars
<1>1. Accepted' = Accepted
  BY DEF Accepted
<1>2. Base' = Base /\ Given' = Given
  BY DEF Base, Given, GivenBack, SizeToWrite
<1>3. Waiting' /\ Scanning'
  BY DEF Waiting, Scanning
<1>4. Claimed'
  BY <1>1, <1>2 DEF RInv, Claimed
<1> QED
  BY <1>1, <1>3, <1>4, QuietKeeps DEF RInv

\* The chunk has been counted byte by byte.
LEMMA EndAppendRInv == ASSUME IInv, RInv, EndAppend PROVE RInv'
<1> USE DEF EndAppend, sharedVars, consumerVars
<1>1. Accepted' = Accepted
  BY RingAssumption DEF Accepted, IInv, TypeOK
<1>2. Waiting' /\ Scanning' /\ Claimed'
  BY DEF Waiting, Scanning, Claimed
<1> QED
  BY <1>1, <1>2, QuietKeeps DEF RInv

\* The end of the stream.
LEMMA FinalizeLastRInv == ASSUME IInv, RInv, FinalizeLast PROVE RInv'
<1> USE DEF FinalizeLast, sharedVars, consumerVars
<1>1. Accepted' = Accepted /\ Base' = Base /\ Given' = Given
  BY DEF Accepted, Base, Given, GivenBack, SizeToWrite
<1>2. \A s \in Segments : Start(s)' = Start(s)
  BY <1>1 DEF Start
<1>3. Ring' /\ Offsets' /\ Scanning' /\ Claimed'
  BY DEF Ring, Offsets, Scanning, Claimed
<1>4. Contents' /\ Fits'
  BY <1>1, <1>2 DEF RInv, Contents, Fits
<1>5. Waiting' /\ InOrder'
  BY DEF RInv, Waiting, InOrder
<1>6. Written'
  BY <1>1 DEF RInv, Written, SizeToWrite
<1>7. Releasing'
  BY DEF RInv, Releasing, IInv, TypeOK
<1> QED
  BY <1>3, <1>4, <1>5, <1>6, <1>7 DEF RInv

\* The bytes of a copy follow those that were there.
LEMMA EndCopyRInv == ASSUME IInv, IInv', RInv, EndCopy PROVE RInv'
<1> DEFINE n == Smaller(left, room)
           d == Dist(Base, currentFree)
<1>1. /\ ppc = "copy" /\ left \in Nat /\ left > 0 /\ room \in Nat
      /\ room = SegSize - writeOffset[currentFree] /\ writeOffset[currentFree] \in Nat
      /\ Accepted + left <= Given + Span(NumSegs) /\ Accepted \in Nat
      /\ Given \in Nat /\ Span(NumSegs) \in Nat
      /\ currentFree \in Segments /\ Base \in Segments /\ SegSize \in Nat
  <2>1. ppc = "copy"
    BY DEF EndCopy
  <2>2. /\ Accepted + left <= Given + Span(NumSegs)
        /\ left > 0 /\ room = SegSize - writeOffset[currentFree]
    BY <2>1 DEF RInv, Claimed
  <2>3. Accepted \in Nat /\ Given \in Nat /\ currentFree \in Segments /\ Base \in Segments
    BY Positions DEF IInv
  <2>4. left \in Nat /\ room \in Nat /\ writeOffset[currentFree] \in Nat
    BY <2>3, RingAssumption DEF IInv, TypeOK
  <2>5. Span(NumSegs) \in Nat /\ SegSize \in Nat
    BY SpanFacts, RingAssumption
  <2> QED
    BY <2>1, <2>2, <2>3, <2>4, <2>5
<1>2. /\ ~Held(currentFree)
      /\ \A s \in Segments : Held(s) <=> Dist(Base, s) < d
      /\ Accepted = Given + Span(d) + writeOffset[currentFree]
  BY <1>1, RoomLeft DEF IInv
<1>3. n \in Nat /\ n <= left /\ n <= room /\ (left >= room => n = room)
  BY <1>1 DEF Smaller
<1>4. /\ Accepted' = Accepted + n /\ left' = left - n
      /\ writeOffset' = [writeOffset EXCEPT ![currentFree] = @ + n]
      /\ ppc' = (IF left < room THEN "append" ELSE "finalize")
  <2>1. /\ left' = left - n /\ sizeBuffered' = sizeBuffered /\ chunk' = chunk
        /\ writeOffset' = [writeOffset EXCEPT ![currentFree] = @ + n]
        /\ ppc' = (IF left < room THEN "append" ELSE "finalize")
    BY DEF EndCopy
  <2>2. sizeBuffered \in Nat /\ chunk \in Nat
    BY RingAssumption DEF IInv, TypeOK
  <2>3. Accepted' = Accepted + n
    BY <2>1, <2>2, <1>1, <1>3 DEF Accepted
  <2> QED
    BY <2>1, <2>3
<1>5. /\ writeOffset'[currentFree] = writeOffset[currentFree] + n
      /\ \A s \in Segments \ {currentFree} : writeOffset'[s] = writeOffset[s]
  BY <1>1, <1>4 DEF IInv, TypeOK
<1>6. /\ Base' = Base /\ Given' = Given /\ d' = d
      /\ UNCHANGED <<isFinalized, currentFree, consumerVars>>
  BY DEF EndCopy, consumerVars, Base, Given, GivenBack, SizeToWrite
<1>7. \A s \in Segments : Held(s)' = Held(s) /\ Start(s)' = Start(s)
  BY <1>6 DEF Held, Stale, Start, consumerVars
<1>8. d \in Nat /\ Span(d) \in Nat
  BY <1>1, DistFacts, SpanFacts
<1> HIDE DEF n, d
<1>9. Ring'
  <2>1. Accepted' = Start(currentFree)' + writeOffset'[currentFree]
    BY <1>1, <1>2, <1>3, <1>4, <1>5, <1>6, <1>7, <1>8 DEF Start, d
  <2> QED
    BY <2>1, <1>1, <1>2, <1>6, <1>7 DEF Ring, d
<1>10. Offsets'
  BY <1>1, <1>2, <1>5, <1>6, <1>7 DEF RInv, Offsets, consumerVars
<1>11. Contents'
  <2> SUFFICES ASSUME NEW s \in Segments, NEW b \in Bytes, Start(s) + b < Accepted + n
               PROVE  data'[s][b] = Start(s) + b + 1
    BY <1>4, <1>7 DEF Contents
  <2>1. b \in Nat /\ b < SegSize /\ Start(s) = Given + Span(Dist(Base, s))
        /\ Dist(Base, s) \in Nat /\ Span(Dist(Base, s)) \in Nat
    BY <1>1, DistFacts, SpanFacts, RingAssumption DEF Bytes, Start
  <2>2. data'[s] = IF s = currentFree
                     THEN [c \in Bytes |->
                             IF c \in writeOffset[currentFree] .. writeOffset[currentFree] + n - 1
                               THEN Accepted + (c - writeOffset[currentFree]) + 1
                               ELSE data[currentFree][c]]
                     ELSE data[s]
    BY DEF EndCopy, n, Accepted, IInv, TypeOK
  <2>3. CASE s = currentFree
    <3>1. Start(s) = Given + Span(d) /\ data'[s][b] =
            IF b \in writeOffset[currentFree] .. writeOffset[currentFree] + n - 1
              THEN Accepted + (b - writeOffset[currentFree]) + 1
              ELSE data[currentFree][b]
      BY <2>1, <2>2, <2>3 DEF d
    <3>2. CASE b < writeOffset[currentFree]
      <4>1. Start(s) + b < Accepted
        BY <3>1, <3>2, <2>1, <1>1, <1>2, <1>8
      <4> QED
        BY <4>1, <3>1, <3>2, <2>1, <2>3, <1>1, <1>3 DEF RInv, Contents
    <3>3. CASE b >= writeOffset[currentFree]
      <4>1. b < writeOffset[currentFree] + n
        BY <3>1, <3>3, <2>1, <1>1, <1>2, <1>3, <1>8
      <4>2. data'[s][b] = Accepted + (b - writeOffset[currentFree]) + 1
        BY <4>1, <3>1, <3>3, <2>1, <1>1, <1>3
      <4> QED
        BY <4>2, <3>1, <2>1, <1>1, <1>2, <1>8
    <3> QED
      BY <3>2, <3>3, <2>1, <1>1
  <2>4. CASE s # currentFree
    <3>1. Start(s) + b < Accepted
      <4>1. Dist(Base, s) # d
        BY <2>4, <1>1, DistApart DEF d
      <4>2. CASE Dist(Base, s) < d
        <5>1. Span(Dist(Base, s)) + SegSize <= Span(d)
          BY <4>2, <2>1, <1>8, SpanFacts
        <5> QED
          BY <5>1, <2>1, <1>1, <1>2, <1>8
      <4>3. CASE d < Dist(Base, s)
        <5>1. Span(d) + SegSize <= Span(Dist(Base, s))
          BY <4>3, <2>1, <1>8, SpanFacts
        <5>2. Accepted + n <= Given + Span(d) + SegSize
          BY <1>1, <1>2, <1>3, <1>8
        <5> QED
          BY <5>1, <5>2, <2>1, <1>1, <1>3, <1>8
      <4> QED
        BY <4>1, <4>2, <4>3, <2>1, <1>8
    <3> QED
      BY <3>1, <2>2, <2>4 DEF RInv, Contents
  <2> QED
    BY <2>3, <2>4
<1>12. Fits' /\ Claimed'
  <2>1. Accepted' + left' = Accepted + left /\ left' \in Nat /\ Accepted' \in Nat
    BY <1>1, <1>3, <1>4
  <2>2. Fits'
    <3>1. Accepted' <= Given + Span(NumSegs)
      BY <1>1, <1>3, <1>4
    <3> QED
      BY <3>1, <1>6 DEF Fits
  <2>3. ppc' = "finalize" => ~Held(currentFree)' /\ writeOffset'[currentFree'] = SegSize
    BY <1>1, <1>2, <1>3, <1>4, <1>5, <1>6, <1>7
  <2> QED
    BY <2>1, <2>2, <2>3, <1>1, <1>4, <1>6 DEF Claimed
<1>13. Waiting' /\ Scanning'
  BY <1>4 DEF Waiting, Scanning
<1>14. Written' /\ InOrder'
  <2>1. Len(placeholder) \in Nat
    BY DEF IInv, TypeOK
  <2> QED
    BY <2>1, <1>1, <1>3, <1>4, <1>6 DEF RInv, Written, InOrder, SizeToWrite, consumerVars
<1>15. Releasing'
  <2>1. currentWrite \in Segments /\ (isFinalized[currentWrite] => currentWrite # currentFree)
    BY <1>2 DEF IInv, TypeOK, Held
  <2> QED
    BY <2>1, <1>1, <1>4, <1>5, <1>6 DEF RInv, Releasing, consumerVars
<1> QED
  BY <1>9, <1>10, <1>11, <1>12, <1>13, <1>14, <1>15 DEF RInv

\* A full segment joins those that are held.
LEMMA FinalizeRInv == ASSUME IInv, RInv, Finalize PROVE RInv'
<1> DEFINE d == Dist(Base, currentFree)
           n == NextSegment(currentFree)
<1>1. /\ ppc = "finalize" /\ ppc' = "append" /\ ~Held(currentFree)
      /\ writeOffset[currentFree] = SegSize
      /\ currentFree \in Segments /\ Base \in Segments /\ currentFree' = n /\ n \in Segments
      /\ isFinalized' = [isFinalized EXCEPT ![currentFree] = TRUE]
      /\ UNCHANGED <<writeOffset, data, consumerVars>>
  BY Positions, NextSegmentType DEF RInv, Claimed, IInv, Finalize, consumerVars
<1>2. /\ \A s \in Segments : Held(s) <=> Dist(Base, s) < d
      /\ Accepted = Given + Span(d) + SegSize
  BY <1>1 DEF RInv, Ring, Start
<1>3. /\ Base' = Base /\ Given' = Given /\ Accepted' = Accepted
      /\ left' = left /\ placeholder' = placeholder
  BY DEF Finalize, consumerVars, Base, Given, GivenBack, SizeToWrite, Accepted
<1>4. \A s \in Segments : Start(s)' = Start(s)
  BY <1>3 DEF Start
<1>5. \A s \in Segments : Held(s)' <=> (s = currentFree \/ Held(s))
  BY <1>1 DEF Held, Stale, IInv, TypeOK, consumerVars
<1>6. d \in 0 .. NumSegs - 1 /\ Span(d + 1) = Span(d) + SegSize /\ Span(d) \in Nat
      /\ Given \in Nat /\ SegSize \in Nat
  BY <1>1, DistFacts, SpanFacts, RingAssumption, Positions DEF IInv
<1>7. \A s \in Segments : Dist(Base, s) \in 0 .. NumSegs - 1 /\ (Dist(Base, s) = d <=> s = currentFree)
  BY <1>1, DistFacts, DistApart
<1>8. \A s \in Segments : Held(s)' <=> Dist(Base, s) < d + 1
  <2> TAKE s \in Segments
  <2>1. Dist(Base, s) \in Nat /\ d \in Nat /\ (Dist(Base, s) < d + 1 <=> Dist(Base, s) < d \/ Dist(Base, s) = d)
    BY <1>6, <1>7
  <2> QED
    BY <2>1, <1>2, <1>5, <1>7
<1>9. n # currentFree /\ (~Held(n) => writeOffset[n] = 0)
  <2>1. n # currentFree
    BY <1>1, NextIs, RingAssumption DEF Segments
  <2> QED
    BY <2>1, <1>1 DEF RInv, Offsets
<1>10. Held(currentFree)' <=> Dist(Base, n) < d + 1
  BY <1>1, <1>8 DEF Held, Stale
<1>11. Start(currentFree)' = Given + Span(Dist(Base, n))
  BY <1>1, <1>3 DEF Start
<1>12. Ring'
  <2>1. CASE n = Base
    <3>1. d = NumSegs - 1
      BY <2>1, <1>1, DistOfNext
    <3>2. \A s \in Segments : Held(s)'
      BY <3>1, <1>6, <1>7, <1>8, RingAssumption
    <3>3. Accepted = Given + Span(NumSegs)
      BY <3>1, <1>2, <1>6, RingAssumption
    <3> QED
      BY <3>2, <3>3, <2>1, <1>1, <1>3 DEF Ring
  <2>2. CASE n # Base
    <3>1. Dist(Base, n) = d + 1
      BY <2>2, <1>1, DistOfNext
    <3>2. ~Held(currentFree)'
      BY <3>1, <1>6, <1>10
    <3>3. ~Held(n)
      BY <3>1, <1>1, <1>2, <1>6
    <3>4. Accepted' = Start(currentFree)' + writeOffset'[currentFree']
      BY <3>1, <3>3, <1>1, <1>2, <1>3, <1>6, <1>9, <1>11
    <3>5. \A s \in Segments : Held(s)' <=> Dist(Base', s) < Dist(Base', currentFree')
      BY <3>1, <1>1, <1>3, <1>8
    <3> QED
      BY <3>2, <3>4, <3>5 DEF Ring
  <2> QED
    BY <2>1, <2>2
<1>13. Offsets'
  BY <1>1, <1>5 DEF RInv, Offsets, consumerVars
<1>14. Contents' /\ Fits'
  BY <1>1, <1>3, <1>4 DEF RInv, Contents, Fits
<1>15. Waiting' /\ Scanning'
  BY <1>1 DEF Waiting, Scanning
<1>16. Claimed'
  BY <1>1, <1>3 DEF RInv, Claimed
<1>17. Written' /\ InOrder'
  BY <1>1, <1>3 DEF RInv, Written, InOrder, SizeToWrite, consumerVars
<1>18. Releasing'
  <2>1. cpc = "release" /\ "offset" \in pendingStores => currentWrite # currentFree
    BY <1>1 DEF Held, Stale
  <2> QED
    BY <2>1, <1>1 DEF RInv, Releasing, IInv, TypeOK, consumerVars
<1> QED
  BY <1>12, <1>13, <1>14, <1>15, <1>16, <1>17, <1>18 DEF RInv

\* A step of the consumer that changes no segment and no position.
LEMMA ConsumerKeeps ==
  ASSUME RInv, UNCHANGED <<sharedVars, producerVars>>,
         Base' = Base, Given' = Given, \A s \in Segments : Held(s)' = Held(s),
         currentFree \in Segments
  PROVE  Ring' /\ Contents' /\ Fits' /\ Waiting' /\ Scanning' /\ Claimed'
<1> USE DEF sharedVars, producerVars
<1>1. Accepted' = Accepted
  BY DEF Accepted
<1>2. \A s \in Segments : Start(s)' = Start(s)
  BY DEF Start
<1>3. Start(currentFree)' = Start(currentFree) /\ Held(currentFree)' = Held(currentFree)
  <2>1. Start(currentFree)' = Start(currentFree)
    BY DEF Start
  <2>2. Held(currentFree)' = Held(currentFree)
    <3>1. PICK s \in Segments : s = currentFree
      OBVIOUS
    <3>2. Held(s)' = Held(s)
      OBVIOUS
    <3> QED
      BY <3>1, <3>2 DEF Held, Stale
  <2> QED
    BY <2>1, <2>2
<1>4. Ring'
  BY <1>1, <1>3 DEF RInv, Ring
<1>5. Contents' /\ Fits'
  BY <1>1, <1>2 DEF RInv, Contents, Fits
<1>6. Waiting' /\ Scanning' /\ Claimed'
  BY <1>1, <1>3 DEF RInv, Waiting, Scanning, Claimed, Scanned
<1> QED
  BY <1>4, <1>5, <1>6

\* The consumer has looked, and nothing has moved.
LEMMA CanWriteSegmentRInv == ASSUME IInv, RInv, CanWriteSegment PROVE RInv'
<1> USE DEF CanWriteSegment
<1>1. /\ Base' = Base /\ Given' = Given /\ SizeToWrite' = SizeToWrite
      /\ \A s \in Segments : Held(s)' = Held(s)
  BY DEF Base, Given, GivenBack, SizeToWrite, Held, Stale, sharedVars
<1>2. Ring' /\ Contents' /\ Fits' /\ Waiting' /\ Scanning' /\ Claimed'
  BY <1>1, ConsumerKeeps, Positions DEF IInv
<1>3. Offsets'
  BY <1>1 DEF RInv, Offsets, sharedVars, producerVars
<1>4. Written' /\ Releasing' /\ InOrder'
  <2>1. Accepted' = Accepted
    BY DEF Accepted, sharedVars, producerVars
  <2> QED
    BY <2>1, RingAssumption DEF RInv, Written, Releasing, InOrder, Writable, IInv, TypeOK
<1> QED
  BY <1>2, <1>3, <1>4 DEF RInv

\* A segment that is finalized has all the consumer takes from it.
LEMMA SegmentReady ==
  ASSUME IInv, RInv, cpc = "write"
  PROVE  /\ sizeWritten + SizeToWrite <= Accepted /\ Base = currentWrite /\ Given = sizeWritten
         /\ Start(currentWrite) = sizeWritten
<1>1. Base = currentWrite /\ Given = sizeWritten
  BY DEF Base, Given, GivenBack
<1>2. currentWrite \in Segments /\ Held(currentWrite) /\ currentFree \in Segments
  BY DEF IInv, TypeOK, WriteReserved, Held
<1>3. Dist(currentWrite, currentWrite) = 0 /\ Dist(currentWrite, currentFree) \in Nat
  BY <1>2, DistFacts
<1>4. sizeWritten \in Nat /\ SizeToWrite \in Nat /\ SizeToWrite <= SegSize /\ SegSize \in Nat
      /\ sizeWritten + SizeToWrite <= Total
  BY RingAssumption DEF IInv, TypeOK, SizeToWrite, Smaller
<1>5. sizeWritten + SizeToWrite <= Accepted
  <2>1. CASE ppc = "done"
    BY <2>1, <1>4, RingAssumption DEF RInv, Waiting, Accepted
  <2>2. CASE ppc # "done" /\ ~Held(currentFree)
    <3>1. Dist(Base, currentWrite) < Dist(Base, currentFree)
          /\ Accepted = Given + Span(Dist(Base, currentFree)) + writeOffset[currentFree]
      BY <2>2, <1>2 DEF RInv, Ring, Start
    <3>2. Span(0) + SegSize <= Span(Dist(currentWrite, currentFree))
          /\ Span(0) = 0 /\ Span(Dist(currentWrite, currentFree)) \in Nat
      BY <3>1, <1>1, <1>3, SpanFacts
    <3>3. writeOffset[currentFree] \in Nat
      BY <1>2, RingAssumption DEF IInv, TypeOK
    <3> QED
      BY <3>1, <3>2, <3>3, <1>1, <1>4
  <2>3. CASE ppc # "done" /\ Held(currentFree)
    <3>1. Accepted = Given + Span(NumSegs)
      BY <2>3, <1>2 DEF RInv, Ring
    <3>2. Span(0) + SegSize <= Span(NumSegs) /\ Span(0) = 0 /\ Span(NumSegs) \in Nat
      <4>1. 0 \in Nat /\ NumSegs \in Nat /\ 0 < NumSegs
        BY RingAssumption
      <4> QED
        BY <4>1, SpanFacts
    <3> QED
      BY <3>1, <3>2, <1>1, <1>4
  <2> QED
    BY <2>1, <2>2, <2>3
<1>6. Start(currentWrite) = sizeWritten
  BY <1>1, <1>3, <1>4, SpanFacts DEF Start
<1> QED
  BY <1>1, <1>5, <1>6

\* The bytes written are the next ones of the stream.
LEMMA WriteSegmentRInv == ASSUME IInv, IInv', RInv, WriteSegment PROVE RInv'
<1> USE DEF WriteSegment
<1>0. currentWrite \in Segments /\ isFinalized[currentWrite] /\ cpc = "write"
  BY DEF IInv, TypeOK, WriteReserved
<1>1. /\ Base' = Base /\ Given' = Given /\ SizeToWrite' = SizeToWrite
      /\ UNCHANGED <<sharedVars, producerVars, currentWrite, sizeWritten>>
  BY DEF Base, Given, GivenBack, SizeToWrite
<1>2. \A s \in Segments : Held(s)' = Held(s)
  BY <1>0, <1>1 DEF Held, Stale, sharedVars
<1>3. Ring' /\ Contents' /\ Fits' /\ Waiting' /\ Scanning' /\ Claimed'
  BY <1>1, <1>2, ConsumerKeeps, Positions DEF IInv
<1>4. Offsets'
  BY <1>0, <1>1, <1>2 DEF RInv, Offsets, sharedVars, producerVars
<1>5. Accepted' = Accepted
  BY <1>1 DEF Accepted, sharedVars, producerVars
<1>6. Written' /\ Releasing' /\ InOrder'
  <2>1. CASE cpc' = "threw" /\ UNCHANGED <<placeholder, pendingStores>>
    BY <2>1, <1>1, <1>5 DEF RInv, Written, Releasing, InOrder
  <2>2. CASE /\ placeholder' = placeholder \o
                  [i \in 1 .. SizeToWrite |-> data[currentWrite][i - 1]]
             /\ cpc' = "release" /\ pendingStores' = {"flag", "offset"}
    <3> DEFINE more == [i \in 1 .. SizeToWrite |-> data[currentWrite][i - 1]]
    <3>1. /\ SizeToWrite \in Nat /\ SizeToWrite <= SegSize /\ sizeWritten \in Nat /\ SegSize \in Nat
      <4>1. SizeToWrite \in 0 .. SegSize
        BY Positions DEF IInv
      <4>2. sizeWritten \in 0 .. Total
        BY DEF IInv, TypeOK
      <4> QED
        BY <4>1, <4>2, RingAssumption
    <3>2. \A i \in 1 .. SizeToWrite : i - 1 \in Bytes
      BY <3>1 DEF Bytes
    <3>3. more \in Seq(0 .. Total) /\ Len(more) = SizeToWrite
      <4>1. \A i \in 1 .. SizeToWrite : more[i] \in 0 .. Total
        BY <3>2, <1>0 DEF IInv, TypeOK
      <4> QED
        BY <4>1, <3>1
    <3>4. placeholder \in Seq(0 .. Total) /\ Len(placeholder) = sizeWritten
      BY <1>0 DEF RInv, Written, IInv, TypeOK
    <3>5. /\ Len(placeholder') = sizeWritten + SizeToWrite
          /\ \A i \in 1 .. Len(placeholder') :
               placeholder'[i] = IF i <= sizeWritten THEN placeholder[i] ELSE more[i - sizeWritten]
      <4> HIDE DEF more
      <4>1. placeholder' = placeholder \o more
        BY <2>2 DEF more
      <4>2. Len(placeholder \o more) = Len(placeholder) + Len(more)
        BY <3>3, <3>4, ConcatProperties
      <4>3. \A i \in 1 .. Len(placeholder) + Len(more) :
              (placeholder \o more)[i] = IF i <= Len(placeholder) THEN placeholder[i]
                                                               ELSE more[i - Len(placeholder)]
        BY <3>3, <3>4, ConcatProperties
      <4> QED
        BY <4>1, <4>2, <4>3, <3>3, <3>4
    <3>6. \A i \in 1 .. SizeToWrite : more[i] = sizeWritten + i
      <4> SUFFICES ASSUME NEW i \in 1 .. SizeToWrite PROVE data[currentWrite][i - 1] = sizeWritten + i
        OBVIOUS
      <4>1. Start(currentWrite) + (i - 1) < Accepted
        BY <3>1, <1>0, SegmentReady, Positions DEF IInv
      <4>2. data[currentWrite][i - 1] = Start(currentWrite) + (i - 1) + 1
        BY <4>1, <3>2, <1>0 DEF RInv, Contents
      <4> QED
        BY <4>2, <3>1, <1>0, SegmentReady
    <3> HIDE DEF more
    <3>7. InOrder'
      <4> SUFFICES ASSUME NEW i \in 1 .. Len(placeholder') PROVE placeholder'[i] = i
        BY DEF InOrder
      <4>1. i \in Nat /\ i >= 1 /\ i <= sizeWritten + SizeToWrite
        BY <3>1, <3>5
      <4>2. CASE i <= sizeWritten
        BY <4>1, <4>2, <3>1, <3>4, <3>5 DEF RInv, InOrder
      <4>3. CASE i > sizeWritten
        BY <4>1, <4>3, <3>1, <3>5, <3>6
      <4> QED
        BY <4>1, <4>2, <4>3, <3>1
    <3>8. Written'
      BY <2>2, <1>0, <1>1, <1>5, <3>5, SegmentReady DEF RInv, Written
    <3>9. Releasing'
      BY <2>2, <1>0, <1>1 DEF Releasing, sharedVars
    <3> QED
      BY <3>7, <3>8, <3>9
  <2> QED
    BY <2>1, <2>2
<1> QED
  BY <1>3, <1>4, <1>6 DEF RInv

\* The segment had been given back by its second store.
LEMMA AdvanceWriteRInv == ASSUME IInv, RInv, AdvanceWrite PROVE RInv'
<1> USE DEF AdvanceWrite
<1>1. /\ Base' = Base /\ Given' = Given
      /\ \A s \in Segments : Held(s)' = Held(s)
      /\ Accepted' = Accepted
  BY DEF Base, Given, GivenBack, SizeToWrite, Held, Stale, sharedVars, producerVars, Accepted
<1>2. Ring' /\ Contents' /\ Fits' /\ Waiting' /\ Scanning' /\ Claimed'
  BY <1>1, ConsumerKeeps, Positions DEF IInv
<1>3. Offsets'
  BY <1>1 DEF RInv, Offsets, sharedVars, producerVars
<1>4. Written' /\ Releasing' /\ InOrder'
  BY <1>1 DEF RInv, Written, Releasing, InOrder
<1> QED
  BY <1>2, <1>3, <1>4 DEF RInv

\* The second of the two stores gives the segment back.
LEMMA GiveBack ==
  ASSUME IInv, RInv, cpc = "release", pendingStores # {},
         UNCHANGED <<data, sizeBuffered, producerVars, cpc, currentWrite, sizeWritten, placeholder>>,
         pendingStores' = {},
         isFinalized' \in [Segments -> BOOLEAN], writeOffset' \in [Segments -> 0 .. SegSize],
         \A s \in Segments \ {currentWrite} :
           isFinalized'[s] = isFinalized[s] /\ writeOffset'[s] = writeOffset[s],
         ppc # "done" => ~isFinalized'[currentWrite] /\ writeOffset'[currentWrite] = 0
  PROVE  RInv'
<1> DEFINE c == currentWrite
           f == currentFree
           k == SizeToWrite
<1> USE DEF producerVars
<1>1. /\ c \in Segments /\ f \in Segments /\ Base = c /\ Given = sizeWritten
      /\ Base' = NextSegment(c) /\ Given' = sizeWritten + k /\ c' = c /\ f' = f
      /\ Accepted' = Accepted /\ ppc' = ppc
  BY Positions DEF Base, Given, GivenBack, SizeToWrite, Accepted, IInv
<1>2. /\ sizeWritten \in Nat /\ k \in Nat /\ SegSize \in Nat /\ SegSize > 0 /\ Total \in Nat
      /\ k = Smaller(Total - sizeWritten, SegSize) /\ sizeWritten < Total
      /\ k = SegSize \/ sizeWritten + k = Total
  BY RingAssumption DEF RInv, Written, IInv, TypeOK, SizeToWrite, Smaller
<1>3. /\ Accepted \in Nat /\ Accepted <= Total /\ sizeWritten + k <= Accepted
      /\ Accepted <= Given + Span(NumSegs)
  <2>1. Len(placeholder) = sizeWritten + k /\ Len(placeholder) <= Accepted
    BY DEF RInv, Written
  <2>2. Accepted <= Total
    BY RingAssumption DEF Accepted, IInv, TypeOK, ChunkFits
  <2> QED
    BY <2>1, <2>2, Positions DEF RInv, Fits, IInv
<1>4. ppc # "done" => Held(c)
  BY <1>1 DEF RInv, Releasing, Held, Stale, IInv, TypeOK
<1>5. \A s \in Segments \ {c} : Held(s)' = Held(s)
  BY <1>1 DEF Held, Stale
<1>6. ppc # "done" => ~Held(c)'
  BY <1>1 DEF Held, Stale
<1>7. \A s \in Segments : /\ Dist(c, s) \in 0 .. NumSegs - 1 /\ (Dist(c, s) = 0 <=> s = c)
                          /\ Dist(Base', s) = IF s = c THEN NumSegs - 1 ELSE Dist(c, s) - 1
  BY <1>1, DistFacts, DistFromNext
<1>8. /\ NumSegs \in Nat /\ NumSegs >= 2 /\ NumSegs - 1 \in Nat /\ Span(NumSegs) \in Nat
      /\ Span(NumSegs) = Span(NumSegs - 1) + SegSize /\ Span(NumSegs - 1) \in Nat
  <2>1. NumSegs \in Nat /\ NumSegs >= 2 /\ NumSegs - 1 \in Nat /\ (NumSegs - 1) + 1 = NumSegs
    BY RingAssumption
  <2> QED
    BY <2>1, SpanFacts
<1>9. \A s \in Segments \ {c} :
        /\ Span(Dist(c, s)) = Span(Dist(c, s) - 1) + SegSize
        /\ Span(Dist(c, s) - 1) \in Nat /\ Span(Dist(c, s)) \in Nat
  <2> TAKE s \in Segments \ {c}
  <2>1. Dist(c, s) \in Nat /\ Dist(c, s) - 1 \in Nat /\ (Dist(c, s) - 1) + 1 = Dist(c, s)
    BY <1>7, <1>8
  <2> QED
    BY <2>1, SpanFacts
<1>10. \A s \in Segments \ {c} : k = SegSize => Start(s)' = Start(s) /\ Start(s) \in Nat
  <2> TAKE s \in Segments \ {c}
  <2>1. Start(s) = sizeWritten + Span(Dist(c, s))
    BY <1>1 DEF Start
  <2>2. Start(s)' = sizeWritten + k + Span(Dist(c, s) - 1)
    BY <1>1, <1>7 DEF Start
  <2> QED
    BY <2>1, <2>2, <1>2, <1>9
<1>11. Start(c)' = sizeWritten + k + Span(NumSegs - 1)
  BY <1>1, <1>7 DEF Start
<1>12. ppc # "done" =>
         \/ /\ f # c /\ ~Held(f)
            /\ \A s \in Segments : Held(s) <=> Dist(c, s) < Dist(c, f)
            /\ Accepted = Start(f) + writeOffset[f] /\ Start(f) = sizeWritten + Span(Dist(c, f))
         \/ /\ f = c /\ \A s \in Segments : Held(s)
            /\ Accepted = sizeWritten + Span(NumSegs)
  BY <1>1, <1>4 DEF RInv, Ring, Start
<1> HIDE DEF c, f, k
<1>13. ppc # "done" => k = SegSize
  <2> SUFFICES ASSUME ppc # "done" PROVE k = SegSize
    OBVIOUS
  <2>1. CASE f = c
    <3>1. sizeWritten + SegSize <= Total
      BY <2>1, <1>2, <1>3, <1>8, <1>12, <1>4
    <3> QED
      BY <3>1, <1>2 DEF Smaller
  <2>2. CASE f # c
    <3>1. Accepted = sizeWritten + Span(Dist(c, f)) + writeOffset[f]
      BY <2>2, <1>12
    <3>2. writeOffset[f] \in Nat
      BY <1>1, RingAssumption DEF IInv, TypeOK, f
    <3>3. Span(Dist(c, f)) = Span(Dist(c, f) - 1) + SegSize /\ Span(Dist(c, f) - 1) \in Nat
      BY <2>2, <1>1, <1>9
    <3>4. sizeWritten + SegSize <= Total
      BY <3>1, <3>2, <3>3, <1>2, <1>3
    <3> QED
      BY <3>4, <1>2 DEF Smaller
  <2> QED
    BY <2>1, <2>2
<1>14. Ring'
  <2> SUFFICES ASSUME ppc # "done"
               PROVE  /\ ~Held(currentFree)'
                      /\ \A s \in Segments : Held(s)' <=> Dist(Base', s) < Dist(Base', f)
                      /\ Accepted = Start(currentFree)' + writeOffset'[f]
    BY <1>1 DEF Ring, f
  <2>1. CASE f = c
    <3>1. ~Held(currentFree)' /\ Start(currentFree)' = Start(c)'
      BY <2>1, <1>1, <1>6 DEF f, c, Held, Stale, Start
    <3>2. \A s \in Segments : Held(s)' <=> Dist(Base', s) < NumSegs - 1
      <4> TAKE s \in Segments
      <4>1. CASE s = c
        <5>1. ~Held(s)' /\ Dist(Base', s) = NumSegs - 1
          BY <4>1, <1>1, <1>6, <1>7 DEF Held, Stale
        <5> QED
          BY <5>1, <1>8
      <4>2. CASE s # c
        <5>1. Held(s)'
          BY <4>2, <2>1, <1>4, <1>5, <1>12
        <5>2. Dist(Base', s) = Dist(c, s) - 1 /\ Dist(c, s) \in 0 .. NumSegs - 1
          BY <4>2, <1>7
        <5> QED
          BY <5>1, <5>2, <1>8
      <4> QED
        BY <4>1, <4>2
    <3>3. writeOffset'[f] = 0
      BY <2>1 DEF c
    <3>4. Accepted = Start(currentFree)' + 0
      BY <2>1, <3>1, <1>2, <1>4, <1>8, <1>11, <1>12, <1>13
    <3> QED
      BY <2>1, <3>1, <3>2, <3>3, <3>4, <1>1, <1>7
  <2>2. CASE f # c
    <3>1. ~Held(currentFree)'
      <4>1. ~Held(f)' /\ f \in Segments
        BY <2>2, <1>1, <1>5, <1>12
      <4> QED
        BY <4>1, <1>1 DEF f
    <3>2. \A s \in Segments : Held(s)' <=> Dist(Base', s) < Dist(Base', f)
      <4> TAKE s \in Segments
      <4>1. Dist(Base', f) = Dist(c, f) - 1 /\ Dist(c, f) \in 0 .. NumSegs - 1
        BY <2>2, <1>1, <1>7
      <4>2. CASE s = c
        <5>1. ~Held(s)' /\ Dist(Base', s) = NumSegs - 1
          BY <4>2, <1>1, <1>6, <1>7 DEF Held, Stale
        <5> QED
          BY <5>1, <4>1, <1>8
      <4>3. CASE s # c
        <5>1. Held(s)' <=> Dist(c, s) < Dist(c, f)
          BY <4>3, <2>2, <1>5, <1>12
        <5>2. Dist(Base', s) = Dist(c, s) - 1 /\ Dist(c, s) \in 0 .. NumSegs - 1
          BY <4>3, <1>7
        <5> QED
          BY <5>1, <5>2, <4>1, <1>8
      <4> QED
        BY <4>2, <4>3
    <3>3. Start(currentFree)' = Start(f) /\ writeOffset'[f] = writeOffset[f]
      <4>1. f \in Segments \ {c} /\ Start(f)' = Start(f)
        BY <2>2, <1>1, <1>10, <1>13
      <4> QED
        BY <4>1, <1>1 DEF f, c
    <3> QED
      BY <2>2, <3>1, <3>2, <3>3, <1>12
  <2> QED
    BY <2>1, <2>2
<1>15. Offsets'
  <2> SUFFICES ASSUME ppc # "done", NEW s \in Segments
               PROVE  /\ ~Held(s)' /\ s # f => writeOffset'[s] = 0
                      /\ Held(s)' => writeOffset'[s] = SegSize
    BY <1>1 DEF Offsets, f
  <2>1. CASE s = c
    BY <2>1, <1>6 DEF c, Held, Stale
  <2>2. CASE s # c
    BY <2>2, <1>5 DEF RInv, Offsets, c, f
  <2> QED
    BY <2>1, <2>2
<1>16. Contents'
  <2> SUFFICES ASSUME NEW s \in Segments, NEW b \in Bytes, Start(s)' + b < Accepted
               PROVE  data[s][b] = Start(s)' + b + 1
    BY <1>1 DEF Contents
  <2>1. b \in Nat
    BY <1>2 DEF Bytes
  <2>2. \E j \in Nat : Start(s)' = sizeWritten + k + j
    <3>1. CASE s = c
      BY <3>1, <1>1, <1>8, <1>11 DEF Start
    <3>2. CASE s # c
      <4>1. Start(s)' = sizeWritten + k + Span(Dist(c, s) - 1)
        BY <3>2, <1>1, <1>7 DEF Start
      <4> QED
        BY <4>1, <3>2, <1>9
    <3> QED
      BY <3>1, <3>2
  <2>3. k = SegSize
    BY <2>1, <2>2, <1>2, <1>3
  <2>4. s # c
    <3>1. SUFFICES ASSUME s = c PROVE FALSE
      OBVIOUS
    <3>2. Start(s)' = sizeWritten + k + Span(NumSegs - 1)
      BY <3>1, <1>1, <1>11 DEF Start
    <3>3. Accepted <= sizeWritten + SegSize + Span(NumSegs - 1)
      BY <1>1, <1>2, <1>3, <1>8
    <3> QED
      BY <3>2, <3>3, <2>1, <2>3, <1>2, <1>3, <1>8
  <2> QED
    BY <2>3, <2>4, <1>10 DEF RInv, Contents
<1>17. Fits'
  BY <1>1, <1>2, <1>3, <1>8 DEF Fits
<1>18. Waiting'
  BY <1>1 DEF RInv, Waiting, c, f
<1>19. Scanning'
  <2> SUFFICES ASSUME ppc \in {"scan", "scanOffset"}
               PROVE  /\ chunk + writeOffset'[f] <= Span(need)
                      /\ ~Held(currentFree)'
                      /\ Dist(Base', f) + idx <= NumSegs
                      /\ ppc = "scanOffset" => ~isFinalized'[Scanned]
    BY <1>1 DEF RInv, Scanning, Scanned, f
  <2>1. /\ idx \in Nat /\ idx <= NumSegs /\ need \in Nat /\ idx < need
        /\ chunk \in Nat /\ writeOffset[f] \in Nat
        /\ chunk + writeOffset[f] <= Span(need) /\ Span(need) \in Nat
    BY <1>1, SpanFacts, RingAssumption DEF RInv, Scanning, IInv, TypeOK, f
  <2>2. writeOffset'[f] = 0 \/ writeOffset'[f] = writeOffset[f]
    BY <1>1 DEF c, f
  <2>3. ~Held(currentFree)'
    BY <1>14, <1>1, <1>8, <1>12, <1>5, <1>6 DEF Held, Stale, f, c
  <2>4. Dist(Base', f) + idx <= NumSegs
    <3>1. CASE f = c
      <4>1. idx <= 1 /\ Dist(Base', f) = NumSegs - 1
        BY <3>1, <1>1, <1>4, <1>7 DEF RInv, Scanning, f, c
      <4> QED
        BY <4>1, <2>1, <1>8
    <3>2. CASE f # c
      <4>1. Dist(c, f) + idx <= NumSegs /\ Dist(Base', f) = Dist(c, f) - 1
            /\ Dist(c, f) \in 0 .. NumSegs - 1
        BY <3>2, <1>1, <1>7, <1>12 DEF RInv, Scanning, f, c
      <4> QED
        BY <4>1, <2>1, <1>8
    <3> QED
      BY <3>1, <3>2
  <2>5. ppc = "scanOffset" => ~isFinalized'[Scanned]
    <3>1. Scanned \in Segments
      BY <1>1, <2>1, DistWraps DEF Scanned, f
    <3> QED
      BY <3>1 DEF RInv, Scanning, c
  <2> QED
    BY <2>1, <2>2, <2>3, <2>4, <2>5
<1>20. Claimed'
  <2>1. ppc \in {"append", "copy", "finalize"} => Accepted + left <= Given' + Span(NumSegs)
    <3>1. left \in Nat
      BY RingAssumption DEF IInv, TypeOK
    <3> QED
      BY <3>1, <1>1, <1>2, <1>3, <1>8 DEF RInv, Claimed
  <2>2. ppc \in {"copy", "finalize"} => f # c
    <3>1. CASE ppc = "copy"
      <4>1. ~isFinalized[f] /\ left \in Nat /\ left > 0 /\ Accepted + left <= Given + Span(NumSegs)
        BY <3>1, RingAssumption DEF RInv, Claimed, IInv, TypeOK, CopyReserved, f
      <4>2. Accepted # sizeWritten + Span(NumSegs)
        BY <4>1, <1>1, <1>2, <1>3, <1>8
      <4> QED
        BY <4>2, <3>1, <1>12
    <3>2. CASE ppc = "finalize"
      <4>1. ~Held(f)
        BY <3>2 DEF RInv, Claimed, f
      <4> QED
        BY <4>1, <3>2, <1>4
    <3> QED
      BY <3>1, <3>2
  <2>3. ppc = "copy" => left > 0 /\ room = SegSize - writeOffset'[f]
    BY <2>2, <1>1 DEF RInv, Claimed, f, c
  <2>4. ppc = "finalize" => ~Held(currentFree)' /\ writeOffset'[f] = SegSize
    <3> SUFFICES ASSUME ppc = "finalize" PROVE ~Held(currentFree)' /\ writeOffset'[f] = SegSize
      OBVIOUS
    <3>1. ~Held(f)' /\ writeOffset'[f] = SegSize
      BY <2>2, <1>1, <1>5 DEF RInv, Claimed, f, c
    <3> QED
      BY <3>1, <1>1 DEF f
  <2> QED
    BY <2>1, <2>3, <2>4, <1>1 DEF Claimed, f
<1>21. Written' /\ InOrder'
  BY <1>1 DEF RInv, Written, InOrder, SizeToWrite
<1>22. Releasing'
  BY DEF Releasing
<1> QED
  BY <1>14, <1>15, <1>16, <1>17, <1>18, <1>19, <1>20, <1>21, <1>22 DEF RInv

\* The flag first: the segment is stale.  The flag second: it is given back.
LEMMA ReleaseFlagRInv == ASSUME IInv, IInv', RInv, ReleaseFlag PROVE RInv'
<1> USE DEF ReleaseFlag
<1>1. currentWrite \in Segments /\ isFinalized \in [Segments -> BOOLEAN] /\ currentFree \in Segments
      /\ pendingStores \subseteq {"flag", "offset"}
  BY DEF IInv, TypeOK
<1>2. CASE pendingStores = {"flag"}
  <2>1. pendingStores' = {}
    BY <1>2
  <2>2. ppc # "done" => ~isFinalized'[currentWrite] /\ writeOffset'[currentWrite] = 0
    BY <1>1, <1>2 DEF RInv, Releasing
  <2> QED
    BY <1>1, <1>2, <2>1, <2>2, GiveBack DEF IInv, TypeOK
<1>3. CASE pendingStores = {"flag", "offset"}
  <2> USE DEF producerVars
  <2>1. pendingStores' = {"offset"}
    BY <1>3
  <2>2. /\ Base' = Base /\ Given' = Given /\ Accepted' = Accepted
        /\ Held(currentWrite) /\ Held(currentWrite)'
    BY <1>3, <2>1 DEF Base, Given, GivenBack, SizeToWrite, Accepted, Held, Stale
  <2>3. \A s \in Segments : Held(s)' = Held(s) /\ Start(s)' = Start(s)
    BY <1>1, <1>3, <2>1, <2>2 DEF Held, Stale, Start
  <2>4. Held(currentFree)' = Held(currentFree) /\ Start(currentFree)' = Start(currentFree)
    <3>1. PICK s \in Segments : s = currentFree
      BY <1>1
    <3> QED
      BY <3>1, <2>3 DEF Held, Stale, Start
  <2>5. \A s \in Segments : isFinalized'[s] => isFinalized[s]
    BY <1>1
  <2>6. Ring' /\ Fits'
    BY <2>2, <2>3, <2>4 DEF RInv, Ring, Fits
  <2>7. Offsets'
    BY <1>3, <2>3 DEF RInv, Offsets
  <2>8. Contents'
    BY <2>2, <2>3 DEF RInv, Contents
  <2>9. Waiting'
    BY <1>1, <2>5 DEF RInv, Waiting
  <2>10. Scanning'
    <3>1. ppc = "scanOffset" => Scanned \in Segments
      <4>1. ppc = "scanOffset" => idx \in 0 .. NumSegs
        BY RingAssumption DEF RInv, Scanning, IInv, TypeOK
      <4> QED
        BY <4>1, <1>1, DistWraps DEF Scanned
    <3> QED
      BY <2>2, <2>4, <2>5, <3>1 DEF RInv, Scanning, Scanned
  <2>11. Claimed'
    BY <2>2, <2>4 DEF RInv, Claimed
  <2>12. Written' /\ InOrder'
    BY <2>2 DEF RInv, Written, InOrder, SizeToWrite
  <2>13. Releasing'
    BY <1>1, <2>1 DEF Releasing
  <2> QED
    BY <2>6, <2>7, <2>8, <2>9, <2>10, <2>11, <2>12, <2>13 DEF RInv
<1> QED
  BY <1>1, <1>2, <1>3

\* The offset first: nobody may look.  The offset second: it is given back.
LEMMA ReleaseOffsetRInv == ASSUME IInv, IInv', RInv, ReleaseOffset PROVE RInv'
<1> USE DEF ReleaseOffset
<1>1. currentWrite \in Segments /\ writeOffset \in [Segments -> 0 .. SegSize]
      /\ currentFree \in Segments /\ pendingStores \subseteq {"flag", "offset"}
  BY DEF IInv, TypeOK
<1>2. CASE pendingStores = {"offset"}
  <2>1. pendingStores' = {}
    BY <1>2
  <2>2. ppc # "done" => ~isFinalized'[currentWrite] /\ writeOffset'[currentWrite] = 0
    BY <1>1, <1>2 DEF RInv, Releasing
  <2> QED
    BY <1>1, <1>2, <2>1, <2>2, GiveBack DEF IInv, TypeOK
<1>3. CASE pendingStores = {"flag", "offset"}
  <2> USE DEF producerVars
  <2>1. pendingStores' = {"flag"} /\ isFinalized[currentWrite]
    BY <1>3 DEF RInv, Releasing
  <2>2. /\ Base' = Base /\ Given' = Given /\ Accepted' = Accepted
        /\ Held(currentWrite) /\ Held(currentWrite)'
    BY <1>3, <2>1 DEF Base, Given, GivenBack, SizeToWrite, Accepted, Held, Stale
  <2>3. \A s \in Segments : Held(s)' = Held(s) /\ Start(s)' = Start(s)
    BY <1>1, <1>3, <2>1, <2>2 DEF Held, Stale, Start
  <2>4. Held(currentFree)' = Held(currentFree) /\ Start(currentFree)' = Start(currentFree)
    <3>1. PICK s \in Segments : s = currentFree
      BY <1>1
    <3> QED
      BY <3>1, <2>3 DEF Held, Stale, Start
  <2>5. /\ ~Held(currentFree) => writeOffset'[currentFree] = writeOffset[currentFree]
        /\ writeOffset'[currentFree] \in 0 .. SegSize
        /\ writeOffset'[currentFree] <= writeOffset[currentFree]
    BY <1>1, <2>2, RingAssumption
  <2>6. Ring' /\ Fits'
    BY <2>2, <2>3, <2>4, <2>5 DEF RInv, Ring, Fits
  <2>7. Offsets'
    BY <1>1, <1>3, <2>1, <2>2, <2>3 DEF RInv, Offsets
  <2>8. Contents'
    BY <2>2, <2>3 DEF RInv, Contents
  <2>9. Waiting'
    BY DEF RInv, Waiting
  <2>10. Scanning'
    <3> SUFFICES ASSUME ppc \in {"scan", "scanOffset"}
                 PROVE  chunk + writeOffset'[currentFree] <= Span(need)
      BY <2>2, <2>4 DEF RInv, Scanning, Scanned
    <3>1. chunk \in Nat /\ Span(need) \in Nat /\ writeOffset[currentFree] \in Nat
          /\ chunk + writeOffset[currentFree] <= Span(need)
      BY <1>1, SpanFacts, RingAssumption DEF RInv, Scanning, IInv, TypeOK
    <3> QED
      BY <3>1, <2>5, RingAssumption
  <2>11. Claimed'
    <3>1. ppc = "copy" => ~Held(currentFree)
      <4> SUFFICES ASSUME ppc = "copy" PROVE ~Held(currentFree)
        OBVIOUS
      <4>1. left \in Nat /\ left > 0 /\ Accepted + left <= Given + Span(NumSegs)
        BY RingAssumption DEF RInv, Claimed, IInv, TypeOK
      <4>2. Accepted < Given + Span(NumSegs)
        BY <4>1, Positions, SpanFacts, RingAssumption DEF IInv
      <4> QED
        BY <4>2, RoomLeft DEF IInv
    <3> QED
      BY <2>2, <2>4, <2>5, <3>1 DEF RInv, Claimed
  <2>12. Written' /\ InOrder'
    BY <2>2 DEF RInv, Written, InOrder, SizeToWrite
  <2>13. Releasing'
    BY <1>1, <2>1 DEF Releasing
  <2> QED
    BY <2>6, <2>7, <2>8, <2>9, <2>10, <2>11, <2>12, <2>13 DEF RInv
<1> QED
  BY <1>1, <1>2, <1>3

\* Every step keeps the second invariant.
LEMMA NextRInv == IInv /\ IInv' /\ RInv /\ [Next]_vars => RInv'
<1> SUFFICES ASSUME IInv, IInv', RInv, [Next]_vars PROVE RInv'
  OBVIOUS
<1>1. CASE Producer
  BY <1>1, ReceiveRInv, LoadFlagRInv, LoadOffsetRInv, ScanFlagRInv, ScanOffsetRInv,
     BeginCopyRInv, EndCopyRInv, FinalizeRInv, EndAppendRInv, FinalizeLastRInv
  DEF Producer
<1>2. CASE Consumer
  BY <1>2, CanWriteSegmentRInv, WriteSegmentRInv, ReleaseFlagRInv, ReleaseOffsetRInv,
     AdvanceWriteRInv
  DEF Consumer
<1>3. CASE UNCHANGED vars
  <2> USE <1>3 DEF vars, sharedVars, producerVars, consumerVars
  <2>1. Accepted' = Accepted
    BY DEF Accepted
  <2>2. Waiting' /\ Scanning' /\ Claimed'
    BY <2>1 DEF RInv, Waiting, Scanning, Claimed, Scanned, Held, Stale, Base, Given,
                GivenBack, SizeToWrite
  <2> QED
    BY <2>1, <2>2, QuietKeeps DEF RInv
<1> QED
  BY <1>1, <1>2, <1>3 DEF Next

\* It holds in every reachable state.
LEMMA RingInvariance == Spec => []RInv
  BY InitRInv, Invariance, NextRInv, PTL DEF Spec

\* The placeholder receives the stream: every byte once, in order, none stale
\* (WriteSegmentToPlaceholder reads what AppendData copied).
THEOREM Ordered == Spec => []InOrder
<1>1. RInv => InOrder
  BY DEF RInv
<1> QED
  BY <1>1, RingInvariance, PTL

\* What CanAppendData found free is free until AppendData has used it.
THEOREM ClaimKept == Spec => []ClaimHolds
<1>1. IInv /\ RInv => ClaimHolds
  <2> SUFFICES ASSUME IInv, RInv, ppc = "append", left > 0, NEW i \in 0 .. NumSegs,
                      i = 0 \/ left > SegSize - writeOffset[currentFree] + (i - 1) * SegSize
               PROVE  LET s == (currentFree + i) % NumSegs
                      IN  ~isFinalized[s] /\ (i # 0 => writeOffset[s] = 0)
    BY DEF ClaimHolds
  <2> DEFINE d == Dist(Base, currentFree)
             s == (currentFree + i) % NumSegs
  <2>1. /\ left \in Nat /\ Accepted + left <= Given + Span(NumSegs) /\ Accepted \in Nat
        /\ Given \in Nat /\ Span(NumSegs) \in Nat /\ NumSegs \in Nat
        /\ currentFree \in Segments /\ Base \in Segments
        /\ writeOffset[currentFree] \in Nat /\ SegSize \in Nat
    <3>1. Accepted \in Nat /\ Given \in Nat /\ currentFree \in Segments /\ Base \in Segments
      BY Positions DEF IInv
    <3>2. left \in Nat /\ Accepted + left <= Given + Span(NumSegs)
      BY RingAssumption DEF RInv, Claimed, IInv, TypeOK
    <3>3. writeOffset[currentFree] \in Nat
      BY <3>1, RingAssumption DEF IInv, TypeOK
    <3> QED
      BY <3>1, <3>2, <3>3, SpanFacts, RingAssumption
  <2>2. /\ ~Held(currentFree)
        /\ \A t \in Segments : Held(t) <=> Dist(Base, t) < d
        /\ Accepted = Given + Span(d) + writeOffset[currentFree]
    BY <2>1, RoomLeft DEF IInv
  <2>3. d \in Nat /\ d < NumSegs /\ Span(d) \in Nat
    BY <2>1, DistFacts, SpanFacts
  <2>4. CASE i = 0
    <3>1. s = currentFree
      <4>1. currentFree \in Nat /\ currentFree < NumSegs
        BY <2>1 DEF Segments
      <4>2. s = IF currentFree + i < NumSegs THEN currentFree + i ELSE currentFree + i - NumSegs
        BY <2>1, WrapIs
      <4> QED
        BY <4>1, <4>2, <2>1, <2>4
    <3> QED
      BY <3>1, <2>2, <2>4 DEF Held
  <2>5. CASE i # 0
    <3>1. i - 1 \in Nat /\ (i - 1) + 1 = i /\ i \in Nat
      BY <2>1, <2>5
    <3>2. Span(i) = (i - 1) * SegSize + SegSize /\ Span(i) \in Nat /\ (i - 1) * SegSize \in Nat
      BY <3>1, SpanFacts, RingAssumption DEF Span
    <3>3. Span(d) + Span(i) < Span(NumSegs)
      BY <3>2, <2>1, <2>2, <2>3, <2>5
    <3>4. d + i < NumSegs
      <4> HIDE DEF d
      <4> SUFFICES ASSUME d + i >= NumSegs PROVE FALSE
        BY <3>1, <2>1, <2>3
      <4>1. Span(d + i) = Span(d) + Span(i) /\ d + i \in Nat
        BY <3>1, <2>3, SpanSum
      <4>2. d + i = NumSegs \/ Span(NumSegs) + SegSize <= Span(d + i)
        <5>1. CASE d + i # NumSegs
          <6>1. NumSegs < d + i
            BY <5>1, <4>1, <3>1, <2>1, <2>3
          <6> QED
            BY <6>1, <4>1, <2>1, SpanFacts
        <5> QED
          BY <5>1
      <4> QED
        BY <4>1, <4>2, <3>2, <3>3, <2>1, <2>3
    <3>5. s \in Segments /\ Dist(Base, s) = d + i
      BY <3>4, <2>1, DistWraps
    <3>6. ~Held(s) /\ s # currentFree
      BY <3>1, <3>5, <2>2, <2>3, <2>5
    <3> QED
      BY <3>5, <3>6 DEF RInv, Offsets, Held
  <2> QED
    BY <2>4, <2>5
<1> QED
  BY <1>1, Invariance, RingInvariance, PTL

\* What is given back was delivered, what is delivered was accepted.
Counted ==
  /\ Given <= Len(placeholder) /\ Len(placeholder) <= Accepted /\ Accepted <= Total
  /\ Given \in Nat /\ Len(placeholder) \in Nat /\ Accepted \in Nat

LEMMA Counts == IInv /\ RInv => Counted
<1> SUFFICES ASSUME IInv, RInv PROVE Counted
  OBVIOUS
<1>1. Given \in Nat /\ Accepted \in Nat /\ Len(placeholder) \in Nat
  BY Positions DEF IInv, TypeOK
<1>2. Given <= Len(placeholder)
  BY <1>1, Positions DEF RInv, Written, Given, GivenBack, IInv, TypeOK
<1>3. Accepted <= Total
  BY RingAssumption DEF Accepted, IInv, TypeOK, ChunkFits
<1> QED
  BY <1>1, <1>2, <1>3 DEF RInv, Written, Counted

\* The ring implements the bounded byte channel the transports are built on:
\* a copy is an Accept that fits, a WriteSegment a Deliver, all else stutters.
THEOREM IsChannel == Spec => ChannelSpec
<1>1. Init => Channel!ChanInit
  BY RingAssumption DEF Init, Channel!ChanInit
<1>2. IInv /\ RInv /\ RInv' /\ Counted /\ Counted' /\ [Next]_vars => [Channel!ChanNext]_(Channel!chanVars)
  <2> SUFFICES ASSUME IInv, RInv, RInv', Counted, Counted', [Next]_vars
               PROVE  \/ Channel!ChanNext
                      \/ Accepted' = Accepted /\ Len(placeholder') = Len(placeholder)
    BY DEF Accepted, Channel!chanVars
  <2>1. CASE EndCopy
    <3>1. PICK n \in Nat : Accepted' = Accepted + n
      <4>1. Accepted' = Accepted + Smaller(left, room)
        BY <2>1, RingAssumption DEF EndCopy, Accepted, IInv, TypeOK, Smaller
      <4>2. Smaller(left, room) \in Nat
        BY RingAssumption DEF IInv, TypeOK, Smaller
      <4> QED
        BY <4>1, <4>2
    <3>2. placeholder' = placeholder /\ Given' = Given
      BY <2>1 DEF EndCopy, consumerVars, Given, GivenBack, SizeToWrite
    <3>3. /\ Accepted \in Nat /\ Given \in Nat /\ Len(placeholder) \in Nat
          /\ Given <= Len(placeholder) /\ Accepted + n <= Total
      BY <3>1 DEF Counted
    <3>4. Accepted + n <= Given + Span(NumSegs)
      BY <3>1, <3>2 DEF RInv, Fits
    <3>5. Span(NumSegs) = Channel!Capacity /\ Span(NumSegs) \in Nat
      BY SpanFacts, RingAssumption DEF Span, Channel!Capacity
    <3>6. Accepted + n - Len(placeholder) <= Span(NumSegs)
      BY <3>3, <3>4, <3>5
    <3>7. CASE n = 0
      BY <3>1, <3>2, <3>3, <3>7
    <3>8. CASE n # 0
      <4>1. n \in 1 .. Total
        BY <3>3, <3>8, RingAssumption
      <4>2. Channel!Accept(n)
        BY <3>1, <3>2, <3>3, <3>5, <3>6 DEF Channel!Accept, Channel!CanAccept, Accepted
      <4> QED
        BY <4>1, <4>2 DEF Channel!ChanNext
    <3> QED
      BY <3>7, <3>8
  <2>2. CASE WriteSegment
    <3>1. Accepted' = Accepted
      BY <2>2 DEF WriteSegment, Accepted, sharedVars, producerVars
    <3>2. CASE cpc' = "threw"
      <4>1. placeholder' = placeholder
        BY <2>2, <3>2 DEF WriteSegment
      <4> QED
        BY <4>1, <3>1
    <3>3. CASE cpc' # "threw"
      <4>1. cpc = "write" /\ cpc' = "release" /\ sizeWritten' = sizeWritten
        BY <2>2, <3>3 DEF WriteSegment
      <4>2. Len(placeholder) = sizeWritten /\ sizeWritten < Total
            /\ Len(placeholder') = sizeWritten + SizeToWrite
            /\ Len(placeholder') <= Accepted
        BY <3>1, <4>1 DEF RInv, Written, SizeToWrite
      <4>3. SizeToWrite = Channel!NextDelivery
        BY <4>2, RingAssumption DEF SizeToWrite, Smaller, Channel!NextDelivery, IInv, TypeOK
      <4>4. Channel!Deliver
        BY <4>2, <4>3, <3>1 DEF Channel!Deliver, Channel!CanDeliver, Accepted
      <4> QED
        BY <4>4 DEF Channel!ChanNext
    <3> QED
      BY <3>2, <3>3
  <2>3. CASE EndAppend
    BY <2>3, RingAssumption DEF EndAppend, Accepted, IInv, TypeOK, consumerVars
  <2>4. CASE Receive
    <3>1. left = chunk /\ left' = chunk' /\ chunk \in Nat /\ chunk' \in Nat
          /\ sizeBuffered' = sizeBuffered /\ placeholder' = placeholder
      BY <2>4, RingAssumption DEF Receive, RInv, Waiting, IInv, TypeOK, sharedVars, consumerVars
    <3> QED
      BY <3>1 DEF Accepted
  <2>5. CASE \/ LoadFlag \/ LoadOffset \/ ScanFlag \/ ScanOffset \/ BeginCopy
             \/ Finalize \/ FinalizeLast
    BY <2>5
    DEF LoadFlag, LoadOffset, ScanFlag, ScanOffset, BeginCopy, Finalize, FinalizeLast,
        Accepted, sharedVars, consumerVars
  <2>6. CASE CanWriteSegment \/ ReleaseFlag \/ ReleaseOffset \/ AdvanceWrite
    BY <2>6
    DEF CanWriteSegment, ReleaseFlag, ReleaseOffset, AdvanceWrite, Accepted,
        sharedVars, producerVars
  <2>7. CASE UNCHANGED vars
    BY <2>7 DEF vars, Accepted, sharedVars, producerVars, consumerVars
  <2> QED
    BY <2>1, <2>2, <2>3, <2>4, <2>5, <2>6, <2>7 DEF Next, Producer, Consumer
<1> QED
  BY <1>1, <1>2, Counts, Invariance, RingInvariance, PTL DEF Spec, ChannelSpec, Channel!ChanSpec
-----------------------------------------------------------------------------
(* The third invariant, for what the threads wait on: the room the producer*)
(* wants, and the data the consumer wants, come to be.                     *)

\* Chunks are no longer than the transports make them, and there is one more
\* as long as the stream has not ended.
ChunkLimits ==
  /\ chunk <= MaxChunk
  /\ ppc = "idle" => sizeBuffered < Total

\* The exception for a segment "already finalized" is never thrown.
FinalizedOnce == ppc # "threwFinalized"

\* A full segment does not stay the producer's.
NotFull ==
  ppc \notin {"copy", "finalize"} /\ ~Held(currentFree) => writeOffset[currentFree] < SegSize

\* Once the stream has ended, all of it that is not written is finalized.
Drained ==
  ppc = "done" =>
    \A s \in Segments :
      Start(s) < Total => \/ isFinalized[s]
                          \/ s = currentWrite /\ cpc = "release" /\ pendingStores # {}

WInv == ChunkLimits /\ FinalizedOnce /\ NotFull /\ Drained

LEMMA InitWInv == Init => WInv
  BY RingAssumption
  DEF Init, WInv, ChunkLimits, FinalizedOnce, NotFull, Drained, Segments

\* The next chunk is one the stream still has.
LEMMA ProducerLimits == ASSUME IInv, RInv, WInv, Producer PROVE ChunkLimits'
<1>1. CASE Receive
  BY <1>1, RingAssumption DEF Receive, WInv, ChunkLimits, Smaller, sharedVars, IInv, TypeOK
<1>2. CASE EndAppend
  <2>1. sizeBuffered + chunk \in 0 .. Total
    BY RingAssumption DEF IInv, TypeOK, ChunkFits
  <2> QED
    BY <1>2, <2>1, RingAssumption DEF EndAppend, ChunkLimits
<1>3. CASE LoadFlag \/ LoadOffset \/ BeginCopy \/ EndCopy \/ Finalize \/ FinalizeLast
  BY <1>3 DEF LoadFlag, LoadOffset, BeginCopy, EndCopy, Finalize, FinalizeLast,
              WInv, ChunkLimits, sharedVars
<1>4. CASE ScanFlag \/ ScanOffset
  BY <1>4 DEF ScanFlag, ScanOffset, NextScan, WInv, ChunkLimits, sharedVars
<1> QED
  BY <1>1, <1>2, <1>3, <1>4 DEF Producer

\* The claim covers the segment an iteration begins with.
LEMMA ProducerOnce == ASSUME IInv, RInv, WInv, Producer PROVE FinalizedOnce'
<1>1. CASE BeginCopy
  <2>1. left \in Nat /\ left > 0 /\ Accepted + left <= Given + Span(NumSegs) /\ ppc # "done"
    BY <1>1, RingAssumption DEF BeginCopy, RInv, Claimed, IInv, TypeOK
  <2>2. Accepted < Given + Span(NumSegs)
    BY <2>1, Positions, SpanFacts, RingAssumption DEF IInv
  <2>3. ~isFinalized[currentFree]
    BY <2>1, <2>2, RoomLeft DEF IInv, Held
  <2> QED
    BY <1>1, <2>3 DEF BeginCopy, FinalizedOnce
<1>2. CASE Receive \/ LoadFlag \/ LoadOffset \/ EndCopy \/ Finalize \/ EndAppend \/ FinalizeLast
  BY <1>2 DEF Receive, LoadFlag, LoadOffset, EndCopy, Finalize, EndAppend, FinalizeLast, FinalizedOnce
<1>3. CASE ScanFlag \/ ScanOffset
  BY <1>3 DEF ScanFlag, ScanOffset, NextScan, FinalizedOnce
<1> QED
  BY <1>1, <1>2, <1>3 DEF Producer

\* A copy that fills the segment finalizes it, and the next one is empty.
LEMMA ProducerNotFull ==
  ASSUME IInv, RInv, WInv, Producer, FinalizedOnce' PROVE NotFull'
<1>1. currentFree \in Segments /\ writeOffset \in [Segments -> 0 .. SegSize]
      /\ isFinalized \in [Segments -> BOOLEAN] /\ SegSize \in Nat /\ SegSize > 0
  BY RingAssumption DEF IInv, TypeOK
<1>2. CASE Receive \/ LoadFlag \/ LoadOffset \/ ScanFlag \/ ScanOffset \/ EndAppend
  <2>1. /\ ppc \notin {"copy", "finalize"}
        /\ UNCHANGED <<isFinalized, writeOffset, currentFree, cpc, currentWrite, pendingStores>>
    BY <1>2 DEF Receive, LoadFlag, LoadOffset, ScanFlag, ScanOffset, NextScan, EndAppend,
                sharedVars, consumerVars
  <2> QED
    BY <2>1 DEF WInv, NotFull, Held, Stale
<1>3. CASE BeginCopy
  BY <1>3 DEF BeginCopy, NotFull, FinalizedOnce
<1>4. CASE EndCopy
  <2> SUFFICES ASSUME ppc' # "finalize" PROVE writeOffset'[currentFree] < SegSize
    BY <1>4 DEF EndCopy, NotFull
  <2>1. left < room /\ left \in Nat /\ room \in Nat /\ writeOffset[currentFree] + room <= SegSize
        /\ writeOffset[currentFree] \in Nat
    BY <1>1, <1>4 DEF EndCopy, IInv, TypeOK, CopyReserved
  <2>2. writeOffset'[currentFree] = writeOffset[currentFree] + left
    BY <1>1, <1>4, <2>1 DEF EndCopy, Smaller
  <2> QED
    BY <2>1, <2>2, <1>1
<1>5. CASE Finalize
  <2> DEFINE n == NextSegment(currentFree)
  <2>1. n \in Segments /\ n # currentFree /\ currentFree' = n /\ ppc = "finalize"
    BY <1>1, <1>5, NextIs, NextSegmentType, RingAssumption DEF Finalize, Segments
  <2>2. ~Held(n) => writeOffset[n] = 0
    BY <2>1 DEF RInv, Offsets
  <2>3. Held(currentFree)' <=> Held(n)
    BY <2>1, <1>1, <1>5 DEF Finalize, consumerVars, Held, Stale
  <2>4. writeOffset'[currentFree'] = writeOffset[n]
    BY <2>1, <1>5 DEF Finalize
  <2> QED
    BY <2>2, <2>3, <2>4, <1>1 DEF NotFull
<1>6. CASE FinalizeLast
  BY <1>1, <1>6 DEF FinalizeLast, NotFull, Held
<1> QED
  BY <1>2, <1>3, <1>4, <1>5, <1>6 DEF Producer

\* With the last segment finalized, so is all that has been accepted.
LEMMA ProducerDrained == ASSUME IInv, RInv, Producer PROVE Drained'
<1>1. CASE FinalizeLast
  <2>1. /\ ppc = "last" /\ currentFree \in Segments /\ isFinalized \in [Segments -> BOOLEAN]
        /\ isFinalized' = [isFinalized EXCEPT ![currentFree] = TRUE]
        /\ UNCHANGED <<writeOffset, currentFree, cpc, currentWrite, pendingStores, sizeWritten>>
    BY <1>1 DEF FinalizeLast, consumerVars, IInv, TypeOK
  <2>2. \A s \in Segments : Start(s)' = Start(s)
    BY <2>1 DEF Start, Base, Given, GivenBack, SizeToWrite
  <2>3. Accepted = Total
    BY <2>1, RingAssumption DEF RInv, Waiting, Accepted
  <2> SUFFICES ASSUME NEW s \in Segments, Start(s) < Total PROVE isFinalized[s] \/ Stale(s) \/ s = currentFree
    BY <2>1, <2>2 DEF Drained, Stale
  <2>4. CASE Held(currentFree)
    BY <2>1, <2>4 DEF RInv, Ring, Held
  <2>5. CASE ~Held(currentFree)
    <3> DEFINE d == Dist(Base, s)
               e == Dist(Base, currentFree)
    <3>1. /\ Held(s) <=> d < e
          /\ Total = Start(currentFree) + writeOffset[currentFree]
      BY <2>1, <2>3, <2>5 DEF RInv, Ring
    <3>2. d \in Nat /\ e \in Nat /\ (d = e => s = currentFree)
      BY Positions, DistFacts, DistApart DEF IInv
    <3>3. CASE e < d
      <4>1. Span(e) + SegSize <= Span(d) /\ Span(e) \in Nat /\ Span(d) \in Nat
        BY <3>2, <3>3, SpanFacts
      <4>2. Given \in Nat /\ SegSize \in Nat /\ writeOffset[currentFree] \in 0 .. SegSize
        BY <2>1, Positions, RingAssumption DEF IInv, TypeOK
      <4>3. Start(s) = Given + Span(d) /\ Start(currentFree) = Given + Span(e)
        BY DEF Start
      <4> HIDE DEF d, e
      <4> QED
        BY <4>1, <4>2, <4>3, <3>1
    <3>4. d < e \/ d = e \/ e < d
      <4> HIDE DEF d, e
      <4> QED
        BY <3>2
    <3> QED
      BY <3>1, <3>2, <3>3, <3>4 DEF Held
  <2> QED
    BY <2>4, <2>5
<1>2. CASE Receive \/ LoadFlag \/ LoadOffset \/ BeginCopy \/ EndCopy \/ Finalize \/ EndAppend
  BY <1>2 DEF Receive, LoadFlag, LoadOffset, BeginCopy, EndCopy, Finalize, EndAppend, Drained
<1>3. CASE ScanFlag \/ ScanOffset
  BY <1>3 DEF ScanFlag, ScanOffset, NextScan, Drained
<1> QED
  BY <1>1, <1>2, <1>3 DEF Producer

\* A segment that has been given back is at the end of the stream, or past it.
LEMMA GiveBackDrained ==
  ASSUME IInv, RInv, WInv, cpc = "release", pendingStores # {},
         UNCHANGED <<producerVars, cpc, currentWrite, sizeWritten>>, pendingStores' = {},
         \A s \in Segments \ {currentWrite} : isFinalized'[s] = isFinalized[s]
  PROVE  Drained'
<1> SUFFICES ASSUME ppc = "done", NEW s \in Segments, Start(s)' < Total PROVE isFinalized'[s]
  BY DEF Drained, producerVars
<1> DEFINE c == currentWrite
           k == SizeToWrite
<1>1. /\ c \in Segments /\ Base = c /\ Given = sizeWritten
      /\ Base' = NextSegment(c) /\ Given' = sizeWritten + k
  BY DEF Base, Given, GivenBack, SizeToWrite, IInv, TypeOK
<1>2. /\ sizeWritten \in Nat /\ k \in Nat /\ SegSize \in Nat /\ Total \in Nat
      /\ k = SegSize \/ sizeWritten + k = Total
  BY RingAssumption DEF RInv, Written, IInv, TypeOK, SizeToWrite, Smaller
<1>3. Total <= sizeWritten + Span(NumSegs)
  <2>1. Accepted = Total
    BY RingAssumption DEF RInv, Waiting, Accepted
  <2> QED
    BY <2>1, <1>1 DEF RInv, Fits
<1>4. /\ Dist(c, s) \in 0 .. NumSegs - 1 /\ (Dist(c, s) = 0 <=> s = c)
      /\ Dist(Base', s) = IF s = c THEN NumSegs - 1 ELSE Dist(c, s) - 1
  BY <1>1, DistFacts, DistFromNext
<1>5. PICK e \in Nat : e = Dist(Base', s)
  BY <1>4, RingAssumption
<1>6. Start(s)' = sizeWritten + k + Span(e) /\ Span(e) \in Nat /\ Span(e + 1) = Span(e) + SegSize
  BY <1>1, <1>5, SpanFacts DEF Start
<1>7. k = SegSize
  <2> HIDE DEF k
  <2> QED
    BY <1>2, <1>6
<1>8. sizeWritten + Span(e + 1) < Total
  <2> HIDE DEF k
  <2> QED
    BY <1>2, <1>6, <1>7
<1>9. s # c
  <2> SUFFICES ASSUME s = c PROVE FALSE
    OBVIOUS
  <2>1. e + 1 = NumSegs
    BY <1>4, <1>5, RingAssumption
  <2>2. Span(NumSegs) \in Nat
    BY SpanFacts, RingAssumption
  <2> QED
    BY <2>1, <2>2, <1>2, <1>3, <1>8
<1>10. Start(s) = sizeWritten + Span(e + 1)
  <2>1. Dist(c, s) = e + 1
    BY <1>4, <1>5, <1>9, RingAssumption
  <2> QED
    BY <2>1, <1>1 DEF Start
<1> QED
  BY <1>8, <1>9, <1>10 DEF WInv, Drained

\* The consumer gives back what it has written, and nothing else.
LEMMA ConsumerWInv == ASSUME IInv, RInv, WInv, Consumer PROVE WInv'
<1>1. /\ currentFree \in Segments /\ currentWrite \in Segments /\ SegSize \in Nat /\ SegSize > 0
      /\ writeOffset \in [Segments -> 0 .. SegSize] /\ isFinalized \in [Segments -> BOOLEAN]
      /\ pendingStores \subseteq {"flag", "offset"}
  BY RingAssumption DEF IInv, TypeOK
<1>2. UNCHANGED producerVars /\ UNCHANGED sizeBuffered
  BY DEF Consumer, CanWriteSegment, WriteSegment, ReleaseFlag, ReleaseOffset, AdvanceWrite, sharedVars
<1>3. ChunkLimits' /\ FinalizedOnce'
  BY <1>2 DEF WInv, ChunkLimits, FinalizedOnce, producerVars
<1>4. CASE CanWriteSegment \/ WriteSegment
  <2>1. /\ UNCHANGED <<sharedVars, producerVars, currentWrite, sizeWritten>>
        /\ cpc' = "release" => isFinalized[currentWrite]
        /\ cpc \in {"poll", "write"}
    BY <1>4 DEF CanWriteSegment, WriteSegment, IInv, WriteReserved
  <2>2. \A s \in Segments : Start(s)' = Start(s)
    <3>1. Base' = Base /\ Given' = Given
      BY <1>4 DEF CanWriteSegment, WriteSegment, Base, Given, GivenBack, SizeToWrite
    <3> QED
      BY <3>1 DEF Start
  <2>3. NotFull'
    BY <2>1 DEF WInv, NotFull, Held, Stale, sharedVars, producerVars
  <2>4. Drained'
    BY <2>1, <2>2 DEF WInv, Drained, sharedVars, producerVars
  <2> QED
    BY <1>3, <2>3, <2>4 DEF WInv
<1>5. CASE ReleaseFlag \/ ReleaseOffset
  <2>1. /\ cpc = "release" /\ cpc' = "release" /\ pendingStores # {}
        /\ UNCHANGED <<currentFree, currentWrite, sizeWritten>>
        /\ \A s \in Segments \ {currentWrite} :
             isFinalized'[s] = isFinalized[s] /\ writeOffset'[s] = writeOffset[s]
    BY <1>1, <1>5 DEF ReleaseFlag, ReleaseOffset, producerVars
  <2>2. NotFull'
    <3>1. CASE currentFree # currentWrite
      BY <1>1, <1>2, <2>1, <3>1 DEF WInv, NotFull, Held, Stale, producerVars
    <3>2. CASE currentFree = currentWrite /\ ReleaseFlag
      <4>1. "offset" \in pendingStores => Held(currentFree)'
        BY <2>1, <3>2 DEF ReleaseFlag, Held, Stale
      <4>2. "offset" \notin pendingStores => writeOffset'[currentFree'] = 0
        BY <2>1, <3>2 DEF ReleaseFlag, RInv, Releasing
      <4> QED
        BY <4>1, <4>2, <1>1 DEF NotFull
    <3>3. CASE currentFree = currentWrite /\ ReleaseOffset
      <4>1. writeOffset'[currentFree'] = 0
        BY <1>1, <2>1, <3>3 DEF ReleaseOffset
      <4> QED
        BY <4>1, <1>1 DEF NotFull
    <3> QED
      BY <1>5, <3>1, <3>2, <3>3
  <2>3. Drained'
    <3>1. CASE pendingStores' = {}
      BY <1>2, <2>1, <3>1, GiveBackDrained
    <3>2. CASE pendingStores' # {}
      <4>1. \A s \in Segments : Start(s)' = Start(s)
        BY <2>1, <3>2 DEF Start, Base, Given, GivenBack, SizeToWrite
      <4> QED
        BY <1>2, <2>1, <3>2, <4>1 DEF WInv, Drained, producerVars
    <3> QED
      BY <3>1, <3>2
  <2> QED
    BY <1>3, <2>2, <2>3 DEF WInv
<1>6. CASE AdvanceWrite
  <2>1. UNCHANGED <<sharedVars, producerVars>> /\ pendingStores = {} /\ cpc' = "poll"
    BY <1>6 DEF AdvanceWrite
  <2>2. \A s \in Segments : Start(s)' = Start(s)
    BY <1>6 DEF AdvanceWrite, Start, Base, Given, GivenBack, SizeToWrite
  <2>3. NotFull'
    BY <2>1 DEF WInv, NotFull, Held, Stale, sharedVars, producerVars
  <2>4. Drained'
    BY <2>1, <2>2 DEF WInv, Drained, sharedVars, producerVars
  <2> QED
    BY <1>3, <2>3, <2>4 DEF WInv
<1> QED
  BY <1>4, <1>5, <1>6 DEF Consumer

\* Every step keeps the third invariant.
LEMMA NextWInv == IInv /\ RInv /\ WInv /\ [Next]_vars => WInv'
<1> SUFFICES ASSUME IInv, RInv, WInv, [Next]_vars PROVE WInv'
  OBVIOUS
<1>1. CASE Producer
  BY <1>1, ProducerLimits, ProducerOnce, ProducerNotFull, ProducerDrained DEF WInv
<1>2. CASE Consumer
  BY <1>2, ConsumerWInv
<1>3. CASE UNCHANGED vars
  BY <1>3 DEF vars, sharedVars, producerVars, consumerVars, WInv, ChunkLimits, FinalizedOnce,
              NotFull, Drained, Held, Stale, Start, Base, Given, GivenBack, SizeToWrite
<1> QED
  BY <1>1, <1>2, <1>3 DEF Next

LEMMA WaitInvariance == Spec => []WInv
  BY InitWInv, Invariance, RingInvariance, NextWInv, PTL DEF Spec

\* AppendData never finds a segment "already finalized": the exception for it
\* is dead code, though the flag is loaded again after the check.
THEOREM NeverFinalizedTwice == Spec => []FinalizedOnce
<1>1. WInv => FinalizedOnce
  BY DEF WInv
<1> QED
  BY <1>1, WaitInvariance, PTL

\* The longest chunk fits the ring when its first segment is almost full.
ChunksFitRing == MaxChunk <= (NumSegs - 1) * SegSize + 1

\* The consumer polls for a segment nobody has finalized.
ConsumerWaits == cpc = "poll" /\ sizeWritten < Total /\ ~Writable

\* The producer is not at a point where it has ended or must start over.
ProducerGoesOn ==
  /\ ppc # "done"
  /\ ppc = "idle"       => sizeBuffered < Total
  /\ ppc = "calc"       => ~isFinalized[currentFree]
  /\ ppc = "room"       => SegmentsRequired(chunk, SegSize - writeOffset[currentFree]) <= NumSegs
  /\ ppc = "scan"       => ~isFinalized[Scanned]
  /\ ppc = "scanOffset" => writeOffset[Scanned] = 0

\* Never do both threads wait for each other, nor does one wait for a thread
\* that has ended: the poll of one succeeds or the other goes on.
OneGoesOn == ChunksFitRing /\ ConsumerWaits => ProducerGoesOn

\* A chunk within that limit needs no more segments than there are.
LEMMA NeedFits ==
  ASSUME NEW size \in Nat, NEW remaining \in 1 .. SegSize, size <= MaxChunk, ChunksFitRing
  PROVE  SegmentsRequired(size, remaining) <= NumSegs
<1>1. CASE size <= remaining
  BY <1>1, RingAssumption DEF SegmentsRequired
<1>2. CASE size > remaining
  <2> DEFINE x == size - remaining + SegSize - 1
             q == x \div SegSize
             full == (NumSegs - 1) * SegSize
  <2>1. x \in Nat /\ SegSize \in Nat \ {0} /\ NumSegs - 1 \in Nat /\ full \in Nat
    BY <1>2, RingAssumption
  <2>2. q \in Nat /\ q * SegSize <= x
    BY <2>1
  <2>3. x < full + SegSize
    <3> HIDE DEF full
    <3>1. MaxChunk <= full + 1
      BY DEF ChunksFitRing, full
    <3> QED
      BY <2>1, <3>1, RingAssumption
  <2>4. full + SegSize = NumSegs * SegSize
    BY RingAssumption
  <2>5. q < NumSegs
    <3> HIDE DEF q, x, full
    <3>1. q * SegSize < NumSegs * SegSize
      <4>1. PICK a \in Nat, b \in Nat : a = q * SegSize /\ b = NumSegs * SegSize
        BY <2>1, <2>2, RingAssumption
      <4> QED
        BY <4>1, <2>1, <2>2, <2>3, <2>4
    <3> QED
      BY <3>1, <2>1, <2>2, RingAssumption
  <2>6. SegmentsRequired(size, remaining) = 1 + q
    BY <1>2, RingAssumption DEF SegmentsRequired
  <2> QED
    BY <2>2, <2>5, <2>6, RingAssumption
<1> QED
  BY <1>1, <1>2, RingAssumption

\* A consumer that waits has emptied the ring.
LEMMA WaitsWhenEmpty ==
  ASSUME IInv, RInv, WInv, ConsumerWaits
  PROVE  /\ ppc # "done" /\ Base = currentFree
         /\ \A s \in Segments : ~Held(s) /\ (s # currentFree => writeOffset[s] = 0)
<1>1. /\ Base = currentWrite /\ Given = sizeWritten /\ ~Held(currentWrite) /\ sizeWritten < Total
      /\ currentWrite \in Segments /\ currentFree \in Segments /\ sizeWritten \in Nat
  BY RingAssumption DEF ConsumerWaits, Writable, Base, Given, GivenBack, Held, Stale, IInv, TypeOK
<1>2. Start(currentWrite) = sizeWritten
  <2>1. Dist(currentWrite, currentWrite) = 0
    BY <1>1, DistFacts
  <2> QED
    BY <1>1, <2>1, SpanFacts DEF Start
<1>3. ppc # "done"
  BY <1>1, <1>2 DEF ConsumerWaits, WInv, Drained, Held
<1>4. \A s \in Segments : Held(s) <=> Dist(Base, s) < Dist(Base, currentFree)
  BY <1>1, <1>3 DEF RInv, Ring
<1>5. Dist(Base, currentFree) = 0 /\ \A s \in Segments : Dist(Base, s) \in Nat
  <2>1. /\ Dist(Base, Base) = 0 /\ Dist(Base, currentFree) \in Nat
        /\ \A s \in Segments : Dist(Base, s) \in Nat
    BY <1>1, DistFacts, RingAssumption
  <2> QED
    BY <2>1, <1>1, <1>4
<1>6. Base = currentFree
  BY <1>1, <1>5, DistFacts
<1>7. \A s \in Segments : ~Held(s)
  BY <1>4, <1>5
<1> QED
  BY <1>3, <1>6, <1>7 DEF RInv, Offsets

\* No deadlock between the threads of a transfer, and no retrying for ever of
\* the one (CanAppendData, CanWriteSegmentToPlaceholder) while the other is
\* idle, for every ring and every stream: the part of TransferEnds that does
\* not depend on fairness.
THEOREM NeverBothWait == Spec => []OneGoesOn
<1>1. IInv /\ RInv /\ WInv => OneGoesOn
  <2> SUFFICES ASSUME IInv, RInv, WInv, ChunksFitRing, ConsumerWaits PROVE ProducerGoesOn
    BY DEF OneGoesOn
  <2>1. /\ ppc # "done" /\ Base = currentFree /\ currentFree \in Segments
        /\ \A s \in Segments : ~isFinalized[s] /\ (s # currentFree => writeOffset[s] = 0)
    BY WaitsWhenEmpty DEF Held, IInv, TypeOK
  <2>2. ppc = "idle" => sizeBuffered < Total
    BY DEF WInv, ChunkLimits
  <2>3. ppc = "room" => SegmentsRequired(chunk, SegSize - writeOffset[currentFree]) <= NumSegs
    <3> SUFFICES ASSUME ppc = "room"
                 PROVE  SegmentsRequired(chunk, SegSize - writeOffset[currentFree]) <= NumSegs
      OBVIOUS
    <3>1. writeOffset[currentFree] \in 0 .. SegSize /\ chunk \in Nat /\ SegSize \in Nat
      BY <2>1, RingAssumption DEF IInv, TypeOK
    <3>2. writeOffset[currentFree] < SegSize /\ chunk <= MaxChunk
      BY <2>1, WaitsWhenEmpty DEF WInv, NotFull, ChunkLimits
    <3>3. SegSize - writeOffset[currentFree] \in 1 .. SegSize
      BY <3>1, <3>2
    <3> QED
      BY <3>1, <3>2, <3>3, NeedFits
  <2>4. ppc \in {"scan", "scanOffset"} => idx \in 0 .. NumSegs /\ idx < NumSegs /\ Scanned \in Segments
    <3>1. ppc \in {"scan", "scanOffset"} => idx \in 0 .. NumSegs /\ idx < NumSegs
      BY RingAssumption DEF RInv, Scanning, IInv, TypeOK
    <3> QED
      BY <2>1, <3>1, DistWraps DEF Scanned
  <2>5. ppc = "scanOffset" => Scanned # currentFree
    <3> SUFFICES ASSUME ppc = "scanOffset", Scanned = currentFree PROVE FALSE
      OBVIOUS
    <3>1. Dist(currentFree, currentFree) = 0
      BY <2>1, DistFacts
    <3>2. idx >= 1 /\ Dist(currentFree, Scanned) = 0 + idx
      BY <2>1, <2>4, <3>1, DistWraps, RingAssumption DEF RInv, Scanning, Scanned
    <3> QED
      BY <3>1, <3>2, <2>4
  <2> QED
    BY <2>1, <2>2, <2>3, <2>4, <2>5 DEF ProducerGoesOn
<1> QED
  BY <1>1, Invariance, RingInvariance, WaitInvariance, PTL
-----------------------------------------------------------------------------
(* The exception of IsSizeAvailable: when it is thrown, and what removes it.*)

\* The segment whose offset is looked at is not the producer's own.
LEMMA ScannedAhead ==
  ASSUME IInv, RInv, ppc = "scanOffset"
  PROVE  Scanned \in Segments /\ Scanned # currentFree /\ ~isFinalized[Scanned]
<1>1. /\ idx \in 0 .. NumSegs /\ idx >= 1 /\ idx < NumSegs /\ currentFree \in Segments
      /\ ~isFinalized[Scanned]
  BY RingAssumption DEF RInv, Scanning, IInv, TypeOK
<1>2. Scanned \in Segments
  BY <1>1, DistWraps DEF Scanned
<1>3. Dist(currentFree, currentFree) = 0
  BY <1>1, DistFacts
<1>4. Dist(currentFree, Scanned) = 0 + idx
  BY <1>1, <1>3, DistWraps, RingAssumption DEF Scanned
<1> QED
  BY <1>1, <1>2, <1>3, <1>4

\* A look at a stale offset finds the one segment that the consumer is
\* giving back, between its two stores.
LEMMA StaleIsBetweenStores ==
  ASSUME IInv, RInv, ppc = "scanOffset", writeOffset[Scanned] # 0
  PROVE  Scanned = currentWrite /\ cpc = "release" /\ pendingStores = {"offset"}
<1>1. Scanned \in Segments /\ Scanned # currentFree /\ ~isFinalized[Scanned]
  BY ScannedAhead
<1>2. Held(Scanned)
  BY <1>1 DEF RInv, Offsets
<1>3. Scanned = currentWrite /\ cpc = "release" /\ "offset" \in pendingStores
  BY <1>1, <1>2 DEF Held, Stale
<1>4. "flag" \notin pendingStores
  BY <1>1, <1>3 DEF RInv, Releasing
<1> QED
  BY <1>3, <1>4 DEF IInv, TypeOK

\* The exception is thrown at no other time.
LEMMA ThrowIsBetweenStores ==
  ASSUME IInv, RInv, [Next]_vars, ppc' = "threwOffset", ppc # "threwOffset"
  PROVE  Scanned = currentWrite /\ cpc = "release" /\ pendingStores = {"offset"}
<1>1. ScanOffset
  BY DEF Next, Producer, Consumer, vars, producerVars, Receive, LoadFlag, LoadOffset, ScanFlag,
         NextScan, BeginCopy, EndCopy, Finalize, EndAppend, FinalizeLast, CanWriteSegment,
         WriteSegment, ReleaseFlag, ReleaseOffset, AdvanceWrite
<1>2. ppc = "scanOffset" /\ writeOffset[Scanned] # 0
  BY <1>1 DEF ScanOffset, NextScan
<1> QED
  BY <1>2, StaleIsBetweenStores

\* "Unexpected non-zero write offset" is thrown only of the segment that
\* WriteSegmentToPlaceholder is giving back, and only when its store to
\* isFinalized is seen and the one to writeOffset is not.
ThrownBetweenStores ==
  [][ppc' = "threwOffset" /\ ppc # "threwOffset" =>
       Scanned = currentWrite /\ cpc = "release" /\ pendingStores = {"offset"}]_vars

\* The race that the run ring_stale_offset finds is the only cause of the
\* exception, for every ring, stream and interleaving.
THEOREM OnlyThrownBetweenStores == Spec => ThrownBetweenStores
<1>1. IInv /\ RInv /\ [Next]_vars =>
        [ppc' = "threwOffset" /\ ppc # "threwOffset" =>
           Scanned = currentWrite /\ cpc = "release" /\ pendingStores = {"offset"}]_vars
  BY ThrowIsBetweenStores
<1> QED
  BY <1>1, Invariance, RingInvariance, PTL DEF Spec, ThrownBetweenStores

\* WriteSegmentToPlaceholder with its two stores swapped: the flag is cleared
\* once the offset is 0.
OffsetFirst == ReleaseFlag => "offset" \notin pendingStores

SwappedSpec == Init /\ [][Next /\ OffsetFirst]_vars

\* A segment whose flag is cleared has its offset reset.
StoresInOrder == cpc = "release" /\ "offset" \in pendingStores => "flag" \in pendingStores

LEMMA StoresStayInOrder ==
  StoresInOrder /\ [Next /\ OffsetFirst]_vars => StoresInOrder'
<1> SUFFICES ASSUME StoresInOrder, [Next /\ OffsetFirst]_vars PROVE StoresInOrder'
  OBVIOUS
<1>1. CASE Producer
  BY <1>1 DEF Producer, consumerVars, Receive, LoadFlag, LoadOffset, ScanFlag, ScanOffset,
              BeginCopy, EndCopy, Finalize, EndAppend, FinalizeLast, StoresInOrder
<1>2. CASE Consumer /\ OffsetFirst
  BY <1>2 DEF Consumer, OffsetFirst, CanWriteSegment, WriteSegment, ReleaseFlag, ReleaseOffset,
              AdvanceWrite, StoresInOrder
<1>3. CASE UNCHANGED vars
  BY <1>3 DEF vars, consumerVars, StoresInOrder
<1> QED
  BY <1>1, <1>2, <1>3 DEF Next

\* With the two stores in that order the exception is never thrown: nothing
\* but their order has to change in WriteSegmentToPlaceholder.
THEOREM OffsetStoredFirst == SwappedSpec => []NoStaleOffset
<1>1. Init => StoresInOrder /\ NoStaleOffset
  BY DEF Init, StoresInOrder, NoStaleOffset
<1>2. SwappedSpec => []StoresInOrder
  BY <1>1, StoresStayInOrder, PTL DEF SwappedSpec
<1>3. IInv /\ RInv /\ StoresInOrder /\ NoStaleOffset /\ [Next]_vars => NoStaleOffset'
  BY ThrowIsBetweenStores DEF StoresInOrder, NoStaleOffset
<1>4. SwappedSpec => Spec
  BY PTL DEF SwappedSpec, Spec
<1> QED
  BY <1>1, <1>2, <1>3, <1>4, Invariance, RingInvariance, PTL DEF SwappedSpec
=============================================================================
