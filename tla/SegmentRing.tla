---------------------------- MODULE SegmentRing ----------------------------
(***************************************************************************)
(* BufferedPlaceholderWriter (source/data/buffered_placeholder_writer.cpp):*)
(* a ring of NumSegs segments of SegSize bytes.  The download thread       *)
(* (producer) appends chunks, the NAND thread (consumer) writes finalized  *)
(* segments to the placeholder.  They share isFinalized, an atomic, and    *)
(* writeOffset, which is not: one action per access of shared memory.      *)
(***************************************************************************)
EXTENDS Integers, Sequences

CONSTANTS
  Total,      \* m_totalDataSize
  SegSize,    \* BUFFER_SEGMENT_DATA_SIZE
  NumSegs,    \* NUM_BUFFER_SEGMENTS
  MaxChunk    \* the longest buffer the transport hands to AppendData

ASSUME RingAssumption ==
  /\ Total    \in Nat \ {0}
  /\ SegSize  \in Nat \ {0}
  /\ NumSegs  \in Nat /\ NumSegs >= 2
  /\ MaxChunk \in Nat \ {0}

VARIABLES
  \* shared memory
  isFinalized, writeOffset, data,
  sizeBuffered,           \* m_sizeBuffered
  \* producer: chunk being appended, bytes of it left, and loop locals
  ppc, currentFree, chunk, left, room, need, idx,
  \* consumer
  cpc, currentWrite, sizeWritten, pendingStores,
  placeholder             \* the bytes m_writer.write has received, in order

sharedVars   == <<isFinalized, writeOffset, data, sizeBuffered>>
producerVars == <<ppc, currentFree, chunk, left, room, need, idx>>
consumerVars == <<cpc, currentWrite, sizeWritten, pendingStores, placeholder>>
vars == <<sharedVars, producerVars, consumerVars>>

Segments == 0 .. NumSegs - 1
Bytes    == 0 .. SegSize - 1

Smaller(a, b) == IF a < b THEN a ELSE b

NextSegment(s) == (s + 1) % NumSegs

Init ==
  /\ isFinalized  = [s \in Segments |-> FALSE]
  /\ writeOffset  = [s \in Segments |-> 0]
  /\ data         = [s \in Segments |-> [b \in Bytes |-> 0]]
  /\ sizeBuffered = 0
  /\ ppc = "idle" /\ currentFree = 0
  /\ chunk = 0 /\ left = 0 /\ room = 0 /\ need = 0 /\ idx = 0
  /\ cpc = "poll" /\ currentWrite = 0
  /\ sizeWritten = 0 /\ pendingStores = {}
  /\ placeholder = <<>>

-----------------------------------------------------------------------------
(* The producer: CanAppendData until it says yes, then AppendData.         *)

\* A chunk arrives.  The transports never hand over more than Total bytes.
Receive ==
  /\ ppc = "idle"
  /\ sizeBuffered < Total
  /\ \E n \in 1 .. Smaller(MaxChunk, Total - sizeBuffered) :
       chunk' = n /\ left' = n
  /\ ppc' = "calc"
  /\ UNCHANGED <<sharedVars, consumerVars, currentFree, room, need, idx>>

\* CalcNumSegmentsRequired, first load: a finalized segment means "no room".
LoadFlag ==
  /\ ppc = "calc"
  /\ ~isFinalized[currentFree]
  /\ ppc' = "room"
  /\ UNCHANGED <<sharedVars, consumerVars, currentFree, chunk, left, room, need, idx>>

\* Mutant: the division rounds down.
SegmentsRequiredFloor(size, remaining) ==
  IF size <= remaining THEN 1 ELSE 1 + (size - remaining) \div SegSize

SegmentsRequired(size, remaining) ==
  IF size <= remaining
    THEN 1
    ELSE 1 + (size - remaining + SegSize - 1) \div SegSize

\* CalcNumSegmentsRequired, second load; the loop of IsSizeAvailable starts.
LoadOffset ==
  /\ ppc = "room"
  /\ need' = SegmentsRequired(chunk, SegSize - writeOffset[currentFree])
  /\ ppc' = IF need' > NumSegs THEN "calc" ELSE "scan"
  /\ idx' = 0
  /\ UNCHANGED <<sharedVars, consumerVars, currentFree, chunk, left, room>>

Scanned == (currentFree + idx) % NumSegs

NextScan ==
  /\ idx' = idx + 1
  /\ ppc' = IF idx + 1 = need THEN "append" ELSE "scan"

\* IsSizeAvailable: the flag of segment idx, then (idx # 0) its offset.
ScanFlag ==
  /\ ppc = "scan"
  /\ \/ isFinalized[Scanned] /\ ppc' = "calc" /\ idx' = 0
     \/ ~isFinalized[Scanned] /\ idx # 0 /\ ppc' = "scanOffset" /\ UNCHANGED idx
     \/ ~isFinalized[Scanned] /\ idx = 0 /\ NextScan
  /\ UNCHANGED <<sharedVars, consumerVars, currentFree, chunk, left, room, need>>

\* "Unexpected non-zero write offset" is thrown here.
ScanOffset ==
  /\ ppc = "scanOffset"
  /\ \/ writeOffset[Scanned] # 0 /\ ppc' = "threwOffset" /\ UNCHANGED idx
     \/ writeOffset[Scanned] = 0 /\ NextScan
  /\ UNCHANGED <<sharedVars, consumerVars, currentFree, chunk, left, room, need>>

\* One iteration of AppendData's loop: the loads, "already finalized", ...
BeginCopy ==
  /\ ppc = "append"
  /\ left > 0
  /\ room' = SegSize - writeOffset[currentFree]
  /\ ppc' = IF isFinalized[currentFree] THEN "threwFinalized" ELSE "copy"
  /\ UNCHANGED <<sharedVars, consumerVars, currentFree, chunk, left, need, idx>>

\* ... the memcpy and the new offset ...
EndCopy ==
  /\ ppc = "copy"
  /\ LET n    == Smaller(left, room)
         at   == writeOffset[currentFree]
         from == sizeBuffered + (chunk - left)
     IN /\ data' = [data EXCEPT ![currentFree] =
                      [b \in Bytes |-> IF b \in at .. at + n - 1
                                         THEN from + (b - at) + 1
                                         ELSE data[currentFree][b]]]
        /\ writeOffset' = [writeOffset EXCEPT ![currentFree] = @ + n]
        /\ left' = left - n
        /\ ppc' = IF left < room THEN "append" ELSE "finalize"
  /\ UNCHANGED <<isFinalized, sizeBuffered, consumerVars, currentFree, chunk, room, need, idx>>

\* ... and, for a segment that is now full, its publication.
Finalize ==
  /\ ppc = "finalize"
  /\ isFinalized' = [isFinalized EXCEPT ![currentFree] = TRUE]
  /\ currentFree' = NextSegment(currentFree)
  /\ ppc' = "append"
  /\ UNCHANGED <<writeOffset, data, sizeBuffered, consumerVars, chunk, left, room, need, idx>>

EndAppend ==
  /\ ppc = "append"
  /\ left = 0
  /\ sizeBuffered' = sizeBuffered + chunk
  /\ chunk' = 0
  /\ ppc' = IF sizeBuffered' = Total THEN "last" ELSE "idle"
  /\ UNCHANGED <<isFinalized, writeOffset, data, consumerVars, currentFree, left, room, need, idx>>

\* Mutant: only a full segment is published.
FinalizeLastFull ==
  /\ ppc = "last"
  /\ isFinalized' = [isFinalized EXCEPT ![currentFree] = (writeOffset[currentFree] = SegSize)]
  /\ ppc' = "done"
  /\ UNCHANGED <<writeOffset, data, sizeBuffered, consumerVars, currentFree, chunk, left, room, need, idx>>

\* The end of the stream publishes the current segment, full or not.
FinalizeLast ==
  /\ ppc = "last"
  /\ isFinalized' = [isFinalized EXCEPT ![currentFree] = TRUE]
  /\ ppc' = "done"
  /\ UNCHANGED <<writeOffset, data, sizeBuffered, consumerVars, currentFree, chunk, left, room, need, idx>>

Producer ==
  \/ Receive \/ LoadFlag \/ LoadOffset \/ ScanFlag \/ ScanOffset
  \/ BeginCopy \/ EndCopy \/ Finalize \/ EndAppend \/ FinalizeLast

-----------------------------------------------------------------------------
(* The consumer: CanWriteSegmentToPlaceholder, WriteSegmentToPlaceholder.  *)

\* Mutant: a segment is taken whether or not it is finalized.
WritableUnfinalized == sizeWritten < Total

Writable == sizeWritten < Total /\ isFinalized[currentWrite]

CanWriteSegment ==
  /\ cpc = "poll"
  /\ Writable
  /\ cpc' = "write"
  /\ UNCHANGED <<sharedVars, producerVars, currentWrite, sizeWritten, pendingStores, placeholder>>

\* Mutant: the last segment is written whole, leftovers of an earlier use too.
SizeToWriteWhole == SegSize

SizeToWrite == Smaller(Total - sizeWritten, SegSize)

\* m_writer.write reads the whole segment; it may throw.
WriteSegment ==
  /\ cpc = "write"
  /\ \/ /\ placeholder' = placeholder \o
             [i \in 1 .. SizeToWrite |-> data[currentWrite][i - 1]]
        /\ cpc' = "release"
        /\ pendingStores' = {"flag", "offset"}
     \/ cpc' = "threw" /\ UNCHANGED <<placeholder, pendingStores>>
  /\ UNCHANGED <<sharedVars, producerVars, currentWrite, sizeWritten>>

\* The segment is given back by two stores.  The flag's comes first in the
\* text, but a release store does not hold back the plain store after it,
\* so the producer may see them in either order.
ReleaseFlag ==
  /\ cpc = "release" /\ "flag" \in pendingStores
  /\ isFinalized' = [isFinalized EXCEPT ![currentWrite] = FALSE]
  /\ pendingStores' = pendingStores \ {"flag"}
  /\ UNCHANGED <<writeOffset, data, sizeBuffered, producerVars, cpc, currentWrite, sizeWritten, placeholder>>

ReleaseOffset ==
  /\ cpc = "release" /\ "offset" \in pendingStores
  /\ writeOffset' = [writeOffset EXCEPT ![currentWrite] = 0]
  /\ pendingStores' = pendingStores \ {"offset"}
  /\ UNCHANGED <<isFinalized, data, sizeBuffered, producerVars, cpc, currentWrite, sizeWritten, placeholder>>

AdvanceWrite ==
  /\ cpc = "release" /\ pendingStores = {}
  /\ currentWrite' = NextSegment(currentWrite)
  /\ sizeWritten' = sizeWritten + SizeToWrite
  /\ cpc' = "poll"
  /\ UNCHANGED <<sharedVars, producerVars, pendingStores, placeholder>>

Consumer ==
  \/ CanWriteSegment \/ WriteSegment
  \/ ReleaseFlag \/ ReleaseOffset \/ AdvanceWrite

Next == Producer \/ Consumer

Spec == Init /\ [][Next]_vars

\* Both threads are scheduled: neither yields while it has a step to take.
FairSpec == Spec /\ WF_vars(Producer) /\ WF_vars(Consumer)

-----------------------------------------------------------------------------
(* Properties                                                              *)

PPCs == {"idle", "calc", "room", "scan", "scanOffset", "append", "copy",
         "finalize", "last", "done", "threwOffset", "threwFinalized"}
CPCs == {"poll", "write", "release", "threw"}

\* The type of every variable: indexes stay in the ring, offsets in a segment.
TypeOK ==
  /\ isFinalized  \in [Segments -> BOOLEAN]
  /\ writeOffset  \in [Segments -> 0 .. SegSize]
  /\ data         \in [Segments -> [Bytes -> 0 .. Total]]
  /\ sizeBuffered \in 0 .. Total
  /\ ppc \in PPCs /\ currentFree \in Segments
  /\ chunk \in 0 .. Total /\ left \in 0 .. chunk /\ room \in 0 .. SegSize
  /\ need \in Nat /\ idx \in Nat
  /\ cpc \in CPCs /\ currentWrite \in Segments
  /\ sizeWritten \in 0 .. Total
  /\ pendingStores \subseteq {"flag", "offset"}
  /\ placeholder \in Seq(0 .. Total)

\* The memcpy of AppendData and the read of WriteSegmentToPlaceholder never
\* work on one segment at a time, although nothing but isFinalized, loaded
\* well before the memcpy, keeps them apart.
SegmentExclusion ==
  (ppc = "copy" /\ cpc = "write") => currentFree # currentWrite

\* The placeholder receives the stream: every byte once, in order, none stale.
InOrder == \A i \in 1 .. Len(placeholder) : placeholder[i] = i

\* What CanAppendData found stays true until AppendData is done with it: the
\* segments the rest of the chunk goes to are free, and empty past the first.
ClaimHolds ==
  ppc = "append" /\ left > 0 =>
    \A i \in 0 .. NumSegs :
      LET s     == (currentFree + i) % NumSegs
          first == SegSize - writeOffset[currentFree]
      IN (i = 0 \/ left > first + (i - 1) * SegSize) =>
           ~isFinalized[s] /\ (i # 0 => writeOffset[s] = 0)

\* What IsSizeAvailable's exception says cannot happen: a segment that is not
\* finalized, and not the current one, has a zero write offset.
NoStaleOffset == ppc # "threwOffset"

Channel == INSTANCE ByteChannel WITH
  accepted  <- sizeBuffered + (chunk - left),
  delivered <- Len(placeholder)

\* The ring implements the bounded byte channel of ByteChannel.
ChannelSpec == Channel!ChanSpec

Stopped == cpc = "threw" \/ ppc \in {"threwOffset", "threwFinalized"}

\* A transfer ends: all of it is appended and written, unless a thread threw.
\* It needs every chunk to fit the ring when its first segment is almost full.
TransferEnds == <>((ppc = "done" /\ sizeWritten = sizeBuffered) \/ Stopped)
=============================================================================
