---------------------------- MODULE ByteChannel ----------------------------
(***************************************************************************)
(* What BufferedPlaceholderWriter promises the two threads that share it:  *)
(* a bounded, single-producer single-consumer byte channel.  Bytes are     *)
(* counted, not named: byte i of the stream is the i-th one accepted.      *)
(* SegmentRing implements this module; the streaming installers use it.    *)
(***************************************************************************)
EXTENDS Integers

CONSTANTS
  Total,      \* m_totalDataSize: the size of the NCA being transferred
  SegSize,    \* BUFFER_SEGMENT_DATA_SIZE
  NumSegs     \* NUM_BUFFER_SEGMENTS

ASSUME ChannelAssumption ==
  /\ Total   \in Nat \ {0}
  /\ SegSize \in Nat \ {0}
  /\ NumSegs \in Nat /\ NumSegs >= 2

VARIABLES
  accepted,   \* bytes AppendData has copied in
  delivered   \* bytes handed to the NCA writer

chanVars == <<accepted, delivered>>

Capacity == NumSegs * SegSize

\* The next hand-over: a whole segment, or what is left of the stream.
NextDelivery == IF Total - delivered < SegSize THEN Total - delivered ELSE SegSize

ChanInit == accepted = 0 /\ delivered = 0

\* CanAppendData: room for n more bytes, and n more bytes still expected.
CanAccept(n) ==
  accepted + n <= Total /\ accepted + n - delivered <= Capacity

Accept(n) ==
  /\ CanAccept(n)
  /\ accepted' = accepted + n
  /\ UNCHANGED delivered

CanDeliver == delivered < Total /\ delivered + NextDelivery <= accepted

Deliver ==
  /\ CanDeliver
  /\ delivered' = delivered + NextDelivery
  /\ UNCHANGED accepted

ChanNext == Deliver \/ \E n \in 1..Total : Accept(n)

ChanSpec == ChanInit /\ [][ChanNext]_chanVars
=============================================================================
