---------------------------- MODULE Cable_proofs ----------------------------
(***************************************************************************)
(* Proofs about the two protocols of the USB port.  UsbStream: a transfer  *)
(* that succeeds is complete.  MtpStream: what Finalize returns, when the  *)
(* services are open and what a stop leaves, for every file and buffer     *)
(* size, any number of files and of restarts, and every interleaving of    *)
(* the responder, the worker and the UI thread.                            *)
(***************************************************************************)
EXTENDS UsbStream, MtpStream, TLAPS

(* UsbStream                                                               *)

\* The main thread is past its loops: a placeholder that is complete stays
\* so, and a stop is never taken back.
LoopsDone ==
  /\ mpc = "join" => delivered = Total \/ stop
  /\ outcome = "ok" => mpc = "returned"

UsbInv == LoopsDone /\ UsbSuccessIsComplete

\* A complete placeholder receives nothing more.
LEMMA CompleteStays ==
  ASSUME delivered = Total, CanDeliver PROVE FALSE
BY ChannelAssumption DEF CanDeliver

\* Every step of every thread keeps it.
LEMMA StepUsb == UsbInv /\ [Next]_vars => UsbInv'
<1> SUFFICES ASSUME UsbInv, [Next]_vars PROVE UsbInv'
  OBVIOUS
<1> USE DEF UsbInv, LoopsDone, UsbSuccessIsComplete
<1>1. CASE UsbThread
  BY <1>1
  DEF UsbThread, SendFileRangeCmd, UsbThreadEnds, UsbRead, ReadFails, AppendChunk, SpinThrows,
      Accept, chanVars, mainVars
<1>2. CASE Writer
  <2>1. UNCHANGED <<outcome, stop>> /\ mpc' \in {mpc, "terminated"} /\ Alive
    BY <1>2 DEF Writer, WriterCheck, WriterWrites, WriterTerminates, mainVars
  <2>2. delivered = Total => delivered' = delivered /\ mpc' = mpc
    BY <1>2, CompleteStays
    DEF Writer, WriterCheck, WriterWrites, WriterTerminates, Deliver, chanVars, mainVars
  <2>3. outcome = "ok" => delivered = Total
    OBVIOUS
  <2> QED
    BY <2>1, <2>2, <2>3
<1>3. CASE Main
  BY <1>3 DEF Main, DownloadLoopEnds, InstallLoopEnds, Finish, Failed, chanVars
<1>4. CASE UNCHANGED vars
  BY <1>4 DEF vars, chanVars, mainVars
<1> QED
  BY <1>1, <1>2, <1>3, <1>4 DEF Next

\* A transfer that returns success has delivered the whole NCA, whatever size
\* the host announced.
THEOREM UsbSuccess == Spec => []UsbSuccessIsComplete
<1>1. Init => UsbInv
  BY DEF Init, UsbInv, LoopsDone, UsbSuccessIsComplete
<1>2. UsbInv => UsbSuccessIsComplete
  BY DEF UsbInv
<1> QED
  BY <1>1, <1>2, StepUsb, PTL DEF Spec

\* The ring holds part of the stream, and every byte the host announced is in
\* the ring, in hand or still to be read.
UsbTypes ==
  /\ accepted \in 0 .. Total /\ delivered \in Nat /\ delivered <= accepted
  /\ chunk \in 0 .. MaxChunk /\ dataSize \in Nat /\ sizeRemaining \in Nat
  /\ upc \in {"request", "loop", "spin", "exit"} /\ wpc \in {"loop", "try", "exit"}
  /\ mpc \in {"download", "install", "join", "returned", "terminated"}
  /\ Requested => accepted + chunk + sizeRemaining = dataSize
  /\ upc = "request" => accepted = 0
  /\ upc \in {"request", "loop"} => chunk = 0
  /\ upc = "spin" => chunk > 0

\* A thread leaves its loop when there is nothing more to do, or stopped; only
\* the USB thread stops the others, as its last act.
UsbLoopsLeft ==
  /\ stop => upc = "exit"
  /\ upc = "exit" /\ ~stop => sizeRemaining = 0 /\ chunk = 0
  /\ wpc = "try" => delivered < Total
  /\ wpc = "exit" => delivered = Total \/ stop
  /\ mpc \in {"install", "join"} => accepted = Total \/ stop

UsbParts == UsbTypes /\ UsbLoopsLeft

\* It holds when the threads start.
LEMMA InitUsbParts == Init => UsbParts
BY ChannelAssumption, UsbAssumption
DEF Init, ChanInit, UsbParts, UsbTypes, UsbLoopsLeft, Requested

\* What is delivered has been accepted.
LEMMA DeliverTypes ==
  ASSUME accepted \in 0 .. Total, delivered \in Nat, delivered <= accepted, Deliver
  PROVE  accepted' = accepted /\ delivered' \in Nat /\ delivered' <= accepted' /\ delivered < Total
<1>1. NextDelivery \in Nat
  BY ChannelAssumption DEF NextDelivery
<1> QED
  BY <1>1, ChannelAssumption DEF Deliver, CanDeliver

\* Every step of every thread keeps it.
LEMMA StepUsbParts == UsbParts /\ [Next]_vars => UsbParts'
<1> SUFFICES ASSUME UsbParts, [Next]_vars PROVE UsbParts'
  OBVIOUS
<1> USE ChannelAssumption, UsbAssumption DEF UsbParts, UsbTypes, UsbLoopsLeft, Requested
<1>1. CASE SendFileRangeCmd
  <2>1. PICK announced \in Announced : dataSize' = announced /\ sizeRemaining' = announced
    BY <1>1 DEF SendFileRangeCmd
  <2>2. announced \in Nat /\ accepted = 0 /\ chunk = 0 /\ ~stop
    BY <1>1 DEF SendFileRangeCmd
  <2>3. upc' = "loop" /\ UNCHANGED <<accepted, delivered, chunk, stop, mpc, wpc>>
    BY <1>1 DEF SendFileRangeCmd, chanVars, mainVars
  <2> QED
    BY <2>1, <2>2, <2>3
<1>2. CASE UsbThreadEnds
  BY <1>2 DEF UsbThreadEnds, chanVars, mainVars
<1>3. CASE UsbRead
  BY <1>3 DEF UsbRead, ReadFails, chanVars, mainVars
<1>4. CASE AppendChunk
  <2>1. accepted' = accepted + chunk /\ accepted + chunk <= Total /\ chunk' = 0 /\ upc' = "loop"
    BY <1>4 DEF AppendChunk, Accept, CanAccept
  <2>2. UNCHANGED <<delivered, stop, mpc, wpc, dataSize, sizeRemaining>> /\ upc = "spin"
    BY <1>4 DEF AppendChunk, Accept, mainVars
  <2> QED
    BY <2>1, <2>2
<1>5. CASE SpinThrows
  BY <1>5 DEF SpinThrows, chanVars, mainVars
<1>6. CASE WriterCheck
  BY <1>6 DEF WriterCheck, WriterDone, chanVars, mainVars, usbVars
<1>7. CASE WriterWrites
  BY <1>7, DeliverTypes DEF WriterWrites, mainVars, usbVars
<1>8. CASE WriterTerminates
  BY <1>8 DEF WriterTerminates, chanVars, usbVars
<1>9. CASE Main
  BY <1>9 DEF Main, DownloadLoopEnds, InstallLoopEnds, Finish, chanVars, usbVars
<1>10. CASE UNCHANGED vars
  BY <1>10 DEF vars, chanVars, mainVars, usbVars
<1> QED
  BY <1>1, <1>2, <1>3, <1>4, <1>5, <1>6, <1>7, <1>8, <1>9, <1>10 DEF Next, UsbThread, Writer

LEMMA UsbPartsInvariance == Spec => []UsbParts
BY InitUsbParts, StepUsbParts, PTL DEF Spec

\* The transfer over USB, too, uses the ring only as the bounded channel it is
\* proved to be, whatever size the host announces.
THEOREM UsbUsesChannel == Spec => ChanSpec
<1>1. Init => ChanInit
  BY DEF Init
<1>2. UsbParts /\ [Next]_vars => [ChanNext]_chanVars
  <2> SUFFICES ASSUME UsbParts, [Next]_vars PROVE [ChanNext]_chanVars
    OBVIOUS
  <2>1. CASE AppendChunk
    <3>1. chunk \in 1 .. Total /\ Accept(chunk)
      BY <2>1, ChannelAssumption, UsbAssumption
      DEF AppendChunk, Accept, CanAccept, UsbParts, UsbTypes
    <3> QED
      BY <3>1 DEF ChanNext
  <2>2. CASE SendFileRangeCmd \/ UsbThreadEnds \/ UsbRead \/ SpinThrows
    BY <2>2 DEF SendFileRangeCmd, UsbThreadEnds, UsbRead, SpinThrows
  <2>3. CASE Writer
    BY <2>3 DEF Writer, WriterCheck, WriterWrites, WriterTerminates, ChanNext
  <2>4. CASE Main \/ UNCHANGED vars
    BY <2>4 DEF Main, DownloadLoopEnds, InstallLoopEnds, Finish, vars
  <2> QED
    BY <2>1, <2>2, <2>3, <2>4 DEF Next, UsbThread
<1> QED
  BY <1>1, <1>2, UsbPartsInvariance, PTL DEF Spec, ChanSpec

\* A chunk fits the ring when all but the first segment of it are free.
ChunksFit == MaxChunk <= (NumSegs - 1) * SegSize + 1

\* The thread has a step to take: it is not at the head of a loop, or in a
\* join, that waits for another.
UsbGoesOn    == Alive /\ (upc \in {"request", "loop"} \/ (upc = "spin" /\ CanAccept(chunk)))
WriterGoesOn == Alive /\ (wpc = "loop" \/ (wpc = "try" /\ (CanDeliver \/ stop)))
MainGoesOn ==
  \/ mpc = "download" /\ (accepted = Total \/ stop)
  \/ mpc = "install" /\ (delivered = Total \/ stop)
  \/ mpc = "join" /\ upc = "exit" /\ wpc = "exit"

\* The threads stand still only when the call is over, or when the host has
\* announced another size, in one of two dead ends.
OnlyWrongSizeHangs ==
  ChunksFit =>
    \/ UsbGoesOn \/ WriterGoesOn \/ MainGoesOn
    \/ mpc \in {"returned", "terminated"}
    \/ dataSize # Total /\ (ShortHang \/ LongHang)

\* A ring without room for a chunk of the stream has a segment for the writer.
LEMMA RoomOrData ==
  ASSUME UsbTypes, ChunksFit, delivered < Total, accepted + chunk <= Total, ~CanAccept(chunk)
  PROVE  CanDeliver
<1> DEFINE others == (NumSegs - 1) * SegSize
<1>1. others \in Nat /\ Capacity = others + SegSize /\ SegSize \in Nat /\ SegSize > 0
  BY ChannelAssumption DEF Capacity
<1>2. MaxChunk <= others + 1 /\ MaxChunk \in Nat
  BY UsbAssumption DEF ChunksFit
<1> HIDE DEF others
<1>3. chunk \in Nat /\ chunk <= others + 1 /\ accepted \in Nat /\ delivered \in Nat /\ accepted <= Total
  BY <1>1, <1>2, ChannelAssumption DEF UsbTypes
<1>4. delivered + SegSize <= accepted
  BY <1>1, <1>3 DEF CanAccept
<1> QED
  BY <1>1, <1>3, <1>4, ChannelAssumption DEF CanDeliver, NextDelivery

\* UsbEndsOrKnownHang without its fairness, for any sizes and whatever size
\* the host announces: around a failed read, a throwing CanAppendData and the
\* ends of the three loops of StreamToPlaceholder no thread is left behind.
THEOREM NoOtherUsbHang == Spec => []OnlyWrongSizeHangs
<1>1. UsbParts /\ UsbInv => OnlyWrongSizeHangs
  <2> SUFFICES ASSUME UsbParts, UsbInv, ChunksFit, ~UsbGoesOn, ~WriterGoesOn, ~MainGoesOn,
                      mpc \notin {"returned", "terminated"}
               PROVE  dataSize # Total /\ (ShortHang \/ LongHang)
    BY DEF OnlyWrongSizeHangs
  <2> USE DEF UsbParts, UsbLoopsLeft
  <2>1. \/ wpc = "exit" /\ (delivered = Total \/ stop)
        \/ wpc = "try" /\ ~CanDeliver /\ ~stop /\ delivered < Total
    BY DEF WriterGoesOn, Alive, UsbTypes
  <2>2. \/ upc = "exit"
        \/ upc = "spin" /\ ~CanAccept(chunk) /\ ~stop
    BY DEF UsbGoesOn, Alive, UsbTypes
  <2>3. /\ accepted \in Nat /\ delivered \in Nat /\ chunk \in Nat /\ Total \in Nat
        /\ sizeRemaining \in Nat /\ dataSize \in Nat
        /\ delivered <= accepted /\ accepted <= Total
        /\ accepted + chunk + sizeRemaining = dataSize
    BY <2>2, ChannelAssumption, UsbAssumption DEF UsbTypes, Requested
  <2>4. LongHang => dataSize # Total
    BY <2>3 DEF LongHang
  <2>5. delivered < Total /\ ~stop => upc = "exit" \/ LongHang
    BY <2>1, <2>2, <2>3, RoomOrData DEF LongHang
  <2>6. CASE mpc = "download"
    <3>1. accepted < Total /\ ~stop
      BY <2>3, <2>6 DEF MainGoesOn
    <3>2. upc = "exit" => accepted = dataSize
      BY <2>3, <3>1
    <3> QED
      BY <2>3, <2>4, <2>5, <2>6, <3>1, <3>2 DEF ShortHang
  <2>7. CASE mpc = "install"
    <3>1. delivered < Total /\ ~stop /\ accepted = Total
      BY <2>3, <2>7 DEF MainGoesOn
    <3>2. CanDeliver
      BY <2>3, <3>1, ChannelAssumption DEF CanDeliver, NextDelivery
    <3> QED
      BY <2>1, <2>3, <3>1, <3>2
  <2>8. CASE mpc = "join"
    <3>1. delivered = Total \/ stop
      BY <2>8 DEF UsbInv, LoopsDone
    <3>2. wpc = "exit" /\ upc # "exit"
      BY <2>1, <2>3, <2>8, <3>1 DEF MainGoesOn
    <3>3. upc = "spin" /\ ~CanAccept(chunk) /\ delivered = Total /\ accepted = Total
      BY <2>2, <2>3, <3>1, <3>2
    <3>4. Capacity \in Nat
      BY ChannelAssumption DEF Capacity
    <3> QED
      BY <2>3, <2>4, <3>3, <3>4, UsbAssumption DEF CanAccept, LongHang
  <2> QED
    BY <2>6, <2>7, <2>8 DEF UsbTypes
<1>2. Init => UsbInv
  BY DEF Init, UsbInv, LoopsDone, UsbSuccessIsComplete
<1>3. Spec => []UsbInv
  BY <1>2, StepUsb, PTL DEF Spec
<1> QED
  BY <1>1, <1>3, UsbPartsInvariance, PTL
-----------------------------------------------------------------------------
(* MtpStream                                                               *)

Closing == hpc \in {"finalize", "join", "settle"}

MtpTypes ==
  /\ hpc \in {"idle", "opened", "transfer", "push", "close", "finalize", "join", "settle", "destroy",
             "exit", "terminated"}
  /\ gStream \in {"none", "nsp", "xci"} /\ closing \in {"none", "nsp", "xci"}
  /\ pushed \in Nat /\ taken \in Nat /\ rest \in Nat /\ services \in Nat
  /\ wok \in BOOLEAN /\ broke \in BOOLEAN /\ verdict \in BOOLEAN /\ overtaken \in BOOLEAN

\* Who holds the mutex, and what that excludes.
MutexHeld ==
  /\ mutex = "host" <=> hpc = "push"
  /\ mutex = "ui" <=> spc = "join"
  /\ mutex \in {"free", "host", "ui"}
  /\ spc = "join" => gStream = "xci"

\* One stream at a time, and a worker only with its XCI.
OneStream ==
  /\ hpc \in {"idle", "destroy", "exit", "terminated"} \/ Closing => gStream = "none"
  /\ closing # "none" <=> Closing \/ hpc \in {"destroy", "terminated"}
  /\ hpc = "join" => closing = "xci"
  /\ worker # "none" => gStream = "xci" \/ (closing = "xci" /\ hpc \in {"finalize", "join"})
  /\ spc = "stopped" => hpc = "exit"

\* How far the worker is, and what its verdict means.
WorkerProgress ==
  /\ taken <= pushed
  /\ hpc = "opened" => pushed = 0
  /\ worker = "write" => taken > 0
  /\ worker # "none" => taken <= Needed
  /\ worker \in {"read", "write"} => wok /\ ~broke
  /\ worker \in {"finish", "exit"} /\ wok => taken = Needed /\ ~broke
  /\ worker \in {"finish", "exit"} /\ ~wok => broke \/ (EndOfStream /\ taken < Needed)

\* Who will give services back: the host when it closes its stream, the UI
\* thread after it has cancelled one.
HostOwes == Closing \/ (hpc \in {"transfer", "push", "close"} /\ gStream # "none")
UiOwes == spc = "flags"
Owed == (IF HostOwes THEN 1 ELSE 0) + (IF UiOwes THEN 1 ELSE 0)

ServicesCounted ==
  /\ spc \notin {"haze", "exit"} /\ (Closing \/ hpc \in {"transfer", "push", "close"}) =>
       services > 0
  /\ ~overtaken => services <= Owed /\ (running => HostOwes \/ UiOwes)

MtpInv ==
  /\ MtpTypes /\ MutexHeld /\ OneStream /\ WorkerProgress
  /\ ServicesCounted /\ XciVerdictIsRight

\* It holds when the page has started the server.
LEMMA InitMtp == MtpInit => MtpInv
<1> SUFFICES ASSUME MtpInit PROVE MtpInv
  OBVIOUS
<1> USE MtpAssumption DEF MtpInit
<1>1. MtpTypes /\ MutexHeld /\ OneStream /\ XciVerdictIsRight
  BY DEF MtpTypes, MutexHeld, OneStream, Closing, XciVerdictIsRight
<1>2. WorkerProgress
  BY DEF WorkerProgress
<1>3. ServicesCounted
  <2>1. services = 0 /\ ~running /\ hpc = "idle"
    OBVIOUS
  <2>2. Owed \in Nat
    BY DEF Owed
  <2> QED
    BY <2>1, <2>2 DEF ServicesCounted, Closing
<1> QED
  BY <1>1, <1>2, <1>3 DEF MtpInv

\* Every step of every thread keeps it.
LEMMA StepMtp == MtpInv /\ [MtpNext]_mtpVars => MtpInv'
<1> SUFFICES ASSUME MtpInv, [MtpNext]_mtpVars PROVE MtpInv'
  OBVIOUS
<1> USE MtpAssumption
    DEF MtpInv, MtpTypes, MutexHeld, OneStream, WorkerProgress, ServicesCounted,
        XciVerdictIsRight, Closing, HostOwes, UiOwes, Owed, EndOfStream, Buffered,
        streamVars, bufferVars, workerVars, hostVars, stopVars
<1>1. CASE OpenFile
  <2>1. MtpTypes'
    BY <1>1 DEF OpenFile, HazeExiting
  <2>2. MutexHeld'
    BY <1>1 DEF OpenFile, HazeExiting
  <2>3. OneStream'
    BY <1>1 DEF OpenFile, HazeExiting
  <2>4. WorkerProgress'
    BY <1>1 DEF OpenFile, HazeExiting
  <2>5. ServicesCounted'
    BY <1>1 DEF OpenFile, HazeExiting
  <2>6. XciVerdictIsRight'
    BY <1>1 DEF OpenFile, HazeExiting
  <2> QED
    BY <2>1, <2>2, <2>3, <2>4, <2>5, <2>6 DEF MtpInv
<1>2. CASE StreamStarted
  <2>1. MtpTypes'
    BY <1>2 DEF StreamStarted
  <2>2. MutexHeld'
    BY <1>2 DEF StreamStarted
  <2>3. OneStream'
    BY <1>2 DEF StreamStarted
  <2>4. WorkerProgress'
    BY <1>2 DEF StreamStarted
  <2>5. ServicesCounted'
    <3>1. /\ services' = services + 1 /\ hpc = "opened" /\ hpc' = "transfer"
          /\ gStream' = gStream /\ spc' = spc
      BY <1>2 DEF StreamStarted
    <3>2. ~overtaken' => ~overtaken /\ gStream # "none"
      BY <1>2 DEF StreamStarted
    <3>3. services' <= services + 1 /\ services' > 0
      BY <3>1
    <3>4. ~overtaken' => services' <= Owed' /\ HostOwes'
      BY <3>1, <3>2, <3>3
    <3> HIDE DEF Owed, HostOwes, UiOwes
    <3> QED
      BY <3>3, <3>4
  <2>6. XciVerdictIsRight'
    BY <1>2 DEF StreamStarted
  <2> QED
    BY <2>1, <2>2, <2>3, <2>4, <2>5, <2>6 DEF MtpInv
<1>3. CASE WriteFile
  BY <1>3 DEF WriteFile
<1>4. CASE Push
  BY <1>4 DEF Push
<1>5. CASE EndTransfer
  BY <1>5 DEF EndTransfer
<1>6. CASE CloseFile
  BY <1>6 DEF CloseFile
<1>7. CASE Finalize
  BY <1>7 DEF Finalize, Disable
<1>8. CASE JoinWorker
  BY <1>8 DEF JoinWorker
<1>9. CASE StreamClosed
  BY <1>9 DEF StreamClosed, Released
<1>24. CASE DestroyStream
  BY <1>24 DEF DestroyStream
<1>10. CASE ResponderExits
  BY <1>10 DEF ResponderExits, HazeExiting
<1>11. CASE ReadChunk
  <2>branches. \/ /\ taken' = taken /\ wok' = wok /\ worker' = "read"
        \/ /\ EndOfStream /\ taken < Needed
           /\ wok' = FALSE /\ worker' = "finish" /\ taken' = taken
        \/ /\ wok' = wok /\ worker' = "write"
           /\ \E n \in 1 .. Buffered : taken + n <= Needed /\ taken' = taken + n
    BY <1>11 DEF ReadChunk
  <2>unchanged. UNCHANGED <<pushed, bufActive, broke, hpc, gStream, closing, services, verdict, rest, overtaken>>
    BY <1>11 DEF ReadChunk
  <2>1. MtpTypes'
    <3>1. taken' \in Nat
      BY <2>branches
    <3>2. wok' \in BOOLEAN
      BY <2>branches
    <3> QED
      BY <2>unchanged, <3>1, <3>2
  <2>2. MutexHeld'
    BY <1>11 DEF ReadChunk
  <2>3. OneStream'
    BY <1>11 DEF ReadChunk
  <2>4. WorkerProgress'
    <3>1. worker = "read" /\ wok /\ ~broke /\ taken <= pushed /\ taken <= Needed
          /\ (hpc = "opened" => pushed = 0)
      BY <1>11 DEF ReadChunk
    <3>2. CASE taken' = taken /\ wok' = wok /\ worker' = "read"
      BY <2>unchanged, <3>1, <3>2
    <3>3. CASE /\ EndOfStream /\ taken < Needed
               /\ wok' = FALSE /\ worker' = "finish" /\ taken' = taken
      <4>1. EndOfStream' /\ taken' < Needed /\ ~wok'
        BY <2>unchanged, <3>3
      <4> QED
        BY <2>unchanged, <3>1, <3>3, <4>1
    <3>4. CASE /\ wok' = wok /\ worker' = "write"
               /\ \E n \in 1 .. Buffered : taken + n <= Needed /\ taken' = taken + n
      <4>1. taken' > 0 /\ taken' <= pushed' /\ taken' <= Needed /\ hpc' # "opened"
        BY <2>unchanged, <3>1, <3>4
      <4>2. wok' /\ ~broke'
        BY <2>unchanged, <3>1, <3>4
      <4> QED
        BY <2>unchanged, <3>1, <3>4, <4>1, <4>2
    <3> QED
      BY <2>branches, <3>2, <3>3, <3>4
  <2>5. ServicesCounted'
    BY <1>11 DEF ReadChunk
  <2>6. XciVerdictIsRight'
    BY <1>11 DEF ReadChunk
  <2> QED
    BY <2>1, <2>2, <2>3, <2>4, <2>5, <2>6 DEF MtpInv
<1>12. CASE WriteEntry
  <2>1. MtpTypes'
    BY <1>12 DEF WriteEntry, Fails
  <2>2. MutexHeld'
    BY <1>12 DEF WriteEntry, Fails
  <2>3. OneStream'
    BY <1>12 DEF WriteEntry, Fails
  <2>4. WorkerProgress'
    <3>1. UNCHANGED <<taken, pushed, bufActive, hpc>> /\ worker = "write"
      BY <1>12 DEF WriteEntry
    <3>2. CASE worker' \in {"read", "terminated"} /\ UNCHANGED <<wok, broke>>
      BY <3>1, <3>2
    <3>3. CASE wok' = FALSE /\ broke' = TRUE /\ worker' = "finish"
      <4>1. ~wok' /\ broke'
        BY <3>3
      <4> QED
        BY <3>1, <3>3, <4>1
    <3> QED
      BY <1>12, <3>2, <3>3 DEF WriteEntry, Fails
  <2>5. ServicesCounted'
    BY <1>12 DEF WriteEntry, Fails
  <2>6. XciVerdictIsRight'
    BY <1>12 DEF WriteEntry, Fails
  <2> QED
    BY <2>1, <2>2, <2>3, <2>4, <2>5, <2>6 DEF MtpInv
<1>13. CASE CommitRecords
  <2>1. MtpTypes'
    BY <1>13 DEF CommitRecords, Fails
  <2>2. MutexHeld'
    BY <1>13 DEF CommitRecords, Fails
  <2>3. OneStream'
    BY <1>13 DEF CommitRecords, Fails
  <2>4. WorkerProgress'
    BY <1>13 DEF CommitRecords, Fails
  <2>5. ServicesCounted'
    BY <1>13 DEF CommitRecords, Fails
  <2>6. XciVerdictIsRight'
    BY <1>13 DEF CommitRecords, Fails
  <2> QED
    BY <2>1, <2>2, <2>3, <2>4, <2>5, <2>6 DEF MtpInv
<1>14. CASE WorkerEnds
  BY <1>14 DEF WorkerEnds, Disable
<1>15. CASE ShowFrame
  BY <1>15 DEF ShowFrame
<1>16. CASE StopServer
  BY <1>16 DEF StopServer
<1>17. CASE CancelStream
  BY <1>17 DEF CancelStream, Disable
<1>18. CASE CancelJoins
  BY <1>18 DEF CancelJoins
<1>19. CASE CancelFlags
  BY <1>19 DEF CancelFlags, Released
<1>20. CASE HazeExit
  BY <1>20 DEF HazeExit
<1>21. CASE ServerStopped
  BY <1>21 DEF ServerStopped
<1>22. CASE StartServer
  BY <1>22 DEF StartServer
<1>23. CASE UNCHANGED mtpVars
  BY <1>23 DEF mtpVars
<1> QED
  BY <1>1, <1>2, <1>3, <1>4, <1>5, <1>6, <1>7, <1>8, <1>9, <1>10, <1>11, <1>12, <1>13,
     <1>14, <1>15, <1>16, <1>17, <1>18, <1>19, <1>20, <1>21, <1>22, <1>23, <1>24
  DEF MtpNext, ResponderSteps, HostSteps, WorkerSteps, StopSteps, UserSteps

\* The invariant holds in every reachable state.
LEMMA MtpInvariance == MtpSpec => []MtpInv
BY InitMtp, StepMtp, PTL DEF MtpSpec

\* Finalize returns the truth about an XCI.
THEOREM XciVerdict == MtpSpec => []XciVerdictIsRight
<1>1. MtpInv => XciVerdictIsRight
  BY DEF MtpInv
<1> QED
  BY <1>1, MtpInvariance, PTL

\* Whoever is at the storage has the services open.
THEOREM ServicesOpen == MtpSpec => []ServicesOpenInUse
<1>1. MtpInv => ServicesOpenInUse
  <2> SUFFICES ASSUME MtpInv, AtStorage, services = 0, hpc # "destroy"
               PROVE  spc \in {"haze", "exit"}
    BY DEF ServicesOpenInUse
  <2>1. worker \in {"write", "read"} /\ taken > 0 => hpc # "opened"
    BY DEF MtpInv, MtpTypes, WorkerProgress
  <2>2. worker = "write" \/ (worker = "read" /\ taken = Needed) => taken > 0
    BY MtpAssumption DEF MtpInv, MtpTypes, WorkerProgress
  <2>3. hpc \in {"transfer", "push", "close"} \/ Closing
    BY <2>1, <2>2 DEF MtpInv, MtpTypes, OneStream, AtStorage, Closing
  <2> QED
    BY <2>3 DEF MtpInv, ServicesCounted
<1> QED
  BY <1>1, MtpInvariance, PTL

\* A server that has stopped has left nothing running.
THEOREM StopClean == MtpSpec => []StopLeavesNothing
<1>1. MtpInv => StopLeavesNothing
  BY DEF MtpInv, MtpTypes, MutexHeld, OneStream, ServicesCounted, Closing, HostOwes, UiOwes, Owed,
         StopLeavesNothing
<1> QED
  BY <1>1, MtpInvariance, PTL
-----------------------------------------------------------------------------
(* What the three threads of MtpStream wait for.                           *)

\* Who sleeps on a condition variable of the buffer has reason to: whatever
\* ends the reason wakes the thread as well.
SleepersHaveReason ==
  /\ sleeping \subseteq {"host", "worker"}
  /\ "host" \in sleeping => hpc = "push" /\ bufActive /\ Buffered = BufferMax
  /\ "worker" \in sleeping => worker = "read" /\ bufActive /\ Buffered = 0 /\ taken < Needed

\* An XCI has its worker until it is joined; who joins it has ended its buffer.
WorkerThere ==
  /\ worker \in {"none", "read", "write", "finish", "exit", "terminated"}
  /\ gStream = "xci" => worker # "none"
  /\ closing = "xci" /\ hpc \in {"finalize", "join"} => worker # "none"
  /\ hpc = "push" => gStream = "xci"
  /\ worker = "exit" \/ spc = "join" \/ hpc = "join" => ~bufActive

\* The UI thread's places.
StopTypes == spc \in {"running", "cancel", "join", "flags", "haze", "exit", "stopped",
                     "terminated"}

WaitInv == SleepersHaveReason /\ WorkerThere /\ StopTypes

\* It holds when the page has started the server.
LEMMA InitWait == MtpInit => WaitInv
BY DEF MtpInit, WaitInv, SleepersHaveReason, WorkerThere, StopTypes

\* Every step of every thread keeps it.
LEMMA StepWait == MtpInv /\ WaitInv /\ [MtpNext]_mtpVars => WaitInv'
<1> SUFFICES ASSUME MtpInv, WaitInv, [MtpNext]_mtpVars PROVE WaitInv'
  OBVIOUS
<1> USE MtpAssumption
    DEF WaitInv, SleepersHaveReason, WorkerThere, StopTypes, MtpInv, MtpTypes, MutexHeld, OneStream,
        Closing, Buffered, streamVars, bufferVars, workerVars, hostVars, stopVars
<1>1. CASE OpenFile
  BY <1>1 DEF OpenFile
<1>2. CASE StreamStarted
  BY <1>2 DEF StreamStarted
<1>3. CASE WriteFile
  BY <1>3 DEF WriteFile
<1>4. CASE Push
  BY <1>4 DEF Push
<1>5. CASE EndTransfer
  BY <1>5 DEF EndTransfer
<1>6. CASE CloseFile
  BY <1>6 DEF CloseFile
<1>7. CASE Finalize
  BY <1>7 DEF Finalize, Disable
<1>8. CASE JoinWorker
  BY <1>8 DEF JoinWorker
<1>9. CASE StreamClosed
  BY <1>9 DEF StreamClosed
<1>20. CASE DestroyStream
  BY <1>20 DEF DestroyStream
<1>10. CASE ResponderExits
  BY <1>10 DEF ResponderExits
<1>11. CASE ReadChunk
  BY <1>11 DEF ReadChunk, EndOfStream
<1>12. CASE WriteEntry
  BY <1>12 DEF WriteEntry, Fails
<1>13. CASE CommitRecords
  BY <1>13 DEF CommitRecords, Fails
<1>14. CASE WorkerEnds
  <2>1. worker = "finish" /\ UNCHANGED <<gStream, closing, pushed, taken, hpc, spc>>
    BY <1>14 DEF WorkerEnds
  <2>2. CASE worker' = "exit" /\ ~bufActive' /\ sleeping' = {}
    BY <2>1, <2>2
  <2>3. CASE worker' = "terminated" /\ UNCHANGED <<bufActive, sleeping>>
    BY <2>1, <2>3
  <2> QED
    BY <1>14, <2>2, <2>3 DEF WorkerEnds, Disable
<1>15. CASE ShowFrame \/ StopServer \/ CancelFlags \/ HazeExit \/ ServerStopped
  <2>1. UNCHANGED <<gStream, closing, bufferVars, worker, hpc>>
    BY <1>15 DEF ShowFrame, StopServer, CancelFlags, HazeExit, ServerStopped
  <2>2. spc' \in {spc, "cancel", "haze", "exit", "stopped"}
    BY <1>15 DEF ShowFrame, StopServer, CancelFlags, HazeExit, ServerStopped
  <2> QED
    BY <2>1, <2>2
<1>16. CASE StartServer
  BY <1>16 DEF StartServer
<1>17. CASE CancelStream
  <2>1. hpc # "push" /\ UNCHANGED <<pushed, taken, worker, hpc, closing>>
    BY <1>17 DEF CancelStream
  <2>2. CASE gStream = "xci" /\ mutex' = "ui" /\ Disable /\ spc' = "join" /\ UNCHANGED gStream
    BY <2>1, <2>2 DEF Disable
  <2>3. CASE /\ gStream # "xci" /\ gStream' # "xci" /\ spc' \in {"flags", "terminated"}
             /\ UNCHANGED <<mutex, bufActive, sleeping>>
    BY <2>1, <2>3
  <2> QED
    BY <1>17, <2>2, <2>3 DEF CancelStream
<1>18. CASE CancelJoins
  BY <1>18 DEF CancelJoins
<1>19. CASE UNCHANGED mtpVars
  BY <1>19 DEF mtpVars
<1> QED
  BY <1>1, <1>2, <1>3, <1>4, <1>5, <1>6, <1>7, <1>8, <1>9, <1>10, <1>11, <1>12, <1>13,
     <1>14, <1>15, <1>16, <1>17, <1>18, <1>19, <1>20
  DEF MtpNext, ResponderSteps, HostSteps, WorkerSteps, StopSteps, UserSteps

LEMMA WaitInvariance == MtpSpec => []WaitInv
BY InitWait, StepWait, MtpInvariance, PTL DEF MtpSpec

\* No wakeup is lost: a thread sleeps in Push or ReadChunk only while the
\* buffer is full, or empty, and has not been ended.
THEOREM NoLostWakeup == MtpSpec => []SleepersHaveReason
<1>1. WaitInv => SleepersHaveReason
  BY DEF WaitInv
<1> QED
  BY <1>1, WaitInvariance, PTL

\* The thread has a step to take: it waits for no mutex, no condition variable,
\* no other thread and no host.
HostGoesOn ==
  \/ hpc \in {"opened", "finalize", "destroy"}
  \/ hpc = "push" /\ "host" \notin sleeping
  \/ hpc \in {"close", "settle"} /\ mutex = "free"
  \/ hpc = "join" /\ worker = "exit"
  \/ hpc \in {"idle", "transfer"} /\ HazeExiting

WorkerGoesOn ==
  \/ worker \in {"write", "finish"}
  \/ worker = "read" /\ (taken = Needed \/ "worker" \notin sleeping)

UiGoesOn ==
  \/ spc = "cancel" /\ mutex = "free"
  \/ spc = "join" /\ worker = "exit"
  \/ spc \in {"flags", "haze"}
  \/ spc = "exit" /\ hpc = "exit"

\* When none of them has, the next move is the host's or the user's, and the
\* mutex is free for it.
WaitsForUser ==
  /\ spc \in {"running", "stopped"} /\ hpc \in {"idle", "transfer", "exit"}
  /\ mutex = "free"
  /\ worker # "none" => worker = "exit" \/ Buffered = 0

NobodyStuck ==
  Terminated \/ HostGoesOn \/ WorkerGoesOn \/ UiGoesOn \/ WaitsForUser

\* StopEnds without its fairness, for any sizes of file, buffer and write, any
\* number of files and restarts: the write that holds the mutex while it waits
\* for room, the worker that waits for data, and the two joins of the worker,
\* one of them with the mutex held, never wait in a circle.
THEOREM NoCircle == MtpSpec => []NobodyStuck
<1>1. MtpInv /\ WaitInv => NobodyStuck
  <2> SUFFICES ASSUME MtpInv, WaitInv, ~Terminated, ~HostGoesOn, ~WorkerGoesOn, ~UiGoesOn
               PROVE  WaitsForUser
    BY DEF NobodyStuck
  <2>1. \/ worker \in {"none", "exit"}
        \/ worker = "read" /\ "worker" \in sleeping /\ bufActive /\ Buffered = 0
    BY DEF WorkerGoesOn, WaitInv, WorkerThere, SleepersHaveReason, Terminated
  <2>2. hpc # "push"
    <3> SUFFICES ASSUME hpc = "push" PROVE FALSE
      OBVIOUS
    <3>1. bufActive /\ Buffered = BufferMax /\ worker \notin {"none", "exit"}
      BY DEF HostGoesOn, WaitInv, WorkerThere, SleepersHaveReason
    <3> QED
      BY <2>1, <3>1, MtpAssumption
  <2>3. spc # "join" /\ hpc # "join"
    BY <2>1
    DEF UiGoesOn, HostGoesOn, WaitInv, WorkerThere, MtpInv, MutexHeld, OneStream
  <2>4. mutex = "free"
    BY <2>2, <2>3 DEF MtpInv, MutexHeld
  <2>5. hpc \in {"idle", "transfer", "exit"} /\ (hpc = "exit" \/ spc # "exit")
    BY <2>2, <2>3, <2>4 DEF HostGoesOn, HazeExiting, MtpInv, MtpTypes, Terminated
  <2>6. spc \in {"running", "stopped"}
    BY <2>3, <2>4, <2>5 DEF UiGoesOn, WaitInv, StopTypes, Terminated
  <2> QED
    BY <2>1, <2>4, <2>5, <2>6 DEF WaitsForUser
<1> QED
  BY <1>1, MtpInvariance, WaitInvariance, PTL
=============================================================================
