----------------------------- MODULE UsbStream -----------------------------
(***************************************************************************)
(* USBNSP::StreamToPlaceholder (source/install/usb_nsp.cpp; usb_xci.cpp is *)
(* the same code with HFS0 offsets).  Unlike HttpNspStream there is no     *)
(* cancel flag, the writer thread catches nothing, and the number of bytes *)
(* to read is the one the host's reply announces.                          *)
(***************************************************************************)
EXTENDS ByteChannel

CONSTANTS
  MaxChunk,     \* the read buffer, 0x800000 bytes: one segment
  Announced     \* values responseHeader.dataSize may have.  Its read is not
                \* checked: after a failed one it is whatever the stack held.

ASSUME UsbAssumption == MaxChunk \in Nat \ {0} /\ Announced \subseteq Nat

VARIABLES
  stop,                   \* stopThreadsUsbNsp
  mpc, outcome,           \* main thread
  upc, dataSize, sizeRemaining, chunk,   \* USBThreadFunc
  wpc                     \* USBPlaceholderWriteFunc

mainVars == <<mpc, outcome>>
usbVars  == <<upc, dataSize, sizeRemaining, chunk>>
vars == <<chanVars, stop, mainVars, usbVars, wpc>>

Init ==
  /\ ChanInit
  /\ stop = FALSE
  /\ mpc = "download" /\ outcome = "none"
  /\ upc = "request" /\ dataSize = 0 /\ sizeRemaining = 0 /\ chunk = 0
  /\ wpc = "loop"

\* std::terminate: an exception left a thread function.
Alive == mpc # "terminated"

-----------------------------------------------------------------------------
(* The USB thread.                                                         *)

SendFileRangeCmd ==
  /\ Alive /\ upc = "request"
  /\ dataSize' \in Announced
  /\ sizeRemaining' = dataSize'
  /\ upc' = "loop"
  /\ UNCHANGED <<chanVars, stop, mainVars, chunk, wpc>>

UsbThreadEnds ==
  /\ Alive /\ upc = "loop"
  /\ sizeRemaining = 0 \/ stop
  /\ upc' = "exit"
  /\ UNCHANGED <<chanVars, stop, mainVars, dataSize, sizeRemaining, chunk, wpc>>

\* Mutant: a failed read ends the thread without stopping the others.
ReadFailsQuietly == upc' = "exit" /\ UNCHANGED <<stop, sizeRemaining, chunk>>

ReadFails == stop' = TRUE /\ upc' = "exit" /\ UNCHANGED <<sizeRemaining, chunk>>

\* awoo_usbCommsRead: some bytes of what remains, or none (timeout, unplugged).
UsbRead ==
  /\ Alive /\ upc = "loop"
  /\ sizeRemaining > 0 /\ ~stop
  /\ \/ /\ \E n \in 1 .. MaxChunk :
             n <= sizeRemaining /\ chunk' = n /\ sizeRemaining' = sizeRemaining - n
        /\ upc' = "spin" /\ UNCHANGED stop
     \/ ReadFails
  /\ UNCHANGED <<chanVars, mainVars, dataSize, wpc>>

\* The spin on CanAppendData has no other way out than room, or an exception.
AppendChunk ==
  /\ Alive /\ upc = "spin"
  /\ Accept(chunk)
  /\ chunk' = 0 /\ upc' = "loop"
  /\ UNCHANGED <<stop, mainVars, dataSize, sizeRemaining, wpc>>

\* "Unexpected non-zero write offset", see SegmentRing.
SpinThrows ==
  /\ Alive /\ upc = "spin" /\ delivered > 0
  /\ accepted + chunk <= Total
  /\ chunk > SegSize - (accepted % SegSize)
  /\ stop' = TRUE /\ upc' = "exit"
  /\ UNCHANGED <<chanVars, mainVars, dataSize, sizeRemaining, chunk, wpc>>

UsbThread ==
  SendFileRangeCmd \/ UsbThreadEnds \/ UsbRead \/ AppendChunk \/ SpinThrows

-----------------------------------------------------------------------------
(* The writer thread.                                                      *)

WriterDone == delivered = Total \/ stop

WriterCheck ==
  /\ Alive
  /\ wpc = "loop" \/ (wpc = "try" /\ stop /\ ~CanDeliver)
  /\ wpc' = IF WriterDone THEN "exit" ELSE "try"
  /\ UNCHANGED <<chanVars, stop, mainVars, usbVars>>

WriterWrites ==
  /\ Alive /\ wpc = "try"
  /\ Deliver
  /\ wpc' = "loop"
  /\ UNCHANGED <<stop, mainVars, usbVars>>

\* WritePlaceholder, or the NCA header check, throws; nothing catches it.
WriterTerminates ==
  /\ Alive /\ wpc = "try" /\ CanDeliver
  /\ mpc' = "terminated"
  /\ UNCHANGED <<chanVars, stop, outcome, usbVars, wpc>>

Writer == WriterCheck \/ WriterWrites \/ WriterTerminates

-----------------------------------------------------------------------------
(* The main thread.                                                        *)

DownloadLoopEnds ==
  /\ mpc = "download" /\ (accepted = Total \/ stop)
  /\ mpc' = "install"
  /\ UNCHANGED <<chanVars, stop, outcome, usbVars, wpc>>

InstallLoopEnds ==
  /\ mpc = "install" /\ (delivered = Total \/ stop)
  /\ mpc' = "join"
  /\ UNCHANGED <<chanVars, stop, outcome, usbVars, wpc>>

\* Mutant: the error of a stopped transfer is not thrown.
FailureIgnored == FALSE

Failed == stop

\* Both threads joined; close() flushes the NCA writer and may throw.
Finish ==
  /\ mpc = "join" /\ upc = "exit" /\ wpc = "exit"
  /\ mpc' = "returned"
  /\ outcome' \in {"failed"} \cup (IF Failed THEN {} ELSE {"ok"})
  /\ UNCHANGED <<chanVars, stop, usbVars, wpc>>

Main == DownloadLoopEnds \/ InstallLoopEnds \/ Finish

Next == UsbThread \/ Writer \/ Main

Spec == Init /\ [][Next]_vars

\* Each thread is scheduled, and a USB read ends: it has a 5 s timeout.
FairSpec == Spec /\ WF_vars(UsbThread) /\ WF_vars(Writer) /\ WF_vars(Main)

-----------------------------------------------------------------------------
(* Properties                                                              *)

\* A transfer reported as done has put every byte of the NCA in the placeholder.
UsbSuccessIsComplete == outcome = "ok" => delivered = Total

Requested == upc # "request"

\* With a size other than the NCA's the threads may part ways.  Short: the USB
\* thread is done and the download loop waits for the rest.  Long: the
\* callback spins on bytes that would exceed the total; the join waits for it.
ShortHang == upc = "exit" /\ ~stop /\ accepted < Total /\ mpc = "download"
LongHang  == upc = "spin" /\ accepted + chunk > Total

\* The call returns, or the writer's exception terminates the program: no
\* interleaving of the three threads around a failed read or a throwing
\* CanAppendData leaves one behind, and a wrong size has only those two ways.
UsbEndsOrKnownHang ==
  Requested ~> \/ mpc \in {"returned", "terminated"}
               \/ dataSize # Total /\ (ShortHang \/ LongHang)
=============================================================================
