--------------------------- MODULE HttpNspStream ---------------------------
(***************************************************************************)
(* HTTPNSP::StreamToPlaceholder (source/install/http_nsp.cpp): the main    *)
(* thread, a curl thread that runs HTTPDownload::StreamDataRange and fills *)
(* the ring, and a writer thread that drains it.  They meet in the ring    *)
(* (a ByteChannel), in stopThreadsHttpNsp, in RetryConfirmState and in the *)
(* install page's cancel flag.                                             *)
(***************************************************************************)
EXTENDS ByteChannel

CONSTANTS
  MaxChunk,      \* the longest buffer curl hands to the write callback
  Attempts,      \* kMaxRetries + 1 requests before the user is asked
  MaxApprovals   \* bound: how often the user agrees to another cycle

ASSUME StreamAssumption ==
  /\ MaxChunk \in Nat \ {0} /\ Attempts \in Nat \ {0}
  /\ MaxApprovals \in Nat

VARIABLES
  stop,          \* stopThreadsHttpNsp
  cancel,        \* g_installCancelRequested
  pending, approved,                  \* RetryConfirmState
  mpc, outcome,                       \* main thread
  cpc, chunk, attempt,                \* curl thread
  wpc,                                \* writer thread
  approvals,     \* bound: dialogs answered "retry" so far
  consent        \* history: the last dialog since the question was "retry"

flagVars == <<stop, cancel, pending, approved>>
mainVars == <<mpc, outcome, approvals, consent>>
curlVars == <<cpc, chunk, attempt>>
vars == <<chanVars, flagVars, mainVars, curlVars, wpc>>

Init ==
  /\ ChanInit
  /\ stop = FALSE /\ cancel = FALSE /\ pending = FALSE /\ approved = FALSE
  /\ mpc = "download" /\ outcome = "none"
  /\ cpc = "attempt" /\ chunk = 0 /\ attempt = 0
  /\ wpc = "loop"
  /\ approvals = 0 /\ consent = FALSE

-----------------------------------------------------------------------------
(* The curl thread.  bytesReceived of StreamDataRange counts what the      *)
(* callback returned, which is what AppendData took: it is `accepted`.     *)

\* StreamDataRange fails, or throws: CurlStreamFunc raises the stop flag.
CurlFails == cpc' = "exit" /\ stop' = TRUE

NextAttempt ==
  IF attempt + 1 < Attempts
    THEN attempt' = attempt + 1 /\ cpc' = "attempt"
    ELSE cpc' = "ask" /\ UNCHANGED attempt

\* A request for what is still missing; nothing missing is success.
StartAttempt ==
  /\ cpc = "attempt"
  /\ cpc' = IF accepted = Total THEN "exit" ELSE "connect"
  /\ UNCHANGED <<chanVars, flagVars, mainVars, chunk, attempt, wpc>>

\* The response's status: 206; 200 or 4xx, which are fatal; or no answer,
\* a redirect error or 5xx, which are retried.
Connect ==
  /\ cpc = "connect"
  /\ \/ cpc' = "receive" /\ UNCHANGED <<attempt, stop>>
     \/ CurlFails /\ UNCHANGED attempt
     \/ NextAttempt /\ UNCHANGED stop
  /\ UNCHANGED <<chanVars, cancel, pending, approved, mainVars, chunk, wpc>>

\* The write callback: maxBytes keeps a body within the range asked for.
ReceiveChunk ==
  /\ cpc = "receive"
  /\ \E n \in 1 .. MaxChunk :
       /\ accepted + n <= Total
       /\ chunk' = n
  /\ IF cancel THEN CurlFails ELSE cpc' = "spin" /\ UNCHANGED stop
  /\ UNCHANGED <<chanVars, cancel, pending, approved, mainVars, attempt, wpc>>

\* A body that ends without a transport error is success, however short.
EndOfBody ==
  /\ cpc = "receive"
  /\ cpc' = "exit"
  /\ UNCHANGED <<chanVars, flagVars, mainVars, chunk, attempt, wpc>>

ConnectionLost ==
  /\ cpc = "receive"
  /\ NextAttempt
  /\ UNCHANGED <<chanVars, flagVars, mainVars, chunk, wpc>>

\* Mutant: the cancel flag is looked at before the spin only.
SpinCheckOnce ==
  /\ cpc = "spin"
  /\ IF cancel THEN CurlFails ELSE cpc' = "try" /\ UNCHANGED stop
  /\ UNCHANGED <<chanVars, cancel, pending, approved, mainVars, chunk, attempt, wpc>>

\* The callback spins: cancelled, it returns 0 (CURLE_WRITE_ERROR, fatal);
\* otherwise it tries CanAppendData, and looks at the cancel flag again.
SpinCheck ==
  /\ cpc = "spin" \/ (cpc = "try" /\ cancel /\ ~CanAccept(chunk))
  /\ IF cancel THEN CurlFails ELSE cpc' = "try" /\ UNCHANGED stop
  /\ UNCHANGED <<chanVars, cancel, pending, approved, mainVars, chunk, attempt, wpc>>

\* CanAppendData said yes: AppendData, and the callback returns.
AppendChunk ==
  /\ cpc = "try"
  /\ Accept(chunk)
  /\ chunk' = 0 /\ cpc' = "receive"
  /\ UNCHANGED <<flagVars, mainVars, attempt, wpc>>

\* "Unexpected non-zero write offset" (see SegmentRing): the chunk reaches
\* into a segment that the writer is giving back.  rc 1999, which is fatal.
SpinThrows ==
  /\ cpc = "try" /\ delivered > 0
  /\ chunk > SegSize - (accepted % SegSize)
  /\ CurlFails
  /\ UNCHANGED <<chanVars, cancel, pending, approved, mainVars, chunk, attempt, wpc>>

\* retryConfirmFunc: raise the question ...
AskRetry ==
  /\ cpc = "ask"
  /\ pending' = TRUE /\ consent' = FALSE
  /\ cpc' = "askWait"
  /\ UNCHANGED <<chanVars, stop, cancel, approved, mpc, outcome, approvals, chunk, attempt, wpc>>

\* Mutant: the wait does not look at the stop flag.
QuestionLowered == ~pending

QuestionOver == ~pending \/ stop

\* Mutant: the answer is used although the threads were stopped meanwhile.
ApprovedStopped == approved

Approved == ~stop /\ approved

\* ... and poll until it is lowered or the threads are stopped.
RetryAnswered ==
  /\ cpc = "askWait"
  /\ QuestionOver
  /\ IF Approved
       THEN cpc' = "attempt" /\ attempt' = 0 /\ UNCHANGED stop
       ELSE CurlFails /\ UNCHANGED attempt
  /\ UNCHANGED <<chanVars, cancel, pending, approved, mainVars, chunk, wpc>>

Curl ==
  \/ StartAttempt \/ Connect \/ ReceiveChunk \/ EndOfBody \/ ConnectionLost
  \/ SpinCheck \/ AppendChunk \/ SpinThrows \/ AskRetry \/ RetryAnswered

-----------------------------------------------------------------------------
(* The writer thread.                                                      *)

WriterCheck ==
  /\ wpc = "loop" \/ (wpc = "try" /\ (stop \/ cancel) /\ ~CanDeliver)
  /\ \/ (delivered = Total \/ stop) /\ wpc' = "exit" /\ UNCHANGED stop
     \/ delivered # Total /\ ~stop /\ cancel /\ wpc' = "exit" /\ stop' = TRUE
     \/ delivered # Total /\ ~stop /\ ~cancel /\ wpc' = "try" /\ UNCHANGED stop
  /\ UNCHANGED <<chanVars, cancel, pending, approved, mainVars, curlVars>>

WriterWrites ==
  /\ wpc = "try"
  /\ Deliver
  /\ wpc' = "loop"
  /\ UNCHANGED <<flagVars, mainVars, curlVars>>

\* WritePlaceholder, or the NCA header check, throws.
WriterThrows ==
  /\ wpc = "try"
  /\ CanDeliver
  /\ stop' = TRUE /\ wpc' = "exit"
  /\ UNCHANGED <<chanVars, cancel, pending, approved, mainVars, curlVars>>

Writer == WriterCheck \/ WriterWrites \/ WriterThrows

-----------------------------------------------------------------------------
(* The main thread: the download loop, the install loop, the joins.        *)

MainCancels(next) ==
  /\ approved' = FALSE /\ pending' = FALSE /\ stop' = TRUE
  /\ mpc' = next

DownloadLoop ==
  /\ mpc = "download"
  /\ \/ /\ accepted = Total \/ stop
        /\ mpc' = "install" /\ UNCHANGED flagVars
     \/ /\ accepted # Total /\ ~stop /\ cancel
        /\ MainCancels("install") /\ UNCHANGED cancel
     \/ /\ accepted # Total /\ ~stop /\ ~cancel /\ pending
        /\ mpc' = "dialog" /\ UNCHANGED flagVars
  /\ UNCHANGED <<chanVars, outcome, approvals, consent, curlVars, wpc>>

\* The user answers; the answer is stored before the question is lowered.
AnswerDialog ==
  /\ mpc = "dialog"
  /\ \/ /\ approvals < MaxApprovals
        /\ approvals' = approvals + 1
        /\ approved' = TRUE /\ consent' = TRUE
     \/ approved' = FALSE /\ UNCHANGED <<approvals, consent>>
  /\ mpc' = "answered"
  /\ UNCHANGED <<chanVars, stop, cancel, pending, outcome, curlVars, wpc>>

LowerQuestion ==
  /\ mpc = "answered"
  /\ pending' = FALSE
  /\ mpc' = "download"
  /\ UNCHANGED <<chanVars, stop, cancel, approved, outcome, approvals, consent, curlVars, wpc>>

InstallLoop ==
  /\ mpc = "install"
  /\ \/ /\ delivered = Total \/ stop
        /\ mpc' = "drawn" /\ UNCHANGED flagVars
     \/ /\ delivered # Total /\ ~stop /\ cancel
        /\ MainCancels("drawn") /\ UNCHANGED cancel
  /\ UNCHANGED <<chanVars, outcome, approvals, consent, curlVars, wpc>>

\* The last redraw, then thrd_join; from here on no input is handled.
BeginJoin ==
  /\ mpc = "drawn"
  /\ mpc' = "join"
  /\ UNCHANGED <<chanVars, flagVars, outcome, approvals, consent, curlVars, wpc>>

\* Mutant: only the cancel flag makes the call throw.
InterruptedByUser == cancel

Interrupted == cancel \/ stop

\* Both threads joined: close() flushes the NCA writer and may throw.
Finish ==
  /\ mpc = "join" /\ cpc = "exit" /\ wpc = "exit"
  /\ mpc' = "returned"
  /\ outcome' \in {"failed"} \cup (IF Interrupted THEN {} ELSE {"ok"})
  /\ UNCHANGED <<chanVars, flagVars, approvals, consent, curlVars, wpc>>

Main ==
  \/ DownloadLoop \/ AnswerDialog \/ LowerQuestion
  \/ InstallLoop \/ BeginJoin \/ Finish

\* B on the install page: handled while the main thread redraws.
UserCancels ==
  /\ mpc \in {"download", "install", "drawn"} /\ ~cancel
  /\ cancel' = TRUE
  /\ UNCHANGED <<chanVars, stop, pending, approved, mainVars, curlVars, wpc>>

Next == Curl \/ Writer \/ Main \/ UserCancels

Spec == Init /\ [][Next]_vars

\* All three threads are scheduled, requests end (connect and low-speed
\* limits) and a dialog is answered; nobody has to press B.
FairSpec == Spec /\ WF_vars(Curl) /\ WF_vars(Writer) /\ WF_vars(Main)
-----------------------------------------------------------------------------
(* Properties                                                              *)

\* StreamToPlaceholder returns normally only for a placeholder that has every
\* byte, although both of its loops also end on a flag two threads may set.
SuccessIsComplete == outcome = "ok" => delivered = Total

\* A new cycle of requests starts only on the user's answer to the question
\* asked since the last one, never on an answer left over from before.
RetryOnlyOnConsent ==
  [][cpc = "askWait" /\ cpc' = "attempt" => consent]_vars

\* The writer is gone and the ring full: the callback looks only at `cancel`.
FullRingHang ==
  cpc = "try" /\ ~CanAccept(chunk) /\ wpc = "exit" /\ mpc = "join" /\ ~cancel

\* A short 206 body was taken for success: the rest never comes.
ShortBodyHang ==
  cpc = "exit" /\ accepted < Total /\ ~stop /\ ~cancel /\ mpc = "download"

\* The last allowed request broke after its last byte: the question is asked
\* when the loop that shows the dialog has ended.
UnaskedHang ==
  cpc = "askWait" /\ pending /\ ~stop /\ mpc = "join"

\* The call returns, or is in one of exactly three known dead ends.
EndsOrKnownHang == <>(mpc = "returned" \/ FullRingHang \/ ShortBodyHang \/ UnaskedHang)

\* Cancelling frees the threads from all but the unasked question.
CancelEndsOrAsks == cancel ~> (mpc = "returned" \/ UnaskedHang)

\* What the dialog promises (source/ui/instPage.cpp): "Stop the current
\* install and clean up partial data?" -- a cancelled transfer stops.
CancelEnds == cancel ~> (mpc = "returned")
=============================================================================
