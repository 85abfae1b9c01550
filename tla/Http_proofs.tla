----------------------------- MODULE Http_proofs -----------------------------
(***************************************************************************)
(* Proofs about HttpClient: whatever chain of redirects a server sends,    *)
(* over any set of origins and with any limit on the hops, credentials     *)
(* stay with their origin and a failed request leaves no file but in the   *)
(* one known case.  And about HttpNspStream: for any sizes and any number  *)
(* of retries a transfer that succeeds is complete, and nothing is retried *)
(* without consent.                                                        *)
(***************************************************************************)
EXTENDS HttpClient, HttpNspStream, TLAPS

\* Between two hops: where the request may go next, and what the last one
\* left in the file.
BetweenHops ==
  /\ request \in Requests /\ url \in Origins /\ hop \in Nat
  /\ RequireHttps => url \in Https
  /\ rpc = "hop" =>
       file = IF hop > 0 /\ request.toFile THEN "redirect" ELSE "none"

IInv == BetweenHops /\ CredentialsStayHome /\ FileOnlyOnSuccess

\* A request that has not begun has sent nothing.
LEMMA InitIInv == RequestInit => IInv
BY HttpAssumption
DEF RequestInit, IInv, BetweenHops, CredentialsStayHome, FileOnlyOnSuccess, Requests, RequireHttps

\* One more request, to the current address, is one the promise allows.
LEMMA SendKeeps ==
  ASSUME BetweenHops, CredentialsStayHome, Sends, UNCHANGED request
  PROVE  CredentialsStayHome'
<1>1. RequireHttps' = RequireHttps
  BY DEF RequireHttps
<1>2. SUFFICES ASSUME NEW s \in sent'
               PROVE  /\ s[2] <=> s[1] = request.credentialOrigin
                      /\ RequireHttps => s[1] \in Https
  BY <1>1 DEF CredentialsStayHome
<1>3. CASE s \in sent
  BY <1>3 DEF CredentialsStayHome
<1>4. CASE s = <<url, Trusted>>
  <2>1. s[1] = url /\ s[2] = Trusted
    BY <1>4
  <2> QED
    BY <2>1 DEF BetweenHops, Trusted
<1> QED
  BY <1>2, <1>3, <1>4 DEF Sends

\* Every step keeps the invariant.
LEMMA StepIInv == IInv /\ [RequestNext]_requestVars => IInv'
<1> SUFFICES ASSUME IInv, [RequestNext]_requestVars PROVE IInv'
  OBVIOUS
<1>1. CASE Get
  BY <1>1, HttpAssumption
  DEF Get, IInv, BetweenHops, CredentialsStayHome, FileOnlyOnSuccess, Requests, RequireHttps
<1>2. CASE OpenHop
  <2>1. BetweenHops'
    BY <1>2 DEF OpenHop, Ends, loopVars, IInv, BetweenHops, RequireHttps
  <2>2. CredentialsStayHome'
    BY <1>2 DEF OpenHop, Ends, loopVars, IInv, CredentialsStayHome, RequireHttps
  <2>3. FileOnlyOnSuccess'
    BY <1>2 DEF OpenHop, Ends, loopVars, IInv, BetweenHops, FileOnlyOnSuccess
  <2> QED
    BY <2>1, <2>2, <2>3 DEF IInv
<1>3. CASE PerformFails
  <2>1. BetweenHops' /\ FileOnlyOnSuccess'
    BY <1>3
    DEF PerformFails, Ends, loopVars, IInv, BetweenHops, FileOnlyOnSuccess, RequireHttps
  <2>2. CredentialsStayHome'
    BY <1>3, SendKeeps DEF PerformFails, IInv
  <2> QED
    BY <2>1, <2>2 DEF IInv
<1>4. CASE Redirect
  <2>1. PICK next \in Origins : /\ RequireHttps => next \in Https
                                /\ url' = next /\ hop' = hop + 1
    BY <1>4 DEF Redirect
  <2>2. /\ rpc' = "hop" /\ UNCHANGED <<request, error>>
        /\ file' = IF request.toFile THEN "redirect" ELSE "none"
    BY <1>4 DEF Redirect
  <2>3. BetweenHops'
    BY <2>1, <2>2 DEF IInv, BetweenHops, RequireHttps
  <2>4. CredentialsStayHome'
    BY <1>4, SendKeeps DEF Redirect, IInv
  <2>5. FileOnlyOnSuccess'
    BY <2>2 DEF FileOnlyOnSuccess
  <2> QED
    BY <2>3, <2>4, <2>5 DEF IInv
<1>5. CASE RedirectRefused
  <2>1. BetweenHops' /\ FileOnlyOnSuccess'
    BY <1>5
    DEF RedirectRefused, Ends, loopVars, IInv, BetweenHops, FileOnlyOnSuccess, RequireHttps
  <2>2. CredentialsStayHome'
    BY <1>5, SendKeeps DEF RedirectRefused, IInv
  <2> QED
    BY <2>1, <2>2 DEF IInv
<1>6. CASE PerformSucceeds
  <2>1. BetweenHops' /\ FileOnlyOnSuccess'
    BY <1>6
    DEF PerformSucceeds, Ends, loopVars, IInv, BetweenHops, FileOnlyOnSuccess, RequireHttps
  <2>2. CredentialsStayHome'
    BY <1>6, SendKeeps DEF PerformSucceeds, IInv
  <2> QED
    BY <2>1, <2>2 DEF IInv
<1>7. CASE UNCHANGED requestVars
  BY <1>7
  DEF requestVars, loopVars, IInv, BetweenHops, CredentialsStayHome, FileOnlyOnSuccess, RequireHttps
<1> QED
  BY <1>1, <1>2, <1>3, <1>4, <1>5, <1>6, <1>7 DEF RequestNext

\* The invariant holds along every chain of requests.
LEMMA Invariance == RequestSpec => []IInv
BY InitIInv, StepIInv, PTL DEF RequestSpec

\* "credentials ... reach their own origin and no other" for any redirects.
THEOREM CredentialsAtHome == RequestSpec => []CredentialsStayHome
<1>1. IInv => CredentialsStayHome
  BY DEF IInv
<1> QED
  BY <1>1, Invariance, PTL

\* What a Perform that has ended leaves in its file.
THEOREM FileAfterRequest == RequestSpec => []FileOnlyOnSuccess
<1>1. IInv => FileOnlyOnSuccess
  BY DEF IInv
<1> QED
  BY <1>1, Invariance, PTL

-----------------------------------------------------------------------------
(* HttpNspStream                                                           *)

\* Past its two loops the main thread has a complete placeholder, unless a
\* thread stopped the others, which is never taken back.
LoopsDone == mpc \in {"drawn", "join", "returned"} => delivered = Total \/ stop

\* Unless the threads were stopped: the question is raised while the curl
\* thread waits for it, the dialog is open only then, and an answer that is
\* there, but for one left over below a raised question, is to this question.
QuestionAnswered ==
  ~stop =>
    /\ pending => cpc = "askWait"
    /\ mpc \in {"dialog", "answered"} => pending
    /\ mpc = "answered" /\ approved => consent
    /\ cpc = "askWait" /\ approved => pending \/ consent

StreamInv == LoopsDone /\ SuccessIsComplete /\ QuestionAnswered

\* It holds when the threads start.
LEMMA InitStream == Init => StreamInv
BY DEF Init, StreamInv, LoopsDone, SuccessIsComplete, QuestionAnswered

\* A complete placeholder receives nothing more.
LEMMA CompleteStays ==
  ASSUME delivered = Total, CanDeliver PROVE FALSE
BY ChannelAssumption DEF CanDeliver

\* Every step of every thread keeps it.
LEMMA StepStream == StreamInv /\ [Next]_vars => StreamInv'
<1> SUFFICES ASSUME StreamInv, [Next]_vars PROVE StreamInv'
  OBVIOUS
<1> USE DEF StreamInv, LoopsDone, SuccessIsComplete, QuestionAnswered
<1>1. CASE Curl
  <2>1. UNCHANGED <<delivered, mpc, outcome>> /\ (stop => stop')
    BY <1>1
    DEF Curl, StartAttempt, Connect, ReceiveChunk, EndOfBody, ConnectionLost, SpinCheck,
        AppendChunk, SpinThrows, AskRetry, RetryAnswered, NextAttempt, CurlFails,
        Accept, chanVars, flagVars, mainVars
  <2>2. QuestionAnswered'
    BY <1>1
    DEF Curl, StartAttempt, Connect, ReceiveChunk, EndOfBody, ConnectionLost, SpinCheck,
        AppendChunk, SpinThrows, AskRetry, RetryAnswered, NextAttempt, CurlFails,
        Approved, QuestionOver, flagVars, mainVars
  <2> QED
    BY <2>1, <2>2
<1>2. CASE Writer
  <2>1. UNCHANGED <<mpc, outcome, pending, approved, cpc, consent>> /\ (stop => stop')
    BY <1>2
    DEF Writer, WriterCheck, WriterWrites, WriterThrows, flagVars, mainVars, curlVars
  <2>2. delivered = Total => UNCHANGED delivered
    BY <1>2, CompleteStays
    DEF Writer, WriterCheck, WriterWrites, WriterThrows, Deliver, chanVars
  <2> QED
    BY <2>1, <2>2
<1>3. CASE Main
  BY <1>3
  DEF Main, DownloadLoop, AnswerDialog, LowerQuestion, InstallLoop, BeginJoin, Finish,
      MainCancels, Interrupted, chanVars, flagVars, curlVars
<1>4. CASE UserCancels
  BY <1>4 DEF UserCancels, chanVars, mainVars, curlVars
<1>5. CASE UNCHANGED vars
  BY <1>5 DEF vars, chanVars, flagVars, mainVars, curlVars
<1> QED
  BY <1>1, <1>2, <1>3, <1>4, <1>5 DEF Next

\* The invariant holds throughout a transfer.
LEMMA StreamInvariance == Spec => []StreamInv
BY InitStream, StepStream, PTL DEF Spec

\* StreamToPlaceholder returns normally only for a complete placeholder,
\* for any sizes of stream, segment and chunk, and any number of retries.
THEOREM SuccessComplete == Spec => []SuccessIsComplete
<1>1. StreamInv => SuccessIsComplete
  BY DEF StreamInv
<1> QED
  BY <1>1, StreamInvariance, PTL

\* No cycle of requests begins without the answer to its own question.
THEOREM ConsentAsked == Spec => RetryOnlyOnConsent
<1>1. StreamInv /\ [Next]_vars => [cpc = "askWait" /\ cpc' = "attempt" => consent]_vars
  <2> SUFFICES ASSUME StreamInv, Next, cpc = "askWait", cpc' = "attempt" PROVE consent
    BY DEF vars
  <2>1. RetryAnswered
    BY DEF Next, Curl, StartAttempt, Connect, ReceiveChunk, EndOfBody, ConnectionLost, SpinCheck,
           AppendChunk, SpinThrows, AskRetry, Writer, WriterCheck, WriterWrites, WriterThrows,
           Main, DownloadLoop, AnswerDialog, LowerQuestion, InstallLoop, BeginJoin, Finish,
           UserCancels, curlVars
  <2>2. ~stop /\ approved /\ ~pending
    BY <2>1 DEF RetryAnswered, Approved, QuestionOver, CurlFails
  <2> QED
    BY <2>2 DEF StreamInv, QuestionAnswered
<1> QED
  BY <1>1, StreamInvariance, PTL DEF Spec, RetryOnlyOnConsent
-----------------------------------------------------------------------------
(* What the three threads of HttpNspStream wait for.                       *)

\* The ring holds part of the stream, and a chunk in hand belongs to it.
StreamTypes ==
  /\ accepted \in 0 .. Total /\ delivered \in Nat /\ delivered <= accepted
  /\ chunk \in 0 .. MaxChunk
  /\ cpc \in {"attempt", "connect", "receive", "spin", "try", "ask", "askWait", "exit"}
  /\ wpc \in {"loop", "try", "exit"}
  /\ mpc \in {"download", "dialog", "answered", "install", "drawn", "join", "returned"}
  /\ cpc \in {"spin", "try"} => chunk > 0 /\ accepted + chunk <= Total

\* A thread leaves its loop when there is nothing more to do, or stopped.
LoopsLeft ==
  /\ wpc = "try" => delivered < Total
  /\ wpc = "exit" => delivered = Total \/ stop
  /\ mpc \in {"install", "drawn", "join", "returned"} => accepted = Total \/ stop

PartsInv == StreamTypes /\ LoopsLeft

\* It holds when the threads start.
LEMMA InitParts == Init => PartsInv
BY ChannelAssumption, StreamAssumption DEF Init, ChanInit, PartsInv, StreamTypes, LoopsLeft

\* What is delivered has been accepted.
LEMMA DeliverTypes ==
  ASSUME accepted \in 0 .. Total, delivered \in Nat, delivered <= accepted, Deliver
  PROVE  accepted' = accepted /\ delivered' \in Nat /\ delivered' <= accepted' /\ delivered < Total
<1>1. NextDelivery \in Nat
  BY ChannelAssumption DEF NextDelivery
<1> QED
  BY <1>1, ChannelAssumption DEF Deliver, CanDeliver

\* Every step of every thread keeps it.
LEMMA StepParts == PartsInv /\ [Next]_vars => PartsInv'
<1> SUFFICES ASSUME PartsInv, [Next]_vars PROVE PartsInv'
  OBVIOUS
<1> USE DEF PartsInv, LoopsLeft
<1>1. CASE Curl
  <2>1. UNCHANGED <<delivered, mpc, wpc>> /\ (stop => stop')
    BY <1>1
    DEF Curl, StartAttempt, Connect, ReceiveChunk, EndOfBody, ConnectionLost, SpinCheck,
        AppendChunk, SpinThrows, AskRetry, RetryAnswered, NextAttempt, CurlFails,
        Accept, chanVars, flagVars, mainVars
  <2>2. StreamTypes' /\ (accepted = Total => accepted' = Total)
    <3>1. CASE ReceiveChunk
      <4>1. PICK n \in 1 .. MaxChunk : accepted + n <= Total /\ chunk' = n
        BY <3>1 DEF ReceiveChunk
      <4>2. cpc' \in {"spin", "exit"} /\ UNCHANGED accepted
        BY <3>1 DEF ReceiveChunk, CurlFails, chanVars
      <4> QED
        BY <2>1, <4>1, <4>2, StreamAssumption DEF StreamTypes
    <3>2. CASE AppendChunk
      <4>1. accepted' = accepted + chunk /\ accepted + chunk <= Total /\ chunk' = 0 /\ cpc' = "receive"
        BY <3>2 DEF AppendChunk, Accept, CanAccept
      <4>2. accepted' \in 0 .. Total /\ accepted <= accepted'
        BY <4>1, ChannelAssumption, StreamAssumption DEF StreamTypes
      <4> QED
        BY <2>1, <4>1, <4>2, ChannelAssumption, StreamAssumption DEF StreamTypes
    <3>3. CASE SpinCheck
      BY <3>3, <2>1 DEF SpinCheck, CurlFails, StreamTypes, chanVars
    <3>4. CASE StartAttempt \/ Connect \/ EndOfBody \/ ConnectionLost \/ SpinThrows \/ AskRetry
               \/ RetryAnswered
      <4>1. /\ UNCHANGED <<accepted, chunk>>
            /\ cpc' \in {"attempt", "connect", "receive", "ask", "askWait", "exit"}
        BY <3>4
        DEF StartAttempt, Connect, EndOfBody, ConnectionLost, SpinThrows, AskRetry, RetryAnswered,
            NextAttempt, CurlFails, chanVars
      <4> QED
        BY <2>1, <4>1 DEF StreamTypes
    <3> QED
      BY <1>1, <3>1, <3>2, <3>3, <3>4 DEF Curl
  <2> QED
    BY <2>1, <2>2
<1>2. CASE Writer
  <2>1. UNCHANGED <<accepted, mpc, chunk, cpc>> /\ (stop => stop')
    BY <1>2
    DEF Writer, WriterCheck, WriterWrites, WriterThrows, Deliver, chanVars, flagVars, mainVars,
        curlVars
  <2>2. CASE WriterWrites
    BY <2>1, <2>2, DeliverTypes DEF WriterWrites, StreamTypes
  <2>3. CASE WriterCheck
    <3>1. /\ UNCHANGED delivered
          /\ \/ (delivered = Total \/ stop') /\ wpc' = "exit"
             \/ delivered # Total /\ wpc' = "try"
      BY <2>3 DEF WriterCheck, chanVars
    <3> QED
      BY <2>1, <3>1, ChannelAssumption DEF StreamTypes
  <2>4. CASE WriterThrows
    BY <2>1, <2>4 DEF WriterThrows, StreamTypes, chanVars
  <2> QED
    BY <1>2, <2>2, <2>3, <2>4 DEF Writer
<1>3. CASE Main
  BY <1>3
  DEF Main, DownloadLoop, AnswerDialog, LowerQuestion, InstallLoop, BeginJoin, Finish,
      MainCancels, StreamTypes, chanVars, flagVars, curlVars
<1>4. CASE UserCancels
  BY <1>4 DEF UserCancels, StreamTypes, chanVars, mainVars, curlVars
<1>5. CASE UNCHANGED vars
  BY <1>5 DEF vars, StreamTypes, chanVars, flagVars, mainVars, curlVars
<1> QED
  BY <1>1, <1>2, <1>3, <1>4, <1>5 DEF Next

LEMMA PartsInvariance == Spec => []PartsInv
BY InitParts, StepParts, PTL DEF Spec

\* The three threads use the ring only as the bounded channel SegmentRing is
\* proved to be: whatever fails, is retried or cancelled, bytes go in once, in
\* order, and never more than the announced size.
THEOREM StreamUsesChannel == Spec => ChanSpec
<1>1. Init => ChanInit
  BY DEF Init
<1>2. PartsInv /\ [Next]_vars => [ChanNext]_chanVars
  <2> SUFFICES ASSUME PartsInv, [Next]_vars PROVE [ChanNext]_chanVars
    OBVIOUS
  <2>1. CASE Curl
    <3>1. CASE AppendChunk
      <4>1. chunk \in 1 .. Total /\ Accept(chunk)
        BY <3>1, ChannelAssumption, StreamAssumption
        DEF AppendChunk, Accept, CanAccept, PartsInv, StreamTypes
      <4> QED
        BY <4>1 DEF ChanNext
    <3>2. CASE Curl /\ ~AppendChunk
      BY <3>2
      DEF Curl, StartAttempt, Connect, ReceiveChunk, EndOfBody, ConnectionLost, SpinCheck,
          SpinThrows, AskRetry, RetryAnswered
    <3> QED
      BY <2>1, <3>1, <3>2
  <2>2. CASE Writer
    BY <2>2 DEF Writer, WriterCheck, WriterWrites, WriterThrows, ChanNext
  <2>3. CASE Main
    BY <2>3 DEF Main, DownloadLoop, AnswerDialog, LowerQuestion, InstallLoop, BeginJoin, Finish
  <2>4. CASE UserCancels \/ UNCHANGED vars
    BY <2>4 DEF UserCancels, vars
  <2> QED
    BY <2>1, <2>2, <2>3, <2>4 DEF Next
<1> QED
  BY <1>1, <1>2, PartsInvariance, PTL DEF Spec, ChanSpec

\* A chunk fits the ring when all but the first segment of it are free.
ChunksFit == MaxChunk <= (NumSegs - 1) * SegSize + 1

\* The thread has a step to take: it is not at the head of a loop, or in a
\* join, that waits for another.
CurlGoesOn ==
  \/ cpc \in {"attempt", "connect", "receive", "spin", "ask"}
  \/ cpc = "try" /\ (CanAccept(chunk) \/ cancel)
  \/ cpc = "askWait" /\ QuestionOver

WriterGoesOn == wpc = "loop" \/ (wpc = "try" /\ (CanDeliver \/ stop \/ cancel))

MainGoesOn ==
  \/ mpc \in {"dialog", "answered", "drawn"}
  \/ mpc = "download" /\ (accepted = Total \/ stop \/ cancel \/ pending)
  \/ mpc = "install" /\ (delivered = Total \/ stop \/ cancel)
  \/ mpc = "join" /\ cpc = "exit" /\ wpc = "exit"

\* The threads stand still only when the call has returned or in one of the
\* three dead ends.
OnlyKnownHangs ==
  ChunksFit =>
    \/ CurlGoesOn \/ WriterGoesOn \/ MainGoesOn
    \/ mpc = "returned" \/ FullRingHang \/ ShortBodyHang \/ UnaskedHang

\* A ring without room for a chunk of the stream has a segment for the writer.
LEMMA RoomOrData ==
  ASSUME StreamTypes, ChunksFit, delivered < Total, accepted + chunk <= Total, ~CanAccept(chunk)
  PROVE  CanDeliver
<1> DEFINE others == (NumSegs - 1) * SegSize
<1>1. others \in Nat /\ Capacity = others + SegSize /\ SegSize \in Nat /\ SegSize > 0
  BY ChannelAssumption DEF Capacity
<1>2. MaxChunk <= others + 1 /\ MaxChunk \in Nat
  BY StreamAssumption DEF ChunksFit
<1> HIDE DEF others
<1>3. chunk \in Nat /\ chunk <= others + 1 /\ accepted \in Nat /\ delivered \in Nat /\ accepted <= Total
  BY <1>1, <1>2, ChannelAssumption DEF StreamTypes
<1>4. delivered + SegSize <= accepted
  BY <1>1, <1>3 DEF CanAccept
<1> QED
  BY <1>1, <1>3, <1>4, ChannelAssumption DEF CanDeliver, NextDelivery

\* With all of the stream in the ring the writer has something to write.
LEMMA RestIsData ==
  ASSUME StreamTypes, delivered < Total, accepted = Total PROVE CanDeliver
BY ChannelAssumption DEF StreamTypes, CanDeliver, NextDelivery

\* EndsOrKnownHang without its fairness, for any sizes, any number of requests
\* and of approvals: no flag of StreamToPlaceholder's threads is missed in any
\* other way, and what a cancelled transfer can hang in is the question only.
THEOREM NoOtherHang == Spec => []OnlyKnownHangs
<1>1. PartsInv /\ StreamInv => OnlyKnownHangs
  <2> SUFFICES ASSUME PartsInv, StreamInv, ChunksFit,
                      ~CurlGoesOn, ~WriterGoesOn, ~MainGoesOn, mpc # "returned"
               PROVE  FullRingHang \/ ShortBodyHang \/ UnaskedHang
    BY DEF OnlyKnownHangs
  <2> USE DEF PartsInv, LoopsLeft
  <2>1. \/ wpc = "exit" /\ (delivered = Total \/ stop)
        \/ wpc = "try" /\ ~CanDeliver /\ ~stop /\ ~cancel /\ delivered < Total
    BY DEF WriterGoesOn, StreamTypes
  <2>2. \/ cpc = "exit"
        \/ cpc = "try" /\ ~CanAccept(chunk) /\ ~cancel /\ accepted + chunk <= Total
        \/ cpc = "askWait" /\ pending /\ ~stop
    BY DEF CurlGoesOn, StreamTypes, QuestionOver
  <2>3. CASE mpc = "download"
    <3>1. accepted < Total /\ ~stop /\ ~cancel /\ ~pending /\ delivered < Total
      BY <2>3, ChannelAssumption DEF MainGoesOn, StreamTypes
    <3>2. cpc # "try"
      BY <2>1, <2>2, <3>1, RoomOrData, ChannelAssumption
    <3> QED
      BY <2>2, <2>3, <3>1, <3>2 DEF ShortBodyHang
  <2>4. CASE mpc = "install"
    <3>1. delivered # Total /\ ~stop /\ accepted = Total
      BY <2>4 DEF MainGoesOn
    <3> QED
      BY <2>1, <3>1, RestIsData
  <2>5. CASE mpc = "join"
    <3>1. wpc = "exit"
      BY <2>1, <2>5, ChannelAssumption DEF StreamInv, LoopsDone
    <3>2. cpc # "exit"
      BY <2>5, <3>1 DEF MainGoesOn
    <3> QED
      BY <2>2, <2>5, <3>1, <3>2 DEF FullRingHang, UnaskedHang
  <2> QED
    BY <2>3, <2>4, <2>5 DEF MainGoesOn, StreamTypes
<1> QED
  BY <1>1, PartsInvariance, StreamInvariance, PTL
=============================================================================
