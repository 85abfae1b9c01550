-------------------------- MODULE MCHttpNspStream --------------------------
(* TLC instances of HttpClient and HttpNspStream: one request of any kind  *)
(* (the catalog's, the index of a Remote, a probe of the package), and     *)
(* then the stream that installs an NCA.                                   *)
EXTENDS HttpNspStream, HttpClient

VARIABLE stage    \* "request" (HttpClient), then "stream" (HttpNspStream)

httpVars == <<vars, requestVars, stage>>

InRequest(steps) == stage = "request" /\ rpc # "ended" /\ steps /\ UNCHANGED <<vars, stage>>
InStream(steps) == stage = "stream" /\ steps /\ UNCHANGED <<requestVars, stage>>

\* The request's objects are gone; its result is no matter to the stream.
StartStream ==
  /\ stage = "request" /\ rpc = "ended" /\ stage' = "stream"
  /\ request' = CHOOSE r \in Requests : TRUE
  /\ rpc' = "idle" /\ url' = request'.first /\ hop' = 0
  /\ file' = "none" /\ error' = "none" /\ sent' = {}
  /\ UNCHANGED vars

HttpInit == Init /\ RequestInit /\ stage = "request"

HttpNext == InRequest(RequestNext) \/ StartStream \/ InStream(Next)

HttpSpec ==
  /\ HttpInit /\ [][HttpNext]_httpVars
  /\ WF_httpVars(InRequest(RequestNext)) /\ WF_httpVars(StartStream)
  /\ WF_httpVars(InStream(Curl)) /\ WF_httpVars(InStream(Writer)) /\ WF_httpVars(InStream(Main))
=============================================================================
