----------------------------- MODULE HttpClient -----------------------------
(***************************************************************************)
(* inst::http::Get and GetFile (source/util/http.cpp): one Perform follows *)
(* redirects by itself, a new curl handle and a truncated output file for  *)
(* each hop, and gives its credentials only to the origin they belong to.  *)
(* An address is abstracted to its origin.                                 *)
(***************************************************************************)
EXTENDS Naturals

CONSTANTS
  Origins,       \* the origins addresses have
  Https,         \* those whose scheme is https
  MaxHops        \* redirects that are followed

ASSUME HttpAssumption == Https \subseteq Origins /\ MaxHops \in Nat

VARIABLES
  request,       \* Request: first origin, credentialOrigin, verifyTls, has a path
  rpc,           \* where Perform is
  url, hop,      \* the origin of the current address, the loop counter
  file,          \* what is at the path
  error,         \* Result's error
  sent           \* history: <<origin, with credentials>> of the requests made

loopVars == <<url, hop>>
requestVars == <<request, rpc, loopVars, file, error, sent>>

Requests == [first : Origins, credentialOrigin : Origins, verifyTls : BOOLEAN, toFile : BOOLEAN]

RequestInit ==
  /\ request \in {r \in Requests : r.first = r.credentialOrigin}
  /\ rpc = "idle" /\ url = request.first /\ hop = 0
  /\ file = "none" /\ error = "none" /\ sent = {}

\* Without a credentialOrigin the boundary is the origin of the address.
Get ==
  /\ rpc \in {"idle", "ended"}
  /\ request' \in Requests
  /\ url' = request'.first /\ hop' = 0 /\ rpc' = "hop" /\ sent' = {}
  /\ file' = "none" /\ error' = "none"

Ends(reason, left) == rpc' = "ended" /\ error' = reason /\ file' = left

\* Mutant: out of time, Perform returns as it does when it cannot start.
OpenHopKeepsFile ==
  /\ rpc = "hop"
  /\ \/ rpc' = "perform" /\ UNCHANGED error
        /\ file' = IF request.toFile THEN "empty" ELSE "none"
     \/ Ends("unstarted", file)
     \/ Ends("timeout", IF request.toFile THEN "empty" ELSE "none")
  /\ UNCHANGED <<request, loopVars, sent>>

\* A handle and the output file.  Without either Perform returns at once, and
\* leaves what an earlier hop wrote; out of time it removes the file.
OpenHop ==
  /\ rpc = "hop"
  /\ \/ rpc' = "perform" /\ UNCHANGED error
        /\ file' = IF request.toFile THEN "empty" ELSE "none"
     \/ Ends("unstarted", file)
     \/ Ends("timeout", "none")
  /\ UNCHANGED <<request, loopVars, sent>>

\* Mutant: a request that had credentials keeps them.
TrustedOnce == hop = 0 \/ url = request.credentialOrigin

\* Origin(url) == boundary
Trusted == url = request.credentialOrigin

RequireHttps == request.verifyTls /\ request.first \in Https

\* curl_easy_perform: headers and credentials go along if the origin is theirs.
Sends == sent' = sent \cup {<<url, Trusted>>}

\* A transport error, a timeout, too large a body, a writer that fails, or a
\* status that is no success (206 for a range): the file is removed.
PerformFails ==
  /\ rpc = "perform" /\ Sends
  /\ \E reason \in {"transport", "timeout", "tooLarge", "io", "status"} : Ends(reason, "none")
  /\ UNCHANGED <<request, loopVars>>

\* 3xx, its body in the file: an address to go on with ...
Redirect ==
  /\ rpc = "perform" /\ Sends
  /\ \E next \in Origins :
       /\ hop < MaxHops /\ (RequireHttps => next \in Https)
       /\ url' = next /\ hop' = hop + 1
  /\ rpc' = "hop"
  /\ file' = IF request.toFile THEN "redirect" ELSE "none"
  /\ UNCHANGED <<request, error>>

\* ... or none, one that is not allowed, or one too many.
RedirectRefused ==
  /\ rpc = "perform" /\ Sends
  /\ Ends("redirect", "none")
  /\ UNCHANGED <<request, loopVars>>

PerformSucceeds ==
  /\ rpc = "perform" /\ Sends
  /\ Ends("none", IF request.toFile THEN "body" ELSE "none")
  /\ UNCHANGED <<request, loopVars>>

RequestNext == Get \/ OpenHop \/ PerformFails \/ Redirect \/ RedirectRefused \/ PerformSucceeds

RequestSpec == RequestInit /\ [][RequestNext]_requestVars
-----------------------------------------------------------------------------
(* Properties                                                              *)

\* Along any chain of redirects, credentials and custom headers reach their
\* own origin and no other, also when the chain comes back to it, and a
\* verified request that began on https never leaves https.
CredentialsStayHome ==
  \A s \in sent :
    /\ s[2] <=> s[1] = request.credentialOrigin
    /\ RequireHttps => s[1] \in Https

\* A file is there after Perform exactly if it succeeded, and holds the body
\* of the last response; the exception is a later hop that could not start,
\* which leaves the body of a redirect.
FileOnlyOnSuccess ==
  rpc = "ended" =>
    \/ error = "none" /\ (request.toFile <=> file = "body")
    \/ error # "none" /\ file = "none"
    \/ error = "unstarted" /\ hop > 0 /\ file = "redirect"
=============================================================================
