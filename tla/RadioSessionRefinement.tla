----------------------- MODULE RadioSessionRefinement -----------------------
(***************************************************************************)
(* The radio client implements RadioSession: everything it does between    *)
(* two changes of the session is a stuttering step.                        *)
(***************************************************************************)
EXTENDS RadioClient

\* The redirects among the responses, with what the client reads in them.
HeadOf(r) == FoldLeft(parse_http_response_line, StartOfHead, SubSeq(r, 1, BlankIn(r) - 1))

RedirectOf(r) ==
  LET headers == HeadOf(r).response.set_cookies
  IN  [to |-> HeadOf(r).response.location,
       cookies |-> [i \in {j \in DOMAIN headers : headers[j].pair = "ok"} |->
         [key |-> headers[i].key, value |-> headers[i].value, domain |-> headers[i].domain,
          path |-> IF headers[i].path = "" THEN "/" ELSE headers[i].path]]]

SessionRedirects ==
  {RedirectOf(r) : r \in {q \in Responses : BlankIn(q) > 0 /\ IsRedirect(HeadOf(q).response)}}

Phase ==
  IF outcome # "running" THEN "over"
  ELSE CASE radio = "STREAMING_AUDIO" -> "streaming"
         [] radio = "SHUTDOWN"        -> "stuck"
         [] OTHER                     -> "seeking"

Session == INSTANCE RadioSession
  WITH Redirects <- SessionRedirects, phase <- Phase, at <- url, jar <- ToSet(client_cookies)

\* The client is where its session has brought it, with the cookies of that
\* session, each of them once, and begins anew after a timeout.
ImplementsSession == Session!Spec

\* No cookie is in the jar twice.
CookiesAreUnique ==
  \A i, j \in DOMAIN client_cookies :
    SameCookie(client_cookies[i], client_cookies[j]) => i = j
=============================================================================
