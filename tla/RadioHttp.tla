----------------------------- MODULE RadioHttp -----------------------------
(***************************************************************************)
(* The pure part of the radio client's HTTP: parsing and validation of the *)
(* head of a response, the cookie jar and the request (http.cpp).          *)
(*                                                                         *)
(* A line of a response is a record whose field t is "status", "location", *)
(* "cookie", "metaint", "malformed" (an interval that is no number),       *)
(* "other", "blank" or, behind the head, "body".                           *)
(***************************************************************************)
EXTENDS Integers, Sequences, SequencesExt

CONSTANT DomainsOf  \* DomainsOf[host] is the set of domains that end host

\* A URL; parse_url rejects every scheme but these two.
NoUrl == [scheme |-> "", host |-> "", path |-> ""]
ValidUrl(url) == url.scheme \in {"http", "https"} /\ url.host # ""

EmptyResponse == [status_code |-> 0, location |-> NoUrl, icy_metaint |-> 0, set_cookies |-> <<>>]

\* The state of the parser: current_line is capped at 1, a header line.
StartOfHead == [current_line |-> 0, response |-> EmptyResponse, thrown |-> FALSE]

ParseStatus(parser, line) ==
  IF line.t = "status"
  THEN [parser EXCEPT !.current_line = 1, !.response.status_code = line.code]
  ELSE [parser EXCEPT !.thrown = TRUE]

ParseHeader(parser, line) ==
  CASE line.t = "location"  -> [parser EXCEPT !.response.location = line.url]
    [] line.t = "cookie"    -> [parser EXCEPT !.response.set_cookies = Append(@, line.cookie)]
    [] line.t = "metaint"   -> [parser EXCEPT !.response.icy_metaint = line.n]
    [] line.t = "malformed" -> [parser EXCEPT !.thrown = TRUE]
    [] OTHER                -> parser

parse_http_response_line(parser, line) ==
  IF parser.thrown THEN parser
  ELSE IF parser.current_line = 0 THEN ParseStatus(parser, line) ELSE ParseHeader(parser, line)

IsRedirect(response) == response.status_code \in 300..399

\* (A mutant: redirects are not asked for their location.)
ValidWithoutLocation(response) ==
  /\ response.status_code \in 100..599
  /\ response.icy_metaint >= 0
  /\ \A i \in DOMAIN response.set_cookies : response.set_cookies[i].pair # "none"

validate_http_response(response) ==
  /\ response.status_code \in 100..599
  /\ IsRedirect(response) => response.location # NoUrl
  /\ response.icy_metaint >= 0
  /\ \A i \in DOMAIN response.set_cookies : response.set_cookies[i].pair # "none"

-----------------------------------------------------------------------------
(***************************************************************************)
(* Cookies.  The text of a Set-Cookie header has its equals sign in the    *)
(* pair before the first semicolon (pair = "ok"), only in an attribute     *)
(* ("late") or nowhere ("none"); an absent Domain or Path is "".           *)
(***************************************************************************)
CookieOf(header, host) ==
  [key |-> header.key, value |-> header.value,
   domain |-> IF header.domain = "" THEN host ELSE header.domain,
   path |-> IF header.path = "" THEN "/" ELSE header.path]

SameCookie(c, d) == c.key = d.key /\ c.domain = d.domain /\ c.path = d.path

\* (A mutant: the jar is never searched.)
merge_always_appends(jar, header, host) ==
  IF header.pair # "ok" THEN jar ELSE Append(jar, CookieOf(header, host))

merge_cookie(jar, header, host) ==
  LET new   == CookieOf(header, host)
      found == SelectInSeq(jar, LAMBDA c : SameCookie(c, new))
  IN  IF header.pair # "ok" THEN jar
      ELSE IF found = 0 THEN Append(jar, new)
      ELSE [jar EXCEPT ![found].value = new.value]

\* handle_http's loop over the Set-Cookie headers of a redirect.
MergeAll(jar, headers, host) ==
  FoldLeft(LAMBDA acc, header : merge_cookie(acc, header, host), jar, headers)

\* Only the domain of a cookie decides whether it goes with a request.
create_http_request(url, jar) ==
  [t |-> "request", url |-> url,
   cookies |-> SelectSeq(jar, LAMBDA c : c.domain \in DomainsOf[url.host])]
=============================================================================
