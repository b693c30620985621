--------------------------- MODULE MCRadioClient ---------------------------
(***************************************************************************)
(* Small worlds for the radio client: two hosts of one domain, a handful   *)
(* of responses, what a user types.                                        *)
(***************************************************************************)
EXTENDS RadioSessionRefinement

MCDomainsOf == [a |-> {"a", "radio"}, b |-> {"b", "radio"}]

AtA == [scheme |-> "http", host |-> "a", path |-> "/"]
AtB == [scheme |-> "https", host |-> "b", path |-> "/"]
Ftp == [scheme |-> "ftp", host |-> "a", path |-> "/"]

MCUrls == {AtA, AtB}

Status(code) == [t |-> "status", code |-> code]
Location(to) == [t |-> "location", url |-> to]
SetCookie(value, domain) ==
  [t |-> "cookie",
   cookie |-> [pair |-> "ok", key |-> "k", value |-> value, domain |-> domain, path |-> ""]]
SetNothing(pair) ==
  [t |-> "cookie",
   cookie |-> [pair |-> pair, key |-> "k", value |-> 0, domain |-> "", path |-> ""]]
Metaint(n) == [t |-> "metaint", n |-> n]
Malformed == [t |-> "malformed"]
Other == [t |-> "other"]
Blank == [t |-> "blank"]

OK == <<Status(200), Blank>>
OKs == {OK}
Moves == {OK, <<Status(302), Location(AtB), Blank>>}

\* What the parser has to tell apart, one response of each kind.
Heads ==
  {OK,
   <<Status(302), Location(AtB), Blank>>,
   <<Status(302), Blank>>,
   <<Status(302), Location(Ftp), Blank>>,
   <<Status(404), Blank>>,
   <<Status(100), Blank, Status(200), Blank>>,
   <<Status(200), Metaint(-1), Blank>>,
   <<Status(200), Malformed>>,
   <<Other>>}

\* Redirects that set a cookie for the domain, for the host, twice, or badly.
Cookies ==
  {OK,
   <<Status(302), Location(AtB), SetCookie(1, "radio"), Blank>>,
   <<Status(302), Location(AtA), SetCookie(2, "radio"), SetCookie(1, ""), Blank>>,
   <<Status(302), SetCookie(1, "radio"), Location(AtB), SetCookie(2, "radio"),
     SetNothing("late"), Blank>>,
   <<Status(302), Location(AtB), SetNothing("none"), Blank>>}

Sessions == Heads \cup Cookies

Quit == <<"q", "u", "n">>   \* q, u, and the end of the line
NoTyping == {<<>>}

\* The shortest word, and a line that ends in it and begins like it.
ShortQuit == <<"q", "n">>
Typing == {<<"q", "q", "n">>}
=============================================================================
