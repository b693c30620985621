---------------------------- MODULE RadioSession ----------------------------
(***************************************************************************)
(* What the radio client promises of a session: it starts at the URL the   *)
(* user gave, with an empty jar; each redirect moves it on and fills the   *)
(* jar, in which the last value set for a cookie counts; it starts anew    *)
(* when the server falls silent.                                           *)
(***************************************************************************)
EXTENDS Integers

CONSTANTS
  Original,   \* where sessions start
  Redirects   \* [to, cookies] : the redirects there are; cookies holds records
              \* [key, value, domain, path], in which domain "" is the sender, at
              \* numbers that order them

VARIABLES
  phase,  \* "seeking" a stream, "streaming" or "over"
  at,     \* the URL the session has come to
  jar     \* a set of cookies

vars == <<phase, at, jar>>

Init == phase = "seeking" /\ at = Original /\ jar = {}

Granted(r, i) ==
  IF r.cookies[i].domain = "" THEN [r.cookies[i] EXCEPT !.domain = at.host] ELSE r.cookies[i]

Same(c, d) == [c EXCEPT !.value = d.value] = d

\* The last grants of r, and what was in the jar and not granted again.
JarAfter(r) ==
  {Granted(r, i) : i \in {j \in DOMAIN r.cookies :
     \A k \in DOMAIN r.cookies : k > j => ~Same(Granted(r, j), Granted(r, k))}}
  \cup {c \in jar : \A i \in DOMAIN r.cookies : ~Same(c, Granted(r, i))}

Follow ==
  /\ phase = "seeking"
  /\ \E r \in Redirects : at' = r.to /\ jar' = JarAfter(r)
  /\ UNCHANGED phase

Stream == phase = "seeking" /\ phase' = "streaming" /\ UNCHANGED <<at, jar>>

StartOver == phase # "over" /\ phase' = "seeking" /\ at' = Original /\ jar' = {}

Stop == phase # "over" /\ phase' = "over" /\ UNCHANGED <<at, jar>>

Next == Follow \/ Stream \/ StartOver \/ Stop

Spec == Init /\ [][Next]_vars
=============================================================================
