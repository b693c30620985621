------------------------- MODULE RadioClient_proofs -------------------------
(***************************************************************************)
(* What the run loop of the radio client keeps in step, proved for every   *)
(* server, every user, every length of requests and lines, and every       *)
(* timeout: its state and its socket, the request and what the server has  *)
(* of it, the word quit and the pieces it is read in, the jar, the head    *)
(* that is being parsed and the lines still to come, the audio and the     *)
(* status it came under; and that it implements RadioSession.              *)
(***************************************************************************)
EXTENDS RadioSessionRefinement, FoldTheorems, SequenceTheorems, TLAPS

(***************************************************************************)
(* Parts of texts.                                                         *)
(***************************************************************************)

\* The characters of s behind the first a, up to the b-th.
Part(s, a, b) == SubSeq(s, a + 1, b)

\* What such a part is.
LEMMA PartIs ==
  ASSUME NEW S, NEW s \in Seq(S), NEW a \in Nat, NEW b \in Nat, a <= b, b <= Len(s)
  PROVE  /\ Part(s, a, b) \in Seq(S) /\ Len(Part(s, a, b)) = b - a
         /\ \A i \in 1..b - a : Part(s, a, b)[i] = s[a + i]
<1>1. \A i \in (a + 1)..b : s[i] \in S
  BY ElementOfSeq
<1>2. a + 1 \in Int /\ b \in Int /\ b - (a + 1) + 1 = b - a
  OBVIOUS
<1>3. /\ SubSeq(s, a + 1, b) \in Seq(S)
      /\ Len(SubSeq(s, a + 1, b)) = IF a + 1 <= b THEN b - (a + 1) + 1 ELSE 0
      /\ \A i \in 1..b - (a + 1) + 1 : SubSeq(s, a + 1, b)[i] = s[(a + 1) + i - 1]
  BY <1>1, <1>2, SubSeqProperties
<1>4. Len(SubSeq(s, a + 1, b)) = b - a
  BY <1>3
<1>5. ASSUME NEW i \in 1..b - a PROVE SubSeq(s, a + 1, b)[i] = s[a + i]
  <2>1. (a + 1) + i - 1 = a + i
    OBVIOUS
  <2>2. QED
    BY <1>2, <1>3, <2>1
<1>6. QED
  BY <1>3, <1>4, <1>5 DEF Part

\* A part of a part.
LEMMA PartOfPart ==
  ASSUME NEW S, NEW s \in Seq(S), NEW a \in Nat, NEW b \in Nat, a <= b, b <= Len(s),
         NEW i \in Nat, NEW j \in Nat, i <= j, j <= b - a
  PROVE  Part(Part(s, a, b), i, j) = Part(s, a + i, a + j)
<1>1. PICK whole : whole = Part(s, a, b)
  OBVIOUS
<1>2. whole \in Seq(S) /\ Len(whole) = b - a /\ \A k \in 1..b - a : whole[k] = s[a + k]
  BY <1>1, PartIs
<1>3. PICK p, q : p = Part(whole, i, j) /\ q = Part(s, a + i, a + j)
  OBVIOUS
<1>4. p \in Seq(S) /\ Len(p) = j - i /\ \A k \in 1..j - i : p[k] = whole[i + k]
  <2>1. whole \in Seq(S) /\ i \in Nat /\ j \in Nat /\ i <= j /\ j <= Len(whole)
    BY <1>2
  <2>2. /\ Part(whole, i, j) \in Seq(S) /\ Len(Part(whole, i, j)) = j - i
        /\ \A k \in 1..j - i : Part(whole, i, j)[k] = whole[i + k]
    BY <2>1, PartIs
  <2>3. QED
    BY <1>3, <2>2
<1>5. Len(s) \in Nat /\ a + i \in Nat /\ a + j \in Nat /\ a + i <= a + j /\ a + j <= Len(s)
  BY LenProperties
<1>6. /\ q \in Seq(S) /\ Len(q) = (a + j) - (a + i)
      /\ \A k \in 1..(a + j) - (a + i) : q[k] = s[(a + i) + k]
  <2>1. PICK x, y : x = a + i /\ y = a + j
    OBVIOUS
  <2>2. x \in Nat /\ y \in Nat /\ x <= y /\ y <= Len(s)
    BY <1>5, <2>1
  <2>3. /\ Part(s, x, y) \in Seq(S) /\ Len(Part(s, x, y)) = y - x
        /\ \A k \in 1..y - x : Part(s, x, y)[k] = s[x + k]
    BY <2>2, PartIs
  <2>4. QED
    BY <1>3, <2>1, <2>3
<1>7. (a + j) - (a + i) = j - i
  OBVIOUS
<1>8. ASSUME NEW k \in 1..Len(p) PROVE p[k] = q[k]
  <2>1. k \in 1..j - i /\ i + k \in 1..b - a /\ a + (i + k) = (a + i) + k
    BY <1>4
  <2>2. p[k] = s[a + (i + k)]
    BY <1>2, <1>4, <2>1
  <2>3. QED
    BY <1>6, <1>7, <2>1, <2>2
<1>9. p = q
  BY <1>4, <1>6, <1>7, <1>8, SeqEqual
<1>10. QED
  BY <1>1, <1>3, <1>9

\* Two parts side by side.
LEMMA PartsJoin ==
  ASSUME NEW S, NEW s \in Seq(S), NEW a \in Nat, NEW b \in Nat, NEW c \in Nat,
         a <= b, b <= c, c <= Len(s)
  PROVE  Part(s, a, b) \o Part(s, b, c) = Part(s, a, c)
<1>0. Len(s) \in Nat /\ a <= c /\ b <= Len(s)
  BY LenProperties
<1>1. PICK p, q, r : p = Part(s, a, b) /\ q = Part(s, b, c) /\ r = Part(s, a, c)
  OBVIOUS
<1>2. /\ p \in Seq(S) /\ Len(p) = b - a /\ \A i \in 1..b - a : p[i] = s[a + i]
      /\ q \in Seq(S) /\ Len(q) = c - b /\ \A i \in 1..c - b : q[i] = s[b + i]
      /\ r \in Seq(S) /\ Len(r) = c - a /\ \A i \in 1..c - a : r[i] = s[a + i]
  <2>1. /\ Part(s, a, b) \in Seq(S) /\ Len(Part(s, a, b)) = b - a
        /\ \A i \in 1..b - a : Part(s, a, b)[i] = s[a + i]
    BY <1>0, PartIs
  <2>2. /\ Part(s, b, c) \in Seq(S) /\ Len(Part(s, b, c)) = c - b
        /\ \A i \in 1..c - b : Part(s, b, c)[i] = s[b + i]
    BY <1>0, PartIs
  <2>3. /\ Part(s, a, c) \in Seq(S) /\ Len(Part(s, a, c)) = c - a
        /\ \A i \in 1..c - a : Part(s, a, c)[i] = s[a + i]
    BY <1>0, PartIs
  <2>4. QED
    BY <1>1, <2>1, <2>2, <2>3
<1>3. /\ p \o q \in Seq(S) /\ Len(p \o q) = Len(p) + Len(q)
      /\ \A i \in 1..Len(p) + Len(q) :
           (p \o q)[i] = IF i <= Len(p) THEN p[i] ELSE q[i - Len(p)]
  BY <1>2, ConcatProperties
<1>4. Len(p) + Len(q) = c - a
  BY <1>2
<1>5. ASSUME NEW i \in 1..c - a PROVE (p \o q)[i] = r[i]
  <2>1. CASE i <= b - a
    BY <1>2, <1>3, <1>4, <2>1
  <2>2. CASE i > b - a
    <3>1. i - (b - a) \in 1..c - b /\ b + (i - (b - a)) = a + i
      BY <2>2
    <3>2. (p \o q)[i] = q[i - (b - a)]
      BY <1>2, <1>3, <1>4, <2>2
    <3>3. q[i - (b - a)] = s[b + (i - (b - a))]
      BY <1>2, <3>1
    <3>4. QED
      BY <1>2, <3>1, <3>2, <3>3
  <2>3. i <= b - a \/ i > b - a
    OBVIOUS
  <2>4. QED
    BY <2>1, <2>2, <2>3
<1>6. p \o q = r
  BY <1>2, <1>3, <1>4, <1>5, SeqEqual
<1>7. QED
  BY <1>1, <1>6

\* Where a word occurs in a part of a text.
LEMMA OccursInPart ==
  ASSUME NEW S, NEW s \in Seq(S), NEW a \in Nat, NEW b \in Nat, a <= b, b <= Len(s),
         NEW word, Len(word) \in Nat
  PROVE  Occurs(word, Part(s, a, b)) <=>
           \E k \in a..b - Len(word) : Part(s, k, k + Len(word)) = word
<1> DEFINE n == Len(word)
           text == Part(s, a, b)
<1>1. Len(text) = b - a
  BY PartIs
<1>2. Occurs(word, text) <=> \E i \in 0..(b - a) - n : Part(text, i, i + n) = word
  BY <1>1 DEF Occurs, Part
<1>3. ASSUME NEW i \in 0..(b - a) - n PROVE Part(text, i, i + n) = Part(s, a + i, (a + i) + n)
  <2>1. i \in Nat /\ i + n \in Nat /\ i <= i + n /\ i + n <= b - a /\ a + (i + n) = (a + i) + n
    OBVIOUS
  <2>2. QED
    BY <2>1, PartOfPart
<1>4. ASSUME NEW i \in 0..(b - a) - n, Part(text, i, i + n) = word
      PROVE  \E k \in a..b - n : Part(s, k, k + n) = word
  <2>1. a + i \in a..b - n /\ Part(s, a + i, (a + i) + n) = word
    BY <1>3, <1>4
  <2>2. QED
    BY <2>1
<1>5. ASSUME NEW k \in a..b - n, Part(s, k, k + n) = word
      PROVE  \E i \in 0..(b - a) - n : Part(text, i, i + n) = word
  <2>1. PICK i : i = k - a
    OBVIOUS
  <2>2. i \in 0..(b - a) - n /\ a + i = k
    BY <2>1
  <2>3. Part(text, i, i + n) = word
    BY <1>3, <1>5, <2>2
  <2>4. QED
    BY <2>2, <2>3
<1>6. QED
  BY <1>2, <1>4, <1>5

\* No occurrence of the word in s lies behind the first f characters and within
\* the first t.
Absent(word, s, f, t) == \A k \in f..t - Len(word) : Part(s, k, k + Len(word)) # word

\* Two parts side by side, their length, and where a word occurs in them.
LEMMA ViewIs ==
  ASSUME NEW S, NEW s \in Seq(S), NEW a \in Nat, NEW b \in Nat, NEW c \in Nat,
         a <= b, b <= c, c <= Len(s), NEW word, Len(word) \in Nat
  PROVE  /\ Part(s, a, b) \o Part(s, b, c) = Part(s, a, c)
         /\ Len(Part(s, a, c)) = c - a
         /\ Occurs(word, Part(s, a, c)) <=> ~Absent(word, s, a, c)
<1>1. a <= c
  OBVIOUS
<1>2. Part(s, a, b) \o Part(s, b, c) = Part(s, a, c)
  BY PartsJoin
<1>3. Len(Part(s, a, c)) = c - a
  BY <1>1, PartIs
<1>4. QED
  BY <1>1, <1>2, <1>3, OccursInPart DEF Absent

\* Where the last n characters before the t-th begin, but not before the f-th.
Window(n, f, t) == IF t - f <= n THEN f ELSE t - n

\* A window as long as a word slides over a text and misses no occurrence: one
\* that was not there before begins within the window.
LEMMA WindowSlides ==
  ASSUME NEW S, NEW s \in Seq(S), NEW word, Len(word) \in Nat,
         NEW f \in Nat, NEW t \in Nat, NEW u \in Nat, f <= t, t <= u, u <= Len(s)
  PROVE  LET n    == Len(word)
             view == Part(s, Window(n, f, t), t) \o Part(s, t, u)
         IN  /\ LastOf(n, view) = Part(s, Window(n, f, u), u)
             /\ Absent(word, s, f, t) /\ ~Occurs(word, view) => Absent(word, s, f, u)
<1>1. PICK n, kept : n = Len(word) /\ kept = Window(n, f, t)
  OBVIOUS
<1>2. /\ n \in Nat /\ kept \in Nat /\ f <= kept /\ kept <= t /\ t - kept <= n
      /\ kept = (IF t - f <= n THEN f ELSE t - n)
      /\ kept <= u /\ Len(s) \in Nat
  BY <1>1, LenProperties DEF Window
<1>3. PICK view : view = Part(s, kept, t) \o Part(s, t, u)
  OBVIOUS
<1>4. /\ view = Part(s, kept, u) /\ Len(view) = u - kept
      /\ Occurs(word, view) <=> ~Absent(word, s, kept, u)
  <2>1. kept \in Nat /\ kept <= t
    BY <1>2
  <2>2. /\ Part(s, kept, t) \o Part(s, t, u) = Part(s, kept, u)
        /\ Len(Part(s, kept, u)) = u - kept
        /\ Occurs(word, Part(s, kept, u)) <=> ~Absent(word, s, kept, u)
    BY <2>1, ViewIs
  <2>3. QED
    BY <1>3, <2>2
<1>5. ASSUME Absent(word, s, f, t), ~Occurs(word, view) PROVE Absent(word, s, f, u)
  <2> SUFFICES ASSUME NEW k \in f..u - n PROVE Part(s, k, k + n) # word
    BY <1>1 DEF Absent
  <2>1. CASE k <= t - n
    <3>1. k \in f..t - n
      BY <1>2, <2>1
    <3>2. QED
      BY <1>1, <1>5, <3>1 DEF Absent
  <2>2. CASE k > t - n
    <3>1. k \in kept..u - n
      BY <1>2, <2>2
    <3>2. QED
      BY <1>1, <1>4, <1>5, <3>1 DEF Absent
  <2>3. k <= t - n \/ k > t - n
    BY <1>2
  <2>4. QED
    BY <2>1, <2>2, <2>3
<1>6. LastOf(n, view) = Part(s, Window(n, f, u), u)
  <2>1. CASE u - kept <= n
    <3>1. LastOf(n, view) = view
      BY <1>4, <2>1 DEF LastOf
    <3>2. kept = Window(n, f, u)
      BY <1>2, <2>1 DEF Window
    <3>3. QED
      BY <1>4, <3>1, <3>2
  <2>2. CASE u - kept > n
    <3>1. PICK a, b : a = (u - kept) - n /\ b = u - kept
      OBVIOUS
    <3>2. /\ a \in Nat /\ b \in Nat /\ a <= b /\ b <= u - kept
          /\ kept + a = u - n /\ kept + b = u
      BY <1>2, <2>2, <3>1
    <3>3. ~(u - kept <= n)
      BY <1>2, <2>2
    <3>4. LastOf(n, view) = Part(view, a, b)
      BY <1>4, <3>1, <3>3 DEF LastOf, Part
    <3>5. Part(Part(s, kept, u), a, b) = Part(s, kept + a, kept + b)
      BY <1>2, <3>2, PartOfPart
    <3>6. u - n = Window(n, f, u)
      BY <1>2, <2>2 DEF Window
    <3>7. QED
      BY <1>4, <3>2, <3>4, <3>5, <3>6
  <2>3. u - kept <= n \/ u - kept > n
    BY <1>2
  <2>4. QED
    BY <2>1, <2>2, <2>3
<1>7. QED
  BY <1>1, <1>3, <1>5, <1>6

USE RadioAssumption

(***************************************************************************)
(* The socket.                                                             *)
(***************************************************************************)
SocketInv ==
  /\ conn \in {"IDLE", "CONNECTED"}
  /\ outcome = "running" => radio # "SHUTDOWN" /\ (conn = "IDLE" <=> radio = "NOT_CONNECTED")
  /\ outcome # "running" => conn = "IDLE"

\* The connection goes, and what was sent on it,
Cut ==
  /\ conn' = "IDLE" /\ server' = NoServer /\ received' = <<>> /\ arrived' = <<>>
  /\ UNCHANGED played

\* because the program ends,
Ended == outcome = "running" /\ outcome' # "running" /\ UNCHANGED <<url, client_cookies>>

\* because of a redirect,
Moved ==
  /\ UNCHANGED outcome /\ radio' = "NOT_CONNECTED"
  /\ \E n \in 0..SocketSize : ReceiveHead(n)

\* or because of the timeout.
Parted == Cut /\ (Ended \/ TimedOut \/ Moved)

\* The session goes on and nothing passes through the socket.
SameSession ==
  /\ UNCHANGED <<outcome, radio, url, client_cookies, state_data, network_data_buffer, played,
                 conn, received, arrived>>
  /\ UNCHANGED server \/ ServerCloses

\* An ending of any kind is a parting.
LEMMA EndParts == ASSUME NEW how, End(how), how # "running", outcome = "running" PROVE Parted
  BY DEF End, close_connection, client, Cut, Ended, Parted

\* After a parting the program is over or has no connection.
LEMMA PartedIs ==
  ASSUME Parted PROVE conn' = "IDLE" /\ (outcome' # "running" \/ radio' = "NOT_CONNECTED")
  BY DEF Parted, Cut, Ended, TimedOut, Moved

\* What handle_http can come to: the head goes on, the stream starts, the
\* connection is closed.  A redirect without a location does not get that far.
LEMMA HttpOutcomes ==
  ASSUME radio = "RECEIVING_HTTP", outcome = "running",
         NEW parser, NEW rest, handle_http(parser, rest), NEW n, Receive(n)
  PROVE  \/ Cut /\ Ended
         \/ Cut /\ UNCHANGED outcome /\ radio' = "NOT_CONNECTED"
         \/ /\ radio' \in {"RECEIVING_HTTP", "STREAMING_AUDIO"}
            /\ UNCHANGED <<outcome, url, client_cookies, conn, server, received>>
<1>1. CASE Fail
  BY <1>1 DEF Fail, Close, Receive, client, Cut, Ended
<1>2. CASE HandleOK(rest)
  BY <1>2 DEF HandleOK, Play, Close, Receive, StayOpen, Goto, Cut, Ended
<1>3. CASE /\ validate_http_response(parser.response) /\ IsRedirect(parser.response)
           /\ HandleRedirect(parser.response)
  <2>1. parser.response.location # NoUrl
    BY <1>3 DEF validate_http_response
  <2>2. CASE Fail
    BY <1>1, <2>2
  <2>3. CASE radio' = "NOT_CONNECTED" /\ Close /\ Goto("setup") /\ UNCHANGED played
    BY <2>3 DEF Close, Receive, Goto, Cut
  <2>4. QED
    BY <1>3, <2>1, <2>2, <2>3 DEF HandleRedirect
<1>4. CASE GoOnParsing(parser, rest)
  BY <1>4 DEF GoOnParsing, StayOpen, Goto
<1>5. QED
  BY <1>1, <1>2, <1>3, <1>4 DEF handle_http

\* The same for the whole of a read of the head.
LEMMA HeadOutcomes ==
  ASSUME NEW n \in 0..SocketSize, ReceiveHead(n)
  PROVE  \/ Parted
         \/ /\ radio' \in {"RECEIVING_HTTP", "STREAMING_AUDIO"}
            /\ UNCHANGED <<outcome, url, client_cookies, conn, server, received>>
<1> DEFINE lines  == state_data.input_buffer \o SubSeq(arrived, 1, n)
           blank  == BlankIn(lines)
           parser == ParseHead(lines)
<1>1. radio = "RECEIVING_HTTP" /\ outcome = "running" /\ Receive(n)
  BY DEF ReceiveHead, CanRead, Readable, At
<1>2. CASE Fail
  BY <1>1, <1>2 DEF Fail, Close, Receive, client, Cut, Ended, Parted
<1>3. CASE GoOnParsing(parser, <<>>)
  BY <1>1, <1>3 DEF GoOnParsing, StayOpen, Goto
<1>4. CASE handle_http(parser, SubSeq(lines, blank + 1, Len(lines)))
  BY <1>1, <1>4, HttpOutcomes DEF Parted, Moved
<1>5. QED
  BY <1>2, <1>3, <1>4 DEF ReceiveHead

\* Every step, seen from the session.
LEMMA SessionSteps ==
  ASSUME SocketInv, [Next]_vars
  PROVE  \/ SameSession
         \/ Parted
         \/ Connect
         \/ ServerSends
         \/ handle_sending_http_data
         \/ \E n \in 1..SocketSize : ReceiveEarly(n)
         \/ \E n \in 1..SocketSize : ReceiveStream(n) /\ ~Parted
         \/ \E n \in 0..SocketSize : ReceiveHead(n) /\ ~Parted
<1>1. CASE UNCHANGED vars
  BY <1>1 DEF vars, client, network, SameSession
<1>2. CASE ServerCloses \/ UserTypes \/ Tick
  BY <1>2 DEF ServerCloses, UserTypes, Tick, client, network, SameSession
<1>3. CASE StayConnected \/ Poll \/ PollFails \/ InTime
  BY <1>3 DEF StayConnected, Poll, PollFails, InTime, At, Goto, client, network, SameSession
<1>4. CASE NoInput \/ EmptyInput \/ NoNetwork \/ ReadNothing
  BY <1>4 DEF NoInput, EmptyInput, NoNetwork, ReadNothing, Readable, At, Goto,
              client, network, SameSession
<1>5. CASE ConnectFails \/ PollError \/ SocketError \/ HungUp \/ SendFails \/ ReadEnd
  BY <1>5, EndParts
     DEF ConnectFails, PollError, SocketError, HungUp, SendFails, ReadEnd, Readable, Event, At,
         Ending
<1>6. CASE TimedOut
  BY <1>6 DEF TimedOut, close_connection, Cut, Parted
<1>7. CASE handle_user_input
  BY <1>7 DEF handle_user_input, At, Goto, close_connection, client, network, Cut, Ended,
              Parted, SameSession
<1>8. QED
  BY <1>1, <1>2, <1>3, <1>4, <1>5, <1>6, <1>7 DEF Next, World, Run, Terminating

\* Every step keeps the socket in step with the state.
LEMMA SocketStep == SocketInv /\ [Next]_vars => SocketInv'
<1> SUFFICES ASSUME SocketInv, [Next]_vars PROVE SocketInv'
  OBVIOUS
<1>1. CASE SameSession
  BY <1>1 DEF SameSession, SocketInv
<1>2. CASE Parted
  BY <1>2, PartedIs DEF SocketInv
<1>3. CASE Connect
  BY <1>3 DEF Connect, At, Goto, SocketInv
<1>4. CASE ServerSends
  BY <1>4 DEF ServerSends, client, SocketInv
<1>5. CASE handle_sending_http_data
  BY <1>5 DEF handle_sending_http_data, MaySend, At, Goto, SocketInv
<1>6. CASE \E n \in 1..SocketSize : ReceiveEarly(n)
  BY <1>6 DEF ReceiveEarly, StayOpen, Goto, client, SocketInv
<1>7. ASSUME NEW n \in 1..SocketSize, ReceiveStream(n), ~Parted PROVE SocketInv'
  BY <1>7 DEF ReceiveStream, CanRead, Readable, At, Play, Close, StayOpen, Goto, Receive, client,
              Cut, Ended, Parted, SocketInv
<1>8. ASSUME NEW n \in 0..SocketSize, ReceiveHead(n), ~Parted PROVE SocketInv'
  <2>1. radio = "RECEIVING_HTTP" /\ outcome = "running"
    BY <1>8 DEF ReceiveHead, CanRead, Readable, At
  <2>2. QED
    BY <1>8, <2>1, HeadOutcomes DEF SocketInv
<1>9. QED
  BY <1>1, <1>2, <1>3, <1>4, <1>5, <1>6, <1>7, <1>8, SessionSteps

\* While the program runs there is a socket exactly when its state says so, and
\* the state that the loop never leaves is not reached: no redirect and no
\* timeout leaks a socket, and no handler meets a closed one.
THEOREM SocketCorrect == Spec => []SocketMatchesState
<1>1. Init => SocketInv
  BY DEF Init, SocketInv
<1>2. SocketInv => SocketMatchesState
  BY DEF SocketInv, SocketMatchesState
<1>3. QED
  BY <1>1, <1>2, SocketStep, PTL DEF Spec

(***************************************************************************)
(* The request.                                                            *)
(***************************************************************************)
Request == create_http_request(url, client_cookies)
Pieces(n) == [i \in 1..n |-> Request]

\* What the server has got of the request, and where the rest of it lies.
RequestInv ==
  conn = "CONNECTED" =>
    /\ radio = "SENDING_HTTP" =>
         /\ state_data = [kind |-> "sending", bytes_sent |-> state_data.bytes_sent]
         /\ state_data.bytes_sent \in 0..(RequestLen - 1)
         /\ received = Pieces(state_data.bytes_sent)
         /\ network_data_buffer = Request
         /\ arrived = <<>>
    /\ radio \in {"RECEIVING_HTTP", "STREAMING_AUDIO"} => received = Pieces(RequestLen)

\* So many pieces make a sequence of that length.
LEMMA PiecesAre ==
  ASSUME NEW x, NEW n \in Nat
  PROVE  LET p == [i \in 1..n |-> x]
         IN  p \in Seq({x}) /\ Len(p) = n /\ \A i \in 1..n : p[i] = x
  OBVIOUS

\* Some pieces behind others.
LEMMA MorePieces ==
  ASSUME NEW x, NEW m \in Nat, NEW n \in Nat
  PROVE  [i \in 1..m |-> x] \o [i \in 1..n |-> x] = [i \in 1..m + n |-> x]
<1>1. PICK p, q, r : /\ p = [i \in 1..m |-> x] /\ q = [i \in 1..n |-> x]
                     /\ r = [i \in 1..m + n |-> x]
  OBVIOUS
<1>2. /\ p \in Seq({x}) /\ Len(p) = m /\ \A i \in 1..m : p[i] = x
      /\ q \in Seq({x}) /\ Len(q) = n /\ \A i \in 1..n : q[i] = x
      /\ r \in Seq({x}) /\ Len(r) = m + n /\ \A i \in 1..m + n : r[i] = x
  BY <1>1, PiecesAre
<1>3. p \o q \in Seq({x}) /\ Len(p \o q) = m + n
  BY <1>2, ConcatProperties
<1>4. \A i \in 1..m + n : (p \o q)[i] = r[i]
  BY <1>2, <1>3, ElementOfSeq
<1>5. p \o q = r
  BY <1>2, <1>3, <1>4, SeqEqual
<1>6. QED
  BY <1>1, <1>5

\* A server that waits for the request does not disturb it on its way.
LEMMA RequestStep ==
  ASSUME ~TalksFirst, SocketInv, RequestInv, [Next]_vars
  PROVE  RequestInv'
<1>1. CASE SameSession
  BY <1>1 DEF SameSession, RequestInv, Request, Pieces
<1>2. CASE Parted
  BY <1>2, PartedIs DEF RequestInv
<1>3. CASE Connect
  <2>1. /\ radio' = "SENDING_HTTP" /\ received' = <<>> /\ arrived' = <<>>
        /\ state_data' = [kind |-> "sending", bytes_sent |-> 0]
        /\ network_data_buffer' = Request /\ Request' = Request
    BY <1>3 DEF Connect, Request
  <2>2. Pieces(0)' = <<>>
    BY DEF Pieces
  <2>3. QED
    BY <2>1, <2>2 DEF RequestInv
<1>4. CASE ServerSends
  <2>1. Len(received) = RequestLen
    BY <1>4 DEF ServerSends
  <2>2. UNCHANGED <<radio, url, client_cookies, state_data, network_data_buffer, conn, received>>
    BY <1>4 DEF ServerSends, client
  <2>3. ~(conn = "CONNECTED" /\ radio = "SENDING_HTTP")
    BY <2>1, PiecesAre DEF RequestInv, Pieces
  <2>4. QED
    BY <2>2, <2>3 DEF RequestInv, Request, Pieces
<1>5. CASE handle_sending_http_data
  <2>1. radio = "SENDING_HTTP" /\ outcome = "running" /\ conn = "CONNECTED"
    BY <1>5 DEF handle_sending_http_data, MaySend, At, SocketInv
  <2>2. /\ state_data.bytes_sent \in 0..(RequestLen - 1)
        /\ state_data = [kind |-> "sending", bytes_sent |-> state_data.bytes_sent]
        /\ received = Pieces(state_data.bytes_sent)
        /\ network_data_buffer = Request /\ arrived = <<>>
    BY <2>1 DEF RequestInv
  <2>3. PICK sent : sent = state_data.bytes_sent
    OBVIOUS
  <2>4. UNCHANGED <<url, client_cookies, network_data_buffer, conn, arrived>>
    BY <1>5 DEF handle_sending_http_data
  <2>5. PICK len \in (IF use_tls THEN 0 ELSE 1)..(RequestLen - sent) :
          /\ received' = received \o [i \in 1..len |-> network_data_buffer]
          /\ IF sent + len = RequestLen
             THEN radio' = "RECEIVING_HTTP"
             ELSE state_data' = [state_data EXCEPT !.bytes_sent = sent + len] /\ radio' = radio
    BY <1>5, <2>3 DEF handle_sending_http_data
  <2>6. len \in Nat /\ sent \in Nat /\ sent + len <= RequestLen /\ RequestLen \in Nat
    <3>1. sent \in 0..(RequestLen - 1) /\ RequestLen \in Nat
      BY <2>2, <2>3
    <3>2. CASE use_tls
      BY <2>5, <3>1, <3>2
    <3>3. CASE ~use_tls
      BY <2>5, <3>1, <3>3
    <3>4. QED
      BY <3>2, <3>3
  <2>7. received' = Pieces(sent + len)
    <3>1. PICK x : x = Request
      OBVIOUS
    <3>2. received' = [i \in 1..sent |-> x] \o [i \in 1..len |-> x]
      BY <2>2, <2>3, <2>5, <3>1 DEF Pieces
    <3>3. [i \in 1..sent |-> x] \o [i \in 1..len |-> x] = [i \in 1..sent + len |-> x]
      BY <2>6, MorePieces
    <3>4. QED
      BY <3>1, <3>2, <3>3 DEF Pieces
  <2>8. Request' = Request /\ Pieces(sent + len)' = Pieces(sent + len)
    BY <2>4 DEF Request, Pieces
  <2>9. CASE sent + len = RequestLen
    BY <2>5, <2>7, <2>8, <2>9 DEF RequestInv, Pieces
  <2>10. CASE sent + len # RequestLen
    <3>1. radio' = "SENDING_HTTP"
      BY <2>1, <2>5, <2>10
    <3>2. state_data' = [state_data EXCEPT !.bytes_sent = sent + len]
      BY <2>5, <2>10
    <3>3. state_data' = [kind |-> "sending", bytes_sent |-> sent + len]
      BY <2>2, <3>2
    <3>4. state_data'.bytes_sent = sent + len /\ sent + len \in 0..(RequestLen - 1)
      BY <2>6, <2>10, <3>3
    <3>5. network_data_buffer' = Request' /\ arrived' = <<>>
      BY <2>2, <2>4, <2>8
    <3>6. received' = Pieces(state_data.bytes_sent)'
      BY <2>7, <2>8, <3>4 DEF Pieces
    <3>7. QED
      BY <3>1, <3>3, <3>4, <3>5, <3>6 DEF RequestInv
  <2>11. QED
    BY <2>9, <2>10
<1>6. ASSUME NEW n \in 1..SocketSize, ReceiveEarly(n) PROVE RequestInv'
  <2>1. radio = "SENDING_HTTP" /\ outcome = "running" /\ arrived # <<>>
    BY <1>6 DEF ReceiveEarly, CanRead, Readable, At
  <2>2. QED
    BY <2>1 DEF RequestInv, SocketInv
<1>7. ASSUME NEW n \in 1..SocketSize, ReceiveStream(n), ~Parted PROVE RequestInv'
  <2>1. /\ radio = "STREAMING_AUDIO"
        /\ UNCHANGED <<radio, url, client_cookies, conn, received>>
    BY <1>7 DEF ReceiveStream, CanRead, Readable, At, Play, Close, StayOpen, Receive, client,
                Cut, Ended, Parted
  <2>2. QED
    BY <2>1 DEF RequestInv, Request, Pieces
<1>8. ASSUME NEW n \in 0..SocketSize, ReceiveHead(n), ~Parted PROVE RequestInv'
  <2>1. /\ radio = "RECEIVING_HTTP" /\ radio' \in {"RECEIVING_HTTP", "STREAMING_AUDIO"}
        /\ UNCHANGED <<url, client_cookies, conn, received>>
    BY <1>8, HeadOutcomes DEF ReceiveHead
  <2>2. QED
    BY <2>1 DEF RequestInv, Request, Pieces
<1>9. QED
  BY <1>1, <1>2, <1>3, <1>4, <1>5, <1>6, <1>7, <1>8, SessionSteps

\* A server that is asked for a response has got the request of this session,
\* whole, whatever pieces the socket takes it in; if it does not talk first.
THEOREM RequestIsWhole == ~TalksFirst /\ Spec => []RequestArrives
<1> SUFFICES ASSUME ~TalksFirst PROVE Spec => []RequestArrives
  OBVIOUS
<1>1. Init => SocketInv /\ RequestInv
  BY DEF Init, SocketInv, RequestInv
<1>2. SocketInv /\ RequestInv /\ [Next]_vars => (SocketInv /\ RequestInv)'
  BY SocketStep, RequestStep
<1>3. SocketInv /\ RequestInv => RequestArrives
  BY DEF RequestInv, RequestArrives, Pieces, Request
<1>4. QED
  BY <1>1, <1>2, <1>3, PTL DEF Spec

(***************************************************************************)
(* The ends of connections.                                                *)
(***************************************************************************)

\* What polled says of a hang-up may be stale, but not when it is looked at: then
\* it is the hang-up of this connection, or the timeout has closed the socket.
HangUpInv ==
  /\ polled = [stdin |-> polled.stdin, net |-> polled.net, ret |-> polled.ret]
  /\ (pc \in {"input", "network"} \/ (pc = "check" /\ polled.ret = "ok"))
       /\ "POLLHUP" \in polled.net => server.closing \in {"reset", "hangup", "gone"}
  /\ outcome # "running" => server.closing = "gone"

\* The socket is closed and nothing else of this matters.
Closed == server' = NoServer /\ UNCHANGED polled

\* The iteration ends, or has not yet polled.
Onward == pc' \in {"setup", "poll"} /\ UNCHANGED <<polled, outcome>> /\ outcome = "running"

\* Every step, seen from the result of poll.
LEMMA PollSteps ==
  ASSUME [Next]_vars
  PROVE  \/ UNCHANGED <<pc, outcome, polled, server>>
         \/ Closed
         \/ Onward
         \/ ServerSends \/ ServerCloses
         \/ Poll \/ PollFails \/ InTime
         \/ pc = "input" /\ pc' = "network" /\ UNCHANGED <<outcome, polled, server>>
<1>1. CASE UNCHANGED vars \/ UserTypes \/ Tick \/ Terminating
  BY <1>1 DEF vars, network, Terminating, UserTypes, Tick
<1>2. CASE \/ ConnectFails \/ PollError \/ SocketError \/ HungUp \/ SendFails \/ ReadEnd
           \/ TimedOut
  BY <1>2 DEF ConnectFails, PollError, SocketError, HungUp, SendFails, ReadEnd, TimedOut,
              End, close_connection, Closed
<1>3. CASE StayConnected \/ Connect \/ NoNetwork \/ ReadNothing \/ handle_sending_http_data
  BY <1>3 DEF StayConnected, Connect, NoNetwork, ReadNothing, Readable,
              handle_sending_http_data, At, Goto, Onward
<1>4. CASE NoInput \/ EmptyInput \/ handle_user_input
  BY <1>4 DEF NoInput, EmptyInput, handle_user_input, At, Goto, network,
              close_connection, Closed
<1>5. ASSUME NEW n, ReceiveEarly(n) \/ ReceiveStream(n) \/ ReceiveHead(n)
      PROVE  Closed \/ Onward
  <2>1. outcome = "running" /\ UNCHANGED polled
    BY <1>5 DEF ReceiveEarly, ReceiveStream, ReceiveHead, CanRead, Readable, At, Receive
  <2>2. ASSUME NEW data, Play(data) PROVE Closed \/ Onward
    BY <2>1, <2>2 DEF Play, Goto, Close, Closed, Onward
  <2>3. CASE Fail
    BY <2>1, <2>3 DEF Fail, Close, Closed
  <2>4. ASSUME NEW parser, NEW rest, GoOnParsing(parser, rest) PROVE Onward
    BY <2>1, <2>4 DEF GoOnParsing, Goto, Onward
  <2>5. ASSUME NEW parser, NEW rest, handle_http(parser, rest) PROVE Closed \/ Onward
    <3>1. CASE HandleOK(rest)
      BY <2>2, <3>1 DEF HandleOK
    <3>2. CASE HandleRedirect(parser.response)
      BY <2>1, <2>3, <3>2 DEF HandleRedirect, Goto, Close, Closed, Onward
    <3>3. QED
      BY <2>3, <2>4, <2>5, <3>1, <3>2 DEF handle_http
  <2>6. CASE ReceiveEarly(n)
    BY <2>1, <2>6 DEF ReceiveEarly, Goto, Onward
  <2>7. CASE ReceiveStream(n)
    BY <2>2, <2>7 DEF ReceiveStream
  <2>8. CASE ReceiveHead(n)
    BY <2>3, <2>4, <2>5, <2>8 DEF ReceiveHead
  <2>9. QED
    BY <1>5, <2>6, <2>7, <2>8
<1>6. QED
  BY <1>1, <1>2, <1>3, <1>4, <1>5 DEF Next, World, Run

\* No step makes a hang-up stale while it can still be acted upon.
LEMMA HangUpStep == HangUpInv /\ [Next]_vars => HangUpInv'
<1> SUFFICES ASSUME HangUpInv, [Next]_vars PROVE HangUpInv'
  OBVIOUS
<1>1. CASE UNCHANGED <<pc, outcome, polled, server>>
  BY <1>1 DEF HangUpInv
<1>2. CASE Closed
  BY <1>2 DEF Closed, NoServer, HangUpInv
<1>3. CASE Onward
  BY <1>3 DEF Onward, HangUpInv
<1>4. CASE ServerSends \/ ServerCloses
  <2>1. server.closing = "open" /\ UNCHANGED <<pc, outcome, polled>>
    BY <1>4 DEF ServerSends, ServerCloses
  <2>2. QED
    BY <2>1 DEF HangUpInv
<1>5. CASE Poll
  <2>1. UNCHANGED <<outcome, server>> /\ outcome = "running"
    BY <1>5 DEF Poll, At, Goto, network
  <2>2. PICK net \in PossibleEvents : polled' = [stdin |-> StdinEvents, net |-> net, ret |-> "ok"]
    BY <1>5 DEF Poll
  <2>3. "POLLHUP" \in net => server.closing \in {"reset", "hangup"}
    BY <2>2 DEF PossibleEvents, SocketEvents
  <2>4. QED
    BY <2>1, <2>2, <2>3 DEF HangUpInv
<1>6. CASE PollFails
  <2>1. PICK err \in PollErrors : polled' = [polled EXCEPT !.ret = err]
    BY <1>6 DEF PollFails
  <2>2. err # "ok" /\ UNCHANGED <<outcome, server>> /\ pc' = "check"
    BY <1>6 DEF PollFails, Goto, network
  <2>3. polled' = [stdin |-> polled.stdin, net |-> polled.net, ret |-> err]
    BY <2>1 DEF HangUpInv
  <2>4. QED
    BY <2>2, <2>3 DEF HangUpInv
<1>7. CASE InTime
  BY <1>7 DEF InTime, At, Goto, network, HangUpInv
<1>8. CASE pc = "input" /\ pc' = "network" /\ UNCHANGED <<outcome, polled, server>>
  BY <1>8 DEF HangUpInv
<1>9. QED
  BY <1>1, <1>2, <1>3, <1>4, <1>5, <1>6, <1>7, <1>8, PollSteps

\* A server that closes in an orderly way is left only when all it sent has been
\* read.
THEOREM ReadToTheEnd == Spec => ReadBeforeLeaving
<1> DEFINE Left == outcome' = "disconnected" /\ server.closing \in {"fin", "cut"} => arrived = <<>>
<1>1. Init => HangUpInv
  BY DEF Init, HangUpInv
<1>2. ASSUME HangUpInv, [Next]_vars PROVE Left
  <2> SUFFICES ASSUME outcome' = "disconnected", server.closing \in {"fin", "cut"}
               PROVE  arrived = <<>>
    OBVIOUS
  <2>1. outcome = "running"
    BY <1>2 DEF HangUpInv
  <2>2. ~HungUp
    BY <1>2 DEF HungUp, Event, At, HangUpInv
  <2>3. ~SocketError /\ ~SendFails
    BY DEF SocketError, SendFails, End
  <2>4. CASE ReadEnd
    BY <2>4 DEF ReadEnd
  <2>5. UNCHANGED outcome \/ outcome' \in {"failed", "quit"} \/ SocketError \/ HungUp
        \/ SendFails \/ ReadEnd
    <3>1. CASE UNCHANGED vars \/ World \/ Tick \/ Terminating
      BY <3>1 DEF vars, World, ServerSends, ServerCloses, UserTypes, Tick, Terminating
    <3>2. CASE StayConnected \/ Connect \/ Poll \/ PollFails \/ TimedOut \/ InTime
      BY <3>2 DEF StayConnected, Connect, Poll, PollFails, TimedOut, InTime, Goto
    <3>3. CASE ConnectFails \/ PollError
      BY <3>3 DEF ConnectFails, PollError, End
    <3>4. CASE NoInput \/ handle_user_input \/ EmptyInput \/ NoNetwork \/ ReadNothing
      BY <3>4 DEF NoInput, handle_user_input, EmptyInput, NoNetwork, ReadNothing, Goto
    <3>5. CASE handle_sending_http_data
      BY <3>5 DEF handle_sending_http_data, Goto
    <3>6. ASSUME NEW n, ReceiveEarly(n) \/ ReceiveStream(n) \/ ReceiveHead(n)
          PROVE  UNCHANGED outcome \/ outcome' = "failed"
      BY <3>6 DEF ReceiveEarly, ReceiveStream, ReceiveHead, handle_http, HandleOK,
                  HandleRedirect, GoOnParsing, Fail, Play, Goto
    <3>7. QED
      BY <1>2, <3>1, <3>2, <3>3, <3>4, <3>5, <3>6 DEF Next, Run
  <2>6. QED
    BY <2>1, <2>2, <2>3, <2>4, <2>5
<1>3. QED
  BY <1>1, <1>2, HangUpStep, PTL DEF Spec, ReadBeforeLeaving

(***************************************************************************)
(* The word quit.                                                          *)
(***************************************************************************)

\* The program keeps as much of what it has read since the last timeout as the
\* word is long.
Kept == Window(Len(CMD_QUIT), forgotten, taken)

QuitInv ==
  /\ script \in Seq(Characters)
  /\ forgotten \in Nat /\ taken \in Nat /\ typed \in Nat
  /\ forgotten <= taken /\ taken <= typed /\ typed <= Len(script)
  /\ outcome = "running" =>
       /\ user_input_buffer = Part(script, Kept, taken)
       /\ Absent(CMD_QUIT, script, forgotten, taken)

\* The word is not empty.
LEMMA WordLength == Len(CMD_QUIT) \in Nat \ {0}
  BY EmptySeq

\* A read takes part of what has been typed.
LEMMA InputTakes ==
  ASSUME QuitInv, handle_user_input
  PROVE  taken' \in Nat /\ taken <= taken' /\ taken' <= typed
<1>1. /\ user_input_buffer = Part(script, Kept, taken)
      /\ taken' = taken + Smaller(typed - taken, available_space)
  BY DEF handle_user_input, At, QuitInv
<1>2. Kept \in Nat /\ Kept <= taken /\ taken - Kept <= Len(CMD_QUIT)
  BY WordLength DEF QuitInv, Kept, Window
<1>3. taken \in Nat /\ typed \in Nat /\ taken <= typed /\ taken <= Len(script)
  BY LenProperties DEF QuitInv
<1>4. Len(Part(script, Kept, taken)) = taken - Kept
  <2>1. script \in Seq(Characters)
    BY DEF QuitInv
  <2>2. QED
    BY <1>2, <1>3, <2>1, PartIs
<1>5. available_space \in Nat
  BY <1>1, <1>2, <1>3, <1>4, WordLength DEF available_space
<1>6. QED
  BY <1>1, <1>3, <1>5 DEF Smaller

\* One read of stdin: an occurrence of the word in all that was read since the
\* timeout either was there before or begins within what is kept.
LEMMA InputStep ==
  ASSUME QuitInv, handle_user_input
  PROVE  QuitInv'
<1>1. PICK s, n, f, t, u, kept :
        /\ s = script /\ n = Len(CMD_QUIT) /\ f = forgotten /\ t = taken /\ u = taken'
        /\ kept = Kept
  OBVIOUS
<1>2. /\ n \in Nat \ {0} /\ Len(CMD_QUIT) = n /\ f \in Nat /\ t \in Nat /\ u \in Nat
      /\ f <= t /\ t <= u /\ u <= typed
      /\ s \in Seq(Characters) /\ typed \in Nat /\ typed <= Len(s) /\ Len(s) \in Nat
  BY <1>1, WordLength, InputTakes, LenProperties DEF QuitInv
<1>3. outcome = "running" /\ forgotten' = f /\ script' = s /\ typed' = typed
  BY <1>1 DEF handle_user_input, At, user
<1>4. /\ script' \in Seq(Characters)
      /\ forgotten' \in Nat /\ taken' \in Nat /\ typed' \in Nat
      /\ forgotten' <= taken' /\ taken' <= typed' /\ typed' <= Len(script')
  BY <1>1, <1>2, <1>3
<1>5. CASE outcome' # "running"
  BY <1>4, <1>5 DEF QuitInv
<1>6. CASE outcome' = "running"
  <2>1. /\ user_input_buffer = Part(s, kept, t) /\ kept = Window(n, f, t)
        /\ Absent(CMD_QUIT, s, f, t)
    BY <1>1, <1>3 DEF QuitInv, Kept
  <2>2. PICK view : view = Part(s, kept, t) \o Part(s, t, u)
    OBVIOUS
  <2>3. user_input_buffer \o SubSeq(script, taken + 1, taken') = view
    BY <1>1, <2>1, <2>2 DEF Part
  <2>4. ~Occurs(CMD_QUIT, view) /\ user_input_buffer' = LastOf(n, view)
    BY <1>1, <1>6, <2>3 DEF handle_user_input
  <2>5. /\ s \in Seq(Characters) /\ Len(CMD_QUIT) \in Nat /\ Len(CMD_QUIT) = n
        /\ f \in Nat /\ t \in Nat /\ u \in Nat /\ f <= t /\ t <= u /\ u <= Len(s)
    BY <1>2
  <2>6. /\ LastOf(n, view) = Part(s, Window(n, f, u), u)
        /\ Absent(CMD_QUIT, s, f, u)
    BY <2>1, <2>2, <2>4, <2>5, WindowSlides
  <2>7. Kept' = Window(n, f, u)
    BY <1>1, <1>3 DEF Kept, Window
  <2>8. user_input_buffer' = Part(script, Kept, taken)'
    BY <1>1, <1>3, <2>4, <2>6, <2>7 DEF Part
  <2>9. Absent(CMD_QUIT, script, forgotten, taken)'
    BY <1>1, <1>3, <2>6 DEF Absent, Part
  <2>10. QED
    BY <1>4, <2>8, <2>9 DEF QuitInv
<1>7. QED
  BY <1>5, <1>6

\* No step overlooks the word.
LEMMA QuitStep == QuitInv /\ [Next]_vars => QuitInv'
<1> SUFFICES ASSUME QuitInv, [Next]_vars PROVE QuitInv'
  OBVIOUS
<1> DEFINE Deaf == /\ UNCHANGED <<script, forgotten, taken, typed>>
                   /\ outcome' = "running" => outcome = "running" /\ UNCHANGED user_input_buffer
<1>1. CASE Deaf
  BY <1>1 DEF QuitInv, Kept, Window, Absent, Part
<1>2. CASE UserTypes
  <2>1. typed' \in {typed, typed + 1} /\ typed' <= Len(script)
    BY <1>2, LenProperties DEF UserTypes, QuitInv
  <2>2. UNCHANGED <<outcome, script, forgotten, taken, user_input_buffer>>
    BY <1>2 DEF UserTypes, input
  <2>3. typed' \in Nat /\ taken <= typed'
    BY <2>1 DEF QuitInv
  <2>4. QED
    BY <2>1, <2>2, <2>3 DEF QuitInv, Kept, Window, Absent, Part
<1>3. CASE TimedOut
  <2>1. /\ UNCHANGED <<outcome, script, typed, taken>>
        /\ forgotten' = taken /\ user_input_buffer' = <<>>
    BY <1>3 DEF TimedOut, Goto, user
  <2>2. taken \in Nat /\ Kept' = taken
    BY <2>1, WordLength DEF QuitInv, Kept, Window
  <2>3. Part(script, taken, taken) = <<>>
    BY <2>2, SubSeqEmpty DEF Part
  <2>4. taken..taken - Len(CMD_QUIT) = {}
    BY <2>2, WordLength
  <2>5. QED
    BY <2>1, <2>2, <2>3, <2>4 DEF QuitInv, Absent, Part
<1>4. CASE handle_user_input
  BY <1>4, InputStep
<1>5. UNCHANGED vars \/ ServerSends \/ ServerCloses \/ Tick \/ Terminating => Deaf
  BY DEF vars, user, input, ServerSends, ServerCloses, Tick, Terminating
<1>6. \/ StayConnected \/ Connect \/ Poll \/ PollFails \/ InTime \/ NoInput \/ EmptyInput
      \/ NoNetwork \/ ReadNothing \/ handle_sending_http_data
      => Deaf
  BY DEF StayConnected, Connect, Poll, PollFails, InTime, NoInput, EmptyInput,
              NoNetwork, ReadNothing, handle_sending_http_data, Goto, user, input
<1>7. ConnectFails \/ PollError \/ SocketError \/ HungUp \/ SendFails \/ ReadEnd => Deaf
  BY DEF ConnectFails, PollError, SocketError, HungUp, SendFails, ReadEnd, Ending, End,
              user, input
<1>8. ASSUME NEW n, ReceiveEarly(n) \/ ReceiveStream(n) \/ ReceiveHead(n) PROVE Deaf
  BY <1>8 DEF ReceiveEarly, ReceiveStream, ReceiveHead, CanRead, Readable, At, Receive,
              user, input
<1>9. QED
  BY <1>1, <1>2, <1>3, <1>4, <1>5, <1>6, <1>7, <1>8 DEF Next, World, Run

\* At first nothing has been read.
LEMMA QuitInit == Init => QuitInv
<1> SUFFICES ASSUME Init PROVE QuitInv
  OBVIOUS
<1>1. script \in Seq(Characters) /\ typed = 0 /\ taken = 0 /\ forgotten = 0
  BY DEF Init
<1>2. Kept = 0 /\ 0..0 - Len(CMD_QUIT) = {}
  BY <1>1, WordLength DEF Kept, Window
<1>3. Part(script, 0, 0) = <<>> /\ user_input_buffer = <<>>
  BY SubSeqEmpty DEF Part, Init
<1>4. Len(script) \in Nat
  BY <1>1, LenProperties
<1>5. QED
  BY <1>1, <1>2, <1>3, <1>4 DEF QuitInv, Absent

\* The word quit ends the program, however reads cut it up and whatever comes
\* before it, unless a timeout comes between.
THEOREM QuitIsHeard == Spec => []QuitIsObeyed
<1>1. QuitInv => QuitIsObeyed
  <2> SUFFICES ASSUME QuitInv, outcome = "running"
               PROVE  ~Occurs(CMD_QUIT, Part(script, forgotten, taken))
    BY DEF QuitIsObeyed, Part
  <2>1. /\ script \in Seq(Characters) /\ forgotten \in Nat /\ taken \in Nat
        /\ forgotten <= taken /\ taken <= Len(script)
    BY LenProperties DEF QuitInv
  <2>2. Occurs(CMD_QUIT, Part(script, forgotten, taken))
          <=> \E k \in forgotten..taken - Len(CMD_QUIT) :
                Part(script, k, k + Len(CMD_QUIT)) = CMD_QUIT
    BY <2>1, WordLength, OccursInPart
  <2>3. QED
    BY <2>2 DEF QuitInv, Absent
<1>2. QED
  BY <1>1, QuitInit, QuitStep, PTL DEF Spec

HIDE RadioAssumption

(***************************************************************************)
(* The cookie jar.                                                         *)
(***************************************************************************)

\* A sequence whose elements are in T is a sequence over T.
LEMMA SeqInto ==
  ASSUME NEW S, NEW s \in Seq(S), NEW T, \A i \in 1..Len(s) : s[i] \in T
  PROVE  s \in Seq(T)
<1>1. PICK n \in Nat : n = Len(s)
  BY LenProperties
<1>2. s \in [1..n -> S] /\ \A i \in 1..n : s[i] \in T
  BY <1>1, LenProperties
<1>3. s \in [1..n -> T]
  BY <1>2
<1>4. QED
  BY <1>3, SeqDef

\* The least element of a set of positions is the one that Min chooses.
LEMMA MinOfSet ==
  ASSUME NEW n \in Nat, NEW s \in SUBSET (1..n), s # {}
  PROVE  Min(s) \in s /\ \A y \in s : Min(s) <= y
<1> DEFINE G == {k \in Nat : \A t \in SUBSET (1..n) :
                    (\E x \in t : x <= k) => \E x \in t : \A y \in t : x <= y}
<1>1. 0 \in G
  OBVIOUS
<1>2. ASSUME NEW k \in Nat, k \in G PROVE k + 1 \in G
  <2> SUFFICES ASSUME NEW t \in SUBSET (1..n), NEW z \in t, z <= k + 1
               PROVE  \E x \in t : \A y \in t : x <= y
    OBVIOUS
  <2>1. CASE \E x \in t : x <= k
    BY <1>2, <2>1
  <2>2. CASE ~\E x \in t : x <= k
    <3>1. \A y \in t : y >= k + 1
      BY <2>2
    <3>2. QED
      BY <3>1
  <2>3. QED
    BY <2>1, <2>2
<1>3. Nat \subseteq G
  <2> HIDE DEF G
  <2> QED
    BY <1>1, <1>2, SetInduction
<1>4. \E x \in s : \A y \in s : x <= y
  <2>1. PICK z \in s : TRUE
    OBVIOUS
  <2>2. z \in Nat /\ z \in G /\ z <= z
    BY <1>3, <2>1
  <2>3. QED
    BY <2>2
<1>5. QED
  BY <1>4, Zenon DEF Min

\* A jar is a sequence of cookies, none of them twice.
IsCookie(c) ==
  c = [key |-> c.key, value |-> c.value, domain |-> c.domain, path |-> c.path]
UniqueIn(jar) == \A i, j \in DOMAIN jar : SameCookie(jar[i], jar[j]) => i = j
IsJar(jar) ==
  /\ jar \in Seq(ToSet(jar)) /\ UniqueIn(jar)
  /\ \A i \in DOMAIN jar : IsCookie(jar[i])

\* What the jar holds once header has been merged into it.
Merged(cookies, header, host) ==
  IF header.pair # "ok" THEN cookies
  ELSE {c \in cookies : ~SameCookie(c, CookieOf(header, host))} \cup {CookieOf(header, host)}

\* Where the jar already holds a cookie.
Found(jar, new) == SelectInSeq(jar, LAMBDA c : SameCookie(c, new))

\* It is found where its like is, and nowhere if there is none.
LEMMA FoundIs ==
  ASSUME NEW S, NEW jar \in Seq(S), NEW new
  PROVE  \/ Found(jar, new) = 0 /\ \A i \in 1..Len(jar) : ~SameCookie(jar[i], new)
         \/ Found(jar, new) \in 1..Len(jar) /\ SameCookie(jar[Found(jar, new)], new)
<1>1. PICK I : I = {i \in 1..Len(jar) : SameCookie(jar[i], new)}
  OBVIOUS
<1>2. Found(jar, new) = IF I # {} THEN Min(I) ELSE 0
  BY <1>1, Zenon DEF Found, SelectInSeq
<1>3. Len(jar) \in Nat /\ I \in SUBSET (1..Len(jar))
  BY <1>1, LenProperties
<1>4. CASE I = {}
  BY <1>1, <1>2, <1>4
<1>5. CASE I # {}
  <2>1. Min(I) \in I
    BY <1>3, <1>5, MinOfSet
  <2>2. QED
    BY <1>1, <1>2, <1>5, <2>1
<1>6. QED
  BY <1>4, <1>5

\* Merging one header keeps a jar a jar.
LEMMA MergeKeeps ==
  ASSUME NEW jar, IsJar(jar), NEW header, NEW host
  PROVE  /\ IsJar(merge_cookie(jar, header, host))
         /\ ToSet(merge_cookie(jar, header, host)) = Merged(ToSet(jar), header, host)
<1>1. CASE header.pair # "ok"
  BY <1>1 DEF merge_cookie, Merged
<1>2. CASE header.pair = "ok"
  <2>1. PICK new, n, found, S, out :
            /\ new = CookieOf(header, host) /\ n = Len(jar) /\ found = Found(jar, new)
            /\ S = ToSet(jar) /\ out = merge_cookie(jar, header, host)
    OBVIOUS
  <2>2. jar \in Seq(S) /\ n \in Nat /\ DOMAIN jar = 1..n /\ S = {jar[i] : i \in 1..n}
        /\ \A i \in 1..n : jar[i] \in S /\ IsCookie(jar[i])
    BY <2>1, LenProperties DEF IsJar, ToSet
  <2>3. IsCookie(new)
    BY <2>1 DEF IsCookie, CookieOf
  <2>4. out = IF found = 0 THEN Append(jar, new) ELSE [jar EXCEPT ![found].value = new.value]
    <3>1. merge_cookie(jar, header, host)
            = IF header.pair # "ok" THEN jar
              ELSE IF Found(jar, CookieOf(header, host)) = 0
                   THEN Append(jar, CookieOf(header, host))
                   ELSE [jar EXCEPT ![Found(jar, CookieOf(header, host))].value =
                                       CookieOf(header, host).value]
      BY Zenon DEF merge_cookie, Found
    <3>2. QED
      BY <1>2, <2>1, <3>1, Zenon
  <2>5. \/ found = 0 /\ \A i \in 1..n : ~SameCookie(jar[i], new)
        \/ found \in 1..n /\ SameCookie(jar[found], new)
    <3>1. jar \in Seq(S)
      BY <2>2
    <3>2. \/ Found(jar, new) = 0 /\ \A i \in 1..Len(jar) : ~SameCookie(jar[i], new)
          \/ Found(jar, new) \in 1..Len(jar) /\ SameCookie(jar[Found(jar, new)], new)
      BY <3>1, FoundIs
    <3>3. QED
      BY <2>1, <3>2
  <2>6. ASSUME NEW i \in 1..n, NEW j \in 1..n, SameCookie(jar[i], new), SameCookie(jar[j], new)
        PROVE  i = j
    BY <2>2, <2>6 DEF IsJar, UniqueIn, SameCookie
  <2>7. CASE found = 0
    <3>1. out = Append(jar, new) /\ jar \in Seq(S \cup {new})
      BY <2>2, <2>4, <2>7, SeqMonotonic
    <3>2. /\ out \in Seq(S \cup {new}) /\ Len(out) = n + 1 /\ DOMAIN out = 1..n+1
          /\ out[n + 1] = new /\ \A i \in 1..n : out[i] = jar[i]
      BY <2>1, <2>2, <3>1
    <3>3. \A i \in 1..n : ~SameCookie(jar[i], new)
      BY <2>2, <2>5, <2>7
    <3>4. ToSet(out) = S \cup {new}
      <4>1. \A c \in S \cup {new} : \E i \in 1..n+1 : out[i] = c
        <5>1. n + 1 \in 1..n+1 /\ \A i \in 1..n : i \in 1..n+1
          BY <2>2
        <5>2. QED
          BY <2>2, <3>2, <5>1
      <4>2. \A i \in 1..n+1 : out[i] \in S \cup {new}
        BY <3>2, ElementOfSeq
      <4>3. QED
        BY <3>2, <4>1, <4>2 DEF ToSet
    <3>5. S \cup {new} = Merged(S, header, host)
      <4>1. \A c \in S : ~SameCookie(c, new)
        BY <2>2, <3>3
      <4>2. {c \in S : ~SameCookie(c, new)} = S
        BY <4>1
      <4>3. QED
        BY <1>2, <2>1, <4>2 DEF Merged
    <3>6. ASSUME NEW i \in 1..n+1, NEW j \in 1..n+1, SameCookie(out[i], out[j]) PROVE i = j
      <4>1. \A k \in 1..n+1 : k \in 1..n \/ k = n + 1
        BY <2>2
      <4>2. CASE i \in 1..n /\ j \in 1..n
        BY <2>2, <3>2, <3>6, <4>2 DEF IsJar, UniqueIn
      <4>3. CASE i \in 1..n /\ j = n + 1
        BY <3>2, <3>3, <3>6, <4>3
      <4>4. CASE i = n + 1 /\ j \in 1..n
        BY <3>2, <3>3, <3>6, <4>4 DEF SameCookie
      <4>5. QED
        BY <4>1, <4>2, <4>3, <4>4
    <3>7. \A i \in 1..n+1 : IsCookie(out[i])
      <4>1. \A k \in 1..n+1 : k \in 1..n \/ k = n + 1
        BY <2>2
      <4>2. QED
        BY <2>2, <2>3, <3>2, <4>1
    <3>8. IsJar(out)
      BY <3>2, <3>4, <3>6, <3>7 DEF IsJar, UniqueIn
    <3>9. QED
      BY <2>1, <3>4, <3>5, <3>8
  <2>8. CASE found \in 1..n
    <3>1. found # 0 /\ SameCookie(jar[found], new)
      <4>1. n \in Nat
        BY <2>2
      <4>2. found # 0
        BY <2>8, <4>1
      <4>3. QED
        BY <2>5, <4>2
    <3>2. [jar[found] EXCEPT !.value = new.value] = new
      <4>1. PICK c : c = jar[found]
        OBVIOUS
      <4>2. IsCookie(c) /\ SameCookie(c, new)
        BY <2>2, <2>8, <3>1, <4>1
      <4>3. [c EXCEPT !.value = new.value]
              = [key |-> c.key, value |-> new.value, domain |-> c.domain, path |-> c.path]
        BY <4>2 DEF IsCookie
      <4>4. QED
        BY <2>3, <4>1, <4>2, <4>3 DEF IsCookie, SameCookie
    <3>3. out = [jar EXCEPT ![found] = new]
      BY <2>4, <3>1, <3>2
    <3>4. jar \in Seq(S \cup {new}) /\ new \in S \cup {new}
      BY <2>2, SeqMonotonic
    <3>5. /\ out \in Seq(S \cup {new}) /\ Len(out) = n /\ DOMAIN out = 1..n
          /\ \A i \in 1..n : out[i] = IF i = found THEN new ELSE jar[i]
      <4>1. PICK V : V = S \cup {new}
        OBVIOUS
      <4>2. jar \in Seq(V) /\ found \in 1..Len(jar) /\ new \in V
        BY <2>1, <2>8, <3>4, <4>1
      <4>3. /\ [jar EXCEPT ![found] = new] \in Seq(V)
            /\ Len([jar EXCEPT ![found] = new]) = Len(jar)
            /\ \A j \in 1..Len(jar) :
                 [jar EXCEPT ![found] = new][j] = IF j = found THEN new ELSE jar[j]
        BY <4>2, ExceptSeq
      <4>4. out \in Seq(V) /\ Len(out) = n /\ \A i \in 1..n :
               out[i] = IF i = found THEN new ELSE jar[i]
        BY <2>1, <3>3, <4>3
      <4>5. QED
        BY <4>1, <4>4, LenProperties
    <3>6. ToSet(out) = {c \in S : ~SameCookie(c, new)} \cup {new}
      <4>1. ASSUME NEW c \in S, ~SameCookie(c, new) PROVE \E i \in 1..n : out[i] = c
        <5>1. PICK i \in 1..n : jar[i] = c
          BY <2>2
        <5>2. i # found
          BY <3>1, <4>1, <5>1
        <5>3. QED
          BY <3>5, <5>1, <5>2
      <4>2. \E i \in 1..n : out[i] = new
        BY <2>8, <3>5
      <4>3. ASSUME NEW i \in 1..n PROVE out[i] \in {c \in S : ~SameCookie(c, new)} \cup {new}
        <5>1. CASE i = found
          BY <3>5, <5>1
        <5>2. CASE i # found
          <6>1. ~SameCookie(jar[i], new)
            BY <2>6, <2>8, <3>1, <5>2
          <6>2. QED
            BY <2>2, <3>5, <5>2, <6>1
        <5>3. QED
          BY <5>1, <5>2
      <4>4. QED
        BY <3>5, <4>1, <4>2, <4>3 DEF ToSet
    <3>7. \A i \in 1..n : SameCookie(out[i], jar[i]) /\ IsCookie(out[i])
      BY <2>2, <2>3, <3>1, <3>5 DEF SameCookie
    <3>8. ASSUME NEW i \in 1..n, NEW j \in 1..n, SameCookie(out[i], out[j]) PROVE i = j
      <4>1. SameCookie(jar[i], jar[j])
        BY <3>7, <3>8 DEF SameCookie
      <4>2. QED
        BY <2>2, <4>1 DEF IsJar, UniqueIn
    <3>9. out \in Seq(ToSet(out))
      <4>1. PICK T : T = ToSet(out)
        OBVIOUS
      <4>2. \A i \in 1..n : out[i] \in T
        BY <3>5, <4>1 DEF ToSet
      <4>3. QED
        BY <3>5, <4>1, <4>2, SeqInto
    <3>10. IsJar(out)
      BY <3>5, <3>7, <3>8, <3>9 DEF IsJar, UniqueIn
    <3>11. QED
      BY <1>2, <2>1, <3>6, <3>10 DEF Merged
  <2>9. QED
    BY <2>5, <2>7, <2>8
<1>3. QED
  BY <1>1, <1>2

\* The jars that merging headers one by one passes through.
MergesAlong(c, jar, headers, n, host) ==
  /\ c[0] = jar /\ \A k \in 1..n : c[k] = merge_cookie(c[k-1], headers[k], host)
  /\ \A k \in 0..n : IsJar(c[k])

\* The headers pass through such jars, and the last of them is what MergeAll makes.
LEMMA MergeChain ==
  ASSUME NEW jar, IsJar(jar), NEW headers, NEW n \in Nat, DOMAIN headers = 1..n, NEW host
  PROVE  \E c : MergesAlong(c, jar, headers, n, host) /\ MergeAll(jar, headers, host) = c[n]
<1> DEFINE Body1(g) == [s \in SUBSET (1..n) |->
                          IF s = {} THEN jar
                          ELSE merge_cookie(g[s \ {Max(s)}], headers[Max(s)], host)]
<1>k. PICK K : K = {jar[i].key : i \in DOMAIN jar}
                     \cup {CookieOf(headers[i], host).key : i \in 1..n}
  OBVIOUS
<1>v. PICK V : V = {jar[i].value : i \in DOMAIN jar}
                     \cup {CookieOf(headers[i], host).value : i \in 1..n}
  OBVIOUS
<1>d. PICK D : D = {jar[i].domain : i \in DOMAIN jar}
                     \cup {CookieOf(headers[i], host).domain : i \in 1..n}
  OBVIOUS
<1>p. PICK P : P = {jar[i].path : i \in DOMAIN jar}
                     \cup {CookieOf(headers[i], host).path : i \in 1..n}
  OBVIOUS
<1>r. PICK R : R = [key : K, value : V, domain : D, path : P]
  OBVIOUS
<1>j. PICK Jars : Jars = {j \in Seq(R) : IsJar(j)}
  OBVIOUS
<1>1. jar \in Jars
  <2>1. \A i \in 1..Len(jar) : jar[i] \in R
    <3> SUFFICES ASSUME NEW i \in 1..Len(jar) PROVE jar[i] \in R
      OBVIOUS
    <3>1. i \in DOMAIN jar
      BY LenProperties DEF IsJar
    <3>2. jar[i].key \in K /\ jar[i].value \in V /\ jar[i].domain \in D /\ jar[i].path \in P
      BY <1>k, <1>v, <1>d, <1>p, <3>1
    <3>3. jar[i] = [key |-> jar[i].key, value |-> jar[i].value,
                    domain |-> jar[i].domain, path |-> jar[i].path]
      BY <3>1 DEF IsJar, IsCookie
    <3>4. QED
      BY <1>r, <3>2, <3>3
  <2>2. jar \in Seq(ToSet(jar))
    BY DEF IsJar
  <2>3. QED
    BY <1>j, <2>1, <2>2, SeqInto
<1>2. ASSUME NEW j \in Jars, NEW k \in 1..n PROVE merge_cookie(j, headers[k], host) \in Jars
  <2>1. PICK new, out, h : /\ h = headers[k] /\ new = CookieOf(h, host)
                           /\ out = merge_cookie(j, h, host)
    OBVIOUS
  <2>2. IsJar(j) /\ j \in Seq(R)
    BY <1>j
  <2>3. IsJar(out) /\ ToSet(out) = Merged(ToSet(j), h, host)
    BY <2>1, <2>2, MergeKeeps
  <2>4. new \in R
    <3>1. new.key \in K /\ new.value \in V /\ new.domain \in D /\ new.path \in P
      BY <1>k, <1>v, <1>d, <1>p, <2>1
    <3>2. new = [key |-> new.key, value |-> new.value, domain |-> new.domain, path |-> new.path]
      BY <2>1 DEF CookieOf
    <3>3. QED
      BY <1>r, <3>1, <3>2
  <2>5. ToSet(j) \subseteq R
    BY <2>2, ElementOfSeq, LenProperties DEF ToSet
  <2>6. ToSet(out) \subseteq R
    BY <2>1, <2>3, <2>4, <2>5 DEF Merged
  <2>7. out \in Seq(ToSet(out))
    BY <2>3 DEF IsJar
  <2>8. out \in Seq(R)
    BY <2>6, <2>7, SeqMonotonic
  <2>9. QED
    BY <1>j, <2>1, <2>3, <2>8
<1> DEFINE M == [q \in Jars \X (1..n) |-> merge_cookie(q[1], headers[q[2]], host)]
<1>3. M \in [Jars \X (1..n) -> Jars]
  BY <1>2
<1>4. \E h : h = Body1(h)
  <2>h. PICK h \in [SUBSET (1..n) -> Jars] : FoldsFrom(h, jar, n, M)
    <3> HIDE DEF M
    <3> QED
      BY <1>1, <1>3, SegmentRecursion
  <2>1. \A s \in SUBSET (1..n) : h[s] = IF s = {} THEN jar ELSE M[<<h[s \ {Max(s)}], Max(s)>>]
    <3> HIDE DEF M
    <3> QED
      BY <2>h DEF FoldsFrom
  <2>2. ASSUME NEW s \in SUBSET (1..n), s # {}
        PROVE  h[s] = merge_cookie(h[s \ {Max(s)}], headers[Max(s)], host)
    <3>1. Max(s) \in 1..n
      BY <2>2, MaxOfSet
    <3>2. h[s \ {Max(s)}] \in Jars
      OBVIOUS
    <3> QED
      BY <2>1, <2>2, <3>1, <3>2
  <2>3. \A s \in SUBSET (1..n) : h[s] = Body1(h)[s]
    BY <2>1, <2>2
  <2>4. h = Body1(h)
    BY <2>3
  <2> QED
    BY <2>4
<1>i. PICK iter : iter = CHOOSE g : g = Body1(g)
  OBVIOUS
<1>5. iter = Body1(iter)
  BY <1>4, <1>i, Zenon
<1>6. MergeAll(jar, headers, host) = iter[1..n]
  BY <1>i, Zenon DEF MergeAll, FoldLeft, MapThenFoldSet
<1>7. ASSUME NEW k \in 1..n
      PROVE  iter[1..k] = merge_cookie(iter[1..k-1], headers[k], host)
  <2>1. Max(1..k) = k /\ (1..k) \ {Max(1..k)} = 1..k-1
    BY MaxOfSegment
  <2>2. 1..k \in SUBSET (1..n) /\ 1..k # {}
    OBVIOUS
  <2>3. iter[1..k] = merge_cookie(iter[(1..k) \ {Max(1..k)}], headers[Max(1..k)], host)
    <3>1. Body1(iter)[1..k]
            = merge_cookie(iter[(1..k) \ {Max(1..k)}], headers[Max(1..k)], host)
      BY <2>2
    <3> HIDE DEF Body1
    <3> QED
      BY <1>5, <3>1
  <2> HIDE DEF Body1
  <2> QED
    BY <2>1, <2>3
<1>8. iter[1..0] = jar
  <2>1. Body1(iter)[1..0] = jar
    <3>1. 1..0 = {}
      OBVIOUS
    <3> QED
      BY <3>1
  <2> HIDE DEF Body1
  <2> QED
    BY <1>5, <2>1
<1> HIDE DEF M, Body1
<1> DEFINE c == [k \in 0..n |-> iter[1..k]]
<1>9. c[0] = jar
  BY <1>8
<1>10. \A k \in 1..n : c[k] = merge_cookie(c[k-1], headers[k], host)
  BY <1>7
<1>11. MergeAll(jar, headers, host) = c[n]
  BY <1>6
<1>12. \A k \in 0..n : c[k] \in Jars
  <2>1. \A k \in 1..n : c[k-1] \in Jars => c[k] \in Jars
    <3> HIDE DEF c
    <3> QED
      BY <1>2, <1>10
  <2> HIDE DEF c
  <2> QED
    BY <1>1, <1>9, <2>1, ChainStays
<1>13. \A k \in 0..n : IsJar(c[k])
  <2> HIDE DEF c
  <2> QED
    BY <1>j, <1>12
<1>14. MergesAlong(c, jar, headers, n, host)
  <2> HIDE DEF c
  <2> QED
    BY <1>9, <1>10, <1>13 DEF MergesAlong
<1> HIDE DEF c
<1> QED
  BY <1>11, <1>14

(***************************************************************************)
(* The parser of heads.                                                    *)
(***************************************************************************)

\* The lines that servers send, and what the parser can make of them.
SetCookies == Seq({l.cookie : l \in Lines})
Locations == {NoUrl} \cup {l.url : l \in {x \in Lines : x.t = "location"}}
HttpResponses ==
  [status_code : {0} \cup {l.code : l \in Lines},
   location    : Locations,
   icy_metaint : {0} \cup {l.n : l \in Lines},
   set_cookies : SetCookies]
Parsers == [current_line : {0, 1}, response : HttpResponses, thrown : BOOLEAN]

\* One line: only the first may set the status, and it has to.
LEMMA ParseOne ==
  ASSUME NEW p \in Parsers, NEW l \in Lines
  PROVE  LET q == parse_http_response_line(p, l)
         IN  /\ q \in Parsers
             /\ p.thrown => q = p
             /\ p.current_line = 1 =>
                  q.current_line = 1 /\ q.response.status_code = p.response.status_code
             /\ p.current_line = 0 /\ ~q.thrown =>
                  l.t = "status" /\ q.current_line = 1 /\ q.response.status_code = l.code
             /\ p.current_line = 1 /\ l.t = "body" => q = p
<1>1. PICK q : q = parse_http_response_line(p, l)
  OBVIOUS
<1>2. PICK r : r = p.response
  OBVIOUS
<1>3. PICK w, u, n, s : /\ w = r.status_code /\ u = r.location
                        /\ n = r.icy_metaint /\ s = r.set_cookies
  OBVIOUS
<1>4. /\ w \in {0} \cup {x.code : x \in Lines} /\ u \in Locations
      /\ n \in {0} \cup {x.n : x \in Lines} /\ s \in SetCookies
      /\ r = [status_code |-> w, location |-> u, icy_metaint |-> n, set_cookies |-> s]
  BY <1>2, <1>3 DEF Parsers, HttpResponses
<1>5. PICK a, b : a = p.current_line /\ b = p.thrown
  OBVIOUS
<1>6. a \in {0, 1} /\ b \in BOOLEAN /\ p = [current_line |-> a, response |-> r, thrown |-> b]
  BY <1>2, <1>5 DEF Parsers
<1> DEFINE With(a1, w1, u1, n1, s1, b1) ==
      [current_line |-> a1,
       response |-> [status_code |-> w1, location |-> u1, icy_metaint |-> n1, set_cookies |-> s1],
       thrown |-> b1]
<1>7. p = With(a, w, u, n, s, b)
  BY <1>4, <1>6
<1>8. CASE b
  BY <1>1, <1>5, <1>8 DEF parse_http_response_line
<1>9. CASE ~b /\ a = 0
  <2>1. q = ParseStatus(p, l)
    BY <1>1, <1>5, <1>9 DEF parse_http_response_line
  <2>2. CASE l.t = "status"
    <3>1. q = With(1, l.code, u, n, s, b)
      BY <1>7, <2>1, <2>2 DEF ParseStatus
    <3>2. q \in Parsers
      BY <1>4, <1>6, <3>1 DEF Parsers, HttpResponses
    <3>3. QED
      BY <1>1, <1>5, <1>9, <2>2, <3>1, <3>2
  <2>3. CASE l.t # "status"
    <3>1. q = With(a, w, u, n, s, TRUE)
      BY <1>7, <2>1, <2>3 DEF ParseStatus
    <3>2. q \in Parsers
      BY <1>4, <1>6, <3>1 DEF Parsers, HttpResponses
    <3>3. QED
      BY <1>1, <1>5, <1>9, <3>1, <3>2
  <2>4. QED
    BY <2>2, <2>3
<1>10. CASE ~b /\ a = 1
  <2>1. q = ParseHeader(p, l)
    BY <1>1, <1>5, <1>10 DEF parse_http_response_line
  <2>2. \/ l.t = "location" /\ q = With(a, w, l.url, n, s, b)
        \/ q = With(a, w, u, n, Append(s, l.cookie), b)
        \/ q = With(a, w, u, l.n, s, b)
        \/ q = With(a, w, u, n, s, TRUE)
        \/ q = p
    BY <1>7, <2>1 DEF ParseHeader
  <2>3. Append(s, l.cookie) \in SetCookies
    BY <1>4 DEF SetCookies
  <2>4. q \in Parsers
    <3>1. /\ l.t = "location" => l.url \in Locations
          /\ l.n \in {0} \cup {x.n : x \in Lines}
      BY DEF Locations
    <3>2. ASSUME NEW u1 \in Locations,
                 NEW n1 \in {0} \cup {x.n : x \in Lines},
                 NEW s1 \in SetCookies, NEW b1 \in BOOLEAN
          PROVE  With(a, w, u1, n1, s1, b1) \in Parsers
      BY <1>4, <1>6 DEF Parsers, HttpResponses
    <3> HIDE DEF With
    <3>3. QED
      BY <1>4, <1>6, <2>2, <2>3, <3>1, <3>2
  <2>5. q.current_line = a /\ q.response.status_code = w
    BY <1>7, <2>2
  <2>6. l.t = "body" => q = p
    BY <2>1 DEF ParseHeader
  <2>7. QED
    BY <1>1, <1>2, <1>3, <1>5, <1>10, <2>4, <2>5, <2>6
<1>11. QED
  BY <1>6, <1>8, <1>9, <1>10

\* The parsers that reading lines one by one passes through.
ReadsAlong(c, p, q) ==
  c[0] = p /\ \A k \in 1..Len(q) : c[k] = parse_http_response_line(c[k-1], q[k])

\* Folding is reading along them.
LEMMA ParseChain ==
  ASSUME NEW p \in Parsers, NEW q \in Seq(Lines)
  PROVE  \E c \in [0..Len(q) -> Parsers] :
           ReadsAlong(c, p, q) /\ FoldLeft(parse_http_response_line, p, q) = c[Len(q)]
<1>n. PICK n \in Nat : n = Len(q) /\ DOMAIN q = 1..n /\ \A k \in 1..n : q[k] \in Lines
  BY LenProperties, ElementOfSeq
<1> DEFINE Body1(g) == [s \in SUBSET (1..n) |->
                          IF s = {} THEN p
                          ELSE parse_http_response_line(g[s \ {Max(s)}], q[Max(s)])]
<1> DEFINE M == [x \in Parsers \X (1..n) |-> parse_http_response_line(x[1], q[x[2]])]
<1>2. ASSUME NEW j \in Parsers, NEW k \in 1..n PROVE parse_http_response_line(j, q[k]) \in Parsers
  BY <1>n, ParseOne
<1>3. M \in [Parsers \X (1..n) -> Parsers]
  BY <1>2
<1>4. \E h : h = Body1(h)
  <2>h. PICK h \in [SUBSET (1..n) -> Parsers] : FoldsFrom(h, p, n, M)
    <3> HIDE DEF M
    <3> QED
      BY <1>3, SegmentRecursion
  <2>1. \A s \in SUBSET (1..n) : h[s] = IF s = {} THEN p ELSE M[<<h[s \ {Max(s)}], Max(s)>>]
    <3> HIDE DEF M
    <3> QED
      BY <2>h DEF FoldsFrom
  <2>2. ASSUME NEW s \in SUBSET (1..n), s # {}
        PROVE  h[s] = parse_http_response_line(h[s \ {Max(s)}], q[Max(s)])
    <3>1. Max(s) \in 1..n
      BY <2>2, MaxOfSet
    <3>2. h[s \ {Max(s)}] \in Parsers
      OBVIOUS
    <3> QED
      BY <2>1, <2>2, <3>1, <3>2
  <2>3. \A s \in SUBSET (1..n) : h[s] = Body1(h)[s]
    BY <2>1, <2>2
  <2>4. h = Body1(h)
    BY <2>3
  <2> QED
    BY <2>4
<1>i. PICK iter : iter = CHOOSE g : g = Body1(g)
  OBVIOUS
<1>5. iter = Body1(iter)
  BY <1>4, <1>i, Zenon
<1>6. FoldLeft(parse_http_response_line, p, q) = iter[1..n]
  <2>1. DOMAIN q = 1..n
    BY <1>n
  <2> QED
    BY <1>i, <2>1, Zenon DEF FoldLeft, MapThenFoldSet
<1>7. ASSUME NEW k \in 1..n
      PROVE  iter[1..k] = parse_http_response_line(iter[1..k-1], q[k])
  <2>1. Max(1..k) = k /\ (1..k) \ {Max(1..k)} = 1..k-1
    BY MaxOfSegment
  <2>2. 1..k \in SUBSET (1..n) /\ 1..k # {}
    <3>1. k \in 1..k /\ \A j \in 1..k : j \in 1..n
      OBVIOUS
    <3> HIDE DEF Body1
    <3> QED
      BY <3>1
  <2>3. iter[1..k] = parse_http_response_line(iter[(1..k) \ {Max(1..k)}], q[Max(1..k)])
    <3>1. Body1(iter)[1..k] = parse_http_response_line(iter[(1..k) \ {Max(1..k)}], q[Max(1..k)])
      BY <2>2
    <3> HIDE DEF Body1
    <3> QED
      BY <1>5, <3>1
  <2> HIDE DEF Body1
  <2> QED
    BY <2>1, <2>3
<1>8. iter[1..0] = p
  <2>1. Body1(iter)[1..0] = p
    <3>1. 1..0 = {}
      OBVIOUS
    <3> QED
      BY <3>1
  <2> HIDE DEF Body1
  <2> QED
    BY <1>5, <2>1
<1> HIDE DEF M, Body1
<1> DEFINE c == [k \in 0..n |-> iter[1..k]]
<1>9. c[0] = p
  BY <1>8
<1>10. \A k \in 1..n : c[k] = parse_http_response_line(c[k-1], q[k])
  BY <1>7
<1>11. FoldLeft(parse_http_response_line, p, q) = c[n]
  BY <1>6
<1>12. \A k \in 0..n : c[k] \in Parsers
  <2>1. \A k \in 1..n : c[k-1] \in Parsers => c[k] \in Parsers
    <3> HIDE DEF c
    <3> QED
      BY <1>2, <1>10
  <2> HIDE DEF c
  <2> QED
    BY <1>9, <2>1, ChainStays
<1>13. c \in [0..n -> Parsers]
  <2>1. \A k \in 0..n : iter[1..k] \in Parsers
    BY <1>12
  <2> QED
    BY <2>1
<1>14. ReadsAlong(c, p, q)
  <2> HIDE DEF c
  <2> QED
    BY <1>n, <1>9, <1>10 DEF ReadsAlong
<1> HIDE DEF c
<1> QED
  BY <1>n, <1>11, <1>13, <1>14

\* Where the first blank line is.
LEMMA BlankIs ==
  ASSUME NEW S, NEW lines \in Seq(S)
  PROVE  \/ BlankIn(lines) = 0 /\ \A i \in 1..Len(lines) : lines[i].t # "blank"
         \/ /\ BlankIn(lines) \in 1..Len(lines) /\ lines[BlankIn(lines)].t = "blank"
            /\ \A i \in 1..BlankIn(lines) - 1 : lines[i].t # "blank"
<1>1. PICK I : I = {i \in 1..Len(lines) : lines[i].t = "blank"}
  OBVIOUS
<1>2. BlankIn(lines) = IF I # {} THEN Min(I) ELSE 0
  BY <1>1, Zenon DEF BlankIn, SelectInSeq
<1>3. Len(lines) \in Nat /\ I \in SUBSET (1..Len(lines))
  BY <1>1, LenProperties
<1>4. CASE I = {}
  BY <1>1, <1>2, <1>4
<1>5. CASE I # {}
  <2>1. PICK b : b = Min(I)
    OBVIOUS
  <2>2. b \in I /\ \A i \in I : b <= i
    BY <1>3, <1>5, <2>1, MinOfSet
  <2>3. b \in 1..Len(lines) /\ lines[b].t = "blank"
    BY <1>1, <2>2
  <2>4. \A i \in 1..b - 1 : lines[i].t # "blank"
    <3> SUFFICES ASSUME NEW i \in 1..b - 1, lines[i].t = "blank" PROVE FALSE
      OBVIOUS
    <3>1. i \in 1..Len(lines) /\ ~(b <= i)
      BY <1>3, <2>3
    <3>2. QED
      BY <1>1, <2>2, <3>1
  <2>5. QED
    BY <1>2, <1>5, <2>1, <2>3, <2>4
<1>6. QED
  BY <1>4, <1>5

\* The part of the lines that belongs to the head.
HeadPart(lines) == IF BlankIn(lines) = 0 THEN lines ELSE SubSeq(lines, 1, BlankIn(lines) - 1)

\* It has no blank line.
LEMMA HeadPartIs ==
  ASSUME NEW S, NEW lines \in Seq(S)
  PROVE  /\ HeadPart(lines) \in Seq(S)
         /\ Len(HeadPart(lines)) =
              IF BlankIn(lines) = 0 THEN Len(lines) ELSE BlankIn(lines) - 1
         /\ \A i \in 1..Len(HeadPart(lines)) :
              HeadPart(lines)[i] = lines[i] /\ lines[i].t # "blank" /\ i \in 1..Len(lines)
<1>1. PICK b, n : b = BlankIn(lines) /\ n = Len(lines)
  OBVIOUS
<1>2. n \in Nat /\ \A i \in 1..n : lines[i] \in S
  BY <1>1, LenProperties, ElementOfSeq
<1>3. \/ b = 0 /\ \A i \in 1..n : lines[i].t # "blank"
      \/ b \in 1..n /\ \A i \in 1..b - 1 : lines[i].t # "blank"
  BY <1>1, BlankIs
<1>4. CASE b = 0
  BY <1>1, <1>2, <1>3, <1>4 DEF HeadPart
<1>5. CASE b \in 1..n
  <2>1. /\ 1 \in Int /\ b - 1 \in Int /\ (b - 1) - 1 + 1 = b - 1 /\ 1..b - 1 \subseteq 1..n
        /\ b # 0 /\ b - 1 \in Nat
    BY <1>2, <1>5
  <2>2. \A i \in 1..b - 1 : lines[i] \in S
    BY <1>2, <2>1
  <2>3. /\ SubSeq(lines, 1, b - 1) \in Seq(S)
        /\ Len(SubSeq(lines, 1, b - 1)) = IF 1 <= b - 1 THEN (b - 1) - 1 + 1 ELSE 0
        /\ \A i \in 1..(b - 1) - 1 + 1 : SubSeq(lines, 1, b - 1)[i] = lines[1 + i - 1]
    BY <2>1, <2>2, SubSeqProperties
  <2>4. Len(SubSeq(lines, 1, b - 1)) = b - 1
    BY <2>1, <2>3
  <2>5. \A i \in 1..b - 1 : SubSeq(lines, 1, b - 1)[i] = lines[i]
    BY <2>1, <2>3
  <2>6. HeadPart(lines) = SubSeq(lines, 1, b - 1)
    BY <1>1, <2>1 DEF HeadPart
  <2>7. QED
    BY <1>1, <1>3, <2>1, <2>3, <2>4, <2>5, <2>6
<1>6. QED
  BY <1>3, <1>4, <1>5

\* What reading a head, or more of it, makes of the parser: the first line of a head
\* sets the status, no other line changes it.
LEMMA HeadIsRead ==
  ASSUME NEW p \in Parsers, ~p.thrown, NEW q \in Seq(Lines)
  PROVE  LET f == FoldLeft(parse_http_response_line, p, q)
         IN  /\ f \in Parsers
             /\ p.current_line = 1 =>
                  f.current_line = 1 /\ f.response.status_code = p.response.status_code
             /\ p.current_line = 0 /\ ~f.thrown =>
                  \/ q = <<>> /\ f = p
                  \/ /\ q # <<>> /\ q[1].t = "status" /\ f.current_line = 1
                     /\ f.response.status_code = q[1].code
<1>n. PICK n \in Nat : n = Len(q)
  BY LenProperties
<1>c. PICK c \in [0..Len(q) -> Parsers] :
        ReadsAlong(c, p, q) /\ FoldLeft(parse_http_response_line, p, q) = c[Len(q)]
  BY ParseChain
<1>f. PICK f : f = FoldLeft(parse_http_response_line, p, q)
  OBVIOUS
<1>1. /\ c \in [0..n -> Parsers] /\ c[0] = p /\ f = c[n]
      /\ \A k \in 1..n : c[k] = parse_http_response_line(c[k-1], q[k])
      /\ \A k \in 1..n : q[k] \in Lines
  BY <1>n, <1>c, <1>f, ElementOfSeq DEF ReadsAlong
<1>2. \A k \in 1..n : c[k-1] \in Parsers /\ c[k] \in Parsers
  <2>1. \A k \in 1..n : k - 1 \in 0..n /\ k \in 0..n
    OBVIOUS
  <2>2. QED
    BY <1>1, <2>1
<1>o. \A x \in Parsers, l \in Lines : \A y : y = parse_http_response_line(x, l) =>
        /\ y \in Parsers /\ (x.thrown => y.thrown)
        /\ x.current_line = 1 =>
             y.current_line = 1 /\ y.response.status_code = x.response.status_code
        /\ x.current_line = 0 /\ ~y.thrown =>
             l.t = "status" /\ y.current_line = 1 /\ y.response.status_code = l.code
  BY ParseOne
<1>3. f \in Parsers
  BY <1>1, n \in 0..n
<1>4. ASSUME p.current_line = 1
      PROVE  f.current_line = 1 /\ f.response.status_code = p.response.status_code
  <2>1. PICK T : T = {x \in Parsers : /\ x.current_line = 1
                                      /\ x.response.status_code = p.response.status_code}
    OBVIOUS
  <2>2. \A k \in 1..n : c[k-1] \in T => c[k] \in T
    <3>1. \A x \in T, l \in Lines : \A y : y = parse_http_response_line(x, l) => y \in T
      BY <1>o, <2>1
    <3>2. ASSUME NEW k \in 1..n, c[k-1] \in T PROVE c[k] \in T
      BY <1>1, <1>2, <3>1, <3>2
    <3>3. QED
      BY <3>2
  <2>3. c[0] \in T
    BY <1>1, <1>4, <2>1
  <2>4. c[n] \in T
    BY <2>2, <2>3, n \in 0..n, ChainStays
  <2>5. QED
    BY <1>1, <2>1, <2>4
<1>5. ASSUME p.current_line = 0, ~f.thrown
      PROVE  \/ q = <<>> /\ f = p
             \/ /\ q # <<>> /\ q[1].t = "status" /\ f.current_line = 1
                /\ f.response.status_code = q[1].code
  <2>1. CASE n = 0
    BY <1>n, <1>1, <2>1, EmptySeq
  <2>2. CASE n # 0
    <3>1. q # <<>> /\ 1 \in 1..n /\ 1 - 1 = 0 /\ n - 1 \in Nat
      BY <1>n, <2>2, EmptySeq
    <3>2. c[1] = parse_http_response_line(p, q[1]) /\ c[1] \in Parsers /\ q[1] \in Lines
      BY <1>1, <1>2, <3>1
    <3>3. PICK d : d = [k \in 0..n - 1 |-> c[k + 1]]
      OBVIOUS
    <3>4. d[0] = c[1] /\ d[n - 1] = f
      BY <1>1, <3>1, <3>3
    <3>5. \A k \in 1..n - 1 : /\ d[k] = parse_http_response_line(d[k-1], q[k + 1])
                              /\ d[k-1] \in Parsers /\ d[k] \in Parsers /\ q[k + 1] \in Lines
      <4> SUFFICES ASSUME NEW k \in 1..n - 1
                   PROVE  /\ d[k] = parse_http_response_line(d[k-1], q[k + 1])
                          /\ d[k-1] \in Parsers /\ d[k] \in Parsers /\ q[k + 1] \in Lines
        OBVIOUS
      <4>1. /\ k \in 0..n - 1 /\ k - 1 \in 0..n - 1 /\ k + 1 \in 1..n /\ (k - 1) + 1 = k
            /\ (k + 1) - 1 = k /\ k \in 1..n
        OBVIOUS
      <4>2. d[k] = c[k + 1] /\ d[k - 1] = c[k]
        BY <3>3, <4>1
      <4>3. QED
        BY <1>1, <1>2, <4>1, <4>2
    <3>6. ~c[1].thrown
      <4> SUFFICES ASSUME c[1].thrown PROVE FALSE
        OBVIOUS
      <4>1. PICK T : T = {x \in Parsers : x.thrown}
        OBVIOUS
      <4>2. \A k \in 1..n - 1 : d[k-1] \in T => d[k] \in T
        <5>1. \A x \in T, l \in Lines : \A y : y = parse_http_response_line(x, l) => y \in T
          BY <1>o, <4>1
        <5>2. ASSUME NEW k \in 1..n - 1, d[k-1] \in T PROVE d[k] \in T
          BY <3>5, <5>1, <5>2
        <5>3. QED
          BY <5>2
      <4>3. d[0] \in T
        BY <3>2, <3>4, <4>1
      <4>4. d[n - 1] \in T
        BY <3>1, <4>2, <4>3, n - 1 \in 0..n - 1, ChainStays
      <4>5. QED
        BY <1>5, <3>4, <4>1, <4>4
    <3>7. q[1].t = "status" /\ c[1].current_line = 1 /\ c[1].response.status_code = q[1].code
      BY <1>5, <1>o, <3>2, <3>6
    <3>w. PICK w : w = q[1].code
      OBVIOUS
    <3>8. PICK T : T = {x \in Parsers : x.current_line = 1 /\ x.response.status_code = w}
      OBVIOUS
    <3>9. \A k \in 1..n - 1 : d[k-1] \in T => d[k] \in T
      <4>1. \A x \in T, l \in Lines : \A y : y = parse_http_response_line(x, l) => y \in T
        BY <1>o, <3>8
      <4>2. ASSUME NEW k \in 1..n - 1, d[k-1] \in T PROVE d[k] \in T
        BY <3>5, <4>1, <4>2
      <4>3. QED
        BY <4>2
    <3>10. d[0] \in T
      BY <3>2, <3>4, <3>7, <3>8, <3>w
    <3>11. d[n - 1] \in T
      BY <3>1, <3>9, <3>10, n - 1 \in 0..n - 1, ChainStays
    <3>12. QED
      BY <3>1, <3>4, <3>7, <3>8, <3>11, <3>w
  <2>3. QED
    BY <2>1, <2>2
<1>6. QED
  BY <1>f, <1>3, <1>4, <1>5

(***************************************************************************)
(* The lines on their way, and the parser of the response being read.      *)
(***************************************************************************)
Parser == [current_line |-> state_data.current_line, response |-> state_data.response,
           thrown |-> FALSE]

\* The server's lines are lines of the responses, or of the body of one of them. While a
\* head is read the parser is one; before its first line it is the one that starts.
LineInv ==
  /\ server = [script |-> server.script, code |-> server.code, closing |-> server.closing]
  /\ server.script \in Seq(HeadLines)
  /\ server.code \in Statuses
  /\ arrived \in Seq(Lines)
  /\ conn = "CONNECTED" /\ radio = "RECEIVING_HTTP" =>
       /\ Parser \in Parsers
       /\ state_data.input_buffer \in Seq(Lines)
       /\ state_data.current_line = 0 =>
            state_data.input_buffer = <<>> /\ Parser = StartOfHead

\* What a read of the head has before it.
HeadRead(n) == state_data.input_buffer \o SubSeq(arrived, 1, n)
HeadRest(lines) == SubSeq(lines, BlankIn(lines) + 1, Len(lines))

\* After a read the head goes on, with lines for the next read or without any,
GoesOn(parser, rest) ==
  /\ radio' = "RECEIVING_HTTP" /\ played' = played
  /\ state_data' = [kind |-> "parsing", current_line |-> parser.current_line,
                    response |-> parser.response, input_buffer |-> rest]

\* if it has not ended or was the head of a response that is no answer yet;
NoAnswer(response) ==
  /\ response.status_code \in 100..599 /\ response.status_code # 200
  /\ ~IsRedirect(response)

\* or the stream begins.
Begins(rest) == radio' = "STREAMING_AUDIO" /\ played' = rest

\* The reads of the head that leave the connection open.
LEMMA HeadSteps ==
  ASSUME SocketInv, NEW n \in 0..SocketSize, ReceiveHead(n), ~Parted,
         NEW lines, lines = HeadRead(n), NEW parser, parser = ParseHead(lines)
  PROVE  /\ ~parser.thrown
         /\ arrived' = SubSeq(arrived, n + 1, Len(arrived)) /\ n <= Len(arrived)
         /\ conn = "CONNECTED" /\ UNCHANGED <<outcome, url, client_cookies, conn, server>>
         /\ \/ BlankIn(lines) = 0 /\ GoesOn(parser, <<>>)
            \/ BlankIn(lines) # 0 /\ NoAnswer(parser.response) /\ GoesOn(parser, HeadRest(lines))
            \/ /\ BlankIn(lines) # 0 /\ parser.response.status_code = 200
               /\ Begins(HeadRest(lines))
<1>1. /\ radio = "RECEIVING_HTTP" /\ outcome = "running" /\ Receive(n) /\ n <= Len(arrived)
  BY DEF ReceiveHead, CanRead, Readable, At
<1>2. /\ radio' \in {"RECEIVING_HTTP", "STREAMING_AUDIO"}
      /\ UNCHANGED <<outcome, url, client_cookies, conn, server>>
  BY HeadOutcomes
<1>3. ~Fail
  BY <1>1, <1>2 DEF Fail
<1>4. /\ ~parser.thrown
      /\ \/ BlankIn(lines) = 0 /\ GoOnParsing(parser, <<>>)
         \/ BlankIn(lines) # 0 /\ handle_http(parser, HeadRest(lines))
  BY <1>3 DEF ReceiveHead, HeadRead, HeadRest
<1>5. ASSUME NEW rest, GoOnParsing(parser, rest) PROVE GoesOn(parser, rest)
  BY <1>1, <1>5 DEF GoOnParsing, GoesOn
<1>6. ASSUME handle_http(parser, HeadRest(lines))
      PROVE  \/ NoAnswer(parser.response) /\ GoesOn(parser, HeadRest(lines))
             \/ parser.response.status_code = 200 /\ Begins(HeadRest(lines))
  <2>1. validate_http_response(parser.response)
    BY <1>3, <1>6 DEF handle_http
  <2>2. CASE parser.response.status_code = 200 /\ HandleOK(HeadRest(lines))
    <3>1. Play(HeadRest(lines)) /\ radio' = "STREAMING_AUDIO"
      BY <2>2 DEF HandleOK
    <3>2. played' = HeadRest(lines)
      BY <1>1, <1>2, <3>1 DEF Play
    <3>3. QED
      BY <2>2, <3>1, <3>2 DEF Begins
  <2>3. CASE HandleRedirect(parser.response) /\ IsRedirect(parser.response)
    <3>1. parser.response.location # NoUrl
      BY <2>1, <2>3 DEF validate_http_response
    <3>2. radio' = "NOT_CONNECTED"
      BY <1>3, <2>3, <3>1 DEF HandleRedirect
    <3>3. QED
      BY <1>2, <3>2
  <2>4. CASE /\ parser.response.status_code # 200 /\ ~IsRedirect(parser.response)
             /\ GoOnParsing(parser, HeadRest(lines))
    BY <1>5, <2>1, <2>4 DEF validate_http_response, NoAnswer
  <2>5. QED
    BY <1>3, <1>6, <2>1, <2>2, <2>3, <2>4 DEF handle_http
<1>7. arrived' = SubSeq(arrived, n + 1, Len(arrived)) /\ conn = "CONNECTED"
  <2>1. conn = "CONNECTED" /\ conn' # "IDLE"
    BY <1>1, <1>2 DEF SocketInv
  <2>2. QED
    BY <1>1, <2>1 DEF Receive
<1>8. QED
  BY <1>1, <1>2, <1>4, <1>5, <1>6, <1>7

\* The responses consist of lines, and everything that comes is one.
LEMMA HeardLines ==
  /\ \A r \in Responses : r \in Seq(HeadLines)
  /\ HeadLines \subseteq Lines
  /\ \A code \in Statuses : Body(code) \in Lines
<1>1. ASSUME NEW r \in Responses PROVE r \in Seq(HeadLines)
  <2>1. r \in Seq(ToSet(r)) /\ ToSet(r) \subseteq HeadLines
    BY HeadsAssumption DEF HeadLines
  <2>2. QED
    BY <2>1, SeqMonotonic
<1>2. QED
  BY <1>1 DEF Lines

\* What is not read of the lines there are.
LEMMA UnreadIs ==
  ASSUME NEW S, NEW s \in Seq(S), NEW n \in Nat, n <= Len(s)
  PROVE  LET rest == SubSeq(s, n + 1, Len(s))
         IN  /\ rest \in Seq(S) /\ Len(rest) = Len(s) - n
             /\ \A i \in 1..Len(s) - n : rest[i] = s[n + i]
<1>1. Len(s) \in Nat /\ Len(s) <= Len(s)
  BY LenProperties
<1>2. PICK m : m = Len(s)
  OBVIOUS
<1>3. /\ Part(s, n, m) \in Seq(S) /\ Len(Part(s, n, m)) = m - n
      /\ \A i \in 1..m - n : Part(s, n, m)[i] = s[n + i]
  <2>1. m \in Nat /\ n <= m /\ m <= Len(s)
    BY <1>1, <1>2
  <2>2. QED
    BY <2>1, PartIs
<1>4. QED
  BY <1>2, <1>3 DEF Part

\* The lines that are read first, and with what was kept before.
LEMMA ReadIs ==
  ASSUME NEW S, NEW kept \in Seq(S), NEW s \in Seq(S), NEW n \in Nat, n <= Len(s)
  PROVE  /\ SubSeq(s, 1, n) \in Seq(S) /\ Len(SubSeq(s, 1, n)) = n
         /\ \A i \in 1..n : SubSeq(s, 1, n)[i] = s[i]
         /\ kept \o SubSeq(s, 1, n) \in Seq(S)
         /\ kept = <<>> => kept \o SubSeq(s, 1, n) = SubSeq(s, 1, n)
<1>1. Len(s) \in Nat /\ 0 \in Nat /\ 0 <= n
  BY LenProperties
<1>2. /\ Part(s, 0, n) \in Seq(S) /\ Len(Part(s, 0, n)) = n - 0
      /\ \A i \in 1..n - 0 : Part(s, 0, n)[i] = s[0 + i]
  BY <1>1, PartIs
<1>3. /\ SubSeq(s, 1, n) \in Seq(S) /\ Len(SubSeq(s, 1, n)) = n
      /\ \A i \in 1..n : SubSeq(s, 1, n)[i] = s[i]
  <2>1. n - 0 = n /\ 0 + 1 = 1 /\ \A i \in 1..n : 0 + i = i
    OBVIOUS
  <2>2. QED
    BY <1>2, <2>1 DEF Part
<1>4. QED
  BY <1>3, ConcatProperties, ConcatEmptySeq

\* The parser after a read of the head.
LEMMA HeadIsParsed ==
  ASSUME LineInv, conn = "CONNECTED", radio = "RECEIVING_HTTP",
         NEW n \in Nat, n <= Len(arrived),
         NEW lines, lines = HeadRead(n), NEW parser, parser = ParseHead(lines)
  PROVE  /\ lines \in Seq(Lines) /\ parser \in Parsers
         /\ state_data.current_line = 0 => lines = SubSeq(arrived, 1, n)
         /\ Parser.current_line = 1 =>
              /\ parser.current_line = 1
              /\ parser.response.status_code = Parser.response.status_code
         /\ Parser.current_line = 0 /\ ~parser.thrown =>
              \/ HeadPart(lines) = <<>> /\ parser = Parser
              \/ /\ HeadPart(lines) # <<>> /\ HeadPart(lines)[1].t = "status"
                 /\ parser.current_line = 1
                 /\ parser.response.status_code = HeadPart(lines)[1].code
<1>1. PICK kept : kept = state_data.input_buffer
  OBVIOUS
<1>2. /\ kept \in Seq(Lines) /\ arrived \in Seq(Lines) /\ Parser \in Parsers
      /\ state_data.current_line = 0 => kept = <<>>
  BY <1>1 DEF LineInv
<1>3. lines = kept \o SubSeq(arrived, 1, n)
  BY <1>1 DEF HeadRead
<1>4. lines \in Seq(Lines) /\ (kept = <<>> => lines = SubSeq(arrived, 1, n))
  BY <1>2, <1>3, ReadIs
<1>5. PICK p, q : p = Parser /\ q = HeadPart(lines)
  OBVIOUS
<1>6. p \in Parsers /\ ~p.thrown /\ q \in Seq(Lines)
  BY <1>2, <1>4, <1>5, HeadPartIs DEF Parser
<1>7. parser = FoldLeft(parse_http_response_line, p, q)
  BY <1>5, Zenon DEF ParseHead, Parser, HeadPart
<1>8. PICK f : f = FoldLeft(parse_http_response_line, p, q)
  OBVIOUS
<1>9. /\ f \in Parsers
      /\ p.current_line = 1 =>
           f.current_line = 1 /\ f.response.status_code = p.response.status_code
      /\ p.current_line = 0 /\ ~f.thrown =>
           \/ q = <<>> /\ f = p
           \/ /\ q # <<>> /\ q[1].t = "status" /\ f.current_line = 1
              /\ f.response.status_code = q[1].code
  BY <1>6, <1>8, HeadIsRead
<1>10. QED
  BY <1>2, <1>4, <1>5, <1>7, <1>8, <1>9

\* A parser that has a status is behind the first line.
LEMMA StatusIsRead ==
  ASSUME LineInv, conn = "CONNECTED", radio = "RECEIVING_HTTP",
         NEW n \in Nat, n <= Len(arrived),
         NEW lines, lines = HeadRead(n), NEW parser, parser = ParseHead(lines),
         ~parser.thrown, parser.response.status_code # 0
  PROVE  parser.current_line = 1
<1>1. /\ parser \in Parsers
      /\ Parser.current_line = 0 => parser = Parser \/ parser.current_line = 1
      /\ Parser.current_line = 1 => parser.current_line = 1
  BY HeadIsParsed
<1>2. Parser \in Parsers /\ (Parser.current_line = 0 => Parser = StartOfHead)
  BY DEF LineInv, Parser
<1>3. Parser.current_line \in {0, 1}
  BY <1>2 DEF Parsers
<1>4. StartOfHead.response.status_code = 0
  BY DEF StartOfHead, EmptyResponse
<1>5. QED
  BY <1>1, <1>2, <1>3, <1>4

\* The parser that starts a response.
LEMMA StartIsParser == StartOfHead \in Parsers
<1>1. <<>> \in SetCookies
  BY EmptySeq DEF SetCookies
<1>2. QED
  BY <1>1 DEF StartOfHead, EmptyResponse, Parsers, HttpResponses, Locations

\* Every step keeps the lines lines and the parser a parser.
LEMMA LineStep ==
  ASSUME SocketInv, LineInv, [Next]_vars
  PROVE  LineInv'
<1>s. /\ server = [script |-> server.script, code |-> server.code, closing |-> server.closing]
      /\ server.script \in Seq(HeadLines)
      /\ server.code \in Statuses
      /\ arrived \in Seq(Lines)
  BY DEF LineInv
<1>1. CASE SameSession
  <2>1. CASE UNCHANGED server
    BY <1>1, <2>1 DEF SameSession, LineInv, Parser
  <2>2. CASE ServerCloses
    <3>1. PICK how : server' = [server EXCEPT !.closing = how]
      BY <2>2 DEF ServerCloses
    <3>2. server' = [script |-> server.script, code |-> server.code, closing |-> how]
      BY <1>s, <3>1
    <3>3. QED
      BY <1>1, <1>s, <3>2 DEF SameSession, LineInv, Parser
  <2>3. QED
    BY <1>1, <2>1, <2>2 DEF SameSession
<1>2. CASE Parted
  <2>1. conn' = "IDLE" /\ server' = NoServer /\ arrived' = <<>>
    BY <1>2 DEF Parted, Cut
  <2>2. QED
    BY <2>1, EmptySeq DEF NoServer, LineInv, Statuses
<1>3. CASE Connect
  <2>1. PICK r \in Responses : server' = [script |-> r, code |-> 0, closing |-> "open"]
    BY <1>3 DEF Connect
  <2>2. r \in Seq(HeadLines)
    BY HeardLines
  <2>3. arrived' = <<>> /\ radio' = "SENDING_HTTP"
    BY <1>3 DEF Connect
  <2>4. QED
    BY <2>1, <2>2, <2>3, EmptySeq DEF LineInv, Statuses
<1>4. CASE ServerSends
  <2>1. UNCHANGED <<radio, state_data, conn>>
    BY <1>4 DEF ServerSends, client
  <2>2. CASE server.script # <<>>
    <3>1. PICK s, l : s = server.script /\ l = s[1]
      OBVIOUS
    <3>2. l \in HeadLines /\ Tail(s) \in Seq(HeadLines) /\ l \in Lines
      BY <1>s, <2>2, <3>1, EmptySeq, ElementOfSeq, HeadTailProperties, HeardLines
    <3>3. arrived' = Append(arrived, l)
      BY <1>4, <2>2, <3>1 DEF ServerSends
    <3>4. server' = [server EXCEPT !.script = Tail(@),
                                   !.code = IF l.t = "status" THEN l.code ELSE @]
      BY <1>4, <2>2, <3>1 DEF ServerSends
    <3>5. PICK code : code = IF l.t = "status" THEN l.code ELSE server.code
      OBVIOUS
    <3>6. server' = [script |-> Tail(s), code |-> code, closing |-> server.closing]
      BY <1>s, <3>1, <3>4, <3>5
    <3>7. code \in Statuses
      BY <1>s, <3>2, <3>5 DEF Statuses
    <3>8. arrived' \in Seq(Lines)
      BY <1>s, <3>2, <3>3
    <3>9. QED
      BY <2>1, <3>2, <3>6, <3>7, <3>8 DEF LineInv, Parser
  <2>3. CASE server.script = <<>>
    <3>1. arrived' = Append(arrived, Body(server.code)) /\ server' = server
      BY <1>4, <2>3 DEF ServerSends
    <3>2. arrived' \in Seq(Lines)
      BY <1>s, <3>1, HeardLines
    <3>3. QED
      BY <2>1, <3>1, <3>2 DEF LineInv, Parser
  <2>4. QED
    BY <2>2, <2>3
<1>5. CASE handle_sending_http_data
  <2>1. UNCHANGED <<server, arrived, conn>> /\ radio = "SENDING_HTTP"
    BY <1>5 DEF handle_sending_http_data, MaySend
  <2>2. CASE radio' = "RECEIVING_HTTP"
    <3>1. state_data' = [kind |-> "parsing", current_line |-> 0,
                         response |-> EmptyResponse, input_buffer |-> <<>>]
      BY <1>5, <2>1, <2>2 DEF handle_sending_http_data
    <3>2. Parser' = StartOfHead
      BY <3>1 DEF Parser, StartOfHead
    <3>3. state_data'.input_buffer = <<>>
      BY <3>1
    <3>4. Parser' \in Parsers
      BY <3>2, StartIsParser
    <3>5. QED
      BY <2>1, <3>2, <3>3, <3>4, EmptySeq DEF LineInv
  <2>3. CASE radio' # "RECEIVING_HTTP"
    BY <2>1, <2>3 DEF LineInv
  <2>4. QED
    BY <2>2, <2>3
<1>6. ASSUME NEW n \in 1..SocketSize, ReceiveEarly(n) PROVE LineInv'
  <2>1. /\ radio' = "SENDING_HTTP" /\ UNCHANGED server
        /\ n \in Nat /\ n <= Len(arrived)
        /\ arrived' = <<>> \/ arrived' = SubSeq(arrived, n + 1, Len(arrived))
    BY <1>6 DEF ReceiveEarly, StayOpen, Receive, CanRead, client
  <2>2. arrived' \in Seq(Lines)
    <3>1. CASE arrived' = <<>>
      BY <3>1, EmptySeq
    <3>2. CASE arrived' = SubSeq(arrived, n + 1, Len(arrived))
      BY <1>s, <2>1, <3>2, UnreadIs
    <3>3. QED
      BY <2>1, <3>1, <3>2
  <2>3. QED
    BY <1>s, <2>1, <2>2 DEF LineInv
<1>7. ASSUME NEW n \in 1..SocketSize, ReceiveStream(n), ~Parted PROVE LineInv'
  <2>1. /\ radio' = "STREAMING_AUDIO" /\ UNCHANGED server
        /\ n \in Nat /\ n <= Len(arrived)
        /\ arrived' = <<>> \/ arrived' = SubSeq(arrived, n + 1, Len(arrived))
    BY <1>7 DEF ReceiveStream, CanRead, Readable, At, Play, StayOpen, Close, Receive, client,
                Cut, Ended, Parted
  <2>2. arrived' \in Seq(Lines)
    <3>1. CASE arrived' = <<>>
      BY <3>1, EmptySeq
    <3>2. CASE arrived' = SubSeq(arrived, n + 1, Len(arrived))
      BY <1>s, <2>1, <3>2, UnreadIs
    <3>3. QED
      BY <2>1, <3>1, <3>2
  <2>3. QED
    BY <1>s, <2>1, <2>2 DEF LineInv
<1>8. ASSUME NEW n \in 0..SocketSize, ReceiveHead(n), ~Parted PROVE LineInv'
  <2>1. PICK lines, parser : lines = HeadRead(n) /\ parser = ParseHead(lines)
    OBVIOUS
  <2>2. /\ ~parser.thrown
        /\ arrived' = SubSeq(arrived, n + 1, Len(arrived)) /\ n <= Len(arrived)
        /\ conn = "CONNECTED" /\ UNCHANGED <<outcome, url, client_cookies, conn, server>>
        /\ \/ BlankIn(lines) = 0 /\ GoesOn(parser, <<>>)
           \/ BlankIn(lines) # 0 /\ NoAnswer(parser.response) /\ GoesOn(parser, HeadRest(lines))
           \/ /\ BlankIn(lines) # 0 /\ parser.response.status_code = 200
              /\ Begins(HeadRest(lines))
    BY <1>8, <2>1, HeadSteps
  <2>3. radio = "RECEIVING_HTTP" /\ n \in Nat
    BY <1>8 DEF ReceiveHead
  <2>4. /\ lines \in Seq(Lines) /\ parser \in Parsers
        /\ Parser.current_line = 1 => parser.current_line = 1
        /\ Parser.current_line = 0 => parser = Parser \/ parser.current_line = 1
    BY <2>1, <2>2, <2>3, HeadIsParsed
  <2>5. arrived' \in Seq(Lines)
    BY <1>s, <2>2, <2>3, UnreadIs
  <2>6. Parser \in Parsers /\ (Parser.current_line = 0 => Parser = StartOfHead)
    BY <2>2, <2>3 DEF LineInv, Parser
  <2>7. ASSUME NEW rest \in Seq(Lines), GoesOn(parser, rest),
               parser.current_line = 0 => rest = <<>>
        PROVE  LineInv'
    <3>1. /\ state_data'.current_line = parser.current_line
          /\ state_data'.response = parser.response /\ state_data'.input_buffer = rest
      BY <2>7 DEF GoesOn
    <3>2. Parser' = parser
      BY <2>2, <2>4, <3>1 DEF Parser, Parsers
    <3>3. parser.current_line = 0 => parser = StartOfHead
      BY <2>4, <2>6 DEF Parsers
    <3>4. QED
      BY <1>s, <2>2, <2>4, <2>5, <2>7, <3>1, <3>2, <3>3 DEF LineInv
  <2>8. CASE BlankIn(lines) = 0 /\ GoesOn(parser, <<>>)
    BY <2>7, <2>8, EmptySeq
  <2>9. CASE BlankIn(lines) # 0 /\ NoAnswer(parser.response) /\ GoesOn(parser, HeadRest(lines))
    <3>1. parser.current_line # 0
      <4>1. parser.response.status_code # 0
        BY <2>9 DEF NoAnswer
      <4>2. QED
        BY <2>1, <2>2, <2>3, <4>1, StatusIsRead
    <3>2. PICK b : b = BlankIn(lines)
      OBVIOUS
    <3>3. b \in 1..Len(lines) /\ Len(lines) \in Nat
      BY <2>4, <2>9, <3>2, BlankIs, LenProperties
    <3>4. b \in Nat /\ b <= Len(lines)
      BY <3>3
    <3>5. HeadRest(lines) \in Seq(Lines)
      BY <2>4, <3>2, <3>4, UnreadIs DEF HeadRest
    <3>6. QED
      BY <2>7, <2>9, <3>1, <3>5
  <2>10. CASE Begins(HeadRest(lines))
    BY <1>s, <2>2, <2>5, <2>10 DEF Begins, LineInv
  <2>11. QED
    BY <2>2, <2>8, <2>9, <2>10
<1>9. QED
  BY <1>1, <1>2, <1>3, <1>4, <1>5, <1>6, <1>7, <1>8, SessionSteps

(***************************************************************************)
(* Whatever is played is a stream.                                         *)
(***************************************************************************)

\* Behind position i of L nothing but the rest of a head with status 200 comes, and
\* behind the blank line nothing but the stream.
Behind200(L, i) ==
  \A j \in 1..Len(L) : j > i =>
    /\ L[j].t # "status"
    /\ L[j].t = "blank" => \A k \in 1..Len(L) : k > j => L[k] = Body(200)

\* That is so behind every status line of a 200; code, the status that the server gave
\* last, is 200 if such a line is among the m it has sent.
Orderly(L, m, code) ==
  \A i \in 1..Len(L) : L[i].t = "status" /\ L[i].code = 200 =>
    Behind200(L, i) /\ (i <= m => code = 200)

OnlyStream(L) == \A i \in 1..Len(L) : L[i] = Body(200)

\* The server sends one more line of the body,
LEMMA MoreBody ==
  ASSUME NEW S, NEW L \in Seq(S), NEW code, NEW N, N = Append(L, Body(code))
  PROVE  /\ Orderly(L, Len(L), code) => Orderly(N, Len(N), code)
         /\ code = 200 => \A i : Behind200(L, i) => Behind200(N, i)
         /\ code = 200 /\ OnlyStream(L) => OnlyStream(N)
<1>1. PICK n \in Nat : n = Len(L)
  BY LenProperties
<1>b. PICK b : b = Body(code)
  OBVIOUS
<1>2. /\ Len(N) = n + 1 /\ N[n + 1] = b /\ \A i \in 1..n : N[i] = L[i]
  <2>1. PICK T : T = S \cup {b}
    OBVIOUS
  <2>2. L \in Seq(T) /\ b \in T
    BY <2>1, SeqMonotonic
  <2>3. N = Append(L, b)
    BY <1>b
  <2>4. QED
    BY <1>1, <2>2, <2>3
<1>3. /\ b.t # "status" /\ b.t # "blank" /\ (code = 200 => b = Body(200))
  BY <1>b DEF Body
<1>4. \A i \in 1..n + 1 : i \in 1..n \/ i = n + 1
  OBVIOUS
<1>5. ASSUME code = 200, NEW i, Behind200(L, i) PROVE Behind200(N, i)
  <2> SUFFICES ASSUME NEW j \in 1..n + 1, j > i
               PROVE  /\ N[j].t # "status"
                      /\ N[j].t = "blank" => \A k \in 1..n + 1 : k > j => N[k] = Body(200)
    BY <1>2 DEF Behind200
  <2>1. CASE j = n + 1
    BY <1>2, <1>3, <2>1
  <2>2. CASE j \in 1..n
    <3>1. /\ L[j].t # "status"
          /\ L[j].t = "blank" => \A k \in 1..n : k > j => L[k] = Body(200)
      BY <1>1, <1>5, <2>2 DEF Behind200
    <3>2. QED
      BY <1>2, <1>3, <1>4, <1>5, <2>2, <3>1
  <2>3. QED
    BY <1>4, <2>1, <2>2
<1>6. ASSUME Orderly(L, Len(L), code) PROVE Orderly(N, Len(N), code)
  <2> SUFFICES ASSUME NEW i \in 1..n + 1, N[i].t = "status", N[i].code = 200
               PROVE  Behind200(N, i) /\ code = 200
    BY <1>2 DEF Orderly
  <2>1. i \in 1..n /\ L[i].t = "status" /\ L[i].code = 200
    BY <1>2, <1>3, <1>4
  <2>2. Behind200(L, i) /\ (i <= n => code = 200)
    BY <1>1, <1>6, <2>1 DEF Orderly
  <2>3. code = 200
    BY <2>1, <2>2
  <2>4. QED
    BY <1>5, <2>2, <2>3
<1>7. ASSUME code = 200, OnlyStream(L) PROVE OnlyStream(N)
  BY <1>1, <1>2, <1>3, <1>4, <1>7 DEF OnlyStream
<1>8. QED
  BY <1>5, <1>6, <1>7

\* one of the lines it had to send,
LEMMA OneMoreSent ==
  ASSUME NEW L, NEW m \in Nat, m + 1 \in 1..Len(L), NEW code, Orderly(L, m, code),
         NEW new, new = IF L[m + 1].t = "status" THEN L[m + 1].code ELSE code
  PROVE  Orderly(L, m + 1, new)
<1> SUFFICES ASSUME NEW i \in 1..Len(L), L[i].t = "status", L[i].code = 200
             PROVE  Behind200(L, i) /\ (i <= m + 1 => new = 200)
  BY DEF Orderly
<1>1. Behind200(L, i) /\ (i <= m => code = 200)
  BY DEF Orderly
<1>2. CASE i = m + 1
  BY <1>1, <1>2
<1>3. CASE i <= m
  <2>1. L[m + 1].t # "status"
    <3>1. m + 1 > i
      BY <1>3
    <3>2. QED
      BY <1>1, <3>1 DEF Behind200
  <2>2. QED
    BY <1>1, <1>3, <2>1
<1>4. i = m + 1 \/ i <= m \/ ~(i <= m + 1)
  OBVIOUS
<1>5. QED
  BY <1>1, <1>2, <1>3, <1>4

\* and some have been read.
LEMMA SomeAreRead ==
  ASSUME NEW L, NEW N, NEW n \in Nat, Len(L) \in Nat, n <= Len(L), Len(N) = Len(L) - n,
         \A i \in 1..Len(N) : N[i] = L[n + i]
  PROVE  /\ \A m, code : m \in Nat /\ Orderly(L, m, code) => Orderly(N, m - n, code)
         /\ \A i \in 0..n : Behind200(L, i) => Behind200(N, 0)
         /\ OnlyStream(L) => OnlyStream(N)
<1>1. PICK a \in Nat : a = Len(L)
  OBVIOUS
<1>2. Len(N) = a - n /\ \A i \in 1..a - n : N[i] = L[n + i] /\ n + i \in 1..a
  BY <1>1
<1>3. ASSUME NEW i \in Nat, NEW j \in Nat, j <= n + i, Behind200(L, j) PROVE Behind200(N, i)
  <2> SUFFICES ASSUME NEW k \in 1..a - n, k > i
               PROVE  /\ N[k].t # "status"
                      /\ N[k].t = "blank" => \A l \in 1..a - n : l > k => N[l] = Body(200)
    BY <1>2 DEF Behind200
  <2>1. n + k \in 1..a /\ n + k > j /\ N[k] = L[n + k]
    BY <1>2, <1>3
  <2>2. /\ L[n + k].t # "status"
        /\ L[n + k].t = "blank" => \A l \in 1..a : l > n + k => L[l] = Body(200)
    BY <1>1, <1>3, <2>1 DEF Behind200
  <2>3. ASSUME NEW l \in 1..a - n, l > k PROVE N[l] = L[n + l] /\ n + l \in 1..a /\ n + l > n + k
    BY <1>2, <2>3
  <2>4. QED
    BY <2>1, <2>2, <2>3
<1>4. ASSUME NEW m \in Nat, NEW code, Orderly(L, m, code) PROVE Orderly(N, m - n, code)
  <2> SUFFICES ASSUME NEW i \in 1..a - n, N[i].t = "status", N[i].code = 200
               PROVE  Behind200(N, i) /\ (i <= m - n => code = 200)
    BY <1>2 DEF Orderly
  <2>1. n + i \in 1..a /\ L[n + i].t = "status" /\ L[n + i].code = 200
    BY <1>2
  <2>2. Behind200(L, n + i) /\ (n + i <= m => code = 200)
    BY <1>1, <1>4, <2>1 DEF Orderly
  <2>3. Behind200(N, i)
    <3>1. PICK j \in Nat : j = n + i
      OBVIOUS
    <3>2. QED
      BY <1>3, <2>2, <3>1
  <2>4. QED
    BY <2>2, <2>3
<1>5. ASSUME NEW i \in 0..n, Behind200(L, i) PROVE Behind200(N, 0)
  BY <1>3, <1>5
<1>6. OnlyStream(L) => OnlyStream(N)
  BY <1>1, <1>2 DEF OnlyStream
<1>7. QED
  BY <1>4, <1>5, <1>6

\* The lines that come: in the socket, and those the server still has.
Coming == arrived \o server.script

\* What is in a sequence behind another.
LEMMA ComingIs ==
  ASSUME NEW S, NEW a \in Seq(S), NEW b \in Seq(S)
  PROVE  /\ a \o b \in Seq(S) /\ Len(a \o b) = Len(a) + Len(b)
         /\ Len(a) \in Nat /\ Len(b) \in Nat
         /\ \A i \in 1..Len(a) : (a \o b)[i] = a[i]
         /\ \A i \in 1..Len(b) : (a \o b)[Len(a) + i] = b[i]
<1>1. PICK m \in Nat, n \in Nat : m = Len(a) /\ n = Len(b)
  BY LenProperties
<1>2. PICK c : c = a \o b
  OBVIOUS
<1>3. /\ c \in Seq(S) /\ Len(c) = m + n
      /\ \A i \in 1..m + n : c[i] = IF i <= m THEN a[i] ELSE b[i - m]
  BY <1>1, <1>2, ConcatProperties
<1>4. \A i \in 1..m : c[i] = a[i]
  BY <1>3
<1>5. \A i \in 1..n : c[m + i] = b[i]
  <2> SUFFICES ASSUME NEW i \in 1..n PROVE c[m + i] = b[i]
    OBVIOUS
  <2>1. m + i \in 1..m + n /\ ~(m + i <= m) /\ (m + i) - m = i
    OBVIOUS
  <2>2. QED
    BY <1>3, <2>1
<1>6. QED
  BY <1>1, <1>2, <1>3, <1>4, <1>5

\* A line that the server sends has been to come before,
LEMMA SendingMoves ==
  ASSUME NEW S, NEW a \in Seq(S), NEW b \in Seq(S), b # <<>>
  PROVE  Append(a, b[1]) \o Tail(b) = a \o b
<1>1. b[1] \in S /\ Tail(b) \in Seq(S) /\ b = <<b[1]>> \o Tail(b)
  <2>1. Len(b) \in Nat \ {0}
    BY EmptySeq
  <2>2. b[1] \in S
    BY <2>1, ElementOfSeq
  <2>3. Tail(b) \in Seq(S)
    BY HeadTailProperties
  <2>4. b = <<b[1]>> \o Tail(b)
    <3>1. 1 \in 1..Len(b) /\ Len(b) \in 1..Len(b)
      BY <2>1
    <3>2. SubSeq(b, 1, Len(b)) = <<b[1]>> \o SubSeq(b, 1 + 1, Len(b))
      BY <3>1, SubSeqRecursiveFirst
    <3>3. SubSeq(b, 1, Len(b)) = b /\ Tail(b) = SubSeq(b, 2, Len(b))
      BY SubSeqFull, TailIsSubSeq
    <3>4. QED
      BY <3>2, <3>3
  <2>5. QED
    BY <2>2, <2>3, <2>4
<1>2. PICK x, t : x = b[1] /\ t = Tail(b)
  OBVIOUS
<1>3. x \in S /\ t \in Seq(S) /\ b = <<x>> \o t /\ <<x>> \in Seq(S)
  BY <1>1, <1>2
<1>4. Append(a, x) = a \o <<x>>
  BY <1>3, AppendIsConcat
<1>5. (a \o <<x>>) \o t = a \o (<<x>> \o t)
  BY <1>3, ConcatAssociative
<1>6. QED
  BY <1>2, <1>3, <1>4, <1>5

\* and what has not been read comes next.
LEMMA ReadingMoves ==
  ASSUME NEW S, NEW a \in Seq(S), NEW b \in Seq(S), NEW n \in Nat, n <= Len(a),
         NEW L, L = a \o b, NEW N, N = SubSeq(a, n + 1, Len(a)) \o b
  PROVE  /\ Len(L) \in Nat /\ n <= Len(L) /\ Len(N) = Len(L) - n
         /\ \A i \in 1..Len(N) : N[i] = L[n + i]
         /\ Len(SubSeq(a, n + 1, Len(a))) = Len(a) - n
<1>1. PICK p \in Nat, q \in Nat : p = Len(a) /\ q = Len(b)
  BY LenProperties
<1>2. PICK r : r = SubSeq(a, n + 1, Len(a))
  OBVIOUS
<1>3. r \in Seq(S) /\ Len(r) = p - n /\ \A i \in 1..p - n : r[i] = a[n + i]
  BY <1>1, <1>2, UnreadIs
<1>4. /\ Len(L) = p + q /\ (\A i \in 1..p : L[i] = a[i]) /\ (\A i \in 1..q : L[p + i] = b[i])
  BY <1>1, ComingIs
<1>5. /\ Len(N) = (p - n) + q /\ (\A i \in 1..p - n : N[i] = r[i])
      /\ \A i \in 1..q : N[(p - n) + i] = b[i]
  <2>1. N = r \o b /\ r \in Seq(S)
    BY <1>2, <1>3
  <2>2. /\ Len(r \o b) = Len(r) + Len(b)
        /\ \A i \in 1..Len(r) : (r \o b)[i] = r[i]
        /\ \A i \in 1..Len(b) : (r \o b)[Len(r) + i] = b[i]
    BY <2>1, ComingIs
  <2>3. Len(r) = p - n /\ Len(b) = q
    BY <1>1, <1>3
  <2>4. QED
    BY <2>1, <2>2, <2>3
<1>6. ASSUME NEW i \in 1..(p - n) + q PROVE N[i] = L[n + i]
  <2>1. CASE i \in 1..p - n
    <3>1. n + i \in 1..p
      BY <1>1, <2>1
    <3>2. QED
      BY <1>3, <1>4, <1>5, <2>1, <3>1
  <2>2. CASE i \notin 1..p - n
    <3>1. PICK k : k = i - (p - n)
      OBVIOUS
    <3>2. k \in 1..q /\ (p - n) + k = i /\ p + k = n + i
      BY <1>1, <2>2, <3>1
    <3>3. QED
      BY <1>4, <1>5, <3>2
  <2>3. QED
    BY <2>1, <2>2
<1>7. /\ p + q \in Nat /\ n <= p + q /\ (p - n) + q = (p + q) - n
  BY <1>1
<1>8. Len(SubSeq(a, n + 1, Len(a))) = Len(a) - n
  BY <1>1, <1>2, <1>3
<1>9. Len(L) = p + q /\ Len(N) = (p - n) + q
  BY <1>4, <1>5
<1>10. Len(L) \in Nat /\ n <= Len(L) /\ Len(N) = Len(L) - n
  BY <1>7, <1>9
<1>11. \A i \in 1..Len(N) : N[i] = L[n + i]
  BY <1>6, <1>9
<1>12. QED
  BY <1>8, <1>10, <1>11

\* What comes is in order. Once the status line of a 200 has been read, no other status line
\* comes and behind the blank line only the body; and in the stream only the body comes.
StreamInv ==
  /\ Orderly(Coming, Len(arrived), server.code)
  /\ conn = "CONNECTED" /\ radio = "RECEIVING_HTTP" /\ state_data.current_line = 1
       /\ state_data.response.status_code = 200 =>
         state_data.input_buffer = <<>> /\ server.code = 200 /\ Behind200(Coming, 0)
  /\ conn = "CONNECTED" /\ radio = "STREAMING_AUDIO" => server.code = 200 /\ OnlyStream(Coming)
  /\ OnlyStreamsArePlayed

\* What comes is made of lines.
LEMMA ComingTyped ==
  ASSUME LineInv
  PROVE  /\ server.script \in Seq(Lines) /\ arrived \in Seq(Lines)
         /\ Coming \in Seq(Lines) /\ Len(Coming) = Len(arrived) + Len(server.script)
         /\ Len(arrived) \in Nat /\ Len(server.script) \in Nat
         /\ \A i \in 1..Len(arrived) : Coming[i] = arrived[i]
         /\ \A i \in 1..Len(server.script) : Coming[Len(arrived) + i] = server.script[i]
<1>1. server.script \in Seq(Lines) /\ arrived \in Seq(Lines)
  BY HeardLines, SeqMonotonic DEF LineInv
<1>2. QED
  BY <1>1, ComingIs DEF Coming

\* While nothing passes through the socket they stay as they are.
LEMMA QuietComes ==
  ASSUME LineInv, SameSession PROVE Coming' = Coming /\ server'.code = server.code
<1>1. CASE UNCHANGED server
  BY <1>1 DEF SameSession, Coming
<1>2. CASE ServerCloses
  <2>1. PICK how : server' = [server EXCEPT !.closing = how]
    BY <1>2 DEF ServerCloses
  <2>2. PICK s, c, e : s = server.script /\ c = server.code /\ e = server.closing
    OBVIOUS
  <2>3. server = [script |-> s, code |-> c, closing |-> e]
    BY <2>2 DEF LineInv
  <2>4. server' = [script |-> s, code |-> c, closing |-> how]
    BY <2>1, <2>3
  <2>5. QED
    BY <2>2, <2>4 DEF SameSession, Coming
<1>3. QED
  BY <1>1, <1>2 DEF SameSession

\* With a new connection a whole response is to come.
LEMMA ConnectComes ==
  ASSUME Connect
  PROVE  /\ Coming' \in Responses /\ arrived' = <<>> /\ server'.code = 0
         /\ radio' = "SENDING_HTTP" /\ played' = played
<1>1. PICK r \in Responses : server' = [script |-> r, code |-> 0, closing |-> "open"]
  BY DEF Connect
<1>2. arrived' = <<>> /\ radio' = "SENDING_HTTP" /\ played' = played
  BY DEF Connect
<1>3. <<>> \o r = r
  BY HeardLines, ConcatEmptySeq
<1>4. QED
  BY <1>1, <1>2, <1>3 DEF Coming

\* What ServerSends does to the lines that come,
LEMMA SendComes ==
  ASSUME LineInv, ServerSends
  PROVE  \/ Coming' = Coming
         \/ Coming' = Append(Coming, Body(server.code))
<1>1. PICK a, b : a = arrived /\ b = server.script
  OBVIOUS
<1>2. a \in Seq(Lines) /\ b \in Seq(Lines)
  BY <1>1, ComingTyped
<1>3. CASE b # <<>>
  <2>1. arrived' = Append(a, b[1])
    BY <1>1, <1>3 DEF ServerSends
  <2>2. server'.script = Tail(b)
    <3>1. server' = [server EXCEPT !.script = Tail(@),
                                   !.code = IF b[1].t = "status" THEN b[1].code ELSE @]
      BY <1>1, <1>3 DEF ServerSends
    <3>2. PICK code, closing : code = server.code /\ closing = server.closing
      OBVIOUS
    <3>3. server = [script |-> b, code |-> code, closing |-> closing]
      BY <1>1, <3>2 DEF LineInv
    <3>4. QED
      BY <3>1, <3>3
  <2>3. Append(a, b[1]) \o Tail(b) = a \o b
    BY <1>2, <1>3, SendingMoves
  <2>4. QED
    BY <1>1, <2>1, <2>2, <2>3 DEF Coming
<1>4. CASE b = <<>>
  <2>1. PICK l : l = Body(server.code)
    OBVIOUS
  <2>2. arrived' = Append(a, l) /\ server' = server
    BY <1>1, <1>4, <2>1 DEF ServerSends
  <2>3. Append(a, l) \in Seq(Lines \cup {l})
    BY <1>2, SeqMonotonic, AppendProperties
  <2>4. a \o <<>> = a /\ Append(a, l) \o <<>> = Append(a, l)
    BY <1>2, <2>3, ConcatEmptySeq
  <2>5. QED
    BY <1>1, <1>4, <2>1, <2>2, <2>4 DEF Coming
<1>5. QED
  BY <1>3, <1>4

\* and what a read does.
LEMMA ReadComes ==
  ASSUME LineInv, NEW n \in Nat, n <= Len(arrived),
         UNCHANGED server, arrived' = SubSeq(arrived, n + 1, Len(arrived))
  PROVE  /\ Len(Coming) \in Nat /\ n <= Len(Coming) /\ Len(Coming') = Len(Coming) - n
         /\ \A i \in 1..Len(Coming') : Coming'[i] = Coming[n + i]
<1>1. PICK S, a, b, L : S = Lines /\ a = arrived /\ b = server.script /\ L = Coming
  OBVIOUS
<1>2. a \in Seq(S) /\ b \in Seq(S) /\ L = a \o b /\ n <= Len(a)
  BY <1>1, ComingTyped DEF Coming
<1>3. PICK r, N : r = SubSeq(a, n + 1, Len(a)) /\ N = r \o b
  OBVIOUS
<1>4. r \in Seq(S) /\ Len(r) = Len(a) - n
  BY <1>2, <1>3, UnreadIs
<1>5. /\ Len(a) \in Nat /\ Len(b) \in Nat /\ Len(a \o b) = Len(a) + Len(b)
      /\ Len(r \o b) = Len(r) + Len(b)
  BY <1>2, <1>4, LenProperties, ConcatProperties
<1>6. Len(L) \in Nat /\ n <= Len(L) /\ Len(N) = Len(L) - n
  <2>1. PICK u \in Nat, v \in Nat : u = Len(a) /\ v = Len(b)
    BY <1>5
  <2>2. Len(L) = u + v /\ n <= u
    BY <1>2, <1>5, <2>1
  <2>3. Len(N) = (u - n) + v
    BY <1>3, <1>4, <1>5, <2>1
  <2>4. QED
    BY <2>2, <2>3
<1>7. \A i \in 1..Len(N) : N[i] = L[n + i]
  <2>1. L = a \o b /\ N = SubSeq(a, n + 1, Len(a)) \o b
    BY <1>2, <1>3
  <2>2. a \in Seq(S) /\ b \in Seq(S) /\ n <= Len(a)
    BY <1>2
  <2>3. QED
    BY <2>1, <2>2, ReadingMoves
<1>8. Coming' = N
  BY <1>1, <1>3 DEF Coming
<1>9. QED
  BY <1>1, <1>6, <1>7, <1>8

\* The server sends a line.
LEMMA SendKeepsStream ==
  ASSUME LineInv, StreamInv, ServerSends
  PROVE  StreamInv'
<1>1. UNCHANGED <<radio, state_data, conn, played>>
  BY DEF ServerSends, client
<1>2. PICK a, b, L, m, code : /\ a = arrived /\ b = server.script /\ L = Coming /\ m = Len(arrived)
                              /\ code = server.code
  OBVIOUS
<1>3. /\ a \in Seq(Lines) /\ b \in Seq(Lines) /\ L \in Seq(Lines) /\ m \in Nat
      /\ m = Len(a) /\ L = a \o b /\ Len(L) = m + Len(b) /\ Len(b) \in Nat
      /\ \A i \in 1..Len(b) : L[m + i] = b[i]
  BY <1>2, ComingTyped DEF Coming
<1>4. Orderly(L, m, code)
  BY <1>2 DEF StreamInv
<1>5. CASE b # <<>>
  <2>1. PICK new : new = IF b[1].t = "status" THEN b[1].code ELSE code
    OBVIOUS
  <2>2. arrived' = Append(a, b[1])
    BY <1>2, <1>5 DEF ServerSends
  <2>3. server' = [script |-> Tail(b), code |-> new, closing |-> server.closing]
    <3>1. server' = [server EXCEPT !.script = Tail(@),
                                   !.code = IF b[1].t = "status" THEN b[1].code ELSE @]
      BY <1>2, <1>5 DEF ServerSends
    <3>2. PICK closing : closing = server.closing
      OBVIOUS
    <3>3. server = [script |-> b, code |-> code, closing |-> closing]
      BY <1>2, <3>2 DEF LineInv
    <3>4. server' = [script |-> Tail(b), code |-> new, closing |-> closing]
      BY <2>1, <3>1, <3>3
    <3>5. QED
      BY <3>2, <3>4
  <2>4. Coming' = L
    <3>1. Append(a, b[1]) \o Tail(b) = a \o b
      BY <1>3, <1>5, SendingMoves
    <3>2. server'.script = Tail(b)
      BY <2>3
    <3>3. QED
      BY <1>3, <2>2, <3>1, <3>2 DEF Coming
  <2>5. 1 \in 1..Len(b) /\ L[m + 1] = b[1] /\ m + 1 \in 1..Len(L) /\ b[1] \in Lines
    <3>1. Len(b) \in Nat \ {0}
      BY <1>3, <1>5, EmptySeq
    <3>2. 1 \in 1..Len(b)
      BY <3>1
    <3>3. b[1] \in Lines
      BY <1>3, <3>2, ElementOfSeq
    <3>4. QED
      BY <1>3, <3>1, <3>2, <3>3
  <2>6. Len(arrived') = m + 1
    BY <1>3, <2>2, <2>5, AppendProperties
  <2>7. Orderly(L, m + 1, new)
    BY <1>3, <1>4, <2>1, <2>5, OneMoreSent
  <2>8. code = 200 /\ (Behind200(L, 0) \/ OnlyStream(L)) => new = 200
    <3>1. Body(200).t # "status"
      BY DEF Body
    <3>2. ASSUME Behind200(L, 0) \/ OnlyStream(L) PROVE L[m + 1].t # "status"
      <4>1. m + 1 > 0
        BY <1>3
      <4>2. QED
        BY <2>5, <3>1, <3>2, <4>1 DEF Behind200, OnlyStream
    <3>3. QED
      BY <2>1, <2>5, <3>2
  <2>9. server'.code = new
    BY <2>3
  <2>10. QED
    BY <1>1, <1>2, <2>4, <2>6, <2>7, <2>8, <2>9 DEF StreamInv, OnlyStreamsArePlayed
<1>6. CASE b = <<>>
  <2>1. arrived' = Append(a, Body(code)) /\ server' = server
    BY <1>2, <1>6 DEF ServerSends
  <2>2. a = L /\ Coming' = Append(a, Body(code))
    <3>1. a \o <<>> = a
      BY <1>3, ConcatEmptySeq
    <3>2. PICK l : l = Body(code)
      OBVIOUS
    <3>3. Append(a, l) \in Seq(Lines \cup {l})
      BY <1>3, SeqMonotonic, AppendProperties
    <3>4. Append(a, l) \o <<>> = Append(a, l)
      BY <3>3, ConcatEmptySeq
    <3>5. server'.script = <<>>
      BY <1>2, <1>6, <2>1
    <3>6. QED
      BY <1>3, <1>6, <2>1, <3>1, <3>2, <3>4, <3>5 DEF Coming
  <2>3. PICK N : N = Append(L, Body(code))
    OBVIOUS
  <2>4. Coming' = N /\ arrived' = N /\ server'.code = code
    BY <1>2, <2>1, <2>2, <2>3
  <2>5. /\ Orderly(L, Len(L), code) => Orderly(N, Len(N), code)
        /\ code = 200 => \A i : Behind200(L, i) => Behind200(N, i)
        /\ code = 200 /\ OnlyStream(L) => OnlyStream(N)
    <3>1. L \in Seq(Lines)
      BY <1>3
    <3>2. QED
      BY <2>3, <3>1, MoreBody
  <2>6. Orderly(N, Len(N), code)
    BY <1>3, <1>4, <2>2, <2>5
  <2>7. QED
    BY <1>1, <1>2, <2>4, <2>5, <2>6 DEF StreamInv, OnlyStreamsArePlayed
<1>7. QED
  BY <1>5, <1>6

\* Some of what has arrived is read.
LEMMA ReadKeepsOrder ==
  ASSUME LineInv, StreamInv, NEW n \in Nat, n <= Len(arrived),
         UNCHANGED server, arrived' = SubSeq(arrived, n + 1, Len(arrived))
  PROVE  /\ Orderly(Coming, Len(arrived), server.code)'
         /\ \A i \in 0..n : Behind200(Coming, i) => Behind200(Coming', 0)
         /\ OnlyStream(Coming) => OnlyStream(Coming')
<1>1. PICK L, N, m, code : /\ L = Coming /\ N = Coming' /\ m = Len(arrived)
                           /\ code = server.code
  OBVIOUS
<1>2. m \in Nat
  BY <1>1, ComingTyped
<1>3. /\ Len(L) \in Nat /\ n <= Len(L) /\ Len(N) = Len(L) - n
      /\ \A i \in 1..Len(N) : N[i] = L[n + i]
  BY <1>1, ReadComes
<1>4. Len(arrived') = m - n
  BY <1>1, UnreadIs DEF LineInv
<1>5. server'.code = code
  BY <1>1
<1>6. /\ \A k, c : k \in Nat /\ Orderly(L, k, c) => Orderly(N, k - n, c)
      /\ \A i \in 0..n : Behind200(L, i) => Behind200(N, 0)
      /\ OnlyStream(L) => OnlyStream(N)
  BY <1>3, SomeAreRead
<1>7. Orderly(L, m, code)
  BY <1>1 DEF StreamInv
<1>8. Orderly(N, m - n, code)
  BY <1>2, <1>6, <1>7
<1>9. QED
  BY <1>1, <1>4, <1>5, <1>6, <1>8

\* A read of the head that ends it with the status 200, or leaves it there: behind
\* what has been read nothing but the rest of such a head comes.
LEMMA HeadOfStream ==
  ASSUME LineInv, StreamInv, conn = "CONNECTED", radio = "RECEIVING_HTTP",
         NEW n \in Nat, n <= Len(arrived), NEW lines, lines = HeadRead(n),
         NEW parser, parser = ParseHead(lines), ~parser.thrown,
         parser.current_line = 1, parser.response.status_code = 200
  PROVE  /\ lines = SubSeq(arrived, 1, n) /\ server.code = 200
         /\ \E i \in 0..n : /\ Behind200(Coming, i)
                            /\ BlankIn(lines) # 0 => i < BlankIn(lines)
<1>1. /\ lines \in Seq(Lines)
      /\ state_data.current_line = 0 => lines = SubSeq(arrived, 1, n)
      /\ Parser.current_line = 1 => parser.response.status_code = Parser.response.status_code
      /\ Parser.current_line = 0 =>
           \/ HeadPart(lines) = <<>> /\ parser = Parser
           \/ /\ HeadPart(lines) # <<>> /\ HeadPart(lines)[1].t = "status"
              /\ parser.response.status_code = HeadPart(lines)[1].code
  BY HeadIsParsed
<1>2. Parser.current_line = state_data.current_line /\ Parser.response = state_data.response
  BY DEF Parser
<1>3. Parser.current_line \in {0, 1}
  BY DEF LineInv, Parsers
<1>4. arrived \in Seq(Lines) /\ \A i \in 1..Len(arrived) : Coming[i] = arrived[i]
  BY ComingTyped
<1>5. /\ Len(SubSeq(arrived, 1, n)) = n
      /\ \A i \in 1..n : SubSeq(arrived, 1, n)[i] = arrived[i]
  BY <1>4, ReadIs, EmptySeq
<1>6. \/ BlankIn(lines) = 0
      \/ BlankIn(lines) \in 1..Len(lines) /\ lines[BlankIn(lines)].t = "blank"
  BY <1>1, BlankIs
<1>7. CASE Parser.current_line = 1
  <2>1. state_data.input_buffer = <<>> /\ server.code = 200 /\ Behind200(Coming, 0)
    BY <1>1, <1>2, <1>7 DEF StreamInv
  <2>2. lines = SubSeq(arrived, 1, n)
    <3>1. <<>> \o SubSeq(arrived, 1, n) = SubSeq(arrived, 1, n)
      BY <1>4, ReadIs, EmptySeq
    <3>2. QED
      BY <2>1, <3>1 DEF HeadRead
  <2>3. BlankIn(lines) # 0 => 0 < BlankIn(lines)
    <3>1. Len(lines) \in Nat
      BY <1>1, LenProperties
    <3>2. QED
      BY <1>6, <3>1
  <2>4. 0 \in 0..n
    OBVIOUS
  <2>5. QED
    BY <2>1, <2>2, <2>3, <2>4
<1>8. CASE Parser.current_line = 0
  <2>1. lines = SubSeq(arrived, 1, n)
    BY <1>1, <1>2, <1>8
  <2>2. /\ HeadPart(lines) # <<>> /\ HeadPart(lines)[1].t = "status"
        /\ HeadPart(lines)[1].code = 200
    BY <1>1, <1>8
  <2>3. 1 \in 1..Len(HeadPart(lines)) /\ Len(HeadPart(lines)) \in Nat
    <3>1. PICK h : h = HeadPart(lines)
      OBVIOUS
    <3>2. h \in Seq(Lines)
      BY <1>1, <3>1, HeadPartIs
    <3>3. Len(h) \in Nat \ {0}
      BY <2>2, <3>1, <3>2, EmptySeq
    <3>4. QED
      BY <3>1, <3>3
  <2>4. HeadPart(lines)[1] = lines[1] /\ lines[1].t # "blank" /\ 1 \in 1..Len(lines)
    BY <1>1, <2>3, HeadPartIs
  <2>5. 1 \in 1..n /\ Coming[1].t = "status" /\ Coming[1].code = 200
    <3>1. 1 \in 1..n
      BY <1>5, <2>1, <2>4
    <3>2. lines[1] = arrived[1]
      BY <1>5, <2>1, <3>1
    <3>3. 1 \in 1..Len(arrived)
      BY <1>4, <3>1, LenProperties
    <3>4. QED
      BY <1>4, <2>2, <2>4, <3>1, <3>2, <3>3
  <2>6. Behind200(Coming, 1) /\ server.code = 200
    <3>1. 1 \in 1..Len(Coming) /\ 1 <= Len(arrived)
      BY <2>5, ComingTyped
    <3>2. QED
      BY <2>5, <3>1 DEF StreamInv, Orderly
  <2>7. BlankIn(lines) # 0 => 1 < BlankIn(lines)
    <3>1. Len(lines) \in Nat
      BY <1>1, LenProperties
    <3>2. BlankIn(lines) # 1
      BY <1>6, <2>4
    <3>3. QED
      BY <1>6, <3>1, <3>2
  <2>8. 1 \in 0..n
    BY <2>5
  <2>9. QED
    BY <2>1, <2>6, <2>7, <2>8
<1>9. QED
  BY <1>3, <1>7, <1>8

\* Behind the blank line of such a head only the stream comes.
LEMMA StreamBegins ==
  ASSUME LineInv, NEW n \in Nat, n <= Len(arrived),
         NEW lines, lines = SubSeq(arrived, 1, n), BlankIn(lines) # 0,
         NEW i \in 0..n, i < BlankIn(lines), Behind200(Coming, i),
         UNCHANGED server, arrived' = SubSeq(arrived, n + 1, Len(arrived))
  PROVE  /\ HeadRest(lines) \in Seq(Lines)
         /\ OnlyStream(HeadRest(lines)) /\ OnlyStream(Coming')
<1>1. PICK a, s, L, m : /\ a = arrived /\ s = server.script /\ L = Coming /\ m = Len(arrived)
  OBVIOUS
<1>2. /\ a \in Seq(Lines) /\ s \in Seq(Lines) /\ L = a \o s /\ m \in Nat /\ m = Len(a)
      /\ n <= m /\ Len(L) = m + Len(s) /\ Len(s) \in Nat
      /\ \A j \in 1..m : L[j] = a[j]
  BY <1>1, ComingTyped DEF Coming
<1>3. lines \in Seq(Lines) /\ Len(lines) = n /\ \A j \in 1..n : lines[j] = a[j]
  <2>1. a \in Seq(Lines) /\ n <= Len(a) /\ <<>> \in Seq(Lines)
    BY <1>2, EmptySeq
  <2>2. QED
    BY <1>1, <2>1, ReadIs
<1>4. PICK b : b = BlankIn(lines)
  OBVIOUS
<1>5. b \in 1..n /\ lines[b].t = "blank" /\ i < b
  BY <1>3, <1>4, BlankIs
<1>6. b \in 1..Len(L) /\ b > i /\ L[b].t = "blank"
  <2>1. b \in 1..m
    BY <1>2, <1>5
  <2>2. L[b] = lines[b]
    BY <1>2, <1>3, <1>5, <2>1
  <2>3. QED
    BY <1>2, <1>5, <2>1, <2>2
<1>7. \A k \in 1..Len(L) : k > b => L[k] = Body(200)
  <2>1. Behind200(L, i)
    BY <1>1
  <2>2. QED
    BY <1>6, <2>1 DEF Behind200
<1>8. PICK rest : rest = HeadRest(lines)
  OBVIOUS
<1>9. rest \in Seq(Lines) /\ Len(rest) = n - b /\ \A j \in 1..n - b : rest[j] = lines[b + j]
  <2>1. b \in Nat /\ b <= Len(lines)
    BY <1>3, <1>5
  <2>2. rest = SubSeq(lines, b + 1, Len(lines))
    BY <1>4, <1>8 DEF HeadRest
  <2>3. QED
    BY <1>3, <2>1, <2>2, UnreadIs
<1>10. OnlyStream(rest)
  <2> SUFFICES ASSUME NEW j \in 1..n - b PROVE rest[j] = Body(200)
    BY <1>9 DEF OnlyStream
  <2>1. b + j \in 1..n /\ b + j \in 1..m /\ b + j \in 1..Len(L) /\ b + j > b
    BY <1>2, <1>5
  <2>2. rest[j] = L[b + j]
    BY <1>2, <1>3, <1>9, <2>1
  <2>3. QED
    BY <1>7, <2>1, <2>2
<1>11. OnlyStream(Coming')
  <2>1. PICK N : N = SubSeq(a, n + 1, Len(a)) \o s
    OBVIOUS
  <2>2. PICK S : S = Lines
    OBVIOUS
  <2>3. a \in Seq(S) /\ s \in Seq(S) /\ n <= Len(a) /\ L = a \o s
    BY <1>2, <2>2
  <2>4. \A j \in 1..Len(N) : N[j] = L[n + j]
    BY <2>1, <2>3, ReadingMoves
  <2>5. Len(N) = (m - n) + Len(s)
    <3>1. PICK r : r = SubSeq(a, n + 1, Len(a))
      OBVIOUS
    <3>2. r \in Seq(S) /\ Len(r) = Len(a) - n
      BY <2>3, <3>1, UnreadIs
    <3>3. Len(r \o s) = Len(r) + Len(s)
      BY <2>3, <3>2, ConcatProperties
    <3>4. QED
      BY <1>2, <2>1, <3>1, <3>2, <3>3
  <2>6. Coming' = N
    BY <1>1, <2>1 DEF Coming
  <2>7. ASSUME NEW j \in 1..Len(N) PROVE N[j] = Body(200)
    <3>1. n + j \in 1..Len(L) /\ n + j > b
      BY <1>2, <1>5, <2>5
    <3>2. QED
      BY <1>7, <2>4, <3>1
  <2>8. QED
    BY <2>6, <2>7 DEF OnlyStream
<1>12. QED
  BY <1>8, <1>9, <1>10, <1>11

\* A sequence of the stream's lines may be played.
LEMMA StreamMayBePlayed ==
  ASSUME NEW s \in Seq(Lines), OnlyStream(s), played' = s PROVE OnlyStreamsArePlayed'
  BY LenProperties DEF OnlyStream, OnlyStreamsArePlayed

\* Every step keeps them in order.
LEMMA StreamStep ==
  ASSUME SocketInv, LineInv, StreamInv, [Next]_vars
  PROVE  StreamInv'
<1>1. CASE SameSession
  <2>1. Coming' = Coming /\ server'.code = server.code
    BY <1>1, QuietComes
  <2>2. QED
    BY <1>1, <2>1 DEF SameSession, StreamInv, OnlyStreamsArePlayed
<1>2. CASE Parted
  <2>1. conn' = "IDLE" /\ server' = NoServer /\ arrived' = <<>> /\ played' = played
    BY <1>2 DEF Parted, Cut
  <2>2. Len(Coming') = 0
    <3>1. <<>> \o <<>> = <<>>
      BY EmptySeq, ConcatEmptySeq
    <3>2. QED
      BY <2>1, <3>1, EmptySeq DEF Coming, NoServer
  <2>3. Orderly(Coming, Len(arrived), server.code)'
    BY <2>2 DEF Orderly
  <2>4. QED
    BY <2>1, <2>3 DEF StreamInv, OnlyStreamsArePlayed
<1>3. CASE Connect
  <2>1. PICK r \in Responses : r = Coming'
    BY <1>3, ConnectComes
  <2>2. /\ arrived' = <<>> /\ server'.code = 0 /\ radio' = "SENDING_HTTP" /\ played' = played
    BY <1>3, ConnectComes
  <2>3. Orderly(r, 0, 0)
    <3> SUFFICES ASSUME NEW i \in 1..Len(r), r[i].t = "status", r[i].code = 200
                 PROVE  Behind200(r, i)
      BY DEF Orderly
    <3>1. r \in Seq(HeadLines)
      BY HeardLines
    <3>2. DOMAIN r = 1..Len(r) /\ Len(r) \in Nat
      BY <3>1, LenProperties
    <3>3. \A j \in (i + 1)..Len(r) : r[j].t # "status" /\ (r[j].t = "blank" => j = Len(r))
      <4>1. \A h \in DOMAIN r : r[h].t = "status" /\ r[h].code = 200 =>
              \A j \in (h + 1)..Len(r) : r[j].t # "status" /\ (r[j].t = "blank" => j = Len(r))
        BY HeadsAssumption
      <4>2. i \in DOMAIN r
        BY <3>2
      <4>3. QED
        BY <4>1, <4>2
    <3>4. \A j \in 1..Len(r) : j > i => j \in (i + 1)..Len(r)
      BY <3>2
    <3>5. \A k \in 1..Len(r) : ~(k > Len(r))
      BY <3>2
    <3>6. QED
      BY <3>3, <3>4, <3>5 DEF Behind200
  <2>4. Len(arrived') = 0
    BY <2>2, EmptySeq
  <2>5. QED
    BY <2>1, <2>2, <2>3, <2>4 DEF StreamInv, OnlyStreamsArePlayed
<1>4. CASE ServerSends
  BY <1>4, SendKeepsStream
<1>5. CASE handle_sending_http_data
  <2>1. UNCHANGED <<server, arrived, conn, played>> /\ radio = "SENDING_HTTP"
    BY <1>5 DEF handle_sending_http_data, MaySend
  <2>2. \/ radio' = "SENDING_HTTP"
        \/ radio' = "RECEIVING_HTTP" /\ state_data'.current_line = 0
    BY <1>5, <2>1 DEF handle_sending_http_data
  <2>3. Coming' = Coming
    BY <2>1 DEF Coming
  <2>4. QED
    BY <2>1, <2>2, <2>3 DEF StreamInv, OnlyStreamsArePlayed
<1>6. ASSUME NEW n \in 1..SocketSize, ReceiveEarly(n) PROVE StreamInv'
  <2>1. /\ radio = "SENDING_HTTP" /\ radio' = "SENDING_HTTP" /\ UNCHANGED <<server, played, conn>>
        /\ n \in Nat /\ n <= Len(arrived) /\ outcome = "running"
        /\ arrived' = IF conn' = "IDLE" THEN <<>> ELSE SubSeq(arrived, n + 1, Len(arrived))
    BY <1>6 DEF ReceiveEarly, StayOpen, Receive, CanRead, Readable, At, client
  <2>2. conn' # "IDLE"
    BY <2>1 DEF SocketInv
  <2>3. Orderly(Coming, Len(arrived), server.code)'
    BY <2>1, <2>2, ReadKeepsOrder
  <2>4. QED
    BY <2>1, <2>3 DEF StreamInv, OnlyStreamsArePlayed
<1>7. ASSUME NEW n \in 1..SocketSize, ReceiveStream(n), ~Parted PROVE StreamInv'
  <2>1. /\ radio = "STREAMING_AUDIO" /\ radio' = "STREAMING_AUDIO" /\ UNCHANGED <<server, conn>>
        /\ n \in Nat /\ n <= Len(arrived) /\ outcome = "running"
        /\ played' = SubSeq(arrived, 1, n)
        /\ arrived' = IF conn' = "IDLE" THEN <<>> ELSE SubSeq(arrived, n + 1, Len(arrived))
    BY <1>7 DEF ReceiveStream, CanRead, Readable, At, Play, StayOpen, Close, Receive, client,
                Cut, Ended, Parted
  <2>2. conn' # "IDLE" /\ conn = "CONNECTED"
    BY <2>1 DEF SocketInv
  <2>3. server.code = 200 /\ OnlyStream(Coming)
    BY <2>1, <2>2 DEF StreamInv
  <2>4. Orderly(Coming, Len(arrived), server.code)' /\ OnlyStream(Coming')
    BY <2>1, <2>2, <2>3, ReadKeepsOrder
  <2>5. OnlyStreamsArePlayed'
    <3>1. PICK s : s = SubSeq(arrived, 1, n)
      OBVIOUS
    <3>2. arrived \in Seq(Lines) /\ \A i \in 1..Len(arrived) : Coming[i] = arrived[i]
      BY ComingTyped
    <3>3. s \in Seq(Lines) /\ Len(s) = n /\ \A i \in 1..n : s[i] = arrived[i]
      BY <2>1, <3>1, <3>2, ReadIs, EmptySeq
    <3>4. \A i \in 1..n : i \in 1..Len(arrived) /\ i \in 1..Len(Coming)
      BY <2>1, ComingTyped
    <3>5. OnlyStream(s)
      BY <2>3, <3>2, <3>3, <3>4 DEF OnlyStream
    <3>6. QED
      BY <2>1, <3>1, <3>3, <3>5, StreamMayBePlayed
  <2>6. QED
    BY <2>1, <2>3, <2>4, <2>5 DEF StreamInv
<1>8. ASSUME NEW n \in 0..SocketSize, ReceiveHead(n), ~Parted PROVE StreamInv'
  <2>1. PICK lines, parser : lines = HeadRead(n) /\ parser = ParseHead(lines)
    OBVIOUS
  <2>2. /\ ~parser.thrown
        /\ arrived' = SubSeq(arrived, n + 1, Len(arrived)) /\ n <= Len(arrived)
        /\ conn = "CONNECTED" /\ UNCHANGED <<outcome, url, client_cookies, conn, server>>
        /\ \/ BlankIn(lines) = 0 /\ GoesOn(parser, <<>>)
           \/ BlankIn(lines) # 0 /\ NoAnswer(parser.response) /\ GoesOn(parser, HeadRest(lines))
           \/ /\ BlankIn(lines) # 0 /\ parser.response.status_code = 200
              /\ Begins(HeadRest(lines))
    BY <1>8, <2>1, HeadSteps
  <2>3. radio = "RECEIVING_HTTP" /\ n \in Nat
    BY <1>8 DEF ReceiveHead
  <2>5. /\ Orderly(Coming, Len(arrived), server.code)'
        /\ \A i \in 0..n : Behind200(Coming, i) => Behind200(Coming', 0)
    BY <2>2, <2>3, ReadKeepsOrder
  <2>6. ASSUME parser.current_line = 1, parser.response.status_code = 200
        PROVE  /\ lines = SubSeq(arrived, 1, n) /\ server.code = 200
               /\ \E i \in 0..n : /\ Behind200(Coming, i)
                                  /\ BlankIn(lines) # 0 => i < BlankIn(lines)
    BY <2>1, <2>2, <2>3, <2>6, HeadOfStream
  <2>7. parser.response.status_code = 200 => parser.current_line = 1
    BY <2>1, <2>2, <2>3, StatusIsRead
  <2>8. ASSUME NEW rest, GoesOn(parser, rest), rest = <<>> \/ parser.response.status_code # 200
        PROVE  StreamInv'
    <3>1. /\ radio' = "RECEIVING_HTTP" /\ played' = played
          /\ state_data'.current_line = parser.current_line
          /\ state_data'.response = parser.response /\ state_data'.input_buffer = rest
      BY <2>8 DEF GoesOn
    <3>2. QED
      BY <2>2, <2>5, <2>6, <2>8, <3>1 DEF StreamInv, OnlyStreamsArePlayed
  <2>9. CASE /\ BlankIn(lines) # 0 /\ parser.response.status_code = 200
             /\ Begins(HeadRest(lines))
    <3>1. parser.current_line = 1
      BY <2>7, <2>9
    <3>2. PICK i \in 0..n : Behind200(Coming, i) /\ i < BlankIn(lines)
      BY <2>6, <2>9, <3>1
    <3>3. lines = SubSeq(arrived, 1, n) /\ server.code = 200
      BY <2>6, <2>9, <3>1
    <3>4. /\ HeadRest(lines) \in Seq(Lines)
          /\ OnlyStream(HeadRest(lines)) /\ OnlyStream(Coming')
      BY <2>2, <2>3, <2>9, <3>2, <3>3, StreamBegins
    <3>5. OnlyStreamsArePlayed'
      BY <2>9, <3>4, StreamMayBePlayed DEF Begins
    <3>6. QED
      BY <2>2, <2>5, <2>9, <3>3, <3>4, <3>5 DEF StreamInv, Begins
  <2>10. QED
    BY <2>2, <2>8, <2>9 DEF NoAnswer
<1>9. QED
  BY <1>1, <1>2, <1>3, <1>4, <1>5, <1>6, <1>7, <1>8, SessionSteps

\* Whatever the program plays is the body of a response with the status 200,
\* whatever servers send and whatever pieces it is read in.
THEOREM StreamsArePlayed == Spec => []OnlyStreamsArePlayed
<1>1. Init => SocketInv /\ LineInv /\ StreamInv
  <2> SUFFICES ASSUME Init PROVE SocketInv /\ LineInv /\ StreamInv
    OBVIOUS
  <2>1. /\ radio = "NOT_CONNECTED" /\ conn = "IDLE" /\ played = <<>> /\ outcome = "running"
        /\ server = NoServer /\ arrived = <<>>
    BY DEF Init
  <2>2. Len(Coming) = 0
    <3>1. <<>> \o <<>> = <<>>
      BY EmptySeq, ConcatEmptySeq
    <3>2. QED
      BY <2>1, <3>1, EmptySeq DEF Coming, NoServer
  <2>3. Orderly(Coming, Len(arrived), server.code)
    BY <2>2 DEF Orderly
  <2>4. LineInv
    BY <2>1, EmptySeq DEF LineInv, NoServer, Statuses
  <2>5. StreamInv
    BY <2>1, <2>3, EmptySeq DEF StreamInv, OnlyStreamsArePlayed
  <2>6. QED
    BY <2>1, <2>4, <2>5 DEF SocketInv
<1>2. SocketInv /\ LineInv /\ StreamInv /\ [Next]_vars => (SocketInv /\ LineInv /\ StreamInv)'
  BY SocketStep, LineStep, StreamStep
<1>3. StreamInv => OnlyStreamsArePlayed
  BY DEF StreamInv
<1>4. QED
  BY <1>1, <1>2, <1>3, PTL DEF Spec

(***************************************************************************)
(* The types of the run loop.                                              *)
(***************************************************************************)

\* What no other invariant of this module says of them. While a request is sent the
\* session's data is how much of it is gone.
PlaceInv ==
  /\ pc \in {"setup", "poll", "check", "input", "network"}
  /\ outcome \in {"running", "quit", "disconnected", "failed"}
  /\ radio \in {"NOT_CONNECTED", "SENDING_HTTP", "RECEIVING_HTTP", "STREAMING_AUDIO", "SHUTDOWN"}
  /\ url \in Urls
  /\ Len(user_input_buffer) <= Len(CMD_QUIT)
  /\ elapsed \in 0..Timeout
DataInv ==
  /\ state_data.kind \in {"none", "sending", "parsing"}
  /\ state_data.kind = "sending" => state_data.bytes_sent \in 0..(RequestLen - 1)
  /\ state_data.kind = "parsing" => state_data.input_buffer \in Seq(Lines)
  /\ outcome = "running" /\ radio = "SENDING_HTTP" =>
       state_data = [kind |-> "sending", bytes_sent |-> state_data.bytes_sent]

\* Where a redirect leads is one of the URLs.
LEMMA RedirectsLead ==
  ASSUME NEW to \in Locations, to # NoUrl, ValidUrl(to)
  PROVE  to \in Urls
<1>1. PICK l \in Lines : l.t = "location" /\ to = l.url
  BY DEF Locations
<1>2. l \in HeadLines
  BY <1>1 DEF Lines, Body
<1>3. PICK r \in Responses : l \in ToSet(r)
  BY <1>2 DEF HeadLines
<1>4. QED
  BY <1>1, <1>3, HeadsAssumption DEF ValidUrl

\* What is kept of the input is no longer than the word.
LEMMA KeptIsShort ==
  ASSUME QuitInv, outcome = "running" PROVE Len(user_input_buffer) <= Len(CMD_QUIT)
<1>1. PICK kept : kept = Kept
  OBVIOUS
<1>2. /\ script \in Seq(Characters) /\ user_input_buffer = Part(script, kept, taken)
      /\ forgotten \in Nat /\ taken \in Nat /\ forgotten <= taken /\ taken <= Len(script)
  BY <1>1, RadioAssumption, LenProperties DEF QuitInv
<1>3. kept \in Nat /\ kept <= taken /\ taken - kept <= Len(CMD_QUIT)
  BY <1>1, <1>2, RadioAssumption, WordLength DEF Kept, Window
<1>4. Len(user_input_buffer) = taken - kept
  BY <1>2, <1>3, PartIs
<1>5. QED
  BY <1>3, <1>4

\* What a step that ends the program, or one that touches neither the session nor the
\* input, leaves.
Untouched ==
  /\ pc' \in {"setup", "poll", "check", "input", "network"}
  /\ outcome' \in {"running", "quit", "disconnected", "failed"}
  /\ outcome' = "running" => outcome = "running"
  /\ UNCHANGED <<radio, url, state_data, user_input_buffer>>
  /\ elapsed' \in 0..Timeout

\* A read of the head, whatever comes of it.
LEMMA HeadKeepsTypes ==
  ASSUME SocketInv, LineInv, PlaceInv, DataInv, NEW n \in 0..SocketSize, ReceiveHead(n)
  PROVE  PlaceInv' /\ DataInv'
<1>1. PICK lines, parser : lines = HeadRead(n) /\ parser = ParseHead(lines)
  OBVIOUS
<1>2. /\ radio = "RECEIVING_HTTP" /\ outcome = "running" /\ n <= Len(arrived) /\ n \in Nat
      /\ pc = "network" /\ UNCHANGED user_input_buffer /\ elapsed' = 0
  BY DEF ReceiveHead, CanRead, Readable, At, Receive, input
<1>3. 0 \in 0..Timeout
  BY RadioAssumption
<1>4. CASE Fail
  <2>1. outcome' = "failed" /\ UNCHANGED <<pc, radio, url, state_data>>
    BY <1>4 DEF Fail, client
  <2>2. QED
    BY <1>2, <1>3, <2>1 DEF PlaceInv, DataInv
<1>5. ASSUME NEW rest \in Seq(Lines), GoOnParsing(parser, rest) PROVE PlaceInv' /\ DataInv'
  <2>1. /\ pc' = "setup" /\ UNCHANGED <<outcome, radio, url>>
        /\ state_data' = [kind |-> "parsing", current_line |-> parser.current_line,
                          response |-> parser.response, input_buffer |-> rest]
    BY <1>5 DEF GoOnParsing, Goto
  <2>2. state_data'.kind = "parsing" /\ state_data'.input_buffer = rest
    BY <2>1
  <2>3. QED
    BY <1>2, <1>3, <2>1, <2>2 DEF PlaceInv, DataInv
<1>6. lines \in Seq(Lines) /\ parser \in Parsers
  <2>1. conn = "CONNECTED"
    BY <1>2 DEF SocketInv
  <2>2. QED
    BY <1>1, <1>2, <2>1, HeadIsParsed
<1>7. CASE GoOnParsing(parser, <<>>)
  BY <1>5, <1>7, EmptySeq
<1>8. CASE BlankIn(lines) # 0 /\ handle_http(parser, HeadRest(lines))
  <2>1. HeadRest(lines) \in Seq(Lines)
    <3>1. PICK b : b = BlankIn(lines)
      OBVIOUS
    <3>2. b \in 1..Len(lines) /\ Len(lines) \in Nat
      BY <1>6, <1>8, <3>1, BlankIs, LenProperties
    <3>3. b \in Nat /\ b <= Len(lines)
      BY <3>2
    <3>4. QED
      BY <1>6, <3>1, <3>3, UnreadIs DEF HeadRest
  <2>2. CASE HandleOK(HeadRest(lines))
    <3>1. /\ radio' = "STREAMING_AUDIO" /\ state_data' = NoData /\ url' = url
          /\ pc' \in {"setup", pc} /\ outcome' \in {outcome, "failed"}
      BY <2>2 DEF HandleOK, Play, Goto
    <3>2. state_data'.kind = "none"
      BY <3>1 DEF NoData
    <3>3. QED
      BY <1>2, <1>3, <3>1, <3>2 DEF PlaceInv, DataInv
  <2>3. CASE HandleRedirect(parser.response) /\ ~Fail
    <3>1. CASE parser.response.location = NoUrl
      <4>1. radio' = "SHUTDOWN" /\ pc' = "setup" /\ UNCHANGED <<outcome, url, state_data>>
        BY <2>3, <3>1 DEF HandleRedirect, Goto
      <4>2. QED
        BY <1>2, <1>3, <4>1 DEF PlaceInv, DataInv
    <3>2. CASE parser.response.location # NoUrl
      <4>1. /\ ValidUrl(parser.response.location) /\ url' = parser.response.location
            /\ radio' = "NOT_CONNECTED" /\ state_data' = NoData
            /\ pc' = "setup" /\ outcome' = outcome
        BY <2>3, <3>2 DEF HandleRedirect, Goto
      <4>2. parser.response.location \in Locations
        BY <1>6 DEF Parsers, HttpResponses
      <4>3. url' \in Urls
        BY <3>2, <4>1, <4>2, RedirectsLead
      <4>4. state_data'.kind = "none"
        BY <4>1 DEF NoData
      <4>5. QED
        BY <1>2, <1>3, <4>1, <4>3, <4>4 DEF PlaceInv, DataInv
    <3>3. QED
      BY <3>1, <3>2
  <2>4. CASE GoOnParsing(parser, HeadRest(lines))
    BY <1>5, <2>1, <2>4
  <2>5. QED
    BY <1>4, <1>8, <2>2, <2>3, <2>4 DEF handle_http
<1>9. QED
  BY <1>1, <1>4, <1>7, <1>8 DEF ReceiveHead, HeadRead, HeadRest

\* Every step keeps the types.
LEMMA TypeStep ==
  ASSUME SocketInv, LineInv, QuitInv, QuitInv', PlaceInv, DataInv, [Next]_vars
  PROVE  PlaceInv' /\ DataInv'
<1>1. CASE Untouched
  BY <1>1 DEF Untouched, PlaceInv, DataInv
<1>2. Timeout \in Nat \ {0} /\ RequestLen \in Nat \ {0} /\ Original \in Urls
  BY RadioAssumption
<1>3. \/ UNCHANGED vars \/ ServerSends \/ ServerCloses \/ UserTypes \/ Tick \/ Terminating
      => Untouched
  <2>1. elapsed \in 0..Timeout /\ (elapsed < Timeout => elapsed + 1 \in 0..Timeout)
    BY <1>2 DEF PlaceInv
  <2>2. QED
    BY <2>1 DEF vars, client, input, ServerSends, ServerCloses, UserTypes, Tick, Terminating,
                PlaceInv, Untouched
<1>4. \/ StayConnected \/ Poll \/ PollFails \/ InTime \/ NoInput \/ EmptyInput \/ NoNetwork
      \/ ReadNothing
      => Untouched
  BY DEF StayConnected, Poll, PollFails, InTime, NoInput, EmptyInput, NoNetwork, ReadNothing,
         Readable, Goto, client, input, PlaceInv, Untouched
<1>5. ConnectFails \/ PollError \/ SocketError \/ HungUp \/ SendFails \/ ReadEnd => Untouched
  <2>1. ASSUME NEW how, End(how), how \in {"disconnected", "failed"} PROVE Untouched
    BY <2>1 DEF End, client, input, PlaceInv, Untouched
  <2>2. QED
    BY <2>1 DEF ConnectFails, PollError, SocketError, HungUp, SendFails, ReadEnd, Ending
<1>6. CASE Connect
  <2>1. /\ pc' = "poll" /\ UNCHANGED <<outcome, url, user_input_buffer>> /\ elapsed' = 0
        /\ radio' = "SENDING_HTTP" /\ state_data' = [kind |-> "sending", bytes_sent |-> 0]
    BY <1>6 DEF Connect, Goto, input
  <2>2. 0 \in 0..Timeout /\ 0 \in 0..(RequestLen - 1)
    BY <1>2
  <2>3. QED
    BY <2>1, <2>2 DEF PlaceInv, DataInv
<1>7. CASE TimedOut
  <2>1. /\ pc' = "input" /\ UNCHANGED <<outcome, elapsed>> /\ url' = Original
        /\ radio' = "NOT_CONNECTED" /\ state_data' = NoData /\ user_input_buffer' = <<>>
    BY <1>7 DEF TimedOut, Goto
  <2>2. Len(user_input_buffer') <= Len(CMD_QUIT)
    BY <2>1, RadioAssumption, WordLength, EmptySeq
  <2>3. state_data'.kind = "none"
    BY <2>1 DEF NoData
  <2>4. QED
    BY <1>2, <2>1, <2>2, <2>3 DEF PlaceInv, DataInv
<1>8. CASE handle_user_input
  <2>1. /\ outcome = "running" /\ UNCHANGED <<radio, url, state_data, elapsed>>
        /\ \/ outcome' = "quit" /\ UNCHANGED <<pc, user_input_buffer>>
           \/ outcome' = outcome /\ pc' = "network"
    BY <1>8 DEF handle_user_input, At, Goto, client
  <2>2. outcome' = "running" => Len(user_input_buffer') <= Len(CMD_QUIT)
    <3>1. (QuitInv /\ outcome = "running" => Len(user_input_buffer) <= Len(CMD_QUIT))'
      BY KeptIsShort, PTL
    <3>2. QED
      BY <3>1
  <2>3. QED
    BY <2>1, <2>2 DEF PlaceInv, DataInv
<1>9. CASE handle_sending_http_data
  <2>1. PICK sent : sent = state_data.bytes_sent
    OBVIOUS
  <2>2. PICK len \in Int :
          /\ len >= 0 /\ len <= RequestLen - sent
          /\ \/ /\ radio' = "RECEIVING_HTTP"
                /\ state_data' = [kind |-> "parsing", current_line |-> 0,
                                  response |-> EmptyResponse, input_buffer |-> <<>>]
             \/ /\ sent + len # RequestLen /\ radio' = radio
                /\ state_data' = [state_data EXCEPT !.bytes_sent = sent + len]
    BY <2>1, <1>9 DEF handle_sending_http_data
  <2>3. /\ outcome = "running" /\ radio = "SENDING_HTTP" /\ pc' = "setup"
        /\ UNCHANGED <<outcome, url, user_input_buffer, elapsed>>
    BY <1>9 DEF handle_sending_http_data, At, MaySend, Goto, input
  <2>4. PlaceInv'
    BY <2>2, <2>3 DEF PlaceInv
  <2>5. CASE radio' = "RECEIVING_HTTP"
    <3>1. state_data'.kind = "parsing" /\ state_data'.input_buffer = <<>>
      BY <2>2, <2>3, <2>5
    <3>2. QED
      BY <2>4, <2>5, <3>1, EmptySeq DEF DataInv
  <2>6. CASE radio' # "RECEIVING_HTTP"
    <3>1. state_data = [kind |-> "sending", bytes_sent |-> sent] /\ sent \in 0..(RequestLen - 1)
      BY <2>1, <2>3 DEF DataInv
    <3>2. state_data' = [kind |-> "sending", bytes_sent |-> sent + len]
      BY <2>2, <2>6, <3>1
    <3>3. sent + len \in 0..(RequestLen - 1)
      BY <1>2, <2>2, <2>6, <3>1
    <3>4. QED
      BY <2>4, <3>2, <3>3 DEF DataInv
  <2>7. QED
    BY <2>5, <2>6
<1>10. ASSUME NEW n \in 1..SocketSize, ReceiveEarly(n) \/ ReceiveStream(n) PROVE Untouched
  <2>1. 0 \in 0..Timeout
    BY <1>2
  <2>2. QED
    BY <1>10, <2>1 DEF ReceiveEarly, ReceiveStream, CanRead, Readable, At, Play, Goto, Receive,
                       client, input, PlaceInv, Untouched
<1>11. ASSUME NEW n \in 0..SocketSize, ReceiveHead(n) PROVE PlaceInv' /\ DataInv'
  BY <1>11, HeadKeepsTypes
<1>12. QED
  BY <1>1, <1>3, <1>4, <1>5, <1>6, <1>7, <1>8, <1>9, <1>10, <1>11 DEF Next, World, Run

\* The state of the program has the types of the code's: however responses redirect, the
\* next request goes to a URL it can parse, a request being sent is never wholly sent, and
\* what is kept of the input is no longer than the word.
THEOREM TypeCorrect == Spec => []TypeOK
<1> DEFINE IInv == SocketInv /\ LineInv /\ QuitInv /\ PlaceInv /\ DataInv
<1>1. Init => IInv
  <2> SUFFICES ASSUME Init PROVE IInv
    OBVIOUS
  <2>1. /\ pc = "setup" /\ radio = "NOT_CONNECTED" /\ conn = "IDLE" /\ outcome = "running"
        /\ url = Original /\ state_data = NoData /\ elapsed = 0 /\ user_input_buffer = <<>>
        /\ server = NoServer /\ arrived = <<>>
    BY DEF Init
  <2>2. LineInv
    BY <2>1, EmptySeq DEF LineInv, NoServer, Statuses
  <2>3. QuitInv
    BY QuitInit
  <2>4. PlaceInv
    BY <2>1, RadioAssumption, WordLength, EmptySeq DEF PlaceInv
  <2>5. state_data.kind = "none"
    BY <2>1 DEF NoData
  <2>6. QED
    BY <2>1, <2>2, <2>3, <2>4, <2>5 DEF SocketInv, DataInv
<1>2. IInv /\ [Next]_vars => IInv'
  BY SocketStep, LineStep, QuitStep, TypeStep
<1>3. IInv => TypeOK
  BY DEF TypeOK, SocketInv, LineInv, QuitInv, PlaceInv, DataInv
<1>4. QED
  BY <1>1, <1>2, <1>3, PTL DEF Spec

(***************************************************************************)
(* The jar of the session.                                                 *)
(***************************************************************************)

\* A redirect: lines held a whole head, parser says what it was.
Redirected(lines, parser) ==
  /\ BlankIn(lines) # 0 /\ ~parser.thrown
  /\ validate_http_response(parser.response) /\ IsRedirect(parser.response)
  /\ client_cookies' = MergeAll(client_cookies, parser.response.set_cookies, url.host)
  /\ url' = parser.response.location

\* Whenever the session moves, the client has read such a head.
LEMMA MovedIs ==
  ASSUME SocketInv, LineInv, Moved
  PROVE  /\ radio = "RECEIVING_HTTP" /\ outcome = "running" /\ conn = "CONNECTED"
         /\ \E n \in Nat : /\ n <= Len(arrived) /\ n <= SocketSize
                           /\ ParseHead(HeadRead(n)) \in Parsers
                           /\ Redirected(HeadRead(n), ParseHead(HeadRead(n)))
<1>1. PICK n \in 0..SocketSize : ReceiveHead(n)
  BY DEF Moved
<1>2. radio = "RECEIVING_HTTP" /\ outcome = "running" /\ n <= Len(arrived) /\ n \in Nat
      /\ radio' = "NOT_CONNECTED" /\ outcome' = "running"
  BY <1>1 DEF ReceiveHead, CanRead, Readable, At, Moved
<1>3. conn = "CONNECTED"
  BY <1>2 DEF SocketInv
<1>4. PICK lines, parser : lines = HeadRead(n) /\ parser = ParseHead(lines)
  OBVIOUS
<1>5. parser \in Parsers
  BY <1>2, <1>3, <1>4, HeadIsParsed
<1>6. ~Fail
  BY <1>2 DEF Fail
<1>7. ~parser.thrown /\ BlankIn(lines) # 0 /\ handle_http(parser, HeadRest(lines))
  <2>1. ~GoOnParsing(parser, <<>>)
    BY <1>2 DEF GoOnParsing
  <2>2. QED
    BY <1>1, <1>4, <1>6, <2>1 DEF ReceiveHead, HeadRead, HeadRest
<1>8. /\ validate_http_response(parser.response) /\ IsRedirect(parser.response)
      /\ HandleRedirect(parser.response)
  <2>1. ~HandleOK(HeadRest(lines)) /\ ~GoOnParsing(parser, HeadRest(lines))
    BY <1>2 DEF HandleOK, GoOnParsing
  <2>2. QED
    BY <1>6, <1>7, <2>1 DEF handle_http
<1>9. /\ client_cookies' = MergeAll(client_cookies, parser.response.set_cookies, url.host)
      /\ url' = parser.response.location
  BY <1>2, <1>6, <1>8 DEF HandleRedirect
<1>10. Redirected(lines, parser)
  BY <1>7, <1>8, <1>9 DEF Redirected
<1>11. QED
  BY <1>2, <1>3, <1>4, <1>5, <1>10

\* Merging the headers of a response keeps the jar a jar.
LEMMA MergedIsJar ==
  ASSUME NEW jar, IsJar(jar), NEW parser \in Parsers, NEW host,
         NEW after, after = MergeAll(jar, parser.response.set_cookies, host)
  PROVE  IsJar(after)
<1>1. PICK h : h = parser.response.set_cookies
  OBVIOUS
<1>2. h \in SetCookies
  BY <1>1 DEF Parsers, HttpResponses
<1>3. PICK n \in Nat : DOMAIN h = 1..n
  BY <1>2, LenProperties DEF SetCookies
<1>4. PICK c : MergesAlong(c, jar, h, n, host) /\ MergeAll(jar, h, host) = c[n]
  BY <1>3, MergeChain
<1>5. IsJar(c[n])
  BY <1>4 DEF MergesAlong
<1>6. QED
  BY <1>1, <1>4, <1>5

\* Only the timeout and the redirects touch the jar.
LEMMA JarChanges ==
  ASSUME SocketInv, [Next]_vars
  PROVE  \/ UNCHANGED <<url, client_cookies>>
         \/ client_cookies' = <<>> /\ url' = Original
         \/ Cut /\ Moved
<1>1. CASE SameSession
  BY <1>1 DEF SameSession
<1>2. CASE Parted
  BY <1>2 DEF Parted, Ended, TimedOut
<1>3. CASE Connect \/ ServerSends \/ handle_sending_http_data
  BY <1>3 DEF Connect, ServerSends, handle_sending_http_data, client
<1>4. CASE \E n \in 1..SocketSize : ReceiveEarly(n) \/ ReceiveStream(n)
  BY <1>4 DEF ReceiveEarly, ReceiveStream, client
<1>5. CASE \E n \in 0..SocketSize : ReceiveHead(n) /\ ~Parted
  BY <1>5, HeadOutcomes
<1>6. QED
  BY <1>1, <1>2, <1>3, <1>4, <1>5, SessionSteps

\* The jar at the start of a session.
LEMMA EmptyIsJar == IsJar(<<>>)
<1>1. <<>> \in Seq(ToSet(<<>>)) /\ DOMAIN <<>> = {}
  BY EmptySeq
<1>2. QED
  BY <1>1 DEF IsJar, UniqueIn

\* The jar stays a jar.
LEMMA JarStep ==
  ASSUME SocketInv, LineInv, IsJar(client_cookies), [Next]_vars
  PROVE  IsJar(client_cookies)'
<1>1. CASE UNCHANGED client_cookies
  BY <1>1
<1>2. CASE client_cookies' = <<>>
  BY <1>2, EmptyIsJar
<1>3. CASE Moved
  <2>1. PICK n \in Nat : /\ ParseHead(HeadRead(n)) \in Parsers
                         /\ Redirected(HeadRead(n), ParseHead(HeadRead(n)))
    BY <1>3, MovedIs
  <2>2. PICK parser \in Parsers : parser = ParseHead(HeadRead(n))
    BY <2>1
  <2>3. client_cookies' = MergeAll(client_cookies, parser.response.set_cookies, url.host)
    BY <2>1, <2>2 DEF Redirected
  <2>4. PICK after : after = client_cookies'
    OBVIOUS
  <2>5. IsJar(after)
    BY <2>3, <2>4, MergedIsJar
  <2>6. QED
    BY <2>4, <2>5
<1>4. QED
  BY <1>1, <1>2, <1>3, JarChanges

\* No cookie is in the jar twice, whatever servers set and however often.
THEOREM JarHasNoDoubles == Spec => []CookiesAreUnique
<1>1. Init => SocketInv /\ LineInv /\ IsJar(client_cookies)
  <2> SUFFICES ASSUME Init PROVE SocketInv /\ LineInv /\ IsJar(client_cookies)
    OBVIOUS
  <2>1. /\ radio = "NOT_CONNECTED" /\ conn = "IDLE" /\ outcome = "running"
        /\ server = NoServer /\ arrived = <<>> /\ client_cookies = <<>>
    BY DEF Init
  <2>2. LineInv
    BY <2>1, EmptySeq DEF LineInv, NoServer, Statuses
  <2>3. QED
    BY <2>1, <2>2, EmptyIsJar DEF SocketInv
<1>2. SocketInv /\ LineInv /\ IsJar(client_cookies) /\ [Next]_vars
        => (SocketInv /\ LineInv /\ IsJar(client_cookies))'
  BY SocketStep, LineStep, JarStep
<1>3. IsJar(client_cookies) => CookiesAreUnique
  BY DEF IsJar, UniqueIn, CookiesAreUnique
<1>4. QED
  BY <1>1, <1>2, <1>3, PTL DEF Spec

(***************************************************************************)
(* How far the head of a response has been read.                           *)
(***************************************************************************)
\* The parser that has read the lines q on from p.
ReadAll(p, q) == FoldLeft(parse_http_response_line, p, q)

\* The parsers it passes through, with the lines of a part of s.
Passes(c, p, s, k, n, f) ==
  /\ c \in [0..n -> Parsers] /\ c[0] = p /\ c[n] = f
  /\ \A i \in 1..n : c[i] = parse_http_response_line(c[i-1], s[k + i])

\* Such a chain there is.
LEMMA ReadPart ==
  ASSUME NEW p \in Parsers, NEW s \in Seq(Lines),
         NEW k \in Nat, NEW m \in Nat, k <= m, m <= Len(s),
         NEW f, f = ReadAll(p, Part(s, k, m))
  PROVE  \E c : Passes(c, p, s, k, m - k, f)
<1>1. PICK q : q = Part(s, k, m)
  OBVIOUS
<1>2. q \in Seq(Lines) /\ Len(q) = m - k /\ \A i \in 1..m - k : q[i] = s[k + i]
  BY <1>1, PartIs
<1>3. f = FoldLeft(parse_http_response_line, p, q)
  BY <1>1 DEF ReadAll
<1>4. PICK c \in [0..Len(q) -> Parsers] :
        ReadsAlong(c, p, q) /\ FoldLeft(parse_http_response_line, p, q) = c[Len(q)]
  BY <1>2, ParseChain
<1>5. c \in [0..m - k -> Parsers] /\ c[0] = p
  BY <1>2, <1>4 DEF ReadsAlong
<1>6. c[m - k] = f
  BY <1>2, <1>3, <1>4
<1>7. \A i \in 1..m - k : c[i] = parse_http_response_line(c[i-1], s[k + i])
  BY <1>2, <1>4 DEF ReadsAlong
<1>8. Passes(c, p, s, k, m - k, f)
  BY <1>5, <1>6, <1>7 DEF Passes
<1>9. QED
  BY <1>8

\* The parsers c are read one from another by the lines l.
Chained(c, l, n) == \A i \in 1..n : c[i] = parse_http_response_line(c[i-1], l[i])

\* Two chains that start alike and go on by the same lines are the same.
LEMMA SameChain ==
  ASSUME NEW n \in Nat, NEW c, NEW d, NEW l, c[0] = d[0], Chained(c, l, n), Chained(d, l, n)
  PROVE  c[n] = d[n]
<1> DEFINE G == {i \in Nat : i <= n => c[i] = d[i]}
<1>1. 0 \in G
  OBVIOUS
<1>2. ASSUME NEW i \in Nat, i \in G PROVE i + 1 \in G
  <2> SUFFICES ASSUME i + 1 <= n PROVE c[i + 1] = d[i + 1]
    OBVIOUS
  <2>1. (i + 1) - 1 = i /\ i + 1 \in 1..n /\ c[i] = d[i]
    BY <1>2
  <2>2. QED
    BY <2>1 DEF Chained
<1>3. Nat \subseteq G
  <2> HIDE DEF G
  <2> QED
    BY <1>1, <1>2, SetInduction
<1>4. QED
  BY <1>3

\* Reading on where a reading has stopped.
LEMMA ReadOn ==
  ASSUME NEW p \in Parsers, NEW s \in Seq(Lines),
         NEW k \in Nat, NEW m \in Nat, k <= m, m <= Len(s),
         NEW f, f = ReadAll(p, Part(s, 0, k))
  PROVE  f \in Parsers /\ ReadAll(f, Part(s, k, m)) = ReadAll(p, Part(s, 0, m))
<1>1. PICK g, h : g = ReadAll(f, Part(s, k, m)) /\ h = ReadAll(p, Part(s, 0, m))
  OBVIOUS
<1>2. PICK o \in Nat : o = 0
  OBVIOUS
<1>3. Len(s) \in Nat /\ o <= k /\ o <= m /\ k <= Len(s) /\ k - o = k /\ m - o = m
  BY <1>2, LenProperties
<1>4. PICK c : Passes(c, p, s, o, k, f)
  <2>1. f = ReadAll(p, Part(s, o, k))
    BY <1>2
  <2>2. \E c : Passes(c, p, s, o, k - o, f)
    BY <1>3, <2>1, ReadPart
  <2>3. QED
    BY <1>3, <2>2
<1>5. /\ c \in [0..k -> Parsers] /\ c[0] = p /\ c[k] = f
      /\ \A i \in 1..k : c[i] = parse_http_response_line(c[i-1], s[i])
  BY <1>2, <1>4 DEF Passes
<1>6. PICK d : Passes(d, f, s, k, m - k, g)
  <2>1. f \in Parsers
    BY <1>5
  <2>2. QED
    BY <1>1, <2>1, ReadPart
<1>7. PICK e : Passes(e, p, s, o, m, h)
  <2>1. h = ReadAll(p, Part(s, o, m))
    BY <1>1, <1>2
  <2>2. \E e : Passes(e, p, s, o, m - o, h)
    BY <1>3, <2>1, ReadPart
  <2>3. QED
    BY <1>3, <2>2
<1>8. /\ e \in [0..m -> Parsers] /\ e[0] = p /\ e[m] = h
      /\ \A i \in 1..m : e[i] = parse_http_response_line(e[i-1], s[i])
  BY <1>2, <1>7 DEF Passes
<1>9. e[k] = f
  <2>1. Chained(c, s, k) /\ Chained(e, s, k)
    BY <1>5, <1>8 DEF Chained
  <2>2. c[k] = e[k]
    BY <1>5, <1>8, <2>1, SameChain
  <2>3. QED
    BY <1>5, <2>2
<1>10. PICK n \in Nat : n = m - k
  OBVIOUS
<1>11. PICK x, l : x = [i \in 0..n |-> e[k + i]] /\ l = [i \in 1..n |-> s[k + i]]
  OBVIOUS
<1>12. /\ d \in [0..n -> Parsers] /\ d[0] = f /\ d[n] = g
       /\ \A i \in 1..n : d[i] = parse_http_response_line(d[i-1], s[k + i])
  BY <1>6, <1>10 DEF Passes
<1>13. x[0] = d[0] /\ x[n] = h
  BY <1>8, <1>9, <1>10, <1>11, <1>12
<1>14. Chained(x, l, n)
  <2> SUFFICES ASSUME NEW i \in 1..n PROVE x[i] = parse_http_response_line(x[i-1], l[i])
    BY DEF Chained
  <2>1. /\ k + i \in 1..m /\ (k + i) - 1 = k + (i - 1) /\ i - 1 \in 0..n /\ i \in 0..n
    BY <1>10
  <2>2. x[i] = e[k + i] /\ x[i-1] = e[(k + i) - 1] /\ l[i] = s[k + i]
    BY <1>11, <2>1
  <2>3. e[k + i] = parse_http_response_line(e[(k + i) - 1], s[k + i])
    BY <1>8, <2>1
  <2>4. QED
    BY <2>2, <2>3
<1>15. Chained(d, l, n)
  BY <1>11, <1>12 DEF Chained
<1>16. x[n] = d[n]
  BY <1>13, <1>14, <1>15, SameChain
<1>17. f \in Parsers
  BY <1>5
<1>18. QED
  BY <1>1, <1>12, <1>13, <1>16, <1>17

\* The lines that come are what is behind the first k of r, if not more.
Ahead(r, k, L) == Len(r) - k <= Len(L) /\ \A i \in 1..Len(r) - k : L[i] = r[k + i]

\* The first k lines of the response r have been read, and they are not its whole head.
ReadTo(r, k) ==
  /\ k < BlankIn(r) /\ state_data.input_buffer = <<>>
  /\ Parser = ReadAll(StartOfHead, Part(r, 0, k))
  /\ Ahead(r, k, Coming)

\* A response without a blank line is read as a head for ever.
Endless ==
  state_data.input_buffer = <<>> /\ \A i \in 1..Len(Coming) : Coming[i].t # "blank"

\* No redirect any more: the status is set and only the first line sets it.
Settled == Parser.current_line = 1 /\ ~IsRedirect(Parser.response)

\* What comes while a request is sent is one of the responses, and while a head is read,
\* the rest of the one that is being read.
HeadInv ==
  conn = "CONNECTED" =>
    /\ radio = "SENDING_HTTP" => Coming \in Responses
    /\ radio = "RECEIVING_HTTP" =>
         Settled \/ Endless \/ \E r \in Responses, k \in Nat : ReadTo(r, k)

\* One more read of a head: it has ended with the line that is blank.
LEMMA HeadGoesOn ==
  ASSUME LineInv, conn = "CONNECTED", radio = "RECEIVING_HTTP",
         NEW r \in Responses, NEW k \in Nat, ReadTo(r, k),
         NEW n \in Nat, n <= Len(arrived),
         NEW lines, lines = HeadRead(n), NEW parser, parser = ParseHead(lines)
  PROVE  \/ /\ BlankIn(lines) = 0 /\ k + n < BlankIn(r)
            /\ parser = ReadAll(StartOfHead, Part(r, 0, k + n))
         \/ BlankIn(lines) # 0 /\ parser = HeadOf(r)
<1>1. PICK S, a, b : S = Lines /\ a = arrived /\ b = BlankIn(r)
  OBVIOUS
<1>2. r \in Seq(S) /\ a \in Seq(S)
  BY <1>1, HeardLines, SeqMonotonic DEF LineInv
<1>3. PICK m \in Nat : m = Len(r)
  BY <1>2, LenProperties
<1>4. /\ b \in 1..m /\ r[b].t = "blank" /\ k < b
      /\ \A i \in 1..b - 1 : r[i].t # "blank"
  BY <1>1, <1>2, <1>3, BlankIs DEF ReadTo
<1>5. lines \in Seq(S) /\ Len(lines) = n /\ \A i \in 1..n : lines[i] = a[i]
  <2>1. lines = <<>> \o SubSeq(a, 1, n)
    BY <1>1 DEF ReadTo, HeadRead
  <2>2. <<>> \in Seq(S) /\ n <= Len(a)
    BY <1>1, EmptySeq
  <2>3. /\ SubSeq(a, 1, n) \in Seq(S) /\ Len(SubSeq(a, 1, n)) = n
        /\ \A i \in 1..n : SubSeq(a, 1, n)[i] = a[i]
        /\ <<>> \o SubSeq(a, 1, n) = SubSeq(a, 1, n)
    BY <1>2, <2>2, ReadIs
  <2>4. QED
    BY <2>1, <2>3
<1>6. \A i \in 1..m - k : i <= n => lines[i] = r[k + i]
  <2> SUFFICES ASSUME NEW i \in 1..m - k, i <= n PROVE lines[i] = r[k + i]
    OBVIOUS
  <2>1. i \in 1..n /\ i \in 1..Len(a)
    BY <1>1, <1>2, LenProperties
  <2>2. Coming[i] = a[i]
    BY <1>1, <2>1, ComingTyped
  <2>3. Coming[i] = r[k + i]
    BY <1>3 DEF ReadTo, Ahead
  <2>4. QED
    BY <1>5, <2>1, <2>2, <2>3
<1>7a. PICK p \in Parsers : p = Parser
  BY DEF LineInv
<1>7. PICK h : p = Parser /\ h = HeadPart(lines)
  BY <1>7a
<1>8. parser = ReadAll(p, h)
  <2>1. parser = FoldLeft(parse_http_response_line, Parser, HeadPart(lines))
    BY Zenon DEF ParseHead, Parser, HeadPart
  <2>2. QED
    BY <1>7, <2>1 DEF ReadAll
<1>9. /\ h \in Seq(S)
      /\ Len(h) = IF BlankIn(lines) = 0 THEN n ELSE BlankIn(lines) - 1
      /\ \A i \in 1..Len(h) : h[i] = lines[i]
  BY <1>5, <1>7, HeadPartIs
<1>10. PICK start \in Parsers : start = StartOfHead
  BY StartIsParser
<1>11. p = ReadAll(start, Part(r, 0, k))
  BY <1>7, <1>10 DEF ReadTo
<1>12. ASSUME NEW e \in Nat, k <= e, e <= m, Len(h) = e - k, e - k <= n
       PROVE  parser = ReadAll(start, Part(r, 0, e))
  <2>1. PICK q : q = Part(r, k, e)
    OBVIOUS
  <2>2. q \in Seq(S) /\ Len(q) = e - k /\ \A i \in 1..e - k : q[i] = r[k + i]
    <3>1. r \in Seq(S) /\ k <= e /\ e <= Len(r)
      BY <1>2, <1>3, <1>12
    <3>2. /\ Part(r, k, e) \in Seq(S) /\ Len(Part(r, k, e)) = e - k
          /\ \A i \in 1..e - k : Part(r, k, e)[i] = r[k + i]
      BY <3>1, PartIs
    <3>3. QED
      BY <2>1, <3>2
  <2>3. \A i \in 1..e - k : h[i] = q[i]
    <3> SUFFICES ASSUME NEW i \in 1..e - k PROVE h[i] = q[i]
      OBVIOUS
    <3>1. i \in 1..m - k /\ i <= n /\ i \in 1..Len(h)
      BY <1>12
    <3>2. h[i] = lines[i] /\ lines[i] = r[k + i]
      BY <1>6, <1>9, <3>1
    <3>3. QED
      BY <2>2, <3>2
  <2>4. h = q
    BY <1>9, <1>12, <2>2, <2>3, SeqEqual
  <2>5. ReadAll(p, Part(r, k, e)) = ReadAll(start, Part(r, 0, e))
    BY <1>1, <1>2, <1>3, <1>11, <1>12, ReadOn
  <2>6. QED
    BY <1>8, <2>1, <2>4, <2>5
<1>13. CASE k + n < b
  <2>1. \A i \in 1..n : lines[i].t # "blank"
    <3> SUFFICES ASSUME NEW i \in 1..n PROVE lines[i].t # "blank"
      OBVIOUS
    <3>1. i \in 1..m - k /\ i <= n /\ k + i \in 1..b - 1
      BY <1>4, <1>13
    <3>2. QED
      BY <1>4, <1>6, <3>1
  <2>2. BlankIn(lines) = 0
    <3>1. BlankIn(lines) \in 1..n => lines[BlankIn(lines)].t # "blank"
      BY <2>1
    <3>2. QED
      BY <1>5, <3>1, BlankIs
  <2>3. PICK e \in Nat : e = k + n
    OBVIOUS
  <2>4. k <= e /\ e <= m /\ Len(h) = e - k /\ e - k <= n
    BY <1>4, <1>9, <1>13, <2>2, <2>3
  <2>5. parser = ReadAll(start, Part(r, 0, e))
    BY <1>12, <2>4
  <2>6. QED
    BY <1>1, <1>10, <1>13, <2>2, <2>3, <2>5
<1>14. CASE ~(k + n < b)
  <2>1. PICK j \in 1..n : j = b - k
    BY <1>4, <1>14
  <2>2. j \in 1..m - k /\ k + j = b /\ j <= n
    BY <1>4, <2>1
  <2>3. lines[j].t = "blank"
    BY <1>4, <1>6, <2>2
  <2>4. PICK l : l = BlankIn(lines)
    OBVIOUS
  <2>5. l \in 1..n /\ lines[l].t = "blank" /\ \A i \in 1..l - 1 : lines[i].t # "blank"
    <3>1. ~\A i \in 1..n : lines[i].t # "blank"
      BY <2>3
    <3>2. QED
      BY <1>5, <2>4, <3>1, BlankIs
  <2>6. l = j
    <3>1. ~(j < l)
      <4>1. j < l => j \in 1..l - 1
        BY <2>5
      <4>2. QED
        BY <2>3, <2>5, <4>1
    <3>2. ~(l < j)
      <4> SUFFICES ASSUME l < j PROVE FALSE
        OBVIOUS
      <4>1. l \in 1..m - k /\ l <= n /\ k + l \in 1..b - 1
        BY <2>1, <2>2, <2>5
      <4>2. QED
        BY <1>4, <1>6, <2>5, <4>1
    <3>3. QED
      BY <2>5, <3>1, <3>2
  <2>7. PICK e \in Nat : e = b - 1
    BY <1>4
  <2>8. k <= e /\ e <= m /\ Len(h) = e - k /\ e - k <= n /\ l # 0
    BY <1>4, <1>9, <2>1, <2>4, <2>5, <2>6, <2>7
  <2>9. parser = ReadAll(start, Part(r, 0, e))
    BY <1>12, <2>8
  <2>10. HeadOf(r) = ReadAll(start, Part(r, 0, e))
    <3>1. 0 + 1 = 1
      OBVIOUS
    <3>2. Part(r, 0, e) = SubSeq(r, 1, b - 1)
      BY <2>7, <3>1 DEF Part
    <3>3. QED
      BY <1>1, <1>10, <3>2 DEF HeadOf, ReadAll
  <2>11. QED
    BY <2>4, <2>8, <2>9, <2>10
<1>15. QED
  BY <1>13, <1>14

\* What is read of an endless response has no blank line.
LEMMA EndlessGoesOn ==
  ASSUME LineInv, Endless, NEW n \in Nat, n <= Len(arrived), NEW lines, lines = HeadRead(n)
  PROVE  BlankIn(lines) = 0
<1>1. PICK S, a : S = Lines /\ a = arrived
  OBVIOUS
<1>2. a \in Seq(S) /\ <<>> \in Seq(S) /\ n <= Len(a) /\ Len(a) \in Nat
  BY <1>1, EmptySeq, LenProperties DEF LineInv
<1>3. lines = <<>> \o SubSeq(a, 1, n)
  BY <1>1 DEF Endless, HeadRead
<1>4. lines \in Seq(S) /\ Len(lines) = n /\ \A i \in 1..n : lines[i] = a[i]
  <2>1. /\ SubSeq(a, 1, n) \in Seq(S) /\ Len(SubSeq(a, 1, n)) = n
        /\ \A i \in 1..n : SubSeq(a, 1, n)[i] = a[i]
        /\ <<>> \o SubSeq(a, 1, n) = SubSeq(a, 1, n)
    BY <1>2, ReadIs
  <2>2. QED
    BY <1>3, <2>1
<1>5. \A i \in 1..n : lines[i].t # "blank"
  <2> SUFFICES ASSUME NEW i \in 1..n PROVE lines[i].t # "blank"
    OBVIOUS
  <2>1. i \in 1..Len(a)
    BY <1>2
  <2>2. Coming[i] = a[i] /\ i \in 1..Len(Coming)
    BY <1>1, <2>1, ComingTyped
  <2>3. QED
    BY <1>4, <2>2 DEF Endless
<1>6. BlankIn(lines) \in 1..n => lines[BlankIn(lines)].t # "blank"
  BY <1>5
<1>7. QED
  BY <1>4, <1>6, BlankIs

\* More lines behind those that come,
LEMMA AheadOfMore ==
  ASSUME NEW S, NEW L \in Seq(S), NEW x, NEW N, N = Append(L, x)
  PROVE  /\ Len(N) = Len(L) + 1 /\ Len(L) \in Nat /\ N[Len(L) + 1] = x
         /\ \A i \in 1..Len(L) : N[i] = L[i]
         /\ \A r, k : k \in Nat /\ Len(r) \in Nat /\ Ahead(r, k, L) => Ahead(r, k, N)
<1>t. PICK T : T = S \cup {x}
  OBVIOUS
<1>1. PICK m \in Nat : m = Len(L)
  BY LenProperties
<1>2. L \in Seq(T) /\ x \in T
  BY <1>t, SeqMonotonic
<1>3. Len(N) = m + 1 /\ N[m + 1] = x /\ \A i \in 1..m : N[i] = L[i]
  BY <1>1, <1>2, AppendProperties
<1>4. ASSUME NEW r, NEW k, k \in Nat, Len(r) \in Nat, Ahead(r, k, L) PROVE Ahead(r, k, N)
  <2>1. PICK d \in Int : d = Len(r) - k
    BY <1>4
  <2>2. d <= m /\ \A i \in 1..d : L[i] = r[k + i]
    BY <1>1, <1>4, <2>1 DEF Ahead
  <2>3. d <= m + 1 /\ \A i \in 1..d : N[i] = r[k + i]
    BY <1>3, <2>2
  <2>4. QED
    BY <1>3, <2>1, <2>3 DEF Ahead
<1>5. QED
  BY <1>1, <1>3, <1>4

\* or fewer before them.
LEMMA AheadOfRest ==
  ASSUME NEW r, Len(r) \in Nat, NEW k \in Nat, NEW n \in Nat, NEW L, Ahead(r, k, L),
         k + n <= Len(r), NEW N, Len(L) \in Nat, n <= Len(L), Len(N) = Len(L) - n,
         \A i \in 1..Len(N) : N[i] = L[n + i]
  PROVE  Ahead(r, k + n, N)
<1>1. PICK m \in Nat, d \in Nat : m = Len(r) /\ d = Len(L)
  OBVIOUS
<1>2. m - k <= d /\ \A i \in 1..m - k : L[i] = r[k + i]
  BY <1>1 DEF Ahead
<1>3. \A i \in 1..m - (k + n) : N[i] = r[(k + n) + i]
  <2> SUFFICES ASSUME NEW i \in 1..m - (k + n) PROVE N[i] = r[(k + n) + i]
    OBVIOUS
  <2>1. i \in 1..Len(N) /\ n + i \in 1..m - k /\ k + (n + i) = (k + n) + i
    BY <1>1, <1>2
  <2>2. QED
    BY <1>2, <2>1
<1>4. QED
  BY <1>1, <1>2, <1>3 DEF Ahead

\* Before anything is read of it a response is endless or has its head to come.
LEMMA HeadBegins ==
  ASSUME LineInv, Coming \in Responses, Parser' = StartOfHead, state_data'.input_buffer = <<>>,
         Coming' = Coming
  PROVE  (Endless \/ \E r \in Responses, k \in Nat : ReadTo(r, k))'
<1>1a. PICK S : S = Lines
  OBVIOUS
<1>1. PICK r \in Responses : r = Coming /\ S = Lines
  BY <1>1a
<1>2. r \in Seq(S) /\ Len(r) \in Nat
  BY <1>1, HeardLines, SeqMonotonic, LenProperties
<1>3. CASE BlankIn(r) = 0
  <2>1. \A i \in 1..Len(r) : r[i].t # "blank"
    BY <1>2, <1>3, BlankIs
  <2>2. QED
    BY <1>1, <2>1 DEF Endless
<1>4. CASE BlankIn(r) # 0
  <2>1. PICK o \in Nat : o = 0
    OBVIOUS
  <2>2. o < BlankIn(r)
    BY <1>2, <1>4, <2>1, BlankIs
  <2>3. StartOfHead = ReadAll(StartOfHead, Part(r, o, o))
    <3>1. PICK p \in Parsers : p = StartOfHead
      BY StartIsParser
    <3>2. PICK f : f = ReadAll(p, Part(r, o, o))
      OBVIOUS
    <3>3. o <= o /\ o <= Len(r) /\ o - o = 0
      BY <1>2, <2>1
    <3>4. PICK c : Passes(c, p, r, o, o - o, f)
      BY <1>1, <1>2, <3>2, <3>3, ReadPart
    <3>5. p = f
      BY <3>3, <3>4 DEF Passes
    <3>6. QED
      BY <3>1, <3>2, <3>5
  <2>4. Ahead(r, o, r)
    BY <1>2, <2>1 DEF Ahead
  <2>5. ReadTo(r, o)'
    BY <1>1, <2>1, <2>2, <2>3, <2>4 DEF ReadTo
  <2>6. QED
    BY <2>1, <2>5
<1>5. QED
  BY <1>3, <1>4

\* One read of the head that neither ends the connection nor begins a stream.
LEMMA HeadKeepsOn ==
  ASSUME LineInv, HeadInv, conn = "CONNECTED", radio = "RECEIVING_HTTP",
         NEW n \in Nat, n <= Len(arrived),
         NEW lines, lines = HeadRead(n), NEW parser, parser = ParseHead(lines), ~parser.thrown,
         NEW rest, GoesOn(parser, rest), BlankIn(lines) = 0 => rest = <<>>,
         BlankIn(lines) # 0 => NoAnswer(parser.response),
         UNCHANGED server, arrived' = SubSeq(arrived, n + 1, Len(arrived))
  PROVE  (Settled \/ Endless \/ \E r \in Responses, k \in Nat : ReadTo(r, k))'
<1>1. /\ parser \in Parsers
      /\ Parser.current_line = 1 =>
           parser.current_line = 1 /\ parser.response.status_code = Parser.response.status_code
  BY HeadIsParsed
<1>2. Parser' = parser /\ state_data'.input_buffer = rest
  BY <1>1 DEF GoesOn, Parser, Parsers
<1>3. PICK L, N : L = Coming /\ N = Coming'
  OBVIOUS
<1>4. /\ Len(L) \in Nat /\ n <= Len(L) /\ Len(N) = Len(L) - n
      /\ \A i \in 1..Len(N) : N[i] = L[n + i]
  BY <1>3, ReadComes
<1>5. CASE Settled
  <2>1. parser.current_line = 1 /\ parser.response.status_code = Parser.response.status_code
    BY <1>1, <1>5 DEF Settled
  <2>2. QED
    BY <1>2, <1>5, <2>1 DEF Settled, IsRedirect
<1>6. CASE Endless
  <2>1. rest = <<>>
    BY <1>6, EndlessGoesOn
  <2>2. \A i \in 1..Len(N) : N[i].t # "blank"
    <3> SUFFICES ASSUME NEW i \in 1..Len(N) PROVE N[i].t # "blank"
      OBVIOUS
    <3>1. n + i \in 1..Len(L)
      BY <1>4
    <3>2. QED
      BY <1>3, <1>4, <1>6, <3>1 DEF Endless
  <2>3. QED
    BY <1>2, <1>3, <2>1, <2>2 DEF Endless
<1>7. ASSUME NEW r \in Responses, NEW k \in Nat, ReadTo(r, k)
      PROVE  (Settled \/ \E q \in Responses, j \in Nat : ReadTo(q, j))'
  <2>1. \/ /\ BlankIn(lines) = 0 /\ k + n < BlankIn(r)
           /\ parser = ReadAll(StartOfHead, Part(r, 0, k + n))
        \/ BlankIn(lines) # 0 /\ parser = HeadOf(r)
    BY <1>7, HeadGoesOn
  <2>2. CASE BlankIn(lines) # 0
    <3>1. parser.response.status_code # 0 /\ ~IsRedirect(parser.response)
      <4>1. NoAnswer(parser.response)
        BY <2>2
      <4>2. PICK code : code = parser.response.status_code
        OBVIOUS
      <4>3. code \in 100..599 => code # 0
        OBVIOUS
      <4>4. QED
        BY <4>1, <4>2, <4>3 DEF NoAnswer
    <3>2. parser.current_line = 1
      BY <3>1, StatusIsRead
    <3>3. QED
      BY <1>2, <3>1, <3>2 DEF Settled
  <2>3. CASE BlankIn(lines) = 0
    <3>1. PICK j \in Nat : j = k + n
      OBVIOUS
    <3>2. r \in Seq(HeadLines) /\ Len(r) \in Nat
      BY HeardLines, LenProperties
    <3>3. j < BlankIn(r) /\ BlankIn(r) <= Len(r)
      BY <2>1, <2>3, <3>1, <3>2, BlankIs
    <3>4. Ahead(r, k, L) /\ k + n <= Len(r)
      <4>1. BlankIn(r) \in 1..Len(r)
        BY <3>1, <3>2, <3>3, BlankIs
      <4>2. QED
        BY <1>3, <1>7, <3>1, <3>2, <3>3, <4>1 DEF ReadTo
    <3>5. Ahead(r, k + n, N)
      BY <1>4, <3>2, <3>4, AheadOfRest
    <3>6. ReadTo(r, j)'
      BY <1>2, <1>3, <2>1, <2>3, <3>1, <3>3, <3>5 DEF ReadTo
    <3>7. QED
      BY <3>1, <3>6
  <2>4. QED
    BY <2>2, <2>3
<1>8. QED
  BY <1>5, <1>6, <1>7 DEF HeadInv

\* Every step keeps track of the head.
LEMMA HeadStep ==
  ASSUME ~TalksFirst, SocketInv, RequestInv, LineInv, HeadInv, [Next]_vars
  PROVE  HeadInv'
<1>1. CASE SameSession
  <2>1. Coming' = Coming
    BY <1>1, QuietComes
  <2>2. QED
    BY <1>1, <2>1 DEF SameSession, HeadInv, Settled, Endless, ReadTo, Parser
<1>2. CASE Parted
  BY <1>2 DEF Parted, Cut, HeadInv
<1>3. CASE Connect
  BY <1>3, ConnectComes DEF HeadInv
<1>4. CASE ServerSends
  <2>1. UNCHANGED <<radio, state_data, conn>>
    BY <1>4 DEF ServerSends, client
  <2>2. CASE conn = "CONNECTED" /\ radio = "SENDING_HTTP"
    <3>1. Len(received) = RequestLen
      BY <1>4 DEF ServerSends
    <3>2. PICK k \in 0..RequestLen - 1 : received = Pieces(k)
      BY <2>2 DEF RequestInv
    <3>3. Len(received) = k
      <4>1. k \in Nat
        BY RadioAssumption
      <4>2. QED
        BY <3>2, <4>1, PiecesAre DEF Pieces
    <3>4. QED
      BY <3>1, <3>2, <3>3, RadioAssumption
  <2>3. CASE conn = "CONNECTED" /\ radio = "RECEIVING_HTTP"
    <3>1. PICK L, N : L = Coming /\ N = Coming'
      OBVIOUS
    <3>2. L \in Seq(Lines)
      BY <3>1, ComingTyped
    <3>3. Parser' = Parser /\ state_data'.input_buffer = state_data.input_buffer
      BY <2>1 DEF Parser
    <3>4. CASE N = L
      BY <2>1, <2>3, <3>1, <3>3, <3>4 DEF HeadInv, Settled, Endless, ReadTo
    <3>5. CASE N = Append(L, Body(server.code))
      <4>1. PICK x : x = Body(server.code)
        OBVIOUS
      <4>2. /\ Len(N) = Len(L) + 1 /\ Len(L) \in Nat /\ N[Len(L) + 1] = x
            /\ \A i \in 1..Len(L) : N[i] = L[i]
            /\ \A r, k : k \in Nat /\ Len(r) \in Nat /\ Ahead(r, k, L) => Ahead(r, k, N)
        <5>1. PICK S : S = Lines
          OBVIOUS
        <5>2. L \in Seq(S) /\ N = Append(L, x)
          BY <3>2, <3>5, <4>1, <5>1
        <5>3. \A r, k : k \in Nat /\ Len(r) \in Nat /\ Ahead(r, k, L) => Ahead(r, k, N)
          BY <5>2, AheadOfMore
        <5>4. /\ Len(N) = Len(L) + 1 /\ Len(L) \in Nat /\ N[Len(L) + 1] = x
              /\ \A i \in 1..Len(L) : N[i] = L[i]
          BY <5>2, AheadOfMore
        <5>5. QED
          BY <5>3, <5>4
      <4>3. CASE Settled
        BY <2>1, <2>3, <3>3, <4>3 DEF HeadInv, Settled
      <4>4. CASE Endless
        <5>1. x.t # "blank"
          BY <4>1 DEF Body
        <5>2. \A i \in 1..Len(N) : i \in 1..Len(L) \/ i = Len(L) + 1
          BY <4>2
        <5>3. \A i \in 1..Len(N) : N[i].t # "blank"
          BY <3>1, <4>2, <4>4, <5>1, <5>2 DEF Endless
        <5>4. Endless'
          BY <3>1, <3>3, <4>4, <5>3 DEF Endless
        <5>5. QED
          BY <2>1, <2>3, <5>4 DEF HeadInv
      <4>5. ASSUME NEW r \in Responses, NEW k \in Nat, ReadTo(r, k) PROVE ReadTo(r, k)'
        <5>1. r \in Seq(HeadLines) /\ Len(r) \in Nat
          BY HeardLines, LenProperties
        <5>2. Ahead(r, k, N)
          BY <3>1, <4>2, <4>5, <5>1 DEF ReadTo
        <5>3. QED
          BY <3>1, <3>3, <4>5, <5>2 DEF ReadTo
      <4>6. QED
        BY <2>1, <2>3, <4>3, <4>4, <4>5 DEF HeadInv
    <3>6. QED
      BY <1>4, <3>1, <3>4, <3>5, SendComes
  <2>4. QED
    BY <2>1, <2>2, <2>3 DEF HeadInv
<1>5. CASE handle_sending_http_data
  <2>1. UNCHANGED <<server, arrived, conn>> /\ radio = "SENDING_HTTP"
    BY <1>5 DEF handle_sending_http_data, MaySend
  <2>2. Coming' = Coming
    BY <2>1 DEF Coming
  <2>3. CASE radio' = "SENDING_HTTP"
    BY <2>1, <2>2, <2>3 DEF HeadInv
  <2>4. CASE radio' = "RECEIVING_HTTP"
    <3>1. state_data' = [kind |-> "parsing", current_line |-> 0,
                         response |-> EmptyResponse, input_buffer |-> <<>>]
      BY <1>5, <2>1, <2>4 DEF handle_sending_http_data
    <3>2. Parser' = StartOfHead /\ state_data'.input_buffer = <<>>
      BY <3>1 DEF Parser, StartOfHead
    <3>3. conn = "CONNECTED" => Coming \in Responses
      BY <2>1 DEF HeadInv
    <3>4. QED
      BY <2>1, <2>2, <2>4, <3>2, <3>3, HeadBegins DEF HeadInv
  <2>5. QED
    BY <1>5, <2>1, <2>3, <2>4 DEF handle_sending_http_data
<1>6. ASSUME NEW n \in 1..SocketSize, ReceiveEarly(n) PROVE HeadInv'
  <2>1. arrived # <<>> /\ radio = "SENDING_HTTP" /\ outcome = "running"
    BY <1>6 DEF ReceiveEarly, CanRead, Readable, At
  <2>2. QED
    BY <2>1 DEF SocketInv, RequestInv
<1>7. ASSUME NEW n \in 1..SocketSize, ReceiveStream(n) PROVE HeadInv'
  BY <1>7 DEF ReceiveStream, client, HeadInv
<1>8. ASSUME NEW n \in 0..SocketSize, ReceiveHead(n), ~Parted PROVE HeadInv'
  <2>1. PICK lines, parser : lines = HeadRead(n) /\ parser = ParseHead(lines)
    OBVIOUS
  <2>2. /\ ~parser.thrown
        /\ arrived' = SubSeq(arrived, n + 1, Len(arrived)) /\ n <= Len(arrived)
        /\ conn = "CONNECTED" /\ UNCHANGED <<outcome, url, client_cookies, conn, server>>
        /\ \/ BlankIn(lines) = 0 /\ GoesOn(parser, <<>>)
           \/ BlankIn(lines) # 0 /\ NoAnswer(parser.response) /\ GoesOn(parser, HeadRest(lines))
           \/ /\ BlankIn(lines) # 0 /\ parser.response.status_code = 200
              /\ Begins(HeadRest(lines))
    BY <1>8, <2>1, HeadSteps
  <2>3. radio = "RECEIVING_HTTP" /\ n \in Nat
    BY <1>8 DEF ReceiveHead
  <2>4. ASSUME NEW rest, GoesOn(parser, rest), BlankIn(lines) = 0 => rest = <<>>,
               BlankIn(lines) # 0 => NoAnswer(parser.response)
        PROVE  HeadInv'
    <3>1. (Settled \/ Endless \/ \E r \in Responses, k \in Nat : ReadTo(r, k))'
      BY <2>1, <2>2, <2>3, <2>4, HeadKeepsOn
    <3>2. radio' = "RECEIVING_HTTP"
      BY <2>4 DEF GoesOn
    <3>3. QED
      BY <3>1, <3>2 DEF HeadInv
  <2>5. CASE Begins(HeadRest(lines))
    BY <2>5 DEF Begins, HeadInv
  <2>6. QED
    BY <2>2, <2>4, <2>5
<1>9. QED
  BY <1>1, <1>2, <1>3, <1>4, <1>5, <1>6, <1>7, <1>8, SessionSteps

(***************************************************************************)
(* The client implements its session.                                      *)
(***************************************************************************)

\* Of the first k of some cookies, those not set again, and what they leave of others.
Lasting(C, O, k) ==
  {C[i] : i \in {j \in O : j <= k /\ \A m \in O : m > j /\ m <= k => ~SameCookie(C[j], C[m])}}
Remaining(J, C, O, k) == {c \in J : \A m \in O : m <= k => ~SameCookie(c, C[m])}
After(J, C, O, k) == Lasting(C, O, k) \cup Remaining(J, C, O, k)

\* One cookie more.
LEMMA OneMoreCookie ==
  ASSUME NEW n \in Nat, NEW k \in 1..n, NEW O \in SUBSET (1..n), NEW C, NEW J, NEW new, new = C[k]
  PROVE  /\ k \notin O => After(J, C, O, k) = After(J, C, O, k - 1)
         /\ k \in O =>
              After(J, C, O, k) = {c \in After(J, C, O, k - 1) : ~SameCookie(c, new)} \cup {new}
<1>1. \A m \in O : (m <= k <=> m <= k - 1 \/ m = k) /\ (m <= k - 1 => m # k)
  OBVIOUS
<1>2. CASE k \notin O
  <2>1. \A m \in O : m <= k <=> m <= k - 1
    BY <1>1, <1>2
  <2>2. Lasting(C, O, k) = Lasting(C, O, k - 1)
    BY <2>1 DEF Lasting
  <2>3. Remaining(J, C, O, k) = Remaining(J, C, O, k - 1)
    BY <2>1 DEF Remaining
  <2>4. QED
    BY <1>2, <2>2, <2>3 DEF After
<1>3. CASE k \in O
  <2>1. Lasting(C, O, k) = {c \in Lasting(C, O, k - 1) : ~SameCookie(c, new)} \cup {new}
    <3>1. ASSUME NEW x \in Lasting(C, O, k)
          PROVE  x \in {c \in Lasting(C, O, k - 1) : ~SameCookie(c, new)} \cup {new}
      <4>1. PICK j \in O : /\ x = C[j] /\ j <= k
                           /\ \A m \in O : m > j /\ m <= k => ~SameCookie(C[j], C[m])
        BY <3>1 DEF Lasting
      <4>2. CASE j = k
        BY <4>1, <4>2
      <4>3. CASE j # k
        <5>1. j <= k - 1 /\ k > j /\ k <= k
          BY <4>1, <4>3, <1>1
        <5>2. ~SameCookie(x, new)
          BY <1>3, <4>1, <5>1
        <5>3. \A m \in O : m > j /\ m <= k - 1 => ~SameCookie(C[j], C[m])
          BY <1>1, <4>1
        <5>4. x \in Lasting(C, O, k - 1)
          BY <4>1, <5>1, <5>3 DEF Lasting
        <5>5. QED
          BY <5>2, <5>4
      <4>4. QED
        BY <4>2, <4>3
    <3>2. new \in Lasting(C, O, k)
      <4>1. k <= k /\ \A m \in O : ~(m > k /\ m <= k)
        OBVIOUS
      <4>2. QED
        BY <1>3, <4>1 DEF Lasting
    <3>3. ASSUME NEW x \in Lasting(C, O, k - 1), ~SameCookie(x, new)
          PROVE  x \in Lasting(C, O, k)
      <4>1. PICK j \in O : /\ x = C[j] /\ j <= k - 1
                           /\ \A m \in O : m > j /\ m <= k - 1 => ~SameCookie(C[j], C[m])
        BY <3>3 DEF Lasting
      <4>2. j <= k
        BY <1>1, <4>1
      <4>3. \A m \in O : m > j /\ m <= k => ~SameCookie(C[j], C[m])
        BY <1>1, <3>3, <4>1
      <4>4. QED
        BY <4>1, <4>2, <4>3 DEF Lasting
    <3>4. QED
      BY <3>1, <3>2, <3>3
  <2>2. Remaining(J, C, O, k) = {c \in Remaining(J, C, O, k - 1) : ~SameCookie(c, new)}
    <3>1. \A c : (\A m \in O : m <= k => ~SameCookie(c, C[m]))
                   <=> (\A m \in O : m <= k - 1 => ~SameCookie(c, C[m])) /\ ~SameCookie(c, new)
      BY <1>1, <1>3
    <3>2. QED
      BY <3>1 DEF Remaining
  <2>3. QED
    BY <1>3, <2>1, <2>2 DEF After
<1>4. QED
  BY <1>2, <1>3

\* What merging the headers of a redirect, one by one, leaves in the jar.
LEMMA MergesAre ==
  ASSUME NEW jar, IsJar(jar), NEW headers, NEW n \in Nat, DOMAIN headers = 1..n, NEW host,
         NEW O, O = {i \in 1..n : headers[i].pair = "ok"},
         NEW C, C = [i \in 1..n |-> CookieOf(headers[i], host)]
  PROVE  ToSet(MergeAll(jar, headers, host)) = After(ToSet(jar), C, O, n)
<1>1. PICK c : MergesAlong(c, jar, headers, n, host) /\ MergeAll(jar, headers, host) = c[n]
  BY MergeChain
<1>2. /\ c[0] = jar
      /\ \A k \in 1..n : c[k] = merge_cookie(c[k-1], headers[k], host)
      /\ \A k \in 0..n : IsJar(c[k])
  BY <1>1 DEF MergesAlong
<1>3. PICK J : J = ToSet(jar)
  OBVIOUS
<1> DEFINE G == {k \in Nat : k <= n => ToSet(c[k]) = After(J, C, O, k)}
<1>4. 0 \in G
  <2>1. \A m \in O : ~(m <= 0)
    OBVIOUS
  <2>2. Lasting(C, O, 0) = {} /\ Remaining(J, C, O, 0) = J
    BY <2>1 DEF Lasting, Remaining
  <2>3. After(J, C, O, 0) = J
    BY <2>2 DEF After
  <2>4. QED
    BY <1>2, <1>3, <2>3
<1>5. ASSUME NEW i \in Nat, i \in G PROVE i + 1 \in G
  <2> SUFFICES ASSUME i + 1 <= n PROVE ToSet(c[i + 1]) = After(J, C, O, i + 1)
    OBVIOUS
  <2>1. PICK k \in 1..n : k = i + 1
    OBVIOUS
  <2>2. i = k - 1 /\ k - 1 \in 0..n
    BY <2>1
  <2>3. PICK old, header, new : old = c[k-1] /\ header = headers[k] /\ new = C[k]
    OBVIOUS
  <2>4. IsJar(old) /\ new = CookieOf(header, host) /\ ToSet(old) = After(J, C, O, k - 1)
    BY <1>2, <1>5, <2>2, <2>3
  <2>5. ToSet(merge_cookie(old, header, host)) = Merged(ToSet(old), header, host)
    BY <2>4, MergeKeeps
  <2>6. ToSet(c[k]) = Merged(After(J, C, O, k - 1), header, host)
    BY <1>2, <2>3, <2>4, <2>5
  <2>7. /\ k \notin O => After(J, C, O, k) = After(J, C, O, k - 1)
        /\ k \in O =>
             After(J, C, O, k) = {x \in After(J, C, O, k - 1) : ~SameCookie(x, new)} \cup {new}
    <3>1. O \in SUBSET (1..n)
      OBVIOUS
    <3>2. PICK P : P = O
      OBVIOUS
    <3>3. P \in SUBSET (1..n)
      BY <3>1, <3>2
    <3>4. /\ k \notin P => After(J, C, P, k) = After(J, C, P, k - 1)
          /\ k \in P =>
               After(J, C, P, k) = {x \in After(J, C, P, k - 1) : ~SameCookie(x, new)} \cup {new}
      BY <2>3, <3>3, OneMoreCookie
    <3>5. QED
      BY <3>2, <3>4
  <2>8. k \in O <=> header.pair = "ok"
    BY <2>3
  <2>9. Merged(After(J, C, O, k - 1), header, host) = After(J, C, O, k)
    BY <2>4, <2>7, <2>8 DEF Merged
  <2>10. QED
    BY <2>1, <2>6, <2>9
<1>6. Nat \subseteq G
  <2> HIDE DEF G
  <2> QED
    BY <1>4, <1>5, SetInduction
<1>7. QED
  BY <1>1, <1>3, <1>6

\* Cookies are the same for the session when they are for the client.
LEMMA SameIs ==
  ASSUME NEW c, NEW d, IsCookie(c), IsCookie(d)
  PROVE  Session!Same(c, d) <=> SameCookie(c, d)
<1>1. PICK ck, cv, cd, cp : ck = c.key /\ cv = c.value /\ cd = c.domain /\ cp = c.path
  OBVIOUS
<1>2. PICK dk, dv, dd, dp : dk = d.key /\ dv = d.value /\ dd = d.domain /\ dp = d.path
  OBVIOUS
<1>3. c = [key |-> ck, value |-> cv, domain |-> cd, path |-> cp]
  BY <1>1 DEF IsCookie
<1>4. d = [key |-> dk, value |-> dv, domain |-> dd, path |-> dp]
  BY <1>2 DEF IsCookie
<1>5. [c EXCEPT !.value = d.value] = [key |-> ck, value |-> dv, domain |-> cd, path |-> cp]
  BY <1>2, <1>3
<1>6. Session!Same(c, d) <=> ck = dk /\ cd = dd /\ cp = dp
  BY <1>4, <1>5 DEF Session!Same
<1>7. QED
  BY <1>1, <1>2, <1>6 DEF SameCookie

\* What the session grants with a redirect is what the client makes of its headers.
LEMMA GrantedIs ==
  ASSUME NEW r, NEW headers, headers = HeadOf(r).response.set_cookies, NEW n \in Nat,
         DOMAIN headers = 1..n,
         NEW O, O = {i \in 1..n : headers[i].pair = "ok"}
  PROVE  /\ DOMAIN RedirectOf(r).cookies = O
         /\ \A i \in O : Session!Granted(RedirectOf(r), i) = CookieOf(headers[i], url.host)
<1>2. PICK f : f = [j \in {l \in DOMAIN headers : headers[l].pair = "ok"} |->
         [key |-> headers[j].key, value |-> headers[j].value, domain |-> headers[j].domain,
          path |-> IF headers[j].path = "" THEN "/" ELSE headers[j].path]]
  OBVIOUS
<1>3. RedirectOf(r).cookies = f
  BY <1>2 DEF RedirectOf
<1>4. DOMAIN f = O
  BY <1>2
<1>5. ASSUME NEW i \in O
      PROVE  Session!Granted(RedirectOf(r), i) = CookieOf(headers[i], url.host)
  <2>1. PICK h, p : h = headers[i] /\ p = IF h.path = "" THEN "/" ELSE h.path
    OBVIOUS
  <2>2. f[i] = [key |-> h.key, value |-> h.value, domain |-> h.domain, path |-> p]
    BY <1>2, <2>1
  <2>3. PICK R : R = RedirectOf(r)
    OBVIOUS
  <2>4. R.cookies[i] = [key |-> h.key, value |-> h.value, domain |-> h.domain, path |-> p]
    BY <1>3, <2>2, <2>3
  <2>5. Session!Granted(R, i) = CookieOf(h, url.host)
    <3>1. PICK x, k, v, d, host :
            x = R.cookies[i] /\ k = h.key /\ v = h.value /\ d = h.domain /\ host = url.host
      OBVIOUS
    <3>2. x = [key |-> k, value |-> v, domain |-> d, path |-> p]
      BY <2>4, <3>1
    <3>3. CookieOf(h, host)
            = [key |-> k, value |-> v, domain |-> IF d = "" THEN host ELSE d, path |-> p]
      BY <2>1, <3>1 DEF CookieOf
    <3>4. Session!Granted(R, i) = IF d = "" THEN [x EXCEPT !.domain = host] ELSE x
      BY <3>1, <3>2 DEF Session!Granted
    <3>5. CASE d = ""
      <4>1. [x EXCEPT !.domain = host]
              = [key |-> k, value |-> v, domain |-> host, path |-> p]
        BY <3>2
      <4>2. CookieOf(h, host) = [key |-> k, value |-> v, domain |-> host, path |-> p]
        BY <3>3, <3>5
      <4>3. Session!Granted(R, i) = [x EXCEPT !.domain = host]
        BY <3>4, <3>5
      <4>4. QED
        BY <3>1, <4>1, <4>2, <4>3
    <3>6. CASE d # ""
      BY <3>1, <3>2, <3>3, <3>4, <3>6
    <3>7. QED
      BY <3>5, <3>6
  <2>6. QED
    BY <2>1, <2>3, <2>5
<1>6. QED
  BY <1>3, <1>4, <1>5

\* The jar of the client after a redirect is that of the session.
LEMMA JarFollows ==
  ASSUME IsJar(client_cookies),
         NEW r, NEW headers, headers = HeadOf(r).response.set_cookies, NEW n \in Nat,
         DOMAIN headers = 1..n,
         NEW after, after = MergeAll(client_cookies, headers, url.host)
  PROVE  ToSet(after) = Session!JarAfter(RedirectOf(r))
<1>1. PICK O : O = {i \in 1..n : headers[i].pair = "ok"}
  OBVIOUS
<1>2. PICK C : C = [i \in 1..n |-> CookieOf(headers[i], url.host)]
  OBVIOUS
<1>3. PICK jar, host : jar = client_cookies /\ host = url.host
  OBVIOUS
<1>4. PICK J : J = ToSet(jar)
  OBVIOUS
<1>5. ToSet(after) = After(J, C, O, n)
  <2>1. IsJar(jar)
    BY <1>3
  <2>2. C = [i \in 1..n |-> CookieOf(headers[i], host)]
    BY <1>2, <1>3
  <2>3. ToSet(MergeAll(jar, headers, host)) = After(ToSet(jar), C, O, n)
    BY <1>1, <2>1, <2>2, MergesAre
  <2>4. QED
    BY <1>3, <1>4, <2>3
<1>6. PICK R : R = RedirectOf(r)
  OBVIOUS
<1>7. DOMAIN R.cookies = O /\ \A i \in O : Session!Granted(R, i) = C[i]
  <2>1. /\ DOMAIN R.cookies = O
        /\ \A i \in O : Session!Granted(R, i) = CookieOf(headers[i], url.host)
    BY <1>1, <1>6, GrantedIs
  <2>2. \A i \in O : C[i] = CookieOf(headers[i], url.host)
    BY <1>1, <1>2
  <2>3. QED
    BY <2>1, <2>2
<1>8. \A i \in O : IsCookie(C[i])
  <2>1. \A i \in O : C[i] = CookieOf(headers[i], url.host)
    BY <1>1, <1>2
  <2>2. ASSUME NEW h, NEW x, NEW c, c = CookieOf(h, x) PROVE IsCookie(c)
    BY <2>2 DEF CookieOf, IsCookie
  <2>3. QED
    BY <2>1, <2>2
<1>9. \A c \in J : IsCookie(c)
  BY <1>3, <1>4 DEF IsJar, ToSet
<1>10. \A i, j \in O : Session!Same(C[i], C[j]) <=> SameCookie(C[i], C[j])
  BY <1>8, SameIs
<1>11. \A c \in J, i \in O : Session!Same(c, C[i]) <=> SameCookie(c, C[i])
  BY <1>8, <1>9, SameIs
<1>12. \A m \in O : m <= n
  BY <1>1
<1>13. PICK Lasts : Lasts = {j \in O : \A k \in O : k > j => ~SameCookie(C[j], C[k])}
  OBVIOUS
<1>14. Lasting(C, O, n) = {C[i] : i \in Lasts}
  BY <1>12, <1>13 DEF Lasting
<1>15. {Session!Granted(R, i) : i \in {j \in DOMAIN R.cookies : \A k \in DOMAIN R.cookies :
           k > j => ~Session!Same(Session!Granted(R, j), Session!Granted(R, k))}}
         = {C[i] : i \in Lasts}
  <2>1. {j \in DOMAIN R.cookies : \A k \in DOMAIN R.cookies :
           k > j => ~Session!Same(Session!Granted(R, j), Session!Granted(R, k))} = Lasts
    BY <1>7, <1>10, <1>13
  <2>2. \A i \in Lasts : Session!Granted(R, i) = C[i]
    BY <1>7, <1>13
  <2>3. QED
    BY <2>1, <2>2
<1>16. {c \in J : \A i \in DOMAIN R.cookies : ~Session!Same(c, Session!Granted(R, i))}
         = Remaining(J, C, O, n)
  BY <1>7, <1>11, <1>12 DEF Remaining
<1>17. Session!JarAfter(R) = Lasting(C, O, n) \cup Remaining(J, C, O, n)
  BY <1>3, <1>4, <1>14, <1>15, <1>16, Zenon DEF Session!JarAfter
<1>18. QED
  BY <1>5, <1>6, <1>17 DEF After

\* Every step is one of the session's, or none.
LEMMA SessionStep ==
  ASSUME ~TalksFirst, SocketInv, LineInv, HeadInv, IsJar(client_cookies), [Next]_vars
  PROVE  [Session!Next]_(Session!vars)
<1>s. ASSUME UNCHANGED <<Phase, url, client_cookies>> PROVE [Session!Next]_(Session!vars)
  BY <1>s DEF Session!vars
<1>1. CASE SameSession
  <2>1. UNCHANGED <<Phase, url, client_cookies>>
    BY <1>1 DEF SameSession, Phase
  <2>2. QED
    BY <1>s, <2>1
<1>2. CASE Parted
  <2>1. CASE Ended
    <3>1. Phase # "over" /\ Phase' = "over" /\ UNCHANGED <<url, client_cookies>>
      BY <2>1 DEF Ended, Phase
    <3>2. Session!Stop
      BY <3>1 DEF Session!Stop
    <3>3. QED
      BY <3>2 DEF Session!Next
  <2>2. CASE TimedOut
    <3>1. outcome = "running" /\ outcome' = "running" /\ radio' = "NOT_CONNECTED"
          /\ url' = Original /\ client_cookies' = <<>>
      BY <2>2 DEF TimedOut, At, Goto
    <3>2. Phase # "over" /\ Phase' = "seeking"
      BY <3>1 DEF Phase
    <3>3. ToSet(client_cookies') = {}
      <4>1. ToSet(<<>>) = {}
        BY EmptySeq DEF ToSet
      <4>2. QED
        BY <3>1, <4>1
    <3>4. Session!StartOver
      BY <3>1, <3>2, <3>3 DEF Session!StartOver
    <3>5. QED
      BY <3>4 DEF Session!Next
  <2>3. CASE Moved
    <3>1. radio = "RECEIVING_HTTP" /\ outcome = "running" /\ conn = "CONNECTED"
      BY <2>3, MovedIs
    <3>2. PICK n \in Nat : /\ n <= Len(arrived)
                           /\ ParseHead(HeadRead(n)) \in Parsers
                           /\ Redirected(HeadRead(n), ParseHead(HeadRead(n)))
      BY <2>3, MovedIs
    <3>3. PICK lines, parser : lines = HeadRead(n) /\ parser = ParseHead(lines)
      OBVIOUS
    <3>4. parser \in Parsers /\ BlankIn(lines) # 0 /\ IsRedirect(parser.response)
          /\ client_cookies' = MergeAll(client_cookies, parser.response.set_cookies, url.host)
          /\ url' = parser.response.location
      BY <3>2, <3>3 DEF Redirected
    <3>5. PICK r \in Responses, k \in Nat : ReadTo(r, k)
      <4>1. ~Settled
        <5>1. Parser.current_line = 1 =>
                parser.response.status_code = Parser.response.status_code
          BY <3>1, <3>2, <3>3, HeadIsParsed
        <5>2. QED
          BY <3>4, <5>1 DEF Settled, IsRedirect
      <4>2. ~Endless
        BY <3>2, <3>3, <3>4, EndlessGoesOn
      <4>3. QED
        BY <3>1, <4>1, <4>2 DEF HeadInv
    <3>6. parser = HeadOf(r)
      BY <3>1, <3>2, <3>3, <3>4, <3>5, HeadGoesOn
    <3>7. PICK headers : headers = parser.response.set_cookies
      OBVIOUS
    <3>8. PICK m \in Nat : DOMAIN headers = 1..m
      BY <3>4, <3>7, LenProperties DEF Parsers, HttpResponses, SetCookies
    <3>9. PICK after : after = client_cookies'
      OBVIOUS
    <3>10. ToSet(after) = Session!JarAfter(RedirectOf(r))
      BY <3>4, <3>6, <3>7, <3>8, <3>9, JarFollows
    <3>11. RedirectOf(r) \in SessionRedirects
      <4>1. BlankIn(r) > 0
        BY <3>5, HeardLines, BlankIs DEF ReadTo
      <4>2. QED
        BY <3>4, <3>6, <4>1 DEF SessionRedirects
    <3>12. url' = RedirectOf(r).to
      BY <3>4, <3>6 DEF RedirectOf
    <3>13. Phase = "seeking" /\ Phase' = "seeking"
      BY <2>3, <3>1 DEF Phase, Moved
    <3>14. Session!Follow
      BY <3>9, <3>10, <3>11, <3>12, <3>13 DEF Session!Follow
    <3>15. QED
      BY <3>14 DEF Session!Next
  <2>4. QED
    BY <1>2, <2>1, <2>2, <2>3 DEF Parted
<1>3. CASE Connect
  <2>1. UNCHANGED <<Phase, url, client_cookies>>
    BY <1>3 DEF Connect, At, Goto, Phase
  <2>2. QED
    BY <1>s, <2>1
<1>4. CASE ServerSends
  <2>1. UNCHANGED <<Phase, url, client_cookies>>
    BY <1>4 DEF ServerSends, client, Phase
  <2>2. QED
    BY <1>s, <2>1
<1>5. CASE handle_sending_http_data
  <2>1. UNCHANGED <<Phase, url, client_cookies>>
    BY <1>5 DEF handle_sending_http_data, MaySend, Goto, Phase
  <2>2. QED
    BY <1>s, <2>1
<1>6. ASSUME NEW n \in 1..SocketSize, ReceiveEarly(n) PROVE [Session!Next]_(Session!vars)
  <2>1. UNCHANGED <<Phase, url, client_cookies>>
    BY <1>6 DEF ReceiveEarly, Goto, client, Phase
  <2>2. QED
    BY <1>s, <2>1
<1>7. ASSUME NEW n \in 1..SocketSize, ReceiveStream(n), ~Parted
      PROVE  [Session!Next]_(Session!vars)
  <2>1. UNCHANGED <<outcome, radio, url, client_cookies>>
    BY <1>7 DEF ReceiveStream, CanRead, Readable, At, Play, Goto, Close, Receive, client,
                Cut, Ended, Parted
  <2>2. UNCHANGED <<Phase, url, client_cookies>>
    BY <2>1 DEF Phase
  <2>3. QED
    BY <1>s, <2>2
<1>8. ASSUME NEW n \in 0..SocketSize, ReceiveHead(n), ~Parted
      PROVE  [Session!Next]_(Session!vars)
  <2>1. /\ radio' \in {"RECEIVING_HTTP", "STREAMING_AUDIO"}
        /\ UNCHANGED <<outcome, url, client_cookies>>
    BY <1>8, HeadOutcomes
  <2>2. radio = "RECEIVING_HTTP" /\ outcome = "running"
    BY <1>8 DEF ReceiveHead, CanRead, Readable, At
  <2>3. CASE radio' = "RECEIVING_HTTP"
    <3>1. UNCHANGED <<Phase, url, client_cookies>>
      BY <2>1, <2>2, <2>3 DEF Phase
    <3>2. QED
      BY <1>s, <3>1
  <2>4. CASE radio' = "STREAMING_AUDIO"
    <3>1. Phase = "seeking" /\ Phase' = "streaming"
      BY <2>1, <2>2, <2>4 DEF Phase
    <3>2. Session!Stream
      BY <2>1, <3>1 DEF Session!Stream
    <3>3. QED
      BY <3>2 DEF Session!Next
  <2>5. QED
    BY <2>1, <2>3, <2>4
<1>9. QED
  BY <1>1, <1>2, <1>3, <1>4, <1>5, <1>6, <1>7, <1>8, SessionSteps

\* With servers that wait for the request the client does what a session is: it is at
\* the URL the redirects have led to, with their cookies, and starts over in silence.
THEOREM SessionIsKept == ~TalksFirst /\ Spec => ImplementsSession
<1> SUFFICES ASSUME ~TalksFirst PROVE Spec => ImplementsSession
  OBVIOUS
<1> DEFINE IInv == SocketInv /\ RequestInv /\ LineInv /\ HeadInv /\ IsJar(client_cookies)
<1>1. Init => IInv /\ Session!Init
  <2> SUFFICES ASSUME Init PROVE IInv /\ Session!Init
    OBVIOUS
  <2>1. /\ radio = "NOT_CONNECTED" /\ conn = "IDLE" /\ outcome = "running" /\ url = Original
        /\ server = NoServer /\ arrived = <<>> /\ client_cookies = <<>>
    BY DEF Init
  <2>2. LineInv
    BY <2>1, EmptySeq DEF LineInv, NoServer, Statuses
  <2>3. SocketInv /\ RequestInv /\ HeadInv
    BY <2>1 DEF SocketInv, RequestInv, HeadInv
  <2>4. IsJar(client_cookies)
    BY <2>1, EmptyIsJar
  <2>5. Session!Init
    <3>1. ToSet(<<>>) = {}
      BY EmptySeq DEF ToSet
    <3>2. Phase = "seeking" /\ ToSet(client_cookies) = {}
      BY <2>1, <3>1 DEF Phase
    <3>3. QED
      BY <2>1, <3>2 DEF Session!Init
  <2>6. QED
    BY <2>2, <2>3, <2>4, <2>5
<1>2. IInv /\ [Next]_vars => IInv' /\ [Session!Next]_(Session!vars)
  BY SocketStep, RequestStep, LineStep, HeadStep, JarStep, SessionStep
<1>3. QED
  BY <1>1, <1>2, PTL DEF Spec, ImplementsSession, Session!Spec
=============================================================================
