---------------------------- MODULE RadioClient ----------------------------
(***************************************************************************)
(* The run loop of the radio client (client.cpp, connection.cpp): it       *)
(* connects, sends its request, reads the response, follows redirects,     *)
(* plays the stream, starts over when the server falls silent, and obeys   *)
(* the word quit on stdin.                                                 *)
(*                                                                         *)
(* pc says where run is; between two of its steps the server, the user and *)
(* the clock act.  What poll has seen is kept in polled and may be stale   *)
(* when it is used.                                                        *)
(***************************************************************************)
EXTENDS RadioHttp

CONSTANTS
  Original,       \* the URL given with -u
  Urls,           \* the URLs requests may go to
  Responses,      \* the heads of responses servers send, sequences of lines
  TalksFirst,     \* whether servers send before they have the request
  Closings,       \* how servers end connections, see ServerCloses
  Timeout,        \* timeout_ms, in ticks
  RequestLen,     \* length of a request, in the pieces that send accepts
  CMD_QUIT,       \* the characters of the command quit
  Scripts,        \* what users type
  StdinEnds,      \* how stdin may end: "eof", "hangup" (a pipe's writer left)
  PollErrors,     \* how poll may fail: "EINTR", "error"
  MAX_USER_INPUT, \* size of user_input_buffer
  SocketSize      \* bound on the lines unread in the socket, for model checking

Characters == UNION {ToSet(s) : s \in Scripts} \cup ToSet(CMD_QUIT)

ASSUME RadioAssumption ==
  /\ Original \in Urls
  /\ Timeout \in Nat \ {0}
  /\ RequestLen \in Nat \ {0}
  /\ TalksFirst \in BOOLEAN
  /\ Closings \subseteq {"silent", "fin", "cut", "reset", "hangup", "error"}
  /\ StdinEnds \subseteq {"eof", "hangup"}
  /\ PollErrors \subseteq {"EINTR", "error"}
  /\ CMD_QUIT \in Seq(Characters) \ {<<>>}
  /\ Scripts \subseteq Seq(Characters)
  /\ MAX_USER_INPUT \in Nat /\ MAX_USER_INPUT > Len(CMD_QUIT)
  /\ SocketSize \in Nat \ {0}

\* A response is a sequence of lines; behind the status line of a 200 there is no other,
\* and no line but the body's behind the blank one.  Every http URL it leads to is in Urls.
ASSUME HeadsAssumption ==
  \A r \in Responses :
    /\ r \in Seq(ToSet(r))
    /\ \A line \in ToSet(r) :
         line.t = "location" /\ line.url.scheme \in {"http", "https"} /\ line.url.host # ""
           => line.url \in Urls
    /\ \A i \in DOMAIN r : r[i].t = "status" /\ r[i].code = 200 =>
         \A j \in (i + 1)..Len(r) : r[j].t # "status" /\ (r[j].t = "blank" => j = Len(r))

VARIABLES
  pc,        \* the part of run's loop that comes next
  outcome,   \* "running", or how the program ended
  radio,     \* RadioState
  url,       \* scheme, host, port and path of the next request
  client_cookies,
  state_data,
  network_data_buffer,
  user_input_buffer,
  polled,    \* what the last successful poll has reported, and poll's result
  stdin_fd,  \* whether poll still watches stdin
  conn,      \* ConnectionState
  elapsed,   \* time since last_activity, capped at Timeout
  played,    \* what handle_audio was last given
  server,    \* the server's end of the connection
  received,  \* what the server got on this connection
  arrived,   \* lines in the client's socket, not yet read
  script,    \* what the user types in this behaviour
  typed,     \* characters of script typed so far
  taken,     \* characters of script read by the program
  forgotten, \* characters read before the last timeout
  stdin      \* "open", or how it ended

client  == <<radio, url, client_cookies, state_data>>
network == <<conn, server, received, arrived>>
user    == <<script, typed, stdin>>
input   == <<user_input_buffer, taken, forgotten, stdin_fd>>
vars == <<pc, outcome, client, network_data_buffer, polled, elapsed, played, network,
          user, input>>

Body(code) == [t |-> "body", of |-> code]
HeadLines == UNION {ToSet(r) : r \in Responses}
Statuses == {0} \cup {line.code : line \in {l \in HeadLines : l.t = "status"}}
Lines == HeadLines \cup {Body(code) : code \in Statuses}

Smaller(a, b) == IF a <= b THEN a ELSE b
NoServer == [script |-> <<>>, code |-> 0, closing |-> "gone"]
NoData == [kind |-> "none"]
Reply == [t |-> "reply"]
use_tls == url.scheme = "https"

TypeOK ==
  /\ pc \in {"setup", "poll", "check", "input", "network"}
  /\ outcome \in {"running", "quit", "disconnected", "failed"}
  /\ radio \in {"NOT_CONNECTED", "SENDING_HTTP", "RECEIVING_HTTP", "STREAMING_AUDIO", "SHUTDOWN"}
  /\ url \in Urls
  /\ state_data.kind \in {"none", "sending", "parsing"}
  /\ state_data.kind = "sending" => state_data.bytes_sent \in 0..(RequestLen - 1)
  /\ state_data.kind = "parsing" => state_data.input_buffer \in Seq(Lines)
  /\ Len(user_input_buffer) <= Len(CMD_QUIT)
  /\ conn \in {"IDLE", "CONNECTED"}
  /\ elapsed \in 0..Timeout
  /\ arrived \in Seq(Lines)
  /\ forgotten <= taken /\ taken <= typed /\ typed <= Len(script)

Init ==
  /\ pc = "setup" /\ outcome = "running"
  /\ radio = "NOT_CONNECTED" /\ url = Original
  /\ client_cookies = <<>> /\ state_data = NoData
  /\ network_data_buffer = Reply /\ user_input_buffer = <<>>
  /\ polled = [stdin |-> {}, net |-> {}, ret |-> "ok"]
  /\ stdin_fd = TRUE
  /\ conn = "IDLE" /\ elapsed = 0
  /\ played = <<>>
  /\ server = NoServer /\ received = <<>> /\ arrived = <<>>
  /\ script \in Scripts /\ typed = 0 /\ taken = 0 /\ forgotten = 0
  /\ stdin = "open"

-----------------------------------------------------------------------------
(***************************************************************************)
(* The world around the program.                                           *)
(***************************************************************************)
\* One more line of the response, then the body, as long as it likes.
ServerSends ==
  /\ server.closing = "open" /\ Len(arrived) < SocketSize
  /\ TalksFirst \/ Len(received) = RequestLen
  /\ IF server.script # <<>>
     THEN /\ arrived' = Append(arrived, server.script[1])
          /\ server' = [server EXCEPT !.script = Tail(@),
                           !.code = IF server.script[1].t = "status"
                                    THEN server.script[1].code ELSE @]
     ELSE /\ arrived' = Append(arrived, Body(server.code))
          /\ UNCHANGED server
  /\ UNCHANGED <<pc, outcome, client, network_data_buffer, polled, elapsed, played,
                 conn, received, user, input>>

\* "silent": nothing follows.  "fin": an orderly end, under TLS with
\* close_notify; "cut": an end without it.  "reset": ECONNRESET; "hangup":
\* POLLHUP without an error; "error": any other error of the socket.
ServerCloses ==
  /\ server.closing = "open"
  /\ \E how \in Closings : server' = [server EXCEPT !.closing = how]
  /\ UNCHANGED <<pc, outcome, client, network_data_buffer, polled, elapsed, played,
                 conn, received, arrived, user, input>>

UserTypes ==
  /\ outcome = "running"
  /\ \/ typed < Len(script) /\ typed' = typed + 1 /\ UNCHANGED stdin
     \/ /\ typed = Len(script) /\ stdin = "open"
        /\ stdin' \in StdinEnds /\ UNCHANGED typed
  /\ UNCHANGED <<pc, outcome, client, network_data_buffer, polled, elapsed, played,
                 network, script, input>>

Tick ==
  /\ outcome = "running" /\ conn = "CONNECTED" /\ elapsed < Timeout
  /\ elapsed' = elapsed + 1
  /\ UNCHANGED <<pc, outcome, client, network_data_buffer, polled, played, conn, server,
                 received, arrived, user, input>>

-----------------------------------------------------------------------------
(***************************************************************************)
(* Helpers of the client's steps.                                          *)
(***************************************************************************)
At(place) == outcome = "running" /\ pc = place
Goto(place) == pc' = place /\ UNCHANGED outcome

close_connection ==
  /\ conn' = "IDLE" /\ server' = NoServer /\ received' = <<>> /\ arrived' = <<>>

\* A return from run, or an exception caught by it.
End(how) ==
  /\ outcome' = how /\ close_connection
  /\ UNCHANGED <<pc, client, network_data_buffer, polled, elapsed, played, user, input>>

-----------------------------------------------------------------------------
(***************************************************************************)
(* 1. Connecting.                                                          *)
(***************************************************************************)
StayConnected ==
  /\ At("setup") /\ radio # "NOT_CONNECTED"
  /\ Goto("poll")
  /\ UNCHANGED <<client, network_data_buffer, polled, elapsed, played, network, user, input>>

\* resolve_name and connect over the addresses of the host, and the request.
Connect ==
  /\ At("setup") /\ radio = "NOT_CONNECTED"
  /\ Goto("poll")
  /\ conn' = "CONNECTED" /\ elapsed' = 0
  /\ \E r \in Responses : server' = [script |-> r, code |-> 0, closing |-> "open"]
  /\ received' = <<>> /\ arrived' = <<>>
  /\ radio' = "SENDING_HTTP"
  /\ network_data_buffer' = create_http_request(url, client_cookies)
  /\ state_data' = [kind |-> "sending", bytes_sent |-> 0]
  /\ UNCHANGED <<url, client_cookies, polled, played, user, input>>

ConnectFails ==
  /\ At("setup") /\ radio = "NOT_CONNECTED"
  /\ End("failed")

-----------------------------------------------------------------------------
(***************************************************************************)
(* 2. Polling, and the timeout.                                            *)
(***************************************************************************)
StdinEvents ==
  IF ~stdin_fd THEN {}
  ELSE (IF taken < typed \/ stdin = "eof" THEN {"POLLIN"} ELSE {})
       \cup (IF stdin = "hangup" THEN {"POLLHUP"} ELSE {})

SocketEvents ==
  (IF arrived # <<>> \/ server.closing \notin {"open", "silent"} THEN {"POLLIN"} ELSE {})
  \cup (CASE server.closing = "reset"  -> {"POLLERR", "POLLHUP"}
          [] server.closing = "hangup" -> {"POLLHUP"}
          [] server.closing = "error"  -> {"POLLERR"}
          [] OTHER -> {})

\* A new socket accepts data; later that depends on the server's reading.  A
\* TLS record may make the socket readable without any data for the client.
PossibleEvents ==
  LET base == SocketEvents \cup (IF state_data = [kind |-> "sending", bytes_sent |-> 0]
                                 THEN {"POLLOUT"} ELSE {})
      more == (IF radio = "SENDING_HTTP" THEN {"POLLOUT"} ELSE {})
              \cup (IF use_tls /\ server.closing = "open" THEN {"POLLIN"} ELSE {})
  IN  {base \cup extra : extra \in SUBSET more}

Poll ==
  /\ At("poll")
  /\ \E net \in PossibleEvents :
       /\ net # {} \/ StdinEvents # {} \/ elapsed = Timeout
       /\ polled' = [stdin |-> StdinEvents, net |-> net, ret |-> "ok"]
  /\ Goto("check")
  /\ UNCHANGED <<client, network_data_buffer, elapsed, played, network, user, input>>

\* A poll that fails leaves the events of the last one.
PollFails ==
  /\ At("poll")
  /\ \E err \in PollErrors : polled' = [polled EXCEPT !.ret = err]
  /\ Goto("check")
  /\ UNCHANGED <<client, network_data_buffer, elapsed, played, network, user, input>>

\* (A mutant: cookies survive the timeout.)
TimedOutKeepsCookies ==
  /\ At("check") /\ elapsed = Timeout
  /\ close_connection
  /\ radio' = "NOT_CONNECTED" /\ url' = Original
  /\ state_data' = NoData
  /\ user_input_buffer' = <<>> /\ forgotten' = taken
  /\ Goto("input")
  /\ UNCHANGED <<client_cookies, network_data_buffer, polled, elapsed, played, user, taken, stdin_fd>>

\* The second reading of the clock decides, whatever poll has reported.
TimedOut ==
  /\ At("check") /\ elapsed = Timeout
  /\ close_connection
  /\ radio' = "NOT_CONNECTED" /\ url' = Original
  /\ client_cookies' = <<>> /\ state_data' = NoData
  /\ user_input_buffer' = <<>> /\ forgotten' = taken
  /\ Goto("input")
  /\ UNCHANGED <<network_data_buffer, polled, elapsed, played, user, taken, stdin_fd>>

\* (A mutant: an interrupted poll is retried before the clock is asked.)
InTimeOrInterrupted ==
  /\ At("check") /\ (elapsed < Timeout \/ polled.ret = "EINTR")
  /\ polled.ret \in {"ok", "EINTR"}
  /\ Goto(IF polled.ret = "EINTR" THEN "setup" ELSE "input")
  /\ UNCHANGED <<client, network_data_buffer, polled, elapsed, played, network, user, input>>

InTime ==
  /\ At("check") /\ elapsed < Timeout
  /\ polled.ret \in {"ok", "EINTR"}
  /\ Goto(IF polled.ret = "EINTR" THEN "setup" ELSE "input")
  /\ UNCHANGED <<client, network_data_buffer, polled, elapsed, played, network, user, input>>

PollError ==
  /\ At("check") /\ elapsed < Timeout
  /\ polled.ret = "error"
  /\ End("failed")

-----------------------------------------------------------------------------
(***************************************************************************)
(* 3. User input.                                                          *)
(***************************************************************************)
NoInput ==
  /\ At("input") /\ ~(stdin_fd /\ "POLLIN" \in polled.stdin)
  /\ Goto("network")
  /\ UNCHANGED <<client, network_data_buffer, polled, elapsed, played, network, user, input>>

Occurs(word, text) ==
  \E i \in 0..(Len(text) - Len(word)) : SubSeq(text, i + 1, i + Len(word)) = word

LastOf(n, text) == IF Len(text) <= n THEN text ELSE SubSeq(text, Len(text) - n + 1, Len(text))

available_space == MAX_USER_INPUT - Len(user_input_buffer)

\* (A mutant: what is kept of the input is one character too short.)
handle_user_input_short ==
  /\ At("input") /\ stdin_fd /\ "POLLIN" \in polled.stdin /\ taken < typed
  /\ taken' = taken + Smaller(typed - taken, available_space)
  /\ LET view == user_input_buffer \o SubSeq(script, taken + 1, taken')
     IN  IF Occurs(CMD_QUIT, view)
         THEN /\ outcome' = "quit" /\ close_connection
              /\ UNCHANGED <<pc, user_input_buffer>>
         ELSE /\ user_input_buffer' = LastOf(Len(CMD_QUIT) - 2, view)
              /\ Goto("network") /\ UNCHANGED network
  /\ UNCHANGED <<client, network_data_buffer, polled, elapsed, played, user, forgotten, stdin_fd>>

handle_user_input ==
  /\ At("input") /\ stdin_fd /\ "POLLIN" \in polled.stdin /\ taken < typed
  /\ taken' = taken + Smaller(typed - taken, available_space)
  /\ LET view == user_input_buffer \o SubSeq(script, taken + 1, taken')
     IN  IF Occurs(CMD_QUIT, view)
         THEN /\ outcome' = "quit" /\ close_connection
              /\ UNCHANGED <<pc, user_input_buffer>>
         ELSE /\ user_input_buffer' = LastOf(Len(CMD_QUIT), view)
              /\ Goto("network") /\ UNCHANGED network
  /\ UNCHANGED <<client, network_data_buffer, polled, elapsed, played, user, forgotten, stdin_fd>>

\* An empty read ends the watching, unless it only means EAGAIN.
EmptyInput ==
  /\ At("input") /\ stdin_fd /\ "POLLIN" \in polled.stdin /\ taken = typed
  /\ stdin_fd' = (stdin = "open")
  /\ Goto("network")
  /\ UNCHANGED <<client, network_data_buffer, polled, elapsed, played, network, user,
                 user_input_buffer, taken, forgotten>>

-----------------------------------------------------------------------------
(***************************************************************************)
(* 4. Network input and output.                                            *)
(***************************************************************************)
NoNetwork ==
  /\ At("network")
  /\ \/ radio = "SHUTDOWN"
     \/ polled.net = {}
     \/ polled.net = {"POLLOUT"} /\ radio # "SENDING_HTTP"
  /\ Goto("setup")
  /\ UNCHANGED <<client, network_data_buffer, polled, elapsed, played, network, user, input>>

Event(e) == At("network") /\ radio # "SHUTDOWN" /\ e \in polled.net

\* SO_ERROR is asked of the socket there is now, which a timeout has closed.
SocketError ==
  /\ Event("POLLERR")
  /\ End(IF server.closing = "reset" THEN "disconnected" ELSE "failed")

HungUp ==
  /\ Event("POLLHUP") /\ "POLLERR" \notin polled.net
  /\ End("disconnected")

Healthy == {"POLLERR", "POLLHUP"} \cap polled.net = {}
MaySend == radio = "SENDING_HTTP" /\ "POLLOUT" \in polled.net

\* What a socket call throws on a connection that has ended.  An end without
\* close_notify, or a reset, is an error to OpenSSL.
Ending ==
  IF server.closing = "fin" \/ (server.closing \in {"cut", "reset", "hangup"} /\ ~use_tls)
  THEN "disconnected" ELSE "failed"

\* (A mutant: the request counts as sent one piece too early.)
handle_sending_stops_early ==
  /\ At("network") /\ Healthy /\ MaySend
  /\ server.closing \notin {"reset", "error"}
  /\ LET sent == state_data.bytes_sent
     IN  \E len \in (IF use_tls THEN 0 ELSE 1)..(RequestLen - sent) :
           /\ received' = received \o [i \in 1..len |-> network_data_buffer]
           /\ IF sent + len + 1 >= RequestLen
              THEN /\ radio' = "RECEIVING_HTTP"
                   /\ state_data' = [kind |-> "parsing", current_line |-> 0,
                                     response |-> EmptyResponse, input_buffer |-> <<>>]
              ELSE /\ state_data' = [state_data EXCEPT !.bytes_sent = sent + len]
                   /\ UNCHANGED radio
  /\ Goto("setup")
  /\ UNCHANGED <<url, client_cookies, network_data_buffer, polled, elapsed, played,
                 conn, server, arrived, user, input>>

\* send takes any part of the rest, SSL_write possibly nothing.
handle_sending_http_data ==
  /\ At("network") /\ Healthy /\ MaySend
  /\ server.closing \notin {"reset", "error"}
  /\ LET sent == state_data.bytes_sent
     IN  \E len \in (IF use_tls THEN 0 ELSE 1)..(RequestLen - sent) :
           /\ received' = received \o [i \in 1..len |-> network_data_buffer]
           /\ IF sent + len = RequestLen
              THEN /\ radio' = "RECEIVING_HTTP"
                   /\ state_data' = [kind |-> "parsing", current_line |-> 0,
                                     response |-> EmptyResponse, input_buffer |-> <<>>]
              ELSE /\ state_data' = [state_data EXCEPT !.bytes_sent = sent + len]
                   /\ UNCHANGED radio
  /\ Goto("setup")
  /\ UNCHANGED <<url, client_cookies, network_data_buffer, polled, elapsed, played,
                 conn, server, arrived, user, input>>

SendFails ==
  /\ At("network") /\ Healthy /\ MaySend
  /\ server.closing \in {"reset", "error"}
  /\ End(Ending)

Readable == At("network") /\ Healthy /\ ~MaySend /\ Event("POLLIN")

\* connection.read without a connection, without data, or at its end.
ReadNothing ==
  /\ Readable /\ arrived = <<>> /\ server.closing \in {"open", "silent", "gone"}
  /\ Goto("setup")
  /\ UNCHANGED <<client, network_data_buffer, polled, elapsed, played, network, user, input>>

\* (A mutant: the end is taken notice of before the data.)
ReadEndFirst ==
  /\ Readable /\ server.closing \notin {"open", "silent", "gone"}
  /\ End(Ending)

ReadEnd ==
  /\ Readable /\ arrived = <<>> /\ server.closing \notin {"open", "silent", "gone"}
  /\ End(Ending)

CanRead(n) ==
  /\ Readable /\ arrived # <<>> /\ n <= Len(arrived)
  /\ n > 0 \/ server.closing = "open"

\* A read of n whole lines, or only of part of one while more is coming, to no
\* effect but that the connection is alive.  Whatever is unread goes when the socket does.
Receive(n) ==
  /\ arrived' = IF conn' = "IDLE" THEN <<>> ELSE SubSeq(arrived, n + 1, Len(arrived))
  /\ elapsed' = 0
  /\ network_data_buffer' = Reply
  /\ UNCHANGED <<polled, user, input>>

Close == conn' = "IDLE" /\ server' = NoServer /\ received' = <<>>
StayOpen == UNCHANGED <<conn, server, received>>

\* Data that comes before the request is sent is read, and dropped.
ReceiveEarly(n) ==
  /\ radio = "SENDING_HTTP" /\ CanRead(n)
  /\ StayOpen /\ Goto("setup")
  /\ Receive(n)
  /\ UNCHANGED <<client, played>>

\* handle_audio, which throws when stdout fails.
Play(data) ==
  \/ played' = data /\ Goto("setup") /\ StayOpen
  \/ /\ data # <<>>
     /\ outcome' = "failed" /\ Close /\ UNCHANGED <<pc, played>>

ReceiveStream(n) ==
  /\ radio = "STREAMING_AUDIO" /\ CanRead(n)
  /\ Play(SubSeq(arrived, 1, n))
  /\ Receive(n)
  /\ UNCHANGED client

\* The head as far as read: what parse_http_response_line makes of the lines
\* before the first blank one.
BlankIn(lines) == SelectInSeq(lines, LAMBDA line : line.t = "blank")
ParseHead(lines) ==
  FoldLeft(parse_http_response_line,
           [current_line |-> state_data.current_line, response |-> state_data.response,
            thrown |-> FALSE],
           IF BlankIn(lines) = 0 THEN lines ELSE SubSeq(lines, 1, BlankIn(lines) - 1))

\* The parser stays in the head, with rest for the next read.
GoOnParsing(parser, rest) ==
  /\ state_data' = [kind |-> "parsing", current_line |-> parser.current_line,
                    response |-> parser.response, input_buffer |-> rest]
  /\ StayOpen /\ Goto("setup")
  /\ UNCHANGED <<radio, url, client_cookies, played>>

Fail == outcome' = "failed" /\ Close /\ UNCHANGED <<pc, client, played>>

HandleOK(rest) ==
  /\ radio' = "STREAMING_AUDIO" /\ state_data' = NoData
  /\ Play(rest)
  /\ UNCHANGED <<url, client_cookies>>

\* Cookies without a Domain belong to the host that set them, the one before
\* the redirect.
HandleRedirect(response) ==
  IF response.location = NoUrl
  THEN /\ radio' = "SHUTDOWN" /\ StayOpen /\ Goto("setup")
       /\ UNCHANGED <<url, client_cookies, state_data, played>>
  ELSE IF ~ValidUrl(response.location) THEN Fail
  ELSE /\ client_cookies' = MergeAll(client_cookies, response.set_cookies, url.host)
       /\ url' = response.location
       /\ radio' = "NOT_CONNECTED" /\ state_data' = NoData
       /\ Close /\ Goto("setup")
       /\ UNCHANGED played

\* (A mutant: everything below 300 is a stream.)
handle_http_takes_all(parser, rest) ==
  LET response == parser.response
  IN  IF ~validate_http_response(response) THEN Fail
      ELSE CASE response.status_code < 300 -> HandleOK(rest)
             [] IsRedirect(response)        -> HandleRedirect(response)
             [] OTHER                      -> Fail

\* A status that is neither 200, nor a redirect, nor an error changes nothing:
\* the lines that follow are read as headers of the same response.
handle_http(parser, rest) ==
  LET response == parser.response
  IN  IF ~validate_http_response(response) THEN Fail
      ELSE CASE response.status_code = 200  -> HandleOK(rest)
             [] IsRedirect(response)         -> HandleRedirect(response)
             [] response.status_code >= 400 -> Fail
             [] OTHER                       -> GoOnParsing(parser, rest)

ReceiveHead(n) ==
  /\ radio = "RECEIVING_HTTP" /\ CanRead(n)
  /\ LET lines  == state_data.input_buffer \o SubSeq(arrived, 1, n)
         blank  == BlankIn(lines)
         parser == ParseHead(lines)
     IN  IF parser.thrown THEN Fail
         ELSE IF blank = 0 THEN GoOnParsing(parser, <<>>)
         ELSE handle_http(parser, SubSeq(lines, blank + 1, Len(lines)))
  /\ Receive(n)

-----------------------------------------------------------------------------
World == ServerSends \/ ServerCloses \/ UserTypes

\* One part of an iteration of run.
Run ==
  \/ StayConnected
  \/ Connect
  \/ ConnectFails
  \/ Poll
  \/ PollFails
  \/ TimedOut
  \/ InTime
  \/ PollError
  \/ NoInput
  \/ handle_user_input
  \/ EmptyInput
  \/ NoNetwork
  \/ SocketError
  \/ HungUp
  \/ handle_sending_http_data
  \/ SendFails
  \/ ReadNothing
  \/ ReadEnd
  \/ \E n \in 1..SocketSize : ReceiveEarly(n) \/ ReceiveStream(n)
  \/ \E n \in 0..SocketSize : ReceiveHead(n)

Terminating == outcome # "running" /\ UNCHANGED vars

Next == World \/ Tick \/ Run \/ Terminating

\* The process is scheduled, and time passes; no server and no user has to act.
Fairness == WF_vars(Run) /\ WF_vars(Tick)
Spec == Init /\ [][Next]_vars /\ Fairness

-----------------------------------------------------------------------------
(***************************************************************************)
(* Properties.                                                             *)
(***************************************************************************)
\* While the program runs there is a socket exactly when the state says so: no
\* redirect or timeout leaks the old one, and no handler meets a closed one.
\* The state SHUTDOWN, which the loop would never leave, is not reached.
SocketMatchesState ==
  outcome = "running" =>
    /\ radio # "SHUTDOWN"
    /\ conn = "IDLE" <=> radio = "NOT_CONNECTED"

\* Whatever the program plays is the body of a 200 response.
OnlyStreamsArePlayed == \A i \in DOMAIN played : played[i] = Body(200)

\* A server that is asked for a response has got the request of this session,
\* whole: for the current URL, with the cookies of the jar that match it.  (A
\* server that talks first breaks it: its data is read over the unsent rest.)
RequestArrives ==
  radio \in {"RECEIVING_HTTP", "STREAMING_AUDIO"} /\ conn = "CONNECTED" =>
    received = [i \in 1..RequestLen |-> create_http_request(url, client_cookies)]

\* The word quit ends the program, however the reads cut it up, if no timeout
\* comes between.
QuitIsObeyed ==
  outcome = "running" => ~Occurs(CMD_QUIT, SubSeq(script, forgotten + 1, taken))

\* A connection on which nothing can come any more is left: the silent server
\* times out, the closed one is noticed.
DeadConnectionIsLeft == server.closing \notin {"open", "gone"} ~> conn = "IDLE"

\* A server that closes in an orderly way has been read to the end.
ReadBeforeLeaving ==
  [][outcome' = "disconnected" /\ server.closing \in {"fin", "cut"} => arrived = <<>>]_vars

-----------------------------------------------------------------------------
(***************************************************************************)
(* What the repository's tests and comments say and the code does not do.  *)
(***************************************************************************)
\* After a timeout the client connects again: the network part of the timeout's
\* iteration does not end the program.
TimeoutReconnects ==
  [][At("network") /\ radio = "NOT_CONNECTED" => outcome' = "running"]_vars
=============================================================================
