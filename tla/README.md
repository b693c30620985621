# Specifications of the university projects

The repository holds six programs that share no code. This directory keeps
TLA+ modules of their core logic, TLC configurations that model-check them and
TLAPS proofs of the properties that matter most. Every definition is
translated from the source; `PROJECT.json` maps it to its lines.

    tlc -workers 2 -config MCKayles.cfg MCKayles            # one run
    tlapm KaylesServer_proofs.tla                           # the proofs

## 1. Inventory

### Kayles game over UDP (`computer-networks/kayles-game-network`)

| part | state | operations |
|---|---|---|
| server (`kayles_server.cpp`, `game.cpp`) | map `games`, ordered set `timeouts`, `games_avaliable`, `waiting_game_id`, `current_id`, the steady clock | receive a datagram; `cleanup`; join, two kinds of moves, give up, keep alive; wrong message |
| wire protocol (`protocol.cpp`, `common.cpp`) | none | parse typed text, serialise and deserialise messages, states and wrong-message answers, the row bitset |
| client program (`kayles_client.cpp`) | none | send one message, print one answer or give up after a timeout |

The server is one thread. A datagram wakes it; `cleanup` first drops or decides
the games whose time has come, then the handler of the message runs and the game
it touched is rescheduled. Clients are unrelated processes on UDP: what they send
may be lost, duplicated, delayed and reordered, and the server cannot tell.
*Hard:* three readings of the clock per datagram with time passing between them;
a timeout and a late message deciding the same game; cleanup that runs only when
somebody sends something; a set whose loop reinserts into it; 8-bit and 32-bit
counters that wrap; identifiers that outlive their games.
*Correct when:* every game is played by the rules and decided for the right
player, no game is dropped early or kept for ever, every identifier is used
once, the loop always comes back to `recvfrom`, and what one side encodes the
other side decodes.

### Moore automata library (`Moore-Machine/ma.c`)

State: per automaton its state, input and output words, one pointer per input bit
to the output bit that drives it, and one growable vector per output bit of the
input bits it drives. Operations: create, delete, connect, disconnect, set input,
set state, get output, step. *Hard:* every connection is recorded twice, in
different automata that the caller may delete in any order; any allocation may
fail and the library promises to stay valid; a step must look simultaneous.
*Correct when:* the two records agree, no pointer leads to freed memory, no vector
is written past its memory, and stepping is that of a synchronous network.

### Internet radio client (`network-radio-client`)

State: `RadioState`, the request or response in progress, the demultiplexer
(`AudioStreamData`), the target URL and cookies, the connection with its
`last_activity`, typed user input. Operations: the poll loop with its timeout,
user-input and network branches; connect, send, parse headers, follow a redirect,
demultiplex audio and metadata. *Hard:* data split anywhere by the network, the
body's first bytes read along with the headers, a timeout at any byte, results of
`poll` used after the socket they belong to was closed. *Correct when:* stdout gets
the audio and nothing else, stderr gets whole titles, a silent server is left after
the timeout and a fresh session started, and `quit` always ends the program.

### Integer square root in assembly (`Nsqrt/nsqrt.asm`)

State: the number in `X`, which becomes the remainder, the root in `Q`, the bit counter
`rcx`; one function, one thread. Every pass of `main_loop` settles one bit: it sets a
trial bit in `Q`, compares the remainder word by word with the value T that `FIND_VALUE`
reads out of `Q` by shifts, subtracts it if it fits, and takes the trial bit back.
*Hard:* T is never stored; shift, lowest word, borrow and the special last bit must all
agree. *Correct when:* `Q` is the square root rounded down and `X` what is left.

### Totolotek (Java)

| part | state | operations |
|---|---|---|
| centre (`CentralaTotolotka`) | its budget, the list of draws | register a coupon, hold a draw, pay a coupon |
| draw (`Losowanie`) | prize money, pools, winners, bets, result | add bets and money, draw, divide, hand on |
| vendors (`Kolektura`) | which coupons they sold, which are used | sell, pay |
| players (`Gracz` and its four strategies) | money, coupons and whether they are still good | buy, collect all, claim one |
| state budget (`BudżetPaństwa`) | taxes, subsidies | |

Everything is a call inside one thread: a player asks a vendor, the vendor asks the
centre, the centre asks the draws and the state. *Hard:* money in five places, rounded
in several; a coupon covers several draws and is marked as used in two places, before
and after a payment that may throw; unwon pools move to the next draw while the list of
draws grows. *Correct when:* no money appears or vanishes, every coupon is paid once and
in full, every pool is the sum of what went into it, and the strategies buy as they say.

### The others

* **Freverse** (assembly): reverses a file in a shared mapping. A crash between two
  swaps leaves it half reversed.
* **Wycinanki** (Java): scalars, vectors and matrices whose slices share cells with
  the original. Correct when an operation on overlapping views does what it would
  do on copies, or refuses. (The outer product of a column and a row indexes each with
  the length of the other, `WektorDane.java:207`: it needs equal lengths.)

## 2. Modules

| module | models | state and actions |
|---|---|---|
| `KaylesGame` | `game.cpp` | one `Game` record; every function that mutates a `Game&` is an operator from the game to the new game |
| `KaylesServer` | `main` and `cleanup` | the server's variables under their names, `phase` for the place in the loop; `Receive`, `CleanupStep` (one iteration), `CleanupDone`, one action per message and outcome, `Tick` |
| `KaylesMatch` | what one identifier promises | abstract: the rules of the game, no clock, no counters |
| `KaylesRefinement` | | each identifier of the server is a `KaylesMatch` |
| `KaylesServer_proofs` | | the theorems about the states and the steps of `KaylesServer`, and that it implements `KaylesMatch` |
| `KaylesProtocol` | `protocol.cpp`, `common.cpp`, one exchange of the client | bytes in, bytes out; a byte has `Bits` bits and a word `WordLen` bytes |
| `KaylesProtocol_proofs` | | the theorems about `KaylesProtocol` |
| `Moore` | `ma.c` | `source` is `input_connections`, `driven` is `output_connections`; one action per call and per way it can fail |
| `MooreNetwork` | what the library promises | abstract: wires and states, no cached outputs, no second record |
| `MooreRefinement` | | `Moore` implements `MooreNetwork` |
| `Moore_proofs` | | the theorems about `Moore`, and that it implements `MooreNetwork` |
| `IcyDemux` | `process_stream_data`, the stream set-up in `handle_http`, what a timeout leaves | one action per iteration of the loop; the server sends tagged bytes, of which the client's steps look only at the value |
| `IcyDemux_proofs` | | the theorems about `IcyDemux` |
| `RadioHttp` | `http.cpp`, `parse_url`'s verdict | heads of responses as sequences of lines; parsing, validation, the cookie jar, the request |
| `RadioClient` | `client.cpp`'s `run` and what it calls, `connection.cpp` | `pc` is the place in an iteration; one action per part of `run` and per outcome of it; the server, the user and the clock act between any two |
| `RadioClient_proofs` | | the theorems about `RadioClient`, and that it implements `RadioSession` |
| `RadioSession` | what a session promises | abstract: where the redirects have led and a *set* of cookies |
| `RadioSessionRefinement` | | `RadioClient` implements `RadioSession` |
| `Losowanie` | `Losowanie.java`, `stopieńWygranej` | one draw; every method that changes it is an operator from the draw to the new draw |
| `Totolotek` | the centre, vendors, players and the state budget | their fields under their names (Polish letters without their marks); one action per public call: `KupLosowy`, `DzialajKup`, `PrzeprowadzLosowanie`, `DzialajOdbierz`, `WykorzystajKupon`, `WykorzystajZaWczesnie` |
| `Totolotek_proofs` | | the theorems about `Totolotek` |
| `Powers` | | the size of the root and a table of powers of two |
| `DigitSqrt` | what a pass of `main_loop` promises | abstract: numbers instead of words |
| `Nsqrt` | `nsqrt.asm` | arrays of w-bit words; `ClearLoop`, and `MainLoop`, one pass |
| `Nsqrt_proofs` | | the theorems about `DigitSqrt`, that `Nsqrt` implements it, and what follows for the result |
| `FoldTheorems` | | lemmas: induction over numbers and subsets, folds over sequences and sets, sums, division |

`MC*` modules hold the values the configurations use. Each property of a passing
run has a *mutant* next to the definition it changes: the definition with a
plausible bug, which the property must catch. Mutants are used nowhere else.

### Abstractions

* *Kayles datagrams.* Nothing relates what the server receives to what was sent
  before: any message may arrive at any time. Loss, duplication, delay and
  reordering need no actions of their own. Contents are chosen by the handler,
  because `cleanup` reads nothing of them.
* *Time* is a counter. It may advance between `cleanup`'s reading, the reading that
  `check_recent_activity` makes for each game, and the handler's; one handler's own
  readings are one.
* *Counters.* `pawns_left` counts modulo `CounterSize`, identifiers modulo
  `MaxGameId + 1`, so that both wrap-arounds happen in small runs.
* *Moore.* A word is the set of its bits that are 1; the addresses of automata are
  reused after a deletion, as an allocator may. Undefined behaviour is not given a
  meaning: with a failing `realloc` the run goes no further than a state with an overrun
  vector or a dangling input (`MemoryIsSound`).
* *ICY.* Audio bytes are told apart only by their position; of metadata, which bytes
  are padding. The server is assumed to send a well-formed stream.

* *The radio client.* The server's end of a connection (what it still has to send, how
  it ends), the lines in the socket, the user's script and the clock are variables of
  their own. A read takes any number of whole lines, or only part of one, which changes
  nothing but `last_activity`; a line is told apart by its kind. `poll` returns what the
  world permits: `POLLOUT` at the server's pleasure once something was sent, and under TLS
  readiness without data. What it reported is kept in `polled` until the next successful
  call, as the array `pfds` keeps it; `run` may act on it when it is stale. The addresses of
  a host are one address; stdin is non-blocking (`run` asks for that). The current line
  counter is 0 or 1, all that `parse_http_response_line` looks at. `played` is the last
  piece given to `handle_audio`; what `process_stream_data` does to it is `IcyDemux`.
  `forgotten` is a history variable: what the user had typed before the last timeout.

* *Totolotek.* A bet is a set of numbers, a result one of a few sets that between them
  win every tier; money is counted in grosze with the real prices. Coupons are numbered
  in the order of sale, as the first part of their id. A coupon knows its vendor and
  goes back to it, and vendors differ in nothing else, so `sprzedaneKupony` is one map.
  A random player's shopping is a sequence of single purchases. The players of `Main`
  act in rounds; the model lets their operations come in any order, with a single
  claim (`wykorzystajKupon`) at any time. Nobody but `Main` and the players calls
  the centre and the vendors, and a player buys only what its strategy buys (`kupKupon`
  would take any generator).
  The winner of a first tier may pay for a second coupon, so both fixed players meet
  `StrategiesKept` with a coupon in hand.
* *Nsqrt.* The loops over words are recursive functions of the index; w is the width of
  a word (64 in the code, at least 2 here) and n a multiple of it. Flags and registers that live within a
  pass are local. `Q` starts with whatever the caller left in it.

## 3. Runs

| run | bounds | what it shows |
|---|---|---|
| `kayles_games` | 2 players, 2 identifiers, 2 pawns (a full row, so that the counter starts at 0), timeout 1, clock to 3 | the board and its 8-bit counter agree, expired games are never served, verdicts by timeout fall on the right player, only the player to move takes pawns, removal follows silence, retention counts from the end, `cleanup` ends; one timeout entry per game, one waiting game, identifiers used once through the wrap-around, each identifier plays by the rules |
| `kayles_protocol` | 3-bit bytes, 2-byte words, up to 7 bytes | typed messages arrive as typed, the reported error is the first wrong byte, answers are understood |
| `moore_wiring` | 2 automata, 2 inputs, 2 outputs; `realloc` may fail, at most one vector with a false capacity | vectors name only what they drive and stay within the capacity they believe in; no record of a connection is lost but the one `realloc` has just refused |
| `moore_network` | 3 automata, 1 input, 1 output, 2 states | refinement of the synchronous network; outputs are current, also when a step fails half-way |
| `icy_streams` | 2 streams, intervals 0, 1 and 3, blocks of up to 4 bytes, reads of up to 3 | the client stays in step with the server; only audio is played, all of it; metadata blocks are put together whole, with nothing left out but NULs at their end |
| `radio_sessions` | 9 kinds of responses and 4 redirects with cookies between 2 hosts of a domain, 3 lines in the socket, timeout 1, servers that fall silent or close | socket and state agree, only bodies of 200 responses are played, requests arrive whole, an orderly end is read to its end; refinement of `RadioSession`; no cookie twice |
| `radio_endings` | a TLS server, 5 ways a connection ends, polls interrupted and failing, requests of 2 pieces, servers that talk first; a line of 3 characters that ends in a quit of 2, a buffer of 3, every cutting of the input | a dead connection is left; quit is obeyed |
| `totolotek` | a player of each kind, 3 coupons, 2 draws held and 2 open ahead, 3 results, real prices | money is conserved and the centre never overdrawn; every player has exactly what its purchases and cashed coupons leave it; pools, bets, winners and jackpots of every draw add up; the strategies keep their distances; a coupon is lost only by an early claim; coupons are collected |
| `nsqrt` | all numbers of 12 bits, words of 2 bits, `Q` cleared or full before the call | refinement of `DigitSqrt`; the result is the square root rounded down with its remainder |

`moore_capacity`, `icy_stale_metadata` and `radio_timeout` are instances of the same
modules in which a property is violated: what a document, a comment or a test of the
repository says and the code does not do.

*Why the bounds are enough.* With a full row and a counter of as many values the
counter starts at 0 and wraps; both kinds of moves, an illegal move and a win by each
player occur. A clock that runs to three timeouts reaches a game that is waiting,
decided by timeout and removed, with time left for a late message. Two identifiers reach
exhaustion with both games alive, and a join after that; what longer rows and timeouts
add is left to the proofs. Four
input bits on one output make a vector of capacity 2 grow. A read of three bytes
against intervals 0, 1 and 3 and blocks of two and four ends at every boundary and
in every run. Three lines in the socket hold a whole head, or its end with the first of
the body, or bodies of two reads; a redirect leads from http to https, so both kinds of
connection are made in one behaviour, and any number of redirects and timeouts may follow
each other, because no variable counts them. Quit with a line end and one character
before it is the shortest word that reads can cut. Three coupons on two draws let two
players share a tier and one player hold coupons of two generations; the second draw
inherits the pools of the first. Three words of root give the shift every offset, a
lowest word that moves, and borrows that run through several words. A run shows the property for its instance
only; section 4 says what is proved for all.

*Fairness.* `kayles_games` uses weak fairness of the server's own
steps, which between `recvfrom` and the answer never block, and of the clock.
Nothing forces a client to send: `Receive` is not fair, so a silent network leaves
expired games in memory, as the code does. `RadioClient` assumes weak fairness of the
process (its loop never blocks but in `poll`, which has a timeout while there is a
connection) and of the clock; no server and no user ever has to act. `radio_endings`
depends on it. `Totolotek` assumes that players keep collecting, as every round of `Main`
makes them do; nobody has to buy, and no draw has to be held.

### What the runs found

* `moore_capacity`: `push_back` doubles `capacity` before `realloc` succeeds
  (`ma.c:41`); the next connection to the same output writes past the memory.
* `icy_stale_metadata`: a timeout in the middle of a metadata block leaves its
  beginning in `meta_buffer`, and the next stream's first title is printed with it
  in front (`client.cpp:342`).
* `radio_timeout`: the timeout branch falls through to the network branch, which still
  looks at the events of the socket just closed (`client.cpp:371`): a hang-up together
  with the deadline ends the program, where a test asks for a new connection.

*Where tests contradict the code, or each other.* These are read from the code and the
model; no run shows them.

* *Padding.* The code strips the NULs at the end of a metadata block and puts a newline in
  their place (`client.cpp:273`). Two tests compare stderr with the blocks as they were
  sent, padding included and without newlines (`test_sikradio.py:858`, `:908`), three look
  for a NUL behind the title (`:306`, `:701`, `:743`), and a comment says that padding is
  passed through "as per spec" (`gargantuan_tests.py:997`); but another test says that it
  "should not appear on stderr" (`:968`), one asks for the newline (`:1075`), and
  `test_sikradio.py:305` speaks of text without padding. The model strips, as the code
  does. `BlocksAreWhole` decides nothing here: it holds of a program that prints the
  NULs and of one that strips them. `MetadataIsOneBlock` speaks of the text as the code
  prints it; what violates it is text of another stream, not the padding.
* *Resets.* A stream that ends in a reset loses what has arrived and is not yet read,
  because `POLLERR` is looked at before the data (`client.cpp:375`); a test wants the client
  to "output what it received" first (`gargantuan_tests.py:2119`). `ReadBeforeLeaving`
  therefore speaks of orderly ends only.
* *Early ends.* A server that closes before its headers are complete ends the program with
  success, as every orderly end does (`client.cpp:402`); two tests call it fatal
  (`gargantuan_tests.py:1815`, `:1835`).

*What is modelled as it is, and limits the properties that hold.*

* A refused `realloc` in `ma_connect` leaves the input's pointer set without the second
  record (`ma.c:285`); `RecordLostOnlyToRealloc` says that nothing else does.
* `QuitIsObeyed` starts anew at each timeout, which clears what was typed
  (`client.cpp:352`).
* `RequestArrives` is checked for servers that wait for the request (`TalksFirst =
  FALSE`). One that talks first and reads late has the rest of the request overwritten:
  reads go to the same buffer (`client.cpp:65`). With `TalksFirst = TRUE` and requests
  of two pieces TLC shows it at once.
* An end of a TLS connection without `close_notify` is a failure (`connection.cpp:285`).
* A pipe on stdin whose writer has left is `POLLHUP` without `POLLIN`, which nobody looks
  at (`client.cpp:361`); the loop spins until the user types or the server leaves. The
  model has it (`StdinEnds`), the runs leave it out.
* The timeout goes by a second reading of the clock (`client.cpp:342`) and not by what
  `poll` has reported.
* A coupon claimed before its last draw (`wykorzystajKupon` is public) is marked by its
  vendor, then the centre asks a draw not yet held for its result and fails on null
  (`CentralaTotolotka.java:77`): the coupon is lost. The program's own players only claim
  when the last draw is over, and `LostOnlyByEarlyClaim` says that nothing else loses one.
* The share of the third tier is what the first and second leave, and the first already
  holds the jackpot it inherited (`Losowanie.java:98`): after a draw nobody won, the
  third tier shrinks to its guaranteed minimum.
* The 49 per cent set aside for prizes are counted but never paid from: prizes come out
  of the centre's own budget and, when it does not suffice, from subsidies
  (`CentralaTotolotka.java:86`). `LedgerBalances` counts them as a fifth account.
* A fixed-slip player buys when the distance to its last purchase *equals* `coIle`
  (`GraczStałoblankietowy.java:28`): one that lacks the money then never buys again.
* A slip's cancelled bet is played all the same if it has six numbers
  (`Blankiet.java:45`), so a bet of a slip is what the slip plays.

## 4. Proofs

`KaylesServer_proofs` proves, for every number of players, pawns and identifiers,
every timeout and every size of the counter:

| theorem | property |
|---|---|
| `TypeCorrect` | `TypeOK` |
| `ScheduleCorrect` | `ScheduleConsistent`: one entry per live game, at the right time |
| `IdsCorrect` | `IdsHandedOut`: no new game overwrites a live one |
| `WaitingCorrect` | `OneWaitingGame` |
| `CounterCorrect` | `PawnsCounted`: the 8-bit counter agrees with the board |
| `FreshnessCorrect` | `ServedGamesAreFresh`: no handler serves an expired game |
| `RetentionCorrect` | `RetainedFromTheEnd` |

Assumptions: `PlayersAssumption`, `RowAssumption` (the row fits the counter, with
equality allowed: 256 pawns), `TimeoutAssumption` and `ServerAssumption`, which TLC
evaluates in every Kayles run.

*The argument.* Type correctness comes first, from lemmas that say what each
function of `game.cpp` returns. `ScheduleConsistent` is inductive by itself given the
type: `Store` removes the game's old entry and inserts its new one, and `cleanup`
works on the entry it has just taken out. `OneWaitingGame`, `PawnsCounted` and
`RetainedFromTheEnd` are not: they need the identifiers in order (`IdsHandedOut`), that a
game's status says whether player B is there, and that no activity lies in the
future; these facts about one game are collected in `GameOK`, which is preserved by
every operator of `KaylesGame`, and with the schedule they form the invariant `IInv`.
`ServedGamesAreFresh` follows from the schedule: when `cleanup` ends, no entry is
due, every game has one, and an entry is the earliest time at which the game can
expire; until the handler has run nothing changes a game. `CountDown` is the
arithmetic of the wrapped counter.

About its steps it proves, under the same assumptions:

| theorem | property |
|---|---|
| `OnlyTheMoverTakes` | `MoverHoldsTurn` |
| `TheSilentLose` | `TimeoutVerdict` |
| `NoGameIsLostEarly` | `RemovedOnlyAfterSilence` |
| `ServerPlaysKayles` | `ImplementsMatch`: `KaylesServer` implements `KaylesMatch` under every identifier |

*The argument.* Every property here speaks of one identifier, so the steps of the server
are first sorted by what they do to one game (`OneGame`): nothing, a message played on it,
one of the two joins, a verdict, a removal. The properties of steps follow case by case
from `IInv`. For the refinement, `EffectIsMove` says that a message takes one pawn or two
adjacent ones, loses the game or does nothing, and `LastPawnEnds` that the wrapped counter
reaches zero exactly with the empty board, which is where `PawnsCounted` and the
assumption on the row are needed. Besides `IInv` it takes `RowsShrink`: no pawn stands
that did not stand at the start.

`KaylesProtocol_proofs` proves, for every width of a byte and of a word, whatever is typed,
whatever bytes arrive, whoever plays where and whatever the state of the game:

| theorem | property |
|---|---|
| `WhatIsTypedIsDecoded` | `TypedIsDecoded` |
| `FirstErrorIsReported` | `FirstErrorReported` |
| `AnswersAreUnderstood` | `AnswerIsUnderstood` |

Assumptions: `LayoutAssumption` (no width is 0); `InputAssumption` (the numbers typed fit a
word, as `validate_number` sees to, and datagrams are made of bytes); `StateAssumption`
(the fields of a `GameState` have the widths of their types, no status is 255, and no pawn
stands above `max_pawn`).

*The argument.* The writers and the readers are inverse to each other. A word is read by
adding up its digits: the k lowest give the number modulo the k-th power of the base
(`OneMoreDigit`, `WordIsRead`). In a byte of the row, what stands above a bit is an even
multiple of its weight and what stands below is less than the weight, so the division
leaves the bit (`HighBits`, `BitIsRead`, `RowIsRead`). `Joined` finds each field of a
datagram where it was written (`MessageIsRead`, `StateIsRead`, `WrongIsRead`).
`ErrorIsFirst` compares the nested checks of `deserialize_client_message` with the set of
the positions at which a datagram is wrong, which knows nothing of their order; the offsets
must grow in the order of the checks for that. `Inv` says what the exchange has done
with what was typed (`Sent`) and with the datagram (`Served`).

`Moore_proofs` proves, for any number of automata, inputs and outputs, any transition and
output functions and any allocator (`MooreAssumption`):

| theorem | property |
|---|---|
| `InvHolds` | the inductive invariant `Inv` |
| `TypeCorrect` | `TypeOK` |
| `VectorsAreSound` | `VectorsPointBack` |
| `CapacityKept` | `WithinCapacity` |
| `OutputFollowsState` | `OutputIsCurrent` |
| `RecordsKept` | `RecordLostOnlyToRealloc` |
| `LibraryImplementsNetwork` | `ImplementsNetwork`, when `realloc` does not fail |

*The argument.* The calls of `ma.c` change the two records of connections one bit at a
time, in folds. `SoundLinks` says of the two together that every entry of a vector points
back (`PointsBack`), that no vector repeats itself (`NoRepeats`) and that each fits its
capacity (`Fits`). It is proved of cutting one connection and of making one, then, by
`FoldTheorems`, of the folds over them, and only then of the calls; `OnlyCut` says what a
fold of cuts has left alone. `Inv` adds the types, that the dead have no connections, and
that outputs are current. The two records agree *completely* only as long as `realloc`
does not fail: `AllRecorded` says that, and it is what the refinement needs to disconnect
the same wires as the abstract network. The hypothesis is the one `moore_network` makes;
what a failing `realloc` does is `RecordsKept` and the run `moore_capacity`.

`Totolotek_proofs` proves, for any players, strategies, slips, prices, limits, guaranteed
prizes and possible results (`GraczeAssumption`, `CenyAssumption`, `LiczbyAssumption`,
`MinimaAssumption`, `SzostkiAssumption`):

| theorem | property |
|---|---|
| `InductiveInvariant` | `IInv`: draws are held and coupons sold in order, only coupons that are over have been paid, the centre is not overdrawn |
| `MoneyIsConserved` | `LedgerBalances` |
| `PlayersArePaidOnceInFull` | `PaidOnceInFull` |
| `PoolsAreSound` | `PoolsAddUp` |
| `PlayersKeepToTheirStrategies` | `StrategiesKept` |
| `LostOnlyEarly` | `LostOnlyByEarlyClaim` |

*The argument.* `StepsAre` sorts the public calls into sales, draws, payments and early
claims. `IInv` is inductive by itself; the properties about money are inductive on top of
it, because it says that a draw once held never changes (`HeldDrawsStay`) and that only
such draws are looked at when a coupon is paid. Then the worth of a coupon is fixed from
its last draw on (`WorthStays`), and what the player is paid is that worth although the
model and the property sum over different sets (`WorthIs`). `PaymentsAre` says that any
number of payments in any order move exactly their sum and, with the subsidies, leave the
centre solvent. For the pools, a sale enters the draws the coupon covers
(`SharesAfterSale`), none of which has been held, and a draw hands to the next one what
nobody has won (`EndowedDrawIsSound`); `JackpotIs` says that the recursive `Jackpot`
satisfies its equation. That prices are natural numbers and the prize money is covered by
the price (`PricesAre`) uses the assumptions on prices; nothing is assumed of `MaxKuponow`
and `MaxLosowan`, so the theorems hold without those bounds.

`FoldTheorems` holds the lemmas these and `Nsqrt_proofs` rest on. The library's induction theorems take an
operator as a parameter, which the provers cannot instantiate; with the *set* of the
numbers (`SetInduction`) or subsets (`SubsetInduction`) for which something holds in the
place of the operator they can, and what a fold or a recursive function computes
can be proved: the function exists (`SegmentRecursion`, `SubsetRecursion`), is unique,
and follows its equation (`NatRecursion` is the case of a recursion from one number to the
next). `Total` is the sum of a function over a finite set.

`IcyDemux_proofs` proves, for every multiplier, interval, length of blocks and size of
the buffer (`DemuxAssumption`):

| theorem | property |
|---|---|
| `NeverOutOfPlace` | `Aligned`: the client's counters stand where the server is |
| `NoBlockIsTorn` | `BlocksAreWhole`: a block that comes in pieces is printed whole, but for NULs at its end |
| `NoAudioIsLost` | `AudioIsPlayed`: what is played is the audio that was consumed |
| `TypeCorrect` | `TypeOK` |

*The argument.* `Aligned` speaks of the next byte only, and a read or an iteration moves
by many. The invariant therefore speaks of all bytes between the client and the server,
in the buffer, on the wire and the one to be sent next (`At`, `Left`), as one chain: of
any two, the later is at its place in the run of the earlier one, or first in the next
run (`Succeeds`). Said of pairs, this needs no induction over the length of the chain:
`Send` extends it at one end (`SendChain`), `Read` leaves it alone (`FetchChain`), and an
iteration drops its front (`ConsumeChain`). `Collected` says the same of the end of
`meta_buffer`, so that with the last byte of a block the whole block is there. What
`meta_buffer` holds before it is left open, as the code leaves it: see
`icy_stale_metadata`. For `NoAudioIsLost` the bytes of one iteration are of one kind,
because they are of the run of the first (`OneKind`), or because there is no metadata
(`PlainStream`); the fold of `AudioAmong` finds all of them or none (`AllAudio`,
`NoAudio`).

`RadioClient_proofs` proves, for every set of responses, script, word, buffer, timeout
and number of pieces (`RadioAssumption`, `HeadsAssumption`):

| theorem | property |
|---|---|
| `TypeCorrect` | `TypeOK` |
| `SocketCorrect` | `SocketMatchesState` |
| `RequestIsWhole` | `RequestArrives`, of servers that do not talk first |
| `ReadToTheEnd` | `ReadBeforeLeaving` |
| `QuitIsHeard` | `QuitIsObeyed` |
| `StreamsArePlayed` | `OnlyStreamsArePlayed` |
| `JarHasNoDoubles` | `CookiesAreUnique` |
| `SessionIsKept` | `ImplementsSession`, with servers that do not talk first |

`HeadsAssumption` says what a response of 200 is: one status line, and after the blank line
nothing but the body, which the model's server adds by itself. It is about the labels of the
lines, which the real bytes do not have: without it a script could call lines of a body a
head. It also says that `Urls` holds every URL of the schemes http and https that a
response leads to, which is what that constant is for.

*The argument.* The steps are sorted by what they do to the session (`SessionSteps`): most
do nothing, many end it or part with the server. `RequestInv` says how much of the request
the server has while it is being sent, that the rest is still in `network_data_buffer`,
and that nothing has come to be read into that buffer; the last is what `~TalksFirst`
gives. `HangUpInv` says when a hang-up kept in `polled` may be stale: not when it is looked
at, unless the socket is already closed. For the word quit, `QuitInv` says that the
program keeps a window as long as the word of what it has read since the timeout, and
`WindowSlides` that such a window, moved over any text by reads of any size, misses no
occurrence. (A window one character shorter would do; the code keeps as many as
the word has.)

What is said of the parser rests on `LineInv`: the lines the server has still to send, the
lines that have arrived and the lines kept between two reads are lines of responses, and
the parser is in a state that reading such lines leads to. `Coming` is what has arrived and
what the server has yet to send, in one sequence, which a send does not change and a read
shortens (`SendComes`, `ReadComes`). `StreamInv` says of that sequence that behind the
status line of a 200 there is only the rest of its head and its body; so when a head with
that status ends, what is left in the buffer and what comes is the stream. `IsJar` is kept
because a merge replaces the one cookie that is like the new one (`MergedIsJar`); the
theorem is by induction over the headers of a response, which `FoldTheorems` gives for the
fold (`MergeChain`).

For `SessionIsKept` the parser must be shown to have read the same head however reads cut
it. `ReadTo(r, k)` says that the first k lines of the response r have been read and the
rest of r is what comes; `ReadOn` that the parser that reads on from there ends where one
does that reads r at once; `HeadInv` that a head being read is at such a place of some
response, unless it has no blank line, or its status line is there and is no redirect's.
What the merges leave in the jar, cookie by cookie, is then the set that `RadioSession`
describes without an order of merging (`JarAfter`): the cookies the redirect sets, of those
that are alike only the last, and of the old ones those that are like none of them. The
theorem asks for servers that wait for the request because what one says that talks first
is read over the rest of the request (section 3), and is lost to the head.

`TypeCorrect` rests on the same invariants: `QuitInv` bounds what is kept of the input,
`LineInv` says what the buffered lines are and that a location was in one of them, so that
a redirect leads to one of the URLs (`RedirectsLead`). `DataInv` adds that the data of a
session that is sending is how much of the request has been sent. No run names `TypeOK`
of `RadioClient`: it is proved only.

`Nsqrt_proofs` proves about the abstract square root, for every length n (`Numbers`):

| theorem | says |
|---|---|
| `RootBracketed` | between two passes the remainder is x - q*q and x lies below (q + 2^left)^2 |
| `RootCorrect` | in the end q is the root rounded down and the remainder at most 2q |

The assumption they use, `PowersAssumption`, says that the table `pow2` starts with 1 and
doubles. The bracket is inductive (`BracketHolds`): T is what the square gains when the bit
is set (`SquareGains`), and the weight of the bracket halves with each digit.

It then brings this back to the assembly, for every number of words, every size of
a word from two bits up and every content of `Q` before the call:

| theorem | property |
|---|---|
| `WordsImplementDigits` | `ImplementsDigitSqrt`: each pass over the words is one digit |
| `RootOfWords` | `FloorSquareRoot`: root and remainder on return, all words within their bits |

The assumptions here are `PowersAssumption` and `WordAssumption`, which asks that n is a
multiple of w, as the code does of 64, and that w is more than 1: with words of one bit the
last pass would take word 1 for the lowest word of T, and word 0, where T has its 4^0,
would be left out of the comparison and the subtraction.

*The argument.* The value of an array is a sum over its words (`ValueIs`), taken one word
at a time (`LowIs`); so many words hold exactly the numbers below the next weight
(`LowBound`). `CHANGE_BIT` adds or takes away a power of two, according to the bit that is
there (`ChangeBit`). `FIND_VALUE` yields the words of Q shifted by bit + 1 places: what a
word loses at its upper end comes in at the lower end of the next, which telescopes when
the words are added up (`TermLow`, `TermValue`). `compare_loop` decides between the values
because the lower words never outweigh one more in the word above (`SufficesIs`), and
`sub_loop` subtracts them because the borrow between two words stands for the base, and
none leaves the top word when T is not the larger (`SubtractIs`). The inductive invariant
`WordsInv` says that the words are words and that the bits of `Q` not yet settled are 0:
only then does flipping a bit set it and flipping it once more take it back (`PassIs`),
which is why `Q` must be cleared first.

*Only model-checked.* Liveness (`CleanupTerminates`, `CouponsAreCollected`, the endings
of the radio client), which is out of the prover's reach.

## 5. Not modelled

Option parsing, address resolution, formatting and logging of all programs; the Kayles
client's receive timeout, which only prints a line; `memory_tests.c` and the examples;
the packing of Moore's words; the radio client's resolution of names beyond its success
or failure, and the time that blocking calls take. In
Totolotek the reports, the drawing of names and the checks of constructors: the program's
own players never fail them.

*Freverse* is one thread over one mapped file: its loop swaps two bytes until the ends
meet, and nothing in it handles a crash. *Wycinanki* is a sequential library of numeric
operations whose one interesting question is what they do on overlapping views; it needs
a model of slices of its own. Neither is modelled yet.

## 6. Plan

1. *(done)* Kayles server, its abstract match and refinement, its invariants proved;
   the protocol; the Moore library with its abstract network; the demultiplexer.
2. *(done)* `RadioHttp` and `RadioClient` with their abstract session.
3. *(done)* `Nsqrt` with its abstract algorithm, which is proved, and `Totolotek`.
4. `Wycinanki`: views over shared cells, operations on overlapping views against
   operations on copies; `Freverse` with a crash.
5. *(done)* Proofs: `KaylesServer` implements `KaylesMatch`; `IcyDemux` never loses its
   place, for every interval, block and read size.
6. *(done)* Proofs: the socket, the request, orderly ends and the word quit of `RadioClient`.
7. *(done)* Proofs: `Moore` and its refinement; the money, the pools and the strategies of
   `Totolotek`.
8. *(done)* Proofs: the words of `Nsqrt` carry out the digits of `DigitSqrt`.
9. *(done)* Proofs: of `RadioClient` the types, the stream, the cookie jar and the refinement.
10. *(done)* Proofs: the protocol.
