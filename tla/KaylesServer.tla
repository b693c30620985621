---------------------------- MODULE KaylesServer ----------------------------
(***************************************************************************)
(* The single-threaded Kayles server: the loop of main() in                *)
(* kayles_server.cpp with the cleanup of expired games that runs after     *)
(* every received datagram.                                                *)
(*                                                                         *)
(* Datagrams are UDP: nothing relates what is received to what was sent    *)
(* before, so the environment may deliver any datagram at any time.  Loss, *)
(* duplication, delay and reordering are all instances of that.  Nothing   *)
(* of a datagram is read before cleanup has ended, so its contents are     *)
(* chosen by the handler that consumes it.                                 *)
(*                                                                         *)
(* The steady clock runs on while a datagram is handled: Tick may come     *)
(* between the moment cleanup reads the time and the moment the handler    *)
(* reads it again.                                                         *)
(***************************************************************************)
EXTENDS KaylesGame

CONSTANTS
  MaxGameId,    \* MAX_GAME_ID, the last identifier (UINT32_MAX in the code)
  NoGame,       \* no entry under this identifier in the map of games
  MaxClock      \* bound on the clock, for model checking only

ASSUME ServerAssumption ==
  /\ MaxGameId \in Nat
  /\ NoGame \notin Game
  /\ MaxClock \in Nat

GameIds == 0..MaxGameId

VARIABLES
  clock,            \* std::chrono::steady_clock
  games,            \* std::map<uint32_t, Game>
  timeouts,         \* std::set<ScheduledCheck>: pairs <<time, game_id>>
  games_avaliable,  \* spelled as in the code
  waiting_game_id,
  current_id,
  phase,            \* where the main loop stands
  cleanup_now       \* cleanup's local variable now

vars == <<clock, games, timeouts, games_avaliable, waiting_game_id, current_id,
          phase, cleanup_now>>

idVars == <<games_avaliable, waiting_game_id, current_id>>

TypeOK ==
  /\ clock \in Nat
  /\ games \in [GameIds -> Game \cup {NoGame}]
  /\ timeouts \subseteq Nat \X GameIds
  /\ games_avaliable \in BOOLEAN
  /\ waiting_game_id \in GameIds
  /\ current_id \in GameIds
  /\ phase \in {"recv", "cleanup", "handle"}
  /\ cleanup_now \in Nat

Live == {id \in GameIds : games[id] # NoGame}

Init ==
  /\ clock = 0
  /\ games = [id \in GameIds |-> NoGame]
  /\ timeouts = {}
  /\ games_avaliable = TRUE
  /\ waiting_game_id = 0
  /\ current_id = 0
  /\ phase = "recv"
  /\ cleanup_now = 0

-----------------------------------------------------------------------------
Tick ==
  /\ clock < MaxClock
  /\ clock' = clock + 1
  /\ UNCHANGED <<games, timeouts, idVars, phase, cleanup_now>>

\* recvfrom returns; cleanup reads the clock once, before its loop.
Receive ==
  /\ phase = "recv"
  /\ phase' = "cleanup"
  /\ cleanup_now' = clock
  /\ UNCHANGED <<clock, games, timeouts, idVars>>

\* schedule_game: drop the entry the game was scheduled under, compute the
\* next one from the game as it is now, insert it.
Scheduled(g) == [g EXCEPT !.next_check_time = ComputeNextCheckTime(g)]

\* (A mutant: the old entry stays.)
RescheduleWithoutErase(checks, id, g) ==
  checks \cup {<<ComputeNextCheckTime(g), id>>}

Reschedule(checks, id, g) ==
  (checks \ {<<g.next_check_time, id>>}) \cup {<<ComputeNextCheckTime(g), id>>}

\* The game is written back into the map and rescheduled.
Store(checks, id, g) ==
  /\ games' = [games EXCEPT ![id] = Scheduled(g)]
  /\ timeouts' = Reschedule(checks, id, g)

\* std::set<ScheduledCheck>::begin(): pairs are ordered lexicographically.
IsFirst(check) ==
  \A c \in timeouts : \/ check[1] < c[1]
                      \/ check[1] = c[1] /\ check[2] <= c[2]

\* (A mutant: the entry of a dropped game stays.)
CleanupStepKeepsEntry ==
  /\ phase = "cleanup"
  /\ \E check \in timeouts :
       /\ IsFirst(check)
       /\ check[1] <= cleanup_now
       /\ LET id   == check[2]
              rest == timeouts \ {check}
              g    == Verdict(games[id], clock)
          IN  \/ /\ games[id] = NoGame
                 /\ UNCHANGED <<games, timeouts>>
              \/ /\ games[id] # NoGame /\ ~Alive(g, clock)
                 /\ games' = [games EXCEPT ![id] = NoGame]
                 /\ UNCHANGED timeouts
              \/ /\ games[id] # NoGame /\ Alive(g, clock)
                 /\ Store(rest, id, g)
  /\ UNCHANGED <<clock, idVars, phase, cleanup_now>>

\* One iteration of the loop in cleanup.  check_recent_activity reads the
\* clock anew.
CleanupStep ==
  /\ phase = "cleanup"
  /\ \E check \in timeouts :
       /\ IsFirst(check)
       /\ check[1] <= cleanup_now
       /\ LET id   == check[2]
              rest == timeouts \ {check}
              g    == Verdict(games[id], clock)
          IN  \/ /\ games[id] = NoGame
                 /\ timeouts' = rest
                 /\ UNCHANGED games
              \/ /\ games[id] # NoGame /\ ~Alive(g, clock)
                 /\ timeouts' = rest
                 /\ games' = [games EXCEPT ![id] = NoGame]
              \/ /\ games[id] # NoGame /\ Alive(g, clock)
                 /\ Store(rest, id, g)
  /\ UNCHANGED <<clock, idVars, phase, cleanup_now>>

CleanupDone ==
  /\ phase = "cleanup"
  /\ \A check \in timeouts : check[1] > cleanup_now
  /\ phase' = "handle"
  /\ UNCHANGED <<clock, games, timeouts, idVars, cleanup_now>>

-----------------------------------------------------------------------------
\* The loop goes back to recvfrom; cleanup's local variable is gone.
Answered ==
  /\ phase = "handle"
  /\ phase' = "recv"
  /\ cleanup_now' = 0
  /\ UNCHANGED clock

\* A datagram deserialize_client_message rejects is answered with
\* WrongMessage and changes no game.
WrongMessage ==
  /\ Answered
  /\ UNCHANGED <<games, timeouts, idVars>>

GameWaiting ==
  /\ games[waiting_game_id] # NoGame
  /\ games[waiting_game_id].status = "WAITING_FOR_OPPONENT"

\* MSG_JOIN of p: the waiting game gets its player B ...
JoinWaiting(p) ==
  /\ Answered
  /\ GameWaiting
  /\ Store(timeouts, waiting_game_id,
           UpdateActivityTime(JoinAsB(games[waiting_game_id], p), p, clock))
  /\ UNCHANGED idVars

\* (A mutant: waiting_game_id is left behind.)
JoinNewNotWaiting(p) ==
  /\ Answered
  /\ ~GameWaiting
  /\ games_avaliable
  /\ games_avaliable' = (current_id # MaxGameId)
  /\ current_id' = (current_id + 1) % (MaxGameId + 1)
  /\ Store(timeouts, current_id, UpdateActivityTime(CreateAndJoin(p, clock), p, clock))
  /\ UNCHANGED waiting_game_id

\* (A mutant: identifiers are reused after the wrap-around.)
JoinNewReusesIds(p) ==
  /\ Answered
  /\ ~GameWaiting
  /\ waiting_game_id' = current_id
  /\ current_id' = (current_id + 1) % (MaxGameId + 1)
  /\ Store(timeouts, current_id, UpdateActivityTime(CreateAndJoin(p, clock), p, clock))
  /\ UNCHANGED games_avaliable

\* ... or a new game is created with p as player A.  current_id wraps around
\* after the last identifier, and games_avaliable is what keeps it from being
\* used again.
JoinNew(p) ==
  /\ Answered
  /\ ~GameWaiting
  /\ games_avaliable
  /\ games_avaliable' = (current_id # MaxGameId)
  /\ waiting_game_id' = current_id
  /\ current_id' = (current_id + 1) % (MaxGameId + 1)
  /\ Store(timeouts, current_id, UpdateActivityTime(CreateAndJoin(p, clock), p, clock))

\* (A mutant: every unanswered MSG_JOIN makes identifiers available again.)
JoinDroppedResets ==
  /\ Answered
  /\ ~GameWaiting
  /\ games_avaliable' = TRUE
  /\ UNCHANGED <<games, timeouts, waiting_game_id, current_id>>

\* No identifier is left, or the allocation of the game fails (std::bad_alloc,
\* after which the code makes games_avaliable TRUE again): no answer is sent.
JoinDropped ==
  /\ Answered
  /\ ~GameWaiting
  /\ games_avaliable' = games_avaliable
  /\ UNCHANGED <<games, timeouts, waiting_game_id, current_id>>

\* The other messages name a game the sender takes part in (check_game).  The
\* answer is the game's state whether or not the message was a legal move;
\* the sender's activity is refreshed and the game rescheduled either way.
InGame(p, id, effect) ==
  /\ Answered
  /\ games[id] # NoGame
  /\ CheckMyGame(games[id], p)
  /\ LET moved == IF CheckMyTurn(games[id], p) THEN effect ELSE games[id]
     IN  Store(timeouts, id, UpdateActivityTime(moved, p, clock))
  /\ UNCHANGED idVars

Move1(p, id, pawn) == InGame(p, id, MakeMove1(games[id], pawn))
Move2(p, id, pawn) == InGame(p, id, MakeMove2(games[id], pawn))
Resign(p, id)      == InGame(p, id, GiveUp(games[id]))
KeepAlive(p, id)   == InGame(p, id, games[id])

ServerStep ==
  \/ CleanupStep
  \/ CleanupDone
  \/ WrongMessage
  \/ JoinDropped
  \/ \E p \in Players :
       \/ JoinWaiting(p)
       \/ JoinNew(p)
       \/ \E id \in GameIds :
            \/ \E pawn \in PawnIndex : Move1(p, id, pawn) \/ Move2(p, id, pawn)
            \/ Resign(p, id)
            \/ KeepAlive(p, id)

Next == Tick \/ Receive \/ ServerStep

Spec == Init /\ [][Next]_vars

\* The server never blocks between recvfrom and the answer, and time passes.
\* Receive is not fair: clients may fall silent.
FairSpec == Spec /\ WF_vars(ServerStep) /\ WF_vars(Tick)

-----------------------------------------------------------------------------
(***************************************************************************)
(* Safety.                                                                 *)
(***************************************************************************)

\* The timeout set holds exactly one entry per live game, under the time the
\* game remembers, and that time is the one its state calls for now: no
\* handler changes a game after it has rescheduled it (schedule_game in game.h
\* promises at most one active entry per game).
ScheduleConsistent ==
  /\ timeouts = {<<games[id].next_check_time, id>> : id \in Live}
  /\ \A id \in Live : games[id].next_check_time = ComputeNextCheckTime(games[id])

\* A game that still lacks its player B is the one waiting_game_id names, so a
\* later MSG_JOIN can always reach it; no game past that point lacks B.
OneWaitingGame ==
  \A id \in Live :
    /\ games[id].status = "WAITING_FOR_OPPONENT" <=> games[id].player_b_id = NoPlayer
    /\ games[id].status = "WAITING_FOR_OPPONENT" => id = waiting_game_id

\* An identifier under which a game exists is below current_id until the
\* identifiers are exhausted, so a new game never overwrites a live one.
IdsHandedOut == \A id \in Live : games_avaliable => id < current_id

\* pawns_left, which the moves trust to find the end of the game, agrees with
\* the board through the wrap-around of uint8_t, and a cleared board is won.
PawnsCounted ==
  \A id \in Live :
    /\ games[id].pawns_left = Cardinality(games[id].pawn_row) % CounterSize
    /\ games[id].pawn_row = {} => games[id].status \in Finished

\* When a datagram reaches its handler, cleanup has left no game that had
\* expired at the time cleanup started: nobody in a game that is still open
\* was silent for the timeout, and a finished game saw somebody within two.
ServedGamesAreFresh ==
  phase = "handle" =>
    \A id \in Live :
      LET g == games[id]
          a_silent == cleanup_now - g.player_a_activity
          b_silent == cleanup_now - g.player_b_activity
      IN  CASE g.status = "WAITING_FOR_OPPONENT" -> a_silent < Timeout
            [] g.status \in InTurn   -> a_silent < Timeout /\ b_silent < Timeout
            [] g.status \in Finished -> Earlier(a_silent, b_silent) < 2 * Timeout

LoserActivity(g)  == IF g.status = "WIN_A" THEN g.player_b_activity ELSE g.player_a_activity
WinnerActivity(g) == IF g.status = "WIN_A" THEN g.player_a_activity ELSE g.player_b_activity

\* The retention of a finished game counts from no earlier than the loser's
\* last message, and after the board was cleared from no earlier than
\* anybody's (make_move_2 and give_up leave this to update_activity_time).
RetainedFromTheEnd ==
  \A id \in Live :
    LET g == games[id]
    IN  g.status \in Finished =>
          /\ g.after_finish_activity >= LoserActivity(g)
          /\ g.pawn_row = {} => g.after_finish_activity >= WinnerActivity(g)

(***************************************************************************)
(* What a step may never do.                                               *)
(***************************************************************************)

\* A game decided by cleanup is lost by a player who was silent for the
\* timeout, and the winner was heard of no earlier than the loser.
TimeoutVerdict ==
  [][\A id \in GameIds :
       /\ phase = "cleanup"
       /\ games[id] # NoGame /\ games'[id] # NoGame
       /\ games[id].status \in InTurn /\ games'[id].status \in Finished
       => /\ TimedOut(LoserActivity(games'[id]), clock)
          /\ LoserActivity(games'[id]) <= WinnerActivity(games'[id])]_vars

\* Only the player whose turn it is takes pawns: the step that shrinks the
\* board is that player's message, which refreshes that player's activity and
\* nobody else's.
MoverHoldsTurn ==
  [][\A id \in GameIds :
       /\ games[id] # NoGame /\ games'[id] # NoGame
       /\ games[id].pawn_row # games'[id].pawn_row
       => LET g == games[id]
              h == games'[id]
              Kept == g.player_a_id # g.player_b_id
          IN  \/ /\ g.status = "TURN_A" /\ h.player_a_activity = clock
                 /\ Kept => h.player_b_activity = g.player_b_activity
              \/ /\ g.status = "TURN_B" /\ h.player_b_activity = clock
                 /\ Kept => h.player_a_activity = g.player_a_activity]_vars

\* A game is dropped only after its silence: player A while waiting; in play
\* one player for twice the timeout; after the end the loser, and both when
\* the board was cleared.
RemovedOnlyAfterSilence ==
  [][\A id \in GameIds :
       games[id] # NoGame /\ games'[id] = NoGame =>
         LET g == games[id]
             a_silent == clock - g.player_a_activity
             b_silent == clock - g.player_b_activity
         IN  CASE g.status = "WAITING_FOR_OPPONENT" -> a_silent >= Timeout
               [] g.status \in InTurn ->
                    a_silent >= 2 * Timeout \/ b_silent >= 2 * Timeout
               [] g.status \in Finished ->
                    /\ clock - LoserActivity(g) >= Timeout
                    /\ g.pawn_row = {} => clock - WinnerActivity(g) >= Timeout]_vars

(***************************************************************************)
(* Liveness.                                                               *)
(***************************************************************************)

\* The loop in cleanup ends: what it reschedules is never due again in the
\* same call, so one datagram cannot hang the server.
CleanupTerminates == phase = "cleanup" ~> phase = "handle"
=============================================================================
