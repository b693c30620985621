----------------------------- MODULE KaylesGame -----------------------------
(***************************************************************************)
(* One game record of the Kayles UDP server and the functions of game.cpp  *)
(* that read and change it.  Every function of the code that mutates a     *)
(* Game& is an operator from the game (and the time it reads from the      *)
(* clock) to the new game.  The bitset pawn_row is the set of the pawns    *)
(* whose bit is set.  The uint8_t counter pawns_left counts modulo         *)
(* CounterSize (256 in the code, which also allows a row of 256 pawns).    *)
(***************************************************************************)
EXTENDS Integers, FiniteSets

CONSTANTS
  Players,      \* player identifiers a client may send (non-zero uint32_t)
  NoPlayer,     \* the identifier 0: nobody has joined on this side
  MaxPawn,      \* max_pawn, the highest pawn index
  InitialRow,   \* the pawns of the -r option
  CounterSize,  \* the number of values of a uint8_t
  Timeout       \* server_timeout, in clock units

ASSUME PlayersAssumption == NoPlayer \notin Players
ASSUME RowAssumption ==
  /\ MaxPawn \in Nat
  /\ CounterSize \in Nat
  /\ MaxPawn < CounterSize
  /\ InitialRow \subseteq 0..MaxPawn
  /\ {0, MaxPawn} \subseteq InitialRow
ASSUME TimeoutAssumption == Timeout \in Nat \ {0}

InTurn   == {"TURN_A", "TURN_B"}
Finished == {"WIN_A", "WIN_B"}
Status   == {"WAITING_FOR_OPPONENT"} \cup InTurn \cup Finished

\* A pawn index as it arrives in a message: any uint8_t.
PawnIndex == 0..CounterSize - 1

Game == [player_a_id           : Players,
         player_b_id           : Players \cup {NoPlayer},
         status                : Status,
         pawn_row              : SUBSET (0..MaxPawn),
         pawns_left            : PawnIndex,
         player_a_activity     : Nat,
         player_b_activity     : Nat,
         after_finish_activity : Nat,
         next_check_time       : Nat]

-----------------------------------------------------------------------------
\* create_full_game followed by the join_game call that every creation is
\* followed by in the same handler: p becomes player A.
CreateAndJoin(p, now) ==
  [player_a_id           |-> p,
   player_b_id           |-> NoPlayer,
   status                |-> "WAITING_FOR_OPPONENT",
   pawn_row              |-> InitialRow,
   pawns_left            |-> Cardinality(InitialRow) % CounterSize,
   player_a_activity     |-> now,
   player_b_activity     |-> now,
   after_finish_activity |-> 0,
   next_check_time       |-> now]

\* join_game on a game that already has its player A.
JoinAsB(g, p) == [g EXCEPT !.player_b_id = p, !.status = "TURN_B"]

CheckMyGame(g, p) == p \in {g.player_a_id, g.player_b_id}

\* (A mutant: any player of a game in play may move.)
CheckAnyTurn(g, p) == g.status \in InTurn /\ CheckMyGame(g, p)

CheckMyTurn(g, p) ==
  \/ g.status = "TURN_A" /\ g.player_a_id = p
  \/ g.status = "TURN_B" /\ g.player_b_id = p

-----------------------------------------------------------------------------
OtherTurn(status) == IF status = "TURN_A" THEN "TURN_B" ELSE "TURN_A"
WinOf(status)     == IF status = "TURN_A" THEN "WIN_A" ELSE "WIN_B"

\* (A mutant: the counter goes below zero.)
RemovePawnsNoWrap(g, pawns) ==
  LET left == g.pawns_left - Cardinality(pawns)
  IN  [g EXCEPT !.pawn_row   = @ \ pawns,
                !.pawns_left = left,
                !.status     = IF left = 0 THEN WinOf(@) ELSE OtherTurn(@)]

\* What both moves do once the pawns are known to stand: clear the bits, count
\* down with the wrap-around of uint8_t, then win or pass the turn.
RemovePawns(g, pawns) ==
  LET left == (g.pawns_left - Cardinality(pawns)) % CounterSize
  IN  [g EXCEPT !.pawn_row   = @ \ pawns,
                !.pawns_left = left,
                !.status     = IF left = 0 THEN WinOf(@) ELSE OtherTurn(@)]

MakeMove1(g, pawn) ==
  IF pawn <= MaxPawn /\ pawn \in g.pawn_row THEN RemovePawns(g, {pawn}) ELSE g

\* (A mutant: two pawns fall, one is counted.)
MakeMove2CountsOne(g, pawn) ==
  IF pawn < MaxPawn /\ {pawn, pawn + 1} \subseteq g.pawn_row
  THEN [RemovePawns(g, {pawn}) EXCEPT !.pawn_row = @ \ {pawn + 1}]
  ELSE g

MakeMove2(g, pawn) ==
  IF pawn < MaxPawn /\ {pawn, pawn + 1} \subseteq g.pawn_row
  THEN RemovePawns(g, {pawn, pawn + 1})
  ELSE g

GiveUp(g) ==
  [g EXCEPT !.status = CASE @ = "TURN_A" -> "WIN_B"
                         [] @ = "TURN_B" -> "WIN_A"
                         [] OTHER        -> @]

-----------------------------------------------------------------------------
Earlier(s, t) == IF s <= t THEN s ELSE t

\* (A mutant: a game in play is checked when the later player times out.)
ComputeLatestCheckTime(g) ==
  Timeout + CASE g.status = "WAITING_FOR_OPPONENT" -> g.player_a_activity
              [] g.status \in InTurn ->
                   g.player_a_activity + g.player_b_activity
                     - Earlier(g.player_a_activity, g.player_b_activity)
              [] g.status \in Finished -> g.after_finish_activity

\* The earliest moment at which the passing of time can change this game.
ComputeNextCheckTime(g) ==
  Timeout + CASE g.status = "WAITING_FOR_OPPONENT" -> g.player_a_activity
              [] g.status \in InTurn -> Earlier(g.player_a_activity, g.player_b_activity)
              [] g.status \in Finished -> g.after_finish_activity

TimedOut(since, now) == now - since >= Timeout

\* (A mutant: of two players who timed out, the one silent for longer wins.)
VerdictForTheSilent(g, now) ==
  LET a_timed_out == TimedOut(g.player_a_activity, now)
      b_timed_out == TimedOut(g.player_b_activity, now)
      a_wins == b_timed_out /\ (a_timed_out => g.player_a_activity < g.player_b_activity)
      b_wins == a_timed_out /\ ~a_wins
  IN  CASE g.status \in InTurn /\ a_wins ->
             [g EXCEPT !.status = "WIN_A",
                       !.after_finish_activity = g.player_b_activity + Timeout]
        [] g.status \in InTurn /\ b_wins ->
             [g EXCEPT !.status = "WIN_B",
                       !.after_finish_activity = g.player_a_activity + Timeout]
        [] OTHER -> g

\* (A mutant: the end of the game is not remembered.)
VerdictWithoutTime(g, now) ==
  LET a_timed_out == TimedOut(g.player_a_activity, now)
      b_timed_out == TimedOut(g.player_b_activity, now)
      a_wins == b_timed_out /\ (a_timed_out => g.player_a_activity > g.player_b_activity)
  IN  IF g.status \in InTurn /\ (a_timed_out \/ b_timed_out)
      THEN [g EXCEPT !.status = IF a_wins THEN "WIN_A" ELSE "WIN_B"]
      ELSE g

\* The first half of check_recent_activity: a game in play is lost by the
\* player who timed out, or by the one silent for longer when both did.
Verdict(g, now) ==
  LET a_timed_out == TimedOut(g.player_a_activity, now)
      b_timed_out == TimedOut(g.player_b_activity, now)
      a_wins == b_timed_out /\ (a_timed_out => g.player_a_activity > g.player_b_activity)
      b_wins == a_timed_out /\ ~a_wins
  IN  CASE g.status \in InTurn /\ a_wins ->
             [g EXCEPT !.status = "WIN_A",
                       !.after_finish_activity = g.player_b_activity + Timeout]
        [] g.status \in InTurn /\ b_wins ->
             [g EXCEPT !.status = "WIN_B",
                       !.after_finish_activity = g.player_a_activity + Timeout]
        [] OTHER -> g

\* The value check_recent_activity returns, on the game Verdict left.
Alive(g, now) ==
  /\ g.status = "WAITING_FOR_OPPONENT" => ~TimedOut(g.player_a_activity, now)
  /\ g.status \in Finished => ~TimedOut(g.after_finish_activity, now)

\* (A mutant: a finished game is not kept longer.)
UpdatePlayersOnly(g, p, now) ==
  [g EXCEPT !.player_a_activity = IF g.player_a_id = p THEN now ELSE @,
            !.player_b_activity = IF g.player_b_id = p THEN now ELSE @]

UpdateActivityTime(g, p, now) ==
  [g EXCEPT !.after_finish_activity = IF g.status \in Finished THEN now ELSE @,
            !.player_a_activity = IF g.player_a_id = p THEN now ELSE @,
            !.player_b_activity = IF g.player_b_id = p THEN now ELSE @]
=============================================================================
