----------------------------- MODULE KaylesMatch -----------------------------
(***************************************************************************)
(* What one game identifier of the Kayles server promises its players,     *)
(* with no clock, no timeout set and no counters: the rules of the game.   *)
(* Two players alternately take one pawn or two adjacent ones, and whoever *)
(* takes the last pawn wins; either may lose early by resigning or by      *)
(* falling silent.  An identifier is used for one game only.               *)
(***************************************************************************)
EXTENDS Integers

CONSTANTS Players, NoPlayer, Row

VARIABLES stage, player_a, player_b, pawns

matchVars == <<stage, player_a, player_b, pawns>>

Init ==
  /\ stage = "UNUSED"
  /\ player_a = NoPlayer
  /\ player_b = NoPlayer
  /\ pawns = {}

Open(p) ==
  /\ stage = "UNUSED"
  /\ stage' = "WAITING_FOR_OPPONENT"
  /\ player_a' = p
  /\ pawns' = Row
  /\ UNCHANGED player_b

\* Player B joins and moves first.
Enter(p) ==
  /\ stage = "WAITING_FOR_OPPONENT"
  /\ stage' = "TURN_B"
  /\ player_b' = p
  /\ UNCHANGED <<player_a, pawns>>

Take(i, n) ==
  /\ i..(i + n - 1) \subseteq pawns
  /\ pawns' = pawns \ (i..(i + n - 1))
  /\ \/ stage = "TURN_A" /\ stage' = IF pawns' = {} THEN "WIN_A" ELSE "TURN_B"
     \/ stage = "TURN_B" /\ stage' = IF pawns' = {} THEN "WIN_B" ELSE "TURN_A"
  /\ UNCHANGED <<player_a, player_b>>

\* Resignation or a timeout: either side may lose while the game is on.
Lose ==
  /\ stage \in {"TURN_A", "TURN_B"}
  /\ stage' \in {"WIN_A", "WIN_B"}
  /\ UNCHANGED <<player_a, player_b, pawns>>

Forget ==
  /\ stage \notin {"UNUSED", "GONE"}
  /\ stage' = "GONE"
  /\ player_a' = NoPlayer
  /\ player_b' = NoPlayer
  /\ pawns' = {}

Next ==
  \/ \E p \in Players : Open(p) \/ Enter(p)
  \/ \E i \in Row, n \in {1, 2} : Take(i, n)
  \/ Lose
  \/ Forget

MatchSpec == Init /\ [][Next]_matchVars
=============================================================================
