-------------------------- MODULE KaylesRefinement --------------------------
(***************************************************************************)
(* Each game identifier of the server is one KaylesMatch.                  *)
(***************************************************************************)
EXTENDS KaylesServer

\* An identifier without a game was either never handed out or is used up.
Stage(id) ==
  CASE games[id] # NoGame -> games[id].status
    [] games[id] = NoGame /\ id >= current_id /\ games_avaliable -> "UNUSED"
    [] OTHER -> "GONE"

PlayerA(id) == IF games[id] = NoGame THEN NoPlayer ELSE games[id].player_a_id
PlayerB(id) == IF games[id] = NoGame THEN NoPlayer ELSE games[id].player_b_id
Pawns(id)   == IF games[id] = NoGame THEN {} ELSE games[id].pawn_row

Match(id) == INSTANCE KaylesMatch WITH
  Row <- InitialRow, stage <- Stage(id),
  player_a <- PlayerA(id), player_b <- PlayerB(id), pawns <- Pawns(id)

\* Whatever the datagrams, under every identifier the server plays the game of
\* Kayles by its rules, once: turns alternate, pawns never come back, the last
\* pawn wins, a finished game stays decided, a dropped identifier is never
\* reused, not even when current_id wraps around.
\* (This is \A id \in GameIds : Match(id)!MatchSpec, with the conjunction over
\* the identifiers moved inside the temporal operator for TLC.)
MatchInit == \A id \in GameIds : Match(id)!Init
MatchStep == \A id \in GameIds : [Match(id)!Next]_(Match(id)!matchVars)
ImplementsMatch == MatchInit /\ [][MatchStep]_vars
=============================================================================
