-------------------------- MODULE MCKaylesProtocol --------------------------
(***************************************************************************)
(* Three-bit bytes and two-byte words: the smallest layout in which all    *)
(* five message types, a type out of range and the status 255 differ, and  *)
(* in which a word and a row both take more than one byte.                 *)
(***************************************************************************)
EXTENDS KaylesProtocol

Words == {0, 1, 8, 63}
MCTyped ==
  UNION {[1..n -> {0, 1, 3, 5}] : n \in 1..2}
    \cup {<<t, p, g>> : t \in 0..5, p \in Words, g \in Words}
    \cup {<<t, p, g, x>> : t \in 0..5, p \in {1, 63}, g \in {0, 8}, x \in {0, 7, 8}}
    \cup {<<1, 1, 8, 2, 0>>}

\* Every type byte, then bytes among 0, 1 and 7, up to one byte too many.
MCDatagrams ==
  {<<>>} \cup UNION {{<<t>> \o s : t \in 0..7, s \in [1..n -> {0, 1}]} : n \in 0..6}

MCMemberships == {{}, {<<0, 1>>, <<8, 63>>}, {<<9, 9>>, <<63, 8>>, <<1, 1>>}}

MCStates ==
  {[game_id |-> 8, player_a_id |-> 63, player_b_id |-> b, status |-> s,
    max_pawn |-> 4, pawn_row |-> row] :
     b \in {0, 1}, s \in {0, 4}, row \in {{}, {0, 4}, {0, 2, 3}}}
=============================================================================
