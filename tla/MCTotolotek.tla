---------------------------- MODULE MCTotolotek ----------------------------
(***************************************************************************)
(* A small lottery with the real prices: two open draws, three results.    *)
(***************************************************************************)
EXTENDS Totolotek

MCMinimalne == [s \in 0..4 |-> CASE s = 1 -> 200000000 [] s = 3 -> 3600 [] s = 4 -> 2400
                                  [] OTHER -> 0]

\* A bet that wins the first tier, and one that wins the fourth, in the first
\* result; the second and third tier in the second one; nothing in the third.
Niskie == 1..6
Wysokie == 4..9
MCZaklady == {Niskie}
MCSzostki == {Niskie, 3..8, 20..25}

MCRodzaj == [b |-> "Staloblankietowy", n |-> "Staloliczbowy", m |-> "Minimalista", r |-> "Losowy"]
MCGracze == {"b", "n", "m", "r"}
MCBlankiet == [b |-> [zaklady |-> <<Niskie, Wysokie>>, losowan |-> 1],
               n |-> [zaklady |-> <<Niskie>>, losowan |-> 2]]
MCSrodki == [b |-> 600, n |-> 600, m |-> 300, r |-> 300]
=============================================================================
