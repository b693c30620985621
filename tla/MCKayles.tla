------------------------------ MODULE MCKayles ------------------------------
(***************************************************************************)
(* The Kayles server with two players and two identifiers, so that both    *)
(* are used and the server starts again at the first.                      *)
(***************************************************************************)
EXTENDS KaylesRefinement

\* A row of the -r option: the first and the last pawn always stand.
FullRow == 0..1
=============================================================================
