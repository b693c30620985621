------------------------------- MODULE Powers -------------------------------
(***************************************************************************)
(* The size of the root and the powers of two, as a table: 2^i is pow2[i]. *)
(***************************************************************************)
EXTENDS Integers

CONSTANTS
  n,     \* bits of the root; the number has 2n
  pow2

ASSUME PowersAssumption ==
  /\ n \in Nat \ {0}
  /\ pow2 \in [0..2 * n -> Nat]
  /\ pow2[0] = 1
  /\ \A i \in 0..2 * n - 1 : pow2[i + 1] = 2 * pow2[i]
=============================================================================
