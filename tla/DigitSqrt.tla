----------------------------- MODULE DigitSqrt -----------------------------
(***************************************************************************)
(* The digit by digit square root of a number of 2n bits, as the readme of *)
(* Nsqrt states it: in every iteration one more bit of the root is settled,*)
(* from the most significant on, by comparing the remainder with           *)
(* T = 2^(left + 1) * q + 4^left.                                          *)
(***************************************************************************)
EXTENDS Powers

VARIABLES
  x,     \* the number
  q,     \* the root so far
  r,     \* what remains of the number
  left   \* the bits still to be settled: n - j after j iterations

vars == <<x, q, r, left>>

Init ==
  /\ x \in 0..pow2[n] * pow2[n] - 1
  /\ q = 0 /\ r = x /\ left = n

\* The square of q grows by T when bit `left` is set.
T(root, bit) == 2 * pow2[bit] * root + pow2[bit] * pow2[bit]

Digit ==
  /\ left > 0
  /\ left' = left - 1
  /\ \/ r >= T(q, left') /\ q' = q + pow2[left'] /\ r' = r - T(q, left')
     \/ r < T(q, left') /\ UNCHANGED <<q, r>>
  /\ UNCHANGED x

Spec == Init /\ [][Digit]_vars

-----------------------------------------------------------------------------
\* The remainder is exact at every moment, and the root is found to within the
\* weight of the bits not yet settled.
Bracketed ==
  /\ r = x - q * q
  /\ q * q <= x
  /\ x < (q + pow2[left]) * (q + pow2[left])

\* In the end q is the root rounded down and the remainder is at most 2q.
RootFound ==
  left = 0 => /\ q * q <= x /\ x < (q + 1) * (q + 1)
              /\ r = x - q * q /\ r \in 0..2 * q
=============================================================================
