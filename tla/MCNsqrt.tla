------------------------------ MODULE MCNsqrt ------------------------------
(***************************************************************************)
(* Every number of 12 bits, in words of 2: the root has three words.       *)
(***************************************************************************)
EXTENDS Nsqrt

MCpow2 == [i \in 0..2 * n |-> 2^i]
=============================================================================
