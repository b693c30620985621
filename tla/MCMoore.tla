------------------------------ MODULE MCMoore ------------------------------
(***************************************************************************)
(* Small networks for TLC.  An automaton has one state bit, its first      *)
(* output is that bit and its second output the negation; the transition   *)
(* flips the bit when an odd number of inputs is 1 (as t_two of            *)
(* ma_example.c, a binary counter).                                        *)
(***************************************************************************)
EXTENDS MooreRefinement, TLC

TwoStates == {0, 1}
AllWords == SUBSET (1..N)
MCTransition(in, s) == (s + Cardinality(in)) % 2
MCOutput(s) == {j \in 1..M : (j = 1) = (s = 1)}

\* For the runs about wires alone: every bit stays 0.
OneState == {0}
ZeroWord == {{}}
ZeroOutput(s) == {}
ZeroTransition(in, s) == 0
\* The bound of the run with a failing realloc: memory is sound and at most
\* one vector believes in a capacity it does not have.
OneVectorFailed ==
  /\ MemoryIsSound
  /\ Cardinality({o \in OutBits : driven[o].capacity # driven[o].allocated}) <= 1

Symmetry == Permutations(Automata)
=============================================================================
