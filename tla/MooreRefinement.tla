--------------------------- MODULE MooreRefinement ---------------------------
(***************************************************************************)
(* The library implements the network: its copies can be forgotten.        *)
(***************************************************************************)
EXTENDS Moore

\* The sampled bit of a driven input is not visible.
Held == [i \in InBits |-> source[i] = NoLink /\ i[2] \in input[i[1]]]

Network == INSTANCE MooreNetwork WITH exist <- alive, wire <- source, held <- Held

\* Whatever the order of calls, and whatever allocations fail in ma_create_full
\* and ma_step, the automata behave as a synchronous network: a step reads the
\* outputs as they were before it, through the current wires only, and deleting
\* an automaton leaves no wire to it.
ImplementsNetwork == Network!NetworkSpec
=============================================================================
