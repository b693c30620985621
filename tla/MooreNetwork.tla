---------------------------- MODULE MooreNetwork ----------------------------
(***************************************************************************)
(* What the library promises: a network of Moore automata.  Each input is  *)
(* driven by an output or holds a value set by the caller; a disconnected  *)
(* input is undefined until it is set; a step moves some automata at once. *)
(* There are no copies of anything: no cached outputs, no sampled inputs,  *)
(* no record of a wire at its other end.                                   *)
(***************************************************************************)
EXTENDS Integers, FiniteSets

CONSTANTS Automata, N, M, State, Transition(_, _), Output(_), NoLink

VARIABLES
  exist,  \* the automata of the network
  state,  \* of each automaton that exists
  wire,   \* for every input bit, the output bit that drives it
  held    \* for every input bit that is not driven, whether it is 1

netVars == <<exist, state, wire, held>>

InBits == Automata \X (1..N)
Bits(a) == {i \in InBits : i[1] = a}

Init ==
  /\ exist = {}
  /\ wire = [i \in InBits |-> NoLink]
  /\ held = [i \in InBits |-> FALSE]

\* The input word an automaton would see now.
InputOf(a) ==
  {p \in 1..N : LET w == wire[<<a, p>>]
                IN  IF w = NoLink THEN held[<<a, p>>] ELSE w[2] \in Output(state[w[1]])}

Driven(i) == wire[i] # NoLink

\* Inputs that lose their driver take any value, other inputs keep theirs.
HeldOutside(changed) == \A i \in InBits \ changed : held'[i] = held[i]

Add(a) ==
  /\ a \notin exist
  /\ exist' = exist \cup {a}
  /\ \A b \in Automata \ {a} : state'[b] = state[b]
  /\ HeldOutside(Bits(a)) /\ \A i \in Bits(a) : ~held'[i]
  /\ UNCHANGED wire

\* Deleting an automaton cuts all its wires at both ends.
Remove(a) ==
  /\ a \in exist
  /\ exist' = exist \ {a}
  /\ wire' = [i \in InBits |->
                IF i[1] = a \/ (Driven(i) /\ wire[i][1] = a) THEN NoLink ELSE wire[i]]
  /\ HeldOutside({i \in InBits : wire[i] # wire'[i]} \cup Bits(a))
  /\ UNCHANGED state

\* Inputs of one automaton are driven anew, or no longer.
Rewire(a) ==
  /\ a \in exist
  /\ \A i \in InBits \ Bits(a) : wire'[i] = wire[i]
  /\ \A i \in Bits(a) : wire'[i] = NoLink \/ wire'[i][1] \in exist
  /\ HeldOutside({i \in Bits(a) : wire[i] # wire'[i]})
  /\ UNCHANGED <<exist, state>>

Set(a) ==
  /\ a \in exist
  /\ \A b \in Automata \ {a} : state'[b] = state[b]
  /\ HeldOutside({i \in Bits(a) : ~Driven(i)})
  /\ UNCHANGED <<exist, wire>>

Move(S) ==
  /\ S \subseteq exist
  /\ \A a \in Automata :
       state'[a] = IF a \in S THEN Transition(InputOf(a), state[a]) ELSE state[a]
  /\ UNCHANGED <<exist, wire, held>>

Next ==
  \/ \E a \in Automata : Add(a) \/ Remove(a) \/ Rewire(a) \/ Set(a)
  \/ \E S \in SUBSET Automata : Move(S)

NetworkSpec == Init /\ [][Next]_netVars
=============================================================================
