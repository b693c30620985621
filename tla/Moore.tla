------------------------------- MODULE Moore -------------------------------
(***************************************************************************)
(* The Moore automata library (ma.c): automata created, wired output bit   *)
(* to input bit, stepped together and deleted by one caller, in any order  *)
(* of legal calls, with a memory allocator that may refuse.                *)
(*                                                                         *)
(* Every connection is recorded twice: the input bit points to the output  *)
(* bit that drives it (input_connections), and the output bit keeps a      *)
(* growable vector of the input bits it drives (output_connections).  A    *)
(* bit is identified by the pair <<automaton, position>>.                  *)
(*                                                                         *)
(* All automata have N inputs and M outputs; what they compute is given by *)
(* Transition and Output.  An input word is the set of its bits that are 1.*)
(***************************************************************************)
EXTENDS Integers, Sequences, FiniteSets, SequencesExt

CONSTANTS
  Automata,          \* addresses a moore_t may have
  N, M,              \* inputs and outputs of an automaton, N may be 0
  State,             \* the values of the s state bits
  Transition(_, _),  \* transition_function_t: input, state -> state
  Output(_),         \* output_function_t: state -> set of output bits that are 1
  NoLink,            \* des = NULL
  Words,             \* the input words callers set
  InitialCapacity,   \* of a Vector: 2 in the code
  FailingCalls       \* the allocator calls that may fail: "malloc", "realloc"

ASSUME MooreAssumption ==
  /\ N \in Nat /\ M \in Nat \ {0}
  /\ InitialCapacity \in Nat \ {0}
  /\ \A in \in SUBSET (1..N), s \in State : Transition(in, s) \in State
  /\ Words \subseteq SUBSET (1..N)
  /\ \A s \in State : Output(s) \subseteq 1..M
  /\ FailingCalls \subseteq {"malloc", "realloc"}
  /\ NoLink \notin (Automata \X (1..N)) \cup (Automata \X (1..M))

InBits  == Automata \X (1..N)
OutBits == Automata \X (1..M)

\* A Vector: its contents, the capacity it believes in, and the number of
\* elements the memory behind data really has.
Vector == [data : Seq(InBits), capacity : Nat, allocated : Nat]
EmptyVector == [data |-> <<>>, capacity |-> InitialCapacity, allocated |-> InitialCapacity]

VARIABLES
  alive,   \* the automata created and not yet deleted
  state, input, output,
  source,  \* input_connections, for every input bit
  driven   \* output_connections, for every output bit

vars == <<alive, state, input, output, source, driven>>
links == <<source, driven>>
values == <<state, input, output>>

TypeOK ==
  /\ alive \subseteq Automata
  /\ state \in [Automata -> State]
  /\ input \in [Automata -> SUBSET (1..N)]
  /\ output \in [Automata -> SUBSET (1..M)]
  /\ source \in [InBits -> OutBits \cup {NoLink}]
  /\ driven \in [OutBits -> Vector]

Init ==
  /\ alive = {}
  /\ state \in [Automata -> State] /\ \A a, b \in Automata : state[a] = state[b]
  /\ input = [a \in Automata |-> {}]
  /\ output = [a \in Automata |-> Output(state[a])]
  /\ source = [i \in InBits |-> NoLink]
  /\ driven = [o \in OutBits |-> EmptyVector]

-----------------------------------------------------------------------------
\* (A mutant: the vector grows one element too late.)
FullTooLate(vec) == Len(vec.data) > vec.capacity

\* push_back.  The capacity is doubled before realloc is tried.
Full(vec) == Len(vec.data) = vec.capacity

PushBack(vec, bit) ==
  IF Full(vec)
  THEN [data      |-> Append(vec.data, bit),
        capacity  |-> 2 * vec.capacity,
        allocated |-> 2 * vec.capacity]
  ELSE [vec EXCEPT !.data = Append(@, bit)]
PushBackFailed(vec) == [vec EXCEPT !.capacity = 2 * @]

\* (A mutant: the last element goes, whichever was meant.)
EraseLast(vec, i) == [vec EXCEPT !.data = SubSeq(@, 1, Len(@) - 1)]

\* erase: the last element takes the place of the erased one.
Erase(vec, i) ==
  [vec EXCEPT !.data = SubSeq([@ EXCEPT ![i] = Last(vec.data)], 1, Len(@) - 1)]

\* A memory of links, for the functions that change both records.
Links == [source |-> source, driven |-> driven]

\* delete_connection_in.  (An input bit occurs at most once in a vector, so
\* the loop of the code erases at most one element.)
DeleteConnectionIn(l, bit) ==
  IF l.source[bit] = NoLink THEN l
  ELSE LET out == l.source[bit]
           found == {i \in DOMAIN l.driven[out].data : l.driven[out].data[i] = bit}
       IN  [source |-> [l.source EXCEPT ![bit] = NoLink],
            driven |-> IF found = {} THEN l.driven
                       ELSE [l.driven EXCEPT ![out] = Erase(@, CHOOSE i \in found : TRUE)]]

DeleteConnectionsIn(l, a, positions) ==
  FoldLeft(LAMBDA acc, p : DeleteConnectionIn(acc, <<a, p>>), l, positions)

Positions(from, num) == [i \in 1..num |-> from + i - 1]

SetLinks(l) == source' = l.source /\ driven' = l.driven

-----------------------------------------------------------------------------
\* ma_create_full at a free address.  When an allocation fails the call undoes
\* everything and nothing has changed.
Create(a, q) ==
  /\ a \notin alive
  /\ alive' = alive \cup {a}
  /\ state' = [state EXCEPT ![a] = q]
  /\ input' = [input EXCEPT ![a] = {}]
  /\ output' = [output EXCEPT ![a] = Output(q)]
  /\ source' = [i \in InBits |-> IF i[1] = a THEN NoLink ELSE source[i]]
  /\ driven' = [o \in OutBits |-> IF o[1] = a THEN EmptyVector ELSE driven[o]]

\* (A mutant: the inputs that a drives are not told.)
DeleteForgetsOutputs(a) ==
  /\ a \in alive
  /\ alive' = alive \ {a}
  /\ LET l == DeleteConnectionsIn(Links, a, Positions(1, N))
     IN  /\ source' = l.source
         /\ driven' = [o \in OutBits |-> IF o[1] = a THEN EmptyVector ELSE l.driven[o]]
  /\ UNCHANGED values

\* ma_delete: the connections into a are taken out of their drivers' vectors,
\* then every input bit that a drives is cleared through a's own vectors.
Delete(a) ==
  /\ a \in alive
  /\ alive' = alive \ {a}
  /\ LET l == DeleteConnectionsIn(Links, a, Positions(1, N))
         dropped == UNION {ToSet(l.driven[<<a, j>>].data) : j \in 1..M}
     IN  /\ source' = [i \in InBits |-> IF i \in dropped THEN NoLink ELSE l.source[i]]
         /\ driven' = [o \in OutBits |-> IF o[1] = a THEN EmptyVector ELSE l.driven[o]]
  /\ UNCHANGED values

\* ma_connect(a, in, b, out, num): the num inputs are disconnected first.
\* The k-th push_back may fail when its vector is full: then the connections
\* before it are made, its input bit already points to the output bit, and
\* those after it are gone.
LegalConnect(a, in, b, out, num) ==
  /\ a \in alive /\ b \in alive
  /\ num > 0 /\ in + num - 1 <= N /\ out + num - 1 <= M

Connected(l, a, in, b, out, num) ==
  [source |-> [i \in InBits |->
                 IF i[1] = a /\ i[2] \in in..(in + num - 1)
                 THEN <<b, out + (i[2] - in)>> ELSE l.source[i]],
   driven |-> [o \in OutBits |->
                 IF o[1] = b /\ o[2] \in out..(out + num - 1)
                 THEN PushBack(l.driven[o], <<a, in + (o[2] - out)>>) ELSE l.driven[o]]]

Connect(a, in, b, out, num) ==
  /\ LegalConnect(a, in, b, out, num)
  /\ LET l == DeleteConnectionsIn(Links, a, Positions(in, num))
     IN  SetLinks(Connected(l, a, in, b, out, num))
  /\ UNCHANGED <<alive, values>>

ConnectFails(a, in, b, out, num, k) ==
  /\ "realloc" \in FailingCalls
  /\ LegalConnect(a, in, b, out, num)
  /\ k \in 1..num
  /\ LET l    == DeleteConnectionsIn(Links, a, Positions(in, num))
         made == Connected(l, a, in, b, out, k - 1)
         last == <<b, out + k - 1>>
     IN  /\ Full(made.driven[last])
         /\ source' = [made.source EXCEPT ![<<a, in + k - 1>>] = last]
         /\ driven' = [made.driven EXCEPT ![last] = PushBackFailed(@)]
  /\ UNCHANGED <<alive, values>>

\* ma_disconnect.
Disconnect(a, in, num) ==
  /\ a \in alive
  /\ num > 0 /\ in + num - 1 <= N
  /\ SetLinks(DeleteConnectionsIn(Links, a, Positions(in, num)))
  /\ UNCHANGED <<alive, values>>

-----------------------------------------------------------------------------
\* ma_set_input: only the unconnected bits are written.
SetInput(a, word) ==
  /\ a \in alive /\ N > 0
  /\ LET free == {i \in 1..N : source[<<a, i>>] = NoLink}
     IN  input' = [input EXCEPT ![a] = (@ \ free) \cup (word \cap free)]
  /\ UNCHANGED <<alive, state, output, links>>

\* (A mutant: the output is left for the next step.)
SetStateOnly(a, q) ==
  /\ a \in alive
  /\ state' = [state EXCEPT ![a] = q]
  /\ UNCHANGED <<alive, input, output, links>>

\* ma_set_state: the output follows at once.
SetState(a, q) ==
  /\ a \in alive
  /\ state' = [state EXCEPT ![a] = q]
  /\ output' = [output EXCEPT ![a] = Output(q)]
  /\ UNCHANGED <<alive, input, links>>

\* update_input: the connected bits take the outputs as they are now, the
\* others keep what they had.
UpdatedInput(a) ==
  {i \in 1..N : LET src == source[<<a, i>>]
                IN  IF src = NoLink THEN i \in input[a] ELSE src[2] \in output[src[1]]}

\* (A mutant: every automaton reads its inputs when its turn comes.)
StepInterleaved(at, done) ==
  /\ at # <<>> /\ ToSet(at) \subseteq alive
  /\ done = Len(at)
  /\ LET Sampled(v, a) ==
           {i \in 1..N : LET src == source[<<a, i>>]
                         IN  IF src = NoLink THEN i \in v.input[a]
                             ELSE src[2] \in v.output[src[1]]}
         Move(v, a) ==
           LET q == Transition(Sampled(v, a), v.state[a])
           IN  [input  |-> [v.input EXCEPT ![a] = Sampled(v, a)],
                state  |-> [v.state EXCEPT ![a] = q],
                output |-> [v.output EXCEPT ![a] = Output(q)]]
         after == FoldLeft(Move, [input |-> input, state |-> state, output |-> output], at)
     IN  input' = after.input /\ state' = after.state /\ output' = after.output
  /\ UNCHANGED <<alive, links>>

\* The states after the automata of moved have taken their steps, in this order,
\* on the sampled inputs.
NextStates(in, moved) ==
  FoldLeft(LAMBDA s, a : [s EXCEPT ![a] = Transition(in[a], @)], state, moved)

\* ma_step: first all inputs are updated, then the automata move one after the
\* other in the order of the array.  The allocation of the next state of
\* at[done + 1] may fail: the automata before it have moved, the others not.
Step(at, done) ==
  /\ at # <<>> /\ ToSet(at) \subseteq alive
  /\ done = Len(at) \/ (done \in 0..Len(at) - 1 /\ "malloc" \in FailingCalls)
  /\ input' = [a \in Automata |-> IF a \in ToSet(at) THEN UpdatedInput(a) ELSE input[a]]
  /\ state' = NextStates(input', SubSeq(at, 1, done))
  /\ output' = [a \in Automata |->
                  IF a \in ToSet(SubSeq(at, 1, done)) THEN Output(state'[a]) ELSE output[a]]
  /\ UNCHANGED <<alive, links>>

\* Every array of distinct automata a caller may pass.
StepLists == {at \in UNION {[1..n -> Automata] : n \in 1..Cardinality(Automata)} :
                \A i, j \in DOMAIN at : at[i] = at[j] => i = j}

Next ==
  \/ \E a \in Automata :
       \/ \E q \in State : Create(a, q) \/ SetState(a, q)
       \/ Delete(a)
       \/ \E word \in Words : SetInput(a, word)
       \/ \E in, num \in 1..N :
            \/ Disconnect(a, in, num)
            \/ \E b \in Automata, out \in 1..M :
                 \/ Connect(a, in, b, out, num)
                 \/ \E k \in 1..N : ConnectFails(a, in, b, out, num, k)
  \/ \E at \in StepLists : \E done \in 0..Len(at) : Step(at, done)

Spec == Init /\ [][Next]_vars

-----------------------------------------------------------------------------
(***************************************************************************)
(* Safety.                                                                 *)
(***************************************************************************)
Count(seq, x) == Cardinality({i \in DOMAIN seq : seq[i] = x})

\* The two records of a connection agree, and neither leads to a deleted
\* automaton.  An output bit's vector names, once each, only inputs of living
\* automata that it drives (what ma_delete and erase rely on):
VectorsPointBack ==
  \A o \in OutBits : o[1] \in alive =>
    /\ \A i \in ToSet(driven[o].data) : i[1] \in alive /\ source[i] = o
    /\ \A i \in InBits : Count(driven[o].data, i) <= 1

\* and a driven input of a living automaton stands in the vector of the output
\* it reads (what update_input and delete_connection_in rely on).
Recorded(i) ==
  source[i] # NoLink => source[i][1] \in alive /\ i \in ToSet(driven[source[i]].data)

\* The second record is lost in one way only: realloc has just refused to make
\* room for it in ma_connect.  No order of connecting, cutting and deleting
\* costs a record, also when earlier ones have been lost.
RecordLostOnlyToRealloc ==
  [][\A i \in InBits : i[1] \in alive /\ i[1] \in alive' /\ Recorded(i) /\ ~Recorded(i)' =>
       /\ "realloc" \in FailingCalls
       /\ LET out == source'[i] IN out[1] \in alive /\ driven'[out] = PushBackFailed(driven[out])]_vars

\* No vector holds more elements than the capacity it believes in,
WithinCapacity == \A o \in OutBits : Len(driven[o].data) <= driven[o].capacity

\* or than there is memory behind it.  A realloc that fails breaks it.
NoOverflow == \A o \in OutBits : Len(driven[o].data) <= driven[o].allocated

\* The calls of the library have a meaning in C: nothing was written past a
\* vector and no living input bit points to freed memory.  A bound of the runs
\* with a failing realloc, which are not followed past such a state.
MemoryIsSound ==
  /\ NoOverflow
  /\ \A i \in InBits : (i[1] \in alive /\ source[i] # NoLink) => source[i][1] \in alive

\* What ma_get_output shows is always the output of the current state, also
\* after a step that failed half-way.
OutputIsCurrent == \A a \in alive : output[a] = Output(state[a])
=============================================================================
