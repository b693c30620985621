CONSTANTS
  Automata = {a, b}
  N = 2
  M = 2
  State <- OneState
  Transition <- ZeroTransition
  Output <- ZeroOutput
  Words <- ZeroWord
  NoLink = NoLink
  InitialCapacity = 2
  FailingCalls = {"realloc"}
SPECIFICATION Spec
SYMMETRY Symmetry
INVARIANTS
  NoOverflow
