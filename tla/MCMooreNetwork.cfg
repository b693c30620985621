CONSTANTS
  Automata = {a, b, c}
  N = 1
  M = 1
  State <- TwoStates
  Transition <- MCTransition
  Output <- MCOutput
  Words <- AllWords
  NoLink = NoLink
  InitialCapacity = 2
  FailingCalls = {"malloc"}
SPECIFICATION Spec
SYMMETRY Symmetry
INVARIANTS
  OutputIsCurrent
PROPERTIES
  ImplementsNetwork
