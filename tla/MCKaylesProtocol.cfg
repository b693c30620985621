CONSTANTS
  Bits = 3
  WordLen = 2
  TypedFields <- MCTyped
  Datagrams <- MCDatagrams
  Memberships <- MCMemberships
  GameStates <- MCStates
SPECIFICATION Spec
INVARIANTS
  TypedIsDecoded
  FirstErrorReported
  AnswerIsUnderstood
\* An exchange ends with its answer.
CHECK_DEADLOCK FALSE
