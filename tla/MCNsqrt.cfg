CONSTANTS
  n = 6
  pow2 <- MCpow2
  w = 2
  Garbage = {0, 3}
SPECIFICATION Spec
INVARIANTS
  FloorSquareRoot
PROPERTIES
  ImplementsDigitSqrt
\* The function returns.
CHECK_DEADLOCK FALSE
