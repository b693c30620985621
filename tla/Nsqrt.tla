------------------------------- MODULE Nsqrt -------------------------------
(***************************************************************************)
(* nsqrt.asm: the square root on arrays of w-bit words, least significant  *)
(* word first (w = 64 in the code).  A step is one pass of the main loop;  *)
(* the loops over words inside it are recursive functions of the index.    *)
(* The remainder replaces the number in X.                                 *)
(***************************************************************************)
EXTENDS Powers, FiniteSetsExt

CONSTANTS
  w,         \* bits of a word
  Garbage    \* the words Q may hold before the call

ASSUME WordAssumption ==
  /\ w \in Nat \ {0, 1} /\ w <= n /\ n % w = 0
  /\ Garbage \subseteq 0..pow2[w] - 1

Words == n \div w
Word == 0..pow2[w] - 1

VARIABLES
  X, Q,     \* arrays of 2 * Words and of Words words
  rcx,      \* n - j: the bit of the root that comes next, plus one, between passes
  cleared,  \* Q has been cleared
  number    \* history: the number that X held at the call

vars == <<X, Q, rcx, cleared, number>>

Value(words) == MapThenSumSet(LAMBDA i : words[i] * pow2[w * i], DOMAIN words)
WordsOf(v, size) == [i \in 0..size - 1 |-> (v \div pow2[w * i]) % pow2[w]]

Init ==
  /\ number \in 0..pow2[2 * n] - 1
  /\ X = WordsOf(number, 2 * Words)
  /\ \E g \in Garbage : Q = [i \in 0..Words - 1 |-> g]
  /\ rcx = n /\ cleared = FALSE

ClearLoop ==
  /\ ~cleared /\ cleared' = TRUE
  /\ Q' = [i \in 0..Words - 1 |-> 0]
  /\ UNCHANGED <<X, rcx, number>>

Flip(word, b) == IF (word \div pow2[b]) % 2 = 1 THEN word - pow2[b] ELSE word + pow2[b]
CHANGE_BIT(q, bit) == [q EXCEPT ![bit \div w] = Flip(@, bit % w)]

\* The trial: Q with the bit below `bit` set, which stands for 4^bit in T; the last
\* bit has none below it.
Trial(q, bit) == IF bit = 0 THEN q ELSE CHANGE_BIT(q, bit - 1)

\* The lowest word that T can touch.
Lowest(bit) == (bit + 1) \div w

\* (A mutant: the last bit's 4^0 is forgotten.)
FIND_VALUE_without_one(q, bit, i) ==
  LET At(k) == IF k \in DOMAIN q THEN q[k] ELSE 0
      m == i - Lowest(bit)
      shift == (bit + 1) % w
  IN  IF shift = 0 THEN At(m)
      ELSE (At(m) * pow2[shift] + At(m - 1) \div pow2[w - shift]) % pow2[w]

\* FIND_VALUE: word i of T, put together from two words of Q by a shift (shld).
FIND_VALUE(q, bit, i) ==
  LET At(k) == IF k \in DOMAIN q THEN q[k] ELSE 0
      m == i - Lowest(bit)
      shift == (bit + 1) % w
      t == IF shift = 0 THEN At(m)
           ELSE (At(m) * pow2[shift] + At(m - 1) \div pow2[w - shift]) % pow2[w]
  IN  IF bit = 0 /\ i = 0 THEN (t + 1) % pow2[w] ELSE t

\* compare_loop: from the top down to the lowest word of T.
RemainderSuffices(q, bit) ==
  LET compare[i \in Nat] ==
        LET t == FIND_VALUE(q, bit, i)
        IN  t < X[i] \/ (t = X[i] /\ (i <= Lowest(bit) \/ compare[i - 1]))
  IN  compare[2 * Words - 1]

\* (A mutant: the borrow out of a word is lost.)
SubtractWithoutBorrow(q, bit) ==
  [i \in DOMAIN X |-> IF i < Lowest(bit) THEN X[i]
                      ELSE (X[i] + pow2[w] - FIND_VALUE(q, bit, i)) % pow2[w]]

\* sub_loop: from the lowest word of T up, with the borrow carried along.
Subtract(q, bit) ==
  LET borrow[i \in Nat] ==
        IF i <= Lowest(bit) THEN 0
        ELSE IF X[i - 1] < FIND_VALUE(q, bit, i - 1) + borrow[i - 1] THEN 1 ELSE 0
  IN  [i \in DOMAIN X |-> IF i < Lowest(bit) THEN X[i]
         ELSE (X[i] + 2 * pow2[w] - FIND_VALUE(q, bit, i) - borrow[i]) % pow2[w]]

\* One pass of main_loop: the trial is compared, subtracted if it fits (then bit
\* rcx of the root is set), and taken back.
MainLoop ==
  /\ cleared /\ rcx > 0
  /\ rcx' = rcx - 1
  /\ LET trial == Trial(Q, rcx')
     IN  IF RemainderSuffices(trial, rcx')
         THEN /\ X' = Subtract(trial, rcx')
              /\ Q' = Trial(CHANGE_BIT(trial, rcx'), rcx')
         ELSE /\ Q' = Trial(trial, rcx')
              /\ UNCHANGED X
  /\ UNCHANGED <<cleared, number>>

Next == ClearLoop \/ MainLoop

Spec == Init /\ [][Next]_vars

-----------------------------------------------------------------------------
\* On return Q holds the root of the number rounded down, X the remainder, and no
\* word has overflowed.
FloorSquareRoot ==
  rcx = 0 => LET q == Value(Q)
             IN  /\ q * q <= number /\ number < (q + 1) * (q + 1)
                 /\ Value(X) = number - q * q
                 /\ \A i \in DOMAIN Q : Q[i] \in Word

\* Every pass over the words is one iteration of the algorithm on numbers.
Digits == INSTANCE DigitSqrt WITH
  x <- number, q <- IF cleared THEN Value(Q) ELSE 0, r <- Value(X), left <- rcx
ImplementsDigitSqrt == Digits!Spec
=============================================================================
