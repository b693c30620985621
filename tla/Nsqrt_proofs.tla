---------------------------- MODULE Nsqrt_proofs ----------------------------
(***************************************************************************)
(* nsqrt on words is the digit by digit square root on numbers, for every  *)
(* number of words and every size of a word.                               *)
(*                                                                         *)
(* The value of an array is taken one word at a time (Low, LowIs, LowBound *)
(* and LowSplit).  With it:                                                *)
(*   - CHANGE_BIT adds or takes away a power of two (ChangeBit);           *)
(*   - FIND_VALUE yields the words of Q shifted by bit + 1 bits, plus one  *)
(*     in the last pass: what a word of Q pushes out comes in again at the *)
(*     word above (TermLow, TermValue);                                    *)
(*   - compare_loop, from the top word down, compares the values           *)
(*     (SufficesIs), and sub_loop, from the lowest word up, subtracts them *)
(*     (SubtractIs).  Both are recursive functions of the index: one that  *)
(*     satisfies the recursion exists (NatRecursion), so CHOOSE yields one *)
(*     and the recursion can be used (CompareIs, BorrowIs).                *)
(* The digit by digit algorithm, for which see Bracket, is proved on its   *)
(* own, for numbers of any length (Numbers), and on the words.             *)
(* The inductive invariant, WordsInv, says that the words are words and    *)
(* that the bits of the root below rcx are 0: only then does flipping such *)
(* a bit set it, and flipping it again take it back.                       *)
(***************************************************************************)
EXTENDS Nsqrt, FoldTheorems

-----------------------------------------------------------------------------
\* Powers and words.

\* The table of powers (PowersAssumption): none is zero, each is twice the one before it.
LEMMA PowersAre ==
  /\ n \in Nat \ {0} /\ pow2[0] = 1
  /\ \A i \in 0..2 * n : pow2[i] \in Nat \ {0}
  /\ \A i \in 0..2 * n - 1 : pow2[i + 1] = 2 * pow2[i]
<1> DEFINE G == {i \in Nat : i <= 2 * n => pow2[i] \in Nat \ {0}}
<1>1. n \in Nat \ {0} /\ pow2[0] = 1 /\ \A i \in 0..2 * n - 1 : pow2[i + 1] = 2 * pow2[i]
  BY PowersAssumption DEF PowersAssumption
<1>2. 0 \in G
  BY <1>1
<1>3. ASSUME NEW i \in Nat, i \in G PROVE i + 1 \in G
  <2> SUFFICES ASSUME i + 1 <= 2 * n PROVE pow2[i + 1] \in Nat \ {0}
    OBVIOUS
  <2>1. pow2[i] \in Nat \ {0} /\ i \in 0..2 * n - 1
    BY <1>1, <1>3
  <2> QED
    BY <1>1, <2>1
<1>4. Nat \subseteq G
  <2> HIDE DEF G
  <2> QED
    BY <1>2, <1>3, SetInduction
<1>5. \A i \in 0..2 * n : pow2[i] \in Nat \ {0}
  BY <1>4
<1> QED
  BY <1>1, <1>5

\* Exponents add up.
LEMMA PowersAdd ==
  ASSUME NEW i \in Nat, NEW j \in Nat, i + j <= 2 * n
  PROVE  pow2[i + j] = pow2[i] * pow2[j]
<1> DEFINE G == {k \in Nat : i + k <= 2 * n => pow2[i + k] = pow2[i] * pow2[k]}
<1>0. n \in Nat
  BY PowersAre
<1>1. 0 \in G
  <2>1. i \in 0..2 * n /\ pow2[i] \in Nat /\ pow2[0] = 1 /\ i + 0 = i
    BY <1>0, PowersAre
  <2> QED
    BY <2>1
<1>2. ASSUME NEW k \in Nat, k \in G PROVE k + 1 \in G
  <2> SUFFICES ASSUME i + (k + 1) <= 2 * n PROVE pow2[i + (k + 1)] = pow2[i] * pow2[k + 1]
    OBVIOUS
  <2>1. /\ i + k \in 0..2 * n - 1 /\ k \in 0..2 * n - 1 /\ i \in 0..2 * n /\ k \in 0..2 * n
        /\ (i + k) + 1 = i + (k + 1)
    BY <1>0
  <2>2. pow2[i + (k + 1)] = 2 * pow2[i + k] /\ pow2[k + 1] = 2 * pow2[k]
    <3>1. pow2[(i + k) + 1] = 2 * pow2[i + k] /\ pow2[k + 1] = 2 * pow2[k]
      BY <2>1, PowersAre
    <3> QED
      BY <2>1, <3>1
  <2>3. pow2[i + k] = pow2[i] * pow2[k]
    BY <1>0, <1>2
  <2>4. pow2[i] \in Nat /\ pow2[k] \in Nat
    BY <2>1, PowersAre
  <2>5. \A a, b \in Nat : 2 * (a * b) = a * (2 * b)
    OBVIOUS
  <2> QED
    BY <2>2, <2>3, <2>4, <2>5
<1>3. Nat \subseteq G
  <2> HIDE DEF G
  <2> QED
    BY <1>1, <1>2, SetInduction
<1> QED
  BY <1>3

\* The words are digits to this base.
Base == pow2[w]

\* The words fill the n bits exactly, and their weights are the powers of the base.
LEMMA WordsAre ==
  /\ w \in Nat \ {0} /\ Words \in Nat \ {0} /\ w * Words = n
  /\ Base \in Nat \ {0} /\ w * (2 * Words) = 2 * n
  /\ \A i \in 0..2 * Words : w * i \in 0..2 * n
  /\ \A i \in 0..2 * Words - 1 : pow2[w * (i + 1)] = pow2[w * i] * Base
<1>1. w \in Nat \ {0} /\ w <= n /\ n % w = 0 /\ n \in Nat \ {0}
  BY WordAssumption, PowersAre DEF WordAssumption
<1>k. PICK k \in Int : k = Words
  BY <1>1, DivisionIs DEF Words
<1>2. w * k = n
  <2>1. n = w * (n \div w) + (n % w) /\ n \div w \in Int
    BY <1>1, DivisionIs
  <2> QED
    BY <1>1, <1>k, <2>1 DEF Words
<1>3. k \in Nat \ {0}
  <2>1. CASE k <= 0
    <3>m. PICK m \in Nat : m = -k
      BY <2>1
    <3>1. w * m \in Nat /\ w * m = -(w * k)
      BY <1>1, <3>m
    <3> QED
      BY <1>1, <1>2, <3>1
  <2>2. CASE k > 0
    BY <2>2
  <2> QED
    BY <2>1, <2>2
<1>4. w * (2 * k) = 2 * n
  <2>1. w * (2 * k) = 2 * (w * k)
    BY <1>1
  <2> QED
    BY <1>2, <2>1
<1>5. ASSUME NEW i \in 0..2 * k PROVE w * i \in 0..2 * n
  <2>0. 2 * k - i \in Nat
    BY <1>3
  <2>d. PICK d \in Nat : d = 2 * k - i
    BY <2>0
  <2>1. w * i \in Nat /\ w * d \in Nat /\ w * (2 * k) = w * i + w * d
    BY <1>1, <1>3, <2>d
  <2> QED
    BY <1>1, <1>4, <2>1
<1>6. Base \in Nat \ {0}
  <2>1. w \in 0..2 * n
    BY <1>1
  <2> QED
    BY <2>1, PowersAre DEF Base
<1>7. ASSUME NEW i \in 0..2 * k - 1 PROVE pow2[w * (i + 1)] = pow2[w * i] * Base
  <2>1. w * (i + 1) = w * i + w /\ w * i \in Nat /\ i + 1 \in 0..2 * k
    BY <1>1, <1>3
  <2>2. w * (i + 1) \in 0..2 * n
    BY <1>5, <2>1
  <2>3. pow2[w * i + w] = pow2[w * i] * pow2[w]
    BY <1>1, <2>1, <2>2, PowersAdd
  <2> QED
    BY <2>1, <2>3 DEF Base
<1> QED
  BY <1>1, <1>k, <1>2, <1>3, <1>4, <1>5, <1>6, <1>7

-----------------------------------------------------------------------------
\* The value of the first words of an array.

\* The words of an array with their weights, and the value of the first k of them.
Weighted(a) == [i \in DOMAIN a |-> a[i] * pow2[w * i]]
Low(a, k) == Total(Weighted(a), 0..k-1)

\* An array of the given size.
Array(size, S) == [0..size-1 -> S]

\* The weighted words are numbers, finitely many of them.
LEMMA WeightedIs ==
  ASSUME NEW size \in 0..2 * Words, NEW a \in Array(size, Int)
  PROVE  /\ Weighted(a) \in [0..size-1 -> Int] /\ DOMAIN a = 0..size-1
         /\ \A i \in 0..size-1 : Weighted(a)[i] = a[i] * pow2[w * i] /\ a[i] \in Int
              /\ pow2[w * i] \in Nat \ {0}
         /\ IsFiniteSet(0..size-1)
<1>1. DOMAIN a = 0..size-1 /\ size \in Nat /\ \A i \in 0..size-1 : a[i] \in Int
  BY WordsAre DEF Array
<1>2. \A i \in 0..size-1 : pow2[w * i] \in Nat \ {0}
  BY WordsAre, PowersAre
<1>3. IsFiniteSet(0..size-1)
  BY <1>1, FS_Interval
<1> QED
  BY <1>1, <1>2, <1>3 DEF Weighted

\* Value adds up the words with their weights.
LEMMA ValueIs ==
  ASSUME NEW size \in 0..2 * Words, NEW a \in Array(size, Int)
  PROVE  Value(a) = Low(a, size)
<1>s. PICK S : S = 0..size-1
  OBVIOUS
<1>f. PICK f \in [S -> Int] : f = Weighted(a)
  BY <1>s, WeightedIs
<1>0. IsFiniteSet(S) /\ DOMAIN a = S /\ \A i \in S : f[i] = a[i] * pow2[w * i]
  BY <1>s, <1>f, WeightedIs
<1> DEFINE Body(g) == [s \in SUBSET S |->
                        IF s = {} THEN 0
                        ELSE LET x == CHOOSE x \in s : TRUE IN a[x] * pow2[w * x] + g[s \ {x}]]
<1>h. PICK h \in [SUBSET S -> Int] : SumsUp(h, f, S)
  <2>1. S \in SUBSET S
    OBVIOUS
  <2> QED
    BY <1>0, <2>1, SumsExist
<1>1. h = Body(h)
  <2>1. ASSUME NEW s \in SUBSET S PROVE h[s] = Body(h)[s]
    <3>1. CASE s = {}
      BY <1>h, <3>1 DEF SumsUp
    <3>2. CASE s # {}
      <4>1. Chosen(s) \in S
        BY <3>2, ChosenIn
      <4>2. h[s] = f[Chosen(s)] + h[Others(s)]
        BY <1>h, <3>2 DEF SumsUp
      <4>3. f[Chosen(s)] = a[Chosen(s)] * pow2[w * Chosen(s)]
        BY <1>0, <4>1
      <4> QED
        BY <3>2, <4>2, <4>3 DEF Chosen, Others
    <3> QED
      BY <3>1, <3>2
  <2> QED
    BY <2>1
<1>i. PICK iter : iter = CHOOSE g : g = Body(g)
  OBVIOUS
<1>2. iter = Body(iter)
  <2> HIDE DEF Body
  <2> QED
    BY <1>1, <1>i, Zenon
<1>3. Value(a) = iter[S]
  BY <1>0, <1>i, Zenon DEF Value, MapThenSumSet, MapThenFoldSet
<1>4. SumsUp(iter, f, S)
  <2>1. ASSUME NEW s \in SUBSET S
        PROVE  iter[s] = IF s = {} THEN 0 ELSE f[Chosen(s)] + iter[Others(s)]
    <3>1. CASE s = {}
      BY <1>2, <3>1
    <3>2. CASE s # {}
      <4>1. Chosen(s) \in S
        BY <3>2, ChosenIn
      <4>2. iter[s] = a[Chosen(s)] * pow2[w * Chosen(s)] + iter[Others(s)]
        BY <1>2, <3>2 DEF Chosen, Others
      <4>3. f[Chosen(s)] = a[Chosen(s)] * pow2[w * Chosen(s)]
        BY <1>0, <4>1
      <4> QED
        BY <3>2, <4>2, <4>3
    <3> QED
      BY <3>1, <3>2
  <2> QED
    BY <2>1 DEF SumsUp
<1>5. Total(f, S) = iter[S]
  <2>1. S \in SUBSET S
    OBVIOUS
  <2> QED
    BY <1>0, <1>4, <2>1, TotalIs
<1> QED
  BY <1>3, <1>5, <1>s, <1>f DEF Low

\* The value of the first words, one word at a time.
LEMMA LowIs ==
  ASSUME NEW size \in 0..2 * Words, NEW a \in Array(size, Int)
  PROVE  /\ Low(a, 0) = 0
         /\ \A k \in 0..size : Low(a, k) \in Int
         /\ \A k \in 0..size-1 : Low(a, k + 1) = Low(a, k) + a[k] * pow2[w * k]
<1>s. PICK S : S = 0..size-1
  OBVIOUS
<1>f. PICK f \in [S -> Int] : f = Weighted(a)
  BY <1>s, WeightedIs
<1>0. size \in Nat /\ IsFiniteSet(S)
  BY <1>s, WordsAre, WeightedIs
<1>1. ASSUME NEW k \in 0..size PROVE 0..k-1 \in SUBSET S /\ IsFiniteSet(0..k-1)
  <2>1. 0..k-1 \in SUBSET S
    BY <1>0, <1>s
  <2> QED
    BY <1>0, <2>1, FS_Subset
<1>2. ASSUME NEW k \in 0..size PROVE Low(a, k) \in Int /\ Total(f, {}) = 0
  BY <1>1, <1>f, TotalTyped DEF Low
<1>3. Low(a, 0) = 0
  <2>1. 0..0-1 = {}
    OBVIOUS
  <2>2. 0 \in 0..size
    BY <1>0
  <2> QED
    BY <1>2, <1>f, <2>1, <2>2 DEF Low
<1>5. ASSUME NEW U \in SUBSET S, IsFiniteSet(U), NEW x \in U, NEW T, T = U \ {x}
      PROVE  Total(f, U) = f[x] + Total(f, T)
  BY <1>5, TotalOneMore
<1>4. ASSUME NEW k \in 0..size-1 PROVE Low(a, k + 1) = Low(a, k) + a[k] * pow2[w * k]
  <2>u. PICK U : U = 0..(k+1)-1
    OBVIOUS
  <2>1. U \in SUBSET S /\ IsFiniteSet(U) /\ k \in U
    BY <1>0, <1>1, <1>s, <2>u, k + 1 \in 0..size
  <2>t. PICK T : T = U \ {k}
    OBVIOUS
  <2>2. T = 0..k-1
    BY <1>0, <2>u, <2>t
  <2>3. Total(f, U) = f[k] + Total(f, T)
    BY <1>f, <2>1, <2>t, <1>5, Zenon
  <2>4. f[k] = a[k] * pow2[w * k] /\ f[k] \in Int
    BY <1>f, <1>s, WeightedIs
  <2>5. Low(a, k) = Total(f, T) /\ Low(a, k) \in Int /\ Low(a, k + 1) = Total(f, U)
    BY <1>2, <1>f, <2>2, <2>u, k \in 0..size, <1>0 DEF Low
  <2> QED
    BY <2>3, <2>4, <2>5
<1> QED
  BY <1>2, <1>3, <1>4

\* k words hold the numbers below the k-th power of the base.
LEMMA LowBound ==
  ASSUME NEW size \in 0..2 * Words, NEW a \in Array(size, Word), NEW k \in 0..size
  PROVE  Low(a, k) \in Nat /\ Low(a, k) < pow2[w * k]
<1>0. /\ size \in Nat /\ a \in Array(size, Int) /\ Base \in Nat \ {0}
      /\ \A i \in 0..size-1 : a[i] \in 0..Base-1
  BY WordsAre DEF Array, Word, Base
<1> DEFINE G == {i \in Nat : i <= size => Low(a, i) \in Nat /\ Low(a, i) < pow2[w * i]}
<1>1. 0 \in G
  <2>1. w * 0 = 0
    BY WordsAre
  <2> QED
    BY <1>0, <2>1, LowIs, PowersAre
<1>2. ASSUME NEW i \in Nat, i \in G PROVE i + 1 \in G
  <2> SUFFICES ASSUME i + 1 <= size PROVE Low(a, i + 1) \in Nat /\ Low(a, i + 1) < pow2[w * (i + 1)]
    OBVIOUS
  <2>1. i \in 0..size-1 /\ i \in 0..2 * Words - 1
    BY <1>0, WordsAre
  <2>p. PICK p \in Nat \ {0} : p = pow2[w * i]
    BY <1>0, <2>1, WeightedIs
  <2>2. pow2[w * (i + 1)] = p * Base
    BY <2>1, <2>p, WordsAre
  <2>l. PICK l \in Nat : l = Low(a, i) /\ l < p
    BY <1>0, <1>2, <2>p
  <2>x. PICK x \in 0..Base-1 : x = a[i]
    BY <1>0, <2>1
  <2>3. Low(a, i + 1) = l + x * p
    BY <1>0, <2>1, <2>l, <2>p, <2>x, LowIs
  <2>4. x * p \in Nat /\ x * p + p <= p * Base
    <3>d. PICK d \in Nat : d = (Base - 1) - x
      BY <1>0
    <3>1. d * p \in Nat /\ x * p \in Nat /\ p * Base = x * p + p + d * p
      BY <1>0, <3>d
    <3> QED
      BY <3>1
  <2> QED
    BY <1>0, <2>2, <2>3, <2>4, <2>l
<1>3. Nat \subseteq G
  <2> HIDE DEF G
  <2> QED
    BY <1>1, <1>2, SetInduction
<1> QED
  BY <1>0, <1>3

-----------------------------------------------------------------------------
\* A bit and its word.

\* Bit j is in word j \div w.
LEMMA Position ==
  ASSUME NEW j \in 0..n-1, NEW c, c = j \div w, NEW b, b = j % w
  PROVE  /\ c \in 0..Words-1 /\ b \in 0..w-1 /\ j = w * c + b
         /\ pow2[j] = pow2[w * c] * pow2[b]
         /\ pow2[j] \in Nat \ {0} /\ pow2[b] \in Nat \ {0} /\ pow2[w * c] \in Nat \ {0}
<1>0. w \in Nat \ {0} /\ Words \in Nat \ {0} /\ w * Words = n /\ n \in Nat \ {0}
  BY WordsAre, PowersAre
<1>k. PICK k \in Nat : k = Words
  BY <1>0
<1>1. c \in Int /\ b \in Nat /\ b < w /\ j = w * c + b
  BY <1>0, DivisionIs
<1>2. c >= 0
  <2> SUFFICES ASSUME c < 0 PROVE FALSE
    BY <1>1
  <2>m. PICK m \in Nat : m = -c /\ m > 0
    BY <1>1
  <2>1. w * m >= w /\ w * m = -(w * c)
    BY <1>0, <1>1, <2>m, ProductGrows
  <2> QED
    BY <1>0, <1>1, <2>1
<1>3. c < k
  <2> SUFFICES ASSUME c >= k PROVE FALSE
    BY <1>1
  <2>m. PICK m \in Nat : m = c - k
    BY <1>1
  <2>1. w * m \in Nat /\ w * c = w * k + w * m
    BY <1>0, <1>1, <2>m
  <2> QED
    BY <1>0, <1>1, <1>k, <2>1
<1>y. PICK y \in Nat : y = w * c
  BY <1>0, <1>1, <1>2
<1>4. j = y + b /\ y + b <= 2 * n /\ b \in 0..2 * n /\ y \in 0..2 * n /\ j \in 0..2 * n
  BY <1>0, <1>1, <1>2, <1>y
<1>5. pow2[y + b] = pow2[y] * pow2[b]
  BY <1>1, <1>4, PowersAdd
<1>6. pow2[j] \in Nat \ {0} /\ pow2[b] \in Nat \ {0} /\ pow2[y] \in Nat \ {0}
  BY <1>4, PowersAre
<1>7. c \in 0..Words-1 /\ b \in 0..w-1
  BY <1>0, <1>1, <1>2, <1>3, <1>k
<1> QED
  BY <1>1, <1>4, <1>5, <1>6, <1>7, <1>y

\* Half of what remains of a word above its low b bits.
LEMMA HalfWord ==
  ASSUME NEW b \in 0..w-1
  PROVE  \E h \in Nat \ {0} : Base = pow2[b] * (2 * h)
<1>0. w \in Nat \ {0} /\ w \in 0..2 * n /\ n \in Nat /\ w <= n
  BY WordsAre, PowersAre, WordAssumption DEF WordAssumption
<1>1. (w - 1) - b \in 0..2 * n - 1 /\ ((w - 1) - b) + 1 = w - b
  BY <1>0
<1>2. pow2[((w - 1) - b) + 1] = 2 * pow2[(w - 1) - b] /\ pow2[(w - 1) - b] \in Nat \ {0}
  BY <1>1, PowersAre
<1>3. b + (w - b) = w /\ w - b \in Nat /\ b + (w - b) <= 2 * n
  BY <1>0
<1>4. pow2[b + (w - b)] = pow2[b] * pow2[w - b]
  BY <1>3, PowersAdd
<1> QED
  BY <1>1, <1>2, <1>3, <1>4 DEF Base

\* The first i words are the first k of them and a multiple of the next weight.
LEMMA LowSplit ==
  ASSUME NEW size \in 0..2 * Words, NEW a \in Array(size, Word),
         NEW k \in 0..size, NEW i \in k..size
  PROVE  \E rest \in Nat : Low(a, i) = Low(a, k) + pow2[w * k] * rest
<1>0. /\ size \in Nat /\ a \in Array(size, Int) /\ Base \in Nat \ {0} /\ w \in Nat \ {0}
      /\ \A m \in 0..size-1 : a[m] \in 0..Base-1
  BY WordsAre DEF Array, Word, Base
<1>p. PICK p \in Nat \ {0} : p = pow2[w * k]
  <2>1. w * k \in 0..2 * n
    BY <1>0, WordsAre
  <2> QED
    BY <2>1, PowersAre
<1>l. PICK l \in Int : l = Low(a, k)
  BY <1>0, LowIs
<1> DEFINE G == {d \in Nat : k + d <= size => \E rest \in Nat : Low(a, k + d) = l + p * rest}
<1>1. 0 \in G
  <2>1. k + 0 = k /\ l = l + p * 0
    OBVIOUS
  <2> QED
    BY <2>1, <1>l
<1>2. ASSUME NEW d \in Nat, d \in G PROVE d + 1 \in G
  <2> SUFFICES ASSUME k + (d + 1) <= size
               PROVE  \E rest \in Nat : Low(a, k + (d + 1)) = l + p * rest
    OBVIOUS
  <2>1. k + d \in 0..size-1 /\ k + (d + 1) = (k + d) + 1
    BY <1>0
  <2>r. PICK rest \in Nat : Low(a, k + d) = l + p * rest
    BY <1>0, <1>2
  <2>x. PICK x \in 0..Base-1 : x = a[k + d]
    BY <1>0, <2>1
  <2>2. w * (k + d) = w * k + w * d /\ w * (k + d) \in 0..2 * n /\ w * k \in Nat /\ w * d \in Nat
    BY <1>0, <2>1, WordsAre
  <2>3. w * d \in 0..2 * n /\ w * k + w * d <= 2 * n
    <3>y. PICK y \in Nat : y = w * d
      BY <2>2
    <3>z. PICK z \in Nat : z = w * k
      BY <2>2
    <3>1. y + z \in 0..2 * n /\ n \in Nat
      BY <2>2, <3>y, <3>z, PowersAre
    <3> QED
      BY <3>1, <3>y, <3>z
  <2>q. PICK q \in Nat \ {0} : q = pow2[w * d]
    BY <2>3, PowersAre
  <2>4. pow2[w * (k + d)] = p * q
    <3>1. pow2[w * k + w * d] = pow2[w * k] * pow2[w * d]
      BY <2>2, <2>3, PowersAdd
    <3> QED
      BY <1>p, <2>2, <2>q, <3>1
  <2>5. Low(a, (k + d) + 1) = Low(a, k + d) + a[k + d] * pow2[w * (k + d)]
    BY <1>0, <2>1, LowIs
  <2>6. Low(a, (k + d) + 1) = (l + p * rest) + x * (p * q)
    BY <2>4, <2>5, <2>r, <2>x
  <2>7. (l + p * rest) + x * (p * q) = l + p * (rest + x * q) /\ rest + x * q \in Nat
    BY <1>0
  <2> QED
    BY <2>1, <2>6, <2>7
<1>3. Nat \subseteq G
  <2> HIDE DEF G
  <2> QED
    BY <1>1, <1>2, SetInduction
<1>d. PICK d \in Nat : k + d = i
  <2>1. i - k \in Nat /\ k + (i - k) = i
    BY <1>0
  <2> QED
    BY <2>1
<1>4. i <= size
  BY <1>0
<1> QED
  BY <1>3, <1>4, <1>d, <1>l, <1>p

\* A value seen from bit j: the words below, the word in question and the words above it.
LEMMA AroundBit ==
  ASSUME NEW a \in Array(Words, Word), NEW j \in 0..n-1,
         NEW d \in Nat, NEW m \in 0..pow2[j % w]-1, a[j \div w] = pow2[j % w] * d + m
  PROVE  \E u \in Nat : \E v \in 0..pow2[j]-1 : Value(a) = pow2[j] * (2 * u + d) + v
<1>c. PICK c \in Int : c = j \div w
  BY Position
<1>b. PICK b \in Int : b = j % w
  BY Position
<1>0. /\ c \in 0..Words-1 /\ b \in 0..w-1 /\ pow2[j] = pow2[w * c] * pow2[b]
      /\ pow2[j] \in Nat \ {0} /\ pow2[b] \in Nat \ {0} /\ pow2[w * c] \in Nat \ {0}
  BY <1>c, <1>b, Position
<1>w. Words \in Nat \ {0} /\ w \in Nat \ {0} /\ Words \in 0..2 * Words /\ Base \in Nat \ {0}
  BY WordsAre
<1>1. Value(a) = Low(a, Words) /\ a \in Array(Words, Int)
  <2>1. a \in Array(Words, Int)
    BY <1>0, <1>w DEF Array, Word
  <2> QED
    BY <1>w, <2>1, ValueIs
<1>pb. PICK pb \in Nat \ {0} : pb = pow2[b]
  BY <1>0
<1>p. PICK p \in Nat \ {0} : p = pow2[w * c]
  BY <1>0
<1>2. m \in Nat /\ m < pb /\ a[c] = pb * d + m
  BY <1>b, <1>c, <1>pb
<1>h. PICK h \in Nat \ {0} : Base = pb * (2 * h)
  BY <1>0, <1>pb, HalfWord
<1>l. PICK l \in Nat : l = Low(a, c) /\ l < p
  BY <1>0, <1>w, <1>p, LowBound
<1>4. Low(a, c + 1) = l + (pb * d + m) * p
  BY <1>0, <1>w, <1>1, <1>2, <1>l, <1>p, LowIs
<1>5. pow2[w * (c + 1)] = p * Base
  <2>1. c \in 0..2 * Words - 1
    BY <1>0, <1>w
  <2>2. pow2[w * (c + 1)] = pow2[w * c] * Base
    BY <2>1, WordsAre
  <2> QED
    BY <2>2, <1>p
<1>r. PICK rest \in Nat : Low(a, Words) = Low(a, c + 1) + pow2[w * (c + 1)] * rest
  <2>1. c + 1 \in 0..Words /\ Words \in (c + 1)..Words
    BY <1>0, <1>w
  <2> QED
    BY <1>w, <2>1, LowSplit
<1>6. Value(a) = l + (pb * d + m) * p + (p * (pb * (2 * h))) * rest
  BY <1>1, <1>4, <1>5, <1>h, <1>r
<1>7. l + (pb * d + m) * p + (p * (pb * (2 * h))) * rest
        = (p * pb) * (2 * (h * rest) + d) + (l + p * m)
  BY <1>2
<1>8. l + p * m \in Nat /\ l + p * m < p * pb
  <2>e. PICK e \in Nat : e = (pb - 1) - m
    BY <1>2
  <2>1. p * pb = p * m + p + p * e
    <3>1. pb = m + 1 + e
      BY <1>2, <2>e
    <3> QED
      BY <1>2, <3>1
  <2>2. p * e \in Nat /\ p * m \in Nat
    BY <1>2
  <2> QED
    BY <1>l, <2>1, <2>2
<1>9. pow2[j] = p * pb /\ h * rest \in Nat
  BY <1>0, <1>p, <1>pb
<1>u. PICK u \in Nat : u = h * rest
  BY <1>9
<1>v. PICK v \in Nat : v = l + p * m /\ v < p * pb
  BY <1>8
<1>10. Value(a) = pow2[j] * (2 * u + d) + v /\ v \in 0..pow2[j]-1
  BY <1>0, <1>6, <1>7, <1>9, <1>u, <1>v
<1> QED
  BY <1>10

-----------------------------------------------------------------------------
\* CHANGE_BIT.

\* One word of an array replaced.
Replace(a, k, y) == [a EXCEPT ![k] = y]

\* Replacing a word replaces its share of the value.
LEMMA ReplaceWord ==
  ASSUME NEW size \in 0..2 * Words, NEW a \in Array(size, Int), NEW k \in 0..size-1, NEW y \in Int,
         NEW r, r = Replace(a, k, y)
  PROVE  /\ r \in Array(size, Int) /\ r[k] = y /\ \A i \in 0..size-1 : i # k => r[i] = a[i]
         /\ Value(r) = Value(a) - a[k] * pow2[w * k] + y * pow2[w * k]
<1>1. r \in Array(size, Int) /\ r[k] = y /\ \A i \in 0..size-1 : i # k => r[i] = a[i]
  BY DEF Array, Replace
<1>s. PICK S : S = 0..size-1
  OBVIOUS
<1>k. PICK z : z = k
  OBVIOUS
<1>f. PICK f \in [S -> Int] : f = Weighted(a)
  BY <1>s, WeightedIs
<1>g. PICK g \in [S -> Int] : g = Weighted(r)
  BY <1>s, <1>1, WeightedIs
<1>2. IsFiniteSet(S) /\ z \in S
  BY <1>s, <1>k, WeightedIs
<1>v. ASSUME NEW i \in 0..size-1
      PROVE  f[i] = a[i] * pow2[w * i] /\ g[i] = r[i] * pow2[w * i]
  BY <1>f, <1>g, <1>1, WeightedIs
<1>3. ASSUME NEW i \in S, i # z PROVE g[i] = f[i]
  <2>1. i \in 0..size-1 /\ i # k
    BY <1>3, <1>s, <1>k
  <2> QED
    BY <1>1, <1>v, <2>1
<1>4. Total(g, S) = Total(f, S) - f[z] + g[z]
  <2>1. S \in SUBSET S
    OBVIOUS
  <2> QED
    BY <1>2, <1>3, <2>1, TotalChange
<1>5. f[z] = a[k] * pow2[w * k] /\ g[z] = y * pow2[w * k]
  BY <1>1, <1>v, <1>k
<1>6. Value(a) = Total(f, S) /\ Value(r) = Total(g, S)
  BY <1>1, <1>s, <1>f, <1>g, ValueIs DEF Low
<1> QED
  BY <1>1, <1>4, <1>5, <1>6

\* CHANGE_BIT: a bit that is clear is set, one that is set is cleared, no other changes.
LEMMA ChangeBit ==
  ASSUME NEW a \in Array(Words, Word), NEW j \in 0..n-1,
         NEW u \in Nat, NEW e \in 0..1, NEW v \in 0..pow2[j]-1,
         Value(a) = pow2[j] * (2 * u + e) + v,
         NEW r, r = CHANGE_BIT(a, j)
  PROVE  /\ r \in Array(Words, Word)
         /\ e = 0 => Value(r) = Value(a) + pow2[j]
         /\ e = 1 => Value(r) = Value(a) - pow2[j]
<1>c. PICK c \in Int : c = j \div w
  BY Position
<1>b. PICK b \in Int : b = j % w
  BY Position
<1>0. /\ c \in 0..Words-1 /\ b \in 0..w-1 /\ pow2[j] = pow2[w * c] * pow2[b]
      /\ pow2[j] \in Nat \ {0} /\ pow2[b] \in Nat \ {0} /\ pow2[w * c] \in Nat \ {0}
  BY <1>c, <1>b, Position
<1>pb. PICK pb \in Nat \ {0} : pb = pow2[b]
  BY <1>0
<1>p. PICK p \in Nat \ {0} : p = pow2[w * c]
  BY <1>0
<1>pj. PICK pj \in Nat \ {0} : pj = pow2[j]
  BY <1>0
<1>w. Words \in Nat \ {0} /\ w \in Nat \ {0} /\ Words \in 0..2 * Words /\ Base \in Nat \ {0}
  BY WordsAre
<1>h. PICK h \in Nat \ {0} : Base = pb * (2 * h)
  BY <1>0, <1>pb, HalfWord
<1>x. PICK x \in Nat : x = a[c] /\ x < Base
  <2>1. a[c] \in Word
    BY <1>0 DEF Array
  <2> QED
    BY <1>w, <2>1 DEF Word, Base
<1>d. PICK d \in Nat : d = x \div pb
  BY <1>x, DivideNat
<1>m. PICK m \in 0..pb-1 : m = x % pb
  BY <1>x, DivideNat
<1>1. x = pb * d + m
  BY <1>x, <1>d, <1>m, DivideNat
<1>o. PICK o \in Nat : \E t \in 0..pow2[j]-1 : Value(a) = pow2[j] * (2 * o + d) + t
  <2>1. m \in 0..pow2[j % w]-1 /\ a[j \div w] = pow2[j % w] * d + m
    BY <1>1, <1>x, <1>c, <1>b, <1>pb
  <2> QED
    BY <2>1, AroundBit
<1>t. PICK t \in 0..pj-1 : Value(a) = pj * (2 * o + d) + t
  BY <1>o, <1>pj
<1>3. 2 * u + e = 2 * o + d
  <2>1. Value(a) = pj * (2 * u + e) + v /\ v \in 0..pj-1
    BY <1>pj
  <2>q. PICK q \in Int : q = 2 * u + e
    OBVIOUS
  <2>s. PICK s2 \in Int : s2 = 2 * o + d
    OBVIOUS
  <2>V. PICK V \in Int : V = pj * q + v
    OBVIOUS
  <2>2. V = Value(a) /\ V = pj * s2 + t
    BY <1>t, <2>1, <2>q, <2>s, <2>V
  <2>3. V \div pj = q
    BY <2>1, <2>V, DivisionUnique
  <2>4. V \div pj = s2
    BY <2>2, DivisionUnique
  <2> QED
    BY <2>3, <2>4, <2>q, <2>s
<1>f. PICK f \in Nat : d = 2 * f + e
  <2>1. u - o \in Int /\ d = 2 * (u - o) + e
    BY <1>3
  <2>2. u - o \in Nat
    BY <2>1
  <2> QED
    BY <2>1, <2>2
<1>4. d % 2 = e
  BY <1>f
<1>y. PICK y \in Int : y = Flip(x, b)
  <2>1. Flip(x, b) \in Int
    BY <1>pb DEF Flip
  <2> QED
    BY <2>1
<1>5. y = IF e = 1 THEN x - pb ELSE x + pb
  <2>1. (x \div pow2[b]) % 2 = e
    BY <1>4, <1>d, <1>pb
  <2> QED
    BY <2>1, <1>y, <1>pb DEF Flip
<1>6. y \in 0..Base-1
  <2>1. CASE e = 1
    <3>1. pb * d = pb * (2 * f) + pb /\ pb * (2 * f) \in Nat
      BY <1>f, <2>1
    <3>2. x = pb * (2 * f) + pb + m /\ y = x - pb
      BY <1>1, <1>5, <2>1, <3>1
    <3> QED
      BY <1>w, <1>x, <3>1, <3>2
  <2>2. CASE e = 0
    <3>1. f < h
      <4> SUFFICES ASSUME f >= h PROVE FALSE
        OBVIOUS
      <4>g. PICK g \in Nat : g = f - h
        OBVIOUS
      <4>1. pb * d = pb * (2 * h) + pb * (2 * g) /\ pb * (2 * g) \in Nat
        BY <1>f, <2>2, <4>g
      <4> QED
        BY <1>1, <1>h, <1>x, <4>1
    <3>g. PICK g \in Nat : h = f + 1 + g
      <4>1. h - f - 1 \in Nat /\ h = f + 1 + (h - f - 1)
        BY <3>1
      <4> QED
        BY <4>1
    <3>2. pb * (2 * h) = pb * d + pb + pb + pb * (2 * g) /\ pb * (2 * g) \in Nat
      BY <1>f, <2>2, <3>g
    <3> QED
      BY <1>1, <1>h, <1>5, <1>x, <2>2, <3>2
  <2> QED
    BY <2>1, <2>2
<1>7. r = Replace(a, c, y)
  BY <1>0, <1>c, <1>b, <1>x, <1>y DEF CHANGE_BIT, Array, Replace
<1>8. a \in Array(Words, Int)
  BY <1>0, <1>w DEF Array, Word
<1>9. Value(r) = Value(a) - x * p + y * p
  BY <1>0, <1>w, <1>7, <1>8, <1>x, <1>p, ReplaceWord
<1>10. r \in Array(Words, Word)
  BY <1>0, <1>6, <1>7 DEF Array, Word, Base, Replace
<1>11. pj = p * pb /\ Value(a) \in Int
  BY <1>0, <1>p, <1>pb, <1>pj, <1>t
<1>12. e = 0 => y * p = x * p + p * pb
  BY <1>5
<1>13. e = 1 => y * p = x * p - p * pb
  BY <1>5
<1>14. x * p \in Int /\ y * p \in Int
  OBVIOUS
<1> QED
  BY <1>9, <1>10, <1>11, <1>12, <1>13, <1>14, <1>pj

-----------------------------------------------------------------------------
\* The shift.

\* Words that are 0 add nothing.
LEMMA LowRest ==
  ASSUME NEW size \in 0..2 * Words, NEW a \in Array(size, Int),
         NEW k \in 0..size, NEW i \in k..size,
         \A m \in k..i-1 : a[m] = 0
  PROVE  Low(a, i) = Low(a, k)
<1>0. size \in Nat
  BY WordsAre
<1> DEFINE G == {d \in Nat : k + d <= i => Low(a, k + d) = Low(a, k)}
<1>1. 0 \in G
  <2>1. k + 0 = k
    OBVIOUS
  <2> QED
    BY <2>1
<1>2. ASSUME NEW d \in Nat, d \in G PROVE d + 1 \in G
  <2> SUFFICES ASSUME k + (d + 1) <= i PROVE Low(a, k + (d + 1)) = Low(a, k)
    OBVIOUS
  <2>1. k + d \in 0..size-1 /\ k + d \in k..i-1 /\ k + (d + 1) = (k + d) + 1
    BY <1>0
  <2>2. Low(a, k + d) = Low(a, k) /\ Low(a, k + d) \in Int
    BY <1>0, <1>2, <2>1, LowIs
  <2>p. PICK p \in Int : p = pow2[w * (k + d)]
    BY <2>1, WeightedIs
  <2>3. Low(a, (k + d) + 1) = Low(a, k + d) + 0 * p
    BY <2>1, <2>p, LowIs
  <2> QED
    BY <2>1, <2>2, <2>3
<1>3. Nat \subseteq G
  <2> HIDE DEF G
  <2> QED
    BY <1>1, <1>2, SetInduction
<1>d. PICK d \in Nat : k + d = i
  <2>1. i - k \in Nat /\ k + (i - k) = i
    BY <1>0
  <2> QED
    BY <2>1
<1>4. k + d <= i
  BY <1>0, <1>d
<1> QED
  BY <1>3, <1>4, <1>d

\* Where the words of T begin, and by how much Q is shifted in them.
Offset(bit) == (bit + 1) % w

\* The shift of T: whole words, and bits within a word, which together make bit + 1 bits.
\* With words of one bit the last pass would shift by a whole word and never look at
\* word 0, where FIND_VALUE puts the 4^0 (WordAssumption rules such words out).
LEMMA ShiftIs ==
  ASSUME NEW bit \in 0..n-1
  PROVE  /\ Lowest(bit) \in 0..Words /\ Offset(bit) \in 0..w-1
         /\ Lowest(bit) = Words => Offset(bit) = 0
         /\ bit = 0 => Lowest(bit) = 0 /\ Offset(bit) = 1
         /\ pow2[Offset(bit)] \in Nat \ {0} /\ pow2[w - Offset(bit)] \in Nat \ {0}
         /\ pow2[Offset(bit)] * pow2[w - Offset(bit)] = Base
         /\ pow2[w * Lowest(bit)] \in Nat \ {0}
         /\ pow2[bit + 1] = pow2[w * Lowest(bit)] * pow2[Offset(bit)]
<1>0. /\ w \in Nat \ {0} /\ Words \in Nat \ {0} /\ w * Words = n /\ n \in Nat \ {0} /\ w <= n
      /\ w > 1
  BY WordsAre, PowersAre, WordAssumption DEF WordAssumption
<1>k. PICK k \in Nat : k = Words
  BY <1>0
<1>j. PICK j \in Nat : j = bit + 1 /\ j <= n
  BY <1>0
<1>l. PICK l \in Nat : l = Lowest(bit) /\ l = j \div w
  BY <1>0, <1>j, DivideNat DEF Lowest
<1>o. PICK o \in 0..w-1 : o = Offset(bit) /\ o = j % w
  BY <1>0, <1>j, DivideNat DEF Offset
<1>1. j = w * l + o
  BY <1>0, <1>l, <1>o, DivideNat
<1>2. l <= k /\ (l = k => o = 0)
  <2>1. CASE l > k
    <3>d. PICK d \in Nat : d = l - k /\ d > 0
      BY <2>1
    <3>1. w * d >= w /\ w * d \in Nat
      BY <1>0, <3>d, ProductGrows
    <3>2. w * l = w * k + w * d
      BY <1>0, <3>d
    <3> QED
      BY <1>0, <1>1, <1>j, <1>k, <3>1, <3>2
  <2>2. CASE l = k
    BY <1>0, <1>1, <1>j, <1>k, <2>2
  <2>3. CASE l < k
    BY <2>3
  <2> QED
    BY <2>1, <2>2, <2>3
<1>3. bit = 0 => l = 0 /\ o = 1
  <2> SUFFICES ASSUME bit = 0 PROVE l = 0 /\ o = 1
    OBVIOUS
  <2>1. j = w * 0 + 1 /\ 1 \in 0..w-1
    BY <1>0, <1>j
  <2>2. j \div w = 0 /\ j % w = 1
    BY <1>0, <2>1, DivisionUnique
  <2> QED
    BY <1>l, <1>o, <2>2
<1>y. PICK y \in Nat : y = w * l
  BY <1>0
<1>4. /\ y + o = j /\ y \in 0..2 * n /\ o \in 0..2 * n /\ w - o \in 0..2 * n /\ y + o <= 2 * n
      /\ o + (w - o) = w /\ o + (w - o) <= 2 * n /\ o \in Nat /\ w - o \in Nat
  BY <1>0, <1>1, <1>j, <1>y
<1>5. pow2[y + o] = pow2[y] * pow2[o]
  BY <1>4, PowersAdd
<1>6. pow2[o + (w - o)] = pow2[o] * pow2[w - o]
  BY <1>4, PowersAdd
<1>7. pow2[y] \in Nat \ {0} /\ pow2[o] \in Nat \ {0} /\ pow2[w - o] \in Nat \ {0}
  BY <1>4, PowersAre
<1>8. /\ pow2[Offset(bit)] \in Nat \ {0} /\ pow2[w - Offset(bit)] \in Nat \ {0}
      /\ pow2[Offset(bit)] * pow2[w - Offset(bit)] = Base
  BY <1>4, <1>6, <1>7, <1>o DEF Base
<1>9. /\ pow2[w * Lowest(bit)] \in Nat \ {0}
      /\ pow2[bit + 1] = pow2[w * Lowest(bit)] * pow2[Offset(bit)]
  BY <1>4, <1>5, <1>7, <1>y, <1>l, <1>o, <1>j
<1>10. Lowest(bit) \in 0..Words /\ Offset(bit) \in 0..w-1
  BY <1>0, <1>2, <1>k, <1>l, <1>o
<1> QED
  BY <1>2, <1>3, <1>8, <1>9, <1>10, <1>k, <1>l, <1>o

\* A word shifted left within its bits, with what comes in from below.
LEMMA ShiftWord ==
  ASSUME NEW up \in Nat \ {0}, NEW down \in Nat \ {0}, NEW x \in 0..up*down-1, NEW c \in 0..up-1
  PROVE  /\ x \div down \in 0..up-1
         /\ (x * up + c) % (up * down) \in 0..up*down-1
         /\ (x * up + c) % (up * down) = x * up + c - (x \div down) * (up * down)
<1>0. up * down \in Nat \ {0} /\ x \in Nat /\ x < up * down
  BY ProductGrows
<1>d. PICK d \in Nat : d = x \div down
  BY <1>0, DivideNat
<1>m. PICK m \in 0..down-1 : m = x % down
  BY <1>0, DivideNat
<1>1. x = down * d + m
  BY <1>0, <1>d, <1>m, DivideNat
<1>2. d < up
  <2> SUFFICES ASSUME d >= up PROVE FALSE
    OBVIOUS
  <2>e. PICK e \in Nat : e = d - up
    OBVIOUS
  <2>1. down * d = up * down + down * e /\ down * e \in Nat
    BY <2>e
  <2> QED
    BY <1>0, <1>1, <2>1
<1>r. PICK r \in Int : r = m * up + c
  OBVIOUS
<1>b. PICK b \in Nat \ {0} : b = up * down
  BY <1>0
<1>3. r \in 0..b-1
  <2>e. PICK e \in Nat : e = (down - 1) - m
    OBVIOUS
  <2>1. m * up \in Nat /\ e * up \in Nat /\ up * down = m * up + up + e * up
    <3>1. down = m + 1 + e
      BY <2>e
    <3> QED
      BY <3>1
  <2> QED
    BY <1>r, <1>b, <2>1
<1>z. PICK z \in Int : z = x * up + c
  BY <1>0
<1>4. z = b * d + r
  <2>1. x * up = (up * down) * d + m * up
    BY <1>1
  <2> QED
    BY <1>z, <1>b, <1>r, <2>1
<1>5. z % b = r
  BY <1>3, <1>4, DivisionUnique
<1>6. r = x * up + c - d * (up * down)
  <2>1. d * (up * down) = b * d /\ b * d \in Int
    BY <1>b
  <2> QED
    BY <1>4, <1>z, <2>1
<1> QED
  BY <1>2, <1>3, <1>5, <1>6, <1>b, <1>d, <1>z

-----------------------------------------------------------------------------
\* FIND_VALUE.

\* T as an array, and Q with zeros above it.
Term(q, bit) == [i \in 0..2 * Words - 1 |-> FIND_VALUE(q, bit, i)]
Padded(q) == [i \in 0..2 * Words - 1 |-> IF i < Words THEN q[i] ELSE 0]

\* What word m of Q receives from the word below it.
FromBelow(e, bit, m) == IF m = 0 THEN 0 ELSE e[m - 1] \div pow2[w - Offset(bit)]

\* The 4^0 of the last bit.
One(bit) == IF bit = 0 THEN 1 ELSE 0

\* Q with zeros above it is an array of words.
LEMMA PaddedIs ==
  ASSUME NEW q \in Array(Words, Word)
  PROVE  /\ Padded(q) \in Array(2 * Words, Word) /\ 2 * Words \in 0..2 * Words
         /\ \A i \in 0..Words-1 : Padded(q)[i] = q[i]
         /\ \A i \in Words..2*Words-1 : Padded(q)[i] = 0
<1>0. Words \in Nat \ {0} /\ Base \in Nat \ {0} /\ 0 \in Word
  BY WordsAre DEF Word, Base
<1> QED
  BY <1>0 DEF Padded, Array

\* FIND_VALUE shifts Q by bit + 1 bits.
LEMMA FindValueIs ==
  ASSUME NEW q \in Array(Words, Word), NEW bit \in 0..n-1, NEW i \in 0..2 * Words - 1,
         NEW m \in Int, m = i - Lowest(bit)
  PROVE  /\ m < 0 => FIND_VALUE(q, bit, i) = 0
         /\ m >= 0 => /\ m \in 0..2 * Words - 1
                      /\ Padded(q)[m] \in 0..Base-1
                      /\ FromBelow(Padded(q), bit, m) \in 0..pow2[Offset(bit)]-1
                      /\ FIND_VALUE(q, bit, i) =
                           LET t == (Padded(q)[m] * pow2[Offset(bit)]
                                       + FromBelow(Padded(q), bit, m)) % Base
                           IN  IF bit = 0 /\ i = 0 THEN (t + 1) % Base ELSE t
<1>0. Words \in Nat \ {0} /\ Base \in Nat \ {0} /\ DOMAIN q = 0..Words-1 /\ w \in Nat \ {0}
  BY WordsAre DEF Array
<1>l. PICK l \in Nat : l = Lowest(bit) /\ l <= Words
  BY <1>0, ShiftIs
<1>o. PICK o \in Nat : o = Offset(bit) /\ o = (bit + 1) % w /\ o < w
  <2>1. Offset(bit) \in 0..w-1
    BY ShiftIs
  <2>2. Offset(bit) = (bit + 1) % w
    BY DEF Offset
  <2> QED
    BY <1>0, <2>1, <2>2
<1>up. PICK up \in Nat \ {0} : up = pow2[o]
  BY <1>o, ShiftIs
<1>dn. PICK down \in Nat \ {0} : down = pow2[w - o]
  BY <1>o, ShiftIs
<1>1. up * down = Base /\ (bit = 0 => l = 0)
  BY <1>l, <1>o, <1>up, <1>dn, ShiftIs
<1>e. PICK e : e = Padded(q)
  OBVIOUS
<1>2. /\ \A k \in 0..2*Words-1 : e[k] \in 0..Base-1
      /\ \A k \in 0..Words-1 : e[k] = q[k]
      /\ \A k \in Words..2*Words-1 : e[k] = 0
  BY <1>e, <1>0, PaddedIs DEF Array, Word, Base
<1> DEFINE At(k) == IF k \in DOMAIN q THEN q[k] ELSE 0
<1>3. ASSUME NEW k \in Int, k < 2 * Words PROVE At(k) = IF k >= 0 THEN e[k] ELSE 0
  <2>1. CASE k < 0
    BY <1>0, <2>1
  <2>2. CASE k >= 0 /\ k < Words
    BY <1>0, <1>2, <2>2
  <2>3. CASE k >= Words
    BY <1>0, <1>2, <1>3, <2>3
  <2> QED
    BY <1>0, <2>1, <2>2, <2>3
<1> DEFINE s(k) == IF o = 0 THEN At(k)
                   ELSE (At(k) * pow2[o] + At(k - 1) \div pow2[w - o]) % Base
<1>4. FIND_VALUE(q, bit, i) = IF bit = 0 /\ i = 0 THEN (s(m) + 1) % Base ELSE s(m)
  BY <1>o DEF FIND_VALUE, Base
<1>5. At(m) = (IF m >= 0 THEN e[m] ELSE 0) /\ At(m - 1) = IF m >= 1 THEN e[m - 1] ELSE 0
  <2>1. m < 2 * Words /\ m - 1 < 2 * Words /\ m - 1 \in Int
    BY <1>0, <1>l
  <2>2. At(m) = IF m >= 0 THEN e[m] ELSE 0
    BY <1>3, <2>1
  <2>3. At(m - 1) = IF m - 1 >= 0 THEN e[m - 1] ELSE 0
    BY <1>3, <2>1
  <2> QED
    BY <2>2, <2>3
<1>6. 0 % Base = 0 /\ 0 \div down = 0
  <2>1. 0 = Base * 0 + 0 /\ 0 = down * 0 + 0
    BY <1>0
  <2> QED
    BY <1>0, <2>1, DivisionUnique
<1>a. PICK a \in Nat : a = At(m) /\ a < Base
  <2>1. m >= 0 => e[m] \in 0..Base-1
    BY <1>2, <1>0, <1>l
  <2> QED
    BY <1>0, <1>5, <2>1
<1>b. PICK b \in Nat : b = At(m - 1) /\ b < Base
  <2>1. m >= 1 => e[m - 1] \in 0..Base-1
    BY <1>2, <1>0, <1>l
  <2> QED
    BY <1>0, <1>5, <2>1
<1>7. s(m) = IF o = 0 THEN a ELSE (a * up + b \div down) % Base
  BY <1>a, <1>b, <1>up, <1>dn
<1>c. PICK c \in 0..up-1 : c = b \div down
  <2>1. b \in 0..up*down-1 /\ 0 \in 0..up-1
    BY <1>b, <1>1
  <2> QED
    BY <2>1, ShiftWord
<1>8. s(m) = (a * up + c) % Base
  <2>1. CASE o = 0
    <3>1. up = 1 /\ c = 0
      BY <1>up, <2>1, PowersAre
    <3>z. PICK z \in Int : z = a * up + c
      OBVIOUS
    <3>d. PICK d \in Int : d = 0
      OBVIOUS
    <3>2. z = Base * d + a /\ a \in 0..Base-1
      BY <1>0, <1>a, <3>1, <3>d, <3>z
    <3>3. z % Base = a
      BY <1>0, <3>2, DivisionUnique
    <3> QED
      BY <1>7, <2>1, <3>3, <3>z
  <2>2. CASE o # 0
    BY <1>7, <1>c, <2>2
  <2> QED
    BY <2>1, <2>2
<1> HIDE DEF At, s
<1>9. CASE m < 0
  <2>1. a = 0 /\ b = 0 /\ c = 0 /\ a * up + c = 0
    BY <1>5, <1>6, <1>9, <1>a, <1>b, <1>c
  <2>2. s(m) = 0
    BY <1>6, <1>8, <2>1
  <2>3. ~(bit = 0 /\ i = 0)
    BY <1>1, <1>9, <1>l
  <2> QED
    BY <1>4, <1>9, <2>2, <2>3
<1>10. CASE m >= 0
  <2>1. m \in 0..2 * Words - 1 /\ a = Padded(q)[m] /\ a \in 0..Base-1
    BY <1>0, <1>l, <1>10, <1>5, <1>a, <1>e
  <2>2. FromBelow(Padded(q), bit, m) = c
    <3>1. CASE m = 0
      <4>1. b = 0 /\ c = 0
        BY <1>5, <1>6, <1>b, <1>c, <3>1
      <4> QED
        BY <3>1, <4>1 DEF FromBelow
    <3>2. CASE m >= 1
      BY <1>5, <1>b, <1>c, <1>e, <1>dn, <1>o, <3>2 DEF FromBelow
    <3> QED
      BY <1>10, <3>1, <3>2
  <2>3. pow2[Offset(bit)] = up
    BY <1>o, <1>up
  <2> QED
    BY <1>4, <1>8, <1>10, <2>1, <2>2, <2>3
<1> QED
  BY <1>9, <1>10

\* A word of T: that of Q shifted, less what goes to the word above.
LEMMA TermWord ==
  ASSUME NEW q \in Array(Words, Word), NEW bit \in 0..n-1,
         NEW m \in 0..2 * Words - 1 - Lowest(bit), NEW i \in Int, i = Lowest(bit) + m
  PROVE  /\ i \in 0..2 * Words - 1 /\ FIND_VALUE(q, bit, i) \in Word
         /\ Padded(q)[m] \in 0..Base-1
         /\ FromBelow(Padded(q), bit, m) \in Nat /\ FromBelow(Padded(q), bit, m + 1) \in Nat
         /\ FIND_VALUE(q, bit, i) =
              Padded(q)[m] * pow2[Offset(bit)] + FromBelow(Padded(q), bit, m)
                - FromBelow(Padded(q), bit, m + 1) * Base + (IF m = 0 THEN One(bit) ELSE 0)
<1>0. Words \in Nat \ {0} /\ Base \in Nat \ {0}
  BY WordsAre
<1>l. PICK l \in Nat : l = Lowest(bit) /\ l <= Words
  BY <1>0, ShiftIs
<1>o. PICK o \in Nat : o = Offset(bit)
  BY ShiftIs
<1>up. PICK up \in Nat \ {0} : up = pow2[o]
  BY <1>o, ShiftIs
<1>dn. PICK down \in Nat \ {0} : down = pow2[w - o]
  BY <1>o, ShiftIs
<1>b. PICK b \in Nat \ {0} : b = Base
  BY <1>0
<1>1. up * down = b /\ (bit = 0 => l = 0 /\ o = 1)
  BY <1>l, <1>o, <1>up, <1>dn, <1>b, ShiftIs
<1>2. i \in 0..2 * Words - 1 /\ m = i - Lowest(bit) /\ m >= 0 /\ m \in Int /\ i = l + m
  BY <1>0, <1>l
<1>x. PICK x \in 0..b-1 : x = Padded(q)[m]
  BY <1>2, <1>b, FindValueIs
<1>c. PICK c \in 0..up-1 : c = FromBelow(Padded(q), bit, m)
  BY <1>2, <1>up, <1>o, FindValueIs
<1>t. PICK t \in Int : t = (x * up + c) % b
  BY <1>1, ShiftWord
<1>3. FIND_VALUE(q, bit, i) = IF bit = 0 /\ i = 0 THEN (t + 1) % b ELSE t
  BY <1>2, <1>b, <1>x, <1>c, <1>t, <1>up, <1>o, FindValueIs
<1>d. PICK d \in 0..up-1 : d = x \div down
  BY <1>1, ShiftWord
<1>4. FromBelow(Padded(q), bit, m + 1) = d
  BY <1>2, <1>x, <1>d, <1>dn, <1>o DEF FromBelow
<1>5. t \in 0..b-1 /\ t = x * up + c - d * b
  <2>1. x \in 0..up*down-1
    BY <1>1
  <2>2. /\ (x * up + c) % (up * down) \in 0..up*down-1
        /\ (x * up + c) % (up * down) = x * up + c - (x \div down) * (up * down)
    BY <2>1, ShiftWord
  <2>3. (x * up + c) % (up * down) = t
    BY <1>1, <1>t
  <2>4. t \in 0..up*down-1 /\ t = x * up + c - d * (up * down)
    BY <1>d, <2>2, <2>3
  <2> QED
    BY <1>1, <2>4
<1>6. CASE ~(bit = 0 /\ i = 0)
  <2>1. ~(m = 0 /\ bit = 0)
    BY <1>1, <1>2, <1>6
  <2>2. (IF m = 0 THEN One(bit) ELSE 0) = 0
    BY <2>1 DEF One
  <2>3. FIND_VALUE(q, bit, i) = t
    BY <1>3, <1>6
  <2>4. t \in Word /\ t = (x * up + c - d * b) + 0
    BY <1>5, <1>b DEF Word, Base
  <2> QED
    BY <1>2, <1>4, <2>2, <2>3, <2>4, <1>b, <1>c, <1>o, <1>up, <1>x
<1>7. CASE bit = 0 /\ i = 0
  <2>1. m = 0 /\ o = 1
    BY <1>1, <1>2, <1>7
  <2>2. c = 0
    BY <2>1, <1>c DEF FromBelow
  <2>3. up = 2
    <3>1. 0 \in 0..2 * n - 1 /\ 0 + 1 = 1
      BY PowersAre
    <3>2. pow2[0 + 1] = 2 * pow2[0]
      BY <3>1, PowersAre
    <3> QED
      BY <2>1, <1>up, <3>1, <3>2, PowersAre
  <2>4. t = 2 * (x - d * down)
    BY <1>1, <1>5, <2>2, <2>3
  <2>e. PICK e \in Int : e = x - d * down
    OBVIOUS
  <2>5. t + 1 \in 0..b-1
    BY <1>1, <1>5, <2>3, <2>4, <2>e
  <2>z. PICK z \in Int : z = t + 1
    OBVIOUS
  <2>6. z % b = z
    BY <2>5, <2>z, SmallRemainder
  <2>7. FIND_VALUE(q, bit, i) = t + 1
    BY <1>3, <1>7, <2>6, <2>z
  <2>8. (IF m = 0 THEN One(bit) ELSE 0) = 1
    BY <1>7, <2>1 DEF One
  <2>9. t + 1 \in Word /\ t + 1 = (x * up + c - d * b) + 1
    BY <1>5, <1>b, <2>5 DEF Word, Base
  <2> QED
    BY <1>2, <1>4, <2>7, <2>8, <2>9, <1>b, <1>c, <1>o, <1>up, <1>x
<1> QED
  BY <1>6, <1>7

\* T is an array of words; those below the lowest one are 0.
LEMMA TermTyped ==
  ASSUME NEW q \in Array(Words, Word), NEW bit \in 0..n-1
  PROVE  /\ Term(q, bit) \in Array(2 * Words, Word)
         /\ \A i \in 0..2 * Words - 1 : Term(q, bit)[i] = FIND_VALUE(q, bit, i)
         /\ \A i \in 0..Lowest(bit)-1 : Term(q, bit)[i] = 0
<1>0. Words \in Nat \ {0} /\ Base \in Nat \ {0} /\ 0 \in Word
  BY WordsAre DEF Word, Base
<1>l. PICK l \in Nat : l = Lowest(bit) /\ l <= Words
  BY <1>0, ShiftIs
<1>1. ASSUME NEW i \in 0..2 * Words - 1
      PROVE  FIND_VALUE(q, bit, i) \in Word /\ (i < l => FIND_VALUE(q, bit, i) = 0)
  <2>m. PICK m \in Int : m = i - Lowest(bit)
    BY <1>l
  <2>1. CASE m < 0
    BY <1>0, <2>m, <2>1, FindValueIs
  <2>2. CASE m >= 0
    <3>1. m \in 0..2 * Words - 1 - Lowest(bit) /\ i = Lowest(bit) + m /\ i \in Int
      BY <1>0, <1>l, <2>m, <2>2
    <3>2. FIND_VALUE(q, bit, i) \in Word
      BY <3>1, TermWord
    <3> QED
      BY <1>l, <2>m, <2>2, <3>2
  <2> QED
    BY <2>1, <2>2
<1>2. Term(q, bit) \in Array(2 * Words, Word)
  BY <1>1 DEF Term, Array
<1>3. \A i \in 0..2 * Words - 1 : Term(q, bit)[i] = FIND_VALUE(q, bit, i)
  BY DEF Term
<1>4. \A i \in 0..l-1 : i \in 0..2 * Words - 1
  BY <1>0, <1>l
<1> QED
  BY <1>1, <1>2, <1>3, <1>4, <1>l

\* The first words of T.
LEMMA TermLow ==
  ASSUME NEW q \in Array(Words, Word), NEW bit \in 0..n-1,
         NEW m \in 0..2 * Words - Lowest(bit), m > 0
  PROVE  /\ FromBelow(Padded(q), bit, m) \in Nat
         /\ Low(Term(q, bit), Lowest(bit) + m) =
           pow2[w * Lowest(bit)] *
             (pow2[Offset(bit)] * Low(Padded(q), m) - FromBelow(Padded(q), bit, m) * pow2[w * m])
             + One(bit)
<1>0. /\ Words \in Nat \ {0} /\ Base \in Nat \ {0} /\ w \in Nat \ {0} /\ n \in Nat \ {0}
      /\ 2 * Words \in 0..2 * Words
  BY WordsAre, PowersAre
<1>k. PICK k \in Nat : k = 2 * Words
  BY <1>0
<1>l. PICK l \in Nat : l = Lowest(bit) /\ l <= k
  BY <1>0, <1>k, ShiftIs
<1>o. PICK o \in Nat : o = Offset(bit)
  BY ShiftIs
<1>up. PICK up \in Nat \ {0} : up = pow2[o]
  BY <1>o, ShiftIs
<1>pl. PICK pl \in Nat \ {0} : pl = pow2[w * l]
  BY <1>l, ShiftIs
<1>e. PICK e : e = Padded(q)
  OBVIOUS
<1>t. PICK t : t = Term(q, bit)
  OBVIOUS
<1>1. e \in Array(k, Int) /\ t \in Array(k, Int)
  <2>1. e \in Array(k, Word) /\ t \in Array(k, Word)
    BY <1>e, <1>t, <1>k, PaddedIs, TermTyped
  <2>2. Word \subseteq Int
    BY <1>0 DEF Word, Base
  <2> QED
    BY <2>1, <2>2 DEF Array
<1>2. ASSUME NEW i \in 0..k PROVE Low(e, i) \in Int /\ Low(t, i) \in Int
  BY <1>0, <1>1, <1>k, LowIs
<1>3. Low(t, l) = 0
  <2>1. \A i \in 0..l-1 : t[i] = 0
    BY <1>l, <1>t, TermTyped
  <2>2. Low(t, l) = Low(t, 0)
    <3>1. 0 \in 0..k /\ l \in 0..k
      BY <1>l
    <3> QED
      BY <1>0, <1>1, <1>k, <2>1, <3>1, LowRest
  <2>3. Low(t, 0) = 0
    BY <1>0, <1>1, <1>k, LowIs
  <2> QED
    BY <2>2, <2>3
<1> DEFINE C(i) == FromBelow(e, bit, i)
<1> DEFINE G == {i \in Nat : l + i + 1 <= k =>
                   /\ C(i + 1) \in Nat
                   /\ Low(t, l + (i + 1)) =
                        pl * (up * Low(e, i + 1) - C(i + 1) * pow2[w * (i + 1)]) + One(bit)}
<1>4. ASSUME NEW i \in Nat, l + i + 1 <= k
      PROVE  /\ l + i \in 0..k-1 /\ i \in 0..k-1 /\ l + (i + 1) = (l + i) + 1
             /\ e[i] \in Nat /\ C(i) \in Nat /\ C(i + 1) \in Nat
             /\ pow2[w * i] \in Nat \ {0} /\ pow2[w * (i + 1)] = pow2[w * i] * Base
             /\ pow2[w * (l + i)] = pl * pow2[w * i]
             /\ t[l + i] = e[i] * up + C(i) - C(i + 1) * Base + (IF i = 0 THEN One(bit) ELSE 0)
             /\ Low(t, (l + i) + 1) = Low(t, l + i) + t[l + i] * pow2[w * (l + i)]
             /\ Low(e, i + 1) = Low(e, i) + e[i] * pow2[w * i]
  <2>1. l + i \in 0..k-1 /\ i \in 0..k-1 /\ l + (i + 1) = (l + i) + 1
    BY <1>4
  <2>2. i \in 0..2 * Words - 1 - Lowest(bit) /\ l + i \in Int
    BY <1>4, <1>0, <1>k, <1>l
  <2>j. PICK j \in Int : j = l + i
    BY <2>2
  <2>3. /\ FIND_VALUE(q, bit, j) \in Word /\ e[i] \in 0..Base-1 /\ C(i) \in Nat /\ C(i + 1) \in Nat
        /\ FIND_VALUE(q, bit, j) = e[i] * up + C(i) - C(i + 1) * Base
                                        + (IF i = 0 THEN One(bit) ELSE 0)
    BY <2>2, <2>j, <1>l, <1>o, <1>up, <1>e, TermWord
  <2>4. t[l + i] = FIND_VALUE(q, bit, j)
    BY <1>t, <1>k, <2>1, <2>j, TermTyped
  <2>5. /\ Low(t, (l + i) + 1) = Low(t, l + i) + t[l + i] * pow2[w * (l + i)]
        /\ Low(e, i + 1) = Low(e, i) + e[i] * pow2[w * i]
    BY <1>0, <1>1, <1>k, <2>1, LowIs
  <2>6. pow2[w * (i + 1)] = pow2[w * i] * Base
    BY <1>k, <2>1, WordsAre
  <2>7. w * i \in 0..2 * n /\ w * (l + i) \in 0..2 * n
    BY <1>k, <2>1, WordsAre
  <2>x. PICK x \in Nat : x = w * i
    BY <2>7
  <2>y. PICK y \in Nat : y = w * l
    BY <1>0
  <2>8. y + x = w * (l + i)
    BY <1>0, <2>x, <2>y
  <2>9. pow2[y + x] = pow2[y] * pow2[x] /\ pow2[x] \in Nat \ {0}
    <3>1. y + x <= 2 * n /\ x \in 0..2 * n
      BY <1>0, <2>7, <2>8, <2>x
    <3> QED
      BY <3>1, PowersAdd, PowersAre
  <2>10. pow2[w * (l + i)] = pl * pow2[w * i] /\ pow2[w * i] \in Nat \ {0}
    BY <1>pl, <2>8, <2>9, <2>x, <2>y
  <2>11. e[i] \in Nat
    BY <1>0, <2>3
  <2> QED
    BY <2>1, <2>3, <2>4, <2>5, <2>6, <2>10, <2>11
<1> HIDE DEF C
<1>u. PICK u \in 0..1 : u = One(bit)
  BY DEF One
<1>p. \A i \in Nat : C(i) = FromBelow(e, bit, i)
  BY DEF C
<1>5. 0 \in G
  <2> SUFFICES ASSUME l + 0 + 1 <= k
               PROVE  /\ C(0 + 1) \in Nat
                      /\ Low(t, l + (0 + 1)) =
                           pl * (up * Low(e, 0 + 1) - C(0 + 1) * pow2[w * (0 + 1)]) + One(bit)
    OBVIOUS
  <2>i. PICK i \in Nat : i = 0
    OBVIOUS
  <2>1. l + i + 1 <= k
    BY <2>i
  <2>2. C(i) = 0
    BY <1>p, <2>i DEF FromBelow
  <2>3. Low(t, l + i) = 0 /\ Low(e, i) = 0
    <3>1. l + i = l
      BY <2>i
    <3> QED
      BY <1>0, <1>1, <1>3, <1>k, <2>i, <3>1, LowIs
  <2>p. PICK p \in Nat \ {0} : p = pow2[w * i]
    BY <1>4, <2>1
  <2>q. pow2[w * i] = 1
    <3>1. w * i = 0
      BY <1>0, <2>i
    <3> QED
      BY <3>1, PowersAre
  <2>x. PICK x \in Nat : x = e[i]
    BY <1>4, <2>1
  <2>c. PICK c \in Nat : c = C(i + 1)
    BY <1>4, <2>1
  <2>b. PICK b \in Nat : b = Base
    BY <1>0
  <2>4. Low(t, l + (i + 1)) = (x * up + 0 - c * b + u) * (pl * 1)
    <3>1. pow2[w * (l + i)] = pl * 1
      BY <1>4, <2>1, <2>q
    <3>2. t[l + i] = x * up + 0 - c * b + u
      BY <1>4, <1>u, <2>1, <2>2, <2>i, <2>x, <2>c, <2>b
    <3>3. Low(t, l + (i + 1)) = 0 + t[l + i] * pow2[w * (l + i)]
      BY <1>4, <2>1, <2>3
    <3> QED
      BY <3>1, <3>2, <3>3
  <2>5. Low(e, i + 1) = x /\ pow2[w * (i + 1)] = b
    BY <1>4, <2>1, <2>3, <2>q, <2>x, <2>b
  <2>6. u = 1 => pl = 1
    <3>1. u = 1 => bit = 0
      BY <1>u DEF One
    <3>2. bit = 0 => l = 0
      BY <1>l, ShiftIs
    <3>3. l = 0 => w * l = 0
      BY <1>0
    <3> QED
      BY <3>1, <3>2, <3>3, <1>pl, PowersAre
  <2>7. (x * up + 0 - c * b + u) * (pl * 1) = pl * (up * x - c * b) + u
    <3>1. CASE u = 1
      BY <2>6, <3>1
    <3>2. CASE u = 0
      BY <3>2
    <3> QED
      BY <3>1, <3>2
  <2> QED
    BY <2>4, <2>5, <2>7, <1>u, <2>c, <2>i
<1>6. ASSUME NEW i0 \in Nat, i0 \in G PROVE i0 + 1 \in G
  <2>i. PICK i \in Nat : i = i0 + 1
    OBVIOUS
  <2> SUFFICES ASSUME l + i + 1 <= k
               PROVE  /\ C(i + 1) \in Nat
                      /\ Low(t, l + (i + 1)) =
                           pl * (up * Low(e, i + 1) - C(i + 1) * pow2[w * (i + 1)]) + One(bit)
    BY <2>i
  <2>1. Low(t, l + i) = pl * (up * Low(e, i) - C(i) * pow2[w * i]) + u
    BY <1>6, <1>u, <2>i
  <2>p. PICK p \in Nat \ {0} : p = pow2[w * i]
    BY <1>4
  <2>x. PICK x \in Nat : x = e[i]
    BY <1>4
  <2>c. PICK c \in Nat : c = C(i + 1)
    BY <1>4
  <2>d. PICK d \in Nat : d = C(i)
    BY <1>4
  <2>b. PICK b \in Nat : b = Base
    BY <1>0
  <2>v. PICK v \in Int : v = Low(e, i)
    <3>1. i \in 0..k
      BY <1>4
    <3> QED
      BY <1>2, <3>1
  <2>2. t[l + i] = x * up + d - c * b
    BY <1>4, <2>i, <2>x, <2>c, <2>d, <2>b
  <2>3. Low(t, l + (i + 1)) = pl * (up * v - d * p) + u + (x * up + d - c * b) * (pl * p)
    BY <1>4, <2>1, <2>2, <2>v, <2>d, <2>p
  <2>4. Low(e, i + 1) = v + x * p /\ pow2[w * (i + 1)] = p * b
    BY <1>4, <2>v, <2>x, <2>p, <2>b
  <2>5. pl * (up * v - d * p) + u + (x * up + d - c * b) * (pl * p)
          = pl * (up * (v + x * p) - c * (p * b)) + u
    OBVIOUS
  <2> QED
    BY <2>3, <2>4, <2>5, <1>u, <2>c
<1>7. Nat \subseteq G
  <2> HIDE DEF G
  <2> QED
    BY <1>5, <1>6, SetInduction
<1>i. PICK i \in Nat : i + 1 = m /\ l + i + 1 <= k
  <2>1. m - 1 \in Nat /\ (m - 1) + 1 = m /\ l + (m - 1) + 1 <= k
    BY <1>0, <1>k, <1>l
  <2> QED
    BY <2>1
<1>8. /\ C(m) \in Nat
      /\ Low(t, l + m) = pl * (up * Low(e, m) - C(m) * pow2[w * m]) + One(bit)
  BY <1>7, <1>i
<1>9. C(m) = FromBelow(e, bit, m)
  BY <1>p, <1>i
<1> QED
  BY <1>8, <1>9, <1>e, <1>t, <1>l, <1>o, <1>up, <1>pl

\* Equal words, equal values.
LEMMA LowSame ==
  ASSUME NEW s1 \in 0..2 * Words, NEW a \in Array(s1, Int),
         NEW s2 \in 0..2 * Words, NEW b \in Array(s2, Int),
         NEW k \in 0..s1, k <= s2, \A i \in 0..k-1 : a[i] = b[i]
  PROVE  Low(a, k) = Low(b, k)
<1>0. s1 \in Nat /\ s2 \in Nat
  BY WordsAre
<1> DEFINE G == {i \in Nat : i <= k => Low(a, i) = Low(b, i)}
<1>1. 0 \in G
  BY LowIs
<1>2. ASSUME NEW i \in Nat, i \in G PROVE i + 1 \in G
  <2> SUFFICES ASSUME i + 1 <= k PROVE Low(a, i + 1) = Low(b, i + 1)
    OBVIOUS
  <2>1. i \in 0..s1-1 /\ i \in 0..s2-1 /\ a[i] = b[i] /\ Low(a, i) = Low(b, i)
    BY <1>0, <1>2
  <2>2. Low(a, i + 1) = Low(a, i) + a[i] * pow2[w * i]
    BY <2>1, LowIs
  <2>3. Low(b, i + 1) = Low(b, i) + b[i] * pow2[w * i]
    BY <2>1, LowIs
  <2> QED
    BY <2>1, <2>2, <2>3
<1>3. Nat \subseteq G
  <2> HIDE DEF G
  <2> QED
    BY <1>1, <1>2, SetInduction
<1> QED
  BY <1>0, <1>3

\* Arrays of words are arrays of numbers.
LEMMA WordArray ==
  ASSUME NEW size, NEW a \in Array(size, Word)
  PROVE  a \in Array(size, Int)
<1>1. Word \subseteq Int
  BY WordsAre DEF Word, Base
<1> QED
  BY <1>1 DEF Array

\* T: the root so far shifted by the position of the next bit and by one more, and for the
\* last bit plus one.
LEMMA TermValue ==
  ASSUME NEW q \in Array(Words, Word), NEW bit \in 0..n-1
  PROVE  Value(Term(q, bit)) = pow2[bit + 1] * Value(q) + One(bit)
<1>0. /\ Words \in Nat \ {0} /\ Base \in Nat \ {0} /\ w \in Nat \ {0} /\ n \in Nat \ {0}
      /\ 2 * Words \in 0..2 * Words /\ Words \in 0..2 * Words
  BY WordsAre, PowersAre
<1>k. PICK k \in Nat : k = Words
  BY <1>0
<1>l. PICK l \in Nat : l = Lowest(bit) /\ l <= k
  BY <1>0, <1>k, ShiftIs
<1>o. PICK o \in Nat : o = Offset(bit)
  BY ShiftIs
<1>up. PICK up \in Nat \ {0} : up = pow2[o]
  BY <1>o, ShiftIs
<1>dn. PICK down \in Nat \ {0} : down = pow2[w - o]
  BY <1>o, ShiftIs
<1>pl. PICK pl \in Nat \ {0} : pl = pow2[w * l]
  BY <1>l, ShiftIs
<1>m. PICK m \in Nat \ {0} : m = 2 * k - l
  BY <1>0, <1>k, <1>l
<1>e. PICK e \in Array(2 * Words, Word) : e = Padded(q)
  BY PaddedIs
<1>t. PICK t \in Array(2 * Words, Word) : t = Term(q, bit)
  BY TermTyped
<1>1. e \in Array(2 * Words, Int) /\ t \in Array(2 * Words, Int) /\ q \in Array(Words, Int)
  BY WordArray
<1>2. Value(t) = Low(t, 2 * k) /\ Value(q) = Low(q, k)
  BY <1>0, <1>1, <1>k, ValueIs
<1>v. PICK v \in Int : v = Value(q)
  BY <1>0, <1>1, <1>2, <1>k, LowIs
<1>3. Low(e, m) = v
  <2>1. Low(e, k) = Low(q, k)
    <3>1. \A i \in 0..k-1 : q[i] = e[i]
      BY <1>e, <1>k, PaddedIs
    <3>2. k \in 0..Words /\ k <= 2 * Words
      BY <1>0, <1>k
    <3> QED
      BY <1>0, <1>1, <3>1, <3>2, LowSame
  <2>2. Low(e, m) = Low(e, k)
    <3>1. \A i \in k..m-1 : e[i] = 0
      <4>1. \A i \in k..m-1 : i \in Words..2*Words-1
        BY <1>k, <1>l, <1>m
      <4> QED
        BY <1>e, <4>1, PaddedIs
    <3>2. k \in 0..2 * Words /\ m \in k..2 * Words
      BY <1>0, <1>k, <1>l, <1>m
    <3> QED
      BY <1>0, <1>1, <3>1, <3>2, LowRest
  <2> QED
    BY <1>2, <1>v, <2>1, <2>2
<1>4. FromBelow(Padded(q), bit, m) = 0
  <2>1. FromBelow(Padded(q), bit, m) = e[m - 1] \div down
    BY <1>m, <1>e, <1>dn, <1>o DEF FromBelow
  <2>2. m - 1 \in k-1..2*Words-1
    BY <1>k, <1>l, <1>m
  <2>x. PICK x \in 0..Base-1 : x = e[m - 1]
    <3>1. m - 1 \in 0..2*Words-1
      BY <1>0, <1>k, <2>2
    <3> QED
      BY <1>0, <3>1 DEF Array, Word, Base
  <2>3. x \in 0..down-1
    <3>1. CASE l = k
      <4>1. o = 0
        BY <1>k, <1>l, <1>o, <3>1, ShiftIs
      <4>2. down = Base
        BY <1>0, <1>dn, <4>1 DEF Base
      <4> QED
        BY <4>2
    <3>2. CASE l # k
      <4>1. m - 1 \in Words..2*Words-1
        BY <1>k, <1>l, <1>m, <3>2
      <4>2. x = 0
        BY <2>x, <1>e, <4>1, PaddedIs
      <4> QED
        BY <4>2
    <3> QED
      BY <3>1, <3>2
  <2>4. x \div down = 0
    BY <2>3, SmallQuotient
  <2> QED
    BY <2>1, <2>x, <2>4
<1>5. Low(t, l + m) = pl * (up * v - 0 * pow2[w * m]) + One(bit)
  <2>1. m \in 0..2 * Words - Lowest(bit) /\ m > 0
    BY <1>k, <1>l, <1>m
  <2> QED
    BY <2>1, <1>3, <1>4, <1>e, <1>t, <1>l, <1>o, <1>up, <1>pl, TermLow
<1>p. PICK p \in Nat : p = pow2[w * m]
  <2>1. m \in 0..2 * Words
    BY <1>k, <1>l, <1>m
  <2>2. w * m \in 0..2 * n
    BY <2>1, WordsAre
  <2> QED
    BY <2>2, PowersAre
<1>u. PICK u \in Int : u = One(bit)
  BY DEF One
<1>6. Low(t, 2 * k) = pl * (up * v - 0 * p) + u
  <2>1. l + m = 2 * k
    BY <1>l, <1>m
  <2> QED
    BY <1>5, <1>p, <1>u, <2>1
<1>7. pl * (up * v - 0 * p) + u = (pl * up) * v + u
  OBVIOUS
<1>8. pow2[bit + 1] = pl * up
  BY <1>l, <1>o, <1>up, <1>pl, ShiftIs
<1> QED
  BY <1>2, <1>6, <1>7, <1>8, <1>t, <1>u, <1>v

-----------------------------------------------------------------------------
\* compare_loop.

\* The comparison from the top word down, by the recursion of compare_loop.
LEMMA CompareIs ==
  ASSUME NEW q, NEW bit \in 0..n-1
  PROVE  \E c : /\ RemainderSuffices(q, bit) <=> c[2 * Words - 1]
                /\ \A i \in Nat : c[i] <=> \/ FIND_VALUE(q, bit, i) < X[i]
                                           \/ /\ FIND_VALUE(q, bit, i) = X[i]
                                              /\ i <= Lowest(bit) \/ c[i - 1]
<1> DEFINE Body(g) ==
      [i \in Nat |-> LET t == FIND_VALUE(q, bit, i)
                     IN  t < X[i] \/ (t = X[i] /\ (i <= Lowest(bit) \/ g[i - 1]))]
<1>l. PICK l \in Nat : l = Lowest(bit)
  BY ShiftIs
<1>s. PICK less : less = {i \in Nat : FIND_VALUE(q, bit, i) < X[i]}
  OBVIOUS
<1>e. PICK same : same = {i \in Nat : FIND_VALUE(q, bit, i) = X[i]}
  OBVIOUS
<1>v. PICK V : V = {0, 1}
  OBVIOUS
<1> DEFINE D == [p \in Nat \X V |->
                   IF \/ p[1] + 1 \in less
                      \/ p[1] + 1 \in same /\ (p[1] + 1 <= l \/ p[2] = 1) THEN 1 ELSE 0]
<1>b. PICK base \in V : base = IF 0 \in less \/ 0 \in same THEN 1 ELSE 0
  BY <1>v
<1>1. D \in [Nat \X V -> V]
  BY <1>v
<1>g. PICK h \in [Nat -> V] : Recurs(h, base, D)
  <2> HIDE DEF D
  <2> QED
    BY <1>1, NatRecursion
<1>h. h[0] = base /\ \A i \in Nat : h[i + 1] = D[<<i, h[i]>>]
  <2> HIDE DEF D
  <2> QED
    BY <1>g DEF Recurs
<1>2. ASSUME NEW i \in Nat
      PROVE  h[i] = 1 <=> \/ i \in less
                          \/ i \in same /\ (i <= l \/ (i - 1 \in Nat /\ h[i - 1] = 1))
  <2>1. CASE i = 0
    BY <1>h, <1>b, <2>1
  <2>2. CASE i # 0
    <3>j. PICK j \in Nat : i = j + 1 /\ j = i - 1
      BY <2>2
    <3>1. h[i] = D[<<j, h[j]>>]
      <4> HIDE DEF D
      <4> QED
        BY <1>h, <3>j
    <3>2. h[j] \in V
      BY <1>h
    <3>3. D[<<j, h[j]>>] = IF \/ j + 1 \in less
                              \/ j + 1 \in same /\ (j + 1 <= l \/ h[j] = 1) THEN 1 ELSE 0
      BY <3>2
    <3> HIDE DEF D
    <3> QED
      BY <3>1, <3>3, <3>j
  <2> QED
    BY <2>1, <2>2
<1> DEFINE c == [i \in Nat |-> h[i] = 1]
<1>3. ASSUME NEW i \in Nat, ~(i <= l) PROVE i - 1 \in Nat /\ c[i - 1] = (h[i - 1] = 1)
  BY <1>3
<1>4. ASSUME NEW i \in Nat
      PROVE  (h[i] = 1) <=> \/ i \in less \/ (i \in same /\ (i <= l \/ c[i - 1]))
  <2>1. CASE i <= l
    BY <1>2, <2>1
  <2>2. CASE ~(i <= l)
    BY <1>2, <1>3, <2>2
  <2> QED
    BY <2>1, <2>2
<1>5. ASSUME NEW i \in Nat
      PROVE  (h[i] = 1) <=> \/ FIND_VALUE(q, bit, i) < X[i]
                            \/ (FIND_VALUE(q, bit, i) = X[i] /\ (i <= Lowest(bit) \/ c[i - 1]))
  <2> HIDE DEF c
  <2> QED
    BY <1>4, <1>s, <1>e, <1>l
<1>6. c = Body(c)
  <2>1. ASSUME NEW i \in Nat PROVE c[i] = Body(c)[i]
    BY <1>5
  <2> QED
    BY <2>1
<1>i. PICK it : it = CHOOSE g : g = Body(g)
  OBVIOUS
<1>7. it = Body(it)
  <2> HIDE DEF Body, c
  <2> QED
    BY <1>6, <1>i, Zenon
<1>8. RemainderSuffices(q, bit) <=> it[2 * Words - 1]
  BY <1>i, Zenon DEF RemainderSuffices
<1>9. \A i \in Nat : it[i] <=> \/ FIND_VALUE(q, bit, i) < X[i]
                               \/ /\ FIND_VALUE(q, bit, i) = X[i]
                                  /\ i <= Lowest(bit) \/ it[i - 1]
  BY <1>7
<1> QED
  BY <1>8, <1>9

\* Numbers with one more digit in front compare by it first.
LEMMA Lexicographic ==
  ASSUME NEW p \in Nat \ {0}, NEW a \in 0..p-1, NEW b \in 0..p-1, NEW x \in Nat, NEW y \in Nat
  PROVE  a + x * p <= b + y * p <=> x < y \/ (x = y /\ a <= b)
<1>1. CASE x < y
  <2>d. PICK d \in Nat : d = y - x - 1
    BY <1>1
  <2>1. y * p = x * p + p + d * p
    <3>1. y = x + 1 + d
      BY <2>d
    <3> QED
      BY <3>1
  <2>2. d * p \in Nat /\ x * p \in Nat
    OBVIOUS
  <2> QED
    BY <1>1, <2>1, <2>2
<1>2. CASE x > y
  <2>d. PICK d \in Nat : d = x - y - 1
    BY <1>2
  <2>1. x * p = y * p + p + d * p
    <3>1. x = y + 1 + d
      BY <2>d
    <3> QED
      BY <3>1
  <2>2. d * p \in Nat /\ y * p \in Nat
    OBVIOUS
  <2> QED
    BY <1>2, <2>1, <2>2
<1>3. CASE x = y
  <2>1. x * p \in Nat
    OBVIOUS
  <2> QED
    BY <1>3, <2>1
<1> QED
  BY <1>1, <1>2, <1>3

\* What a word of an array of words adds.
LEMMA WordStep ==
  ASSUME NEW a \in Array(2 * Words, Word), NEW i \in 0..2 * Words - 1
  PROVE  /\ a[i] \in 0..Base-1
         /\ pow2[w * i] \in Nat \ {0} /\ pow2[w * (i + 1)] = pow2[w * i] * Base
         /\ Low(a, i) \in 0..pow2[w * i]-1
         /\ Low(a, i + 1) = Low(a, i) + a[i] * pow2[w * i]
<1>0. 2 * Words \in 0..2 * Words /\ i \in 0..2 * Words /\ Words \in Nat
  BY WordsAre
<1>1. a \in Array(2 * Words, Int)
  BY WordArray
<1>2. Low(a, i) \in Nat /\ Low(a, i) < pow2[w * i]
  BY <1>0, LowBound
<1>3. Low(a, i + 1) = Low(a, i) + a[i] * pow2[w * i]
  BY <1>0, <1>1, LowIs
<1>4. w * i \in 0..2 * n /\ pow2[w * (i + 1)] = pow2[w * i] * Base
  BY <1>0, WordsAre
<1>5. a[i] \in 0..Base-1
  BY DEF Array, Word, Base
<1>6. pow2[w * i] \in Nat \ {0}
  BY <1>4, PowersAre
<1> QED
  BY <1>2, <1>3, <1>4, <1>5, <1>6

\* compare_loop finds out whether T is at most the remainder.
LEMMA SufficesIs ==
  ASSUME X \in Array(2 * Words, Word), NEW q \in Array(Words, Word), NEW bit \in 0..n-1
  PROVE  RemainderSuffices(q, bit) <=> Value(Term(q, bit)) <= Value(X)
<1>0. Words \in Nat \ {0} /\ Base \in Nat \ {0} /\ 2 * Words \in 0..2 * Words
  BY WordsAre
<1>k. PICK k \in Nat : k = 2 * Words
  BY <1>0
<1>l. PICK l \in Nat : l = Lowest(bit) /\ l < k
  BY <1>0, <1>k, ShiftIs
<1>t. PICK t \in Array(2 * Words, Word) : t = Term(q, bit)
  BY TermTyped
<1>c. PICK c : /\ RemainderSuffices(q, bit) <=> c[2 * Words - 1]
               /\ \A i \in Nat : c[i] <=> \/ FIND_VALUE(q, bit, i) < X[i]
                                          \/ /\ FIND_VALUE(q, bit, i) = X[i]
                                             /\ i <= Lowest(bit) \/ c[i - 1]
  BY CompareIs
<1>1. t \in Array(2 * Words, Int) /\ X \in Array(2 * Words, Int)
  BY WordArray
<1>2. Low(t, l) = 0
  <2>1. \A i \in 0..l-1 : t[i] = 0
    BY <1>l, <1>t, TermTyped
  <2>2. Low(t, l) = Low(t, 0)
    <3>1. 0 \in 0..2 * Words /\ l \in 0..2 * Words
      BY <1>k, <1>l
    <3> QED
      BY <1>0, <1>1, <2>1, <3>1, LowRest
  <2>3. Low(t, 0) = 0
    BY <1>0, <1>1, LowIs
  <2> QED
    BY <2>2, <2>3
<1> DEFINE Settled(i) == (i <= l \/ c[i - 1]) <=> Low(t, i) <= Low(X, i)
<1> DEFINE G == {d \in Nat : l + d <= k => Settled(l + d)}
<1>3. 0 \in G
  <2>1. Low(X, l) \in 0..pow2[w * l]-1 /\ pow2[w * l] \in Nat
    BY <1>k, <1>l, WordStep
  <2>2. Low(t, l) <= Low(X, l)
    BY <1>2, <2>1
  <2>3. l + 0 = l /\ l <= l
    OBVIOUS
  <2> QED
    BY <2>2, <2>3
<1>4. ASSUME NEW d \in Nat, d \in G PROVE d + 1 \in G
  <2> SUFFICES ASSUME l + (d + 1) <= k PROVE Settled(l + (d + 1))
    OBVIOUS
  <2>i. PICK i \in Nat : /\ i = l + d /\ i < k /\ l + (d + 1) = i + 1 /\ i >= l
                         /\ i \in 0..2 * Words - 1
    BY <1>k
  <2>1. Settled(i)
    BY <1>4, <2>i
  <2>p. PICK p \in Nat \ {0} : p = pow2[w * i]
    BY <2>i, WordStep
  <2>x. PICK x \in Nat : x = X[i]
    BY <1>0, <2>i, WordStep
  <2>y. PICK y \in Nat : y = t[i]
    BY <1>0, <2>i, WordStep
  <2>u. PICK u \in 0..p-1 : u = Low(X, i)
    BY <2>i, <2>p, WordStep
  <2>v. PICK v \in 0..p-1 : v = Low(t, i)
    BY <2>i, <2>p, WordStep
  <2>2. Low(X, i + 1) = u + x * p /\ Low(t, i + 1) = v + y * p
    BY <2>i, <2>p, <2>x, <2>y, <2>u, <2>v, WordStep
  <2>3. v + y * p <= u + x * p <=> y < x \/ (y = x /\ v <= u)
    BY Lexicographic
  <2>4. FIND_VALUE(q, bit, i) = y
    BY <1>t, <2>i, <2>y, TermTyped
  <2>5. c[i] <=> y < x \/ (y = x /\ (i <= l \/ c[i - 1]))
    BY <1>c, <1>l, <2>x, <2>4
  <2>6. (i <= l \/ c[i - 1]) <=> v <= u
    BY <2>1, <2>u, <2>v
  <2>7. c[i] <=> Low(t, i + 1) <= Low(X, i + 1)
    BY <2>2, <2>3, <2>5, <2>6
  <2>8. (i + 1) - 1 = i /\ ~(i + 1 <= l)
    BY <2>i
  <2>9. Settled(i + 1)
    BY <2>7, <2>8
  <2> QED
    BY <2>9, <2>i
<1>5. Nat \subseteq G
  <2> HIDE DEF G
  <2> QED
    BY <1>3, <1>4, SetInduction
<1>6. Settled(k)
  <2>1. k - l \in Nat /\ l + (k - l) = k
    BY <1>l
  <2>d. PICK d \in Nat : l + d = k
    BY <2>1
  <2>2. d \in G /\ l + d <= k
    BY <1>5, <2>d
  <2> QED
    BY <2>2, <2>d
<1>7. Value(t) = Low(t, k) /\ Value(X) = Low(X, k)
  BY <1>0, <1>1, <1>k, ValueIs
<1>8. c[k - 1] <=> Low(t, k) <= Low(X, k)
  BY <1>6, <1>l
<1> QED
  BY <1>7, <1>8, <1>c, <1>k, <1>t

\* b holds the borrows of a subtraction of T.
Borrows(b, q, bit) ==
  /\ b \in [Nat -> {0, 1}]
  /\ b[Lowest(bit)] = 0
  /\ \A i \in Nat : i >= Lowest(bit) =>
       b[i + 1] = IF X[i] < FIND_VALUE(q, bit, i) + b[i] THEN 1 ELSE 0
  /\ Subtract(q, bit) =
       [i \in DOMAIN X |-> IF i < Lowest(bit) THEN X[i]
          ELSE (X[i] + 2 * Base - FIND_VALUE(q, bit, i) - b[i]) % Base]

\* The borrows, by the recursion of sub_loop.
LEMMA BorrowIs ==
  ASSUME NEW q, NEW bit \in 0..n-1
  PROVE  \E b : Borrows(b, q, bit)
<1>l. PICK l \in Nat : l = Lowest(bit)
  BY ShiftIs
<1>v. PICK V : V = {0, 1}
  OBVIOUS
<1> DEFINE Body(g) ==
      [i \in Nat |-> IF i <= Lowest(bit) THEN 0
                     ELSE IF X[i - 1] < FIND_VALUE(q, bit, i - 1) + g[i - 1] THEN 1 ELSE 0]
<1>s. PICK less : less = {p \in Nat \X V : X[p[1]] < FIND_VALUE(q, bit, p[1]) + p[2]}
  OBVIOUS
<1> DEFINE D == [p \in Nat \X V |-> IF p[1] + 1 <= l THEN 0 ELSE IF p \in less THEN 1 ELSE 0]
<1>z. PICK base \in V : base = 0
  BY <1>v
<1>1. D \in [Nat \X V -> V]
  BY <1>v
<1>g. PICK h \in [Nat -> V] : Recurs(h, base, D)
  <2> HIDE DEF D
  <2> QED
    BY <1>1, NatRecursion
<1>h. h[0] = base /\ \A i \in Nat : h[i + 1] = D[<<i, h[i]>>]
  <2> HIDE DEF D
  <2> QED
    BY <1>g DEF Recurs
<1>2. ASSUME NEW i \in Nat PROVE h[i] = Body(h)[i]
  <2>1. CASE i <= l
    <3>1. CASE i = 0
      BY <1>h, <1>z, <1>l, <3>1
    <3>2. CASE i # 0
      <4>j. PICK j \in Nat : i = j + 1
        BY <3>2
      <4>1. h[j] \in V /\ h[i] = D[<<j, h[j]>>]
        <5> HIDE DEF D
        <5> QED
          BY <1>h, <4>j
      <4> QED
        BY <1>l, <2>1, <4>1, <4>j
    <3> QED
      BY <3>1, <3>2
  <2>2. CASE ~(i <= l)
    <3>j. PICK j \in Nat : i = j + 1 /\ j = i - 1
      BY <2>2
    <3>1. h[j] \in V /\ h[i] = D[<<j, h[j]>>]
      <4> HIDE DEF D
      <4> QED
        BY <1>h, <3>j
    <3>2. h[i] = IF <<j, h[j]>> \in less THEN 1 ELSE 0
      BY <2>2, <3>1, <3>j
    <3>3. <<j, h[j]>> \in less <=> X[j] < FIND_VALUE(q, bit, j) + h[j]
      BY <1>s, <3>1
    <3> QED
      BY <1>l, <2>2, <3>2, <3>3, <3>j
  <2> QED
    BY <2>1, <2>2
<1>3. h = Body(h)
  BY <1>2
<1>i. PICK b : b = CHOOSE g : g = Body(g)
  OBVIOUS
<1>4. b = Body(b)
  <2> HIDE DEF Body
  <2> QED
    BY <1>3, <1>i, Zenon
<1>5. b \in [Nat -> V]
  <2>1. \A i \in Nat : Body(b)[i] \in V
    BY <1>v
  <2> QED
    BY <1>4, <2>1
<1>6. Subtract(q, bit) = [i \in DOMAIN X |-> IF i < Lowest(bit) THEN X[i]
                           ELSE (X[i] + 2 * pow2[w] - FIND_VALUE(q, bit, i) - b[i]) % pow2[w]]
  <2> DEFINE F(g) == [i \in DOMAIN X |-> IF i < Lowest(bit) THEN X[i]
                        ELSE (X[i] + 2 * pow2[w] - FIND_VALUE(q, bit, i) - g[i]) % pow2[w]]
  <2>1. Subtract(q, bit) = F(CHOOSE g : g = Body(g))
    BY Zenon DEF Subtract
  <2>2. Subtract(q, bit) = F(b)
    <3> HIDE DEF F, Body
    <3> QED
      BY <1>i, <2>1, Zenon
  <2> QED
    BY <2>2
<1>7. b[l] = 0
  BY <1>l, <1>4
<1>8. ASSUME NEW i \in Nat, i >= l
      PROVE  b[i + 1] = IF X[i] < FIND_VALUE(q, bit, i) + b[i] THEN 1 ELSE 0
  <2>j. PICK j \in Nat : j = i + 1 /\ j - 1 = i /\ ~(j <= l)
    BY <1>8
  <2>1. b[j] = IF X[j - 1] < FIND_VALUE(q, bit, j - 1) + b[j - 1] THEN 1 ELSE 0
    BY <1>4, <1>l, <2>j
  <2> QED
    BY <2>1, <2>j
<1>9. Subtract(q, bit) = [i \in DOMAIN X |-> IF i < l THEN X[i]
                           ELSE (X[i] + 2 * Base - FIND_VALUE(q, bit, i) - b[i]) % Base]
  BY <1>6, <1>l DEF Base
<1> HIDE DEF Body
<1> QED
  BY <1>5, <1>7, <1>8, <1>9, <1>l, <1>v DEF Borrows

-----------------------------------------------------------------------------
\* sub_loop.

\* sub_loop takes T away from a remainder that is at least as large.
LEMMA SubtractIs ==
  ASSUME X \in Array(2 * Words, Word), NEW q \in Array(Words, Word), NEW bit \in 0..n-1,
         Value(Term(q, bit)) <= Value(X), NEW r, r = Subtract(q, bit)
  PROVE  /\ r \in Array(2 * Words, Word)
         /\ Value(r) = Value(X) - Value(Term(q, bit))
<1>0. Words \in Nat \ {0} /\ Base \in Nat \ {0} /\ 2 * Words \in 0..2 * Words
  BY WordsAre
<1>k. PICK k \in Nat : k = 2 * Words
  BY <1>0
<1>l. PICK l \in Nat : l = Lowest(bit) /\ l < k
  BY <1>0, <1>k, ShiftIs
<1>v. PICK V : V = {0, 1}
  OBVIOUS
<1>t. PICK t \in Array(2 * Words, Word) : t = Term(q, bit)
  BY TermTyped
<1>c. PICK b : Borrows(b, q, bit)
  BY BorrowIs
<1>b. /\ b \in [Nat -> V]
      /\ b[l] = 0
      /\ \A i \in Nat : i >= l =>
           b[i + 1] = IF X[i] < FIND_VALUE(q, bit, i) + b[i] THEN 1 ELSE 0
      /\ r = [i \in DOMAIN X |-> IF i < l THEN X[i]
                ELSE (X[i] + 2 * Base - FIND_VALUE(q, bit, i) - b[i]) % Base]
  BY <1>c, <1>l, <1>v DEF Borrows
<1>1. t \in Array(2 * Words, Int) /\ X \in Array(2 * Words, Int) /\ DOMAIN X = 0..2*Words-1
  BY WordArray DEF Array
<1>2. /\ \A i \in 0..l-1 : r[i] = X[i]
      /\ \A i \in l..k-1 : r[i] = (X[i] + 2 * Base - FIND_VALUE(q, bit, i) - b[i]) % Base
      /\ r = [i \in 0..2*Words-1 |-> r[i]]
  BY <1>b, <1>1, <1>k, <1>l
<1>3. ASSUME NEW i \in l..k-1
      PROVE  /\ r[i] \in 0..Base-1 /\ b[i + 1] \in {0, 1} /\ b[i] \in {0, 1}
             /\ r[i] = X[i] - t[i] - b[i] + b[i + 1] * Base
  <2>1. i \in 0..2*Words-1 /\ i \in Nat /\ i >= l /\ i + 1 \in Nat
    BY <1>k, <1>l
  <2>s. PICK s \in Nat \ {0} : s = Base
    BY <1>0
  <2>x. PICK x \in 0..s-1 : x = X[i]
    BY <2>1, <2>s, WordStep
  <2>y. PICK y \in 0..s-1 : y = t[i]
    BY <2>1, <2>s, WordStep
  <2>2. FIND_VALUE(q, bit, i) = y
    BY <1>t, <2>1, <2>y, TermTyped
  <2>d. PICK d \in {0, 1} : d = b[i]
    BY <1>b, <1>v, <2>1
  <2>c. PICK c \in {0, 1} : c = b[i + 1]
    BY <1>b, <1>v, <2>1
  <2>3. c = IF x < y + d THEN 1 ELSE 0
    BY <1>b, <2>1, <2>2, <2>x, <2>d, <2>c
  <2>z. PICK z \in Int : z = x + 2 * s - y - d
    OBVIOUS
  <2>e. PICK e \in 0..s-1 : e = x - y - d + c * s
    <3>1. CASE c = 1
      BY <2>3, <3>1
    <3>2. CASE c = 0
      BY <2>3, <3>2
    <3> QED
      BY <3>1, <3>2
  <2>q. PICK f \in Int : f = 2 - c
    OBVIOUS
  <2>6. z = s * f + e
    <3>1. CASE c = 1
      BY <2>z, <2>e, <2>q, <3>1
    <3>2. CASE c = 0
      BY <2>z, <2>e, <2>q, <3>2
    <3> QED
      BY <3>1, <3>2
  <2>4. z % s = e
    BY <2>6, DivisionUnique
  <2>5. r[i] = z % s
    BY <1>2, <2>2, <2>x, <2>d, <2>s, <2>z
  <2> QED
    BY <2>4, <2>5, <2>e, <2>s, <2>x, <2>y, <2>d, <2>c
<1>4. r \in Array(2 * Words, Word)
  <2>1. ASSUME NEW i \in 0..2*Words-1 PROVE r[i] \in 0..Base-1
    <3>1. CASE i < l
      <4>1. r[i] = X[i]
        BY <1>2, <1>l, <3>1, i \in 0..l-1
      <4> QED
        BY <4>1, WordStep
    <3>2. CASE ~(i < l)
      <4>1. i \in l..k-1
        BY <1>k, <1>l, <3>2
      <4> QED
        BY <1>3, <4>1
    <3> QED
      BY <3>1, <3>2
  <2> QED
    BY <1>2, <2>1 DEF Array, Word, Base
<1>5. r \in Array(2 * Words, Int)
  BY <1>4, WordArray
<1>6. Low(t, l) = 0
  <2>1. \A i \in 0..l-1 : t[i] = 0
    BY <1>l, <1>t, TermTyped
  <2>2. Low(t, l) = Low(t, 0)
    <3>1. 0 \in 0..2 * Words /\ l \in 0..2 * Words
      BY <1>k, <1>l
    <3> QED
      BY <1>0, <1>1, <2>1, <3>1, LowRest
  <2>3. Low(t, 0) = 0
    BY <1>0, <1>1, LowIs
  <2> QED
    BY <2>2, <2>3
<1> DEFINE Claim(i) == Low(r, i) = Low(X, i) - Low(t, i) + b[i] * pow2[w * i]
<1> DEFINE G == {d \in Nat : l + d <= k => Claim(l + d)}
<1>7. 0 \in G
  <2>i. PICK i \in Nat : i = l + 0 /\ i = l /\ i \in 0..2*Words-1
    BY <1>k, <1>l
  <2>1. Low(r, i) = Low(X, i)
    <3>1. i \in 0..2*Words /\ i <= 2 * Words
      BY <1>0, <2>i
    <3>2. \A j \in 0..i-1 : r[j] = X[j]
      BY <1>2, <2>i
    <3> QED
      BY <1>0, <1>1, <1>5, <3>1, <3>2, LowSame
  <2>2. b[i] = 0 /\ Low(t, i) = 0
    BY <1>b, <1>6, <2>i
  <2>p. PICK p \in Nat : p = pow2[w * i]
    BY <2>i, WordStep
  <2>u. PICK u \in Int : u = Low(X, i)
    BY <2>i, WordStep
  <2>3. Claim(i)
    BY <2>1, <2>2, <2>p, <2>u
  <2> QED
    BY <2>3, <2>i
<1>8. ASSUME NEW d \in Nat, d \in G PROVE d + 1 \in G
  <2> SUFFICES ASSUME l + (d + 1) <= k PROVE Claim(l + (d + 1))
    OBVIOUS
  <2>i. PICK i \in Nat : i = l + d /\ l + (d + 1) = i + 1 /\ i \in l..k-1 /\ i \in 0..2 * Words - 1
    BY <1>k
  <2>1. Claim(i)
    BY <1>8, <2>i
  <2>p. PICK p \in Nat \ {0} : p = pow2[w * i]
    BY <2>i, WordStep
  <2>x. PICK x \in Int : x = X[i]
    BY <1>0, <2>i, WordStep
  <2>y. PICK y \in Int : y = t[i]
    BY <1>0, <2>i, WordStep
  <2>z. PICK z \in Int : z = r[i]
    BY <1>0, <1>3, <2>i
  <2>e. PICK e \in Int : e = b[i]
    BY <1>3, <2>i
  <2>c. PICK c \in Int : c = b[i + 1]
    BY <1>3, <2>i
  <2>s. PICK s \in Nat : s = Base
    BY <1>0
  <2>u. PICK u \in Int : u = Low(X, i)
    BY <2>i, WordStep
  <2>v. PICK v \in Int : v = Low(t, i)
    BY <2>i, WordStep
  <2>2. /\ Low(X, i + 1) = u + x * p /\ Low(t, i + 1) = v + y * p
        /\ Low(r, i + 1) = Low(r, i) + z * p /\ pow2[w * (i + 1)] = p * s
    BY <1>4, <2>i, <2>p, <2>x, <2>y, <2>z, <2>s, <2>u, <2>v, WordStep
  <2>3. Low(r, i) = u - v + e * p
    BY <2>1, <2>e, <2>p, <2>u, <2>v
  <2>4. z = x - y - e + c * s
    BY <1>3, <2>i, <2>x, <2>y, <2>z, <2>e, <2>c, <2>s
  <2>5. (u - v + e * p) + (x - y - e + c * s) * p = (u + x * p) - (v + y * p) + c * (p * s)
    OBVIOUS
  <2>6. Low(r, i + 1) = Low(X, i + 1) - Low(t, i + 1) + c * pow2[w * (i + 1)]
    BY <2>2, <2>3, <2>4, <2>5
  <2> QED
    BY <2>6, <2>c, <2>i
<1>9. Nat \subseteq G
  <2> HIDE DEF G
  <2> QED
    BY <1>7, <1>8, SetInduction
<1>10. Claim(k)
  <2>1. k - l \in Nat /\ l + (k - l) = k
    BY <1>l
  <2>d. PICK d \in Nat : l + d = k
    BY <2>1
  <2>2. d \in G /\ l + d <= k
    BY <1>9, <2>d
  <2> QED
    BY <2>2, <2>d
<1>11. Value(t) = Low(t, k) /\ Value(X) = Low(X, k) /\ Value(r) = Low(r, k)
  BY <1>0, <1>1, <1>5, <1>k, ValueIs
<1>u. PICK u \in Int : u = Value(X)
  BY <1>0, <1>1, <1>11, <1>k, LowIs
<1>y. PICK y \in Int : y = Value(t)
  BY <1>0, <1>1, <1>11, <1>k, LowIs
<1>12. k \in 0..2 * Words
  BY <1>k
<1>p. PICK p \in Nat \ {0} : p = pow2[w * k]
  <2>1. w * k \in 0..2 * n
    BY <1>12, WordsAre
  <2> QED
    BY <2>1, PowersAre
<1>z. PICK z \in Nat : z = Value(r) /\ z < p
  BY <1>0, <1>4, <1>11, <1>12, <1>p, LowBound
<1>e. PICK e \in {0, 1} : e = b[k]
  BY <1>b, <1>v
<1>13. z = u - y + e * p
  BY <1>10, <1>11, <1>u, <1>y, <1>z, <1>e, <1>p
<1>14. y <= u
  BY <1>t, <1>u, <1>y
<1>15. e = 0
  <2>1. CASE e = 1
    BY <1>13, <1>14, <1>z, <2>1
  <2> QED
    BY <2>1
<1>16. z = u - y
  BY <1>13, <1>15
<1> QED
  BY <1>4, <1>16, <1>t, <1>u, <1>y, <1>z

-----------------------------------------------------------------------------
\* A pass, and the words of a number.

\* A pass sets the bit below to try, settles its own and takes the bit below back.
LEMMA PassIs ==
  ASSUME NEW q \in Array(Words, Word), NEW bit \in 0..n-1, NEW u \in Nat,
         Value(q) = pow2[bit + 1] * u,
         NEW trial, trial = Trial(q, bit),
         NEW set, set = Trial(CHANGE_BIT(trial, bit), bit),
         NEW back, back = Trial(trial, bit)
  PROVE  /\ trial \in Array(Words, Word)
         /\ set \in Array(Words, Word) /\ back \in Array(Words, Word)
         /\ pow2[bit] \in Nat \ {0}
         /\ Value(set) = Value(q) + pow2[bit] /\ Value(set) = pow2[bit] * (2 * u + 1)
         /\ Value(back) = Value(q) /\ Value(back) = pow2[bit] * (2 * u)
         /\ Value(Term(trial, bit)) = 2 * pow2[bit] * Value(q) + pow2[bit] * pow2[bit]
<1>0. n \in Nat \ {0} /\ bit \in 0..2 * n - 1 /\ bit \in 0..2 * n
  BY PowersAre
<1>p. PICK p \in Nat \ {0} : p = pow2[bit] /\ pow2[bit + 1] = 2 * p
  BY <1>0, PowersAre
<1>v. PICK v \in Nat : v = Value(q) /\ v = (2 * p) * u
  BY <1>p
<1>t. PICK t : t = Value(trial)
  OBVIOUS
<1>1. CASE bit = 0
  <2>1. trial = q /\ back = q /\ set = CHANGE_BIT(q, bit)
    BY <1>1 DEF Trial
  <2>2. p = 1 /\ One(bit) = 1
    BY <1>1, <1>p, PowersAre DEF One
  <2>3. 0 \in 0..pow2[bit]-1 /\ 0 \in 0..1
    BY <1>p
  <2>4. Value(q) = pow2[bit] * (2 * u + 0) + 0
    <3>1. v = p * (2 * u + 0) + 0
      BY <1>v
    <3> QED
      BY <1>v, <1>p, <3>1
  <2>5. set \in Array(Words, Word) /\ Value(set) = Value(q) + pow2[bit]
    BY <2>1, <2>3, <2>4, ChangeBit
  <2>6. Value(Term(q, bit)) = pow2[bit + 1] * Value(q) + One(bit)
    BY TermValue
  <2>7. Value(Term(trial, bit)) = (2 * p) * v + 1
    BY <2>1, <2>2, <2>6, <1>p, <1>v
  <2>8. (2 * p) * v + 1 = 2 * p * v + p * p
    BY <2>2
  <2>9. v + p = p * (2 * u + 1) /\ v = p * (2 * u)
    BY <1>v
  <2> QED
    BY <2>1, <2>5, <2>7, <2>8, <2>9, <1>p, <1>v
<1>2. CASE bit # 0
  <2>j. PICK j \in Nat : j = bit - 1 /\ j + 1 = bit
    BY <1>2
  <2>0. j \in 0..n-1 /\ j \in 0..2 * n - 1 /\ j \in 0..2 * n
    BY <1>0, <2>j
  <2>h. PICK h \in Nat \ {0} : h = pow2[j] /\ p = 2 * h
    BY <2>0, <2>j, <1>p, PowersAre
  <2>1. trial = CHANGE_BIT(q, j) /\ back = CHANGE_BIT(trial, j)
    BY <1>2, <2>j DEF Trial
  <2>z. 0 \in 0..pow2[j]-1 /\ 0 \in 0..1 /\ 1 \in 0..1 /\ h \in 0..pow2[bit]-1
    BY <2>h, <1>p
  <2>a. PICK a \in Nat : a = 2 * u
    OBVIOUS
  <2>2. trial \in Array(Words, Word) /\ Value(trial) = v + h
    <3>1. Value(q) = pow2[j] * (2 * a + 0) + 0
      <4>1. v = h * (2 * a + 0) + 0
        BY <1>v, <2>a, <2>h
      <4> QED
        BY <1>v, <2>h, <4>1
    <3>2. trial \in Array(Words, Word) /\ Value(trial) = Value(q) + pow2[j]
      BY <2>0, <2>1, <2>z, <3>1, ChangeBit
    <3> QED
      BY <3>2, <2>h, <1>v
  <2>b. PICK mid : mid = CHANGE_BIT(trial, bit)
    OBVIOUS
  <2>3. mid \in Array(Words, Word) /\ Value(mid) = (v + h) + p
    <3>1. Value(trial) = pow2[bit] * (2 * u + 0) + h
      <4>1. v + h = p * (2 * u + 0) + h
        BY <1>v
      <4> QED
        BY <2>2, <1>p, <4>1
    <3>2. mid \in Array(Words, Word) /\ Value(mid) = Value(trial) + pow2[bit]
      BY <2>2, <2>b, <2>z, <3>1, ChangeBit
    <3> QED
      BY <2>2, <3>2, <1>p
  <2>4. set = CHANGE_BIT(mid, j)
    BY <1>2, <2>b, <2>j DEF Trial
  <2>c. PICK c \in Nat : c = 2 * u + 1
    OBVIOUS
  <2>5. set \in Array(Words, Word) /\ Value(set) = ((v + h) + p) - h
    <3>1. Value(mid) = pow2[j] * (2 * c + 1) + 0
      <4>1. (v + h) + p = h * (2 * c + 1) + 0
        BY <1>v, <2>c, <2>h
      <4> QED
        BY <2>3, <2>h, <4>1
    <3>2. set \in Array(Words, Word) /\ Value(set) = Value(mid) - pow2[j]
      BY <2>0, <2>3, <2>4, <2>z, <3>1, ChangeBit
    <3> QED
      BY <2>3, <3>2, <2>h
  <2>6. back \in Array(Words, Word) /\ Value(back) = (v + h) - h
    <3>1. Value(trial) = pow2[j] * (2 * a + 1) + 0
      <4>1. v + h = h * (2 * a + 1) + 0
        BY <1>v, <2>a, <2>h
      <4> QED
        BY <2>2, <2>h, <4>1
    <3>2. back \in Array(Words, Word) /\ Value(back) = Value(trial) - pow2[j]
      BY <2>0, <2>1, <2>2, <2>z, <3>1, ChangeBit
    <3> QED
      BY <2>2, <3>2, <2>h
  <2>7. Value(Term(trial, bit)) = (2 * p) * (v + h) + 0
    <3>1. Value(Term(trial, bit)) = pow2[bit + 1] * Value(trial) + One(bit)
      BY <2>2, TermValue
    <3>2. One(bit) = 0
      BY <1>2 DEF One
    <3> QED
      BY <3>1, <3>2, <2>2, <1>p
  <2>8. (2 * p) * (v + h) + 0 = 2 * p * v + p * p
    BY <2>h
  <2>9. ((v + h) + p) - h = v + p /\ (v + h) - h = v /\ v + p = p * (2 * u + 1) /\ v = p * (2 * u)
    BY <1>v
  <2> QED
    BY <2>2, <2>5, <2>6, <2>7, <2>8, <2>9, <1>p, <1>v
<1> QED
  BY <1>1, <1>2

\* The words that a number is written in.
LEMMA WordsOfIs ==
  ASSUME NEW v \in 0..pow2[2 * n]-1, NEW a, a = WordsOf(v, 2 * Words)
  PROVE  a \in Array(2 * Words, Word) /\ Value(a) = v
<1>0. /\ Words \in Nat \ {0} /\ Base \in Nat \ {0} /\ w \in Nat \ {0} /\ w * (2 * Words) = 2 * n
      /\ 2 * Words \in 0..2 * Words /\ n \in Nat \ {0} /\ 2 * n \in 0..2 * n
  BY WordsAre, PowersAre
<1>k. PICK k \in Nat : k = 2 * Words
  BY <1>0
<1>n. v \in Nat /\ v < pow2[2 * n]
  <2>1. pow2[2 * n] \in Nat
    BY <1>0, PowersAre
  <2> QED
    BY <2>1
<1>1. ASSUME NEW i \in 0..k-1
      PROVE  /\ pow2[w * i] \in Nat \ {0} /\ pow2[w * (i + 1)] = pow2[w * i] * Base
             /\ v \div pow2[w * i] \in Nat
             /\ a[i] = (v \div pow2[w * i]) % Base /\ a[i] \in 0..Base-1
  <2>p. PICK p \in Nat \ {0} : p = pow2[w * i]
    <3>1. w * i \in 0..2 * n
      BY <1>0, <1>k, WordsAre
    <3> QED
      BY <3>1, PowersAre
  <2>1. pow2[w * (i + 1)] = pow2[w * i] * Base
    BY <1>0, <1>k, WordsAre
  <2>d. PICK d \in Nat : d = v \div p
    BY <1>n, DivideNat
  <2>2. d % Base \in 0..Base-1
    BY <1>0, DivideNat
  <2>3. a[i] = (v \div pow2[w * i]) % Base
    BY <1>k DEF WordsOf, Base
  <2> QED
    BY <2>p, <2>1, <2>d, <2>2, <2>3
<1>2. a \in Array(2 * Words, Word)
  <2>1. a = [i \in 0..2*Words-1 |-> a[i]]
    BY DEF WordsOf
  <2> QED
    BY <1>1, <1>k, <2>1 DEF Array, Word, Base
<1>3. a \in Array(2 * Words, Int)
  BY <1>2, WordArray
<1> DEFINE G == {i \in Nat : i <= k => Low(a, i) = v % pow2[w * i]}
<1>4. 0 \in G
  <2>1. Low(a, 0) = 0
    BY <1>0, <1>3, LowIs
  <2>2. w * 0 = 0
    BY <1>0
  <2>3. v % 1 = 0
    BY <1>n
  <2> QED
    BY <2>1, <2>2, <2>3, PowersAre
<1>5. ASSUME NEW i \in Nat, i \in G PROVE i + 1 \in G
  <2> SUFFICES ASSUME i + 1 <= k PROVE Low(a, i + 1) = v % pow2[w * (i + 1)]
    OBVIOUS
  <2>1. i \in 0..k-1 /\ i \in 0..2*Words-1
    BY <1>k
  <2>p. PICK p \in Nat \ {0} : p = pow2[w * i]
    BY <1>1, <2>1
  <2>b. PICK b \in Nat \ {0} : b = Base
    BY <1>0
  <2>d. PICK d \in Nat : d = v \div p
    BY <1>n, DivideNat
  <2>m. PICK m \in 0..p-1 : m = v % p
    BY <1>n, DivideNat
  <2>e. PICK e \in Nat : e = d \div b
    BY DivideNat
  <2>f. PICK f \in 0..b-1 : f = d % b
    BY DivideNat
  <2>2. v = p * d + m /\ d = b * e + f
    BY <1>n, <2>d, <2>m, <2>e, <2>f, DivideNat
  <2>3. a[i] = f
    BY <1>1, <2>1, <2>p, <2>b, <2>d, <2>f
  <2>4. Low(a, i + 1) = m + f * p
    <3>1. Low(a, i) = m
      BY <1>5, <2>1, <2>m, <2>p
    <3>2. Low(a, i + 1) = Low(a, i) + a[i] * pow2[w * i]
      BY <1>0, <1>3, <2>1, LowIs
    <3> QED
      BY <2>3, <2>p, <3>1, <3>2
  <2>c. PICK c \in Nat \ {0} : c = p * b
    BY ProductGrows
  <2>5. pow2[w * (i + 1)] = c
    BY <1>1, <2>1, <2>b, <2>c, <2>p
  <2>g. PICK g \in 0..c-1 : g = m + f * p
    <3>x. PICK x \in Nat : x = (b - 1) - f
      OBVIOUS
    <3>1. p * b = f * p + p + x * p
      <4>1. b = f + 1 + x
        BY <3>x
      <4> QED
        BY <4>1
    <3>2. f * p \in Nat /\ x * p \in Nat
      OBVIOUS
    <3> QED
      BY <2>c, <3>1, <3>2
  <2>6. v = c * e + g
    <3>1. p * (b * e + f) + m = (p * b) * e + (m + f * p)
      OBVIOUS
    <3> QED
      BY <2>2, <2>c, <2>g, <3>1
  <2>z. PICK z \in Int : z = v
    BY <1>n
  <2>t. PICK t \in Int : t = e
    OBVIOUS
  <2>8. z = c * t + g
    BY <2>6, <2>t, <2>z
  <2>7. z % c = g
    BY <2>8, DivisionUnique
  <2> QED
    BY <2>4, <2>5, <2>7, <2>g, <2>z
<1>6. Nat \subseteq G
  <2> HIDE DEF G
  <2> QED
    BY <1>4, <1>5, SetInduction
<1>7. Low(a, k) = v % pow2[2 * n]
  BY <1>0, <1>6, <1>k
<1>p. PICK p \in Nat \ {0} : p = pow2[2 * n]
  BY <1>0, PowersAre
<1>8. v % p = v
  <2>1. v \in 0..p-1
    BY <1>n, <1>p
  <2> QED
    BY <2>1, SmallRemainder
<1>9. Value(a) = Low(a, k)
  BY <1>0, <1>3, <1>k, ValueIs
<1> QED
  BY <1>2, <1>7, <1>8, <1>9, <1>p

-----------------------------------------------------------------------------
\* The algorithm on numbers.

\* What is known of the number x, the root q, the rest r and the bits left: x lies between
\* the squares of the root so far and of the root with all its unsettled bits set, plus one.
Bracket(x, q, r, left) ==
  /\ x \in Nat /\ q \in Nat /\ r \in Int /\ left \in 0..n
  /\ r = x - q * q /\ q * q <= x /\ x < (q + pow2[left]) * (q + pow2[left])

\* What the square of q gains when a bit of weight p is set.
Gain(q, p) == 2 * p * q + p * p

LEMMA SquareGains ==
  ASSUME NEW q \in Nat, NEW p \in Nat
  PROVE  Gain(q, p) \in Nat /\ (q + p) * (q + p) = q * q + Gain(q, p)
BY DEF Gain

\* The bracket before the first digit is the whole range of the root.
LEMMA BracketStarts ==
  ASSUME NEW x \in 0..pow2[n] * pow2[n] - 1
  PROVE  Bracket(x, 0, x, n)
<1>1. n \in 0..2 * n /\ n \in 0..n
  BY PowersAre
<1>2. PICK p \in Nat : p = pow2[n]
  BY <1>1, PowersAre
<1>3. p * p \in Nat /\ x \in 0..p * p - 1
  BY <1>2
<1>4. x \in Nat /\ x < p * p /\ (0 + p) * (0 + p) = p * p
  BY <1>2, <1>3
<1> QED
  BY <1>1, <1>2, <1>4 DEF Bracket

\* A digit halves the bracket, on the side that the comparison tells.
LEMMA BracketHolds ==
  ASSUME NEW x, NEW q, NEW r, NEW left, Bracket(x, q, r, left), left > 0,
         NEW p, p = pow2[left - 1], NEW root, NEW rest,
         \/ r >= Gain(q, p) /\ root = q + p /\ rest = r - Gain(q, p)
         \/ r < Gain(q, p) /\ root = q /\ rest = r
  PROVE  Bracket(x, root, rest, left - 1)
<1>1. left - 1 \in 0..n /\ left - 1 \in 0..2 * n - 1 /\ (left - 1) + 1 = left
  BY PowersAre DEF Bracket
<1>2. p \in Nat /\ pow2[left] = 2 * p
  <2>1. pow2[(left - 1) + 1] = 2 * pow2[left - 1] /\ pow2[left - 1] \in Nat
    BY <1>1, PowersAre
  <2> QED
    BY <1>1, <2>1
<1>3. x \in Nat /\ q \in Nat /\ r \in Int /\ r = x - q * q /\ q * q <= x
  BY DEF Bracket
<1>4. x < (q + 2 * p) * (q + 2 * p)
  BY <1>2 DEF Bracket
<1>5. PICK g : g = Gain(q, p)
  OBVIOUS
<1>6. g \in Nat /\ (q + p) * (q + p) = q * q + g /\ q * q \in Nat
  <2>1. q \in Nat /\ p \in Nat
    BY <1>2, <1>3
  <2>2. Gain(q, p) \in Nat /\ (q + p) * (q + p) = q * q + Gain(q, p)
    BY <2>1, SquareGains
  <2>3. q * q \in Nat
    BY <2>1
  <2> QED
    BY <1>5, <2>2, <2>3
<1>7. CASE r >= g /\ root = q + p /\ rest = r - g
  <2>1. root \in Nat /\ rest \in Int /\ root * root = q * q + g
    BY <1>2, <1>3, <1>6, <1>7
  <2>2. rest = x - root * root /\ root * root <= x
    BY <1>3, <1>6, <1>7, <2>1
  <2>3. q + 2 * p = root + p
    BY <1>2, <1>3, <1>7
  <2>4. x < (root + p) * (root + p)
    BY <1>4, <2>3
  <2> QED
    BY <1>1, <1>3, <2>1, <2>2, <2>4 DEF Bracket
<1>8. CASE r < g /\ root = q /\ rest = r
  <2>1. x < (q + p) * (q + p)
    BY <1>3, <1>6, <1>8
  <2> QED
    BY <1>1, <1>3, <1>8, <2>1 DEF Bracket
<1> QED
  BY <1>5, <1>7, <1>8

\* When no bit is left the root is exact and the rest at most twice the root.
LEMMA BracketEnds ==
  ASSUME NEW x, NEW q, NEW r, Bracket(x, q, r, 0)
  PROVE  q * q <= x /\ x < (q + 1) * (q + 1) /\ r = x - q * q /\ r \in 0..2 * q
<1>1. /\ x \in Nat /\ q \in Nat /\ r = x - q * q /\ q * q <= x
      /\ x < (q + 1) * (q + 1)
  BY PowersAre DEF Bracket
<1>2. (q + 1) * (q + 1) = q * q + 2 * q + 1 /\ q * q \in Nat
  BY <1>1
<1> QED
  BY <1>1, <1>2

\* The algorithm on numbers of its own, with any number.
VARIABLES aNumber, aRoot, aRest, bitsLeft
Numbers == INSTANCE DigitSqrt WITH
  x <- aNumber, q <- aRoot, r <- aRest, left <- bitsLeft

\* It starts within the bracket and stays there.
LEMMA NumbersInside ==
  Numbers!Spec => []Bracket(aNumber, aRoot, aRest, bitsLeft)
<1>1. Numbers!Init => Bracket(aNumber, aRoot, aRest, bitsLeft)
  BY BracketStarts DEF Numbers!Init
<1>2. /\ Bracket(aNumber, aRoot, aRest, bitsLeft) /\ [Numbers!Digit]_(Numbers!vars)
      => Bracket(aNumber, aRoot, aRest, bitsLeft)'
  <2> SUFFICES ASSUME Bracket(aNumber, aRoot, aRest, bitsLeft), [Numbers!Digit]_(Numbers!vars)
               PROVE  Bracket(aNumber, aRoot, aRest, bitsLeft)'
    OBVIOUS
  <2>1. CASE UNCHANGED Numbers!vars
    BY <2>1 DEF Numbers!vars, Bracket
  <2>2. CASE Numbers!Digit
    <3>1. PICK x, q, r, left : /\ x = aNumber /\ q = aRoot /\ r = aRest /\ left = bitsLeft
                               /\ Bracket(x, q, r, left)
      OBVIOUS
    <3>2. PICK root, rest, p : root = aRoot' /\ rest = aRest' /\ p = pow2[left - 1]
      OBVIOUS
    <3>3. /\ left > 0 /\ bitsLeft' = left - 1 /\ aNumber' = x
          /\ \/ r >= Gain(q, p) /\ root = q + p /\ rest = r - Gain(q, p)
             \/ r < Gain(q, p) /\ root = q /\ rest = r
      BY <2>2, <3>1, <3>2 DEF Numbers!Digit, Numbers!T, Gain
    <3>4. Bracket(x, root, rest, left - 1)
      BY <3>1, <3>2, <3>3, BracketHolds
    <3> QED
      BY <3>2, <3>3, <3>4
  <2> QED
    BY <2>1, <2>2
<1> QED
  BY <1>1, <1>2, PTL DEF Numbers!Spec

\* At every moment the remainder is exact and the root found to within the
\* bits not yet settled (the loop of nsqrt between two passes).
THEOREM RootBracketed == Numbers!Spec => []Numbers!Bracketed
<1>1. Bracket(aNumber, aRoot, aRest, bitsLeft) => Numbers!Bracketed
  BY DEF Bracket, Numbers!Bracketed
<1> QED
  BY <1>1, NumbersInside, PTL

\* When the last bit is settled the root is the number's square root rounded
\* down, and the remainder at most twice the root (what nsqrt promises).
THEOREM RootCorrect == Numbers!Spec => []Numbers!RootFound
<1>1. Bracket(aNumber, aRoot, aRest, bitsLeft) => Numbers!RootFound
  BY BracketEnds DEF Numbers!RootFound
<1> QED
  BY <1>1, NumbersInside, PTL

-----------------------------------------------------------------------------
\* The theorems.

\* The words are words, and the bits of the root that are not settled are 0.
WordsInv ==
  /\ number \in 0..pow2[2 * n] - 1
  /\ X \in Array(2 * Words, Word)
  /\ Q \in Array(Words, Word)
  /\ rcx \in 0..n
  /\ cleared \in BOOLEAN
  /\ ~cleared => rcx = n
  /\ cleared => \E u \in Nat : Value(Q) = pow2[rcx] * u

\* At the call the words of X are those of the number.
LEMMA InitWords ==
  ASSUME Init
  PROVE  WordsInv /\ Value(X) = number
<1>0. Words \in Nat \ {0} /\ n \in Nat /\ Base \in Nat \ {0}
  BY WordsAre, PowersAre
<1>1. X \in Array(2 * Words, Word) /\ Value(X) = number
  <2>1. number \in 0..pow2[2 * n]-1 /\ X = WordsOf(number, 2 * Words)
    BY DEF Init
  <2> QED
    BY <2>1, WordsOfIs
<1>2. Q \in Array(Words, Word)
  <2>g. PICK g \in Garbage : Q = [i \in 0..Words - 1 |-> g]
    BY DEF Init
  <2>1. g \in Word
    BY WordAssumption DEF WordAssumption, Word
  <2> QED
    BY <2>g, <2>1 DEF Array
<1>3. number \in 0..pow2[2 * n] - 1 /\ rcx = n /\ cleared = FALSE
  BY DEF Init
<1> QED
  <2>1. rcx \in 0..n /\ cleared \in BOOLEAN /\ (~cleared => rcx = n)
    <3>1. n \in 0..n
      BY <1>0
    <3> QED
      BY <1>3, <3>1, Zenon
  <2>2. cleared => \E u \in Nat : Value(Q) = pow2[rcx] * u
    BY <1>3
  <2> QED
    BY <1>1, <1>2, <1>3, <2>1, <2>2 DEF WordsInv

\* The root cleared by ClearLoop is 0.
LEMMA ZeroWords ==
  ASSUME NEW a, a = [i \in 0..Words - 1 |-> 0]
  PROVE  a \in Array(Words, Word) /\ Value(a) = 0
<1>0. Words \in Nat \ {0} /\ Base \in Nat \ {0} /\ Words \in 0..2 * Words
  BY WordsAre
<1>1. a \in Array(Words, Word)
  BY <1>0 DEF Array, Word, Base
<1>2. a \in Array(Words, Int)
  BY <1>1, WordArray
<1>3. Low(a, Words) = Low(a, 0)
  <2>1. \A i \in 0..Words-1 : a[i] = 0
    OBVIOUS
  <2>2. 0 \in 0..Words /\ Words \in 0..Words
    BY <1>0
  <2> QED
    BY <1>0, <1>2, <2>1, <2>2, LowRest
<1>4. Low(a, 0) = 0 /\ Value(a) = Low(a, Words)
  BY <1>0, <1>2, LowIs, ValueIs
<1> QED
  BY <1>1, <1>3, <1>4

\* A pass over the words is a digit of the algorithm on numbers.
LEMMA MainLoopIsDigit ==
  ASSUME WordsInv, MainLoop
  PROVE  WordsInv' /\ Digits!Digit
<1>t. PICK bit : bit = rcx'
  OBVIOUS
<1>1. /\ cleared = TRUE /\ cleared' = TRUE /\ number' = number /\ rcx > 0 /\ bit = rcx - 1
      /\ bit \in 0..n-1 /\ bit \in 0..n /\ bit + 1 = rcx /\ n \in Nat
  BY <1>t, PowersAre DEF WordsInv, MainLoop
<1>2. X \in Array(2 * Words, Word) /\ Q \in Array(Words, Word) /\ number \in 0..pow2[2 * n] - 1
  BY DEF WordsInv
<1>u. PICK u \in Nat : Value(Q) = pow2[bit + 1] * u
  BY <1>1 DEF WordsInv
<1>a. PICK trial : trial = Trial(Q, bit)
  OBVIOUS
<1>s. PICK set : set = Trial(CHANGE_BIT(trial, bit), bit)
  OBVIOUS
<1>b. PICK back : back = Trial(trial, bit)
  OBVIOUS
<1>3. /\ trial \in Array(Words, Word) /\ set \in Array(Words, Word) /\ back \in Array(Words, Word)
      /\ pow2[bit] \in Nat \ {0}
      /\ Value(set) = Value(Q) + pow2[bit] /\ Value(set) = pow2[bit] * (2 * u + 1)
      /\ Value(back) = Value(Q) /\ Value(back) = pow2[bit] * (2 * u)
      /\ Value(Term(trial, bit)) = 2 * pow2[bit] * Value(Q) + pow2[bit] * pow2[bit]
  BY <1>1, <1>2, <1>u, <1>a, <1>s, <1>b, PassIs
<1>4. Value(X) \in Int
  <2>1. X \in Array(2 * Words, Int) /\ 2 * Words \in 0..2 * Words /\ Words \in Nat
    BY <1>2, WordArray, WordsAre
  <2> QED
    BY <2>1, ValueIs, LowIs
<1>v. PICK v \in Int : v = Value(X)
  BY <1>4
<1>q. PICK q \in Int : q = Value(Q)
  BY <1>3, <1>u, <1>1
<1>p. PICK p \in Nat \ {0} : p = pow2[bit]
  BY <1>3
<1>5. IF RemainderSuffices(trial, bit) THEN X' = Subtract(trial, bit) /\ Q' = set
      ELSE Q' = back /\ X' = X
  BY <1>t, <1>a, <1>s, <1>b DEF MainLoop
<1>6. RemainderSuffices(trial, bit) <=> 2 * p * q + p * p <= v
  BY <1>1, <1>2, <1>3, <1>v, <1>q, <1>p, SufficesIs
<1>7. /\ number' = number /\ rcx' = bit /\ rcx > 0 /\ rcx' = rcx - 1
      /\ (IF cleared THEN Value(Q) ELSE 0) = q /\ Value(X) = v
  BY <1>1, <1>t, <1>q, <1>v
<1>8. CASE RemainderSuffices(trial, bit)
  <2>1. X' = Subtract(trial, bit) /\ Q' = set
    BY <1>5, <1>8
  <2>2. X' \in Array(2 * Words, Word) /\ Value(X') = v - (2 * p * q + p * p)
    <3>1. Value(Term(trial, bit)) <= Value(X)
      BY <1>3, <1>6, <1>8, <1>v, <1>q, <1>p
    <3>x. PICK y : y = X' /\ y = Subtract(trial, bit)
      BY <2>1
    <3>2. y \in Array(2 * Words, Word) /\ Value(y) = Value(X) - Value(Term(trial, bit))
      BY <1>1, <1>2, <1>3, <3>1, <3>x, SubtractIs
    <3> QED
      BY <1>3, <3>2, <3>x, <1>v, <1>q, <1>p
  <2>3. Value(Q') = q + p /\ Value(Q') = pow2[bit] * (2 * u + 1) /\ Q' \in Array(Words, Word)
    BY <1>3, <2>1, <1>q, <1>p
  <2>4. WordsInv'
    <3>1. 2 * u + 1 \in Nat
      OBVIOUS
    <3> QED
      BY <1>1, <1>2, <1>t, <2>2, <2>3, <3>1 DEF WordsInv
  <2>5. (IF cleared THEN Value(Q) ELSE 0)' = q + p /\ Value(X)' = v - (2 * p * q + p * p)
    BY <1>1, <2>2, <2>3
  <2>6. 2 * p * q + p * p <= v
    BY <1>6, <1>8
  <2>7. Digits!Digit
    BY <1>7, <2>5, <2>6, <1>p DEF Digits!Digit, Digits!T
  <2> QED
    BY <2>4, <2>7
<1>9. CASE ~RemainderSuffices(trial, bit)
  <2>1. X' = X /\ Q' = back
    BY <1>5, <1>9
  <2>2. Value(X') = v /\ X' \in Array(2 * Words, Word)
    BY <1>2, <1>v, <2>1
  <2>3. Value(Q') = q /\ Value(Q') = pow2[bit] * (2 * u) /\ Q' \in Array(Words, Word)
    BY <1>3, <2>1, <1>q
  <2>4. WordsInv'
    <3>1. 2 * u \in Nat
      OBVIOUS
    <3> QED
      BY <1>1, <1>2, <1>t, <2>2, <2>3, <3>1 DEF WordsInv
  <2>5. (IF cleared THEN Value(Q) ELSE 0)' = q /\ Value(X)' = v
    BY <1>1, <2>2, <2>3
  <2>6. 2 * p * q + p * p \in Int /\ v < 2 * p * q + p * p
    BY <1>6, <1>9
  <2>7. Digits!Digit
    BY <1>7, <2>5, <2>6, <1>p DEF Digits!Digit, Digits!T
  <2> QED
    BY <2>4, <2>7
<1> QED
  BY <1>8, <1>9

\* At the call X holds the number, which is where the algorithm on numbers starts.
LEMMA InitDigits == Init => Digits!Init
<1> SUFFICES ASSUME Init PROVE Digits!Init
  OBVIOUS
<1>0. n \in Nat
  BY PowersAre
<1>m. PICK m \in Nat : m = n
  BY <1>0
<1>1. pow2[2 * n] = pow2[n] * pow2[n]
  <2>1. m + m <= 2 * n /\ m + m = 2 * n
    BY <1>m
  <2>2. pow2[m + m] = pow2[m] * pow2[m]
    BY <2>1, PowersAdd
  <2> QED
    BY <2>1, <2>2, <1>m
<1>2. Value(X) = number
  BY InitWords
<1> QED
  BY <1>1, <1>2 DEF Init, Digits!Init

\* WordsInv is inductive; clearing the root is not seen by the algorithm on numbers, and
\* a pass is one of its digits.
LEMMA StepDigits == WordsInv /\ [Next]_vars => WordsInv' /\ [Digits!Digit]_(Digits!vars)
<1> SUFFICES ASSUME WordsInv, [Next]_vars PROVE WordsInv' /\ [Digits!Digit]_(Digits!vars)
  OBVIOUS
<1>1. CASE MainLoop
  BY <1>1, MainLoopIsDigit
<1>2. CASE ClearLoop
  <2>1. Q' \in Array(Words, Word) /\ Value(Q') = 0
    <3>a. PICK a : a = Q' /\ a = [i \in 0..Words - 1 |-> 0]
      BY <1>2 DEF ClearLoop
    <3> QED
      BY <3>a, ZeroWords
  <2>2. /\ cleared = FALSE /\ cleared' = TRUE /\ X' = X /\ rcx' = rcx /\ number' = number
        /\ rcx = n
    BY <1>2 DEF ClearLoop, WordsInv
  <2>3. Value(Q') = pow2[rcx'] * 0
    <3>1. pow2[rcx] \in Nat
      <4>1. n \in 0..2 * n
        BY PowersAre
      <4> QED
        BY <2>2, <4>1, PowersAre
    <3> QED
      BY <2>1, <2>2, <3>1
  <2>4. WordsInv'
    BY <2>1, <2>2, <2>3 DEF WordsInv
  <2>5. (IF cleared THEN Value(Q) ELSE 0)' = (IF cleared THEN Value(Q) ELSE 0)
    BY <2>1, <2>2
  <2>6. Value(X)' = Value(X)
    BY <2>2
  <2>7. UNCHANGED Digits!vars
    BY <2>2, <2>5, <2>6 DEF Digits!vars
  <2> QED
    BY <2>4, <2>7
<1>3. CASE UNCHANGED vars
  <2>1. X' = X /\ Q' = Q /\ rcx' = rcx /\ cleared' = cleared /\ number' = number
    BY <1>3 DEF vars
  <2>2. WordsInv'
    BY <2>1 DEF WordsInv
  <2>3. UNCHANGED Digits!vars
    BY <2>1 DEF Digits!vars
  <2> QED
    BY <2>2, <2>3
<1> QED
  BY <1>1, <1>2, <1>3 DEF Next

\* nsqrt on words, with shifts, comparisons and borrows word by word, implements the digit
\* by digit algorithm on numbers, for every number of words and every size of a word.
THEOREM WordsImplementDigits == Spec => ImplementsDigitSqrt
<1>1. Init => WordsInv
  BY InitWords
<1> QED
  BY <1>1, InitDigits, StepDigits, PTL DEF Spec, ImplementsDigitSqrt, Digits!Spec

\* On return Q holds the root of the number rounded down and X the remainder, all words
\* within their bits: what a digit does to the bracket, said of the words.
THEOREM RootOfWords == Spec => []FloorSquareRoot
<1> DEFINE rootOfQ == IF cleared THEN Value(Q) ELSE 0
           Inside == Bracket(number, rootOfQ, Value(X), rcx)
<1>1. Init => WordsInv /\ Inside
  <2> SUFFICES ASSUME Init PROVE WordsInv /\ Inside
    OBVIOUS
  <2>1. /\ number \in 0..pow2[n] * pow2[n] - 1 /\ rootOfQ = 0 /\ Value(X) = number
        /\ rcx = n
    BY InitDigits DEF Digits!Init
  <2> QED
    BY <2>1, BracketStarts, InitWords
<1>2. WordsInv /\ Inside /\ [Next]_vars => (WordsInv /\ Inside)'
  <2> SUFFICES ASSUME WordsInv, Inside, [Next]_vars PROVE WordsInv' /\ Inside'
    OBVIOUS
  <2>1. WordsInv' /\ [Digits!Digit]_(Digits!vars)
    BY StepDigits
  <2>2. CASE UNCHANGED Digits!vars
    <3>1. number' = number /\ rootOfQ' = rootOfQ /\ Value(X)' = Value(X) /\ rcx' = rcx
      BY <2>2 DEF Digits!vars
    <3> HIDE DEF rootOfQ
    <3>2. Inside'
      BY <3>1 DEF Bracket
    <3> QED
      BY <2>1, <3>2
  <2>3. CASE Digits!Digit
    <3>1. PICK x, q, r, left : /\ x = number /\ q = rootOfQ /\ r = Value(X) /\ left = rcx
                               /\ Bracket(x, q, r, left)
      OBVIOUS
    <3>2. PICK root, rest, p : root = rootOfQ' /\ rest = Value(X)' /\ p = pow2[left - 1]
      OBVIOUS
    <3>3. /\ left > 0 /\ rcx' = left - 1 /\ number' = x
          /\ \/ r >= Gain(q, p) /\ root = q + p /\ rest = r - Gain(q, p)
             \/ r < Gain(q, p) /\ root = q /\ rest = r
      BY <2>3, <3>1, <3>2 DEF Digits!Digit, Digits!T, Gain
    <3>4. Bracket(x, root, rest, left - 1)
      BY <3>1, <3>2, <3>3, BracketHolds
    <3> QED
      BY <2>1, <3>2, <3>3, <3>4
  <2> QED
    BY <2>1, <2>2, <2>3
<1>3. WordsInv /\ Inside => FloorSquareRoot
  <2> SUFFICES ASSUME WordsInv, Inside, rcx = 0
               PROVE  LET q == Value(Q)
                      IN  /\ q * q <= number /\ number < (q + 1) * (q + 1)
                          /\ Value(X) = number - q * q
                          /\ \A i \in DOMAIN Q : Q[i] \in Word
    BY DEF FloorSquareRoot
  <2>1. cleared = TRUE
    <3>1. n # 0 /\ n \in Nat
      BY PowersAre
    <3> QED
      BY <3>1 DEF WordsInv
  <2>q. PICK q, r : q = Value(Q) /\ r = Value(X)
    OBVIOUS
  <2>2. Bracket(number, q, r, 0)
    BY <2>1, <2>q
  <2>3. r = number - q * q /\ q * q <= number /\ number < (q + 1) * (q + 1)
    BY <2>2, BracketEnds
  <2>4. \A i \in DOMAIN Q : Q[i] \in Word
    BY DEF WordsInv, Array
  <2> QED
    BY <2>3, <2>4, <2>q
<1> QED
  BY <1>1, <1>2, <1>3, PTL DEF Spec
=============================================================================
