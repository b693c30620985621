----------------------- MODULE KaylesProtocol_proofs -----------------------
(***************************************************************************)
(* The wire format of the Kayles game, for every size of a byte and of a   *)
(* word, any typed fields, any datagrams and any game states.              *)
(*                                                                         *)
(* The writers and the readers of protocol.cpp are inverse to each other.  *)
(* A word is read by adding up its digits: the k lowest give the number    *)
(* modulo the k-th power of the base (OneMoreDigit, WordIsRead).  A byte   *)
(* of a row is a sum of powers of two; what stands above a bit is an even  *)
(* multiple of its weight and what stands below is less than the weight,   *)
(* so that dividing by it leaves the bit (HighBits, BitIsRead).  Joined    *)
(* says what stands where in two sequences put together; with it each      *)
(* field is found where it was written (StateIsWritten, MessageIsRead).    *)
(*                                                                         *)
(* ErrorIsFirst compares the nested checks of deserialize_client_message   *)
(* with the set of the positions at which a datagram is wrong.             *)
(*                                                                         *)
(* The inductive invariant, Inv, says what the exchange has done with what *)
(* was typed (Sent) and with the datagram (Served).                        *)
(***************************************************************************)
EXTENDS KaylesProtocol, FoldTheorems, SequenceTheorems

-----------------------------------------------------------------------------
\* Powers of two.

\* There is a function with the recursion of pow2, so pow2 is one.
LEMMA Pow2Exists ==
  pow2 = [k \in Nat |-> IF k = 0 THEN 1 ELSE 2 * pow2[k - 1]]
<1> DEFINE Body(g) == [k \in Nat |-> IF k = 0 THEN 1 ELSE 2 * g[k - 1]]
<1> DEFINE D == [q \in Nat \X Nat |-> 2 * q[2]]
<1>b. PICK base \in Nat : base = 1
  OBVIOUS
<1>1. D \in [Nat \X Nat -> Nat]
  OBVIOUS
<1>h. PICK h \in [Nat -> Nat] : Recurs(h, base, D)
  <2> HIDE DEF D
  <2> QED
    BY <1>1, NatRecursion
<1>2. h[0] = 1 /\ \A i \in Nat : h[i + 1] = 2 * h[i]
  BY <1>b, <1>h DEF Recurs
<1>3. ASSUME NEW k \in Nat PROVE h[k] = Body(h)[k]
  <2>1. CASE k = 0
    BY <1>2, <2>1
  <2>2. CASE k # 0
    <3>j. PICK j \in Nat : k = j + 1 /\ j = k - 1
      BY <2>2
    <3> QED
      BY <1>2, <2>2, <3>j
  <2> QED
    BY <2>1, <2>2
<1>4. h = Body(h)
  BY <1>3
<1>5. pow2 = CHOOSE g : g = Body(g)
  BY Zenon DEF pow2
<1>6. pow2 = Body(pow2)
  <2> HIDE DEF Body
  <2> QED
    BY <1>4, <1>5, Zenon
<1> QED
  BY <1>6

\* None is zero, and each is twice the one before it.
LEMMA Pow2Is ==
  /\ pow2[0] = 1
  /\ \A k \in Nat : pow2[k] \in Nat \ {0}
  /\ \A k \in Nat : pow2[k + 1] = 2 * pow2[k]
<1> DEFINE G == {k \in Nat : pow2[k] \in Nat \ {0}}
<1>1. pow2[0] = 1
  BY Pow2Exists
<1>2. ASSUME NEW k \in Nat PROVE pow2[k + 1] = 2 * pow2[k]
  <2>1. k + 1 \in Nat /\ k + 1 # 0 /\ (k + 1) - 1 = k
    OBVIOUS
  <2>2. pow2[k + 1] = 2 * pow2[(k + 1) - 1]
    BY <2>1, Pow2Exists
  <2> QED
    BY <2>1, <2>2
<1>3. Nat \subseteq G
  <2>1. 0 \in G
    BY <1>1
  <2>2. ASSUME NEW k \in Nat, k \in G PROVE k + 1 \in G
    BY <1>2, <2>2
  <2> HIDE DEF G
  <2> QED
    BY <2>1, <2>2, SetInduction
<1> QED
  BY <1>1, <1>2, <1>3

\* Exponents add up.
LEMMA Pow2Add ==
  ASSUME NEW i \in Nat, NEW j \in Nat
  PROVE  pow2[i + j] = pow2[i] * pow2[j]
<1> DEFINE G == {k \in Nat : pow2[i + k] = pow2[i] * pow2[k]}
<1>1. 0 \in G
  BY Pow2Is
<1>2. ASSUME NEW k \in Nat, k \in G PROVE k + 1 \in G
  <2>p. PICK p \in Nat : p = pow2[i]
    BY Pow2Is
  <2>q. PICK q \in Nat : q = pow2[k]
    BY Pow2Is
  <2>1. pow2[i + k] = p * q
    BY <1>2, <2>p, <2>q
  <2>s. PICK s \in Nat : s = i + k /\ s + 1 = i + (k + 1)
    OBVIOUS
  <2>2. pow2[s + 1] = 2 * (p * q) /\ pow2[k + 1] = 2 * q
    BY <2>s, <2>q, <2>1, Pow2Is
  <2>3. 2 * (p * q) = p * (2 * q)
    OBVIOUS
  <2> QED
    BY <2>s, <2>p, <2>2, <2>3
<1>3. Nat \subseteq G
  <2> HIDE DEF G
  <2> QED
    BY <1>1, <1>2, SetInduction
<1> QED
  BY <1>3

-----------------------------------------------------------------------------
\* Words.

\* An array is a sequence.
LEMMA ArrayIsSeq ==
  ASSUME NEW S, NEW n \in Nat, NEW f \in [1..n -> S]
  PROVE  f \in Seq(S) /\ Len(f) = n
OBVIOUS

\* The sizes of the layout.
LEMMA Layout ==
  /\ Bits \in Nat \ {0} /\ WordLen \in Nat \ {0}
  /\ ByteMax \in Nat /\ WordMax \in Nat
  /\ ByteMax = pow2[Bits] - 1 /\ WordMax = pow2[Bits * WordLen] - 1
<1>1. Bits \in Nat \ {0} /\ WordLen \in Nat \ {0}
  BY LayoutAssumption DEF LayoutAssumption
<1>2. Bits * WordLen \in Nat
  BY <1>1
<1>3. pow2[Bits] \in Nat \ {0} /\ pow2[Bits * WordLen] \in Nat \ {0}
  BY <1>1, <1>2, Pow2Is
<1> QED
  BY <1>1, <1>3 DEF ByteMax, WordMax

\* The weight of the k-th lowest byte of a word.
LEMMA Weights ==
  /\ pow2[Bits * 0] = 1
  /\ \A k \in Nat : Bits * k \in Nat /\ pow2[Bits * k] \in Nat \ {0}
  /\ \A k \in Nat : pow2[Bits * (k + 1)] = pow2[Bits * k] * pow2[Bits]
<1>1. \A k \in Nat : Bits * k \in Nat /\ Bits * (k + 1) = Bits * k + Bits
  BY Layout
<1>2. Bits * 0 = 0
  BY Layout
<1>3. ASSUME NEW k \in Nat PROVE pow2[Bits * (k + 1)] = pow2[Bits * k] * pow2[Bits]
  BY <1>1, Layout, Pow2Add
<1> QED
  BY <1>1, <1>2, <1>3, Pow2Is

\* A word has WordLen bytes.
LEMMA WordIs ==
  ASSUME NEW v \in Nat
  PROVE  /\ Word(v) \in Seq(0..ByteMax) /\ Len(Word(v)) = WordLen
         /\ \A i \in 1..WordLen :
              /\ Word(v)[i] \in 0..ByteMax
              /\ Word(v)[i] = (v \div pow2[Bits * (WordLen - i)]) % pow2[Bits]
<1>1. ASSUME NEW i \in 1..WordLen
      PROVE  (v \div pow2[Bits * (WordLen - i)]) % pow2[Bits] \in 0..ByteMax
  <2>k. PICK k \in Nat : k = WordLen - i
    BY Layout
  <2>p. PICK p \in Nat \ {0} : p = pow2[Bits * k]
    BY Weights
  <2>b. PICK b \in Nat \ {0} : b = pow2[Bits] /\ ByteMax = b - 1
    BY Layout, Pow2Is
  <2>1. v \div p \in Nat
    BY DivideNat
  <2>q. PICK q \in Nat : q = v \div p
    BY <2>1
  <2>2. q % b \in 0..b-1
    BY DivideNat
  <2> QED
    BY <2>k, <2>p, <2>b, <2>q, <2>2
<1>2. Word(v) \in [1..WordLen -> 0..ByteMax]
  BY <1>1 DEF Word
<1>3. WordLen \in Nat
  BY Layout
<1>4. Word(v) \in Seq(0..ByteMax) /\ Len(Word(v)) = WordLen
  BY <1>2, <1>3, ArrayIsSeq
<1> QED
  BY <1>2, <1>4 DEF Word

\* f has the bytes of the word at o with their weights.
Weighs(f, b, o) == \A i \in 1..WordLen : f[i] = b[o + i] * pow2[Bits * (WordLen - i)]

\* There is such a function.
LEMMA WeightedIs ==
  ASSUME NEW S, S = 1..WordLen, NEW b, NEW o \in Nat, \A i \in S : b[o + i] \in Int
  PROVE  \E f \in [S -> Int] : Weighs(f, b, o)
<1> DEFINE f == [i \in 1..WordLen |-> b[o + i] * pow2[Bits * (WordLen - i)]]
<1>1. ASSUME NEW i \in 1..WordLen PROVE b[o + i] * pow2[Bits * (WordLen - i)] \in Int
  <2>k. PICK k \in Nat : k = WordLen - i
    BY Layout
  <2>1. pow2[Bits * k] \in Nat
    BY Weights
  <2>x. PICK x \in Int : x = b[o + i]
    OBVIOUS
  <2> QED
    BY <2>k, <2>x, <2>1
<1>2. f \in [S -> Int]
  BY <1>1
<1>3. Weighs(f, b, o)
  BY DEF Weighs
<1> QED
  BY <1>2, <1>3

\* WordAt adds up the bytes with their weights.
LEMMA WordAtIs ==
  ASSUME NEW S, S = 1..WordLen, NEW b, NEW o \in Nat, NEW f \in [S -> Int], Weighs(f, b, o)
  PROVE  WordAt(b, o) = Total(f, S)
<1>0. IsFiniteSet(S)
  BY Layout, FS_Interval
<1>w. \A i \in S : f[i] = b[o + i] * pow2[Bits * (WordLen - i)]
  BY DEF Weighs
<1> DEFINE Body(g) == [s \in SUBSET S |->
             IF s = {} THEN 0
             ELSE LET x == CHOOSE x \in s : TRUE
                  IN  b[o + x] * pow2[Bits * (WordLen - x)] + g[s \ {x}]]
<1>h. PICK h \in [SUBSET S -> Int] : SumsUp(h, f, S)
  <2>1. S \in SUBSET S
    OBVIOUS
  <2> QED
    BY <1>0, <2>1, SumsExist
<1>1. h = Body(h)
  <2>1. ASSUME NEW s \in SUBSET S PROVE h[s] = Body(h)[s]
    <3>1. CASE s = {}
      BY <1>h, <3>1 DEF SumsUp
    <3>2. CASE s # {}
      <4>1. Chosen(s) \in S
        BY <3>2, ChosenIn
      <4>2. h[s] = f[Chosen(s)] + h[Others(s)]
        BY <1>h, <3>2 DEF SumsUp
      <4>3. f[Chosen(s)] = b[o + Chosen(s)] * pow2[Bits * (WordLen - Chosen(s))]
        BY <1>w, <4>1
      <4> QED
        BY <3>2, <4>2, <4>3 DEF Chosen, Others
    <3> QED
      BY <3>1, <3>2
  <2> QED
    BY <2>1
<1>i. PICK iter : iter = CHOOSE g : g = Body(g)
  OBVIOUS
<1>2. iter = Body(iter)
  <2> HIDE DEF Body
  <2> QED
    BY <1>1, <1>i, Zenon
<1>3. WordAt(b, o) = iter[S]
  BY <1>i, Zenon DEF WordAt, MapThenSumSet, MapThenFoldSet
<1>4. SumsUp(iter, f, S)
  <2>1. ASSUME NEW s \in SUBSET S
        PROVE  iter[s] = IF s = {} THEN 0 ELSE f[Chosen(s)] + iter[Others(s)]
    <3>1. CASE s = {}
      BY <1>2, <3>1
    <3>2. CASE s # {}
      <4>1. Chosen(s) \in S
        BY <3>2, ChosenIn
      <4>2. iter[s] = b[o + Chosen(s)] * pow2[Bits * (WordLen - Chosen(s))] + iter[Others(s)]
        BY <1>2, <3>2 DEF Chosen, Others
      <4>3. f[Chosen(s)] = b[o + Chosen(s)] * pow2[Bits * (WordLen - Chosen(s))]
        BY <1>w, <4>1
      <4> QED
        BY <3>2, <4>2, <4>3
    <3> QED
      BY <3>1, <3>2
  <2> QED
    BY <2>1 DEF SumsUp
<1>5. Total(f, S) = iter[S]
  <2> HIDE DEF Body
  <2>1. S \in SUBSET S /\ f \in [S -> Int]
    OBVIOUS
  <2>2. \A s \in SUBSET S : Total(f, s) = iter[s] /\ iter[s] \in Int
    BY ONLY <1>0, <1>4, <2>1, TotalIs
  <2> QED
    BY <2>1, <2>2
<1> QED
  BY <1>3, <1>5

\* One more digit of a number.
LEMMA OneMoreDigit ==
  ASSUME NEW v \in Nat, NEW p \in Nat \ {0}, NEW b \in Nat \ {0}
  PROVE  v % (p * b) = (v % p) + ((v \div p) % b) * p
<1>q. PICK q \in Nat : q = v \div p
  BY DivideNat
<1>r. PICK r \in 0..p-1 : r = v % p
  BY DivideNat
<1>1. v = p * q + r
  BY <1>q, <1>r, DivideNat
<1>h. PICK h \in Nat : h = q \div b
  BY DivideNat
<1>d. PICK d \in 0..b-1 : d = q % b
  BY DivideNat
<1>2. q = b * h + d
  BY <1>h, <1>d, DivideNat
<1>m. PICK m \in Nat \ {0} : m = p * b
  <2>1. p * b \in Nat /\ p * b >= p
    BY ProductGrows
  <2> QED
    BY <2>1
<1>l. PICK l \in 0..m-1 : l = d * p + r
  <2>e. PICK e \in Nat : e = (b - 1) - d
    OBVIOUS
  <2>1. d * p \in Nat /\ e * p \in Nat /\ m = d * p + p + e * p
    BY <1>m, <2>e
  <2> QED
    BY <2>1
<1>3. v = m * h + l
  <2>1. p * (b * h + d) = (p * b) * h + d * p
    OBVIOUS
  <2> QED
    BY <1>1, <1>2, <1>m, <1>l, <2>1
<1>4. v % m = l
  BY <1>3, DivisionUnique
<1> QED
  BY <1>4, <1>l, <1>m, <1>d, <1>q, <1>r

\* A number written as a word is read as the same number.
LEMMA WordIsRead ==
  ASSUME NEW v \in 0..WordMax, NEW b, NEW o \in Nat,
         \A i \in 1..WordLen : b[o + i] = Word(v)[i]
  PROVE  WordAt(b, o) = v
<1>n. PICK n \in Nat \ {0} : n = WordLen
  BY Layout
<1>S. PICK S : S = 1..n
  OBVIOUS
<1>v. v \in Nat
  BY Layout
<1>b. PICK base \in Nat \ {0} : base = pow2[Bits]
  BY Layout, Pow2Is
<1>1. ASSUME NEW i \in S PROVE b[o + i] \in Int
  <2>1. b[o + i] = Word(v)[i] /\ Word(v)[i] \in 0..ByteMax
    BY <1>n, <1>S, <1>v, WordIs
  <2> QED
    BY <2>1, Layout
<1>f. PICK f \in [S -> Int] : Weighs(f, b, o)
  BY <1>1, <1>n, <1>S, WeightedIs
<1>w. \A i \in S : f[i] = b[o + i] * pow2[Bits * (n - i)]
  BY <1>f, <1>n, <1>S DEF Weighs
<1>0. WordAt(b, o) = Total(f, S)
  BY <1>f, <1>n, <1>S, WordAtIs
<1> DEFINE G == {k \in Nat : k <= n => Total(f, n-k+1..n) = v % pow2[Bits * k]}
<1>9. IsFiniteSet(S)
  BY <1>S, FS_Interval
<1>t. ASSUME NEW U \in SUBSET S, IsFiniteSet(U), NEW x \in U, NEW T, T = U \ {x}
      PROVE  Total(f, U) = f[x] + Total(f, T)
  BY <1>t, <1>w, TotalOneMore
<1>2. 0 \in G
  <2>1. n-0+1..n = {}
    OBVIOUS
  <2>2. Total(f, {}) = 0
    BY <1>9, <1>w, TotalTyped
  <2>3. v % 1 = 0
    BY <1>v
  <2> QED
    BY <2>1, <2>2, <2>3, Weights
<1>3. ASSUME NEW k \in Nat, k \in G PROVE k + 1 \in G
  <2> SUFFICES ASSUME k + 1 <= n PROVE Total(f, n-(k+1)+1..n) = v % pow2[Bits * (k + 1)]
    OBVIOUS
  <2>x. PICK x \in S : x = n - k
    BY <1>S
  <2>t. PICK T \in SUBSET S : T = n-k+1..n
    BY <1>S
  <2>u. PICK U \in SUBSET S : U = n-(k+1)+1..n
    BY <1>S
  <2>1. x \in U /\ T = U \ {x}
    BY <2>x, <2>t, <2>u
  <2>2. IsFiniteSet(U)
    BY <1>9, FS_Subset
  <2>3. Total(f, U) = f[x] + Total(f, T)
    BY <1>t, <2>1, <2>2, Zenon
  <2>p. PICK p \in Nat \ {0} : p = pow2[Bits * k]
    BY Weights
  <2>4. Total(f, T) = v % p
    BY <1>3, <2>t, <2>p
  <2>5. b[o + x] = (v \div p) % base
    <3>1. b[o + x] = Word(v)[x] /\ Word(v)[x] = (v \div pow2[Bits * (n - x)]) % base
      BY <1>n, <1>S, <1>v, <1>b, WordIs
    <3>2. n - x = k
      BY <2>x
    <3> QED
      BY <2>p, <3>1, <3>2
  <2>6. f[x] = ((v \div p) % base) * p
    <3>1. f[x] = b[o + x] * pow2[Bits * (n - x)] /\ n - x = k
      BY <1>w, <2>x
    <3> QED
      BY <2>p, <2>5, <3>1
  <2>7. pow2[Bits * (k + 1)] = p * base
    BY <1>b, <2>p, Weights
  <2>8. v % (p * base) = (v % p) + ((v \div p) % base) * p
    BY <1>v, OneMoreDigit
  <2>9. v % p \in Int /\ f[x] \in Int
    <3>1. PICK u \in Int : u = v
      BY <1>v
    <3>2. u % p \in Nat
      BY DivisionIs
    <3> QED
      BY <3>1, <3>2
  <2> QED
    BY <2>3, <2>4, <2>6, <2>7, <2>8, <2>9, <2>u
<1>4. Nat \subseteq G
  <2> HIDE DEF G
  <2> QED
    BY <1>2, <1>3, SetInduction
<1>5. Total(f, S) = v % pow2[Bits * n]
  <2>1. Total(f, n-n+1..n) = v % pow2[Bits * n]
    BY <1>4
  <2>2. n-n+1..n = S
    BY <1>S
  <2> QED
    BY <2>1, <2>2
<1>6. v % pow2[Bits * n] = v
  <2>m. PICK m \in Nat \ {0} : m = pow2[Bits * n] /\ WordMax = m - 1
    BY <1>n, Weights, Layout
  <2>1. v \in 0..m-1
    BY <2>m
  <2> QED
    BY <2>m, <2>1, SmallRemainder
<1> QED
  BY <1>0, <1>5, <1>6

-----------------------------------------------------------------------------
\* Rows.

\* The sum of the first k values.
First(f, k) == Total(f, 0..k-1)

\* The sum of the first values, one value at a time.
LEMMA FirstIs ==
  ASSUME NEW n \in Nat, NEW f \in [0..n-1 -> Int]
  PROVE  /\ First(f, 0) = 0
         /\ \A k \in 0..n : First(f, k) \in Int
         /\ \A k \in 0..n-1 : First(f, k + 1) = First(f, k) + f[k]
<1>S. PICK S : S = 0..n-1
  OBVIOUS
<1>g. PICK g \in [S -> Int] : g = f
  BY <1>S
<1>0. IsFiniteSet(S)
  BY <1>S, FS_Interval
<1>1. ASSUME NEW U \in SUBSET S PROVE IsFiniteSet(U) /\ Total(g, U) \in Int /\ Total(g, {}) = 0
  <2>1. IsFiniteSet(U)
    BY <1>0, FS_Subset
  <2> QED
    BY <2>1, TotalTyped
<1>2. ASSUME NEW U \in SUBSET S, IsFiniteSet(U), NEW x \in U, NEW T, T = U \ {x}
      PROVE  Total(g, U) = g[x] + Total(g, T)
  BY <1>2, TotalOneMore
<1>3. ASSUME NEW k \in 0..n-1 PROVE First(f, k + 1) = First(f, k) + f[k]
  <2>u. PICK U \in SUBSET S : U = 0..(k+1)-1
    BY <1>S
  <2>t. PICK T \in SUBSET S : T = 0..k-1
    BY <1>S
  <2>1. k \in U /\ T = U \ {k} /\ k \in S
    BY <1>S, <2>u, <2>t
  <2>2. Total(g, U) = g[k] + Total(g, T)
    BY <1>1, <1>2, <2>1, Zenon
  <2>3. Total(g, T) \in Int /\ g[k] \in Int
    BY <1>1, <2>1
  <2>4. First(f, k + 1) = Total(g, U) /\ First(f, k) = Total(g, T)
    BY <1>g, <2>u, <2>t DEF First
  <2> QED
    BY <1>g, <2>2, <2>3, <2>4
<1>4. First(f, 0) = 0
  <2>1. 0..0-1 = {} /\ {} \in SUBSET S
    OBVIOUS
  <2> QED
    BY <1>1, <1>g, <2>1 DEF First
<1>5. ASSUME NEW k \in 0..n PROVE First(f, k) \in Int
  <2>1. 0..k-1 \in SUBSET S
    BY <1>S
  <2> QED
    BY <1>1, <1>g, <2>1 DEF First
<1> QED
  BY <1>3, <1>4, <1>5

\* f has the bits of A with their weights, the first bit the most significant.
Marks(f, A, n) == \A j \in 0..n-1 : f[j] = IF j \in A THEN pow2[n - 1 - j] ELSE 0

\* The first k of n bits stand above the others.
LEMMA HighBits ==
  ASSUME NEW n \in Nat, NEW f \in [0..n-1 -> Int], NEW A, Marks(f, A, n),
         NEW j \in 0..n
  PROVE  \E h \in Nat : First(f, j) = h * pow2[n - j]
<1> DEFINE G == {k \in Nat : k <= n => \E h \in Nat : First(f, k) = h * pow2[n - k]}
<1>1. 0 \in G
  <2>1. pow2[n - 0] \in Nat
    BY Pow2Is
  <2>2. First(f, 0) = 0 * pow2[n - 0]
    BY <2>1, FirstIs
  <2> QED
    BY <2>2
<1>2. ASSUME NEW k \in Nat, k \in G PROVE k + 1 \in G
  <2> SUFFICES ASSUME k + 1 <= n
               PROVE  \E h \in Nat : First(f, k + 1) = h * pow2[n - (k + 1)]
    OBVIOUS
  <2>h. PICK h \in Nat : First(f, k) = h * pow2[n - k]
    BY <1>2
  <2>e. PICK e \in Nat : e = n - (k + 1) /\ n - k = e + 1 /\ n - 1 - k = e
    OBVIOUS
  <2>p. PICK p \in Nat : p = pow2[e] /\ pow2[n - k] = 2 * p
    BY <2>e, Pow2Is
  <2>d. PICK d \in {0, 1} : f[k] = d * p
    <3>1. f[k] = IF k \in A THEN p ELSE 0
      BY <2>e, <2>p, k \in 0..n-1 DEF Marks
    <3>2. 1 * p = p /\ 0 * p = 0
      OBVIOUS
    <3> QED
      BY <3>1, <3>2
  <2>0. First(f, k + 1) = First(f, k) + f[k]
    BY FirstIs, k \in 0..n-1
  <2>1. First(f, k + 1) = h * (2 * p) + d * p
    BY <2>0, <2>h, <2>p, <2>d
  <2>2. h * (2 * p) + d * p = (2 * h + d) * p
    OBVIOUS
  <2>3. 2 * h + d \in Nat
    OBVIOUS
  <2> QED
    BY <2>1, <2>2, <2>3, <2>e, <2>p
<1>3. Nat \subseteq G
  <2> HIDE DEF G
  <2> QED
    BY <1>1, <1>2, SetInduction
<1> QED
  BY <1>3

\* A bit above r and below h.
LEMMA BitBetween ==
  ASSUME NEW c \in Nat, NEW q \in Nat \ {0}, NEW r \in 0..q-1, NEW t, t = q * c + r,
         NEW h \in Nat, NEW d \in 0..1, c = 2 * h + d
  PROVE  (t \div q) % 2 = d
<1>1. t \div q = c
  <2>1. t = q * c + r
    OBVIOUS
  <2> QED
    BY ONLY <2>1, DivisionUnique
<1>b. PICK b \in Nat \ {0} : b = 2
  OBVIOUS
<1>l. PICK l \in 0..b-1 : l = d
  BY <1>b
<1>2. c = b * h + l
  BY <1>b, <1>l
<1>3. c % b = l
  BY ONLY <1>2, DivisionUnique
<1> QED
  BY <1>1, <1>3, <1>b, <1>l

\* A bit set in a byte is read back, and no other.
LEMMA BitIsRead ==
  ASSUME NEW n \in Nat, NEW f \in [0..n-1 -> Int], NEW A, Marks(f, A, n),
         NEW j \in 0..n-1
  PROVE  (First(f, n) \div pow2[n - 1 - j]) % 2 = 1 <=> j \in A
<1>h. PICK h \in Nat : First(f, j) = h * pow2[n - j]
  BY HighBits, j \in 0..n
<1>e. PICK e \in Nat : e = n - 1 - j /\ n - j = e + 1
  OBVIOUS
<1>q. PICK q \in Nat \ {0} : q = pow2[e] /\ pow2[n - j] = 2 * q
  BY <1>e, Pow2Is
<1>d. PICK d \in {0, 1} : f[j] = d * q /\ (d = 1 <=> j \in A)
  <2>1. f[j] = IF j \in A THEN q ELSE 0
    BY <1>e, <1>q DEF Marks
  <2>2. 1 * q = q /\ 0 * q = 0
    OBVIOUS
  <2> QED
    BY <2>1, <2>2
<1>c. PICK c \in Nat : c = 2 * h + d
  OBVIOUS
<1>1. First(f, j + 1) = c * q
  <2>0. First(f, j + 1) = First(f, j) + f[j]
    BY FirstIs
  <2>1. First(f, j + 1) = h * (2 * q) + d * q
    BY <1>h, <1>q, <1>d, <2>0
  <2>2. h * (2 * q) + d * q = (2 * h + d) * q
    OBVIOUS
  <2> QED
    BY <1>c, <2>1, <2>2
<1> DEFINE G == {k \in Nat : k <= e =>
                   \E r \in Nat : First(f, j + 1 + k) = c * q + r /\ r + pow2[e - k] <= q}
<1>2. 0 \in G
  <2>1. First(f, j + 1 + 0) = c * q + 0
    BY <1>1
  <2>2. 0 + pow2[e - 0] <= q
    BY <1>q
  <2> QED
    BY <2>1, <2>2
<1>3. ASSUME NEW k \in Nat, k \in G PROVE k + 1 \in G
  <2> SUFFICES ASSUME k + 1 <= e
               PROVE  \E r \in Nat : /\ First(f, j + 1 + (k + 1)) = c * q + r
                                     /\ r + pow2[e - (k + 1)] <= q
    OBVIOUS
  <2>r. PICK r \in Nat : First(f, j + 1 + k) = c * q + r /\ r + pow2[e - k] <= q
    BY <1>3
  <2>x. PICK x \in 0..n-1 : x = j + 1 + k /\ x + 1 = j + 1 + (k + 1)
    BY <1>e
  <2>g. PICK g \in Nat : g = e - (k + 1) /\ e - k = g + 1 /\ n - 1 - x = g
    BY <1>e, <2>x
  <2>p. PICK p \in Nat : p = pow2[g] /\ pow2[e - k] = 2 * p
    BY <2>g, Pow2Is
  <2>1. f[x] = IF x \in A THEN p ELSE 0
    BY <2>g, <2>p DEF Marks
  <2>y. PICK y \in 0..p : y = f[x]
    BY <2>1
  <2>0. First(f, x + 1) = First(f, x) + f[x]
    BY FirstIs
  <2>z. PICK z \in Int : z = c * q
    OBVIOUS
  <2>2. First(f, x + 1) = (z + r) + y
    BY <2>0, <2>r, <2>x, <2>y, <2>z
  <2>3. First(f, j + 1 + (k + 1)) = c * q + (r + y)
    BY <2>2, <2>x, <2>z
  <2>4. r + y \in Nat /\ (r + y) + p <= q
    BY <2>r, <2>p
  <2> QED
    BY <2>3, <2>4, <2>g, <2>p
<1>4. Nat \subseteq G
  <2> HIDE DEF G
  <2> QED
    BY <1>2, <1>3, SetInduction
<1>r. PICK r \in Nat : First(f, n) = c * q + r /\ r + 1 <= q
  <2>0. e \in G
    <3> HIDE DEF G
    <3> QED
      BY <1>4
  <2>1. \E r \in Nat : First(f, j + 1 + e) = c * q + r /\ r + pow2[e - e] <= q
    BY <2>0
  <2>2. j + 1 + e = n /\ e - e = 0
    BY <1>e
  <2> QED
    BY <2>1, <2>2, Pow2Is
<1> HIDE DEF G
<1>t. PICK t : t = First(f, n)
  OBVIOUS
<1>l. PICK l \in 0..q-1 : l = r
  BY <1>r
<1>b. PICK b \in 0..1 : b = d
  OBVIOUS
<1>5. t = q * c + l
  BY <1>r, <1>t, <1>l
<1>6. c = 2 * h + b
  BY <1>b, <1>c
<1>7. (t \div q) % 2 = b
  BY <1>5, <1>6, BitBetween
<1> QED
  BY <1>t, <1>7, <1>e, <1>q, <1>d, <1>b

\* Byte k of a row holds the pawns from (k - 1) * Bits on.
ByteOf(row, k) == {j \in 0..Bits-1 : (k - 1) * Bits + j \in row}

\* There is a function with the bits of that byte and their weights.
LEMMA MarksExist ==
  ASSUME NEW A
  PROVE  \E f \in [0..Bits-1 -> Int] : Marks(f, A, Bits)
<1> DEFINE f == [j \in 0..Bits-1 |-> IF j \in A THEN pow2[Bits - 1 - j] ELSE 0]
<1>1. ASSUME NEW j \in 0..Bits-1 PROVE pow2[Bits - 1 - j] \in Int
  <2>1. Bits - 1 - j \in Nat
    BY Layout
  <2> QED
    BY <2>1, Pow2Is
<1>2. f \in [0..Bits-1 -> Int]
  BY <1>1
<1>3. Marks(f, A, Bits)
  BY DEF Marks
<1> QED
  BY <1>2, <1>3

\* PackRow adds up the bits of a byte with their weights.
LEMMA PackRowIs ==
  ASSUME NEW row, NEW m, NEW k \in 1..RowBytes(m), NEW S, S = 0..Bits-1,
         NEW f \in [S -> Int], Marks(f, ByteOf(row, k), Bits)
  PROVE  PackRow(row, m)[k] = Total(f, S)
<1>0. IsFiniteSet(S)
  BY Layout, FS_Interval
<1>w. \A j \in S : f[j] = IF (k - 1) * Bits + j \in row THEN pow2[Bits - 1 - j] ELSE 0
  BY DEF Marks, ByteOf
<1> DEFINE Body(g) == [s \in SUBSET S |->
             IF s = {} THEN 0
             ELSE LET x == CHOOSE x \in s : TRUE
                  IN  (IF (k - 1) * Bits + x \in row THEN pow2[Bits - 1 - x] ELSE 0) + g[s \ {x}]]
<1>h. PICK h \in [SUBSET S -> Int] : SumsUp(h, f, S)
  <2>1. S \in SUBSET S
    OBVIOUS
  <2> QED
    BY <1>0, <2>1, SumsExist
<1>1. h = Body(h)
  <2>1. ASSUME NEW s \in SUBSET S PROVE h[s] = Body(h)[s]
    <3>1. CASE s = {}
      BY <1>h, <3>1 DEF SumsUp
    <3>2. CASE s # {}
      <4>1. Chosen(s) \in S
        BY <3>2, ChosenIn
      <4>2. h[s] = f[Chosen(s)] + h[Others(s)]
        BY <1>h, <3>2 DEF SumsUp
      <4>3. f[Chosen(s)] = IF (k - 1) * Bits + Chosen(s) \in row
                           THEN pow2[Bits - 1 - Chosen(s)] ELSE 0
        BY <1>w, <4>1
      <4> QED
        BY <3>2, <4>2, <4>3 DEF Chosen, Others
    <3> QED
      BY <3>1, <3>2
  <2> QED
    BY <2>1
<1>i. PICK iter : iter = CHOOSE g : g = Body(g)
  OBVIOUS
<1>2. iter = Body(iter)
  <2> HIDE DEF Body
  <2> QED
    BY <1>1, <1>i, Zenon
<1>3. PackRow(row, m)[k] = iter[S]
  BY <1>i, Zenon DEF PackRow, MapThenSumSet, MapThenFoldSet
<1>4. SumsUp(iter, f, S)
  <2>1. ASSUME NEW s \in SUBSET S
        PROVE  iter[s] = IF s = {} THEN 0 ELSE f[Chosen(s)] + iter[Others(s)]
    <3>1. CASE s = {}
      BY <1>2, <3>1
    <3>2. CASE s # {}
      <4>1. Chosen(s) \in S
        BY <3>2, ChosenIn
      <4>2. iter[s] = (IF (k - 1) * Bits + Chosen(s) \in row
                       THEN pow2[Bits - 1 - Chosen(s)] ELSE 0) + iter[Others(s)]
        BY <1>2, <3>2 DEF Chosen, Others
      <4>3. f[Chosen(s)] = IF (k - 1) * Bits + Chosen(s) \in row
                           THEN pow2[Bits - 1 - Chosen(s)] ELSE 0
        BY <1>w, <4>1
      <4> QED
        BY <3>2, <4>2, <4>3
    <3> QED
      BY <3>1, <3>2
  <2> QED
    BY <2>1 DEF SumsUp
<1>5. Total(f, S) = iter[S]
  <2> HIDE DEF Body
  <2>1. S \in SUBSET S /\ f \in [S -> Int]
    OBVIOUS
  <2>2. \A s \in SUBSET S : Total(f, s) = iter[s] /\ iter[s] \in Int
    BY ONLY <1>0, <1>4, <2>1, TotalIs
  <2> QED
    BY <2>1, <2>2
<1> QED
  BY <1>3, <1>5

\* A packed row has a number for each of its bytes, and the bits of the number are its pawns.
LEMMA PackedBits ==
  ASSUME NEW row, NEW m, NEW k \in 1..RowBytes(m)
  PROVE  /\ PackRow(row, m)[k] \in Int
         /\ \A j \in 0..Bits-1 :
              (PackRow(row, m)[k] \div pow2[Bits - 1 - j]) % 2 = 1 <=> (k - 1) * Bits + j \in row
<1>n. PICK n \in Nat \ {0} : n = Bits
  BY Layout
<1>S. PICK S : S = 0..n-1
  OBVIOUS
<1>A. PICK A : A = ByteOf(row, k)
  OBVIOUS
<1>f. PICK f \in [0..n-1 -> Int] : Marks(f, A, n)
  BY <1>n, MarksExist
<1>1. PackRow(row, m)[k] = Total(f, S)
  BY <1>n, <1>S, <1>A, <1>f, PackRowIs
<1>2. Total(f, S) = First(f, n)
  BY <1>S DEF First
<1>3. First(f, n) \in Int
  BY FirstIs
<1>4. ASSUME NEW j \in 0..n-1 PROVE (First(f, n) \div pow2[n - 1 - j]) % 2 = 1 <=> j \in A
  BY <1>f, BitIsRead
<1>5. \A j \in 0..n-1 : j \in A <=> (k - 1) * Bits + j \in row
  BY <1>n, <1>A DEF ByteOf
<1> QED
  BY <1>1, <1>2, <1>3, <1>4, <1>5, <1>n

\* A row that is packed and read is the same row.
LEMMA RowIsRead ==
  ASSUME NEW m \in Nat, NEW row \in SUBSET (0..m), NEW b, NEW o \in Nat,
         \A k \in 1..RowBytes(m) : b[o + k] = PackRow(row, m)[k]
  PROVE  UnpackRow(b, o, m) = row
<1>n. PICK n \in Nat \ {0} : n = Bits
  BY Layout
<1>z. PICK z \in Nat : z = m \div n
  BY DivideNat
<1>r. RowBytes(m) = z + 1
  BY <1>n, <1>z DEF RowBytes
<1>1. ASSUME NEW pawn \in 0..m
      PROVE  (b[o + 1 + pawn \div Bits] \div pow2[Bits - 1 - (pawn % Bits)]) % 2 = 1
               <=> pawn \in row
  <2>p. PICK p \in Nat : p = pawn
    OBVIOUS
  <2>c. PICK c \in Nat : c = p \div n
    BY DivideNat
  <2>j. PICK j \in 0..n-1 : j = p % n
    BY DivideNat
  <2>1. p = n * c + j
    BY <2>c, <2>j, DivideNat
  <2>2. c <= z
    <3>y. PICK y \in 0..n-1 : y = m % n
      BY DivideNat
    <3>1. m = n * z + y
      BY <1>z, <3>y, DivideNat
    <3> SUFFICES ASSUME c > z PROVE FALSE
      OBVIOUS
    <3>d. PICK d \in Nat : d = c - z /\ d > 0
      OBVIOUS
    <3>2. n * d >= n
      BY <3>d, ProductGrows
    <3>3. n * d = n * c - n * z
      BY <3>d
    <3>4. n * c \in Int /\ n * z \in Int
      OBVIOUS
    <3> QED
      BY <2>p, <2>1, <3>1, <3>2, <3>3, <3>4
  <2>k. PICK k \in 1..RowBytes(m) : k = c + 1
    BY <1>r, <2>2
  <2>3. (k - 1) * Bits + j = p
    <3>1. (k - 1) * n = n * c
      BY <2>k
    <3> QED
      BY <1>n, <2>1, <3>1
  <2>4. (PackRow(row, m)[k] \div pow2[Bits - 1 - j]) % 2 = 1 <=> (k - 1) * Bits + j \in row
    BY <1>n, PackedBits
  <2>5. b[o + 1 + c] = PackRow(row, m)[k]
    <3>1. b[o + k] = PackRow(row, m)[k]
      OBVIOUS
    <3>2. o + k = o + 1 + c
      BY <2>k, <1>r
    <3> QED
      BY <3>1, <3>2
  <2> QED
    BY <1>n, <2>p, <2>c, <2>j, <2>3, <2>4, <2>5
<1>2. UnpackRow(b, o, m) = {pawn \in 0..m : pawn \in row}
  BY <1>1 DEF UnpackRow
<1> QED
  BY <1>2

-----------------------------------------------------------------------------
\* What is written one after the other.

\* n numbers, and u is two sequences of them put together.
Numbers(s, n) == s \in Seq(Int) /\ Len(s) = n
Joins(u, s, m, t, n) == /\ Numbers(u, m + n)
                        /\ \A i \in 1..m : u[i] = s[i]
                        /\ \A i \in 1..n : u[m + i] = t[i]

\* What stands where in two sequences put together.
LEMMA Joined ==
  ASSUME NEW m \in Nat, NEW s, Numbers(s, m), NEW n \in Nat, NEW t, Numbers(t, n),
         NEW u, u = s \o t
  PROVE  Joins(u, s, m, t, n)
<1>0. s \in Seq(Int) /\ t \in Seq(Int) /\ Len(s) = m /\ Len(t) = n
  BY DEF Numbers
<1>1. u \in Seq(Int) /\ Len(u) = m + n
  BY <1>0, ConcatProperties
<1>2. \A i \in 1..m+n : u[i] = IF i <= m THEN s[i] ELSE t[i - m]
  BY <1>0, ConcatProperties
<1>3. ASSUME NEW i \in 1..n PROVE u[m + i] = t[i]
  <2>1. m + i \in 1..m+n /\ ~(m + i <= m) /\ (m + i) - m = i
    OBVIOUS
  <2>2. u[m + i] = t[(m + i) - m]
    BY <1>2, <2>1
  <2> QED
    BY <2>1, <2>2
<1>4. ASSUME NEW i \in 1..m PROVE u[i] = s[i]
  <2>1. i \in 1..m+n /\ i <= m
    OBVIOUS
  <2> QED
    BY <1>2, <2>1
<1> QED
  BY <1>1, <1>3, <1>4 DEF Joins, Numbers

\* Two numbers, one number, none.
LEMMA Short ==
  ASSUME NEW x \in Int, NEW y \in Int
  PROVE  /\ Numbers(<<x, y>>, 2) /\ <<x, y>>[1] = x /\ <<x, y>>[2] = y
         /\ Numbers(<<x>>, 1) /\ <<x>>[1] = x
         /\ Numbers(<<>>, 0)
<1>1. <<x, y>> \in Seq(Int) /\ Len(<<x, y>>) = 2
  OBVIOUS
<1>2. <<x>> \in Seq(Int) /\ Len(<<x>>) = 1
  OBVIOUS
<1>3. <<>> \in Seq(Int) /\ Len(<<>>) = 0
  BY EmptySeq
<1> QED
  BY <1>1, <1>2, <1>3 DEF Numbers

\* A word is WordLen numbers.
LEMMA WordNumbers ==
  ASSUME NEW v \in 0..WordMax
  PROVE  Numbers(Word(v), WordLen)
<1>1. v \in Nat /\ 0..ByteMax \subseteq Int
  BY Layout
<1> QED
  BY <1>1, WordIs, SeqMonotonic DEF Numbers

\* The bytes of a game state.
LEMMA StateIsWritten ==
  ASSUME NEW s \in GameStates, NEW b, b = SerializeGameState(s)
  PROVE  /\ \A i \in 1..WordLen : /\ b[0 + i] = Word(s.game_id)[i]
                                  /\ b[WordLen + i] = Word(s.player_a_id)[i]
                                  /\ b[2 * WordLen + i] = Word(s.player_b_id)[i]
         /\ b[PrefixSize + 1] = s.status /\ b[HeaderSize] = s.max_pawn
         /\ \A k \in 1..RowBytes(s.max_pawn) :
              b[HeaderSize + k] = PackRow(s.pawn_row, s.max_pawn)[k]
<1>0. /\ s.game_id \in 0..WordMax /\ s.player_a_id \in 0..WordMax /\ s.player_b_id \in 0..WordMax
      /\ s.status \in Int /\ s.max_pawn \in Nat
  BY StateAssumption, Layout DEF StateAssumption
<1>L. PICK L \in Nat : L = WordLen
  BY Layout
<1>x. PICK x : x = Word(s.game_id) /\ Numbers(x, L)
  BY <1>0, <1>L, WordNumbers
<1>y. PICK y : y = Word(s.player_a_id) /\ Numbers(y, L)
  BY <1>0, <1>L, WordNumbers
<1>z. PICK z : z = Word(s.player_b_id) /\ Numbers(z, L)
  BY <1>0, <1>L, WordNumbers
<1>h. PICK h : h = <<s.status, s.max_pawn>>
  OBVIOUS
<1>5. Numbers(h, 2) /\ h[1] = s.status /\ h[2] = s.max_pawn
  <2>1. PICK c \in Int : c = s.status
    BY <1>0
  <2>2. PICK d \in Int : d = s.max_pawn
    BY <1>0
  <2> QED
    BY <1>h, <2>1, <2>2, Short
<1>r. PICK R \in Nat : R = RowBytes(s.max_pawn)
  <2>n. PICK n \in Nat \ {0} : n = Bits
    BY Layout
  <2>m. PICK m \in Nat : m = s.max_pawn
    BY <1>0
  <2>1. m \div n \in Nat
    BY DivideNat
  <2> QED
    BY <2>n, <2>m, <2>1 DEF RowBytes
<1>p. PICK p : p = PackRow(s.pawn_row, s.max_pawn)
  OBVIOUS
<1>6. Numbers(p, R)
  <2>1. \A k \in 1..R : p[k] \in Int
    BY <1>r, <1>p, PackedBits
  <2>2. p = [k \in 1..R |-> p[k]]
    BY <1>r, <1>p DEF PackRow
  <2>3. p \in [1..R -> Int]
    BY <2>1, <2>2
  <2> QED
    BY <2>3, ArrayIsSeq DEF Numbers
<1>m. PICK m \in Nat : m = L + L
  OBVIOUS
<1>n. PICK n \in Nat : n = m + L
  OBVIOUS
<1>k. PICK k \in Nat : k = n + 2
  OBVIOUS
<1>u. PICK u : u = x \o y
  OBVIOUS
<1>v. PICK v : v = u \o z
  OBVIOUS
<1>w. PICK w : w = v \o h
  OBVIOUS
<1>7. Joins(u, x, L, y, L)
  BY <1>x, <1>y, <1>u, Joined
<1>8. Joins(v, u, m, z, L)
  <2>1. Numbers(u, m)
    BY <1>7, <1>m DEF Joins
  <2> QED
    BY <1>z, <1>v, <2>1, Joined
<1>9. Joins(w, v, n, h, 2)
  <2>1. Numbers(v, n)
    BY <1>8, <1>n DEF Joins
  <2> QED
    BY <1>5, <1>w, <2>1, Joined
<1>10. Joins(b, w, k, p, R)
  <2>1. Numbers(w, k)
    BY <1>9, <1>k DEF Joins
  <2>2. b = w \o p
    BY <1>x, <1>y, <1>z, <1>h, <1>p, <1>u, <1>v, <1>w DEF SerializeGameState
  <2> QED
    BY <1>6, <2>1, <2>2, Joined
<1>1. /\ \A i \in 1..k : b[i] = w[i]
      /\ \A i \in 1..R : b[k + i] = p[i]
  BY <1>10 DEF Joins
<1>2. HeaderSize = k /\ PrefixSize = n /\ 2 * WordLen = m
  BY <1>L, <1>m, <1>n, <1>k DEF HeaderSize, PrefixSize
<1>3. ASSUME NEW i \in 1..L PROVE b[0 + i] = x[i] /\ b[L + i] = y[i] /\ b[m + i] = z[i]
  <2>1. /\ i \in 1..k /\ L + i \in 1..k /\ m + i \in 1..k /\ i \in 1..n /\ L + i \in 1..n
        /\ m + i \in 1..n /\ i \in 1..m /\ L + i \in 1..m /\ 0 + i = i
    BY <1>m, <1>n, <1>k
  <2>2. b[i] = v[i] /\ b[L + i] = v[L + i] /\ b[m + i] = v[m + i]
    BY <1>1, <1>9, <2>1 DEF Joins
  <2>3. v[i] = u[i] /\ v[L + i] = u[L + i] /\ v[m + i] = z[i]
    BY <1>8, <2>1 DEF Joins
  <2>4. u[i] = x[i] /\ u[L + i] = y[i]
    BY <1>7 DEF Joins
  <2> QED
    BY <2>1, <2>2, <2>3, <2>4
<1>4. b[n + 1] = h[1] /\ b[k] = h[2]
  <2>1. n + 1 \in 1..k /\ k \in 1..k /\ k = n + 2 /\ 1 \in 1..2 /\ 2 \in 1..2
    BY <1>k
  <2>2. w[n + 1] = h[1] /\ w[n + 2] = h[2]
    BY <1>9, <2>1 DEF Joins
  <2> QED
    BY <1>1, <2>1, <2>2
<1> QED
  BY <1>1, <1>2, <1>3, <1>4, <1>5, <1>L, <1>r, <1>x, <1>y, <1>z, <1>p

\* A game state that is written and read is the same state, and is not taken for an answer to
\* a wrong message.
LEMMA StateIsRead ==
  ASSUME NEW s \in GameStates
  PROVE  /\ DeserializeGameState(SerializeGameState(s)) = s
         /\ ~IsWrong(SerializeGameState(s))
<1>b. PICK b : b = SerializeGameState(s)
  OBVIOUS
<1>L. PICK L \in Nat : L = WordLen
  BY Layout
<1>0. /\ s \in [game_id : 0..WordMax, player_a_id : 0..WordMax, player_b_id : 0..WordMax,
                status : 0..ByteMax - 1, max_pawn : 0..ByteMax, pawn_row : SUBSET (0..ByteMax)]
      /\ s.pawn_row \subseteq 0..s.max_pawn
  BY StateAssumption DEF StateAssumption
<1>1. /\ \A i \in 1..WordLen : /\ b[0 + i] = Word(s.game_id)[i]
                               /\ b[L + i] = Word(s.player_a_id)[i]
                               /\ b[2 * L + i] = Word(s.player_b_id)[i]
      /\ b[PrefixSize + 1] = s.status /\ b[HeaderSize] = s.max_pawn
      /\ \A k \in 1..RowBytes(s.max_pawn) :
           b[HeaderSize + k] = PackRow(s.pawn_row, s.max_pawn)[k]
  BY <1>b, <1>L, StateIsWritten
<1>2. WordAt(b, 0) = s.game_id
  BY <1>0, <1>1, WordIsRead
<1>3. WordAt(b, L) = s.player_a_id
  BY <1>0, <1>1, WordIsRead
<1>4. WordAt(b, 2 * L) = s.player_b_id
  <2>d. PICK d \in Nat : d = 2 * L
    OBVIOUS
  <2> QED
    BY <1>0, <1>1, <2>d, WordIsRead
<1>5. UnpackRow(b, HeaderSize, s.max_pawn) = s.pawn_row
  <2>m. PICK m \in Nat : m = s.max_pawn
    BY <1>0, Layout
  <2>o. PICK o \in Nat : o = HeaderSize
    BY Layout DEF HeaderSize
  <2>r. PICK row \in SUBSET (0..m) : row = s.pawn_row
    BY <1>0, <2>m
  <2>1. \A k \in 1..RowBytes(m) : b[o + k] = PackRow(row, m)[k]
    BY <1>1, <2>m, <2>o, <2>r
  <2> QED
    BY <2>1, <2>m, <2>o, <2>r, RowIsRead
<1>6. DeserializeGameState(b) = s
  BY <1>0, <1>1, <1>2, <1>3, <1>4, <1>5, <1>L DEF DeserializeGameState
<1>7. ~IsWrong(b)
  BY <1>0, <1>1, Layout DEF IsWrong, WRONG_MESSAGE_STATUS
<1> QED
  BY <1>b, <1>6, <1>7

\* What is refused is read back: its first bytes and the index of the error.
LEMMA WrongIsRead ==
  ASSUME NEW b \in Seq(Int), NEW e \in Int, NEW r,
         r = SerializeWrongMessage(CreateWrongMessage(b, e))
  PROVE  /\ IsWrong(r)
         /\ DeserializeWrongMessage(r).error_index = e
         /\ \A i \in 1..PrefixSize : i <= Len(b) => DeserializeWrongMessage(r).prefix[i] = b[i]
<1>n. PICK n \in Nat : n = PrefixSize
  BY Layout DEF PrefixSize
<1>l. Len(b) \in Nat /\ \A i \in 1..Len(b) : b[i] \in Int
  BY LenProperties, ElementOfSeq
<1>p. PICK p : p = [i \in 1..n |-> IF i <= Len(b) THEN b[i] ELSE 0]
  OBVIOUS
<1>1. p \in [1..n -> Int]
  BY <1>l, <1>p
<1>2. Numbers(p, n)
  BY <1>1, ArrayIsSeq DEF Numbers
<1>w. PICK w \in Int : w = WRONG_MESSAGE_STATUS
  BY Layout DEF WRONG_MESSAGE_STATUS
<1>t. PICK t : t = <<w, e>>
  OBVIOUS
<1>3. Numbers(t, 2) /\ t[1] = w /\ t[2] = e
  BY <1>t, Short
<1>4. Joins(r, p, n, t, 2)
  <2>1. r = p \o t
    BY <1>n, <1>p, <1>t, <1>w DEF SerializeWrongMessage, CreateWrongMessage
  <2> QED
    BY <1>2, <1>3, <2>1, Joined
<1>5. r[n + 1] = w /\ r[n + 2] = e /\ \A i \in 1..n : r[i] = p[i]
  <2>1. 1 \in 1..2 /\ 2 \in 1..2
    OBVIOUS
  <2> QED
    BY <1>3, <1>4, <2>1 DEF Joins
<1>6. IsWrong(r) /\ DeserializeWrongMessage(r).error_index = e
  BY <1>5, <1>n, <1>w DEF IsWrong, DeserializeWrongMessage
<1>7. ASSUME NEW i \in 1..n, i <= Len(b)
      PROVE  DeserializeWrongMessage(r).prefix[i] = b[i]
  <2>q. PICK q : q = SubSeq(r, 1, n)
    OBVIOUS
  <2>1. \A j \in 1..n : r[j] \in Int
    BY <1>1, <1>5
  <2>2. q[i] = r[i]
    <3>1. \A j \in 1..n-1+1 : q[j] = r[1 + j - 1]
      BY <2>1, <2>q, SubSeqProperties
    <3> QED
      BY <3>1
  <2>3. DeserializeWrongMessage(r).prefix = q
    BY <1>n, <2>q DEF DeserializeWrongMessage
  <2> QED
    BY <1>7, <1>p, <1>5, <2>2, <2>3
<1> QED
  BY <1>6, <1>7, <1>n

-----------------------------------------------------------------------------
\* Messages.

\* What parse_client_message accepts: the fields the type carries, each in its range.
Message(m) ==
  /\ m.msg_type \in 0..MAX_MESSAGE_TYPE /\ m.player_id \in 1..WordMax
  /\ m.game_id \in 0..WordMax /\ m.pawn \in 0..ByteMax
  /\ m.msg_type = JOIN => m.game_id = 0
  /\ m.msg_type \notin {MOVE_1, MOVE_2} => m.pawn = 0
  /\ m = [msg_type |-> m.msg_type, player_id |-> m.player_id, game_id |-> m.game_id,
          pawn |-> m.pawn]

\* Typed fields are accepted as a message, or not at all.
LEMMA ParseIs ==
  ASSUME NEW f \in TypedFields, ParseClientMessage(f) # NoMessage
  PROVE  Message(ParseClientMessage(f))
<1>0. f \in Seq(0..WordMax)
  BY InputAssumption DEF InputAssumption
<1>l. PICK l \in Nat : l = Len(f)
  BY <1>0, LenProperties
<1>e. \A i \in 1..l : f[i] \in 0..WordMax
  BY <1>0, <1>l, ElementOfSeq
<1>1. /\ l \in 2..4 /\ f[1] <= MAX_MESSAGE_TYPE /\ f[2] # 0 /\ l = FieldCount(f[1])
      /\ l = 4 => f[4] <= ByteMax
  BY <1>l DEF ParseClientMessage
<1>a. PICK a \in 0..WordMax : a = f[1]
  BY <1>1, <1>e
<1>b. PICK b \in 0..WordMax : b = f[2]
  BY <1>1, <1>e
<1>c. PICK c \in 0..WordMax : c = IF l >= 3 THEN f[3] ELSE 0
  BY <1>1, <1>e, Layout
<1>d. PICK d \in 0..WordMax : d = IF l = 4 THEN f[4] ELSE 0
  BY <1>1, <1>e, Layout
<1>2. ParseClientMessage(f) = [msg_type |-> a, player_id |-> b, game_id |-> c, pawn |-> d]
  BY <1>1, <1>l, <1>a, <1>b, <1>c, <1>d DEF ParseClientMessage
<1>3. a \in 0..MAX_MESSAGE_TYPE /\ b \in 1..WordMax /\ d \in 0..ByteMax
  BY <1>1, <1>a, <1>b, <1>d, Layout DEF MAX_MESSAGE_TYPE
<1>4. (a = JOIN => l = 2) /\ (a \notin {MOVE_1, MOVE_2} => l # 4)
  BY <1>1, <1>a DEF FieldCount, JOIN, MOVE_1, MOVE_2
<1>5. (a = JOIN => c = 0) /\ (a \notin {MOVE_1, MOVE_2} => d = 0)
  BY <1>4, <1>c, <1>d
<1> QED
  BY <1>2, <1>3, <1>5 DEF Message

\* The number of bytes of a message.
LEMMA Lengths ==
  /\ MessageLength(0) = 1 + WordLen
  /\ MessageLength(1) = (1 + 2 * WordLen) + 1 /\ MessageLength(2) = (1 + 2 * WordLen) + 1
  /\ MessageLength(3) = 1 + 2 * WordLen /\ MessageLength(4) = 1 + 2 * WordLen
  /\ PlayerOffset = 1 /\ GameOffset = 1 + WordLen /\ PawnOffset = 1 + 2 * WordLen
  /\ JoinLength = 1 + WordLen
BY DEF MessageLength, JOIN, MOVE_1, MOVE_2, KEEP_ALIVE, GIVE_UP, PlayerOffset, GameOffset,
       PawnOffset, JoinLength

\* A message that is written and read is the same message.
LEMMA MessageIsRead ==
  ASSUME NEW m, Message(m), NEW b, b = SerializeClientMessage(m)
  PROVE  /\ Numbers(b, MessageLength(m.msg_type)) /\ b[1] = m.msg_type
         /\ WordAt(b, PlayerOffset) = m.player_id
         /\ m.msg_type # JOIN => WordAt(b, GameOffset) = m.game_id
         /\ Deserialize(b) = m
<1>L. PICK L \in Nat : L = WordLen
  BY Layout
<1>t. PICK t \in 0..4 : t = m.msg_type
  BY DEF Message, MAX_MESSAGE_TYPE
<1>x. PICK x : x = <<t>>
  OBVIOUS
<1>y. PICK y : y = Word(m.player_id)
  OBVIOUS
<1>z. PICK z : z = Word(m.game_id)
  OBVIOUS
<1>w. PICK w : w = <<m.pawn>>
  OBVIOUS
<1>1. Numbers(x, 1) /\ x[1] = t /\ Numbers(y, L) /\ Numbers(z, L) /\ Numbers(w, 1) /\ w[1] = m.pawn
  <2>1. m.player_id \in 0..WordMax /\ m.game_id \in 0..WordMax /\ m.pawn \in 0..ByteMax
    BY Layout DEF Message
  <2>2. PICK c \in Int : c = m.pawn
    BY <2>1, Layout
  <2>3. t \in Int
    OBVIOUS
  <2> QED
    BY <1>L, <1>x, <1>y, <1>z, <1>w, <2>1, <2>2, <2>3, Short, WordNumbers
<1>u. PICK u : u = x \o y
  OBVIOUS
<1>v. PICK v : v = u \o z
  OBVIOUS
<1>k. PICK k \in Nat : k = 1 + L
  OBVIOUS
<1>n. PICK n \in Nat : n = k + L
  OBVIOUS
<1>2. Joins(u, x, 1, y, L)
  BY <1>1, <1>u, Joined
<1>3. Joins(v, u, k, z, L)
  <2>1. Numbers(u, k)
    BY <1>2, <1>k DEF Joins
  <2> QED
    BY <1>1, <1>v, <2>1, Joined
<1>4. u[1] = t /\ (\A i \in 1..L : u[1 + i] = y[i]) /\ Numbers(u, k)
  <2>1. 1 \in 1..1
    OBVIOUS
  <2> QED
    BY <1>1, <1>2, <1>k, <2>1 DEF Joins
<1>5. v[1] = t /\ (\A i \in 1..L : v[1 + i] = y[i] /\ v[k + i] = z[i]) /\ Numbers(v, n)
  <2>1. 1 \in 1..k /\ \A i \in 1..L : 1 + i \in 1..k
    BY <1>k
  <2> QED
    BY <1>3, <1>4, <1>n, <2>1 DEF Joins
<1>6. /\ u \o <<>> = u /\ v \o <<>> = v
  BY <1>4, <1>5, ConcatEmptySeq DEF Numbers
<1>7. /\ t = 0 => b = u
      /\ t \in {3, 4} => b = v
      /\ t \in {1, 2} => b = v \o w
  <2>1. b = (u \o (IF t = 0 THEN <<>> ELSE z)) \o (IF t \in {1, 2} THEN w ELSE <<>>)
    BY <1>t, <1>x, <1>y, <1>z, <1>w, <1>u DEF SerializeClientMessage, JOIN, MOVE_1, MOVE_2
  <2>2. CASE t = 0
    BY <1>6, <2>1, <2>2
  <2>3. CASE t \in {3, 4}
    <3>1. ~(t = 0) /\ ~(t \in {1, 2})
      BY <2>3
    <3>2. b = (u \o z) \o <<>>
      BY <2>1, <3>1, Zenon
    <3> QED
      BY <1>6, <1>v, <3>1, <3>2, Zenon
  <2>4. CASE t \in {1, 2}
    <3>1. ~(t = 0) /\ ~(t \in {3, 4})
      BY <2>4
    <3>2. b = (u \o z) \o w
      BY <2>1, <2>4, <3>1, Zenon
    <3> QED
      BY <1>v, <3>1, <3>2, Zenon
  <2> QED
    BY <2>2, <2>3, <2>4
<1>8. t \in {1, 2} => /\ Numbers(b, n + 1) /\ b[n + 1] = m.pawn
                      /\ \A i \in 1..n : b[i] = v[i]
  <2> SUFFICES ASSUME t \in {1, 2}
               PROVE  Numbers(b, n + 1) /\ b[n + 1] = m.pawn /\ \A i \in 1..n : b[i] = v[i]
    OBVIOUS
  <2>1. b = v \o w
    BY <1>7
  <2>2. Joins(b, v, n, w, 1)
    BY <1>1, <1>5, <2>1, Joined
  <2>3. 1 \in 1..1
    OBVIOUS
  <2> QED
    BY <1>1, <2>2, <2>3 DEF Joins
<1>9. b[1] = t /\ \A i \in 1..L : b[1 + i] = y[i]
  <2>1. 1 \in 1..n /\ \A i \in 1..L : 1 + i \in 1..n
    BY <1>k, <1>n
  <2>2. CASE t = 0
    BY <1>4, <1>7, <2>2
  <2>3. CASE t \in {3, 4}
    BY <1>5, <1>7, <2>3
  <2>4. CASE t \in {1, 2}
    BY <1>5, <1>8, <2>1, <2>4
  <2> QED
    BY <2>2, <2>3, <2>4
<1>10. t # 0 => \A i \in 1..L : b[k + i] = z[i]
  <2>1. \A i \in 1..L : k + i \in 1..n
    BY <1>k, <1>n
  <2>3. CASE t \in {3, 4}
    BY <1>5, <1>7, <2>3
  <2>4. CASE t \in {1, 2}
    BY <1>5, <1>8, <2>1, <2>4
  <2> QED
    BY <2>3, <2>4
<1>o. PlayerOffset = 1 /\ GameOffset = k /\ PawnOffset = n
  BY <1>L, <1>k, <1>n, Lengths
<1>11. Numbers(b, MessageLength(t))
  <2>1. CASE t = 0
    BY <1>4, <1>7, <1>k, <1>L, <2>1, Lengths
  <2>2. CASE t \in {3, 4}
    BY <1>5, <1>7, <1>k, <1>n, <1>L, <2>2, Lengths
  <2>3. CASE t \in {1, 2}
    <3>1. MessageLength(t) = n + 1
      BY <1>k, <1>n, <1>L, <2>3, Lengths
    <3> QED
      BY <1>8, <2>3, <3>1
  <2> QED
    BY <2>1, <2>2, <2>3
<1>12. WordAt(b, PlayerOffset) = m.player_id
  <2>p. PICK p \in 0..WordMax : p = m.player_id
    BY Layout DEF Message
  <2>o. PICK o \in Nat : o = PlayerOffset
    BY <1>o
  <2>1. \A i \in 1..WordLen : b[o + i] = Word(p)[i]
    BY <1>9, <1>y, <1>L, <1>o, <2>p, <2>o
  <2> QED
    BY <2>1, <2>p, <2>o, WordIsRead
<1>13. t # 0 => WordAt(b, GameOffset) = m.game_id
  <2> SUFFICES ASSUME t # 0 PROVE WordAt(b, GameOffset) = m.game_id
    OBVIOUS
  <2>p. PICK p \in 0..WordMax : p = m.game_id
    BY DEF Message
  <2>o. PICK o \in Nat : o = GameOffset
    BY <1>o
  <2>1. \A i \in 1..WordLen : b[o + i] = Word(p)[i]
    BY <1>10, <1>z, <1>L, <1>o, <2>p, <2>o
  <2> QED
    BY <2>1, <2>p, <2>o, WordIsRead
<1>14. Deserialize(b) = m
  <2>1. Deserialize(b) = [msg_type |-> t, player_id |-> m.player_id,
                          game_id |-> IF t = 0 THEN 0 ELSE m.game_id,
                          pawn |-> IF t \in {1, 2} THEN m.pawn ELSE 0]
    BY <1>8, <1>9, <1>12, <1>13, <1>o DEF Deserialize, JOIN, MOVE_1, MOVE_2
  <2>2. /\ t = 0 => m.game_id = 0
        /\ t \notin {1, 2} => m.pawn = 0
        /\ m = [msg_type |-> t, player_id |-> m.player_id, game_id |-> m.game_id,
                pawn |-> m.pawn]
    BY <1>t DEF Message, JOIN, MOVE_1, MOVE_2
  <2>3. /\ m.game_id = IF t = 0 THEN 0 ELSE m.game_id
        /\ m.pawn = IF t \in {1, 2} THEN m.pawn ELSE 0
    BY <2>2
  <2> QED
    BY <2>1, <2>2, <2>3
<1> QED
  BY <1>9, <1>11, <1>12, <1>13, <1>14, <1>t DEF JOIN

-----------------------------------------------------------------------------
\* Errors.

\* The least element of a set is its minimum.
LEMMA LeastIsMin ==
  ASSUME NEW S \in SUBSET Int, NEW x \in S, \A y \in S : x <= y
  PROVE  Min(S) = x
<1>1. \A y \in S : (\A z \in S : y <= z) => y = x
  OBVIOUS
<1> QED
  BY <1>1, Zenon DEF Min

\* The error reported is the first, for any datagram and any games.
LEMMA ErrorIsFirst ==
  ASSUME NEW b \in Seq(Int), b # <<>> => b[1] \in Nat, NEW mem,
         NEW E, E = ErrorPositions(b, mem), NEW e, e = DeserializeError(b, mem)
  PROVE  /\ E = {} => e = -1 /\ Len(b) > 0
         /\ E # {} => e \in Nat /\ e = Min(E)
<1>n. PICK n \in Nat : n = Len(b)
  BY LenProperties
<1>L. PICK L \in Nat \ {0} : L = WordLen
  BY Layout
<1>t. PICK t : t = b[1]
  OBVIOUS
<1>1. n > 0 => t \in Nat
  <2>1. n > 0 => b # <<>>
    BY <1>n, EmptySeq
  <2> QED
    BY <1>t, <2>1
<1>p. PICK p : p = WordAt(b, PlayerOffset)
  OBVIOUS
<1>g. PICK g \in BOOLEAN : g = (<<WordAt(b, GameOffset), p>> \notin mem)
  OBVIOUS
<1>m. PICK m : m = MessageLength(t)
  OBVIOUS
<1>2. /\ t = 0 => m = 1 + L
      /\ t \in {1, 2} => m = 2 + 2 * L
      /\ t \in {3, 4} => m = 1 + 2 * L
  BY <1>m, <1>L, Lengths
<1>o. PlayerOffset = 1 /\ GameOffset = 1 + L /\ PawnOffset = 1 + 2 * L /\ JoinLength = 1 + L
  BY <1>L, Lengths
<1>E. \A i : i \in E <=>
        /\ i \in 0..n
        /\ \/ i = 0 /\ ~(n > 0 /\ t <= 4)
           \/ (n > 0 /\ t <= 4) /\ i = 1 /\ n >= 1 + L /\ p = 0
           \/ (n > 0 /\ t <= 4) /\ i = 1 + L /\ n >= 1 + 2 * L /\ t # 0 /\ g
           \/ (n > 0 /\ t <= 4) /\ i = n /\ n < m
           \/ (n > 0 /\ t <= 4) /\ i = m /\ n > m
  BY <1>n, <1>t, <1>p, <1>g, <1>m, <1>o DEF ErrorPositions, MAX_MESSAGE_TYPE, JOIN
<1>S. E \in SUBSET Int
  BY <1>E
<1>3. CASE ~(n > 0 /\ t <= 4)
  <2>1. e = 0
    BY <1>n, <1>t, <1>1, <1>3 DEF DeserializeError, MAX_MESSAGE_TYPE
  <2>2. 0 \in E /\ \A y \in E : 0 <= y
    BY <1>E, <1>3
  <2>3. Min(E) = 0
    BY <1>S, <2>2, LeastIsMin
  <2> QED
    BY <2>1, <2>2, <2>3
<1>4. CASE n > 0 /\ t <= 4
  <2>t. t \in 0..4
    BY <1>1, <1>4
  <2>m. PICK k \in Nat : k = m
    BY <1>2, <2>t
  <2>D. /\ n < 1 + L => e = n
        /\ n >= 1 + L /\ p = 0 => e = 1
        /\ n >= 1 + L /\ p # 0 /\ t # 0 /\ n < 1 + 2 * L => e = n
        /\ n >= 1 + L /\ p # 0 /\ t # 0 /\ n >= 1 + 2 * L /\ g => e = 1 + L
        /\ n >= 1 + L /\ p # 0 /\ (t = 0 \/ (n >= 1 + 2 * L /\ ~g)) =>
             e = IF n = m THEN -1 ELSE Min({n, m})
    <3>1. ASSUME n < 1 + L PROVE e = n
      BY <1>n, <1>t, <1>o, <1>4, <3>1 DEF DeserializeError, MAX_MESSAGE_TYPE
    <3>2. ASSUME n >= 1 + L, p = 0 PROVE e = 1
      BY <1>n, <1>t, <1>p, <1>o, <1>4, <3>2 DEF DeserializeError, MAX_MESSAGE_TYPE
    <3>3. ASSUME n >= 1 + L, p # 0, t # 0, n < 1 + 2 * L PROVE e = n
      BY <1>n, <1>t, <1>p, <1>o, <1>4, <3>3 DEF DeserializeError, MAX_MESSAGE_TYPE, JOIN
    <3>i. n >= 1 + L =>
            e = CASE p = 0 -> 1
                  [] p # 0 /\ t # 0 /\ n < 1 + 2 * L -> n
                  [] p # 0 /\ t # 0 /\ n >= 1 + 2 * L /\ g -> 1 + L
                  [] OTHER -> IF n = m THEN -1 ELSE Min({n, m})
      <4> SUFFICES ASSUME n >= 1 + L
                   PROVE  e = CASE p = 0 -> 1
                                [] p # 0 /\ t # 0 /\ n < 1 + 2 * L -> n
                                [] p # 0 /\ t # 0 /\ n >= 1 + 2 * L /\ g -> 1 + L
                                [] OTHER -> IF n = m THEN -1 ELSE Min({n, m})
        OBVIOUS
      <4>1. n # 0 /\ ~(n > 0 /\ t > 4) /\ ~(n > 0 /\ t <= 4 /\ n < 1 + L)
        BY <2>t
      <4> QED
        BY <1>n, <1>t, <1>p, <1>g, <1>m, <1>o, <4>1 DEF DeserializeError, MAX_MESSAGE_TYPE, JOIN
    <3>4. ASSUME n >= 1 + L, p # 0, t # 0, n >= 1 + 2 * L, g PROVE e = 1 + L
      BY <3>i, <3>4
    <3>5. ASSUME n >= 1 + L, p # 0, t = 0 \/ (n >= 1 + 2 * L /\ ~g)
          PROVE  e = IF n = m THEN -1 ELSE Min({n, m})
      BY <3>i, <3>5
    <3> QED
      BY <3>1, <3>2, <3>3, <3>4, <3>5
  <2>1. CASE n < 1 + L
    <3>1. n \in E /\ \A y \in E : n <= y
      BY <1>E, <1>2, <1>4, <2>t, <2>1
    <3>2. Min(E) = n
      BY <1>S, <3>1, LeastIsMin
    <3> QED
      BY <2>D, <2>1, <3>1, <3>2
  <2>2. CASE n >= 1 + L /\ p = 0
    <3>1. 1 \in E /\ \A y \in E : 1 <= y
      BY <1>E, <1>2, <1>4, <2>t, <2>2
    <3>2. Min(E) = 1
      BY <1>S, <3>1, LeastIsMin
    <3> QED
      BY <2>D, <2>2, <3>1, <3>2
  <2>3. CASE n >= 1 + L /\ p # 0 /\ t # 0 /\ n < 1 + 2 * L
    <3>1. n \in E /\ \A y \in E : n <= y
      BY <1>E, <1>2, <1>4, <2>t, <2>3
    <3>2. Min(E) = n
      BY <1>S, <3>1, LeastIsMin
    <3> QED
      BY <2>D, <2>3, <3>1, <3>2
  <2>4. CASE n >= 1 + L /\ p # 0 /\ t # 0 /\ n >= 1 + 2 * L /\ g
    <3>1. 1 + L \in E /\ \A y \in E : 1 + L <= y
      BY <1>E, <1>2, <1>4, <2>t, <2>4
    <3>x. PICK x \in E : x = 1 + L
      BY <3>1
    <3>2. Min(E) = x
      BY <1>S, <3>1, <3>x, LeastIsMin
    <3> QED
      BY <2>D, <2>4, <3>1, <3>2, <3>x
  <2>5. CASE n >= 1 + L /\ p # 0 /\ (t = 0 \/ (n >= 1 + 2 * L /\ ~g))
    <3>D. e = IF n = m THEN -1 ELSE Min({n, m})
      BY <2>D, <2>5
    <3>E. \A i : i \in E <=> (i = n /\ n < m) \/ (i = m /\ n > m)
      BY <1>E, <1>2, <1>4, <2>t, <2>5, <2>m
    <3>1. CASE n = m
      <4>1. E = {}
        BY <3>E, <3>1
      <4> QED
        BY <1>4, <1>n, <3>D, <3>1, <4>1
    <3>2. CASE n < m
      <4>1. E = {n}
        BY <2>m, <3>E, <3>2
      <4>2. {n, k} \in SUBSET Int /\ \A y \in {n, k} : n <= y
        BY <2>m, <3>2
      <4>3. Min({n, k}) = n /\ Min(E) = n
        BY <1>S, <4>1, <4>2, LeastIsMin
      <4> QED
        BY <2>m, <3>D, <3>2, <4>1, <4>3
    <3>3. CASE n > m
      <4>1. E = {k}
        BY <2>m, <3>E, <3>3
      <4>2. {n, k} \in SUBSET Int /\ \A y \in {n, k} : k <= y
        BY <2>m, <3>3
      <4>3. Min({n, k}) = k /\ Min(E) = k
        BY <1>S, <4>1, <4>2, LeastIsMin
      <4> QED
        BY <2>m, <3>D, <3>3, <4>1, <4>3
    <3> QED
      BY <2>m, <3>1, <3>2, <3>3
  <2> QED
    BY <2>1, <2>2, <2>3, <2>4, <2>5, <1>g
<1> QED
  BY <1>3, <1>4

-----------------------------------------------------------------------------
\* The exchange.

\* What the fields typed have become.
Sent == /\ fields \in TypedFields
        /\ ParseClientMessage(fields) # NoMessage
        /\ request = SerializeClientMessage(ParseClientMessage(fields))

\* What the server does with the datagram.
Served ==
  \/ /\ DeserializeError(request, members) = -1
     /\ decoded = Deserialize(request)
     /\ reply = SerializeGameState(state)
  \/ /\ DeserializeError(request, members) # -1
     /\ decoded = NoMessage
     /\ reply = SerializeWrongMessage(
                  CreateWrongMessage(request, DeserializeError(request, members)))

\* The inductive invariant.
Inv ==
  /\ stage \in {"typing", "sent", "answered", "rejected"}
  /\ state \in GameStates
  /\ request \in Seq(Int) /\ (request # <<>> => request[1] \in Nat)
  /\ stage = "typing" => fields = <<>>
  /\ stage \in {"typing", "sent"} => decoded = NoMessage
  /\ stage \in {"sent", "answered"} /\ fields # <<>> => Sent
  /\ stage = "answered" => Served

\* The client program sends bytes that begin with a number.
LEMMA SentIsBytes ==
  ASSUME NEW f \in TypedFields, ParseClientMessage(f) # NoMessage,
         NEW b, b = SerializeClientMessage(ParseClientMessage(f))
  PROVE  b \in Seq(Int) /\ b[1] \in Nat
<1>m. PICK m : m = ParseClientMessage(f)
  OBVIOUS
<1>1. Message(m)
  BY <1>m, ParseIs
<1>2. Numbers(b, MessageLength(m.msg_type)) /\ b[1] = m.msg_type
  BY <1>m, <1>1, MessageIsRead
<1> QED
  BY <1>1, <1>2 DEF Numbers, Message

\* Every step of the exchange keeps the invariant.
LEMMA InvStep ==
  ASSUME Inv, [Next]_vars
  PROVE  Inv'
<1>1. CASE Type
  <2>f. PICK f \in TypedFields :
          /\ fields' = f
          /\ IF ParseClientMessage(f) = NoMessage
             THEN stage' = "rejected" /\ UNCHANGED request
             ELSE /\ stage' = "sent"
                  /\ request' = SerializeClientMessage(ParseClientMessage(f))
    BY <1>1 DEF Type
  <2>1. stage = "typing" /\ UNCHANGED <<members, decoded, state, reply>>
    BY <1>1 DEF Type
  <2>2. CASE ParseClientMessage(f) = NoMessage
    BY <2>f, <2>1, <2>2 DEF Inv
  <2>3. CASE ParseClientMessage(f) # NoMessage
    <3>1. request' \in Seq(Int) /\ request'[1] \in Nat
      BY <2>f, <2>3, SentIsBytes
    <3>2. Sent'
      BY <2>f, <2>3 DEF Sent
    <3> QED
      BY <2>f, <2>1, <2>3, <3>1, <3>2 DEF Inv
  <2> QED
    BY <2>2, <2>3
<1>2. CASE SendBytes
  <2>b. PICK b \in Datagrams : request' = b
    BY <1>2 DEF SendBytes
  <2>1. b \in Seq(0..ByteMax)
    BY InputAssumption DEF InputAssumption
  <2>2. b \in Seq(Int) /\ (b # <<>> => b[1] \in Nat)
    <3>1. 0..ByteMax \subseteq Int
      BY Layout
    <3>2. b \in Seq(Int)
      BY <2>1, <3>1, SeqMonotonic
    <3>3. b # <<>> => Len(b) \in Nat \ {0}
      BY <2>1, EmptySeq
    <3>4. b # <<>> => b[1] \in 0..ByteMax
      <4>S. PICK S : S = 0..ByteMax
        OBVIOUS
      <4>1. b \in Seq(S) /\ (b # <<>> => 1 \in 1..Len(b))
        BY <2>1, <3>3, <4>S
      <4>2. b # <<>> => b[1] \in S
        BY <4>1, ElementOfSeq
      <4> QED
        BY <4>S, <4>2
    <3> QED
      BY <3>2, <3>4, Layout
  <2> QED
    BY <1>2, <2>b, <2>2 DEF Inv, SendBytes
<1>3. CASE Serve
  <2>1. Served'
    <3>e. PICK e : e = DeserializeError(request, members)
      OBVIOUS
    <3>0. decoded = NoMessage /\ UNCHANGED <<fields, members, request, state>>
      BY <1>3 DEF Inv, Serve
    <3>1. IF e = -1
          THEN /\ decoded' = Deserialize(request)
               /\ reply' = SerializeGameState(state)
          ELSE /\ reply' = SerializeWrongMessage(CreateWrongMessage(request, e))
               /\ UNCHANGED decoded
      BY <1>3, <3>e DEF Serve
    <3> QED
      BY <3>e, <3>0, <3>1 DEF Served
  <2>2. Sent => Sent'
    BY <1>3 DEF Sent, Serve
  <2> QED
    BY <1>3, <2>1, <2>2 DEF Inv, Serve
<1>4. CASE UNCHANGED vars
  BY <1>4 DEF Inv, Sent, Served, vars
<1> QED
  BY <1>1, <1>2, <1>3, <1>4 DEF Next

\* The invariant holds.
LEMMA InvHolds == Spec => []Inv
<1>1. Init => Inv
  <2>1. <<>> \in Seq(Int)
    BY EmptySeq
  <2> QED
    BY <2>1 DEF Init, Inv
<1> QED
  BY <1>1, InvStep, PTL DEF Spec

\* What the server makes of a datagram, from the first error in it.
LEMMA ServedIs ==
  ASSUME Inv, Answered, NEW E, E = ErrorPositions(request, members)
  PROVE  /\ E = {} => /\ decoded = Deserialize(request) /\ reply = SerializeGameState(state)
                      /\ decoded.msg_type = request[1] /\ decoded # NoMessage
                      /\ ~IsWrong(reply) /\ DeserializeGameState(reply) = state
         /\ E # {} => /\ decoded = NoMessage /\ IsWrong(reply)
                      /\ DeserializeWrongMessage(reply).error_index = Min(E)
                      /\ \A i \in 1..PrefixSize : i <= Len(request) =>
                           DeserializeWrongMessage(reply).prefix[i] = request[i]
<1>b. PICK b \in Seq(Int) : b = request /\ (b # <<>> => b[1] \in Nat)
  BY DEF Inv
<1>e. PICK e : e = DeserializeError(b, members)
  OBVIOUS
<1>m. PICK mem : mem = members
  OBVIOUS
<1>1. /\ E = {} => e = -1 /\ Len(b) > 0
      /\ E # {} => e \in Nat /\ e = Min(E)
  BY <1>b, <1>e, <1>m, ErrorIsFirst
<1>2. Served
  BY DEF Inv, Answered
<1>3. ASSUME E = {}
      PROVE  /\ decoded = Deserialize(request) /\ reply = SerializeGameState(state)
             /\ decoded.msg_type = request[1] /\ decoded # NoMessage
             /\ ~IsWrong(reply) /\ DeserializeGameState(reply) = state
  <2>1. decoded = Deserialize(request) /\ reply = SerializeGameState(state)
    BY <1>b, <1>e, <1>1, <1>2, <1>3 DEF Served
  <2>2. b # <<>>
    BY <1>1, <1>3, EmptySeq
  <2>3. decoded.msg_type = b[1] /\ b[1] \in Nat
    BY <1>b, <2>1, <2>2 DEF Deserialize
  <2>4. decoded # NoMessage
    BY <2>3 DEF NoMessage
  <2>5. ~IsWrong(reply) /\ DeserializeGameState(reply) = state
    BY <2>1, StateIsRead DEF Inv
  <2> QED
    BY <1>b, <2>1, <2>3, <2>4, <2>5
<1>4. ASSUME E # {}
      PROVE  /\ decoded = NoMessage /\ IsWrong(reply)
             /\ DeserializeWrongMessage(reply).error_index = Min(E)
             /\ \A i \in 1..PrefixSize : i <= Len(request) =>
                  DeserializeWrongMessage(reply).prefix[i] = request[i]
  <2>1. e \in Int /\ e # -1 /\ e = Min(E)
    BY <1>1, <1>4
  <2>2. decoded = NoMessage /\ reply = SerializeWrongMessage(CreateWrongMessage(b, e))
    BY <1>b, <1>e, <1>2, <2>1 DEF Served
  <2>r. PICK r : r = reply
    OBVIOUS
  <2>3. /\ IsWrong(r)
        /\ DeserializeWrongMessage(r).error_index = e
        /\ \A i \in 1..PrefixSize : i <= Len(b) => DeserializeWrongMessage(r).prefix[i] = b[i]
    BY <2>1, <2>2, <2>r, WrongIsRead
  <2> QED
    BY <1>b, <2>1, <2>2, <2>3, <2>r
<1> QED
  BY <1>3, <1>4

\* The server's answer names the first byte at which a datagram goes wrong, whatever the
\* datagram: the nested early returns of deserialize_client_message.
THEOREM FirstErrorIsReported == Spec => []FirstErrorReported
<1>1. Inv => FirstErrorReported
  <2> SUFFICES ASSUME Inv, Answered PROVE FirstErrorReported
    BY DEF FirstErrorReported
  <2>E. PICK E : E = ErrorPositions(request, members)
    OBVIOUS
  <2>1. IF E = {}
        THEN ~IsWrong(reply) /\ decoded.msg_type = request[1]
        ELSE /\ IsWrong(reply) /\ decoded = NoMessage
             /\ DeserializeWrongMessage(reply).error_index = Min(E)
    BY <2>E, ServedIs
  <2> QED
    BY <2>E, <2>1 DEF FirstErrorReported
<1> QED
  BY <1>1, InvHolds, PTL

\* The client tells the two kinds of answers apart and reads back the state the server sent,
\* pawn by pawn, or the bytes that were refused: the writers and readers of protocol.cpp are
\* inverse to each other.
THEOREM AnswersAreUnderstood == Spec => []AnswerIsUnderstood
<1>1. Inv => AnswerIsUnderstood
  <2> SUFFICES ASSUME Inv, Answered PROVE AnswerIsUnderstood
    BY DEF AnswerIsUnderstood
  <2>E. PICK E : E = ErrorPositions(request, members)
    OBVIOUS
  <2>1. CASE E = {}
    BY <2>E, <2>1, ServedIs DEF AnswerIsUnderstood
  <2>2. CASE E # {}
    <3>1. decoded = NoMessage /\ IsWrong(reply)
          /\ \A i \in 1..PrefixSize : i <= Len(request) =>
               DeserializeWrongMessage(reply).prefix[i] = request[i]
      BY <2>E, <2>2, ServedIs
    <3>n. PICK n \in Nat : n = PrefixSize
      BY Layout DEF PrefixSize
    <3>l. PICK l \in Nat : l = Len(request)
      BY LenProperties DEF Inv
    <3>2. 1..Min({n, l}) = {i \in 1..n : i <= l}
      <4>1. CASE n <= l
        <5>1. {n, l} \in SUBSET Int /\ \A y \in {n, l} : n <= y
          BY <4>1
        <5>2. Min({n, l}) = n
          BY <5>1, LeastIsMin
        <5> QED
          BY <4>1, <5>2
      <4>2. CASE ~(n <= l)
        <5>1. {n, l} \in SUBSET Int /\ \A y \in {n, l} : l <= y
          BY <4>2
        <5>2. Min({n, l}) = l
          BY <5>1, LeastIsMin
        <5> QED
          BY <4>2, <5>2
      <4> QED
        BY <4>1, <4>2
    <3> QED
      BY <3>1, <3>2, <3>n, <3>l DEF AnswerIsUnderstood
  <2> QED
    BY <2>1, <2>2
<1> QED
  BY <1>1, InvHolds, PTL

\* What the user types is what the server acts on, and only a message about a game without
\* that player is refused: for every width of the fields.
THEOREM WhatIsTypedIsDecoded == Spec => []TypedIsDecoded
<1>1. Inv => TypedIsDecoded
  <2> SUFFICES ASSUME Inv, Answered, fields # <<>> PROVE TypedIsDecoded
    BY DEF TypedIsDecoded
  <2>m. PICK m : m = ParseClientMessage(fields)
    OBVIOUS
  <2>b. PICK b : b = request
    OBVIOUS
  <2>1. fields \in TypedFields /\ m # NoMessage /\ b = SerializeClientMessage(m)
    BY <2>m, <2>b DEF Inv, Answered, Sent
  <2>2. Message(m)
    BY <2>m, <2>1, ParseIs
  <2>t. PICK t \in 0..4 : t = m.msg_type
    BY <2>2 DEF Message, MAX_MESSAGE_TYPE
  <2>3. /\ Numbers(b, MessageLength(t)) /\ b[1] = t
        /\ WordAt(b, PlayerOffset) = m.player_id
        /\ t # JOIN => WordAt(b, GameOffset) = m.game_id
        /\ Deserialize(b) = m
    BY <2>1, <2>2, <2>t, MessageIsRead
  <2>L. PICK L \in Nat \ {0} : L = WordLen
    BY Layout
  <2>n. PICK n \in Nat : n = MessageLength(t)
    BY <2>L, <2>t, Lengths
  <2>4. Len(b) = n /\ n > 0 /\ m.player_id # 0
    BY <2>L, <2>n, <2>2, <2>3, Lengths DEF Numbers, Message
  <2>E. PICK E : E = ErrorPositions(b, members)
    OBVIOUS
  <2>5. E = IF t # JOIN /\ <<m.game_id, m.player_id>> \notin members THEN {GameOffset} ELSE {}
    <3>g. PICK g \in BOOLEAN : g = (<<m.game_id, m.player_id>> \notin members)
      OBVIOUS
    <3>1. \A i : i \in E <=> i \in 0..n /\ i = GameOffset /\ n >= PawnOffset /\ t # JOIN /\ g
      <4>p. PICK p : p = WordAt(b, PlayerOffset)
        OBVIOUS
      <4>q. PICK q : q = WordAt(b, GameOffset)
        OBVIOUS
      <4>h. PICK h \in BOOLEAN : h = (<<q, p>> \notin members)
        OBVIOUS
      <4>1. p # 0 /\ (t # JOIN => (h <=> g))
        BY <2>3, <2>4, <3>g, <4>p, <4>q, <4>h
      <4>2. \A i : i \in E <=>
              /\ i \in 0..n
              /\ \/ i = 0 /\ ~(n > 0 /\ t <= 4)
                 \/ (n > 0 /\ t <= 4) /\ i = PlayerOffset /\ n >= JoinLength /\ p = 0
                 \/ (n > 0 /\ t <= 4) /\ i = GameOffset /\ n >= PawnOffset /\ t # JOIN /\ h
                 \/ (n > 0 /\ t <= 4) /\ i = n /\ n < n
                 \/ (n > 0 /\ t <= 4) /\ i = n /\ n > n
        <5>1. Len(b) = n /\ b[1] = t /\ MessageLength(t) = n
          BY <2>3, <2>4, <2>n
        <5> QED
          BY <2>E, <4>p, <4>q, <4>h, <5>1 DEF ErrorPositions, MAX_MESSAGE_TYPE
      <4> QED
        BY <2>4, <4>1, <4>2
    <3>2. t # JOIN => GameOffset \in 0..n /\ n >= PawnOffset
      BY <2>L, <2>n, <2>t, Lengths DEF JOIN
    <3> QED
      BY <3>g, <3>1, <3>2
  <2>6. /\ E = {} => decoded = m
        /\ E # {} => decoded = NoMessage
    BY <2>b, <2>E, <2>3, ServedIs
  <2> QED
    BY <2>m, <2>t, <2>5, <2>6 DEF TypedIsDecoded
<1> QED
  BY <1>1, InvHolds, PTL
=============================================================================
