---------------------------- MODULE FoldTheorems ----------------------------
(***************************************************************************)
(* Induction over the naturals, and what FoldLeft of SequencesExt computes *)
(* in the forms the proofs of this project use.  FoldLeft is defined by a  *)
(* function over the subsets of 1..n that takes away the greatest element  *)
(* each time (MapThenFoldSet): SegmentRecursion shows that such a function *)
(* exists and follows the recursion on the segments 1..k.                  *)
(* The second half does the same for the folds over finite sets            *)
(* (MapThenSumSet, FoldSet of FiniteSetsExt) and states what sums over     *)
(* finite sets are.  At the end: a recursion over the naturals defines a   *)
(* function, and what \div and % are.                                      *)
(***************************************************************************)
EXTENDS Integers, SequencesExt, FiniteSetTheorems, WellFoundedInduction, TLAPS

\* Induction over the naturals, with the property given as the set of the
\* numbers that have it: the form in which the provers can use it.
LEMMA SetInduction ==
  ASSUME NEW S, 0 \in S, \A n \in Nat : n \in S => n + 1 \in S
  PROVE  Nat \subseteq S
<1> DEFINE R == OpToRel(<, Nat)
<1> DEFINE T == Nat \ S
<1>1. SUFFICES ASSUME T # {} PROVE FALSE
  OBVIOUS
<1>2. PICK x \in T : \A y \in T : <<y, x>> \notin R
  <2> HIDE DEF R, T
  <2>1. IsWellFoundedOn(R, Nat)
    BY NatLessThanWellFounded DEF R
  <2>2. T \subseteq Nat
    BY DEF T
  <2> QED
    BY <1>1, <2>1, <2>2, WFMin
<1>3. x \in Nat /\ x # 0 /\ x - 1 \in Nat
  OBVIOUS
<1>4. x - 1 \in T
  BY <1>3
<1>5. <<x - 1, x>> \in R
  BY <1>3 DEF OpToRel
<1> QED
  BY <1>2, <1>4, <1>5

\* A set of numbers up to n that is not empty has a greatest element, and that
\* is the one Max chooses.
LEMMA MaxOfSet ==
  ASSUME NEW n \in Nat, NEW s \in SUBSET (1..n), s # {}
  PROVE  Max(s) \in s /\ \A y \in s : y <= Max(s)
<1> DEFINE HasMax(k) == \A t \in SUBSET (1..k) : t # {} => \E x \in t : \A y \in t : x >= y
<1> DEFINE G == {k \in Nat : HasMax(k)}
<1>1. 0 \in G
  <2>1. \A t \in SUBSET (1..0) : t = {}
    OBVIOUS
  <2> QED
    BY <2>1
<1>2. ASSUME NEW k \in Nat, k \in G PROVE k + 1 \in G
  <2> SUFFICES ASSUME NEW t \in SUBSET (1..k+1), t # {}
               PROVE  \E x \in t : \A y \in t : x >= y
    OBVIOUS
  <2>1. CASE k + 1 \in t
    BY <2>1
  <2>2. CASE k + 1 \notin t
    <3>1. t \in SUBSET (1..k)
      BY <2>2
    <3> QED
      BY <1>2, <3>1
  <2> QED
    BY <2>1, <2>2
<1>3. n \in G
  <2> HIDE DEF G
  <2> QED
    BY <1>1, <1>2, SetInduction
<1>4. \E x \in s : \A y \in s : x >= y
  BY <1>3
<1>5. Max(s) \in s /\ \A y \in s : Max(s) >= y
  BY <1>4 DEF Max
<1> QED
  BY <1>5

\* h computes a fold over the indices up to n: each set is taken apart at its
\* greatest element, whose contribution D adds to the result for the others.
FoldsFrom(h, base, n, D) ==
  \A s \in SUBSET (1..n) : h[s] = IF s = {} THEN base ELSE D[<<h[s \ {Max(s)}], Max(s)>>]

\* A fold's function over the sets of indices up to n, each set taken apart at
\* its greatest element, exists and stays in the set of the results.
LEMMA SegmentRecursion ==
  ASSUME NEW T, NEW base \in T, NEW n \in Nat, NEW D \in [T \X (1..n) -> T]
  PROVE  \E h \in [SUBSET (1..n) -> T] : FoldsFrom(h, base, n, D)
<1> DEFINE Eq(h, s) == h[s] = IF s = {} THEN base ELSE D[<<h[s \ {Max(s)}], Max(s)>>]
<1> DEFINE Good(k) == \E h \in [SUBSET (1..k) -> T] : \A s \in SUBSET (1..k) : Eq(h, s)
<1> DEFINE G == {k \in Nat : k <= n => Good(k)}
<1>1. 0 \in G
  <2>1. \A t \in SUBSET (1..0) : t = {}
    OBVIOUS
  <2>2. [s \in SUBSET (1..0) |-> base] \in [SUBSET (1..0) -> T]
    OBVIOUS
  <2> QED
    BY <2>1, <2>2
<1>2. ASSUME NEW k \in Nat, k \in G PROVE k + 1 \in G
  <2> SUFFICES ASSUME k + 1 <= n PROVE Good(k + 1)
    <3> HIDE DEF Good
    <3> QED
      OBVIOUS
  <2>0. Good(k)
    <3> HIDE DEF Good
    <3> QED
      BY <1>2
  <2>1. PICK h \in [SUBSET (1..k) -> T] : \A s \in SUBSET (1..k) : Eq(h, s)
    <3> HIDE DEF Eq
    <3> QED
      BY <2>0
  <2> DEFINE g == [s \in SUBSET (1..k+1) |->
                     IF s \in SUBSET (1..k) THEN h[s] ELSE D[<<h[s \ {k + 1}], k + 1>>]]
  <2>2. \A s \in SUBSET (1..k+1) : s \ {k + 1} \in SUBSET (1..k)
    OBVIOUS
  <2>3. g \in [SUBSET (1..k+1) -> T]
    <3> SUFFICES ASSUME NEW s \in SUBSET (1..k+1), s \notin SUBSET (1..k)
                 PROVE  D[<<h[s \ {k + 1}], k + 1>>] \in T
      BY Zenon
    <3>1. h[s \ {k + 1}] \in T
      BY <2>2
    <3> QED
      BY <3>1
  <2>4. ASSUME NEW s \in SUBSET (1..k+1) PROVE Eq(g, s)
    <3>1. CASE s \in SUBSET (1..k)
      <4>1. CASE s = {}
        BY <3>1, <4>1, <2>1
      <4>2. CASE s # {}
        <5>1. s \ {Max(s)} \in SUBSET (1..k) /\ s \ {Max(s)} \in SUBSET (1..k+1)
          BY <3>1
        <5>2. g[s] = h[s] /\ g[s \ {Max(s)}] = h[s \ {Max(s)}]
          BY <3>1, <5>1
        <5>3. h[s] = D[<<h[s \ {Max(s)}], Max(s)>>]
          BY <2>1, <3>1, <4>2
        <5> QED
          BY <5>2, <5>3, <4>2
      <4> QED
        BY <4>1, <4>2
    <3>2. CASE s \notin SUBSET (1..k)
      <4>1. k + 1 \in s
        BY <3>2
      <4>2. Max(s) = k + 1
        <5>1. PICK m : m = Max(s)
          OBVIOUS
        <5>2. m \in s /\ \A y \in s : y <= m
          BY <5>1, <4>1, MaxOfSet, k + 1 \in Nat, s # {}
        <5>3. m \in 1..k+1 /\ k + 1 <= m
          BY <5>2, <4>1
        <5> QED
          BY <5>1, <5>3
      <4>3. g[s \ {k + 1}] = h[s \ {k + 1}]
        BY <2>2
      <4>4. g[s] = D[<<h[s \ {k + 1}], k + 1>>]
        BY <3>2
      <4> QED
        BY <4>1, <4>2, <4>3, <4>4
    <3> QED
      BY <3>1, <3>2
  <2> QED
    BY <2>3, <2>4
<1>3. n \in G
  <2> HIDE DEF G
  <2> QED
    BY <1>1, <1>2, SetInduction
<1>4. Good(n)
  <2> HIDE DEF Good
  <2> QED
    BY <1>3
<1> QED
  BY <1>4, Zenon DEF FoldsFrom

\* The segments a fold over a sequence passes through.
LEMMA MaxOfSegment ==
  ASSUME NEW k \in Nat \ {0}
  PROVE  Max(1..k) = k /\ (1..k) \ {Max(1..k)} = 1..k-1
<1>1. PICK m : m = Max(1..k)
  OBVIOUS
<1>2. m \in 1..k /\ \A y \in 1..k : y <= m
  <2>1. (1..k) \in SUBSET (1..k) /\ (1..k) # {} /\ k \in Nat
    OBVIOUS
  <2> QED
    BY <1>1, <2>1, MaxOfSet
<1>3. m = k
  BY <1>2
<1>4. (1..k) \ {k} = 1..k-1
  OBVIOUS
<1> QED
  BY <1>1, <1>3, <1>4

\* A chain whose links are computed in T from links in T stays in T.
LEMMA ChainStays ==
  ASSUME NEW T, NEW n \in Nat, NEW g, g[0] \in T,
         \A k \in 1..n : g[k-1] \in T => g[k] \in T
  PROVE  \A k \in 0..n : g[k] \in T
<1> DEFINE G == {k \in Nat : k <= n => g[k] \in T}
<1>1. 0 \in G
  OBVIOUS
<1>2. ASSUME NEW k \in Nat, k \in G PROVE k + 1 \in G
  <2>1. (k + 1) - 1 = k
    OBVIOUS
  <2>2. k + 1 <= n => g[k] \in T
    BY <1>2
  <2> QED
    BY <2>1, <2>2
<1>3. Nat \subseteq G
  <2> HIDE DEF G
  <2> QED
    BY <1>1, <1>2, SetInduction
<1> QED
  BY <1>3

-----------------------------------------------------------------------------
\* Induction over the subsets of a finite set, from the smaller to the larger.
LEMMA SubsetInduction ==
  ASSUME NEW S, IsFiniteSet(S), NEW G,
         \A s \in SUBSET S : (\A t \in SUBSET s : t # s => t \in G) => s \in G
  PROVE  SUBSET S \subseteq G
<1> DEFINE H == {n \in Nat : \A s \in SUBSET S : Cardinality(s) <= n => s \in G}
<1>1. \A s \in SUBSET S : IsFiniteSet(s) /\ Cardinality(s) \in Nat
  BY FS_Subset, FS_CardinalityType
<1>2. ASSUME NEW s \in SUBSET S, NEW t \in SUBSET s, t # s PROVE Cardinality(t) < Cardinality(s)
  <2>1. IsFiniteSet(s) /\ IsFiniteSet(t)
    BY <1>1
  <2>2. Cardinality(t) <= Cardinality(s) /\ (Cardinality(s) = Cardinality(t) => s = t)
    BY <2>1, FS_Subset
  <2>3. Cardinality(s) \in Nat /\ Cardinality(t) \in Nat
    BY <1>1
  <2> QED
    BY <1>2, <2>2, <2>3
<1>3. 0 \in H
  <2> SUFFICES ASSUME NEW s \in SUBSET S, Cardinality(s) <= 0 PROVE s \in G
    OBVIOUS
  <2>1. Cardinality(s) = 0
    BY <1>1
  <2>2. s = {}
    BY <1>1, <2>1, FS_EmptySet
  <2> QED
    BY <2>2
<1>4. ASSUME NEW n \in Nat, n \in H PROVE n + 1 \in H
  <2> SUFFICES ASSUME NEW s \in SUBSET S, Cardinality(s) <= n + 1 PROVE s \in G
    OBVIOUS
  <2>1. ASSUME NEW t \in SUBSET s, t # s PROVE t \in G
    <3>1. Cardinality(t) < Cardinality(s)
      BY <1>2, <2>1
    <3>2. Cardinality(t) <= n
      BY <1>1, <3>1
    <3> QED
      BY <1>4, <3>2
  <2> QED
    BY <2>1
<1>5. Nat \subseteq H
  <2> HIDE DEF H
  <2> QED
    BY <1>3, <1>4, SetInduction
<1>6. ASSUME NEW s \in SUBSET S PROVE s \in G
  <2>1. Cardinality(s) \in H /\ Cardinality(s) <= Cardinality(s)
    BY <1>1, <1>5
  <2> QED
    BY <2>1
<1> QED
  BY <1>6

-----------------------------------------------------------------------------
\* The element that a fold over a set takes first.
Chosen(s) == CHOOSE x \in s : TRUE
Others(s) == s \ {Chosen(s)}

\* There is one, and taking it away leaves a smaller set.
LEMMA ChosenIn == \A s : s # {} => Chosen(s) \in s /\ Others(s) # s
BY DEF Chosen, Others

\* h computes a fold over the subsets of S: D adds the contribution of the element
\* chosen to the result for the others.
FoldsOver(h, base, S, D) ==
  \A s \in SUBSET S : h[s] = IF s = {} THEN base ELSE D[<<Chosen(s), h[Others(s)]>>]

\* The function of a fold over a finite set exists.
LEMMA SubsetRecursion ==
  ASSUME NEW S, IsFiniteSet(S), NEW T, NEW base \in T, NEW D \in [S \X T -> T]
  PROVE  \E h \in [SUBSET S -> T] : FoldsOver(h, base, S, D)
<1> DEFINE Up(n) == {s \in SUBSET S : Cardinality(s) <= n}
<1> DEFINE Eq(h, s) == h[s] = IF s = {} THEN base ELSE D[<<Chosen(s), h[Others(s)]>>]
<1> DEFINE Good(n) == \E h \in [Up(n) -> T] : \A s \in Up(n) : Eq(h, s)
<1> DEFINE G == {n \in Nat : Good(n)}
<1>1. \A s \in SUBSET S : IsFiniteSet(s) /\ Cardinality(s) \in Nat
  BY FS_Subset, FS_CardinalityType
<1>2. ASSUME NEW s \in SUBSET S, s # {}
      PROVE  /\ Chosen(s) \in S /\ Others(s) \in SUBSET S
             /\ Cardinality(Others(s)) = Cardinality(s) - 1
  <2>1. Chosen(s) \in s
    BY <1>2, ChosenIn
  <2>2. Cardinality(s \ {Chosen(s)}) = Cardinality(s) - 1
    BY <1>1, <2>1, FS_RemoveElement
  <2> QED
    BY <2>1, <2>2 DEF Others
<1>3. 0 \in G
  <2>1. \A s \in Up(0) : s = {}
    <3> SUFFICES ASSUME NEW s \in SUBSET S, Cardinality(s) <= 0 PROVE s = {}
      OBVIOUS
    <3>1. Cardinality(s) = 0
      BY <1>1
    <3> QED
      BY <1>1, <3>1, FS_EmptySet
  <2> DEFINE h == [s \in Up(0) |-> base]
  <2>2. h \in [Up(0) -> T] /\ \A s \in Up(0) : Eq(h, s)
    BY <2>1
  <2> QED
    BY <2>2
<1>4. ASSUME NEW n \in Nat, n \in G PROVE n + 1 \in G
  <2>0. Good(n)
    <3> HIDE DEF Good
    <3> QED
      BY <1>4
  <2>1. PICK h \in [Up(n) -> T] : \A s \in Up(n) : Eq(h, s)
    <3> HIDE DEF Eq, Up
    <3> QED
      BY <2>0
  <2> DEFINE g == [s \in Up(n + 1) |->
                     IF s \in Up(n) THEN h[s] ELSE D[<<Chosen(s), h[Others(s)]>>]]
  <2>2. ASSUME NEW s \in Up(n + 1), s # {}
        PROVE  Others(s) \in Up(n) /\ Others(s) \in Up(n + 1) /\ Chosen(s) \in S
    <3>1. s \in SUBSET S /\ Cardinality(s) <= n + 1 /\ Cardinality(s) \in Nat
      BY <1>1
    <3>2. /\ Chosen(s) \in S /\ Others(s) \in SUBSET S
          /\ Cardinality(Others(s)) = Cardinality(s) - 1
      BY <1>2, <2>2, <3>1
    <3>3. Cardinality(Others(s)) <= n /\ Cardinality(Others(s)) <= n + 1
      BY <3>1, <3>2
    <3> QED
      BY <3>2, <3>3
  <2>3. \A s \in Up(n + 1) : s = {} => s \in Up(n)
    BY FS_EmptySet
  <2>4. g \in [Up(n + 1) -> T]
    <3> SUFFICES ASSUME NEW s \in Up(n + 1), s \notin Up(n)
                 PROVE  D[<<Chosen(s), h[Others(s)]>>] \in T
      <4> HIDE DEF Up
      <4> QED
        BY Zenon
    <3>1. Others(s) \in Up(n) /\ Chosen(s) \in S
      BY <2>2, <2>3
    <3>2. h[Others(s)] \in T
      <4> HIDE DEF Up
      <4> QED
        BY <3>1
    <3> QED
      BY <3>1, <3>2
  <2>5. ASSUME NEW s \in Up(n + 1) PROVE Eq(g, s)
    <3>1. CASE s = {}
      <4>1. s \in Up(n) /\ g[s] = h[s]
        BY <3>1, <2>3
      <4> QED
        BY <2>1, <3>1, <4>1
    <3>2. CASE s # {}
      <4>1. Others(s) \in Up(n) /\ Others(s) \in Up(n + 1)
        BY <2>2, <3>2
      <4>2. g[Others(s)] = h[Others(s)]
        <5> HIDE DEF Up
        <5> QED
          BY <4>1
      <4>3. CASE s \in Up(n)
        <5>1. g[s] = h[s]
          BY <4>3
        <5>2. h[s] = D[<<Chosen(s), h[Others(s)]>>]
          BY <2>1, <3>2, <4>3
        <5> QED
          BY <3>2, <4>2, <5>1, <5>2
      <4>4. CASE s \notin Up(n)
        <5>1. g[s] = D[<<Chosen(s), h[Others(s)]>>]
          <6> HIDE DEF Up
          <6> QED
            BY <4>4
        <5> QED
          BY <3>2, <4>2, <5>1
      <4> QED
        BY <4>3, <4>4
    <3> QED
      BY <3>1, <3>2
  <2> HIDE DEF Up, Eq, g
  <2> QED
    BY <2>4, <2>5
<1>5. Nat \subseteq G
  <2> HIDE DEF G
  <2> QED
    BY <1>3, <1>4, SetInduction
<1>6. Good(Cardinality(S))
  <2>1. Cardinality(S) \in Nat
    BY <1>1
  <2> HIDE DEF Good
  <2> QED
    BY <1>5, <2>1
<1>7. Up(Cardinality(S)) = SUBSET S
  <2>1. \A s \in SUBSET S : Cardinality(s) <= Cardinality(S)
    BY FS_Subset
  <2> QED
    BY <2>1
<1> HIDE DEF Up
<1> QED
  BY <1>6, <1>7 DEF FoldsOver

\* It is the only one,
LEMMA FoldUnique ==
  ASSUME NEW S, IsFiniteSet(S), NEW base, NEW D, NEW g, NEW h,
         FoldsOver(g, base, S, D), FoldsOver(h, base, S, D)
  PROVE  g[S] = h[S]
<1> DEFINE G == {s \in SUBSET S : g[s] = h[s]}
<1>1. ASSUME NEW s \in SUBSET S, \A t \in SUBSET s : t # s => t \in G PROVE s \in G
  <2>1. CASE s = {}
    BY <2>1 DEF FoldsOver
  <2>2. CASE s # {}
    <3>1. Others(s) \in SUBSET s /\ Others(s) # s
      BY <2>2, ChosenIn DEF Others
    <3>2. g[Others(s)] = h[Others(s)]
      BY <1>1, <3>1
    <3> QED
      BY <2>2, <3>2 DEF FoldsOver
  <2> QED
    BY <2>1, <2>2
<1>2. SUBSET S \subseteq G
  <2> HIDE DEF G
  <2> QED
    BY <1>1, SubsetInduction
<1> QED
  BY <1>2

\* and it stays in every set of results that the contributions do not leave.
LEMMA FoldStays ==
  ASSUME NEW S, IsFiniteSet(S), NEW base, NEW D, NEW h, FoldsOver(h, base, S, D),
         NEW T, base \in T, \A x \in S, r \in T : D[<<x, r>>] \in T
  PROVE  h[S] \in T
<1> DEFINE G == {s \in SUBSET S : h[s] \in T}
<1>1. ASSUME NEW s \in SUBSET S, \A t \in SUBSET s : t # s => t \in G PROVE s \in G
  <2>1. CASE s = {}
    BY <2>1 DEF FoldsOver
  <2>2. CASE s # {}
    <3>1. Others(s) \in SUBSET s /\ Others(s) # s /\ Chosen(s) \in S
      BY <2>2, ChosenIn DEF Others
    <3>2. h[Others(s)] \in T
      BY <1>1, <3>1
    <3>3. h[s] = D[<<Chosen(s), h[Others(s)]>>]
      BY <2>2 DEF FoldsOver
    <3> QED
      BY <3>1, <3>2, <3>3
  <2> QED
    BY <2>1, <2>2
<1>2. SUBSET S \subseteq G
  <2> HIDE DEF G
  <2> QED
    BY <1>1, SubsetInduction
<1> QED
  BY <1>2

-----------------------------------------------------------------------------
\* h adds up the values of f over the subsets of S, as MapThenSumSet does.
SumsUp(h, f, S) ==
  \A s \in SUBSET S : h[s] = IF s = {} THEN 0 ELSE f[Chosen(s)] + h[Others(s)]

\* The sum of the values of f over a finite set.
Total(f, S) == (CHOOSE h : h \in [SUBSET S -> Int] /\ SumsUp(h, f, S))[S]

\* Such a function exists,
LEMMA SumsExist ==
  ASSUME NEW D, NEW f \in [D -> Int], NEW S \in SUBSET D, IsFiniteSet(S)
  PROVE  \E h \in [SUBSET S -> Int] : SumsUp(h, f, S)
<1> DEFINE Plus == [q \in S \X Int |-> f[q[1]] + q[2]]
<1>1. Plus \in [S \X Int -> Int]
  OBVIOUS
<1>h. PICK h \in [SUBSET S -> Int] : FoldsOver(h, 0, S, Plus)
  <2> HIDE DEF Plus
  <2> QED
    BY <1>1, SubsetRecursion, 0 \in Int
<1>2. ASSUME NEW s \in SUBSET S, s # {}
      PROVE  h[s] = f[Chosen(s)] + h[Others(s)]
  <2>1. Chosen(s) \in S /\ Others(s) \in SUBSET S
    BY <1>2, ChosenIn DEF Others
  <2>2. h[Others(s)] \in Int
    BY <2>1
  <2>3. Plus[<<Chosen(s), h[Others(s)]>>] = f[Chosen(s)] + h[Others(s)]
    BY <2>1, <2>2
  <2>4. h[s] = Plus[<<Chosen(s), h[Others(s)]>>]
    <3> HIDE DEF Plus
    <3> QED
      BY <1>h, <1>2 DEF FoldsOver
  <2> QED
    BY <2>3, <2>4
<1>3. h[{}] = 0
  BY <1>h DEF FoldsOver
<1>4. SumsUp(h, f, S)
  BY <1>2, <1>3 DEF SumsUp
<1> QED
  BY <1>4

\* and there is only one.
LEMMA SumsUnique ==
  ASSUME NEW S, IsFiniteSet(S), NEW f, NEW g, NEW h, SumsUp(g, f, S), SumsUp(h, f, S)
  PROVE  g[S] = h[S]
<1> DEFINE G == {s \in SUBSET S : g[s] = h[s]}
<1>1. ASSUME NEW s \in SUBSET S, \A t \in SUBSET s : t # s => t \in G PROVE s \in G
  <2>1. CASE s = {}
    BY <2>1 DEF SumsUp
  <2>2. CASE s # {}
    <3>1. Others(s) \in SUBSET s /\ Others(s) # s
      BY <2>2, ChosenIn DEF Others
    <3>2. g[Others(s)] = h[Others(s)]
      BY <1>1, <3>1
    <3> QED
      BY <2>2, <3>2 DEF SumsUp
  <2> QED
    BY <2>1, <2>2
<1>2. SUBSET S \subseteq G
  <2> HIDE DEF G
  <2> QED
    BY <1>1, SubsetInduction
<1> QED
  BY <1>2

\* Whatever adds f up over S computes the sums over all its subsets.
LEMMA TotalIs ==
  ASSUME NEW D, NEW f \in [D -> Int], NEW S \in SUBSET D, IsFiniteSet(S),
         NEW h, SumsUp(h, f, S)
  PROVE  \A s \in SUBSET S : Total(f, s) = h[s] /\ h[s] \in Int
<1> SUFFICES ASSUME NEW s \in SUBSET S PROVE Total(f, s) = h[s] /\ h[s] \in Int
  OBVIOUS
<1>1. IsFiniteSet(s) /\ s \in SUBSET D
  BY FS_Subset
<1>2. SumsUp(h, f, s)
  BY DEF SumsUp
<1>g. PICK g : g = CHOOSE k : k \in [SUBSET s -> Int] /\ SumsUp(k, f, s)
  OBVIOUS
<1>3. g \in [SUBSET s -> Int] /\ SumsUp(g, f, s)
  <2>1. \E k : k \in [SUBSET s -> Int] /\ SumsUp(k, f, s)
    BY <1>1, SumsExist
  <2> QED
    BY <1>g, <2>1, Zenon
<1>4. g[s] = h[s]
  BY <1>1, <1>2, <1>3, SumsUnique
<1>5. Total(f, s) = g[s]
  BY <1>g DEF Total
<1> QED
  BY <1>3, <1>4, <1>5

\* A sum is a number, the empty sum is 0,
LEMMA TotalTyped ==
  ASSUME NEW D, NEW f \in [D -> Int], NEW S \in SUBSET D, IsFiniteSet(S)
  PROVE  Total(f, S) \in Int /\ Total(f, {}) = 0
<1>h. PICK h \in [SUBSET S -> Int] : SumsUp(h, f, S)
  BY SumsExist
<1>1. Total(f, S) = h[S] /\ Total(f, {}) = h[{}]
  BY <1>h, TotalIs
<1> QED
  BY <1>h, <1>1 DEF SumsUp

\* and any element can be taken out of it.
LEMMA TotalRemove ==
  ASSUME NEW D, NEW f \in [D -> Int], NEW S \in SUBSET D, IsFiniteSet(S), NEW x \in S
  PROVE  Total(f, S) = f[x] + Total(f, S \ {x})
<1>h. PICK h \in [SUBSET S -> Int] : SumsUp(h, f, S)
  BY SumsExist
<1> DEFINE G == {s \in SUBSET S : \A y \in s : h[s] = f[y] + h[s \ {y}]}
<1>1. ASSUME NEW s \in SUBSET S, \A t \in SUBSET s : t # s => t \in G PROVE s \in G
  <2> SUFFICES ASSUME NEW y \in s PROVE h[s] = f[y] + h[s \ {y}]
    OBVIOUS
  <2>c. PICK c : c = Chosen(s)
    OBVIOUS
  <2>1. c \in s /\ h[s] = f[c] + h[s \ {c}]
    BY <1>h, <2>c, ChosenIn DEF SumsUp, Others
  <2>2. CASE y = c
    BY <2>1, <2>2
  <2>3. CASE y # c
    <3>1. s \ {c} \in G /\ s \ {y} \in G
      BY <1>1, <2>1
    <3>2. y \in s \ {c} /\ c \in s \ {y} /\ (s \ {c}) \ {y} = (s \ {y}) \ {c}
      BY <2>1, <2>3
    <3>3. h[s \ {c}] = f[y] + h[(s \ {c}) \ {y}]
      BY <3>1, <3>2
    <3>4. h[s \ {y}] = f[c] + h[(s \ {c}) \ {y}]
      BY <3>1, <3>2
    <3>5. f[y] \in Int /\ f[c] \in Int /\ h[(s \ {c}) \ {y}] \in Int
      BY <2>1
    <3>6. h[s \ {c}] \in Int /\ h[s \ {y}] \in Int
      OBVIOUS
    <3> QED
      BY <2>1, <3>3, <3>4, <3>5, <3>6
  <2> QED
    BY <2>2, <2>3
<1>2. SUBSET S \subseteq G
  <2> HIDE DEF G
  <2> QED
    BY <1>1, SubsetInduction
<1>3. h[S] = f[x] + h[S \ {x}]
  BY <1>2
<1>4. Total(f, S) = h[S] /\ Total(f, S \ {x}) = h[S \ {x}]
  BY <1>h, TotalIs
<1> QED
  BY <1>3, <1>4

\* Adding one element.
LEMMA TotalAdd ==
  ASSUME NEW D, NEW f \in [D -> Int], NEW S \in SUBSET D, IsFiniteSet(S), NEW x \in D, x \notin S
  PROVE  Total(f, S \cup {x}) = Total(f, S) + f[x]
<1>u. PICK U : U = S \cup {x}
  OBVIOUS
<1>1. IsFiniteSet(U) /\ U \in SUBSET D /\ x \in U /\ U \ {x} = S
  BY <1>u, FS_AddElement
<1>2. Total(f, U) = f[x] + Total(f, S)
  BY <1>1, TotalRemove
<1>3. Total(f, S) \in Int /\ f[x] \in Int
  BY TotalTyped
<1> QED
  BY <1>2, <1>3, <1>u

\* Equal values, equal sums.
LEMMA TotalSame ==
  ASSUME NEW D, NEW f \in [D -> Int], NEW E, NEW g \in [E -> Int],
         NEW S, S \subseteq D, S \subseteq E, IsFiniteSet(S), \A x \in S : f[x] = g[x]
  PROVE  Total(f, S) = Total(g, S)
<1>h. PICK h \in [SUBSET S -> Int] : SumsUp(h, f, S)
  BY SumsExist
<1>1. SumsUp(h, g, S)
  <2> SUFFICES ASSUME NEW s \in SUBSET S, s # {} PROVE f[Chosen(s)] = g[Chosen(s)]
    BY <1>h DEF SumsUp
  <2> QED
    BY ChosenIn
<1>2. Total(f, S) = h[S]
  BY <1>h, TotalIs
<1>3. Total(g, S) = h[S]
  BY <1>1, TotalIs
<1> QED
  BY <1>2, <1>3

\* Values that are all 0.
LEMMA TotalZero ==
  ASSUME NEW D, NEW f \in [D -> Int], NEW S \in SUBSET D, IsFiniteSet(S), \A x \in S : f[x] = 0
  PROVE  Total(f, S) = 0
<1> DEFINE h == [s \in SUBSET S |-> 0]
<1>1. SumsUp(h, f, S)
  <2> SUFFICES ASSUME NEW s \in SUBSET S, s # {} PROVE 0 = f[Chosen(s)] + h[Others(s)]
    BY DEF SumsUp
  <2>1. Chosen(s) \in S /\ Others(s) \in SUBSET S
    BY ChosenIn DEF Others
  <2> QED
    BY <2>1
<1>2. S \in SUBSET S /\ h[S] = 0
  OBVIOUS
<1> HIDE DEF h
<1>3. Total(f, S) = h[S]
  BY <1>1, <1>2, TotalIs
<1> QED
  BY <1>2, <1>3

\* The sum of two functions.
LEMMA TotalPlus ==
  ASSUME NEW D, NEW f \in [D -> Int], NEW g \in [D -> Int], NEW k \in [D -> Int],
         NEW S \in SUBSET D, IsFiniteSet(S), \A x \in S : k[x] = f[x] + g[x]
  PROVE  Total(k, S) = Total(f, S) + Total(g, S)
<1>a. PICK a \in [SUBSET S -> Int] : SumsUp(a, f, S)
  BY SumsExist
<1>b. PICK b \in [SUBSET S -> Int] : SumsUp(b, g, S)
  BY SumsExist
<1> DEFINE h == [s \in SUBSET S |-> a[s] + b[s]]
<1>1. SumsUp(h, k, S)
  <2> SUFFICES ASSUME NEW s \in SUBSET S
               PROVE  h[s] = IF s = {} THEN 0 ELSE k[Chosen(s)] + h[Others(s)]
    BY DEF SumsUp
  <2>1. CASE s = {}
    <3>1. a[s] = 0 /\ b[s] = 0
      BY <1>a, <1>b, <2>1 DEF SumsUp
    <3> QED
      BY <2>1, <3>1
  <2>2. CASE s # {}
    <3>1. Chosen(s) \in S /\ Others(s) \in SUBSET S
      BY <2>2, ChosenIn DEF Others
    <3>2. a[s] = f[Chosen(s)] + a[Others(s)] /\ b[s] = g[Chosen(s)] + b[Others(s)]
      BY <1>a, <1>b, <2>2 DEF SumsUp
    <3>3. h[s] = a[s] + b[s] /\ h[Others(s)] = a[Others(s)] + b[Others(s)]
      BY <3>1
    <3>4. k[Chosen(s)] = f[Chosen(s)] + g[Chosen(s)]
      BY <3>1
    <3>5. /\ f[Chosen(s)] \in Int /\ g[Chosen(s)] \in Int
          /\ a[Others(s)] \in Int /\ b[Others(s)] \in Int
      BY <3>1
    <3> HIDE DEF h
    <3> QED
      BY <2>2, <3>2, <3>3, <3>4, <3>5
  <2> QED
    BY <2>1, <2>2
<1>2. h[S] = a[S] + b[S]
  BY S \in SUBSET S
<1> HIDE DEF h
<1>3. Total(k, S) = h[S]
  BY <1>1, TotalIs
<1>4. Total(f, S) = a[S] /\ Total(g, S) = b[S]
  BY <1>a, <1>b, TotalIs
<1> QED
  BY <1>2, <1>3, <1>4

\* One value changed.
LEMMA TotalChange ==
  ASSUME NEW D, NEW f \in [D -> Int], NEW g \in [D -> Int], NEW S \in SUBSET D, IsFiniteSet(S),
         NEW x \in S, \A y \in S : y # x => g[y] = f[y]
  PROVE  Total(g, S) = Total(f, S) - f[x] + g[x]
<1>1. Total(f, S) = f[x] + Total(f, S \ {x}) /\ Total(g, S) = g[x] + Total(g, S \ {x})
  BY TotalRemove
<1>2. IsFiniteSet(S \ {x}) /\ S \ {x} \in SUBSET D
  BY FS_Subset
<1>3. Total(f, S \ {x}) = Total(g, S \ {x})
  BY <1>2, TotalSame
<1>4. Total(f, S \ {x}) \in Int /\ f[x] \in Int /\ g[x] \in Int
  BY <1>2, TotalTyped
<1> QED
  BY <1>1, <1>3, <1>4

\* A sum is one of its terms and the sum of the others.
LEMMA TotalOneMore ==
  ASSUME NEW D, NEW f \in [D -> Int], NEW U \in SUBSET D, IsFiniteSet(U), NEW x \in U,
         NEW S, S = U \ {x}
  PROVE  Total(f, U) = f[x] + Total(f, S)
BY TotalRemove

-----------------------------------------------------------------------------
\* h follows the recursion D from its first value on: up to n0, or for ever.
Follows(h, base, n0, D) == h[0] = base /\ \A i \in 0..n0-1 : h[i + 1] = D[<<i, h[i]>>]
Recurs(h, base, D) == h[0] = base /\ \A i \in Nat : h[i + 1] = D[<<i, h[i]>>]

\* A recursion over the naturals defines a function.
LEMMA NatRecursion ==
  ASSUME NEW T, NEW base \in T, NEW D \in [Nat \X T -> T]
  PROVE  \E h \in [Nat -> T] : Recurs(h, base, D)
<1> DEFINE Good(k) == \E g \in [0..k -> T] : Follows(g, base, k, D)
<1> DEFINE G == {k \in Nat : Good(k)}
<1>1. 0 \in G
  <2> DEFINE g == [i \in 0..0 |-> base]
  <2>1. g \in [0..0 -> T] /\ g[0] = base
    OBVIOUS
  <2>2. Follows(g, base, 0, D)
    BY <2>1 DEF Follows
  <2> QED
    BY <2>1, <2>2
<1>2. ASSUME NEW k \in Nat, k \in G PROVE k + 1 \in G
  <2>0. Good(k)
    <3> HIDE DEF Good
    <3> QED
      BY <1>2
  <2>g. PICK g \in [0..k -> T] : Follows(g, base, k, D)
    BY <2>0
  <2>v. PICK v \in T : v = D[<<k, g[k]>>]
    BY k \in 0..k
  <2> DEFINE f == [i \in 0..k+1 |-> IF i = k + 1 THEN v ELSE g[i]]
  <2>1. f \in [0..k+1 -> T]
    BY \A i \in 0..k+1 : i # k + 1 => i \in 0..k
  <2>2. \A i \in 0..k : f[i] = g[i]
    OBVIOUS
  <2>3. f[k + 1] = v
    OBVIOUS
  <2> HIDE DEF f
  <2>4. ASSUME NEW i \in 0..(k+1)-1 PROVE f[i + 1] = D[<<i, f[i]>>]
    <3>1. CASE i = k
      <4>1. f[i] = g[k]
        BY <2>2, <3>1
      <4> QED
        BY <2>3, <2>v, <3>1, <4>1
    <3>2. CASE i # k
      <4>1. i \in 0..k-1 /\ i \in 0..k /\ i + 1 \in 0..k
        BY <3>2
      <4>2. g[i + 1] = D[<<i, g[i]>>]
        BY <2>g, <4>1 DEF Follows
      <4> QED
        BY <2>2, <4>1, <4>2
    <3> QED
      BY <3>1, <3>2
  <2>5. f[0] = base
    <3>1. 0 \in 0..k
      OBVIOUS
    <3> QED
      BY <2>2, <2>g, <3>1 DEF Follows
  <2>6. Follows(f, base, k + 1, D)
    BY <2>4, <2>5 DEF Follows
  <2> QED
    BY <2>1, <2>6
<1>3. Nat \subseteq G
  <2> HIDE DEF G
  <2> QED
    BY <1>1, <1>2, SetInduction
<1>4. ASSUME NEW k \in Nat PROVE Good(k)
  <2> HIDE DEF Good
  <2> QED
    BY <1>3
<1>5. ASSUME NEW k \in Nat, NEW m \in k..k+1, NEW g \in [0..k -> T], Follows(g, base, k, D),
             NEW f \in [0..m -> T], Follows(f, base, m, D)
      PROVE  \A i \in 0..k : f[i] = g[i]
  <2> DEFINE H == {i \in Nat : i <= k => f[i] = g[i]}
  <2>1. 0 \in H
    BY <1>5 DEF Follows
  <2>2. ASSUME NEW i \in Nat, i \in H PROVE i + 1 \in H
    <3> SUFFICES ASSUME i + 1 <= k PROVE f[i + 1] = g[i + 1]
      OBVIOUS
    <3>1. i \in 0..k-1 /\ i \in 0..m-1 /\ f[i] = g[i]
      BY <2>2
    <3> QED
      BY <1>5, <3>1 DEF Follows
  <2>3. Nat \subseteq H
    <3> HIDE DEF H
    <3> QED
      BY <2>1, <2>2, SetInduction
  <2> QED
    BY <2>3
<1> DEFINE P(k) == CHOOSE g : g \in [0..k -> T] /\ Follows(g, base, k, D)
<1>6. ASSUME NEW k \in Nat PROVE P(k) \in [0..k -> T] /\ Follows(P(k), base, k, D)
  <2>1. \E g : g \in [0..k -> T] /\ Follows(g, base, k, D)
    BY <1>4
  <2> QED
    BY <2>1, Zenon
<1> HIDE DEF P
<1> DEFINE h == [k \in Nat |-> P(k)[k]]
<1>7. h \in [Nat -> T]
  BY <1>6
<1>8. h[0] = base
  BY <1>6 DEF Follows
<1>9. ASSUME NEW k \in Nat PROVE h[k + 1] = D[<<k, h[k]>>]
  <2>1. P(k)[k] = P(k + 1)[k]
    <3>1. k + 1 \in Nat /\ k + 1 \in k..k+1 /\ k \in 0..k
      OBVIOUS
    <3>2. P(k) \in [0..k -> T] /\ Follows(P(k), base, k, D)
      BY <1>6
    <3>3. P(k + 1) \in [0..k+1 -> T] /\ Follows(P(k + 1), base, k + 1, D)
      BY <1>6, <3>1
    <3> QED
      BY <1>5, <3>1, <3>2, <3>3
  <2>2. P(k + 1)[k + 1] = D[<<k, P(k + 1)[k]>>]
    <3>1. k \in 0..(k+1)-1 /\ k + 1 \in Nat
      OBVIOUS
    <3> QED
      BY <1>6, <3>1 DEF Follows
  <2> QED
    BY <2>1, <2>2
<1> HIDE DEF h
<1> QED
  BY <1>7, <1>8, <1>9 DEF Recurs
-----------------------------------------------------------------------------
\* Division.

\* What \div and % are: a quotient, and a remainder below the divisor.
LEMMA DivisionIs ==
  ASSUME NEW a \in Int, NEW b \in Nat \ {0}
  PROVE  /\ a \div b \in Int /\ a % b \in Nat /\ a % b < b
         /\ a = b * (a \div b) + (a % b)
OBVIOUS

\* A product of naturals is a natural, and multiplying by a number that is not 0 makes
\* nothing smaller.
LEMMA ProductGrows ==
  ASSUME NEW b \in Nat \ {0}, NEW u \in Nat
  PROVE  b * u \in Nat /\ (u > 0 => b * u >= b) /\ b * u >= u
OBVIOUS

\* A natural number divides into a natural quotient and a remainder.
LEMMA DivideNat ==
  ASSUME NEW a \in Nat, NEW b \in Nat \ {0}
  PROVE  a \div b \in Nat /\ a % b \in 0..b-1 /\ a = b * (a \div b) + (a % b)
<1>1. a \div b \in Int /\ a % b \in Nat /\ a % b < b /\ a = b * (a \div b) + (a % b)
  BY DivisionIs
<1>d. PICK d \in Int : d = a \div b
  BY <1>1
<1>m. PICK m \in Nat : m = a % b
  BY <1>1
<1>2. d >= 0
  <2> SUFFICES ASSUME d < 0 PROVE FALSE
    OBVIOUS
  <2>m. PICK e \in Nat : e = -d /\ e > 0
    OBVIOUS
  <2>1. b * e >= b
    BY <2>m, ProductGrows
  <2>2. b * e = -(b * d)
    BY <2>m
  <2>3. a = b * d + m /\ m < b /\ b * d \in Int
    BY <1>1, <1>d, <1>m
  <2> QED
    BY <2>1, <2>2, <2>3
<1> QED
  BY <1>1, <1>2, <1>d

\* There is one way to divide: any such quotient and remainder are those of \div and %.
LEMMA DivisionUnique ==
  ASSUME NEW b \in Nat \ {0}, NEW q \in Int, NEW r \in 0..b-1, NEW a, a = b * q + r
  PROVE  a \div b = q /\ a % b = r
<1>1. a \in Int
  OBVIOUS
<1>d. PICK d \in Int : d = a \div b
  BY <1>1
<1>m. PICK m \in Nat : m = a % b /\ m < b
  BY <1>1
<1>2. b * d + m = b * q + r
  BY <1>1, <1>d, <1>m, DivisionIs
<1>3. d = q
  <2>1. CASE d > q
    <3>u. PICK u \in Nat : u = d - q /\ u > 0
      BY <2>1
    <3>1. b * u >= b
      BY <3>u, ProductGrows
    <3>2. b * u = b * d - b * q
      BY <3>u
    <3>3. b * d \in Int /\ b * q \in Int
      OBVIOUS
    <3> QED
      BY <1>2, <1>m, <3>1, <3>2, <3>3
  <2>2. CASE d < q
    <3>u. PICK u \in Nat : u = q - d /\ u > 0
      BY <2>2
    <3>1. b * u >= b
      BY <3>u, ProductGrows
    <3>2. b * u = b * q - b * d
      BY <3>u
    <3>3. b * d \in Int /\ b * q \in Int
      OBVIOUS
    <3> QED
      BY <1>2, <1>m, <3>1, <3>2, <3>3
  <2> QED
    BY <2>1, <2>2
<1>4. m = r
  <2>1. b * d \in Int
    OBVIOUS
  <2> QED
    BY <1>2, <1>3, <2>1
<1> QED
  BY <1>3, <1>4, <1>d, <1>m

\* What is smaller than the divisor is its own remainder.
LEMMA SmallRemainder ==
  ASSUME NEW b \in Nat \ {0}, NEW r \in 0..b-1
  PROVE  r % b = r
<1>d. PICK d \in Int : d = 0
  OBVIOUS
<1>z. PICK z \in Int : z = r
  OBVIOUS
<1>1. z = b * d + r
  BY <1>d, <1>z
<1>2. z % b = r
  BY <1>1, DivisionUnique
<1> QED
  BY <1>2, <1>z

\* What is smaller than the divisor goes into it no time.
LEMMA SmallQuotient ==
  ASSUME NEW b \in Nat \ {0}, NEW r \in 0..b-1
  PROVE  r \div b = 0
<1>d. PICK d \in Int : d = 0
  OBVIOUS
<1>z. PICK z \in Int : z = r
  OBVIOUS
<1>1. z = b * d + r
  BY <1>d, <1>z
<1>2. z \div b = d
  BY <1>1, DivisionUnique
<1> QED
  BY <1>2, <1>d, <1>z
=============================================================================
