---------------------------- MODULE Moore_proofs ----------------------------
(***************************************************************************)
(* Proofs about the automata library: whatever calls a caller makes in     *)
(* whatever order, and whatever allocations fail, the two records of a     *)
(* connection agree, outputs are current, no vector outgrows its capacity, *)
(* a record is lost only to realloc; and as long as realloc does not fail  *)
(* the library implements the network of MooreNetwork.                     *)
(*                                                                         *)
(* The inductive invariant Inv is about the two records taken together as  *)
(* one memory of links (SoundLinks): it is proved of DeleteConnectionIn    *)
(* and Connected first, of the folds over them by the lemmas of            *)
(* FoldTheorems, and of the calls from there.                              *)
(***************************************************************************)
EXTENDS MooreRefinement, FoldTheorems, FiniteSetTheorems, SequenceTheorems, TLAPS

-----------------------------------------------------------------------------
\* Vectors: erasing an entry, and cutting one connection.

\* The entries of a sequence, as a fact about its indices.
LEMMA ToSetIs == \A s : ToSet(s) = {s[k] : k \in DOMAIN s}
BY DEF ToSet

\* The contents erase leaves.
Erased(d, i) == SubSeq([d EXCEPT ![i] = Last(d)], 1, Len(d) - 1)

\* erase moves the last element into the gap and shortens the vector by one.
LEMMA EraseIs ==
  ASSUME NEW S, NEW d \in Seq(S), NEW i \in 1..Len(d)
  PROVE  /\ Erased(d, i) \in Seq(S) /\ Len(Erased(d, i)) = Len(d) - 1
         /\ \A k \in 1..Len(d)-1 : Erased(d, i)[k] = IF k = i THEN d[Len(d)] ELSE d[k]
<1> PICK e : e = Erased(d, i)
  OBVIOUS
<1> DEFINE f == [d EXCEPT ![i] = Last(d)]
<1>1. d \in [1..Len(d) -> S] /\ Len(d) \in Nat
  BY LenProperties
<1>2. Last(d) = d[Len(d)] /\ d[Len(d)] \in S
  BY <1>1 DEF Last
<1>3. f \in [1..Len(d) -> S]
  BY <1>1, <1>2
<1>4. f \in Seq(S) /\ Len(f) = Len(d)
  BY <1>1, <1>3, LenProperties
<1> HIDE DEF f
<1>5. /\ e \in Seq(S) /\ Len(e) = Len(d) - 1
      /\ \A k \in 1..Len(e) : e[k] = f[k]
  <2>1. e = SubSeq(f, 1, Len(d) - 1)
    BY DEF f, Erased
  <2> QED
    BY <1>1, <1>4, <2>1, SubSeqProperties
<1>6. \A k \in 1..Len(d) : f[k] = IF k = i THEN d[Len(d)] ELSE d[k]
  BY <1>1, <1>2 DEF f
<1> QED
  BY <1>1, <1>5, <1>6

\* No entry occurs twice.
Distinct(d) == \A j, k \in DOMAIN d : d[j] = d[k] => j = k

\* If the vector names nothing twice, exactly the erased entry is gone.
LEMMA EraseTakesOne ==
  ASSUME NEW S, NEW d \in Seq(S), NEW i \in 1..Len(d)
  PROVE  Distinct(d) => ToSet(Erased(d, i)) = ToSet(d) \ {d[i]} /\ Distinct(Erased(d, i))
<1> PICK e : e = Erased(d, i)
  OBVIOUS
<1>0. /\ e \in Seq(S) /\ Len(e) = Len(d) - 1
      /\ \A k \in 1..Len(d)-1 : e[k] = IF k = i THEN d[Len(d)] ELSE d[k]
  BY EraseIs, Zenon
<1>3. Len(d) \in Nat /\ DOMAIN d = 1..Len(d) /\ DOMAIN e = 1..Len(e)
  BY <1>0, LenProperties, Zenon
<1> SUFFICES ASSUME \A j, k \in DOMAIN d : d[j] = d[k] => j = k
             PROVE  /\ ToSet(e) = ToSet(d) \ {d[i]}
                    /\ \A j, k \in DOMAIN e : e[j] = e[k] => j = k
  BY DEF Distinct
<1> PICK n : n = Len(d)
  OBVIOUS
<1>1. \A k \in 1..n-1 : e[k] = IF k = i THEN d[n] ELSE d[k]
  BY <1>0, Zenon
<1>2. n \in Nat /\ DOMAIN d = 1..n /\ DOMAIN e = 1..n-1 /\ i \in 1..n
  BY <1>0, <1>3
<1>4. ASSUME NEW j \in 1..n-1, NEW k \in 1..n-1, e[j] = e[k] PROVE j = k
  <2>1. \A x, y \in 1..n : d[x] = d[y] => x = y
    BY <1>2
  <2>2. j \in 1..n /\ k \in 1..n /\ n \in 1..n /\ j # n /\ k # n
    BY <1>2
  <2> QED
    BY <1>1, <1>4, <2>1, <2>2
<1>5. ASSUME NEW x \in ToSet(e) PROVE x \in ToSet(d) /\ x # d[i]
  <2>1. PICK k \in 1..n-1 : x = e[k]
    BY <1>2, ToSetIs
  <2>2. (x = d[n] /\ k = i) \/ (x = d[k] /\ k # i)
    BY <1>1, <2>1
  <2>3. n \in 1..n /\ k \in 1..n /\ n # k
    BY <1>2
  <2>4. x \in ToSet(d)
    BY <1>2, <2>2, <2>3, ToSetIs
  <2>5. x # d[i]
    BY <1>2, <2>2, <2>3
  <2> QED
    BY <2>4, <2>5
<1>6. ASSUME NEW x \in ToSet(d), x # d[i] PROVE x \in ToSet(e)
  <2>1. PICK k \in 1..n : x = d[k]
    BY <1>2, ToSetIs
  <2>2. CASE k = n
    <3>1. i \in 1..n-1 /\ e[i] = x
      BY <1>1, <1>2, <1>6, <2>1, <2>2
    <3> QED
      BY <1>2, <3>1, ToSetIs
  <2>3. CASE k # n
    <3>1. k \in 1..n-1 /\ e[k] = x
      BY <1>1, <1>2, <1>6, <2>1, <2>3
    <3> QED
      BY <1>2, <3>1, ToSetIs
  <2> QED
    BY <2>2, <2>3
<1> QED
  BY <1>2, <1>4, <1>5, <1>6

-----------------------------------------------------------------------------
\* Memories of links, and what makes one sound: every entry of a vector is an
\* input bit that points back to the vector's output bit, no vector names a bit
\* twice, and no vector is longer than its capacity.
LinksType == [source : [InBits -> OutBits \cup {NoLink}], driven : [OutBits -> Vector]]
PointsBack(l) ==
  \A o \in OutBits : \A k \in DOMAIN l.driven[o].data : l.source[l.driven[o].data[k]] = o
NoRepeats(l) == \A o \in OutBits : Distinct(l.driven[o].data)
VectorFits(v) == Len(v.data) <= v.capacity /\ 0 < v.capacity
Fits(l) == \A o \in OutBits : VectorFits(l.driven[o])
SoundLinks(l) == l \in LinksType /\ PointsBack(l) /\ NoRepeats(l) /\ Fits(l)

\* r is l without the connections into the bits of cut, and nothing else.
VectorCut(v, w, cut) ==
  /\ ToSet(w.data) = ToSet(v.data) \ cut
  /\ w.capacity = v.capacity /\ w.allocated = v.allocated
  /\ w = v \/ Len(w.data) < Len(v.data)
OnlyCut(l, r, cut) ==
  /\ \A i \in InBits : r.source[i] = IF i \in cut THEN NoLink ELSE l.source[i]
  /\ \A o \in OutBits : VectorCut(l.driven[o], r.driven[o], cut)

\* No output bit is the missing link.
LEMMA NoLinkIsNoBit == NoLink \notin OutBits
BY MooreAssumption DEF OutBits

\* Taking one entry out of a vector that does not repeat itself.
LEMMA EraseCuts ==
  ASSUME NEW v \in Vector, NEW i \in DOMAIN v.data
  PROVE  /\ Erase(v, i) \in Vector
         /\ Distinct(v.data) => /\ VectorCut(v, Erase(v, i), {v.data[i]})
                               /\ Distinct(Erase(v, i).data)
<1>1. /\ v = [data |-> v.data, capacity |-> v.capacity, allocated |-> v.allocated]
      /\ v.data \in Seq(InBits) /\ v.capacity \in Nat /\ v.allocated \in Nat
  BY DEF Vector
<1>0. Erase(v, i) = [data |-> Erased(v.data, i),
                     capacity |-> v.capacity, allocated |-> v.allocated]
  <2>1. \A x : [v EXCEPT !.data = x] =
                [data |-> x, capacity |-> v.capacity, allocated |-> v.allocated]
    BY <1>1
  <2>2. Erase(v, i) = [v EXCEPT !.data = Erased(v.data, i)]
    BY Zenon DEF Erase, Erased
  <2> QED
    BY <2>1, <2>2, Zenon
<1> PICK d : d = v.data
  OBVIOUS
<1>3. d \in Seq(InBits) /\ i \in 1..Len(d) /\ Len(d) \in Nat
  BY <1>1, LenProperties
<1> PICK e : e = Erased(d, i)
  OBVIOUS
<1>2. Erase(v, i) = [data |-> e, capacity |-> v.capacity, allocated |-> v.allocated]
  BY <1>0, Zenon
<1>4. e \in Seq(InBits) /\ Len(e) = Len(d) - 1
  BY <1>3, EraseIs, Zenon
<1>5. Distinct(d) => ToSet(e) = ToSet(d) \ {d[i]} /\ Distinct(e)
  BY <1>3, EraseTakesOne
<1>6. Erase(v, i) \in Vector
  BY <1>1, <1>2, <1>4 DEF Vector
<1>7. ASSUME Distinct(d)
      PROVE  VectorCut(v, Erase(v, i), {d[i]})
  <2>1. ToSet(e) = ToSet(d) \ {d[i]}
    BY <1>5, <1>7
  <2> QED
    BY <1>2, <1>4, <2>1 DEF VectorCut
<1> QED
  BY <1>2, <1>5, <1>6, <1>7

\* What is left of a sound memory after a cut points back and fits.
LEMMA OnlyCutIsSound ==
  ASSUME NEW l, SoundLinks(l), NEW r \in LinksType, NEW cut \in SUBSET InBits,
         OnlyCut(l, r, cut), NoRepeats(r)
  PROVE  SoundLinks(r)
<1>1. PointsBack(r)
  <2> SUFFICES ASSUME NEW o \in OutBits, NEW k \in DOMAIN r.driven[o].data
               PROVE  r.source[r.driven[o].data[k]] = o
    BY DEF PointsBack
  <2> PICK x : x = r.driven[o].data[k]
    OBVIOUS
  <2>1. x \in ToSet(l.driven[o].data) /\ x \notin cut
    BY ToSetIs DEF OnlyCut, VectorCut
  <2>2. l.source[x] = o
    BY <2>1, ToSetIs DEF SoundLinks, PointsBack
  <2>3. x \in InBits
    <3>1. l.driven[o].data \in Seq(InBits)
      BY DEF SoundLinks, LinksType, Vector
    <3> QED
      BY <2>1, <3>1, ToSetIs, ElementOfSeq, LenProperties
  <2> QED
    BY <2>1, <2>2, <2>3 DEF OnlyCut
<1>2. Fits(r)
  <2> SUFFICES ASSUME NEW o \in OutBits PROVE VectorFits(r.driven[o])
    BY DEF Fits
  <2>v. PICK v \in Vector : v = l.driven[o]
    BY DEF SoundLinks, LinksType
  <2>w. PICK w \in Vector : w = r.driven[o]
    BY DEF LinksType
  <2>1. VectorCut(v, w, cut)
    BY <2>v, <2>w DEF OnlyCut
  <2>2. VectorFits(v)
    BY <2>v DEF SoundLinks, Fits
  <2>4. Len(v.data) \in Nat /\ Len(w.data) \in Nat /\ v.capacity \in Nat
    BY LenProperties DEF Vector
  <2>5. VectorFits(w)
    BY <2>1, <2>2, <2>4 DEF VectorCut, VectorFits
  <2> QED
    BY <2>5, <2>w
<1> QED
  BY <1>1, <1>2 DEF SoundLinks

\* One connection cut from a sound memory: it stays sound and nothing else goes.
LEMMA CutOne ==
  ASSUME NEW l, SoundLinks(l), NEW bit \in InBits
  PROVE  SoundLinks(DeleteConnectionIn(l, bit)) /\ OnlyCut(l, DeleteConnectionIn(l, bit), {bit})
<1>r. PICK r : r = DeleteConnectionIn(l, bit)
  OBVIOUS
<1>1. /\ l.source \in [InBits -> OutBits \cup {NoLink}]
      /\ l.driven \in [OutBits -> Vector]
      /\ l \in LinksType
  BY DEF SoundLinks, LinksType
<1>2. ASSUME l.source[bit] = NoLink
      PROVE  SoundLinks(r) /\ OnlyCut(l, r, {bit})
  <2>1. r = l
    BY <1>r, <1>2 DEF DeleteConnectionIn
  <2>2. \A o \in OutBits : bit \notin ToSet(l.driven[o].data)
    <3> SUFFICES ASSUME NEW o \in OutBits, NEW k \in DOMAIN l.driven[o].data,
                        l.driven[o].data[k] = bit
                 PROVE  FALSE
      BY ToSetIs
    <3>1. l.source[bit] = o
      BY DEF SoundLinks, PointsBack
    <3> QED
      BY <3>1, <1>2, NoLinkIsNoBit
  <2>3. OnlyCut(l, l, {bit})
    BY <1>2, <2>2 DEF OnlyCut, VectorCut
  <2> QED
    BY <2>1, <2>3
<1>3. ASSUME l.source[bit] # NoLink
      PROVE  SoundLinks(r) /\ OnlyCut(l, r, {bit})
  <2>out. PICK out \in OutBits : out = l.source[bit]
    BY <1>1, <1>3
  <2>v. PICK v \in Vector : v = l.driven[out]
    BY <1>1
  <2> DEFINE found == {i \in DOMAIN v.data : v.data[i] = bit}
  <2>3. r = [source |-> [l.source EXCEPT ![bit] = NoLink],
             driven |-> IF found = {} THEN l.driven
                        ELSE [l.driven EXCEPT ![out] = Erase(@, CHOOSE i \in found : TRUE)]]
    BY <1>r, <1>3, <2>v, <2>out, Zenon DEF DeleteConnectionIn
  <2>4. r.source = [l.source EXCEPT ![bit] = NoLink]
    BY <2>3
  <2>5. r.source \in [InBits -> OutBits \cup {NoLink}]
    BY <1>1, <2>4
  \* Only the vector of out holds the bit.
  <2>6. \A o \in OutBits : o # out => bit \notin ToSet(l.driven[o].data)
    <3> SUFFICES ASSUME NEW o \in OutBits, NEW k \in DOMAIN l.driven[o].data,
                        l.driven[o].data[k] = bit
                 PROVE  o = out
      BY ToSetIs
    <3> QED
      BY <2>out DEF SoundLinks, PointsBack
  <2>w. PICK w : w = r.driven[out]
    OBVIOUS
  <2>7. /\ r.driven \in [OutBits -> Vector]
        /\ \A o \in OutBits : o # out => r.driven[o] = l.driven[o]
        /\ VectorCut(v, w, {bit})
        /\ Distinct(w.data)
    <3>0. Distinct(v.data)
      BY <2>v DEF SoundLinks, NoRepeats
    <3>1. CASE found = {}
      <4>1. r.driven = l.driven
        BY <2>3, <3>1
      <4>2. bit \notin ToSet(v.data)
        BY <3>1, ToSetIs
      <4>3. VectorCut(v, v, {bit})
        BY <4>2 DEF VectorCut
      <4> QED
        BY <1>1, <4>1, <4>3, <3>0, <2>v, <2>w
    <3>2. CASE found # {}
      <4>i. PICK i : i = CHOOSE j \in found : TRUE
        OBVIOUS
      <4>1. i \in DOMAIN v.data /\ v.data[i] = bit
        BY <3>2, <4>i
      <4>2. r.driven = [l.driven EXCEPT ![out] = Erase(v, i)]
        BY <2>3, <3>2, <4>i, <2>v
      <4>3. Erase(v, i) \in Vector /\ VectorCut(v, Erase(v, i), {bit})
            /\ Distinct(Erase(v, i).data)
        BY <4>1, <3>0, EraseCuts
      <4>e. PICK e : e = Erase(v, i)
        OBVIOUS
      <4>4. w = e
        BY <1>1, <4>2, <4>e, <2>w
      <4>5. /\ r.driven \in [OutBits -> Vector]
            /\ \A o \in OutBits : o # out => r.driven[o] = l.driven[o]
        BY <1>1, <4>2, <4>3, <4>e
      <4> QED
        BY <4>3, <4>4, <4>5, <4>e
    <3> QED
      BY <3>1, <3>2
  <2> HIDE DEF found
  <2>8. r \in LinksType
    BY <2>3, <2>5, <2>7 DEF LinksType
  <2>9. OnlyCut(l, r, {bit})
    <3>1. \A i \in InBits : r.source[i] = IF i \in {bit} THEN NoLink ELSE l.source[i]
      BY <1>1, <2>4
    <3>2. ASSUME NEW o \in OutBits PROVE VectorCut(l.driven[o], r.driven[o], {bit})
      <4>1. CASE o = out
        BY <2>7, <4>1, <2>v, <2>w
      <4>2. CASE o # out
        BY <2>6, <2>7, <4>2 DEF VectorCut
      <4> QED
        BY <4>1, <4>2
    <3> QED
      BY <3>1, <3>2 DEF OnlyCut
  <2>10. NoRepeats(r)
    <3> SUFFICES ASSUME NEW o \in OutBits PROVE Distinct(r.driven[o].data)
      BY DEF NoRepeats
    <3>1. CASE o = out
      BY <2>7, <3>1, <2>w
    <3>2. CASE o # out
      BY <2>7, <3>2 DEF SoundLinks, NoRepeats
    <3> QED
      BY <3>1, <3>2
  <2> QED
    BY <2>8, <2>9, <2>10, OnlyCutIsSound
<1> QED
  BY <1>2, <1>3, <1>r

-----------------------------------------------------------------------------
\* Cutting several connections, one after the other (FoldLeft of DeleteConnectionIn).

SoundMemories == {r \in LinksType : SoundLinks(r)}

\* Two cuts one after the other are one cut.
LEMMA CutAfterCut ==
  ASSUME NEW l, SoundLinks(l), NEW q, SoundLinks(q), NEW r, SoundLinks(r), NEW A, NEW B,
         OnlyCut(l, q, A), OnlyCut(q, r, B)
  PROVE  OnlyCut(l, r, A \cup B)
<1>1. \A i \in InBits : r.source[i] = IF i \in A \cup B THEN NoLink ELSE l.source[i]
  BY DEF OnlyCut
<1>2. ASSUME NEW o \in OutBits PROVE VectorCut(l.driven[o], r.driven[o], A \cup B)
  <2>u. PICK u \in Vector : u = l.driven[o]
    BY DEF SoundLinks, LinksType
  <2>v. PICK v \in Vector : v = q.driven[o]
    BY DEF SoundLinks, LinksType
  <2>w. PICK w \in Vector : w = r.driven[o]
    BY DEF SoundLinks, LinksType
  <2>1. VectorCut(u, v, A) /\ VectorCut(v, w, B)
    BY <2>u, <2>v, <2>w DEF OnlyCut
  <2>2. Len(u.data) \in Nat /\ Len(v.data) \in Nat /\ Len(w.data) \in Nat
    BY LenProperties DEF Vector
  <2>3. ToSet(w.data) = ToSet(u.data) \ (A \cup B)
    BY <2>1 DEF VectorCut
  <2>4. w = u \/ Len(w.data) < Len(u.data)
    BY <2>1, <2>2 DEF VectorCut
  <2>5. VectorCut(u, w, A \cup B)
    BY <2>1, <2>3, <2>4 DEF VectorCut
  <2> QED
    BY <2>5, <2>u, <2>w
<1> QED
  BY <1>1, <1>2 DEF OnlyCut

\* The memories that several cuts pass through: each is sound, and is the first
\* one without the connections cut so far.
LEMMA CutChain ==
  ASSUME NEW l \in SoundMemories, NEW a \in Automata, NEW n \in Nat, NEW pos \in [1..n -> 1..N]
  PROVE  \E c \in [0..n -> SoundMemories] :
           /\ c[0] = l
           /\ \A k \in 1..n : c[k] = DeleteConnectionIn(c[k-1], <<a, pos[k]>>)
           /\ DeleteConnectionsIn(l, a, pos) = c[n]
<1> DEFINE D == [q \in SoundMemories \X (1..n) |-> DeleteConnectionIn(q[1], <<a, pos[q[2]]>>)]
<1> DEFINE Body(g) == [s \in SUBSET (1..n) |->
                         IF s = {} THEN l
                         ELSE DeleteConnectionIn(g[s \ {Max(s)}], <<a, pos[Max(s)]>>)]
<1>1. D \in [SoundMemories \X (1..n) -> SoundMemories]
  <2> SUFFICES ASSUME NEW r \in SoundMemories, NEW k \in 1..n
               PROVE  DeleteConnectionIn(r, <<a, pos[k]>>) \in SoundMemories
    OBVIOUS
  <2>1. <<a, pos[k]>> \in InBits
    BY DEF InBits
  <2> QED
    BY <2>1, CutOne DEF SoundMemories, SoundLinks
<1>2. \E h : h = Body(h)
  <2>h. PICK h \in [SUBSET (1..n) -> SoundMemories] : FoldsFrom(h, l, n, D)
    <3> HIDE DEF D
    <3> QED
      BY <1>1, SegmentRecursion
  <2>1. \A s \in SUBSET (1..n) : h[s] = IF s = {} THEN l ELSE D[<<h[s \ {Max(s)}], Max(s)>>]
    <3> HIDE DEF D
    <3> QED
      BY <2>h DEF FoldsFrom
  <2>2. ASSUME NEW s \in SUBSET (1..n), s # {}
        PROVE  h[s] = DeleteConnectionIn(h[s \ {Max(s)}], <<a, pos[Max(s)]>>)
    <3>1. Max(s) \in 1..n
      BY <2>2, MaxOfSet
    <3>2. h[s \ {Max(s)}] \in SoundMemories
      OBVIOUS
    <3> QED
      BY <2>1, <2>2, <3>1, <3>2
  <2>3. \A s \in SUBSET (1..n) : h[s] = Body(h)[s]
    BY <2>1, <2>2
  <2>4. h = Body(h)
    BY <2>3
  <2> QED
    BY <2>4
<1>i. PICK iter : iter = CHOOSE g : g = Body(g)
  OBVIOUS
<1>3. iter = Body(iter)
  BY <1>2, <1>i, Zenon
<1>4. DeleteConnectionsIn(l, a, pos) = iter[1..n]
  <2>1. DOMAIN pos = 1..n
    OBVIOUS
  <2> QED
    BY <2>1, <1>i, Zenon DEF DeleteConnectionsIn, FoldLeft, MapThenFoldSet
<1>5. ASSUME NEW k \in 1..n
      PROVE  iter[1..k] = DeleteConnectionIn(iter[1..k-1], <<a, pos[k]>>)
  <2>1. Max(1..k) = k /\ (1..k) \ {Max(1..k)} = 1..k-1
    BY MaxOfSegment
  <2>2. 1..k \in SUBSET (1..n) /\ 1..k # {}
    OBVIOUS
  <2>3. iter[1..k] = DeleteConnectionIn(iter[(1..k) \ {Max(1..k)}], <<a, pos[Max(1..k)]>>)
    <3>1. Body(iter)[1..k] = DeleteConnectionIn(iter[(1..k) \ {Max(1..k)}],
                                                <<a, pos[Max(1..k)]>>)
      BY <2>2
    <3> HIDE DEF Body
    <3> QED
      BY <1>3, <3>1
  <2> HIDE DEF Body
  <2> QED
    BY <2>1, <2>3
<1>6. iter[1..0] = l
  <2>1. Body(iter)[1..0] = l
    <3>1. 1..0 = {}
      OBVIOUS
    <3> QED
      BY <3>1
  <2> HIDE DEF Body
  <2> QED
    BY <1>3, <2>1
<1> HIDE DEF D, Body
<1> DEFINE c == [k \in 0..n |-> iter[1..k]]
<1>7. c[0] = l
  BY <1>6
<1>8. \A k \in 1..n : c[k] = DeleteConnectionIn(c[k-1], <<a, pos[k]>>)
  BY <1>5
<1>9. \A k \in 0..n : c[k] \in SoundMemories
  <2>1. \A k \in 1..n : c[k-1] \in SoundMemories => c[k] \in SoundMemories
    <3> SUFFICES ASSUME NEW k \in 1..n, c[k-1] \in SoundMemories PROVE c[k] \in SoundMemories
      OBVIOUS
    <3>1. <<a, pos[k]>> \in InBits
      BY DEF InBits
    <3> HIDE DEF c
    <3> QED
      BY <1>8, <3>1, CutOne DEF SoundMemories, SoundLinks
  <2> HIDE DEF c
  <2> QED
    BY <1>7, <2>1, ChainStays
<1>10. c \in [0..n -> SoundMemories]
  <2>1. \A k \in 0..n : iter[1..k] \in SoundMemories
    BY <1>9
  <2> QED
    BY <2>1
<1>11. DeleteConnectionsIn(l, a, pos) = c[n]
  BY <1>4
<1> HIDE DEF c
<1> QED
  BY <1>7, <1>8, <1>10, <1>11

\* The bits of an automaton at several positions.
BitsAt(a, pos, n) == {<<a, pos[k]>> : k \in 1..n}

\* The connections into several bits of an automaton are cut, no others.
LEMMA CutSeveral ==
  ASSUME NEW l, SoundLinks(l), NEW a \in Automata, NEW n \in Nat, NEW pos \in [1..n -> 1..N]
  PROVE  /\ SoundLinks(DeleteConnectionsIn(l, a, pos))
         /\ OnlyCut(l, DeleteConnectionsIn(l, a, pos), BitsAt(a, pos, n))
<1>l. l \in SoundMemories
  BY DEF SoundMemories, SoundLinks
<1>c. PICK c \in [0..n -> SoundMemories] :
           /\ c[0] = l
           /\ \A k \in 1..n : c[k] = DeleteConnectionIn(c[k-1], <<a, pos[k]>>)
           /\ DeleteConnectionsIn(l, a, pos) = c[n]
  BY <1>l, CutChain
<1> DEFINE Cut(k) == {<<a, pos[j]>> : j \in 1..k}
<1> DEFINE G == {k \in Nat : k <= n => OnlyCut(l, c[k], Cut(k))}
<1>1. 0 \in G
  <2>1. Cut(0) = {}
    OBVIOUS
  <2>2. OnlyCut(l, l, {})
    BY DEF OnlyCut, VectorCut
  <2> QED
    BY <1>c, <2>1, <2>2
<1>2. ASSUME NEW k \in Nat, k \in G PROVE k + 1 \in G
  <2> SUFFICES ASSUME k + 1 <= n PROVE OnlyCut(l, c[k + 1], Cut(k + 1))
    OBVIOUS
  <2>b. PICK bit : bit = <<a, pos[k + 1]>>
    OBVIOUS
  <2>1. bit \in InBits
    BY <2>b DEF InBits
  <2>2. c[k + 1] = DeleteConnectionIn(c[k], bit)
    <3>1. k + 1 \in 1..n /\ (k + 1) - 1 = k
      OBVIOUS
    <3> QED
      BY <3>1, <1>c, <2>b
  <2>3. SoundLinks(c[k]) /\ OnlyCut(c[k], c[k + 1], {bit})
    BY <1>c, <2>1, <2>2, CutOne DEF SoundMemories
  <2>4. OnlyCut(l, c[k], Cut(k))
    BY <1>2
  <2>5. Cut(k + 1) = Cut(k) \cup {bit}
    <3>1. 1..k+1 = (1..k) \cup {k + 1}
      OBVIOUS
    <3> QED
      BY <3>1, <2>b
  <2>6. SoundLinks(l) /\ SoundLinks(c[k + 1])
    BY <1>c DEF SoundMemories
  <2> HIDE DEF Cut
  <2> QED
    BY <2>3, <2>4, <2>5, <2>6, CutAfterCut
<1>3. n \in G
  <2> HIDE DEF G
  <2> QED
    BY <1>1, <1>2, SetInduction
<1>4. OnlyCut(l, c[n], Cut(n))
  <2> HIDE DEF Cut
  <2> QED
    BY <1>3
<1>5. SoundLinks(c[n])
  BY <1>c DEF SoundMemories
<1>6. Cut(n) = BitsAt(a, pos, n)
  BY DEF BitsAt
<1> HIDE DEF Cut
<1> QED
  BY <1>4, <1>5, <1>6, <1>c, Zenon

-----------------------------------------------------------------------------
\* Cutting a range of inputs, and push_back.

\* The bits of a from position in on.
BitRange(a, in, num) == {<<a, p>> : p \in in..(in + num - 1)}

\* The cut of a range of inputs, as ma_connect, ma_disconnect and ma_delete do it.
LEMMA CutRange ==
  ASSUME NEW l, SoundLinks(l), NEW a \in Automata, NEW in \in Nat \ {0}, NEW num \in Nat,
         in + num - 1 <= N
  PROVE  /\ SoundLinks(DeleteConnectionsIn(l, a, Positions(in, num)))
         /\ OnlyCut(l, DeleteConnectionsIn(l, a, Positions(in, num)), BitRange(a, in, num))
<1>p. PICK pos : pos = Positions(in, num)
  OBVIOUS
<1>1. pos \in [1..num -> 1..N] /\ \A k \in 1..num : pos[k] = in + k - 1
  BY <1>p, MooreAssumption DEF Positions
<1>c. PICK cut : cut = BitsAt(a, pos, num)
  OBVIOUS
<1>2. cut = BitRange(a, in, num)
  <2>1. \A k \in 1..num : pos[k] \in in..(in + num - 1)
    BY <1>1
  <2>2. \A p \in in..(in + num - 1) : p - in + 1 \in 1..num /\ pos[p - in + 1] = p
    BY <1>1
  <2> QED
    BY <2>1, <2>2, <1>c DEF BitRange, BitsAt
<1>r. PICK r : r = DeleteConnectionsIn(l, a, pos)
  OBVIOUS
<1>3. SoundLinks(r) /\ OnlyCut(l, r, cut)
  BY <1>1, <1>c, <1>r, CutSeveral
<1>4. DeleteConnectionsIn(l, a, Positions(in, num)) = r
  BY <1>p, <1>r
<1> QED
  BY <1>2, <1>3, <1>4

\* push_back puts the bit last, and the vector still fits its capacity.
LEMMA PushBackIs ==
  ASSUME NEW v \in Vector, NEW bit \in InBits, VectorFits(v)
  PROVE  /\ PushBack(v, bit) \in Vector
         /\ PushBack(v, bit).data = Append(v.data, bit)
         /\ VectorFits(PushBack(v, bit))
<1>1. /\ v = [data |-> v.data, capacity |-> v.capacity, allocated |-> v.allocated]
      /\ v.data \in Seq(InBits) /\ v.capacity \in Nat /\ v.allocated \in Nat
  BY DEF Vector
<1>d. PICK d : d = Append(v.data, bit)
  OBVIOUS
<1>2. d \in Seq(InBits) /\ Len(d) = Len(v.data) + 1 /\ Len(v.data) \in Nat
  BY <1>1, <1>d, AppendProperties, LenProperties
<1>3. CASE Full(v)
  <2>1. PushBack(v, bit) = [data |-> d, capacity |-> 2 * v.capacity, allocated |-> 2 * v.capacity]
    BY <1>3, <1>d DEF PushBack
  <2>2. v.capacity = Len(v.data)
    BY <1>3 DEF Full
  <2>3. 2 * v.capacity \in Nat
    BY <1>1
  <2>4. PushBack(v, bit) \in Vector
    BY <2>1, <2>3, <1>2 DEF Vector
  <2>5. VectorFits(PushBack(v, bit))
    BY <2>1, <2>2, <1>1, <1>2 DEF VectorFits
  <2> QED
    BY <2>1, <2>4, <2>5, <1>d
<1>4. CASE ~Full(v)
  <2>1. \A x : [v EXCEPT !.data = x] =
                [data |-> x, capacity |-> v.capacity, allocated |-> v.allocated]
    BY <1>1
  <2>2. PushBack(v, bit) = [v EXCEPT !.data = d]
    BY <1>4, <1>d, Zenon DEF PushBack
  <2>3. PushBack(v, bit) = [data |-> d, capacity |-> v.capacity, allocated |-> v.allocated]
    BY <2>1, <2>2, Zenon
  <2>4. PushBack(v, bit) \in Vector
    BY <2>3, <1>1, <1>2 DEF Vector
  <2>5. Len(v.data) # v.capacity
    BY <1>4 DEF Full
  <2>6. VectorFits(PushBack(v, bit))
    BY <2>3, <2>5, <1>1, <1>2 DEF VectorFits
  <2> QED
    BY <2>3, <2>4, <2>6, <1>d
<1> QED
  BY <1>3, <1>4

-----------------------------------------------------------------------------
\* Connecting a range of inputs to a range of outputs.

\* Appending an entry a vector does not hold yet.
LEMMA AppendIs ==
  ASSUME NEW S, NEW d \in Seq(S), NEW x \in S
  PROVE  /\ ToSet(Append(d, x)) = ToSet(d) \cup {x}
         /\ Distinct(d) /\ x \notin ToSet(d) => Distinct(Append(d, x))
<1>e. PICK e : e = Append(d, x)
  OBVIOUS
<1>n. PICK n : n = Len(d)
  OBVIOUS
<1>1. /\ n \in Nat /\ DOMAIN d = 1..n /\ DOMAIN e = 1..n+1
      /\ e[n+1] = x /\ \A k \in 1..n : e[k] = d[k]
  BY <1>e, <1>n, AppendProperties, LenProperties
<1>2. ToSet(e) = ToSet(d) \cup {x}
  <2>1. ASSUME NEW y \in ToSet(e) PROVE y \in ToSet(d) \cup {x}
    <3>1. PICK k \in 1..n+1 : y = e[k]
      BY <1>1, ToSetIs
    <3>2. k = n + 1 \/ k \in 1..n
      BY <1>1
    <3> QED
      BY <1>1, <3>1, <3>2, ToSetIs
  <2>2. ASSUME NEW y \in ToSet(d) PROVE y \in ToSet(e)
    <3>1. PICK k \in 1..n : y = d[k]
      BY <1>1, ToSetIs
    <3>2. k \in 1..n+1 /\ e[k] = y
      BY <1>1, <3>1
    <3> QED
      BY <1>1, <3>2, ToSetIs
  <2>3. x \in ToSet(e)
    BY <1>1, ToSetIs
  <2> QED
    BY <2>1, <2>2, <2>3
<1>3. ASSUME Distinct(d), x \notin ToSet(d) PROVE Distinct(e)
  <2> SUFFICES ASSUME NEW j \in 1..n+1, NEW k \in 1..n+1, e[j] = e[k] PROVE j = k
    BY <1>1 DEF Distinct
  <2>1. (j = n + 1 \/ j \in 1..n) /\ (k = n + 1 \/ k \in 1..n)
    BY <1>1
  <2>2. \A i \in 1..n : d[i] # x
    BY <1>1, <1>3, ToSetIs
  <2>3. \A i, m \in 1..n : d[i] = d[m] => i = m
    BY <1>1, <1>3 DEF Distinct
  <2> QED
    BY <1>1, <2>1, <2>2, <2>3
<1> QED
  BY <1>2, <1>3, <1>e

\* An entry of a vector in a memory of links is an input bit.
LEMMA EntriesAreBits ==
  ASSUME NEW l \in LinksType, NEW o \in OutBits
  PROVE  /\ ToSet(l.driven[o].data) \subseteq InBits
         /\ \A k \in DOMAIN l.driven[o].data : l.driven[o].data[k] \in InBits
<1>d. PICK d \in Seq(InBits) : d = l.driven[o].data
  BY DEF LinksType, Vector
<1>1. \A k \in DOMAIN d : d[k] \in InBits
  BY LenProperties, ElementOfSeq
<1>2. ToSet(d) \subseteq InBits
  BY <1>1, ToSetIs
<1> QED
  BY <1>1, <1>2, <1>d

\* In a sound memory a bit stands in the vector of no output but its source.
LEMMA EntryHasSource ==
  ASSUME NEW l, SoundLinks(l), NEW o \in OutBits, NEW x \in ToSet(l.driven[o].data)
  PROVE  l.source[x] = o
BY ToSetIs DEF SoundLinks, PointsBack

\* m is l with a range of inputs of a wired to a range of outputs of b.
Wired(l, m, a, in, b, out, num) ==
  /\ \A o \in OutBits : m.driven[o] = IF o[1] = b /\ o[2] \in out..(out + num - 1)
                                      THEN PushBack(l.driven[o], <<a, in + (o[2] - out)>>)
                                      ELSE l.driven[o]
  /\ \A i \in InBits : m.source[i] = IF i \in BitRange(a, in, num)
                                     THEN <<b, out + (i[2] - in)>> ELSE l.source[i]

\* Connecting free inputs to outputs leaves a sound memory sound: each input
\* points to its output and is entered there once.
LEMMA ConnectedIsSound ==
  ASSUME NEW l, SoundLinks(l), NEW a \in Automata, NEW b \in Automata,
         NEW in \in Nat \ {0}, NEW out \in Nat \ {0}, NEW num \in Nat,
         in + num - 1 <= N, out + num - 1 <= M,
         \A i \in BitRange(a, in, num) : l.source[i] = NoLink
  PROVE  /\ SoundLinks(Connected(l, a, in, b, out, num))
         /\ Wired(l, Connected(l, a, in, b, out, num), a, in, b, out, num)
<1>r. PICK r : r = Connected(l, a, in, b, out, num)
  OBVIOUS
<1>0. N \in Nat /\ M \in Nat
  BY MooreAssumption
<1>1. l \in LinksType
  BY DEF SoundLinks
<1> DEFINE On(o) == o[1] = b /\ o[2] \in out..(out + num - 1)
<1> DEFINE At(i) == i[1] = a /\ i[2] \in in..(in + num - 1)
<1> DEFINE Bit(o) == <<a, in + (o[2] - out)>>
<1>2. ASSUME NEW i \in InBits PROVE At(i) <=> i \in BitRange(a, in, num)
  BY DEF InBits, BitRange
<1>3. ASSUME NEW i \in InBits
      PROVE  r.source[i] = IF At(i) THEN <<b, out + (i[2] - in)>> ELSE l.source[i]
  BY <1>r DEF Connected
<1>4. ASSUME NEW o \in OutBits
      PROVE  r.driven[o] = IF On(o) THEN PushBack(l.driven[o], Bit(o)) ELSE l.driven[o]
  BY <1>r DEF Connected
<1>5. ASSUME NEW o \in OutBits, On(o)
      PROVE  /\ Bit(o) \in InBits /\ At(Bit(o)) /\ r.source[Bit(o)] = o
             /\ Bit(o) \notin ToSet(l.driven[o].data)
  <2>p. PICK p : p = in + (o[2] - out)
    OBVIOUS
  <2>1. o = <<b, o[2]>> /\ o[2] \in 1..M
    BY <1>5 DEF OutBits
  <2>2. p \in 1..N /\ p \in in..(in + num - 1) /\ out + (p - in) = o[2]
    BY <1>0, <1>5, <2>1, <2>p
  <2>3. <<a, p>> \in InBits /\ At(<<a, p>>)
    BY <2>2 DEF InBits
  <2>4. r.source[<<a, p>>] = o
    BY <1>3, <2>1, <2>2, <2>3
  <2>5. l.source[<<a, p>>] = NoLink
    BY <1>2, <2>3
  <2>6. <<a, p>> \notin ToSet(l.driven[o].data)
    BY <2>5, EntryHasSource, NoLinkIsNoBit
  <2> QED
    BY <2>3, <2>4, <2>6, <2>p
<1>6. ASSUME NEW i \in InBits, At(i) PROVE <<b, out + (i[2] - in)>> \in OutBits
  BY <1>0, <1>6 DEF OutBits, InBits
<1>7. ASSUME NEW o \in OutBits
      PROVE  /\ r.driven[o] \in Vector /\ VectorFits(r.driven[o]) /\ Distinct(r.driven[o].data)
             /\ \A x \in ToSet(r.driven[o].data) : r.source[x] = o
  <2>v. PICK v \in Vector : v = l.driven[o]
    BY <1>1 DEF LinksType
  <2>w. PICK w : w = r.driven[o]
    OBVIOUS
  <2>1. /\ VectorFits(v) /\ Distinct(v.data)
        /\ ToSet(v.data) \subseteq InBits
        /\ \A x \in ToSet(v.data) : l.source[x] = o
    BY <1>1, <2>v, EntriesAreBits, EntryHasSource DEF SoundLinks, Fits, NoRepeats
  <2>2. \A x \in ToSet(v.data) : r.source[x] = o
    <3> SUFFICES ASSUME NEW x \in ToSet(v.data) PROVE r.source[x] = o
      OBVIOUS
    <3>1. x \in InBits /\ l.source[x] = o
      BY <2>1
    <3>2. ~At(x)
      BY <1>2, <3>1, NoLinkIsNoBit
    <3> QED
      BY <1>3, <3>1, <3>2
  <2>3. CASE On(o)
    <3>x. PICK x \in InBits : x = Bit(o)
      BY <1>5, <2>3
    <3>1. r.source[x] = o /\ x \notin ToSet(v.data)
      BY <1>5, <2>3, <3>x, <2>v
    <3>2. w = PushBack(v, x)
      BY <1>4, <2>3, <3>x, <2>v, <2>w
    <3>3. w \in Vector /\ w.data = Append(v.data, x) /\ VectorFits(w)
      BY <2>1, <3>2, PushBackIs
    <3>4. ToSet(w.data) = ToSet(v.data) \cup {x} /\ Distinct(w.data)
      <4>1. v.data \in Seq(InBits)
        BY DEF Vector
      <4> QED
        BY <4>1, <2>1, <3>1, <3>3, AppendIs
    <3> QED
      BY <2>2, <3>1, <3>3, <3>4, <2>w
  <2>4. CASE ~On(o)
    <3>1. w = v
      BY <1>4, <2>4, <2>v, <2>w
    <3> QED
      BY <2>1, <2>2, <3>1, <2>w
  <2> QED
    BY <2>3, <2>4
<1>8. r \in LinksType
  <2>1. r = [source |-> r.source, driven |-> r.driven]
    BY <1>r DEF Connected
  <2>2. r.source \in [InBits -> OutBits \cup {NoLink}]
    <3>1. \A i \in InBits : r.source[i] \in OutBits \cup {NoLink}
      BY <1>1, <1>3, <1>6 DEF LinksType
    <3>2. r.source = [i \in InBits |-> r.source[i]]
      BY <1>r DEF Connected
    <3> QED
      BY <3>1, <3>2
  <2>3. r.driven \in [OutBits -> Vector]
    <3>1. r.driven = [o \in OutBits |-> r.driven[o]]
      BY <1>r DEF Connected
    <3> QED
      BY <1>7, <3>1
  <2> QED
    BY <2>1, <2>2, <2>3 DEF LinksType
<1>9. SoundLinks(r)
  BY <1>7, <1>8, ToSetIs DEF SoundLinks, PointsBack, NoRepeats, Fits
<1>10. Wired(l, r, a, in, b, out, num)
  BY <1>2, <1>3, <1>4 DEF Wired
<1> QED
  BY <1>9, <1>10, <1>r

-----------------------------------------------------------------------------
\* Moving several automata, one after the other (FoldLeft in NextStates).

\* One automaton moved.
MoveOne(in, s, a) == [s EXCEPT ![a] = Transition(in[a], @)]

\* One move replaces one state by a state.
LEMMA MoveOneIs ==
  ASSUME NEW in \in [Automata -> SUBSET (1..N)], NEW s \in [Automata -> State], NEW a \in Automata
  PROVE  /\ MoveOne(in, s, a) \in [Automata -> State]
         /\ \A b \in Automata :
              MoveOne(in, s, a)[b] = IF b = a THEN Transition(in[a], s[a]) ELSE s[b]
<1>1. Transition(in[a], s[a]) \in State
  BY MooreAssumption
<1> QED
  BY <1>1 DEF MoveOne

\* The state of one automaton after a move.
LEMMA MoveOneAt ==
  ASSUME NEW in \in [Automata -> SUBSET (1..N)], NEW s \in [Automata -> State],
         NEW a \in Automata, NEW b \in Automata
  PROVE  MoveOne(in, s, b)[a] = IF a = b THEN Transition(in[a], s[a]) ELSE s[a]
<1>1. CASE a = b
  BY <1>1 DEF MoveOne
<1>2. CASE a # b
  BY <1>2 DEF MoveOne
<1> QED
  BY <1>1, <1>2

\* The states an array of automata passes through when it is stepped.
LEMMA MoveChain ==
  ASSUME state \in [Automata -> State], NEW in \in [Automata -> SUBSET (1..N)],
         NEW n \in Nat, NEW moved \in [1..n -> Automata]
  PROVE  \E c \in [0..n -> [Automata -> State]] :
           /\ c[0] = state
           /\ \A k \in 1..n : c[k] = MoveOne(in, c[k-1], moved[k])
           /\ NextStates(in, moved) = c[n]
<1>T. PICK T : T = [Automata -> State]
  OBVIOUS
<1>0. \A s \in T, k \in 1..n : MoveOne(in, s, moved[k]) \in T
  BY <1>T, MoveOneIs
<1> DEFINE D == [q \in T \X (1..n) |-> MoveOne(in, q[1], moved[q[2]])]
<1> DEFINE Body(g) == [s \in SUBSET (1..n) |->
                         IF s = {} THEN state
                         ELSE MoveOne(in, g[s \ {Max(s)}], moved[Max(s)])]
<1>1. D \in [T \X (1..n) -> T]
  BY <1>0
<1>2. \E h : h = Body(h)
  <2>h. PICK h \in [SUBSET (1..n) -> T] : FoldsFrom(h, state, n, D)
    <3> HIDE DEF D
    <3>1. state \in T
      BY <1>T
    <3> QED
      BY <1>1, <3>1, SegmentRecursion
  <2>1. \A s \in SUBSET (1..n) : h[s] = IF s = {} THEN state ELSE D[<<h[s \ {Max(s)}], Max(s)>>]
    <3> HIDE DEF D
    <3> QED
      BY <2>h DEF FoldsFrom
  <2>2. ASSUME NEW s \in SUBSET (1..n), s # {}
        PROVE  h[s] = MoveOne(in, h[s \ {Max(s)}], moved[Max(s)])
    <3>1. Max(s) \in 1..n
      BY <2>2, MaxOfSet
    <3>2. h[s \ {Max(s)}] \in T
      OBVIOUS
    <3> QED
      BY <2>1, <2>2, <3>1, <3>2
  <2>3. \A s \in SUBSET (1..n) : h[s] = Body(h)[s]
    BY <2>1, <2>2
  <2>4. h = Body(h)
    BY <2>3
  <2> QED
    BY <2>4
<1>i. PICK iter : iter = CHOOSE g : g = Body(g)
  OBVIOUS
<1>3. iter = Body(iter)
  BY <1>2, <1>i, Zenon
<1>4. NextStates(in, moved) = iter[1..n]
  <2>1. DOMAIN moved = 1..n
    OBVIOUS
  <2> QED
    BY <2>1, <1>i, Zenon DEF NextStates, FoldLeft, MapThenFoldSet, MoveOne
<1>5. ASSUME NEW k \in 1..n
      PROVE  iter[1..k] = MoveOne(in, iter[1..k-1], moved[k])
  <2>1. Max(1..k) = k /\ (1..k) \ {Max(1..k)} = 1..k-1
    BY MaxOfSegment
  <2>2. 1..k \in SUBSET (1..n) /\ 1..k # {}
    OBVIOUS
  <2>3. iter[1..k] = MoveOne(in, iter[(1..k) \ {Max(1..k)}], moved[Max(1..k)])
    <3>1. Body(iter)[1..k] = MoveOne(in, iter[(1..k) \ {Max(1..k)}], moved[Max(1..k)])
      BY <2>2
    <3> HIDE DEF Body
    <3> QED
      BY <1>3, <3>1
  <2> HIDE DEF Body
  <2> QED
    BY <2>1, <2>3
<1>6. iter[1..0] = state
  <2>1. Body(iter)[1..0] = state
    <3>1. 1..0 = {}
      OBVIOUS
    <3> QED
      BY <3>1
  <2> HIDE DEF Body
  <2> QED
    BY <1>3, <2>1
<1> HIDE DEF D, Body
<1> DEFINE c == [k \in 0..n |-> iter[1..k]]
<1>7. c[0] = state
  BY <1>6
<1>8. \A k \in 1..n : c[k] = MoveOne(in, c[k-1], moved[k])
  BY <1>5
<1>9. \A k \in 0..n : c[k] \in T
  <2>1. \A k \in 1..n : c[k-1] \in T => c[k] \in T
    <3> HIDE DEF c
    <3> QED
      BY <1>0, <1>8
  <2>2. c[0] \in T
    BY <1>7, <1>T
  <2> HIDE DEF c
  <2> QED
    BY <2>1, <2>2, ChainStays
<1>10. c \in [0..n -> [Automata -> State]]
  <2>1. \A k \in 0..n : iter[1..k] \in T
    BY <1>9
  <2> QED
    BY <2>1, <1>T
<1>11. NextStates(in, moved) = c[n]
  BY <1>4
<1> HIDE DEF c
<1> QED
  BY <1>7, <1>8, <1>10, <1>11

\* Stepping an array of distinct automata moves each of them once, on its own
\* state and its own sampled input, and no other automaton.
LEMMA NextStatesIs ==
  ASSUME state \in [Automata -> State], NEW in \in [Automata -> SUBSET (1..N)],
         NEW n \in Nat, NEW moved \in [1..n -> Automata]
  PROVE  /\ NextStates(in, moved) \in [Automata -> State]
         /\ Distinct(moved) => \A a \in Automata :
              NextStates(in, moved)[a] =
                IF a \in ToSet(moved) THEN Transition(in[a], state[a]) ELSE state[a]
<1>c. PICK c \in [0..n -> [Automata -> State]] :
           /\ c[0] = state
           /\ \A k \in 1..n : c[k] = MoveOne(in, c[k-1], moved[k])
           /\ NextStates(in, moved) = c[n]
  BY MoveChain
<1>1. NextStates(in, moved) \in [Automata -> State]
  BY <1>c
<1>2. ASSUME Distinct(moved), NEW a \in Automata
      PROVE  c[n][a] = IF a \in ToSet(moved) THEN Transition(in[a], state[a]) ELSE state[a]
  <2> DEFINE Moved(k) == \E j \in 1..k : moved[j] = a
  <2> DEFINE Right(k) == c[k][a] = IF Moved(k) THEN Transition(in[a], state[a]) ELSE state[a]
  <2> DEFINE G == {k \in Nat : k <= n => Right(k)}
  <2>1. 0 \in G
    BY <1>c
  <2>2. ASSUME NEW k \in Nat, k \in G PROVE k + 1 \in G
    <3> SUFFICES ASSUME k + 1 <= n PROVE Right(k + 1)
      OBVIOUS
    <3>1. k + 1 \in 1..n /\ (k + 1) - 1 = k /\ k \in 0..n
      OBVIOUS
    <3>2. c[k + 1] = MoveOne(in, c[k], moved[k + 1])
      BY <1>c, <3>1
    <3>3. c[k + 1][a] = IF a = moved[k + 1] THEN Transition(in[a], c[k][a]) ELSE c[k][a]
      <4>s. PICK s \in [Automata -> State] : s = c[k]
        BY <1>c, <3>1
      <4>b. PICK b \in Automata : b = moved[k + 1]
        BY <3>1
      <4>1. MoveOne(in, s, b)[a] = IF a = b THEN Transition(in[a], s[a]) ELSE s[a]
        BY MoveOneAt
      <4>2. c[k + 1] = MoveOne(in, s, b)
        BY <3>2, <4>s, <4>b
      <4> QED
        BY <4>s, <4>b, <4>1, <4>2, Zenon
    <3>4. Right(k)
      BY <2>2
    <3>5. CASE a = moved[k + 1]
      <4>1. ~Moved(k)
        <5> SUFFICES ASSUME NEW j \in 1..k, moved[j] = a PROVE FALSE
          OBVIOUS
        <5>1. j \in DOMAIN moved /\ k + 1 \in DOMAIN moved /\ j # k + 1
          BY <3>1
        <5> QED
          BY <1>2, <3>5, <5>1 DEF Distinct
      <4>2. Moved(k + 1)
        BY <3>5
      <4> HIDE DEF Moved
      <4> QED
        BY <3>3, <3>4, <3>5, <4>1, <4>2
    <3>6. CASE a # moved[k + 1]
      <4>1. Moved(k) <=> Moved(k + 1)
        BY <3>6
      <4> HIDE DEF Moved
      <4> QED
        BY <3>3, <3>4, <3>6, <4>1
    <3> QED
      BY <3>5, <3>6
  <2>3. n \in G
    <3> HIDE DEF G
    <3> QED
      BY <2>1, <2>2, SetInduction
  <2>4. Moved(n) <=> a \in ToSet(moved)
    BY ToSetIs
  <2>5. Right(n)
    BY <2>3
  <2> HIDE DEF Moved
  <2> QED
    BY <2>4, <2>5
<1> QED
  BY <1>1, <1>2, <1>c

-----------------------------------------------------------------------------
\* The inductive invariant, and that it holds initially.

\* A deleted automaton leaves nothing behind.
DeadAreBlank ==
  \A a \in Automata \ alive :
    /\ \A p \in 1..N : source[<<a, p>>] = NoLink
    /\ \A j \in 1..M : driven[<<a, j>>] = EmptyVector

\* The inductive invariant.
WiringInv == SoundLinks(Links) /\ DeadAreBlank
Inv == TypeOK /\ WiringInv /\ OutputIsCurrent

\* The memory of links after a step.
LEMMA LinksAre ==
  /\ Links.source = source /\ Links.driven = driven
  /\ Links = [source |-> source, driven |-> driven]
BY DEF Links

\* A fresh vector fits and holds nothing.
LEMMA EmptyIsVector ==
  /\ EmptyVector \in Vector /\ VectorFits(EmptyVector) /\ ToSet(EmptyVector.data) = {}
  /\ Distinct(EmptyVector.data) /\ DOMAIN EmptyVector.data = {}
<1>1. <<>> \in Seq(InBits) /\ Len(<<>>) = 0 /\ DOMAIN <<>> = {}
  BY EmptySeq
<1>2. EmptyVector.data = <<>> /\ EmptyVector.capacity = InitialCapacity
  BY DEF EmptyVector
<1>3. EmptyVector \in Vector
  BY <1>1, MooreAssumption DEF EmptyVector, Vector
<1>4. VectorFits(EmptyVector)
  BY <1>1, <1>2, MooreAssumption DEF VectorFits
<1> QED
  BY <1>1, <1>2, <1>3, <1>4, ToSetIs DEF Distinct

\* Outputs of typed states.
LEMMA OutputTyped == \A q \in State : Output(q) \in SUBSET (1..M)
BY MooreAssumption

\* It holds before the first automaton is made.
LEMMA InitInv == Init => Inv
<1> SUFFICES ASSUME Init PROVE Inv
  OBVIOUS
<1>1. TypeOK
  BY EmptyIsVector, OutputTyped DEF Init, TypeOK
<1>2. SoundLinks(Links)
  <2>1. Links \in LinksType
    BY <1>1 DEF LinksType, Links, TypeOK
  <2>2. \A o \in OutBits : Links.driven[o] = EmptyVector
    BY DEF Init, Links
  <2> QED
    BY <2>1, <2>2, EmptyIsVector DEF SoundLinks, PointsBack, NoRepeats, Fits
<1>3. DeadAreBlank
  BY DEF Init, DeadAreBlank, InBits, OutBits
<1>4. OutputIsCurrent
  BY DEF Init, OutputIsCurrent
<1> QED
  BY <1>1, <1>2, <1>3, <1>4 DEF Inv, WiringInv

-----------------------------------------------------------------------------
\* What it says of the links, and ma_create_full.

\* A vector that holds nothing is left alone by a cut.
LEMMA EmptyStays ==
  ASSUME NEW l, SoundLinks(l), NEW r, SoundLinks(r), NEW cut, OnlyCut(l, r, cut),
         NEW o \in OutBits, l.driven[o] = EmptyVector
  PROVE  r.driven[o] = EmptyVector
<1>w. PICK w \in Vector : w = r.driven[o]
  BY DEF SoundLinks, LinksType
<1>1. VectorCut(EmptyVector, w, cut)
  BY <1>w DEF OnlyCut
<1>2. Len(w.data) \in Nat /\ Len(EmptyVector.data) = 0
  BY LenProperties, EmptySeq DEF Vector, EmptyVector
<1>3. w = EmptyVector
  BY <1>1, <1>2 DEF VectorCut
<1> QED
  BY <1>3, <1>w

\* What an invariant state gives about the memory of links.
LEMMA LinksFacts ==
  ASSUME Inv
  PROVE  /\ SoundLinks(Links) /\ Links.source = source /\ Links.driven = driven
         /\ source \in [InBits -> OutBits \cup {NoLink}] /\ driven \in [OutBits -> Vector]
         /\ \A i \in InBits : i[1] \notin alive => source[i] = NoLink
         /\ \A o \in OutBits : o[1] \notin alive => driven[o] = EmptyVector
<1>1. \A i \in InBits : i[1] \notin alive => source[i] = NoLink
  <2> SUFFICES ASSUME NEW i \in InBits, i[1] \notin alive PROVE source[i] = NoLink
    OBVIOUS
  <2>1. i = <<i[1], i[2]>> /\ i[1] \in Automata \ alive /\ i[2] \in 1..N
    BY DEF InBits
  <2> QED
    BY <2>1 DEF Inv, WiringInv, DeadAreBlank
<1>2. \A o \in OutBits : o[1] \notin alive => driven[o] = EmptyVector
  <2> SUFFICES ASSUME NEW o \in OutBits, o[1] \notin alive PROVE driven[o] = EmptyVector
    OBVIOUS
  <2>1. o = <<o[1], o[2]>> /\ o[1] \in Automata \ alive /\ o[2] \in 1..M
    BY DEF OutBits
  <2> QED
    BY <2>1 DEF Inv, WiringInv, DeadAreBlank
<1> QED
  BY <1>1, <1>2, LinksAre DEF Inv, WiringInv, TypeOK

\* The wiring invariant, restored from its parts.
LEMMA WiringRestored ==
  ASSUME NEW l, SoundLinks(l), source' = l.source, driven' = l.driven,
         \A i \in InBits : i[1] \notin alive' => l.source[i] = NoLink,
         \A o \in OutBits : o[1] \notin alive' => l.driven[o] = EmptyVector
  PROVE  /\ WiringInv'
         /\ source' \in [InBits -> OutBits \cup {NoLink}] /\ driven' \in [OutBits -> Vector]
<1>1. l = [source |-> source', driven |-> driven']
  BY DEF SoundLinks, LinksType
<1>2. Links' = l
  BY <1>1 DEF Links
<1>3. DeadAreBlank'
  BY DEF DeadAreBlank, InBits, OutBits
<1>4. source' \in [InBits -> OutBits \cup {NoLink}] /\ driven' \in [OutBits -> Vector]
  BY DEF SoundLinks, LinksType
<1> QED
  BY <1>2, <1>3, <1>4 DEF WiringInv

\* A call that leaves the wires and the set of automata alone.
LEMMA WiringKept == ASSUME WiringInv, UNCHANGED <<alive, links>> PROVE WiringInv'
BY DEF WiringInv, SoundLinks, LinksType, PointsBack, NoRepeats, Fits, Links, DeadAreBlank, links

\* Creating an automaton touches no wire: a free address has none.
LEMMA CreateInv == ASSUME Inv, NEW a \in Automata, NEW q \in State, Create(a, q) PROVE Inv'
<1>1. source' = source /\ driven' = driven
  <2>1. \A i \in InBits : (IF i[1] = a THEN NoLink ELSE source[i]) = source[i]
    BY LinksFacts DEF Create
  <2>2. \A o \in OutBits : (IF o[1] = a THEN EmptyVector ELSE driven[o]) = driven[o]
    BY LinksFacts DEF Create
  <2> QED
    BY <2>1, <2>2, LinksFacts DEF Create
<1>2. WiringInv'
  <2>1. \A i \in InBits : i[1] \notin alive' => source[i] = NoLink
    BY LinksFacts DEF Create
  <2>2. \A o \in OutBits : o[1] \notin alive' => driven[o] = EmptyVector
    BY LinksFacts DEF Create
  <2>3. SoundLinks(Links) /\ Links.source = source /\ Links.driven = driven
    BY LinksFacts
  <2> QED
    BY <1>1, <2>1, <2>2, <2>3, WiringRestored
<1>3. TypeOK'
  BY <1>1, OutputTyped DEF Inv, TypeOK, Create
<1>4. OutputIsCurrent'
  BY DEF Inv, TypeOK, OutputIsCurrent, Create
<1> QED
  BY <1>2, <1>3, <1>4 DEF Inv

-----------------------------------------------------------------------------
\* ma_delete.

\* The cut of a range of inputs in an invariant state.
LEMMA CutFacts ==
  ASSUME Inv, NEW a \in Automata, NEW in \in Nat \ {0}, NEW num \in Nat, in + num - 1 <= N,
         NEW l, l = DeleteConnectionsIn(Links, a, Positions(in, num))
  PROVE  /\ SoundLinks(l) /\ OnlyCut(Links, l, BitRange(a, in, num))
         /\ \A i \in InBits : l.source[i] = IF i \in BitRange(a, in, num) THEN NoLink ELSE source[i]
         /\ \A i \in InBits : i[1] \notin alive => l.source[i] = NoLink
         /\ \A o \in OutBits : o[1] \notin alive => l.driven[o] = EmptyVector
<1>1. SoundLinks(l) /\ OnlyCut(Links, l, BitRange(a, in, num))
  BY LinksFacts, CutRange
<1>2. \A i \in InBits : l.source[i] = IF i \in BitRange(a, in, num) THEN NoLink ELSE source[i]
  BY <1>1, LinksFacts DEF OnlyCut
<1>3. \A i \in InBits : i[1] \notin alive => l.source[i] = NoLink
  BY <1>2, LinksFacts
<1>4. \A o \in OutBits : o[1] \notin alive => l.driven[o] = EmptyVector
  BY <1>1, LinksFacts, EmptyStays
<1> QED
  BY <1>1, <1>2, <1>3, <1>4

\* The memory ma_delete leaves: the inputs of a are cut, those it drives cleared.
LEMMA DeleteLinks ==
  ASSUME Inv, NEW a \in Automata, Delete(a)
  PROVE  \E l, m :
           /\ l = DeleteConnectionsIn(Links, a, Positions(1, N))
           /\ SoundLinks(l) /\ OnlyCut(Links, l, BitRange(a, 1, N))
           /\ SoundLinks(m) /\ source' = m.source /\ driven' = m.driven
           /\ \A i \in InBits : m.source[i] =
                IF \E o \in OutBits : o[1] = a /\ i \in ToSet(l.driven[o].data)
                THEN NoLink ELSE l.source[i]
           /\ \A o \in OutBits : m.driven[o] = IF o[1] = a THEN EmptyVector ELSE l.driven[o]
<1>l. PICK l : l = DeleteConnectionsIn(Links, a, Positions(1, N))
  OBVIOUS
<1>0. N \in Nat /\ 1 \in Nat \ {0} /\ 1 + N - 1 <= N
  BY MooreAssumption
<1>1. SoundLinks(l) /\ OnlyCut(Links, l, BitRange(a, 1, N))
  BY <1>0, <1>l, CutFacts
<1>d. PICK dropped : dropped = UNION {ToSet(l.driven[<<a, j>>].data) : j \in 1..M}
  OBVIOUS
<1>m. PICK m : m = [source |-> [i \in InBits |-> IF i \in dropped THEN NoLink ELSE l.source[i]],
                    driven |-> [o \in OutBits |-> IF o[1] = a THEN EmptyVector ELSE l.driven[o]]]
  OBVIOUS
<1>2. source' = m.source /\ driven' = m.driven
  BY <1>l, <1>d, <1>m DEF Delete
<1>3. \A i : i \in dropped <=> \E o \in OutBits : o[1] = a /\ i \in ToSet(l.driven[o].data)
  <2>1. ASSUME NEW i, i \in dropped
        PROVE  \E o \in OutBits : o[1] = a /\ i \in ToSet(l.driven[o].data)
    <3>1. PICK j \in 1..M : i \in ToSet(l.driven[<<a, j>>].data)
      BY <1>d, <2>1
    <3>2. <<a, j>> \in OutBits /\ <<a, j>>[1] = a
      BY DEF OutBits
    <3> QED
      BY <3>1, <3>2
  <2>2. ASSUME NEW i, NEW o \in OutBits, o[1] = a, i \in ToSet(l.driven[o].data)
        PROVE  i \in dropped
    <3>1. o = <<a, o[2]>> /\ o[2] \in 1..M
      BY <2>2 DEF OutBits
    <3> QED
      BY <1>d, <2>2, <3>1
  <2> QED
    BY <2>1, <2>2
<1>4. \A i \in InBits : m.source[i] = IF i \in dropped THEN NoLink ELSE l.source[i]
  BY <1>m
<1>5. \A o \in OutBits : m.driven[o] = IF o[1] = a THEN EmptyVector ELSE l.driven[o]
  BY <1>m
<1>6. /\ m \in LinksType
      /\ \A o \in OutBits : VectorFits(m.driven[o]) /\ Distinct(m.driven[o].data)
  <2>1. l.source \in [InBits -> OutBits \cup {NoLink}] /\ l.driven \in [OutBits -> Vector]
    BY <1>1 DEF SoundLinks, LinksType
  <2>2. m \in LinksType
    BY <1>m, <2>1, EmptyIsVector DEF LinksType
  <2> QED
    BY <1>1, <1>5, <2>2, EmptyIsVector DEF SoundLinks, Fits, NoRepeats
<1>7. PointsBack(m)
  <2> SUFFICES ASSUME NEW o \in OutBits, NEW k \in DOMAIN m.driven[o].data
               PROVE  m.source[m.driven[o].data[k]] = o
    BY DEF PointsBack
  <2>x. PICK x : x = m.driven[o].data[k]
    OBVIOUS
  <2>1. o[1] # a
    BY <1>5, EmptyIsVector
  <2>2. x \in ToSet(l.driven[o].data) /\ x \in InBits
    BY <1>5, <1>6, <2>1, <2>x, ToSetIs, EntriesAreBits
  <2>3. l.source[x] = o
    BY <1>1, <2>2, EntryHasSource
  <2>4. x \notin dropped
    <3> SUFFICES ASSUME NEW u \in OutBits, u[1] = a, x \in ToSet(l.driven[u].data) PROVE FALSE
      BY <1>3
    <3>1. l.source[x] = u
      BY <1>1, EntryHasSource
    <3> QED
      BY <2>1, <2>3, <3>1
  <2> QED
    BY <1>4, <2>2, <2>3, <2>4, <2>x
<1>8. SoundLinks(m)
  BY <1>6, <1>7 DEF SoundLinks, Fits, NoRepeats
<1> QED
  BY <1>1, <1>2, <1>3, <1>4, <1>5, <1>8, <1>l

\* Deleting an automaton takes its own wires and those it drives.
LEMMA DeleteInv == ASSUME Inv, NEW a \in Automata, Delete(a) PROVE Inv'
<1>1. PICK l, m :
           /\ l = DeleteConnectionsIn(Links, a, Positions(1, N))
           /\ SoundLinks(l) /\ OnlyCut(Links, l, BitRange(a, 1, N))
           /\ SoundLinks(m) /\ source' = m.source /\ driven' = m.driven
           /\ \A i \in InBits : m.source[i] =
                IF \E o \in OutBits : o[1] = a /\ i \in ToSet(l.driven[o].data)
                THEN NoLink ELSE l.source[i]
           /\ \A o \in OutBits : m.driven[o] = IF o[1] = a THEN EmptyVector ELSE l.driven[o]
  BY DeleteLinks
<1>0. N \in Nat /\ 1 \in Nat \ {0} /\ 1 + N - 1 <= N
  BY MooreAssumption
<1>2. \A i \in InBits : i[1] \notin alive' => m.source[i] = NoLink
  <2> SUFFICES ASSUME NEW i \in InBits, i[1] \notin alive', l.source[i] # NoLink PROVE FALSE
    BY <1>1
  <2>1. i \notin BitRange(a, 1, N) /\ source[i] # NoLink
    BY <1>0, <1>1, CutFacts
  <2>2. i[1] # a
    BY <1>0, <2>1 DEF InBits, BitRange
  <2> QED
    BY <2>1, <2>2, LinksFacts DEF Delete
<1>3. \A o \in OutBits : o[1] \notin alive' => m.driven[o] = EmptyVector
  <2> SUFFICES ASSUME NEW o \in OutBits, o[1] \notin alive', o[1] # a
               PROVE  l.driven[o] = EmptyVector
    BY <1>1
  <2>1. o[1] \notin alive
    BY DEF Delete
  <2> QED
    BY <1>0, <1>1, <2>1, CutFacts
<1>4. WiringInv' /\ source' \in [InBits -> OutBits \cup {NoLink}] /\ driven' \in [OutBits -> Vector]
  BY <1>1, <1>2, <1>3, WiringRestored
<1>5. TypeOK' /\ OutputIsCurrent'
  BY <1>4 DEF Inv, TypeOK, OutputIsCurrent, Delete, values
<1> QED
  BY <1>4, <1>5 DEF Inv

-----------------------------------------------------------------------------
\* ma_connect, complete or cut short by realloc.

\* Cutting inputs and connecting a first part of them to living outputs.
LEMMA ConnectedFacts ==
  ASSUME Inv, NEW a \in alive, NEW b \in alive, NEW in \in 1..N, NEW out \in 1..M,
         NEW num \in 1..N, NEW part \in 0..num, in + num - 1 <= N, out + num - 1 <= M,
         NEW l, l = DeleteConnectionsIn(Links, a, Positions(in, num)),
         NEW m, m = Connected(l, a, in, b, out, part)
  PROVE  /\ SoundLinks(l) /\ OnlyCut(Links, l, BitRange(a, in, num))
         /\ SoundLinks(m)
         /\ Wired(l, m, a, in, b, out, part)
         /\ \A i \in InBits : i[1] \notin alive => m.source[i] = NoLink
         /\ \A o \in OutBits : o[1] \notin alive => m.driven[o] = EmptyVector
<1>0. /\ N \in Nat /\ M \in Nat /\ in \in Nat \ {0} /\ out \in Nat \ {0}
      /\ num \in Nat /\ part \in Nat
      /\ in + part - 1 <= N /\ out + part - 1 <= M
      /\ a \in Automata /\ b \in Automata
  BY MooreAssumption DEF Inv, TypeOK
<1>1. /\ SoundLinks(l) /\ OnlyCut(Links, l, BitRange(a, in, num))
      /\ \A i \in InBits : l.source[i] = IF i \in BitRange(a, in, num) THEN NoLink ELSE source[i]
      /\ \A i \in InBits : i[1] \notin alive => l.source[i] = NoLink
      /\ \A o \in OutBits : o[1] \notin alive => l.driven[o] = EmptyVector
  BY <1>0, CutFacts
<1>2. BitRange(a, in, part) \subseteq BitRange(a, in, num) /\ BitRange(a, in, num) \subseteq InBits
  BY <1>0 DEF BitRange, InBits
<1>3. \A i \in BitRange(a, in, part) : l.source[i] = NoLink
  BY <1>1, <1>2
<1>4. SoundLinks(m) /\ Wired(l, m, a, in, b, out, part)
  BY <1>0, <1>1, <1>3, ConnectedIsSound
<1>5. \A i \in InBits : i[1] \notin alive => m.source[i] = NoLink
  <2> SUFFICES ASSUME NEW i \in InBits, i[1] \notin alive PROVE m.source[i] = NoLink
    OBVIOUS
  <2>1. i \notin BitRange(a, in, part)
    BY DEF BitRange
  <2> QED
    BY <1>1, <1>4, <2>1 DEF Wired
<1>6. \A o \in OutBits : o[1] \notin alive => m.driven[o] = EmptyVector
  <2> SUFFICES ASSUME NEW o \in OutBits, o[1] \notin alive PROVE m.driven[o] = EmptyVector
    OBVIOUS
  <2>1. o[1] # b
    OBVIOUS
  <2> QED
    BY <1>1, <1>4, <2>1 DEF Wired
<1> QED
  BY <1>1, <1>4, <1>5, <1>6

\* ma_connect that succeeds.
LEMMA ConnectInv ==
  ASSUME Inv, NEW a \in Automata, NEW b \in Automata, NEW in \in 1..N, NEW out \in 1..M,
         NEW num \in 1..N, Connect(a, in, b, out, num)
  PROVE  Inv'
<1>l. PICK l : l = DeleteConnectionsIn(Links, a, Positions(in, num))
  OBVIOUS
<1>m. PICK m : m = Connected(l, a, in, b, out, num)
  OBVIOUS
<1>0. a \in alive /\ b \in alive /\ in + num - 1 <= N /\ out + num - 1 <= M /\ num \in 0..num
  BY MooreAssumption DEF Connect, LegalConnect
<1>1. source' = m.source /\ driven' = m.driven /\ alive' = alive
  BY <1>l, <1>m DEF Connect, SetLinks
<1>2. /\ SoundLinks(m)
      /\ \A i \in InBits : i[1] \notin alive => m.source[i] = NoLink
      /\ \A o \in OutBits : o[1] \notin alive => m.driven[o] = EmptyVector
  BY <1>0, <1>l, <1>m, ConnectedFacts
<1>3. WiringInv' /\ source' \in [InBits -> OutBits \cup {NoLink}] /\ driven' \in [OutBits -> Vector]
  BY <1>1, <1>2, WiringRestored
<1> QED
  BY <1>3 DEF Inv, TypeOK, OutputIsCurrent, Connect, values

\* A push_back refused: r is the memory m of the connections made before it,
\* with the k-th input pointing to an output whose vector only believes in more.
PushRefused(l, m, r, a, in, b, out, num, k) ==
  /\ l = DeleteConnectionsIn(Links, a, Positions(in, num))
  /\ SoundLinks(l) /\ OnlyCut(Links, l, BitRange(a, in, num))
  /\ SoundLinks(m) /\ Wired(l, m, a, in, b, out, k - 1)
  /\ SoundLinks(r)
  /\ a \in alive /\ b \in alive /\ "realloc" \in FailingCalls /\ k \in 1..num
  /\ in + num - 1 <= N /\ out + num - 1 <= M
  /\ <<b, out + k - 1>> \in OutBits /\ <<a, in + k - 1>> \in InBits
  /\ Full(m.driven[<<b, out + k - 1>>])
  /\ \A i \in InBits : i[1] \notin alive => m.source[i] = NoLink
  /\ \A o \in OutBits : o[1] \notin alive => m.driven[o] = EmptyVector
  /\ \A i \in InBits : r.source[i] = IF i = <<a, in + k - 1>> THEN <<b, out + k - 1>>
                                     ELSE m.source[i]
  /\ \A o \in OutBits : r.driven[o] = IF o = <<b, out + k - 1>>
                                      THEN PushBackFailed(m.driven[o]) ELSE m.driven[o]

\* The memory a refused push_back leaves is sound all the same.
LEMMA FailedLinks ==
  ASSUME Inv, NEW a \in Automata, NEW b \in Automata, NEW in \in 1..N, NEW out \in 1..M,
         NEW num \in 1..N, NEW k \in 1..N, ConnectFails(a, in, b, out, num, k)
  PROVE  \E l, m, r : /\ PushRefused(l, m, r, a, in, b, out, num, k)
                      /\ source' = r.source /\ driven' = r.driven
<1>l. PICK l : l = DeleteConnectionsIn(Links, a, Positions(in, num))
  OBVIOUS
<1>m. PICK m : m = Connected(l, a, in, b, out, k - 1)
  OBVIOUS
<1>t. PICK last : last = <<b, out + k - 1>>
  OBVIOUS
<1>b. PICK bit : bit = <<a, in + k - 1>>
  OBVIOUS
<1>0. a \in alive /\ b \in alive /\ in + num - 1 <= N /\ out + num - 1 <= M /\ k \in 1..num
  BY DEF ConnectFails, LegalConnect
<1>1. last \in OutBits /\ bit \in InBits /\ k - 1 \in 0..num
  BY <1>0, <1>t, <1>b, MooreAssumption DEF OutBits, InBits
<1>2. /\ SoundLinks(l) /\ OnlyCut(Links, l, BitRange(a, in, num))
      /\ SoundLinks(m) /\ Wired(l, m, a, in, b, out, k - 1)
      /\ \A i \in InBits : i[1] \notin alive => m.source[i] = NoLink
      /\ \A o \in OutBits : o[1] \notin alive => m.driven[o] = EmptyVector
  BY <1>0, <1>1, <1>l, <1>m, ConnectedFacts
<1>3. /\ m.source \in [InBits -> OutBits \cup {NoLink}] /\ m.driven \in [OutBits -> Vector]
  BY <1>2 DEF SoundLinks, LinksType
<1>r. PICK r : r = [source |-> [m.source EXCEPT ![bit] = last],
                    driven |-> [m.driven EXCEPT ![last] = PushBackFailed(@)]]
  OBVIOUS
<1>4. source' = r.source /\ driven' = r.driven /\ Full(m.driven[last]) /\ "realloc" \in FailingCalls
  BY <1>l, <1>m, <1>r, <1>t, <1>b, Zenon DEF ConnectFails
<1>5. \A i \in InBits : r.source[i] = IF i = bit THEN last ELSE m.source[i]
  BY <1>1, <1>3, <1>r
<1>6. \A o \in OutBits : r.driven[o] = IF o = last THEN PushBackFailed(m.driven[o]) ELSE m.driven[o]
  BY <1>1, <1>3, <1>r
<1>7. m.source[bit] = NoLink
  <2>1. bit \notin BitRange(a, in, k - 1)
    BY <1>b, <1>0, MooreAssumption DEF BitRange
  <2>2. bit \in BitRange(a, in, num)
    BY <1>b, <1>0, MooreAssumption DEF BitRange
  <2>3. l.source[bit] = NoLink
    BY <1>1, <1>2, <2>2 DEF OnlyCut
  <2> QED
    BY <1>1, <1>2, <2>1, <2>3 DEF Wired
<1>8. ASSUME NEW v \in Vector, VectorFits(v)
      PROVE  /\ PushBackFailed(v) \in Vector /\ VectorFits(PushBackFailed(v))
             /\ PushBackFailed(v).data = v.data
  <2>1. /\ v = [data |-> v.data, capacity |-> v.capacity, allocated |-> v.allocated]
        /\ v.data \in Seq(InBits) /\ v.capacity \in Nat /\ v.allocated \in Nat
    BY DEF Vector
  <2>2. \A x : [v EXCEPT !.capacity = x] =
                [data |-> v.data, capacity |-> x, allocated |-> v.allocated]
    BY <2>1
  <2>3. PushBackFailed(v) = [v EXCEPT !.capacity = 2 * v.capacity]
    BY Zenon DEF PushBackFailed
  <2>4. PushBackFailed(v) =
          [data |-> v.data, capacity |-> 2 * v.capacity, allocated |-> v.allocated]
    BY <2>2, <2>3, Zenon
  <2>5. 2 * v.capacity \in Nat /\ v.capacity <= 2 * v.capacity
    BY <2>1
  <2>6. PushBackFailed(v) \in Vector
    BY <2>1, <2>4, <2>5 DEF Vector
  <2>7. Len(v.data) \in Nat
    BY <2>1, LenProperties
  <2>8. VectorFits(PushBackFailed(v))
    BY <1>8, <2>1, <2>4, <2>5, <2>7 DEF VectorFits
  <2> QED
    BY <2>4, <2>6, <2>8
<1>9. \A o \in OutBits : /\ r.driven[o] \in Vector /\ VectorFits(r.driven[o])
                         /\ r.driven[o].data = m.driven[o].data
  <2> SUFFICES ASSUME NEW o \in OutBits
               PROVE  /\ r.driven[o] \in Vector /\ VectorFits(r.driven[o])
                      /\ r.driven[o].data = m.driven[o].data
    OBVIOUS
  <2>v. PICK v \in Vector : v = m.driven[o]
    BY <1>3
  <2>1. VectorFits(v)
    BY <1>2, <2>v DEF SoundLinks, Fits
  <2>2. /\ PushBackFailed(v) \in Vector /\ VectorFits(PushBackFailed(v))
        /\ PushBackFailed(v).data = v.data
    BY <1>8, <2>1
  <2> QED
    BY <1>6, <2>1, <2>2, <2>v
<1>10. r \in LinksType
  <2>1. r.source \in [InBits -> OutBits \cup {NoLink}]
    BY <1>1, <1>3, <1>r
  <2>2. r.driven \in [OutBits -> Vector]
    <3>1. DOMAIN r.driven = OutBits /\ r.driven = [o \in OutBits |-> r.driven[o]]
      BY <1>3, <1>r
    <3> QED
      BY <1>9, <3>1
  <2> QED
    BY <1>r, <2>1, <2>2 DEF LinksType
<1>11. PointsBack(r)
  <2> SUFFICES ASSUME NEW o \in OutBits, NEW j \in DOMAIN m.driven[o].data
               PROVE  r.source[m.driven[o].data[j]] = o
    BY <1>9 DEF PointsBack
  <2>x. PICK x : x = m.driven[o].data[j]
    OBVIOUS
  <2>1. x \in ToSet(m.driven[o].data) /\ x \in InBits /\ m \in LinksType
    BY <1>2, <2>x, ToSetIs, EntriesAreBits DEF SoundLinks
  <2>2. m.source[x] = o
    BY <1>2, <2>1, EntryHasSource
  <2>3. x # bit
    BY <1>7, <2>2, NoLinkIsNoBit
  <2> QED
    BY <1>5, <2>1, <2>2, <2>3, <2>x
<1>12. NoRepeats(r)
  BY <1>2, <1>9 DEF SoundLinks, NoRepeats
<1>13. SoundLinks(r)
  BY <1>9, <1>10, <1>11, <1>12 DEF SoundLinks, Fits
<1> QED
  <2>1. PushRefused(l, m, r, a, in, b, out, num, k)
    BY <1>0, <1>1, <1>2, <1>4, <1>5, <1>6, <1>13, <1>l, <1>t, <1>b DEF PushRefused
  <2> QED
    BY <2>1, <1>4

-----------------------------------------------------------------------------
\* The other calls.

\* ma_connect that fails half-way.
LEMMA ConnectFailsInv ==
  ASSUME Inv, NEW a \in Automata, NEW b \in Automata, NEW in \in 1..N, NEW out \in 1..M,
         NEW num \in 1..N, NEW k \in 1..N, ConnectFails(a, in, b, out, num, k)
  PROVE  Inv'
<1>1. PICK l, m, r : /\ PushRefused(l, m, r, a, in, b, out, num, k)
                     /\ source' = r.source /\ driven' = r.driven
  BY FailedLinks
<1>3. /\ \A i \in InBits : i[1] \notin alive => m.source[i] = NoLink
      /\ \A o \in OutBits : o[1] \notin alive => m.driven[o] = EmptyVector
      /\ SoundLinks(r) /\ a \in alive /\ b \in alive
  BY <1>1 DEF PushRefused
<1>4. \A i \in InBits : i[1] \notin alive => r.source[i] = NoLink
  BY <1>1, <1>3 DEF PushRefused
<1>5. \A o \in OutBits : o[1] \notin alive => r.driven[o] = EmptyVector
  BY <1>1, <1>3 DEF PushRefused
<1>6. alive' = alive
  BY DEF ConnectFails
<1>7. WiringInv' /\ source' \in [InBits -> OutBits \cup {NoLink}] /\ driven' \in [OutBits -> Vector]
  BY <1>1, <1>3, <1>4, <1>5, <1>6, WiringRestored
<1> QED
  BY <1>7 DEF Inv, TypeOK, OutputIsCurrent, ConnectFails, values

\* ma_disconnect.
LEMMA DisconnectInv ==
  ASSUME Inv, NEW a \in Automata, NEW in \in 1..N, NEW num \in 1..N, Disconnect(a, in, num)
  PROVE  Inv'
<1>l. PICK l : l = DeleteConnectionsIn(Links, a, Positions(in, num))
  OBVIOUS
<1>0. in \in Nat \ {0} /\ num \in Nat /\ in + num - 1 <= N
  BY MooreAssumption DEF Disconnect
<1>1. source' = l.source /\ driven' = l.driven /\ alive' = alive
  BY <1>l DEF Disconnect, SetLinks
<1>2. /\ SoundLinks(l)
      /\ \A i \in InBits : i[1] \notin alive => l.source[i] = NoLink
      /\ \A o \in OutBits : o[1] \notin alive => l.driven[o] = EmptyVector
  BY <1>0, <1>l, CutFacts
<1>3. WiringInv' /\ source' \in [InBits -> OutBits \cup {NoLink}] /\ driven' \in [OutBits -> Vector]
  BY <1>1, <1>2, WiringRestored
<1> QED
  BY <1>3 DEF Inv, TypeOK, OutputIsCurrent, Disconnect, values

\* ma_set_input writes the free bits of one automaton.
LEMMA SetInputInv ==
  ASSUME Inv, NEW a \in Automata, NEW word \in Words, SetInput(a, word)
  PROVE  Inv'
<1>1. WiringInv'
  BY WiringKept DEF Inv, SetInput, links
<1>2. TypeOK'
  <2>1. source' = source /\ driven' = driven
    BY DEF SetInput, links
  <2>2. input' \in [Automata -> SUBSET (1..N)]
    BY MooreAssumption DEF SetInput, Inv, TypeOK
  <2> QED
    BY <2>1, <2>2 DEF Inv, TypeOK, SetInput
<1> QED
  BY <1>1, <1>2 DEF Inv, OutputIsCurrent, SetInput

\* ma_set_state computes the output at once.
LEMMA SetStateInv ==
  ASSUME Inv, NEW a \in Automata, NEW q \in State, SetState(a, q)
  PROVE  Inv'
<1>1. WiringInv'
  BY WiringKept DEF Inv, SetState, links
<1>2. TypeOK'
  BY OutputTyped DEF Inv, TypeOK, SetState, links
<1>3. OutputIsCurrent'
  BY DEF Inv, TypeOK, OutputIsCurrent, SetState
<1> QED
  BY <1>1, <1>2, <1>3 DEF Inv

\* The effect of a step on the values: at is sampled, moved has moved.
StepEffect(at, moved) ==
  /\ ToSet(moved) \subseteq ToSet(at) /\ ToSet(at) \subseteq alive /\ alive \subseteq Automata
  /\ input' \in [Automata -> SUBSET (1..N)] /\ state' \in [Automata -> State]
  /\ \A a \in Automata : input'[a] = IF a \in ToSet(at) THEN UpdatedInput(a) ELSE input[a]
  /\ \A a \in Automata :
       state'[a] = IF a \in ToSet(moved) THEN Transition(input'[a], state[a]) ELSE state[a]
  /\ \A a \in Automata :
       output'[a] = IF a \in ToSet(moved) THEN Output(state'[a]) ELSE output[a]

\* ma_step has this effect: the automata of the array are distinct.
LEMMA StepFacts ==
  ASSUME Inv, NEW at \in StepLists, NEW done \in 0..Len(at), Step(at, done)
  PROVE  StepEffect(at, SubSeq(at, 1, done))
<1>m. PICK moved : moved = SubSeq(at, 1, done)
  OBVIOUS
<1>1. ToSet(at) \subseteq alive /\ alive \subseteq Automata
  BY DEF Step, Inv, TypeOK
<1>n. PICK n \in 1..Cardinality(Automata) : at \in [1..n -> Automata]
  BY DEF StepLists
<1>2. n \in Nat /\ at \in Seq(Automata) /\ Len(at) = n /\ Distinct(at)
  <2>1. n \in Nat
    OBVIOUS
  <2>2. at \in Seq(Automata) /\ Len(at) = n
    BY <1>n, <2>1, LenProperties
  <2> QED
    BY <2>1, <2>2 DEF StepLists, Distinct
<1>3. moved \in [1..done -> Automata] /\ \A k \in 1..done : moved[k] = at[k]
  <2>1. done \in Int /\ 1 \in Int /\ done <= Len(at) /\ (\A i \in 1..done : at[i] \in Automata)
    BY <1>2, <1>n
  <2>2. /\ moved \in Seq(Automata)
        /\ Len(moved) = IF 1 <= done THEN done - 1 + 1 ELSE 0
        /\ \A i \in 1..(done - 1 + 1) : moved[i] = at[1 + i - 1]
    BY <1>2, <1>m, <2>1, SubSeqProperties
  <2>3. Len(moved) = done /\ \A k \in 1..done : moved[k] = at[k]
    BY <1>2, <2>2
  <2> QED
    BY <2>2, <2>3, LenProperties
<1>4. Distinct(moved) /\ ToSet(moved) \subseteq ToSet(at)
  BY <1>2, <1>3, <1>n, ToSetIs DEF Distinct
<1>5. input' \in [Automata -> SUBSET (1..N)]
  BY DEF Step, Inv, TypeOK, UpdatedInput
<1>6. state' = NextStates(input', moved)
  BY <1>m DEF Step
<1>s. PICK in \in [Automata -> SUBSET (1..N)] : in = input'
  BY <1>5
<1>7. /\ NextStates(in, moved) \in [Automata -> State]
      /\ \A a \in Automata : NextStates(in, moved)[a] =
           IF a \in ToSet(moved) THEN Transition(in[a], state[a]) ELSE state[a]
  <2>1. state \in [Automata -> State] /\ done \in Nat
    BY <1>2 DEF Inv, TypeOK
  <2> QED
    BY <1>3, <1>4, <2>1, NextStatesIs
<1>8. \A a \in Automata : input'[a] = IF a \in ToSet(at) THEN UpdatedInput(a) ELSE input[a]
  BY DEF Step
<1>9. \A a \in Automata : output'[a] = IF a \in ToSet(moved) THEN Output(state'[a]) ELSE output[a]
  BY <1>m DEF Step
<1>10. StepEffect(at, moved)
  BY <1>1, <1>4, <1>5, <1>6, <1>7, <1>8, <1>9, <1>s DEF StepEffect
<1> QED
  BY <1>10, <1>m

\* ma_step: what has moved shows the output of its new state, the rest is as it was.
LEMMA StepInv ==
  ASSUME Inv, NEW at \in StepLists, NEW done \in 0..Len(at), Step(at, done)
  PROVE  Inv'
<1>m. PICK moved : moved = SubSeq(at, 1, done)
  OBVIOUS
<1>1. WiringInv'
  BY WiringKept DEF Inv, Step
<1>2. /\ input' \in [Automata -> SUBSET (1..N)] /\ state' \in [Automata -> State]
      /\ \A a \in Automata :
           state'[a] = IF a \in ToSet(moved) THEN Transition(input'[a], state[a]) ELSE state[a]
      /\ \A a \in Automata :
           output'[a] = IF a \in ToSet(moved) THEN Output(state'[a]) ELSE output[a]
  BY <1>m, StepFacts DEF StepEffect
<1>3. output' \in [Automata -> SUBSET (1..M)]
  <2>1. \A a \in Automata : output'[a] \in SUBSET (1..M)
    BY <1>2, OutputTyped DEF Inv, TypeOK
  <2>2. output' = [a \in Automata |-> output'[a]]
    BY DEF Step
  <2> QED
    BY <2>1, <2>2
<1>4. TypeOK'
  BY <1>2, <1>3 DEF Inv, TypeOK, Step, links
<1>5. OutputIsCurrent'
  <2> SUFFICES ASSUME NEW a \in alive PROVE output'[a] = Output(state'[a])
    BY DEF OutputIsCurrent, Step
  <2>1. a \in Automata /\ output[a] = Output(state[a])
    BY DEF Inv, TypeOK, OutputIsCurrent
  <2> QED
    BY <1>2, <2>1
<1> QED
  BY <1>1, <1>4, <1>5 DEF Inv

-----------------------------------------------------------------------------
\* The invariants.

\* Every call, also one that fails half-way, keeps the inductive invariant.
LEMMA NextInv == ASSUME Inv, [Next]_vars PROVE Inv'
<1>1. CASE UNCHANGED vars
  <2>1. UNCHANGED <<alive, links>>
    BY <1>1 DEF vars, links
  <2>2. WiringInv'
    BY <2>1, WiringKept DEF Inv
  <2> QED
    BY <1>1, <2>2 DEF Inv, TypeOK, OutputIsCurrent, vars
<1>2. ASSUME NEW a \in Automata, NEW q \in State, Create(a, q) \/ SetState(a, q) PROVE Inv'
  BY <1>2, CreateInv, SetStateInv
<1>3. ASSUME NEW a \in Automata, Delete(a) PROVE Inv'
  BY <1>3, DeleteInv
<1>4. ASSUME NEW a \in Automata, NEW word \in Words, SetInput(a, word) PROVE Inv'
  BY <1>4, SetInputInv
<1>5. ASSUME NEW a \in Automata, NEW in \in 1..N, NEW num \in 1..N, Disconnect(a, in, num)
      PROVE  Inv'
  BY <1>5, DisconnectInv
<1>6. ASSUME NEW a \in Automata, NEW in \in 1..N, NEW num \in 1..N, NEW b \in Automata,
             NEW out \in 1..M, Connect(a, in, b, out, num)
      PROVE  Inv'
  BY <1>6, ConnectInv
<1>7. ASSUME NEW a \in Automata, NEW in \in 1..N, NEW num \in 1..N, NEW b \in Automata,
             NEW out \in 1..M, NEW k \in 1..N, ConnectFails(a, in, b, out, num, k)
      PROVE  Inv'
  BY <1>7, ConnectFailsInv
<1>8. ASSUME NEW at \in StepLists, NEW done \in 0..Len(at), Step(at, done) PROVE Inv'
  BY <1>8, StepInv
<1> QED
  BY <1>1, <1>2, <1>3, <1>4, <1>5, <1>6, <1>7, <1>8 DEF Next

\* The inductive invariant holds in every state, whatever calls a caller makes and
\* whatever allocations fail.
THEOREM InvHolds == Spec => []Inv
<1>1. Init => Inv
  BY InitInv
<1>2. Inv /\ [Next]_vars => Inv'
  BY NextInv
<1> QED
  BY <1>1, <1>2, PTL DEF Spec

\* Every link leads to a bit of an automaton, every vector holds input bits.
THEOREM TypeCorrect == Spec => []TypeOK
<1>1. Inv => TypeOK
  BY DEF Inv
<1> QED
  BY <1>1, InvHolds, PTL

\* ma_get_output shows the output of the current state, also after a step that
\* ran out of memory half-way.
THEOREM OutputFollowsState == Spec => []OutputIsCurrent
<1>1. Inv => OutputIsCurrent
  BY DEF Inv
<1> QED
  BY <1>1, InvHolds, PTL

\* push_back and erase keep every vector within the capacity it believes in: the
\* doubling before realloc never lets it be passed unnoticed.
THEOREM CapacityKept == Spec => []WithinCapacity
<1>1. Inv => WithinCapacity
  BY LinksFacts DEF WithinCapacity, SoundLinks, Fits, VectorFits
<1> QED
  BY <1>1, InvHolds, PTL

\* A sequence that does not repeat itself counts each entry at most once.
LEMMA CountsOnce == ASSUME NEW d, Distinct(d), NEW x PROVE Count(d, x) <= 1
<1>1. CASE {i \in DOMAIN d : d[i] = x} = {}
  BY <1>1, FS_EmptySet DEF Count
<1>2. CASE {i \in DOMAIN d : d[i] = x} # {}
  <2>1. PICK k \in DOMAIN d : d[k] = x
    BY <1>2
  <2>2. {i \in DOMAIN d : d[i] = x} = {k}
    BY <2>1 DEF Distinct
  <2>3. Cardinality({k}) = 1
    BY FS_Singleton
  <2> QED
    BY <2>2, <2>3 DEF Count
<1> QED
  BY <1>1, <1>2

\* The vector of a living output names, once each, inputs of living automata that
\* point back to it.
THEOREM VectorsAreSound == Spec => []VectorsPointBack
<1>1. ASSUME Inv, NEW o \in OutBits, NEW i \in ToSet(driven[o].data)
      PROVE  i[1] \in alive /\ source[i] = o
  <2>1. SoundLinks(Links) /\ Links \in LinksType /\ Links.driven[o] = driven[o]
    BY <1>1, LinksFacts DEF SoundLinks
  <2>2. i \in InBits /\ source[i] = o
    BY <1>1, <2>1, EntriesAreBits, EntryHasSource, LinksFacts
  <2> QED
    BY <1>1, <2>2, LinksFacts, NoLinkIsNoBit
<1>2. ASSUME Inv, NEW o \in OutBits, NEW i \in InBits PROVE Count(driven[o].data, i) <= 1
  <2>1. Distinct(driven[o].data)
    BY <1>2, LinksFacts DEF SoundLinks, NoRepeats
  <2> QED
    BY <2>1, CountsOnce
<1>3. Inv => VectorsPointBack
  BY <1>1, <1>2 DEF VectorsPointBack
<1> QED
  BY <1>3, InvHolds, PTL

-----------------------------------------------------------------------------
\* Records: what each call keeps.

\* i stands in the vector of the output it reads, in a memory of links.
RecordedIn(l, i, living) ==
  l.source[i] # NoLink => l.source[i][1] \in living /\ i \in ToSet(l.driven[l.source[i]].data)

\* Recorded, in the current memory and in the next one.
LEMMA RecordedIs ==
  \A i : /\ Recorded(i) <=> RecordedIn(Links, i, alive)
         /\ \A l : source' = l.source /\ driven' = l.driven =>
                     (Recorded(i)' <=> RecordedIn(l, i, alive'))
BY LinksAre DEF Recorded, RecordedIn

\* A cut costs no record but those it means to.
LEMMA CutKeepsRecords ==
  ASSUME NEW l, l \in LinksType, NEW r, NEW cut, OnlyCut(l, r, cut), NEW i \in InBits, NEW living,
         RecordedIn(l, i, living)
  PROVE  RecordedIn(r, i, living)
<1>1. CASE i \in cut
  BY <1>1 DEF OnlyCut, RecordedIn
<1>2. CASE i \notin cut
  <2>1. r.source[i] = l.source[i]
    BY <1>2 DEF OnlyCut
  <2>2. CASE l.source[i] # NoLink
    <3>o. PICK o \in OutBits : o = l.source[i]
      BY <2>2 DEF LinksType
    <3>1. i \in ToSet(l.driven[o].data) /\ o[1] \in living
      BY <2>2, <3>o DEF RecordedIn
    <3>2. VectorCut(l.driven[o], r.driven[o], cut)
      BY DEF OnlyCut
    <3>3. i \in ToSet(r.driven[o].data)
      BY <1>2, <3>1, <3>2 DEF VectorCut
    <3> QED
      BY <2>1, <3>1, <3>3, <3>o DEF RecordedIn
  <2> QED
    BY <2>1, <2>2 DEF RecordedIn
<1> QED
  BY <1>1, <1>2

\* Wiring inputs to living outputs enters them and costs no record.
LEMMA WiredKeepsRecords ==
  ASSUME NEW l, SoundLinks(l), NEW m, NEW a \in Automata, NEW b \in Automata,
         NEW in \in Nat \ {0}, NEW out \in Nat \ {0}, NEW num \in Nat,
         in + num - 1 <= N, out + num - 1 <= M,
         Wired(l, m, a, in, b, out, num), NEW living, b \in living,
         NEW i \in InBits, i \in BitRange(a, in, num) \/ RecordedIn(l, i, living)
  PROVE  RecordedIn(m, i, living)
<1>0. l \in LinksType
  BY DEF SoundLinks
<1>1. ASSUME NEW o \in OutBits, NEW x \in InBits
      PROVE  ToSet(PushBack(l.driven[o], x).data) = ToSet(l.driven[o].data) \cup {x}
  <2>v. PICK v \in Vector : v = l.driven[o]
    BY <1>0 DEF LinksType
  <2>1. VectorFits(v) /\ v.data \in Seq(InBits)
    BY <2>v DEF SoundLinks, Fits, Vector
  <2>2. PushBack(v, x).data = Append(v.data, x)
    BY <2>1, PushBackIs
  <2>3. ToSet(Append(v.data, x)) = ToSet(v.data) \cup {x}
    BY <2>1, AppendIs
  <2> QED
    BY <2>2, <2>3, <2>v
<1>2. CASE i \in BitRange(a, in, num)
  <2>p. PICK p \in 1..N : p = i[2] /\ i = <<a, p>>
    BY <1>2 DEF BitRange, InBits
  <2>o. PICK o : o = <<b, out + (p - in)>>
    OBVIOUS
  <2>0. p \in in..(in + num - 1)
    BY <1>2, <2>p DEF BitRange
  <2>1. /\ o \in OutBits /\ o[1] = b /\ o[2] = out + (p - in)
        /\ o[2] \in out..(out + num - 1) /\ in + (o[2] - out) = p
    BY <2>0, <2>o, MooreAssumption DEF OutBits
  <2>2. m.source[i] = o
    BY <1>2, <2>p, <2>o DEF Wired
  <2>3. m.driven[o] = PushBack(l.driven[o], <<a, in + (o[2] - out)>>)
    BY <2>1 DEF Wired
  <2>4. <<a, in + (o[2] - out)>> = i
    BY <2>1, <2>p
  <2>5. m.driven[o] = PushBack(l.driven[o], i)
    BY <2>3, <2>4
  <2>6. i \in ToSet(m.driven[o].data)
    BY <1>1, <2>1, <2>5
  <2> QED
    BY <2>1, <2>2, <2>6 DEF RecordedIn
<1>3. CASE i \notin BitRange(a, in, num) /\ l.source[i] # NoLink
  <2>o. PICK o \in OutBits : o = l.source[i]
    BY <1>0, <1>3 DEF LinksType
  <2>1. m.source[i] = o
    BY <1>3, <2>o DEF Wired
  <2>2. i \in ToSet(l.driven[o].data) /\ o[1] \in living
    BY <1>3, <2>o DEF RecordedIn
  <2>3. CASE o[1] = b /\ o[2] \in out..(out + num - 1)
    <3>x. PICK x : x = <<a, in + (o[2] - out)>>
      OBVIOUS
    <3>1. x \in InBits
      BY <2>3, <3>x, MooreAssumption DEF InBits
    <3>2. m.driven[o] = PushBack(l.driven[o], x)
      BY <2>3, <3>x DEF Wired
    <3>3. i \in ToSet(m.driven[o].data)
      BY <1>1, <2>2, <3>1, <3>2
    <3> QED
      BY <2>1, <2>2, <3>3 DEF RecordedIn
  <2>4. CASE ~(o[1] = b /\ o[2] \in out..(out + num - 1))
    <3>1. m.driven[o] = l.driven[o]
      BY <2>4 DEF Wired
    <3> QED
      BY <2>1, <2>2, <3>1 DEF RecordedIn
  <2> QED
    BY <2>3, <2>4
<1>4. CASE i \notin BitRange(a, in, num) /\ l.source[i] = NoLink
  BY <1>4 DEF Wired, RecordedIn
<1> QED
  BY <1>2, <1>3, <1>4

\* A call that leaves the wires alone costs no record.
LEMMA CreateKeepsLinks ==
  ASSUME Inv, NEW a \in Automata, NEW q \in State, Create(a, q)
  PROVE  source' = source /\ driven' = driven
<1>1. \A i \in InBits : (IF i[1] = a THEN NoLink ELSE source[i]) = source[i]
  BY LinksFacts DEF Create
<1>2. \A o \in OutBits : (IF o[1] = a THEN EmptyVector ELSE driven[o]) = driven[o]
  BY LinksFacts DEF Create
<1> QED
  BY <1>1, <1>2, LinksFacts DEF Create

\* ma_delete costs no record of an automaton that stays.
LEMMA DeleteKeepsRecords ==
  ASSUME Inv, NEW a \in Automata, Delete(a), NEW i \in InBits, i[1] # a, Recorded(i)
  PROVE  Recorded(i)'
<1>1. PICK l, m :
           /\ l = DeleteConnectionsIn(Links, a, Positions(1, N))
           /\ SoundLinks(l) /\ OnlyCut(Links, l, BitRange(a, 1, N))
           /\ SoundLinks(m) /\ source' = m.source /\ driven' = m.driven
           /\ \A j \in InBits : m.source[j] =
                IF \E o \in OutBits : o[1] = a /\ j \in ToSet(l.driven[o].data)
                THEN NoLink ELSE l.source[j]
           /\ \A o \in OutBits : m.driven[o] = IF o[1] = a THEN EmptyVector ELSE l.driven[o]
  BY DeleteLinks
<1>2. RecordedIn(l, i, alive)
  <2>1. Links \in LinksType
    BY LinksFacts DEF SoundLinks
  <2> QED
    BY <1>1, <2>1, RecordedIs, CutKeepsRecords
<1>3. CASE m.source[i] # NoLink
  <2>1. m.source[i] = l.source[i]
    BY <1>1, <1>3
  <2>o. PICK o \in OutBits : o = l.source[i]
    BY <1>1, <1>3, <2>1 DEF SoundLinks, LinksType
  <2>2. o[1] \in alive /\ i \in ToSet(l.driven[o].data)
    BY <1>2, <1>3, <2>1, <2>o DEF RecordedIn
  <2>3. o[1] # a
    BY <1>1, <1>3, <2>2
  <2>4. o[1] \in alive' /\ m.driven[o] = l.driven[o]
    BY <1>1, <2>2, <2>3 DEF Delete
  <2>5. RecordedIn(m, i, alive')
    BY <2>1, <2>2, <2>4, <2>o DEF RecordedIn
  <2> QED
    BY <1>1, <2>5, RecordedIs
<1>4. CASE m.source[i] = NoLink
  BY <1>1, <1>4, RecordedIs DEF RecordedIn
<1> QED
  BY <1>3, <1>4

\* ma_disconnect.
LEMMA DisconnectKeepsRecords ==
  ASSUME Inv, NEW a \in Automata, NEW in \in 1..N, NEW num \in 1..N, Disconnect(a, in, num),
         NEW i \in InBits, Recorded(i)
  PROVE  Recorded(i)'
<1>l. PICK l : l = DeleteConnectionsIn(Links, a, Positions(in, num))
  OBVIOUS
<1>0. in \in Nat \ {0} /\ num \in Nat /\ in + num - 1 <= N
  BY MooreAssumption DEF Disconnect
<1>1. source' = l.source /\ driven' = l.driven /\ alive' = alive
  BY <1>l DEF Disconnect, SetLinks
<1>2. OnlyCut(Links, l, BitRange(a, in, num)) /\ Links \in LinksType
  BY <1>0, <1>l, CutFacts, LinksFacts DEF SoundLinks
<1>3. RecordedIn(l, i, alive)
  BY <1>2, RecordedIs, CutKeepsRecords
<1> QED
  BY <1>1, <1>3, RecordedIs

\* ma_connect.
LEMMA ConnectKeepsRecords ==
  ASSUME Inv, NEW a \in Automata, NEW b \in Automata, NEW in \in 1..N, NEW out \in 1..M,
         NEW num \in 1..N, Connect(a, in, b, out, num), NEW i \in InBits, Recorded(i)
  PROVE  Recorded(i)'
<1>l. PICK l : l = DeleteConnectionsIn(Links, a, Positions(in, num))
  OBVIOUS
<1>m. PICK m : m = Connected(l, a, in, b, out, num)
  OBVIOUS
<1>0. a \in alive /\ b \in alive /\ in + num - 1 <= N /\ out + num - 1 <= M /\ num \in 0..num
  BY MooreAssumption DEF Connect, LegalConnect
<1>1. source' = m.source /\ driven' = m.driven /\ alive' = alive
  BY <1>l, <1>m DEF Connect, SetLinks
<1>2. /\ SoundLinks(l) /\ OnlyCut(Links, l, BitRange(a, in, num))
      /\ Wired(l, m, a, in, b, out, num)
  BY <1>0, <1>l, <1>m, ConnectedFacts
<1>3. RecordedIn(l, i, alive)
  <2>1. Links \in LinksType
    BY LinksFacts DEF SoundLinks
  <2> QED
    BY <1>2, <2>1, RecordedIs, CutKeepsRecords
<1>4. RecordedIn(m, i, alive)
  <2>1. in \in Nat \ {0} /\ out \in Nat \ {0} /\ num \in Nat
    BY MooreAssumption
  <2> QED
    BY <1>0, <1>2, <1>3, <2>1, WiredKeepsRecords
<1> QED
  BY <1>1, <1>4, RecordedIs

-----------------------------------------------------------------------------
\* Records: what a refused push_back costs.

\* ma_connect that fails: only the record it could not make is missing.
LEMMA RefusedRecord ==
  ASSUME Inv, NEW a \in Automata, NEW b \in Automata, NEW in \in 1..N, NEW out \in 1..M,
         NEW num \in 1..N, NEW k \in 1..N, ConnectFails(a, in, b, out, num, k),
         NEW i \in InBits, Recorded(i), ~Recorded(i)'
  PROVE  /\ "realloc" \in FailingCalls
         /\ source'[i][1] \in alive /\ driven'[source'[i]] = PushBackFailed(driven[source'[i]])
<1>1. PICK l, m, r : /\ PushRefused(l, m, r, a, in, b, out, num, k)
                     /\ source' = r.source /\ driven' = r.driven
  BY FailedLinks
<1>t. PICK last : last = <<b, out + k - 1>>
  OBVIOUS
<1>b. PICK bit : bit = <<a, in + k - 1>>
  OBVIOUS
<1>2. /\ SoundLinks(l) /\ OnlyCut(Links, l, BitRange(a, in, num))
      /\ SoundLinks(m) /\ Wired(l, m, a, in, b, out, k - 1)
      /\ b \in alive /\ "realloc" \in FailingCalls /\ k \in 1..num
      /\ in + num - 1 <= N /\ out + num - 1 <= M
      /\ last \in OutBits /\ bit \in InBits /\ Full(m.driven[last])
      /\ \A j \in InBits : r.source[j] = IF j = bit THEN last ELSE m.source[j]
      /\ \A o \in OutBits : r.driven[o] = IF o = last THEN PushBackFailed(m.driven[o])
                                          ELSE m.driven[o]
  BY <1>1, <1>t, <1>b DEF PushRefused
<1>3. RecordedIn(l, i, alive)
  <2>1. Links \in LinksType
    BY LinksFacts DEF SoundLinks
  <2> QED
    BY <1>2, <2>1, RecordedIs, CutKeepsRecords
<1>4. RecordedIn(m, i, alive)
  <2>1. /\ in \in Nat \ {0} /\ out \in Nat \ {0} /\ k - 1 \in Nat
        /\ in + (k - 1) - 1 <= N /\ out + (k - 1) - 1 <= M
    BY <1>2, MooreAssumption
  <2> QED
    BY <1>2, <1>3, <2>1, WiredKeepsRecords
<1>5. \A v : PushBackFailed(v).data = v.data
  BY DEF PushBackFailed
<1>6. ASSUME i # bit PROVE FALSE
  <2>1. r.source[i] = m.source[i]
    BY <1>2, <1>6
  <2>2. CASE m.source[i] = NoLink
    <3>1. RecordedIn(r, i, alive)
      BY <2>1, <2>2 DEF RecordedIn
    <3> QED
      BY <1>1, <3>1, RecordedIs DEF ConnectFails
  <2>3. CASE m.source[i] # NoLink
    <3>o. PICK o \in OutBits : o = m.source[i]
      BY <1>2, <2>3 DEF SoundLinks, LinksType
    <3>1. o[1] \in alive /\ i \in ToSet(m.driven[o].data)
      BY <1>4, <2>3, <3>o DEF RecordedIn
    <3>2. r.driven[o].data = m.driven[o].data
      BY <1>2, <1>5
    <3>3. RecordedIn(r, i, alive)
      BY <2>1, <3>1, <3>2, <3>o DEF RecordedIn
    <3> QED
      BY <1>1, <3>3, RecordedIs DEF ConnectFails
  <2> QED
    BY <2>2, <2>3
<1>7. source'[i] = last /\ last[1] = b /\ driven'[last] = PushBackFailed(m.driven[last])
  BY <1>1, <1>2, <1>6, <1>t
<1>8. m.driven[last] = l.driven[last]
  <2>1. ~(last[2] \in out..(out + (k - 1) - 1))
    BY <1>t, <1>2, MooreAssumption
  <2> QED
    BY <1>2, <2>1 DEF Wired
\* A vector that is full after the cut has lost nothing to it.
<1>9. l.driven[last] = driven[last]
  <2>v. PICK v \in Vector : v = driven[last]
    BY <1>2, LinksFacts
  <2>w. PICK w \in Vector : w = l.driven[last]
    BY <1>2 DEF SoundLinks, LinksType
  <2>1. VectorCut(v, w, BitRange(a, in, num))
    BY <1>2, LinksFacts, <2>v, <2>w DEF OnlyCut
  <2>2. VectorFits(v)
    BY <1>2, LinksFacts, <2>v DEF SoundLinks, Fits
  <2>3. Len(w.data) = w.capacity
    BY <1>2, <1>8, <2>w DEF Full
  <2>4. Len(v.data) \in Nat /\ Len(w.data) \in Nat /\ v.capacity \in Nat
    BY LenProperties DEF Vector
  <2>5. w = v
    BY <2>1, <2>2, <2>3, <2>4 DEF VectorCut, VectorFits
  <2> QED
    BY <2>5, <2>v, <2>w
<1> QED
  BY <1>2, <1>7, <1>8, <1>9

\* A living input loses its record only in a call that could not make it.
LostToRealloc(i) ==
  i[1] \in alive /\ i[1] \in alive' /\ Recorded(i) /\ ~Recorded(i)' =>
    /\ "realloc" \in FailingCalls
    /\ source'[i][1] \in alive /\ driven'[source'[i]] = PushBackFailed(driven[source'[i]])

\* Call by call.
LEMMA RecordStep == ASSUME Inv, Next, NEW i \in InBits PROVE LostToRealloc(i)
<1> SUFFICES ASSUME i[1] \in alive, i[1] \in alive', Recorded(i), ~Recorded(i)'
             PROVE  /\ "realloc" \in FailingCalls /\ source'[i][1] \in alive
                    /\ driven'[source'[i]] = PushBackFailed(driven[source'[i]])
  BY DEF LostToRealloc
<1>1. ASSUME source' = source, driven' = driven, alive \subseteq alive' PROVE FALSE
  <2>1. source[i] # NoLink => source[i][1] \in alive /\ i \in ToSet(driven[source[i]].data)
    BY DEF Recorded
  <2>2. source'[i] # NoLink => source'[i][1] \in alive' /\ i \in ToSet(driven'[source'[i]].data)
    BY <1>1, <2>1
  <2> QED
    BY <2>2 DEF Recorded
<1>2. ASSUME NEW a \in Automata, NEW q \in State, Create(a, q) PROVE FALSE
  BY <1>1, <1>2, CreateKeepsLinks DEF Create
<1>3. ASSUME NEW a \in Automata, NEW q \in State, SetState(a, q) PROVE FALSE
  BY <1>1, <1>3 DEF SetState, links
<1>4. ASSUME NEW a \in Automata, Delete(a) PROVE FALSE
  BY <1>4, DeleteKeepsRecords DEF Delete
<1>5. ASSUME NEW a \in Automata, NEW word \in Words, SetInput(a, word) PROVE FALSE
  BY <1>1, <1>5 DEF SetInput, links
<1>6. ASSUME NEW a \in Automata, NEW in \in 1..N, NEW num \in 1..N, Disconnect(a, in, num)
      PROVE  FALSE
  BY <1>6, DisconnectKeepsRecords
<1>7. ASSUME NEW a \in Automata, NEW in \in 1..N, NEW num \in 1..N, NEW b \in Automata,
             NEW out \in 1..M, Connect(a, in, b, out, num)
      PROVE  FALSE
  BY <1>7, ConnectKeepsRecords
<1>8. ASSUME NEW a \in Automata, NEW in \in 1..N, NEW num \in 1..N, NEW b \in Automata,
             NEW out \in 1..M, NEW k \in 1..N, ConnectFails(a, in, b, out, num, k)
      PROVE  /\ "realloc" \in FailingCalls /\ source'[i][1] \in alive
             /\ driven'[source'[i]] = PushBackFailed(driven[source'[i]])
  BY <1>8, RefusedRecord
<1>9. ASSUME NEW at \in StepLists, NEW done \in 0..Len(at), Step(at, done) PROVE FALSE
  BY <1>1, <1>9 DEF Step, links
<1> QED
  BY <1>2, <1>3, <1>4, <1>5, <1>6, <1>7, <1>8, <1>9 DEF Next

\* No order of connecting, cutting, deleting and stepping costs an input its record,
\* except the realloc that was to make it.
THEOREM RecordsKept == Spec => RecordLostOnlyToRealloc
<1>1. Inv /\ [Next]_vars =>
        [\A i \in InBits : i[1] \in alive /\ i[1] \in alive' /\ Recorded(i) /\ ~Recorded(i)' =>
           /\ "realloc" \in FailingCalls
           /\ LET out == source'[i]
              IN  out[1] \in alive /\ driven'[out] = PushBackFailed(driven[out])]_vars
  <2> SUFFICES ASSUME Inv, Next, NEW i \in InBits,
                      i[1] \in alive, i[1] \in alive', Recorded(i), ~Recorded(i)'
               PROVE  /\ "realloc" \in FailingCalls
                      /\ source'[i][1] \in alive
                      /\ driven'[source'[i]] = PushBackFailed(driven[source'[i]])
    OBVIOUS
  <2> QED
    BY RecordStep DEF LostToRealloc
<1> QED
  BY <1>1, InvHolds, PTL DEF Spec, RecordLostOnlyToRealloc

-----------------------------------------------------------------------------
\* The refinement: as long as realloc does not fail, every record is there.

\* No record is missing, as long as realloc does not fail.
AllRecorded == \A i \in InBits : Recorded(i)

\* Nothing is wired at first.
LEMMA AllRecordedInit == Init => AllRecorded
BY DEF Init, AllRecorded, Recorded

\* Only ma_create_full makes an automaton.
LEMMA OnlyCreateAdds ==
  ASSUME Next, ~(alive' \subseteq alive)
  PROVE  \E a \in Automata, q \in State : Create(a, q)
<1>1. \A a \in Automata, q \in State : SetState(a, q) => alive' = alive
  BY DEF SetState
<1>2. \A a \in Automata : Delete(a) => alive' \subseteq alive
  BY DEF Delete
<1>3. \A a \in Automata, word \in Words : SetInput(a, word) => alive' = alive
  BY DEF SetInput
<1>4. \A a \in Automata, in, num \in 1..N : Disconnect(a, in, num) => alive' = alive
  BY DEF Disconnect
<1>5. \A a, b \in Automata, in, num \in 1..N, out \in 1..M :
        Connect(a, in, b, out, num) => alive' = alive
  BY DEF Connect
<1>6. \A a, b \in Automata, in, num, k \in 1..N, out \in 1..M :
        ConnectFails(a, in, b, out, num, k) => alive' = alive
  BY DEF ConnectFails
<1>7. \A at \in StepLists : \A done \in 0..Len(at) : Step(at, done) => alive' = alive
  BY DEF Step
<1> QED
  BY <1>1, <1>2, <1>3, <1>4, <1>5, <1>6, <1>7 DEF Next

\* A call that succeeds records what it connects, and no call loses a record.
LEMMA AllRecordedNext ==
  ASSUME "realloc" \notin FailingCalls, Inv, Inv', AllRecorded, [Next]_vars
  PROVE  AllRecorded'
<1>1. CASE UNCHANGED vars
  BY <1>1 DEF vars, AllRecorded, Recorded
<1>2. CASE Next
  <2> SUFFICES ASSUME NEW i \in InBits PROVE Recorded(i)'
    BY DEF AllRecorded
  <2>0. Recorded(i)
    BY DEF AllRecorded
  <2>1. CASE i[1] \in alive /\ i[1] \in alive'
    BY <1>2, <2>0, <2>1, RecordStep DEF LostToRealloc
  <2>2. CASE i[1] \notin alive'
    <3>1. i = <<i[1], i[2]>> /\ i[1] \in Automata \ alive' /\ i[2] \in 1..N
      BY <2>2 DEF InBits
    <3>2. source'[i] = NoLink
      BY <3>1 DEF Inv, WiringInv, DeadAreBlank
    <3> QED
      BY <3>2 DEF Recorded
  <2>3. CASE i[1] \notin alive /\ i[1] \in alive'
    <3>1. PICK a \in Automata, q \in State : Create(a, q)
      BY <1>2, <2>3, OnlyCreateAdds
    <3>2. source'[i] = NoLink
      BY <2>3, <3>1, CreateKeepsLinks, LinksFacts
    <3> QED
      BY <3>2 DEF Recorded
  <2> QED
    BY <2>1, <2>2, <2>3
<1> QED
  BY <1>1, <1>2

\* The refined bit, at an input.
LEMMA HeldIs ==
  /\ \A i \in InBits : Held[i] <=> source[i] = NoLink /\ i[2] \in input[i[1]]
  /\ \A i \in InBits : Held'[i] <=> source'[i] = NoLink /\ i[2] \in input'[i[1]]
BY DEF Held

\* The bits of the abstract network are those of the library.
LEMMA NetworkBits ==
  /\ Network!InBits = InBits
  /\ \A a : Network!Bits(a) = {i \in InBits : i[1] = a}
  /\ \A changed : Network!HeldOutside(changed) <=> \A i \in InBits \ changed : Held'[i] = Held[i]
  /\ \A i : Network!Driven(i) <=> source[i] # NoLink
BY DEF Network!InBits, InBits, Network!Bits, Network!HeldOutside, Network!Driven

\* The library starts as an empty network.
LEMMA NetworkInit == Init => Network!Init
<1> SUFFICES ASSUME Init PROVE Network!Init
  OBVIOUS
<1>1. Held = [i \in InBits |-> FALSE]
  <2>1. \A i \in InBits : (source[i] = NoLink /\ i[2] \in input[i[1]]) = FALSE
    BY DEF Init, InBits
  <2> QED
    BY <2>1 DEF Held
<1> QED
  BY <1>1, NetworkBits DEF Init, Network!Init

\* ma_create_full adds an automaton whose inputs are 0.
LEMMA CreateAdds ==
  ASSUME Inv, NEW a \in Automata, NEW q \in State, Create(a, q)
  PROVE  Network!Add(a)
<1>1. source' = source
  BY CreateKeepsLinks
<1>2. \A i \in InBits : i[1] # a => Held'[i] = Held[i]
  <2> SUFFICES ASSUME NEW i \in InBits, i[1] # a PROVE Held'[i] = Held[i]
    OBVIOUS
  <2>1. input'[i[1]] = input[i[1]]
    BY DEF Create, Inv, TypeOK, InBits
  <2> QED
    BY <1>1, <2>1 DEF Held
<1>3. \A i \in InBits : i[1] = a => ~Held'[i]
  BY HeldIs DEF Create, Inv, TypeOK, InBits
<1>4. \A b \in Automata \ {a} : state'[b] = state[b]
  BY DEF Create, Inv, TypeOK
<1> QED
  BY <1>1, <1>2, <1>3, <1>4, NetworkBits DEF Network!Add, Create

\* ma_set_state touches no wire and no held input.
LEMMA SetStateSets ==
  ASSUME Inv, NEW a \in Automata, NEW q \in State, SetState(a, q)
  PROVE  Network!Set(a)
<1>1. Held' = Held
  BY DEF SetState, links, Held
<1>2. \A b \in Automata \ {a} : state'[b] = state[b]
  BY DEF SetState, Inv, TypeOK
<1> QED
  BY <1>1, <1>2, NetworkBits DEF Network!Set, SetState, links

\* Only the inputs that nothing drives are written.
LEMMA SetInputSets ==
  ASSUME Inv, NEW a \in Automata, NEW word \in Words, SetInput(a, word)
  PROVE  Network!Set(a)
<1>1. \A i \in InBits : ~(i[1] = a /\ source[i] = NoLink) => Held'[i] = Held[i]
  <2> SUFFICES ASSUME NEW i \in InBits, ~(i[1] = a /\ source[i] = NoLink)
               PROVE  Held'[i] = Held[i]
    OBVIOUS
  <2>1. source' = source
    BY DEF SetInput, links
  <2>2. CASE source[i] # NoLink
    BY <2>1, <2>2 DEF Held
  <2>3. CASE i[1] # a
    <3>1. input'[i[1]] = input[i[1]]
      BY <2>3 DEF SetInput, Inv, TypeOK, InBits
    <3> QED
      BY <2>1, <3>1 DEF Held
  <2> QED
    BY <2>2, <2>3
<1> QED
  BY <1>1, NetworkBits DEF Network!Set, SetInput, links

\* A call that rewires inputs of a only.
LEMMA RewireIs ==
  ASSUME Inv, AllRecorded', NEW a \in alive, source' \in [InBits -> OutBits \cup {NoLink}],
         \A i \in InBits : i[1] # a => source'[i] = source[i],
         UNCHANGED <<alive, values>>
  PROVE  Network!Rewire(a)
<1>1. \A i \in InBits : source'[i] = source[i] => Held'[i] = Held[i]
  BY DEF Held, values
<1>2. \A i \in InBits : source'[i] = NoLink \/ source'[i][1] \in alive
  BY DEF AllRecorded, Recorded
<1> QED
  BY <1>1, <1>2, NetworkBits DEF Network!Rewire, values

\* ma_disconnect.
LEMMA DisconnectRewires ==
  ASSUME Inv, Inv', AllRecorded', NEW a \in Automata, NEW in \in 1..N, NEW num \in 1..N,
         Disconnect(a, in, num)
  PROVE  Network!Rewire(a)
<1>l. PICK l : l = DeleteConnectionsIn(Links, a, Positions(in, num))
  OBVIOUS
<1>0. in \in Nat \ {0} /\ num \in Nat /\ in + num - 1 <= N /\ a \in alive
  BY MooreAssumption DEF Disconnect
<1>1. source' = l.source
  BY <1>l DEF Disconnect, SetLinks
<1>2. \A i \in InBits : i[1] # a => source'[i] = source[i]
  <2> SUFFICES ASSUME NEW i \in InBits, i[1] # a PROVE source'[i] = source[i]
    OBVIOUS
  <2>1. i \notin BitRange(a, in, num)
    BY DEF BitRange
  <2>2. l.source[i] = IF i \in BitRange(a, in, num) THEN NoLink ELSE source[i]
    BY <1>0, <1>l, CutFacts
  <2> QED
    BY <1>1, <2>1, <2>2
<1>3. source' \in [InBits -> OutBits \cup {NoLink}]
  BY DEF Inv, TypeOK
<1> QED
  BY <1>0, <1>2, <1>3, RewireIs DEF Disconnect

\* ma_connect that succeeds.
LEMMA ConnectRewires ==
  ASSUME Inv, Inv', AllRecorded', NEW a \in Automata, NEW b \in Automata, NEW in \in 1..N,
         NEW out \in 1..M, NEW num \in 1..N, Connect(a, in, b, out, num)
  PROVE  Network!Rewire(a)
<1>l. PICK l : l = DeleteConnectionsIn(Links, a, Positions(in, num))
  OBVIOUS
<1>m. PICK m : m = Connected(l, a, in, b, out, num)
  OBVIOUS
<1>0. a \in alive /\ b \in alive /\ in + num - 1 <= N /\ out + num - 1 <= M /\ num \in 0..num
  BY MooreAssumption DEF Connect, LegalConnect
<1>1. source' = m.source
  BY <1>l, <1>m DEF Connect, SetLinks
<1>2. OnlyCut(Links, l, BitRange(a, in, num)) /\ Wired(l, m, a, in, b, out, num)
  BY <1>0, <1>l, <1>m, ConnectedFacts
<1>3. \A i \in InBits : i[1] # a => source'[i] = source[i]
  <2> SUFFICES ASSUME NEW i \in InBits, i[1] # a PROVE source'[i] = source[i]
    OBVIOUS
  <2>1. i \notin BitRange(a, in, num)
    BY DEF BitRange
  <2> QED
    BY <1>1, <1>2, <2>1, LinksAre DEF OnlyCut, Wired
<1>4. source' \in [InBits -> OutBits \cup {NoLink}]
  BY DEF Inv, TypeOK
<1> QED
  BY <1>0, <1>3, <1>4, RewireIs DEF Connect

-----------------------------------------------------------------------------
\* The refinement: ma_delete, ma_step, and the theorem.

\* ma_delete cuts the wires of a at both ends, and no other.
LEMMA DeleteRemoves ==
  ASSUME Inv, Inv', AllRecorded, NEW a \in Automata, Delete(a)
  PROVE  Network!Remove(a)
<1>1. PICK l, m :
           /\ l = DeleteConnectionsIn(Links, a, Positions(1, N))
           /\ SoundLinks(l) /\ OnlyCut(Links, l, BitRange(a, 1, N))
           /\ SoundLinks(m) /\ source' = m.source /\ driven' = m.driven
           /\ \A i \in InBits : m.source[i] =
                IF \E o \in OutBits : o[1] = a /\ i \in ToSet(l.driven[o].data)
                THEN NoLink ELSE l.source[i]
           /\ \A o \in OutBits : m.driven[o] = IF o[1] = a THEN EmptyVector ELSE l.driven[o]
  BY DeleteLinks
<1>2. ASSUME NEW i \in InBits
      PROVE  source'[i] = IF i[1] = a \/ (source[i] # NoLink /\ source[i][1] = a)
                          THEN NoLink ELSE source[i]
  <2>1. ASSUME i[1] = a PROVE source'[i] = NoLink
    <3>1. i = <<a, i[2]>> /\ i[2] \in 1..N /\ a \notin alive'
      BY <2>1 DEF InBits, Delete
    <3> QED
      BY <3>1 DEF Inv, WiringInv, DeadAreBlank
  <2>2. ASSUME i[1] # a PROVE l.source[i] = source[i] /\ i \notin BitRange(a, 1, N)
    <3>1. i \notin BitRange(a, 1, N)
      BY <2>2 DEF BitRange
    <3> QED
      BY <1>1, <3>1, LinksAre DEF OnlyCut
  <2>3. ASSUME i[1] # a, source[i] # NoLink, source[i][1] = a PROVE source'[i] = NoLink
    <3>o. PICK o \in OutBits : o = source[i]
      BY <2>3 DEF Inv, TypeOK
    <3>1. i \in ToSet(driven[o].data)
      BY <2>3, <3>o DEF AllRecorded, Recorded
    <3>2. VectorCut(driven[o], l.driven[o], BitRange(a, 1, N))
      BY <1>1, LinksAre DEF OnlyCut
    <3>3. i \in ToSet(l.driven[o].data)
      BY <2>2, <2>3, <3>1, <3>2 DEF VectorCut
    <3> QED
      BY <1>1, <2>3, <3>3, <3>o
  <2>4. ASSUME i[1] # a, ~(source[i] # NoLink /\ source[i][1] = a) PROVE source'[i] = source[i]
    <3>1. ASSUME NEW o \in OutBits, o[1] = a, i \in ToSet(l.driven[o].data) PROVE FALSE
      <4>1. l.source[i] = o
        BY <1>1, <3>1, EntryHasSource
      <4> QED
        BY <2>2, <2>4, <3>1, <4>1, NoLinkIsNoBit
    <3> QED
      BY <1>1, <2>2, <2>4, <3>1
  <2> QED
    BY <2>1, <2>3, <2>4
<1>3. source' = [i \in InBits |->
                   IF i[1] = a \/ (source[i] # NoLink /\ source[i][1] = a)
                   THEN NoLink ELSE source[i]]
  <2>1. source' = [i \in InBits |-> source'[i]]
    BY DEF Inv, TypeOK
  <2> QED
    BY <1>2, <2>1
<1>4. \A i \in InBits : source'[i] = source[i] => Held'[i] = Held[i]
  BY DEF Held, Delete, values
<1>5. Network!HeldOutside({i \in Network!InBits : source[i] # source'[i]} \cup Network!Bits(a))
  BY <1>4, NetworkBits
<1> QED
  BY <1>3, <1>5, NetworkBits DEF Network!Remove, Delete, values

\* A sampled input word is the one the network sees: cached outputs are current.
LEMMA SampledInput ==
  ASSUME Inv, AllRecorded, NEW a \in alive
  PROVE  UpdatedInput(a) = Network!InputOf(a)
<1>1. ASSUME NEW p \in 1..N
      PROVE  (IF source[<<a, p>>] = NoLink THEN p \in input[a]
              ELSE source[<<a, p>>][2] \in output[source[<<a, p>>][1]])
             <=> (IF source[<<a, p>>] = NoLink THEN Held[<<a, p>>]
                  ELSE source[<<a, p>>][2] \in Output(state[source[<<a, p>>][1]]))
  <2>0. <<a, p>> \in InBits /\ <<a, p>>[1] = a /\ <<a, p>>[2] = p
    BY DEF Inv, TypeOK, InBits
  <2>i. PICK i \in InBits : i = <<a, p>> /\ i[1] = a /\ i[2] = p
    BY <2>0
  <2>1. CASE source[i] = NoLink
    <3>1. Held[i] <=> p \in input[a]
      BY <2>1, <2>i, HeldIs
    <3> QED
      BY <2>1, <2>i, <3>1
  <2>2. CASE source[i] # NoLink
    <3>1. source[i][1] \in alive
      BY <2>2 DEF AllRecorded, Recorded
    <3>2. output[source[i][1]] = Output(state[source[i][1]])
      BY <3>1 DEF Inv, OutputIsCurrent
    <3> QED
      BY <2>2, <2>i, <3>2
  <2> QED
    BY <2>1, <2>2, <2>i
<1> QED
  BY <1>1 DEF UpdatedInput, Network!InputOf

\* ma_step, complete or cut short, moves the automata that have moved at once.
LEMMA StepMoves ==
  ASSUME Inv, AllRecorded, NEW at \in StepLists, NEW done \in 0..Len(at), Step(at, done)
  PROVE  \E S \in SUBSET Automata : Network!Move(S)
<1>m. PICK moved : moved = SubSeq(at, 1, done)
  OBVIOUS
<1>1. StepEffect(at, moved)
  BY <1>m, StepFacts
<1>s. PICK S : S = ToSet(moved)
  OBVIOUS
<1>2. S \subseteq ToSet(at) /\ ToSet(at) \subseteq alive /\ S \in SUBSET Automata
  BY <1>1, <1>s DEF StepEffect
<1>3. \A a \in Automata :
        state'[a] = IF a \in S THEN Transition(Network!InputOf(a), state[a]) ELSE state[a]
  <2> SUFFICES ASSUME NEW a \in Automata
               PROVE  state'[a] = IF a \in S THEN Transition(Network!InputOf(a), state[a])
                                  ELSE state[a]
    OBVIOUS
  <2>1. CASE a \in S
    <3>1. a \in alive /\ a \in ToSet(at)
      BY <1>2, <2>1
    <3>2. input'[a] = Network!InputOf(a)
      BY <1>1, <3>1, SampledInput DEF StepEffect
    <3>3. state'[a] = Transition(input'[a], state[a])
      BY <1>1, <1>s, <2>1 DEF StepEffect
    <3> QED
      BY <2>1, <3>2, <3>3
  <2>2. CASE a \notin S
    BY <1>1, <1>s, <2>2 DEF StepEffect
  <2> QED
    BY <2>1, <2>2
<1>4. Held' = Held
  <2>1. source' = source
    BY DEF Step, links
  <2>2. ASSUME NEW i \in InBits, source[i] = NoLink
        PROVE  i[2] \in input'[i[1]] <=> i[2] \in input[i[1]]
    <3>1. i[1] \in Automata /\ i[2] \in 1..N /\ i = <<i[1], i[2]>>
      BY DEF InBits
    <3>2. i[2] \in UpdatedInput(i[1]) <=> i[2] \in input[i[1]]
      BY <2>2, <3>1 DEF UpdatedInput
    <3> QED
      BY <1>1, <3>1, <3>2 DEF StepEffect
  <2>3. \A i \in InBits : (source'[i] = NoLink /\ i[2] \in input'[i[1]])
                          = (source[i] = NoLink /\ i[2] \in input[i[1]])
    BY <2>1, <2>2
  <2> QED
    BY <2>3 DEF Held
<1>5. Network!Move(S)
  <2>1. S \subseteq alive /\ UNCHANGED <<alive, source>>
    BY <1>2 DEF Step, links
  <2> QED
    BY <1>3, <1>4, <2>1 DEF Network!Move
<1> QED
  BY <1>2, <1>5

\* Every call of the library is a step of the network.
LEMMA NetworkStep ==
  ASSUME "realloc" \notin FailingCalls, Inv, Inv', AllRecorded, AllRecorded', [Next]_vars
  PROVE  [Network!Next]_(Network!netVars)
<1>0. CASE UNCHANGED vars
  BY <1>0 DEF vars, Network!netVars, Held
<1> SUFFICES ASSUME Next PROVE Network!Next
  BY <1>0
<1>1. ASSUME NEW a \in Automata, NEW q \in State, Create(a, q) \/ SetState(a, q) PROVE Network!Next
  BY <1>1, CreateAdds, SetStateSets DEF Network!Next
<1>2. ASSUME NEW a \in Automata, Delete(a) PROVE Network!Next
  BY <1>2, DeleteRemoves DEF Network!Next
<1>3. ASSUME NEW a \in Automata, NEW word \in Words, SetInput(a, word) PROVE Network!Next
  BY <1>3, SetInputSets DEF Network!Next
<1>4. ASSUME NEW a \in Automata, NEW in \in 1..N, NEW num \in 1..N, Disconnect(a, in, num)
      PROVE  Network!Next
  BY <1>4, DisconnectRewires DEF Network!Next
<1>5. ASSUME NEW a \in Automata, NEW in \in 1..N, NEW num \in 1..N, NEW b \in Automata,
             NEW out \in 1..M, Connect(a, in, b, out, num)
      PROVE  Network!Next
  BY <1>5, ConnectRewires DEF Network!Next
<1>6. ASSUME NEW a \in Automata, NEW in \in 1..N, NEW num \in 1..N, NEW b \in Automata,
             NEW out \in 1..M, NEW k \in 1..N, ConnectFails(a, in, b, out, num, k)
      PROVE  FALSE
  BY <1>6 DEF ConnectFails
<1>7. ASSUME NEW at \in StepLists, NEW done \in 0..Len(at), Step(at, done) PROVE Network!Next
  BY <1>7, StepMoves DEF Network!Next
<1> QED
  BY <1>1, <1>2, <1>3, <1>4, <1>5, <1>6, <1>7 DEF Next

\* As long as realloc does not fail, the library behaves as the network whose wires
\* have one end only and whose steps are synchronous: for any number of automata,
\* inputs and outputs, any automaton, any order of calls, and also when ma_create_full
\* or ma_step runs out of memory.
THEOREM LibraryImplementsNetwork ==
  ASSUME "realloc" \notin FailingCalls
  PROVE  Spec => ImplementsNetwork
<1>1. Init => Inv /\ AllRecorded /\ Network!Init
  BY InitInv, AllRecordedInit, NetworkInit
<1>2. Inv /\ [Next]_vars => Inv'
  BY NextInv
<1>3. Inv /\ Inv' /\ AllRecorded /\ [Next]_vars => AllRecorded'
  BY AllRecordedNext
<1>4. Inv /\ Inv' /\ AllRecorded /\ AllRecorded' /\ [Next]_vars
      => [Network!Next]_(Network!netVars)
  BY NetworkStep
<1> QED
  BY <1>1, <1>2, <1>3, <1>4, PTL DEF Spec, ImplementsNetwork, Network!NetworkSpec
=============================================================================
