-------------------------- MODULE Totolotek_proofs --------------------------
(***************************************************************************)
(* Proofs about the lottery, for any players, prices, slips and results.   *)
(*                                                                         *)
(* Every step is a sale, a draw, a payment of coupons whose draws are over *)
(* or a claim of one that is not (StepsAre).  IInv says in what order      *)
(* draws are held and coupons sold and which coupons have been paid; it is *)
(* inductive by itself.  The properties about money are inductive on top   *)
(* of it.  Their sums are over finite sets: SumOf is the Total of          *)
(* FoldTheorems (SumIs), which can be taken apart one element at a time.   *)
(***************************************************************************)
EXTENDS Totolotek, FoldTheorems, SequenceTheorems

\* A bet, and what a draw and a coupon are.
Bet == SUBSET Nat
Draw == [pulaNagrod       : Int,
         pulaStopnia      : [Stopnie -> Int],
         liczbaWygranych  : [Stopnie -> Nat],
         zwycieskaSzostka : Szostki \cup {Nieodbyte},
         zaklady          : Seq(Bet)]
Coupon == [zaklady : Seq(Bet), pierwsze : Nat \ {0}, losowan : 1..MAXLICZBALOSOWAN, gracz : Gracze]

\* A percentage of a number, rounded down, is no more than the number.
LEMMA PercentIs ==
  ASSUME NEW p \in 0..100, NEW x \in Nat
  PROVE  (x * p) \div 100 \in 0..x
<1> DEFINE G == {n \in Nat : n * p \in Nat /\ n * p <= 100 * n}
<1>1. 0 \in G
  OBVIOUS
<1>2. ASSUME NEW n \in Nat, n \in G PROVE n + 1 \in G
  <2>1. (n + 1) * p = n * p + p
    OBVIOUS
  <2>q. PICK q : q = n * p
    OBVIOUS
  <2>2. q \in Nat /\ q <= 100 * n
    BY <1>2, <2>q
  <2>3. q + p \in Nat /\ q + p <= 100 * (n + 1)
    BY <2>2
  <2> QED
    BY <2>1, <2>3, <2>q
<1>3. x \in G
  <2> HIDE DEF G
  <2> QED
    BY <1>1, <1>2, SetInduction
<1>q. PICK q : q = x * p
  OBVIOUS
<1>4. q \in Nat /\ q <= 100 * x
  BY <1>3, <1>q
<1>5. q \div 100 \in 0..x
  BY <1>4
<1> QED
  BY <1>5, <1>q

\* A product of naturals is a natural.
LEMMA ProductIs == \A x, y \in Nat : x * y \in Nat
OBVIOUS

\* The price of a coupon covers its tax and its prize money.
LEMMA PricesAre ==
  ASSUME NEW z \in Seq(Bet), NEW n \in Nat
  PROVE  /\ cena(z, n) \in Nat /\ podatek(z, n) \in Nat /\ wartoscNagrod(z, n) \in Nat
         /\ cena(z, n) - podatek(z, n) - wartoscNagrod(z, n) \in Nat
<1>s. PICK s \in Nat : s = stawki(z, n)
  <2>1. Len(z) \in Nat
    BY LenProperties
  <2> QED
    BY <2>1, ProductIs DEF stawki
<1>0. /\ CENAZAKLADU \in Nat /\ PODATEKODZAKLADU \in Nat
      /\ PODATEKODZAKLADU <= CENAZAKLADU /\ NANagrody \in 0..100
  BY CenyAssumption
<1>c. PICK c \in Nat : c = s * CENAZAKLADU
  BY <1>0, ProductIs
<1>p. PICK p \in Nat : p = s * PODATEKODZAKLADU
  BY <1>0, ProductIs
<1>r. PICK r \in Nat : r = s * (CENAZAKLADU - PODATEKODZAKLADU)
  <2>1. CENAZAKLADU - PODATEKODZAKLADU \in Nat
    BY <1>0
  <2> QED
    BY <2>1, ProductIs
<1>1. c - p = r
  BY <1>0, <1>c, <1>p, <1>r
<1>2. (r * NANagrody) \div 100 \in 0..r
  BY <1>0, PercentIs
<1>3. cena(z, n) = c /\ podatek(z, n) = p
  BY <1>s, <1>c, <1>p DEF cena, podatek
<1>4. wartoscNagrod(z, n) = (r * NANagrody) \div 100
  BY <1>1, <1>3 DEF wartoscNagrod
<1> QED
  BY <1>1, <1>2, <1>3, <1>4

-----------------------------------------------------------------------------
\* A draw field by field.
LEMMA DrawIs ==
  \A l \in Draw : l = [pulaNagrod |-> l.pulaNagrod, pulaStopnia |-> l.pulaStopnia,
                       liczbaWygranych |-> l.liczbaWygranych,
                       zwycieskaSzostka |-> l.zwycieskaSzostka, zaklady |-> l.zaklady]
BY DEF Draw

\* No result is empty.
LEMMA ResultsAre ==
  \A s \in Szostki : s # Nieodbyte /\ IsFiniteSet(s) /\ Cardinality(s) = DLUGOSCZAKLADU
BY SzostkiAssumption, FS_EmptySet DEF Nieodbyte

\* A new draw has no money, no bets and no result.
LEMMA NewDrawIs ==
  /\ noweLosowanie \in Draw /\ ~odbyte(noweLosowanie)
  /\ noweLosowanie.pulaNagrod = 0 /\ noweLosowanie.zaklady = <<>>
  /\ noweLosowanie.pulaStopnia[1] = 0
<1>1. <<>> \in Seq(Bet)
  BY EmptySeq
<1> QED
  BY <1>1 DEF noweLosowanie, Draw, odbyte, Stopnie

\* A draw that takes more bets and more prize money.
Grown(l, r, z, w) ==
  /\ r \in Draw /\ r.pulaNagrod = l.pulaNagrod + w /\ r.zaklady = l.zaklady \o z
  /\ r.pulaStopnia = l.pulaStopnia /\ r.liczbaWygranych = l.liczbaWygranych
  /\ r.zwycieskaSzostka = l.zwycieskaSzostka

\* A draw that the one before it hands prize money and a jackpot.
Endowed(l, r, w, a) ==
  /\ r \in Draw /\ r.pulaNagrod = l.pulaNagrod + w /\ r.zaklady = l.zaklady
  /\ r.pulaStopnia[1] = l.pulaStopnia[1] + a /\ r.liczbaWygranych = l.liczbaWygranych
  /\ r.zwycieskaSzostka = l.zwycieskaSzostka

\* Bets and prize money added to a draw.
LEMMA AddBetsIs ==
  ASSUME NEW l \in Draw, NEW z \in Seq(Bet), NEW w \in Int,
         NEW r, r = zwiekszPule(dodajZaklady(l, z), w)
  PROVE  Grown(l, r, z, w)
<1>1. l.zaklady \in Seq(Bet) /\ l.pulaNagrod \in Int
  BY DEF Draw
<1>2. l.zaklady \o z \in Seq(Bet)
  BY <1>1, ConcatProperties
<1>a. PICK all \in Seq(Bet) : all = l.zaklady \o z
  BY <1>2
<1>3. \A x : [l EXCEPT !.zaklady = x] =
        [pulaNagrod |-> l.pulaNagrod, pulaStopnia |-> l.pulaStopnia,
         liczbaWygranych |-> l.liczbaWygranych,
         zwycieskaSzostka |-> l.zwycieskaSzostka, zaklady |-> x]
  BY DrawIs
<1>4. dodajZaklady(l, z) = [pulaNagrod |-> l.pulaNagrod, pulaStopnia |-> l.pulaStopnia,
         liczbaWygranych |-> l.liczbaWygranych,
         zwycieskaSzostka |-> l.zwycieskaSzostka, zaklady |-> all]
  <2>1. dodajZaklady(l, z) = [l EXCEPT !.zaklady = all]
    BY <1>a, Zenon DEF dodajZaklady
  <2> QED
    BY <1>3, <2>1, Zenon
<1>m. PICK m : m = dodajZaklady(l, z)
  OBVIOUS
<1>5. m \in Draw
  BY <1>4, <1>m DEF Draw
<1>6. \A x : [m EXCEPT !.pulaNagrod = x] =
        [pulaNagrod |-> x, pulaStopnia |-> l.pulaStopnia,
         liczbaWygranych |-> l.liczbaWygranych,
         zwycieskaSzostka |-> l.zwycieskaSzostka, zaklady |-> all]
  BY <1>4, <1>m
<1>7. r = [m EXCEPT !.pulaNagrod = l.pulaNagrod + w]
  <2>1. m.pulaNagrod = l.pulaNagrod
    BY <1>4, <1>m
  <2>2. r = [m EXCEPT !.pulaNagrod = m.pulaNagrod + w]
    BY <1>m, Zenon DEF zwiekszPule
  <2> QED
    BY <2>1, <2>2
<1>8. r = [pulaNagrod |-> l.pulaNagrod + w, pulaStopnia |-> l.pulaStopnia,
         liczbaWygranych |-> l.liczbaWygranych,
         zwycieskaSzostka |-> l.zwycieskaSzostka, zaklady |-> all]
  BY <1>6, <1>7, Zenon
<1> QED
  BY <1>1, <1>8, <1>a DEF Draw, Grown

\* What nobody won in one draw goes to the next one.
LEMMA HandOverIs ==
  ASSUME NEW l \in Draw, NEW w \in Int, NEW a \in Int,
         NEW r, r = kumulacja(zwiekszPule(l, w), a)
  PROVE  Endowed(l, r, w, a)
<1>1. l.pulaNagrod \in Int /\ l.pulaStopnia \in [Stopnie -> Int] /\ 1 \in Stopnie
  BY DEF Draw, Stopnie
<1>m. PICK m : m = zwiekszPule(l, w)
  OBVIOUS
<1>2. m = [pulaNagrod |-> l.pulaNagrod + w, pulaStopnia |-> l.pulaStopnia,
         liczbaWygranych |-> l.liczbaWygranych,
         zwycieskaSzostka |-> l.zwycieskaSzostka, zaklady |-> l.zaklady]
  <2>1. \A x : [l EXCEPT !.pulaNagrod = x] =
          [pulaNagrod |-> x, pulaStopnia |-> l.pulaStopnia,
           liczbaWygranych |-> l.liczbaWygranych,
           zwycieskaSzostka |-> l.zwycieskaSzostka, zaklady |-> l.zaklady]
    BY DrawIs
  <2>2. m = [l EXCEPT !.pulaNagrod = l.pulaNagrod + w]
    BY <1>m, Zenon DEF zwiekszPule
  <2> QED
    BY <2>1, <2>2, Zenon
<1>p. PICK p : p = [l.pulaStopnia EXCEPT ![1] = l.pulaStopnia[1] + a]
  OBVIOUS
<1>3. p \in [Stopnie -> Int] /\ p[1] = l.pulaStopnia[1] + a
  BY <1>1, <1>p
<1>4. r = [m EXCEPT !.pulaStopnia = p]
  <2>1. r = [m EXCEPT !.pulaStopnia = [m.pulaStopnia EXCEPT ![1] = m.pulaStopnia[1] + a]]
    BY <1>m, Zenon DEF kumulacja
  <2>2. m.pulaStopnia = l.pulaStopnia
    BY <1>2
  <2> QED
    BY <1>p, <2>1, <2>2
<1>5. r = [pulaNagrod |-> l.pulaNagrod + w, pulaStopnia |-> p,
         liczbaWygranych |-> l.liczbaWygranych,
         zwycieskaSzostka |-> l.zwycieskaSzostka, zaklady |-> l.zaklady]
  BY <1>2, <1>4
<1> QED
  BY <1>1, <1>3, <1>5 DEF Draw, Endowed

\* The winners of a draw, tier by tier.
Hits(l, szostka, s) == {i \in DOMAIN l.zaklady : stopienWygranej(l.zaklady[i], szostka) = s}
Winners(l, szostka) == [s \in Stopnie |-> Cardinality(Hits(l, szostka, s))]

\* The winners of a tier can be counted.
LEMMA HitsAre ==
  ASSUME NEW l \in Draw, NEW szostka, NEW s
  PROVE  IsFiniteSet(Hits(l, szostka, s)) /\ Cardinality(Hits(l, szostka, s)) \in Nat
<1>n. PICK n \in Nat : DOMAIN l.zaklady = 1..n
  <2>1. l.zaklady \in Seq(Bet)
    BY DEF Draw
  <2> QED
    BY <2>1, LenProperties
<1>1. IsFiniteSet(1..n) /\ Hits(l, szostka, s) \in SUBSET (1..n)
  BY <1>n, FS_Interval DEF Hits
<1> QED
  BY <1>1, FS_Subset, FS_CardinalityType

\* A draw that has been held: the bets and the prize money stay as they are.
Held(l, r, szostka) ==
  /\ r \in Draw /\ odbyte(r)
  /\ r.pulaNagrod = l.pulaNagrod /\ r.zaklady = l.zaklady
  /\ r.liczbaWygranych = Winners(l, szostka)

\* The draw: the winners are counted, the pools are divided.
LEMMA HeldIs ==
  ASSUME NEW l \in Draw, NEW szostka \in Szostki, NEW r, r = wyznaczNagrody(l, szostka)
  PROVE  Held(l, r, szostka)
<1>1. /\ l.pulaNagrod \in Int /\ l.pulaStopnia \in [Stopnie -> Int]
      /\ {1, 2, 3, 4} \subseteq Stopnie /\ MINIMALNE \in [Stopnie -> Nat]
  BY MinimaAssumption DEF Draw, Stopnie
<1>w. PICK w : w = Winners(l, szostka)
  OBVIOUS
<1>2. w \in [Stopnie -> Nat]
  BY <1>w, HitsAre DEF Winners
<1>d. PICK d \in Int : d = (l.pulaNagrod * 8) \div 100
  BY <1>1
<1>f. PICK f \in Int : f = pierwszaPula(l)
  BY <1>1 DEF pierwszaPula
<1>c. PICK c : c = l.pulaNagrod - f - d
  OBVIOUS
<1>p. PICK p : p = [l.pulaStopnia EXCEPT ![1] = Larger(f, MINIMALNE[1]),
                                         ![2] = d,
                                         ![3] = Larger(c, MINIMALNE[3] * w[3]),
                                         ![4] = MINIMALNE[4] * w[4]]
  OBVIOUS
<1>3. p \in [Stopnie -> Int]
  <2>1. /\ MINIMALNE[1] \in Nat /\ MINIMALNE[3] \in Nat /\ MINIMALNE[4] \in Nat
        /\ w[3] \in Nat /\ w[4] \in Nat /\ c \in Int
    BY <1>1, <1>2, <1>c
  <2>2. MINIMALNE[3] * w[3] \in Nat /\ MINIMALNE[4] * w[4] \in Nat
    BY <2>1, ProductIs
  <2>3. Larger(f, MINIMALNE[1]) \in Int /\ Larger(c, MINIMALNE[3] * w[3]) \in Int
    BY <2>1, <2>2 DEF Larger
  <2> QED
    BY <1>1, <1>p, <2>2, <2>3
<1>6. r = [pulaNagrod |-> l.pulaNagrod, pulaStopnia |-> p, liczbaWygranych |-> w,
           zwycieskaSzostka |-> szostka, zaklady |-> l.zaklady]
  BY <1>w, <1>d, <1>f, <1>c, <1>p, Zenon DEF wyznaczNagrody, Winners, Hits
<1>7. szostka # Nieodbyte
  BY ResultsAre
<1> QED
  BY <1>2, <1>3, <1>6, <1>7, <1>w DEF Draw, Held, odbyte

\* Every bet is in a tier.
LEMMA TierIs ==
  ASSUME NEW z, NEW szostka \in Szostki \cup {Nieodbyte}
  PROVE  stopienWygranej(z, szostka) \in Stopnie
<1>c. PICK c : c = Cardinality(z \cap szostka)
  OBVIOUS
<1>1. c \in Nat /\ c <= DLUGOSCZAKLADU
  <2>1. IsFiniteSet(szostka) /\ Cardinality(szostka) \in Nat
        /\ Cardinality(szostka) <= DLUGOSCZAKLADU
    BY ResultsAre, FS_EmptySet, SzostkiAssumption DEF Nieodbyte
  <2>2. /\ IsFiniteSet(z \cap szostka)
        /\ Cardinality(z \cap szostka) <= Cardinality(szostka)
    BY <2>1, FS_Intersection
  <2>3. Cardinality(z \cap szostka) \in Nat
    BY <2>2, FS_CardinalityType
  <2> QED
    BY <2>1, <2>2, <2>3, <1>c, SzostkiAssumption
<1> QED
  BY <1>1, <1>c, SzostkiAssumption DEF stopienWygranej, Stopnie

\* What a draw hands on, and a prize, are numbers.
LEMMA PrizesAre ==
  ASSUME NEW l \in Draw
  PROVE  /\ przeniesione(l) \in Int /\ pierwszaPula(l) \in Int
         /\ \A z : wygrana(l, z) \in Int
<1>1. /\ l.pulaNagrod \in Int /\ l.pulaStopnia \in [Stopnie -> Int]
      /\ l.liczbaWygranych \in [Stopnie -> Nat] /\ {1, 2, 3, 4} \subseteq Stopnie
      /\ l.zwycieskaSzostka \in Szostki \cup {Nieodbyte}
  BY DEF Draw, Stopnie
<1>2. przeniesione(l) \in Int
  BY <1>1 DEF przeniesione
<1>3. pierwszaPula(l) \in Int
  BY <1>1 DEF pierwszaPula
<1>4. ASSUME NEW z PROVE wygrana(l, z) \in Int
  <2>s. PICK s : s = stopienWygranej(z, l.zwycieskaSzostka)
    OBVIOUS
  <2>1. s \in Stopnie
    BY <1>1, <2>s, TierIs
  <2>2. l.liczbaWygranych[s] \in Nat /\ l.pulaStopnia[s] \in Int
    BY <1>1, <2>1
  <2>3. wygranaStopnia(l, s) \in Int
    BY <2>2 DEF wygranaStopnia
  <2> QED
    BY <2>3, <2>s DEF wygrana
<1> QED
  BY <1>2, <1>3, <1>4

nr == numerKolejnegoLosowania

\* The types of the variables.
Typed ==
  /\ losowania \in Seq(Draw) /\ Len(losowania) >= MAXLICZBALOSOWAN
  /\ budzetCentrali \in Int /\ podatki \in Int /\ subsydia \in Int
  /\ kupony \in Seq(Coupon)
  /\ sprzedaneKupony \in [1..Len(kupony) -> BOOLEAN]
  /\ zakupioneKupony \in [1..Len(kupony) -> BOOLEAN]
  /\ srodki \in [Gracze -> Int]

\* The draws before the next one have been held, the others have not.
HeldInOrder == \A i \in DOMAIN losowania : odbyte(losowania[i]) <=> i < nr

\* Coupons are sold for the draws that are next.
SoldInOrder ==
  /\ \A k \in Kupon : kupony[k].pierwsze <= nr
  /\ \A k, l \in Kupon : k < l => kupony[k].pierwsze <= kupony[l].pierwsze

\* A coupon is paid when its draws are over, and marked with that.
PaidWhenOver == \A k \in Kupon : ~zakupioneKupony[k] => Skonczony(k) /\ sprzedaneKupony[k]

\* The steps.
Sale(g, z, n) ==
  /\ sprzedajKupon(g, z, n)
  /\ Rodzaj[g] = "Losowy" \/ czyMozna(g)
Due(g) == {k \in Kupon_of(g) : Skonczony(k) /\ Wazny(k)}

\* The limits on a coupon.
LEMMA LimitsAre == MAXLICZBALOSOWAN \in Nat \ {0} /\ MAXLICZBAZAKLADOW \in Nat \ {0}
BY LiczbyAssumption

\* The numbers and the members of the sequences, as far as the types say them.
LEMMA NumbersAre ==
  ASSUME Typed
  PROVE  /\ Len(losowania) \in Nat /\ DOMAIN losowania = 1..Len(losowania)
         /\ Len(kupony) \in Nat /\ Kupon = 1..Len(kupony)
         /\ nr \in 1..Len(losowania) /\ Len(losowania) = nr + MAXLICZBALOSOWAN - 1
         /\ \A i \in DOMAIN losowania : losowania[i] \in Draw
         /\ \A k \in Kupon : kupony[k] \in Coupon /\ kupony[k].pierwsze \in Nat \ {0}
              /\ kupony[k].losowan \in 1..MAXLICZBALOSOWAN /\ kupony[k].gracz \in Gracze
              /\ kupony[k].zaklady \in Seq(Bet) /\ ostatnieLosowanie(k) \in Nat
<1>1. /\ Len(losowania) \in Nat /\ DOMAIN losowania = 1..Len(losowania)
      /\ Len(kupony) \in Nat /\ DOMAIN kupony = 1..Len(kupony)
  BY LenProperties DEF Typed
<1>2. \A i \in DOMAIN losowania : losowania[i] \in Draw
  BY <1>1, ElementOfSeq DEF Typed
<1>3. \A k \in Kupon : kupony[k] \in Coupon
  BY <1>1, ElementOfSeq DEF Typed, Kupon
<1>4. \A k \in Kupon : /\ kupony[k].pierwsze \in Nat \ {0}
              /\ kupony[k].losowan \in 1..MAXLICZBALOSOWAN /\ kupony[k].gracz \in Gracze
              /\ kupony[k].zaklady \in Seq(Bet)
  BY <1>3 DEF Coupon
<1>5. \A k \in Kupon : ostatnieLosowanie(k) \in Nat
  BY <1>4, LimitsAre DEF ostatnieLosowanie
<1>6. nr \in 1..Len(losowania) /\ Len(losowania) = nr + MAXLICZBALOSOWAN - 1
  BY <1>1, LimitsAre DEF Typed, nr, numerKolejnegoLosowania
<1> QED
  BY <1>1, <1>2, <1>3, <1>4, <1>5, <1>6 DEF Kupon

\* What a player may ask for.
LEMMA BetsAre ==
  /\ \A m \in Nat : QuickPick(m) \subseteq Seq(Bet)
  /\ \A g \in Gracze : Rodzaj[g] \in {"Staloliczbowy", "Staloblankietowy"} =>
       Blankiet[g].zaklady \in Seq(Bet) /\ Blankiet[g].losowan \in 1..MAXLICZBALOSOWAN
<1>1. ASSUME NEW m \in Nat PROVE QuickPick(m) \subseteq Seq(Bet)
  <2>1. Zaklady \subseteq Bet
    BY LiczbyAssumption DEF Bet
  <2> SUFFICES ASSUME NEW q \in QuickPick(m) PROVE q \in Seq(Bet)
    OBVIOUS
  <2>2. q \in [1..m -> Bet]
    BY <2>1 DEF QuickPick
  <2> QED
    BY <2>2, SeqDef
<1>2. ASSUME NEW g \in Gracze, Rodzaj[g] \in {"Staloliczbowy", "Staloblankietowy"}
      PROVE  Blankiet[g].zaklady \in Seq(Bet) /\ Blankiet[g].losowan \in 1..MAXLICZBALOSOWAN
  BY <1>2, LiczbyAssumption DEF Bet
<1> QED
  BY <1>1, <1>2

\* Every step of Next is a sale, a draw, a payment of coupons that are due, or a claim
\* of one coupon before its last draw.
LEMMA StepsAre ==
  ASSUME Typed, Next
  PROVE  \/ \E g \in Gracze, z \in Seq(Bet), n \in 1..MAXLICZBALOSOWAN : Sale(g, z, n)
         \/ PrzeprowadzLosowanie
         \/ \E g \in Gracze : \E ks \in SUBSET Due(g) : wyplac(g, ks)
         \/ \E k \in Kupon : WykorzystajZaWczesnie(k)
<1>1. ASSUME NEW g \in Gracze, KupLosowy(g)
      PROVE  \E z \in Seq(Bet), n \in 1..MAXLICZBALOSOWAN : Sale(g, z, n)
  <2>0. PICK n \in 1..MAXLICZBALOSOWAN, m \in 1..MAXLICZBAZAKLADOW :
          \E z \in QuickPick(m) : sprzedajKupon(g, z, n)
    BY <1>1 DEF KupLosowy
  <2>1. PICK z \in QuickPick(m) : sprzedajKupon(g, z, n)
    BY <2>0
  <2>2. z \in Seq(Bet)
    BY LimitsAre, BetsAre
  <2> QED
    BY <1>1, <2>1, <2>2 DEF Sale, KupLosowy
<1>2. ASSUME NEW g \in Gracze, DzialajKup(g)
      PROVE  \E z \in Seq(Bet), n \in 1..MAXLICZBALOSOWAN : Sale(g, z, n)
  <2>1. CASE Rodzaj[g] = "Minimalista"
    <3>1. PICK z \in QuickPick(1) : sprzedajKupon(g, z, 1)
      BY <1>2, <2>1 DEF DzialajKup
    <3>2. z \in Seq(Bet) /\ 1 \in 1..MAXLICZBALOSOWAN
      BY LimitsAre, BetsAre
    <3> QED
      BY <1>2, <3>1, <3>2 DEF Sale, DzialajKup
  <2>2. CASE Rodzaj[g] # "Minimalista"
    <3>1. Rodzaj[g] \in {"Staloliczbowy", "Staloblankietowy"}
      BY <1>2, <2>2, GraczeAssumption DEF DzialajKup, Rodzaje
    <3>2. Blankiet[g].zaklady \in Seq(Bet) /\ Blankiet[g].losowan \in 1..MAXLICZBALOSOWAN
      BY <3>1, BetsAre
    <3>3. Sale(g, Blankiet[g].zaklady, Blankiet[g].losowan)
      BY <1>2, <2>2 DEF Sale, DzialajKup
    <3> QED
      BY <3>2, <3>3
  <2> QED
    BY <2>1, <2>2
<1>3. ASSUME NEW g \in Gracze, DzialajOdbierz(g)
      PROVE  \E ks \in SUBSET Due(g) : wyplac(g, ks)
  <2>1. wyplac(g, Due(g))
    BY <1>3 DEF DzialajOdbierz, Due
  <2> QED
    BY <2>1
<1>4. ASSUME NEW k \in Kupon, WykorzystajKupon(k)
      PROVE  \E g \in Gracze : \E ks \in SUBSET Due(g) : wyplac(g, ks)
  <2>1. kupony[k].gracz \in Gracze
    BY NumbersAre
  <2>2. {k} \in SUBSET Due(kupony[k].gracz) /\ wyplac(kupony[k].gracz, {k})
    BY <1>4 DEF WykorzystajKupon, Due, Kupon_of
  <2> QED
    BY <2>1, <2>2
<1> QED
  BY <1>1, <1>2, <1>3, <1>4 DEF Next

-----------------------------------------------------------------------------
\* The share of a coupon in each of its draws.
Share(z, n) == wartoscNagrod(z, n) \div n

\* wprowadzKupon: the draws the coupon covers have grown, the others are the same.
LEMMA DrawsAfterSale ==
  ASSUME Typed, NEW z \in Seq(Bet), NEW n \in 1..MAXLICZBALOSOWAN, wprowadzKupon(z, n)
  PROVE  /\ losowania' \in Seq(Draw) /\ Len(losowania') = Len(losowania)
         /\ \A i \in 1..Len(losowania) : i \in nr..nr+n-1 =>
              Grown(losowania[i], losowania'[i], z, Share(z, n))
         /\ \A i \in 1..Len(losowania) : i \notin nr..nr+n-1 => losowania'[i] = losowania[i]
<1>0. n \in Nat \ {0}
  BY LimitsAre
<1>w. PICK w \in Int : w = Share(z, n)
  BY <1>0, PricesAre DEF Share
<1>m. PICK m \in Nat : m = Len(losowania) /\ DOMAIN losowania = 1..m
  BY NumbersAre
<1>1. losowania' = [i \in 1..m |-> IF i \in nr..(nr + n - 1)
           THEN zwiekszPule(dodajZaklady(losowania[i], z), w)
           ELSE losowania[i]]
  BY <1>w, <1>m, Zenon DEF wprowadzKupon, Share, nr
<1>2. ASSUME NEW i \in 1..m PROVE losowania[i] \in Draw
  BY <1>m, NumbersAre
<1>3. ASSUME NEW i \in 1..m, i \in nr..(nr + n - 1)
      PROVE  Grown(losowania[i], losowania'[i], z, w)
  <2>r. PICK r : r = losowania'[i]
    OBVIOUS
  <2>l. PICK l \in Draw : l = losowania[i]
    BY <1>2
  <2>1. r = zwiekszPule(dodajZaklady(l, z), w)
    BY <1>1, <1>3, <2>r, <2>l, Zenon
  <2>2. Grown(l, r, z, w)
    BY <2>1, AddBetsIs
  <2> QED
    BY <2>r, <2>l, <2>2
<1>4. ASSUME NEW i \in 1..m, i \notin nr..(nr + n - 1)
      PROVE  losowania'[i] = losowania[i]
  BY <1>1, <1>4, Zenon
<1>5. losowania' \in [1..m -> Draw]
  <2>1. \A i \in 1..m : losowania'[i] \in Draw
    BY <1>2, <1>3, <1>4 DEF Grown
  <2>2. DOMAIN losowania' = 1..m /\ losowania' = [i \in 1..m |-> losowania'[i]]
    BY <1>1, Zenon
  <2> QED
    BY <2>1, <2>2, Zenon
<1>6. losowania' \in Seq(Draw) /\ Len(losowania') = m
  <2>p. PICK p : p = losowania'
    OBVIOUS
  <2>1. p \in [1..m -> Draw]
    BY <1>5, <2>p
  <2>2. p \in Seq(Draw)
    BY <2>1, SeqDef
  <2>3. Len(p) \in Nat /\ DOMAIN p = 1..Len(p)
    BY <2>2, LenProperties
  <2>4. Len(p) = m
    BY <2>1, <2>3
  <2> QED
    BY <2>2, <2>4, <2>p
<1> QED
  BY <1>3, <1>4, <1>6, <1>m, <1>w

\* A function on the first n numbers with an element added.
Longer(f, r, x, T, n) ==
  /\ r \in [1..n+1 -> T] /\ r[n + 1] = x
  /\ \A k \in 1..n : r[k] = f[k]

\* What Append adds to a sequence.
LEMMA AppendIs ==
  ASSUME NEW T, NEW f \in Seq(T), NEW n, n = Len(f), NEW x \in T, NEW r, r = Append(f, x)
  PROVE  Longer(f, r, x, T, n)
<1>1. /\ r \in Seq(T) /\ Len(r) = n + 1 /\ r[n + 1] = x
      /\ \A k \in 1..n : r[k] = f[k]
  BY AppendProperties
<1>2. r \in [1..n+1 -> T]
  BY <1>1, LenProperties
<1> QED
  BY <1>1, <1>2 DEF Longer

\* A function on the first n numbers is a sequence of n elements.
LEMMA FunctionIsSeq ==
  ASSUME NEW T, NEW n \in Nat, NEW f \in [1..n -> T]
  PROVE  f \in Seq(T) /\ Len(f) = n
<1>1. f \in Seq(T)
  BY SeqDef
<1>2. Len(f) \in Nat /\ DOMAIN f = 1..Len(f)
  BY <1>1, LenProperties
<1> QED
  BY <1>1, <1>2

\* sprzedajKupon: the three records of coupons have one more.
LEMMA CouponsAfterSale ==
  ASSUME Typed, NEW g \in Gracze, NEW z \in Seq(Bet), NEW n \in 1..MAXLICZBALOSOWAN,
         sprzedajKupon(g, z, n), NEW c, c = Len(kupony)
  PROVE  /\ kupony' \in Seq(Coupon) /\ Len(kupony') = c + 1
         /\ Longer(kupony, kupony', [zaklady |-> z, pierwsze |-> nr, losowan |-> n, gracz |-> g],
                   Coupon, c)
         /\ Longer(sprzedaneKupony, sprzedaneKupony', FALSE, BOOLEAN, c)
         /\ Longer(zakupioneKupony, zakupioneKupony', TRUE, BOOLEAN, c)
<1>1. c \in Nat /\ kupony \in [1..c -> Coupon] /\ nr \in Nat \ {0}
  BY NumbersAre, LenProperties DEF Typed
<1>2. /\ sprzedaneKupony \in [1..c -> BOOLEAN] /\ zakupioneKupony \in [1..c -> BOOLEAN]
  BY DEF Typed
<1>x. PICK x \in Coupon : x = [zaklady |-> z, pierwsze |-> nr, losowan |-> n, gracz |-> g]
  BY <1>1 DEF Coupon
<1>3. /\ kupony' = Append(kupony, x)
      /\ sprzedaneKupony' = Append(sprzedaneKupony, FALSE)
      /\ zakupioneKupony' = Append(zakupioneKupony, TRUE)
  BY <1>x, Zenon DEF sprzedajKupon, nr
<1>p. PICK p : p = kupony'
  OBVIOUS
<1>q. PICK q : q = sprzedaneKupony'
  OBVIOUS
<1>r. PICK r : r = zakupioneKupony'
  OBVIOUS
<1>4. Longer(kupony, p, x, Coupon, c) /\ p \in Seq(Coupon) /\ Len(p) = c + 1
  <2>k. PICK k \in Seq(Coupon) : k = kupony
    BY DEF Typed
  <2>1. p = Append(k, x)
    BY <1>3, <1>p, <2>k
  <2>2. Longer(k, p, x, Coupon, c) /\ p \in Seq(Coupon) /\ Len(p) = c + 1
    <3>1. Longer(k, p, x, Coupon, c)
      BY <2>k, <2>1, AppendIs
    <3>2. p \in Seq(Coupon) /\ Len(p) = c + 1
      BY <2>k, <2>1, AppendProperties
    <3> QED
      BY <3>1, <3>2
  <2> QED
    BY <2>2, <2>k
<1>5. Longer(sprzedaneKupony, q, FALSE, BOOLEAN, c)
  <2>1. sprzedaneKupony \in Seq(BOOLEAN) /\ Len(sprzedaneKupony) = c
    BY <1>1, <1>2, FunctionIsSeq
  <2> QED
    BY <2>1, <1>3, <1>q, AppendIs
<1>6. Longer(zakupioneKupony, r, TRUE, BOOLEAN, c)
  <2>1. zakupioneKupony \in Seq(BOOLEAN) /\ Len(zakupioneKupony) = c
    BY <1>1, <1>2, FunctionIsSeq
  <2> QED
    BY <2>1, <1>3, <1>r, AppendIs
<1> QED
  BY <1>4, <1>5, <1>6, <1>p, <1>q, <1>r, <1>x

\* The draws after a draw: the one held, the one it endows, and a new one.
LEMMA DrawsAfterDraw ==
  ASSUME Typed, PrzeprowadzLosowanie, NEW m, m = Len(losowania)
  PROVE  /\ losowania' \in Seq(Draw) /\ Len(losowania') = m + 1
         /\ \A i \in 1..m : i \notin {nr, nr + 1} => losowania'[i] = losowania[i]
         /\ \E szostka \in Szostki : Held(losowania[nr], losowania'[nr], szostka)
         /\ \E next \in Draw :
              /\ next = IF nr + 1 \in 1..m THEN losowania[nr + 1] ELSE noweLosowanie
              /\ Endowed(next, losowania'[nr + 1], przeniesione(losowania'[nr]),
                         IF losowania'[nr].liczbaWygranych[1] = 0
                         THEN pierwszaPula(losowania[nr]) ELSE 0)
         /\ m + 1 # nr + 1 => losowania'[m + 1] = noweLosowanie
<1>1. m \in Nat /\ nr \in 1..m /\ losowania \in [1..m -> Draw] /\ losowania \in Seq(Draw)
  BY NumbersAre, LenProperties DEF Typed
<1>d. PICK d : d = Append(losowania, noweLosowanie)
  OBVIOUS
<1>2. Longer(losowania, d, noweLosowanie, Draw, m) /\ d \in Seq(Draw) /\ Len(d) = m + 1
  <2>k. PICK k \in Seq(Draw) : k = losowania
    BY DEF Typed
  <2>x. PICK x \in Draw : x = noweLosowanie
    BY NewDrawIs
  <2>1. d = Append(k, x)
    BY <1>d, <2>k, <2>x
  <2>2. Longer(k, d, x, Draw, m) /\ d \in Seq(Draw) /\ Len(d) = m + 1
    <3>1. Longer(k, d, x, Draw, m)
      BY <2>k, <2>1, AppendIs
    <3>2. d \in Seq(Draw) /\ Len(d) = m + 1
      BY <2>k, <2>1, AppendProperties
    <3> QED
      BY <3>1, <3>2
  <2> QED
    BY <2>2, <2>k, <2>x
<1>s. PICK szostka \in Szostki :
        LET ak == wyznaczNagrody(d[nr], szostka)
            skumulowane == IF ak.liczbaWygranych[1] = 0 THEN pierwszaPula(d[nr]) ELSE 0
        IN  losowania' = [d EXCEPT ![nr] = ak,
                            ![nr + 1] = kumulacja(zwiekszPule(@, przeniesione(ak)), skumulowane)]
  BY <1>d, Zenon DEF PrzeprowadzLosowanie, nr
<1>n. PICK n \in Nat : n = nr
  BY <1>1
<1>3. n \in 1..m /\ n + 1 \in 1..m+1 /\ n \in 1..m+1 /\ n # n + 1
  BY <1>1, <1>n
<1>l. PICK l \in Draw : l = d[n] /\ l = losowania[n]
  BY <1>1, <1>2, <1>3 DEF Longer
<1>a. PICK a : a = wyznaczNagrody(l, szostka)
  OBVIOUS
<1>4. Held(l, a, szostka)
  BY <1>a, HeldIs
<1>k. PICK k : k = IF a.liczbaWygranych[1] = 0 THEN pierwszaPula(l) ELSE 0
  OBVIOUS
<1>5. k \in Int /\ przeniesione(a) \in Int
  <2>1. a \in Draw
    BY <1>4 DEF Held
  <2>2. pierwszaPula(l) \in Int /\ przeniesione(a) \in Int
    BY <2>1, PrizesAre
  <2> QED
    BY <2>2, <1>k
<1>x. PICK x \in Draw : x = d[n + 1]
  BY <1>2, <1>3 DEF Longer
<1>y. PICK y : y = kumulacja(zwiekszPule(x, przeniesione(a)), k)
  OBVIOUS
<1>6. Endowed(x, y, przeniesione(a), k)
  BY <1>5, <1>y, HandOverIs
<1>p. PICK p : p = losowania'
  OBVIOUS
<1>7. p = [d EXCEPT ![n] = a, ![n + 1] = y]
  <2>1. p = [d EXCEPT ![n] = a, ![n + 1] = kumulacja(zwiekszPule(d[n + 1], przeniesione(a)), k)]
    BY <1>s, <1>n, <1>l, <1>a, <1>k, <1>p, <1>3
  <2> QED
    BY <2>1, <1>x, <1>y
<1>8. /\ \A i \in 1..m+1 : i \notin {n, n + 1} => p[i] = d[i]
      /\ p[n] = a /\ p[n + 1] = y
  BY <1>2, <1>3, <1>7 DEF Longer
<1>9. p \in Seq(Draw) /\ Len(p) = m + 1
  <2>1. a \in Draw /\ y \in Draw
    BY <1>4, <1>6 DEF Held, Endowed
  <2>2. d \in [1..m+1 -> Draw]
    BY <1>2 DEF Longer
  <2>3. p \in [1..m+1 -> Draw]
    BY <1>3, <1>7, <2>1, <2>2
  <2>4. p \in Seq(Draw)
    BY <1>1, <2>3, SeqDef
  <2>5. Len(p) \in Nat /\ DOMAIN p = 1..Len(p)
    BY <2>4, LenProperties
  <2> QED
    BY <1>1, <2>3, <2>4, <2>5
<1>10. \A i \in 1..m : i \notin {nr, nr + 1} => losowania'[i] = losowania[i]
  BY <1>2, <1>8, <1>n, <1>p, <1>1 DEF Longer
<1>11. Held(losowania[nr], losowania'[nr], szostka)
  BY <1>4, <1>8, <1>l, <1>n, <1>p
<1>12. x = IF nr + 1 \in 1..m THEN losowania[nr + 1] ELSE noweLosowanie
  <2>1. CASE n + 1 \in 1..m
    BY <1>2, <1>x, <1>n, <2>1 DEF Longer
  <2>2. CASE n + 1 \notin 1..m
    <3>1. n + 1 = m + 1
      BY <1>3, <1>1, <2>2
    <3> QED
      BY <1>2, <1>x, <1>n, <3>1, <2>2 DEF Longer
  <2> QED
    BY <2>1, <2>2
<1>13. Endowed(x, losowania'[nr + 1], przeniesione(losowania'[nr]),
               IF losowania'[nr].liczbaWygranych[1] = 0 THEN pierwszaPula(losowania[nr]) ELSE 0)
  BY <1>6, <1>8, <1>k, <1>l, <1>n, <1>p
<1>14. m + 1 # nr + 1 => losowania'[m + 1] = noweLosowanie
  <2> SUFFICES ASSUME m + 1 # nr + 1 PROVE p[m + 1] = noweLosowanie
    BY <1>p
  <2>1. m + 1 \in 1..m+1 /\ m + 1 \notin {n, n + 1}
    BY <1>1, <1>3, <1>n
  <2> QED
    BY <1>2, <1>8, <2>1 DEF Longer
<1>15. losowania' \in Seq(Draw) /\ Len(losowania') = m + 1
  BY <1>9, <1>p
<1> QED
  BY <1>10, <1>11, <1>12, <1>13, <1>14, <1>15

\* The sum of the values of a function is their total.
LEMMA SumIs ==
  ASSUME NEW S, IsFiniteSet(S), NEW f \in [S -> Int]
  PROVE  SumOf(f) = Total(f, S)
<1> DEFINE Body(g) == [s \in SUBSET S |->
                        IF s = {} THEN 0
                        ELSE LET x == CHOOSE x \in s : TRUE IN f[x] + g[s \ {x}]]
<1>h. PICK h \in [SUBSET S -> Int] : SumsUp(h, f, S)
  <2>1. S \in SUBSET S
    OBVIOUS
  <2> QED
    BY <2>1, SumsExist
<1>1. h = Body(h)
  <2>1. \A s \in SUBSET S : h[s] = Body(h)[s]
    BY <1>h, ChosenIn DEF SumsUp, Chosen, Others
  <2> QED
    BY <2>1
<1>i. PICK iter : iter = CHOOSE g : g = Body(g)
  OBVIOUS
<1>2. iter = Body(iter)
  <2> HIDE DEF Body
  <2> QED
    BY <1>1, <1>i, Zenon
<1>3. SumOf(f) = iter[S]
  <2>1. DOMAIN f = S
    OBVIOUS
  <2> QED
    BY <1>i, <2>1, Zenon DEF SumOf, MapThenSumSet, MapThenFoldSet
<1>4. SumsUp(iter, f, S)
  BY <1>2, ChosenIn DEF SumsUp, Chosen, Others
<1>5. Total(f, S) = iter[S]
  <2>1. S \in SUBSET S
    OBVIOUS
  <2> QED
    BY <1>4, <2>1, TotalIs
<1> QED
  BY <1>3, <1>5

-----------------------------------------------------------------------------
\* The money a payment moves.
Money == [budzet : Int, podatki : Int, subsydia : Int, srodki : Int]
Worth(k) == wygranaKuponu(k) - podatekOdWygranych(k)
Priced(k) == wygranaKuponu(k) \in Int /\ podatekOdWygranych(k) \in Int
Balance(m) == m.srodki + m.budzet + m.podatki - m.subsydia

\* One payment: the player gets the worth of the coupon, the centre is not overdrawn,
\* nothing is lost.
LEMMA PaymentIs ==
  ASSUME NEW k, Priced(k), NEW m \in Money, NEW r, r = Zaplacone(k, m)
  PROVE  /\ r \in Money /\ r.srodki = m.srodki + Worth(k)
         /\ Balance(r) = Balance(m) /\ r.budzet >= 0
<1>w. PICK w \in Int : w = wygranaKuponu(k)
  BY DEF Priced
<1>p. PICK p \in Int : p = podatekOdWygranych(k)
  BY DEF Priced
<1>1. m.budzet \in Int /\ m.podatki \in Int /\ m.subsydia \in Int /\ m.srodki \in Int
  BY DEF Money
<1>s. PICK s \in Int : s = IF w > m.budzet THEN w - m.budzet ELSE 0
  BY <1>1
<1>2. r = [budzet |-> m.budzet + s - w, podatki |-> m.podatki + p,
           subsydia |-> m.subsydia + s, srodki |-> m.srodki + w - p]
  BY <1>w, <1>p, <1>s, Zenon DEF Zaplacone
<1>3. m.budzet + s - w >= 0
  BY <1>1, <1>s
<1> QED
  BY <1>1, <1>2, <1>3, <1>w, <1>p DEF Money, Worth, Balance

\* Any number of payments in any order: the player gets the worth of each coupon once.
LEMMA PaymentsAre ==
  ASSUME NEW S, IsFiniteSet(S), NEW base \in Money, base.budzet >= 0, NEW W \in [S -> Int],
         \A k \in S : Priced(k) /\ W[k] = Worth(k),
         NEW r, r = FoldSet(Zaplacone, base, S)
  PROVE  /\ r \in Money /\ r.srodki = base.srodki + Total(W, S)
         /\ Balance(r) = Balance(base) /\ r.budzet >= 0
<1> DEFINE Body(g) == [s \in SUBSET S |->
                        IF s = {} THEN base
                        ELSE LET x == CHOOSE x \in s : TRUE IN Zaplacone(x, g[s \ {x}])]
<1> DEFINE Pay == [q \in S \X Money |-> Zaplacone(q[1], q[2])]
<1>0. Pay \in [S \X Money -> Money]
  <2> SUFFICES ASSUME NEW k \in S, NEW m \in Money PROVE Zaplacone(k, m) \in Money
    OBVIOUS
  <2> QED
    BY PaymentIs
<1>h. PICK h \in [SUBSET S -> Money] : FoldsOver(h, base, S, Pay)
  <2> HIDE DEF Pay
  <2> QED
    BY <1>0, SubsetRecursion
<1>1. h = Body(h)
  <2>1. ASSUME NEW s \in SUBSET S PROVE h[s] = Body(h)[s]
    <3>1. CASE s = {}
      BY <1>h, <3>1 DEF FoldsOver
    <3>2. CASE s # {}
      <4>1. h[s] = Pay[<<Chosen(s), h[Others(s)]>>]
        <5> HIDE DEF Pay
        <5> QED
          BY <1>h, <3>2 DEF FoldsOver
      <4>2. Chosen(s) \in S /\ h[Others(s)] \in Money
        BY <3>2, ChosenIn DEF Others
      <4>3. h[s] = Zaplacone(Chosen(s), h[Others(s)])
        BY <4>1, <4>2
      <4> QED
        BY <3>2, <4>3 DEF Chosen, Others
    <3> QED
      BY <3>1, <3>2
  <2> QED
    BY <2>1
<1>i. PICK iter : iter = CHOOSE g : g = Body(g)
  OBVIOUS
<1>2. iter = Body(iter)
  <2> HIDE DEF Body
  <2> QED
    BY <1>1, <1>i, Zenon
<1>3. r = iter[S]
  BY <1>i, Zenon DEF FoldSet, MapThenFoldSet
<1>4. \A s \in SUBSET S : s # {} => iter[s] = Zaplacone(Chosen(s), iter[Others(s)])
  BY <1>2 DEF Chosen, Others
<1>5. iter[{}] = base
  BY <1>2
<1> DEFINE G == {s \in SUBSET S :
                   /\ iter[s] \in Money /\ iter[s].srodki = base.srodki + Total(W, s)
                   /\ Balance(iter[s]) = Balance(base) /\ iter[s].budzet >= 0}
<1>6. ASSUME NEW s \in SUBSET S, \A t \in SUBSET s : t # s => t \in G PROVE s \in G
  <2>0. base.srodki \in Int
    BY DEF Money
  <2>1. CASE s = {}
    <3>1. Total(W, s) = 0
      BY <2>1, TotalTyped
    <3> QED
      BY <1>5, <2>0, <2>1, <3>1
  <2>2. CASE s # {}
    <3>c. PICK c \in S : c = Chosen(s) /\ c \in s
      BY <2>2, ChosenIn
    <3>t. PICK t : t = s \ {c}
      OBVIOUS
    <3>1. t \in SUBSET S /\ t # s /\ t = Others(s) /\ t \in G
      BY <1>6, <3>c, <3>t DEF Others
    <3>m. PICK m : m = iter[t]
      OBVIOUS
    <3>2. /\ m \in Money /\ m.srodki = base.srodki + Total(W, t)
          /\ Balance(m) = Balance(base) /\ m.budzet >= 0
      BY <3>1, <3>m
    <3>n. PICK n : n = iter[s]
      OBVIOUS
    <3>3. n = Zaplacone(c, m)
      BY <1>4, <2>2, <3>1, <3>c, <3>m, <3>n
    <3>4. /\ n \in Money /\ n.srodki = m.srodki + Worth(c)
          /\ Balance(n) = Balance(m) /\ n.budzet >= 0
      BY <3>2, <3>3, PaymentIs
    <3>5. Total(W, s) = W[c] + Total(W, t)
      <4>1. IsFiniteSet(s)
        BY FS_Subset
      <4> QED
        BY <4>1, <3>c, <3>t, TotalRemove
    <3>6. Total(W, t) \in Int /\ W[c] \in Int
      <4>1. IsFiniteSet(t)
        BY <3>1, FS_Subset
      <4> QED
        BY <4>1, <3>1, TotalTyped
    <3>7. n.srodki = base.srodki + Total(W, s)
      BY <2>0, <3>2, <3>4, <3>5, <3>6
    <3> QED
      BY <3>2, <3>4, <3>7, <3>n
  <2> QED
    BY <2>1, <2>2
<1>7. SUBSET S \subseteq G
  <2> HIDE DEF G
  <2> QED
    BY <1>6, SubsetInduction
<1> QED
  BY <1>3, <1>7

\* The wins of a coupon whose draws are over are numbers, and so is its worth.
LEMMA WinsAre ==
  ASSUME Typed, NEW k \in Kupon, Skonczony(k)
  PROVE  /\ IsFiniteSet(Wygrane(k)) /\ Priced(k)
         /\ \A w \in Wygrane(k) : /\ w[1] \in DOMAIN losowania /\ w[1] < nr
                                  /\ w[2] \in DOMAIN kupony[k].zaklady
                                  /\ kwota(k, w) \in Int
<1>1. /\ kupony[k].pierwsze \in Nat \ {0} /\ ostatnieLosowanie(k) \in Nat
      /\ kupony[k].zaklady \in Seq(Bet) /\ nr \in 1..Len(losowania) /\ Len(losowania) \in Nat
      /\ DOMAIN losowania = 1..Len(losowania)
  BY NumbersAre
<1>2. ostatnieLosowanie(k) < nr
  BY DEF Skonczony, nr
<1>a. PICK a \in Nat \ {0}, b \in Nat : a = kupony[k].pierwsze /\ b = ostatnieLosowanie(k)
  BY <1>1
<1>n. PICK n \in Nat : DOMAIN kupony[k].zaklady = 1..n
  BY <1>1, LenProperties
<1>3. Wygrane(k) = (a..b) \X (1..n)
  BY <1>a, <1>n DEF Wygrane
<1>4. IsFiniteSet(Wygrane(k))
  <2>1. IsFiniteSet(a..b) /\ IsFiniteSet(1..n)
    BY FS_Interval
  <2>p. PICK I, J : I = a..b /\ J = 1..n
    OBVIOUS
  <2>2. IsFiniteSet(I \X J)
    BY <2>1, <2>p, FS_Product
  <2> QED
    BY <1>3, <2>2, <2>p
<1>5. ASSUME NEW w \in Wygrane(k)
      PROVE  /\ w[1] \in DOMAIN losowania /\ w[1] < nr
             /\ w[2] \in DOMAIN kupony[k].zaklady /\ kwota(k, w) \in Int
  <2>1. w[1] \in a..b /\ w[2] \in 1..n
    BY <1>3
  <2>2. w[1] \in DOMAIN losowania /\ w[1] < nr
    BY <1>1, <1>2, <1>a, <2>1
  <2>3. losowania[w[1]] \in Draw
    BY <2>2, NumbersAre
  <2>4. kwota(k, w) \in Int
    BY <2>3, PrizesAre DEF kwota
  <2> QED
    BY <2>1, <2>2, <2>4, <1>n
<1>6. Priced(k)
  <2>1. wygranaKuponu(k) \in Int
    <3>f. PICK f \in [Wygrane(k) -> Int] : f = [w \in Wygrane(k) |-> kwota(k, w)]
      BY <1>5
    <3>1. SumOf(f) = Total(f, Wygrane(k)) /\ Total(f, Wygrane(k)) \in Int
      BY <1>4, SumIs, TotalTyped, Wygrane(k) \in SUBSET Wygrane(k)
    <3> QED
      BY <3>1, <3>f DEF wygranaKuponu
  <2>2. podatekOdWygranych(k) \in Int
    <3>1. \A x \in Int : (IF x > WYSOKANAGRODA THEN (x * 10) \div 100 ELSE 0) \in Int
      BY CenyAssumption
    <3>f. PICK f \in [Wygrane(k) -> Int] : f = [w \in Wygrane(k) |->
            IF kwota(k, w) > WYSOKANAGRODA THEN (kwota(k, w) * 10) \div 100 ELSE 0]
      BY <1>5, <3>1
    <3>2. SumOf(f) = Total(f, Wygrane(k)) /\ Total(f, Wygrane(k)) \in Int
      BY <1>4, SumIs, TotalTyped, Wygrane(k) \in SUBSET Wygrane(k)
    <3> QED
      BY <3>2, <3>f DEF podatekOdWygranych
  <2> QED
    BY <2>1, <2>2 DEF Priced
<1> QED
  BY <1>4, <1>5, <1>6

\* The coupons that are due are sold, over, good, and the player's own.
LEMMA DueAre ==
  ASSUME Typed, NEW g \in Gracze, NEW ks \in SUBSET Due(g)
  PROVE  /\ IsFiniteSet(ks) /\ ks \in SUBSET Kupon
         /\ \A k \in ks : Priced(k) /\ Skonczony(k) /\ Wazny(k) /\ kupony[k].gracz = g
<1>1. ks \in SUBSET Kupon
  BY DEF Due, Kupon_of
<1>2. IsFiniteSet(Kupon)
  BY NumbersAre, FS_Interval
<1>3. IsFiniteSet(ks)
  BY <1>1, <1>2, FS_Subset
<1> QED
  BY <1>1, <1>3, WinsAre DEF Due, Kupon_of

\* The money after a payment.
LEMMA MoneyAfterPayment ==
  ASSUME Typed, budzetCentrali >= 0, NEW g \in Gracze, NEW ks \in SUBSET Due(g), wyplac(g, ks),
         NEW W \in [ks -> Int], \A k \in ks : W[k] = Worth(k)
  PROVE  /\ budzetCentrali' \in Nat /\ podatki' \in Int /\ subsydia' \in Int
         /\ srodki' \in [Gracze -> Int]
         /\ srodki'[g] = srodki[g] + Total(W, ks)
         /\ \A h \in Gracze : h # g => srodki'[h] = srodki[h]
         /\ srodki'[g] + budzetCentrali' + podatki' - subsydia'
              = srodki[g] + budzetCentrali + podatki - subsydia
<1>1. srodki \in [Gracze -> Int] /\ budzetCentrali \in Int /\ podatki \in Int /\ subsydia \in Int
  BY DEF Typed
<1>b. PICK base \in Money : base = [budzet |-> budzetCentrali, podatki |-> podatki,
                                    subsydia |-> subsydia, srodki |-> srodki[g]]
  BY <1>1 DEF Money
<1>r. PICK r : r = FoldSet(Zaplacone, base, ks)
  OBVIOUS
<1>2. r = Rozliczone(g, ks)
  BY <1>b, <1>r, Zenon DEF Rozliczone
<1>3. /\ budzetCentrali' = r.budzet /\ podatki' = r.podatki /\ subsydia' = r.subsydia
      /\ srodki' = [srodki EXCEPT ![g] = r.srodki]
  BY <1>2, Zenon DEF wyplac
<1>4. base.budzet = budzetCentrali /\ base.srodki = srodki[g] /\ base.podatki = podatki
      /\ base.subsydia = subsydia
  BY <1>b
<1>5. /\ r \in Money /\ r.srodki = base.srodki + Total(W, ks)
      /\ Balance(r) = Balance(base) /\ r.budzet >= 0
  <2>1. base.budzet >= 0
    BY <1>4
  <2>2. IsFiniteSet(ks) /\ \A k \in ks : Priced(k) /\ W[k] = Worth(k)
    BY DueAre
  <2> QED
    BY <1>r, <2>1, <2>2, PaymentsAre
<1>6. r.budzet \in Nat /\ r.podatki \in Int /\ r.subsydia \in Int /\ r.srodki \in Int
  BY <1>5 DEF Money
<1>7. r.srodki + r.budzet + r.podatki - r.subsydia
        = srodki[g] + budzetCentrali + podatki - subsydia
  BY <1>4, <1>5 DEF Balance
<1>8. srodki'[g] = r.srodki
  BY <1>1, <1>3
<1>9. srodki' \in [Gracze -> Int] /\ \A h \in Gracze : h # g => srodki'[h] = srodki[h]
  BY <1>1, <1>3, <1>6
<1> QED
  BY <1>3, <1>4, <1>5, <1>6, <1>7, <1>8, <1>9

-----------------------------------------------------------------------------
IInv == Typed /\ HeldInOrder /\ SoldInOrder /\ PaidWhenOver /\ budzetCentrali >= 0

\* The inductive invariant holds at first.
LEMMA InitIInv == Init => IInv
<1> SUFFICES ASSUME Init PROVE IInv
  OBVIOUS
<1>n. PICK n \in Nat \ {0} : n = MAXLICZBALOSOWAN
  BY LimitsAre
<1>p. PICK p : p = [i \in 1..n |-> noweLosowanie]
  OBVIOUS
<1>1. p \in [1..n -> Draw]
  BY <1>p, NewDrawIs
<1>2. losowania \in Seq(Draw) /\ Len(losowania) = n
  <2>1. p \in Seq(Draw) /\ Len(p) = n
    BY <1>1, FunctionIsSeq
  <2>2. losowania = p
    BY <1>p, <1>n DEF Init
  <2> QED
    BY <2>1, <2>2
<1>3. kupony \in Seq(Coupon) /\ Len(kupony) = 0
  BY EmptySeq DEF Init
<1>4. Typed
  <2>1. Srodki \in [Gracze -> Nat]
    BY GraczeAssumption
  <2>2. srodki \in [Gracze -> Int]
    BY <2>1 DEF Init
  <2>3. sprzedaneKupony \in [1..0 -> BOOLEAN] /\ zakupioneKupony \in [1..0 -> BOOLEAN]
    BY DEF Init
  <2> QED
    BY <1>2, <1>3, <1>n, <2>2, <2>3 DEF Init, Typed
<1>5. HeldInOrder
  <2> SUFFICES ASSUME NEW i \in DOMAIN losowania PROVE ~odbyte(losowania[i]) /\ ~(i < nr)
    BY DEF HeldInOrder
  <2>1. i \in 1..n /\ losowania[i] = noweLosowanie
    BY <1>n DEF Init
  <2>2. nr = 1
    BY <1>2, <1>n DEF nr, numerKolejnegoLosowania
  <2> QED
    BY <2>1, <2>2, NewDrawIs
<1>6. Kupon = {}
  BY DEF Init, Kupon
<1> QED
  BY <1>4, <1>5, <1>6 DEF IInv, SoldInOrder, PaidWhenOver, Init

\* A sale: the draws held and the coupons sold stay as they are.
LEMMA AfterSale ==
  ASSUME IInv, NEW g \in Gracze, NEW z \in Seq(Bet), NEW n \in 1..MAXLICZBALOSOWAN,
         sprzedajKupon(g, z, n)
  PROVE  /\ Typed' /\ budzetCentrali' \in Nat /\ nr' = nr
         /\ Kupon' = Kupon \cup {Len(kupony) + 1} /\ Len(kupony) + 1 \notin Kupon
         /\ \A k \in Kupon : /\ kupony'[k] = kupony[k] /\ sprzedaneKupony'[k] = sprzedaneKupony[k]
                             /\ zakupioneKupony'[k] = zakupioneKupony[k]
         /\ kupony'[Len(kupony) + 1] = [zaklady |-> z, pierwsze |-> nr, losowan |-> n, gracz |-> g]
         /\ sprzedaneKupony'[Len(kupony) + 1] = FALSE /\ zakupioneKupony'[Len(kupony) + 1] = TRUE
<1>1. Typed /\ budzetCentrali \in Nat
  BY DEF IInv, Typed
<1>c. PICK c \in Nat : c = Len(kupony) /\ Kupon = 1..c
  BY <1>1, NumbersAre
<1>2. wprowadzKupon(z, n)
  BY DEF sprzedajKupon
<1>3. losowania' \in Seq(Draw) /\ Len(losowania') = Len(losowania)
  BY <1>1, <1>2, DrawsAfterSale
<1>4. /\ kupony' \in Seq(Coupon) /\ Len(kupony') = c + 1
      /\ Longer(kupony, kupony', [zaklady |-> z, pierwsze |-> nr, losowan |-> n, gracz |-> g],
                Coupon, c)
      /\ Longer(sprzedaneKupony, sprzedaneKupony', FALSE, BOOLEAN, c)
      /\ Longer(zakupioneKupony, zakupioneKupony', TRUE, BOOLEAN, c)
  BY <1>1, <1>c, CouponsAfterSale
<1>5. nr' = nr
  BY <1>3 DEF nr, numerKolejnegoLosowania
<1>6. budzetCentrali' \in Nat /\ podatki' \in Int /\ subsydia' \in Int
  <2>0. n \in Nat
    BY LimitsAre
  <2>a. PICK a \in Nat, b \in Nat, d \in Nat : /\ a = cena(z, n) /\ b = podatek(z, n)
                                             /\ d = wartoscNagrod(z, n) /\ a - b - d \in Nat
    BY <2>0, PricesAre
  <2>1. /\ budzetCentrali' = budzetCentrali + a - b - d /\ podatki' = podatki + b
        /\ subsydia' = subsydia
    BY <1>2, <2>a DEF wprowadzKupon
  <2>2. podatki \in Int /\ subsydia \in Int
    BY <1>1 DEF Typed
  <2> QED
    <3>e. PICK e \in Nat : e = a - b - d
      BY <2>a
    <3>1. budzetCentrali' = budzetCentrali + e
      BY <1>1, <2>1, <3>e
    <3>2. budzetCentrali' \in Nat
      BY <1>1, <3>1
    <3> QED
      BY <2>1, <2>2, <3>2
<1>7. srodki' \in [Gracze -> Int]
  <2>0. n \in Nat
    BY LimitsAre
  <2>1. cena(z, n) \in Int /\ srodki \in [Gracze -> Int]
    BY <1>1, <2>0, PricesAre DEF Typed
  <2>2. srodki' = [srodki EXCEPT ![g] = srodki[g] - cena(z, n)]
    BY Zenon DEF sprzedajKupon
  <2> QED
    BY <2>1, <2>2
<1>8. Typed'
  BY <1>1, <1>3, <1>4, <1>6, <1>7, <1>c DEF Typed, Longer
<1>9. Kupon' = 1..c+1
  BY <1>4, LenProperties DEF Kupon
<1> QED
  BY <1>4, <1>5, <1>6, <1>8, <1>9, <1>c DEF Longer

\* Between the draws that were held and the step nothing changes there.
LEMMA AfterDraw ==
  ASSUME IInv, PrzeprowadzLosowanie
  PROVE  /\ Typed' /\ nr' = nr + 1 /\ Kupon' = Kupon
         /\ UNCHANGED <<kasa, kupony, sprzedaneKupony, zakupioneKupony, srodki>>
<1>1. UNCHANGED <<kasa, kupony, sprzedaneKupony, zakupioneKupony, srodki>>
  BY DEF PrzeprowadzLosowanie
<1>2. Typed
  BY DEF IInv
<1>m. PICK m \in Nat : m = Len(losowania)
  BY <1>2, NumbersAre
<1>3. losowania' \in Seq(Draw) /\ Len(losowania') = m + 1
  BY <1>2, <1>m, DrawsAfterDraw
<1>4. m >= MAXLICZBALOSOWAN /\ MAXLICZBALOSOWAN \in Nat
  BY <1>2, <1>m, LimitsAre DEF Typed
<1>5. Typed'
  BY <1>1, <1>2, <1>3, <1>4 DEF Typed, kasa
<1>6. nr' = nr + 1
  BY <1>3, <1>4, <1>m DEF nr, numerKolejnegoLosowania
<1> QED
  BY <1>1, <1>5, <1>6 DEF Kupon

\* A payment of coupons that are due: they are marked, the other ones are not.
LEMMA AfterPayment ==
  ASSUME IInv, NEW g \in Gracze, NEW ks \in SUBSET Due(g), wyplac(g, ks)
  PROVE  /\ Typed' /\ nr' = nr /\ Kupon' = Kupon /\ budzetCentrali' \in Nat
         /\ UNCHANGED <<losowania, kupony>>
         /\ \A k \in Kupon : /\ sprzedaneKupony'[k] <=> k \in ks \/ sprzedaneKupony[k]
                             /\ zakupioneKupony'[k] <=> k \notin ks /\ zakupioneKupony[k]
<1>1. Typed /\ budzetCentrali >= 0
  BY DEF IInv
<1>2. UNCHANGED <<losowania, kupony>>
  BY DEF wyplac
<1>3. \A k \in ks : Worth(k) \in Int
  BY <1>1, DueAre DEF Priced, Worth
<1>w. PICK W \in [ks -> Int] : W = [k \in ks |-> Worth(k)]
  BY <1>3
<1>4. \A k \in ks : W[k] = Worth(k)
  BY <1>w
<1>5. /\ budzetCentrali' \in Nat /\ podatki' \in Int /\ subsydia' \in Int
      /\ srodki' \in [Gracze -> Int]
  BY <1>1, <1>4, MoneyAfterPayment
<1>c. PICK c \in Nat : c = Len(kupony) /\ Kupon = 1..c
  BY <1>1, NumbersAre
<1>6. /\ sprzedaneKupony' = [k \in 1..c |-> k \in ks \/ sprzedaneKupony[k]]
      /\ zakupioneKupony' = [k \in 1..c |-> k \notin ks /\ zakupioneKupony[k]]
  BY <1>c DEF wyplac
<1>7. /\ sprzedaneKupony' \in [1..c -> BOOLEAN] /\ zakupioneKupony' \in [1..c -> BOOLEAN]
  BY <1>6
<1>8. Typed'
  BY <1>1, <1>2, <1>5, <1>7, <1>c DEF Typed
<1> QED
  BY <1>2, <1>5, <1>6, <1>8, <1>c DEF nr, numerKolejnegoLosowania, Kupon

\* A claim before the last draw marks one coupon.
LEMMA AfterEarlyClaim ==
  ASSUME IInv, NEW k \in Kupon, WykorzystajZaWczesnie(k)
  PROVE  /\ Typed' /\ nr' = nr /\ Kupon' = Kupon /\ ~Skonczony(k)
         /\ UNCHANGED <<losowania, kasa, kupony, zakupioneKupony, srodki>>
         /\ \A l \in Kupon : l # k => sprzedaneKupony'[l] = sprzedaneKupony[l]
         /\ sprzedaneKupony'[k]
<1>1. Typed /\ k \in 1..Len(kupony) /\ Kupon = 1..Len(kupony)
  BY NumbersAre DEF IInv
<1>2. UNCHANGED <<losowania, kasa, kupony, zakupioneKupony, srodki>>
  BY DEF WykorzystajZaWczesnie
<1>3. sprzedaneKupony \in [1..Len(kupony) -> BOOLEAN]
  BY <1>1 DEF Typed
<1>4. sprzedaneKupony' = [sprzedaneKupony EXCEPT ![k] = TRUE]
  BY DEF WykorzystajZaWczesnie
<1>5. Typed'
  BY <1>1, <1>2, <1>3, <1>4 DEF Typed, kasa
<1> QED
  BY <1>1, <1>2, <1>3, <1>4, <1>5 DEF nr, numerKolejnegoLosowania, Kupon, WykorzystajZaWczesnie

-----------------------------------------------------------------------------
\* The draws before the next one stay as they are in every step.
LEMMA HeldDrawsStay ==
  ASSUME IInv, [Next]_vars
  PROVE  /\ nr' \in {nr, nr + 1}
         /\ \A i \in DOMAIN losowania : i < nr => losowania'[i] = losowania[i]
<1>1. Typed /\ nr \in Nat /\ nr <= Len(losowania) /\ DOMAIN losowania = 1..Len(losowania)
      /\ Len(losowania) \in Nat
  BY NumbersAre DEF IInv
<1>2. ASSUME NEW g \in Gracze, NEW z \in Seq(Bet), NEW n \in 1..MAXLICZBALOSOWAN, Sale(g, z, n)
      PROVE  nr' = nr /\ \A i \in DOMAIN losowania : i < nr => losowania'[i] = losowania[i]
  <2>1. sprzedajKupon(g, z, n) /\ wprowadzKupon(z, n)
    BY <1>2 DEF Sale, sprzedajKupon
  <2>2. nr' = nr
    BY <2>1, AfterSale
  <2>3. \A i \in 1..Len(losowania) : i \notin nr..nr+n-1 => losowania'[i] = losowania[i]
    BY <1>1, <2>1, DrawsAfterSale
  <2>4. \A i \in 1..Len(losowania) : i < nr => i \notin nr..nr+n-1
    BY <1>1, LimitsAre
  <2> QED
    BY <1>1, <2>2, <2>3, <2>4
<1>3. ASSUME PrzeprowadzLosowanie
      PROVE  nr' = nr + 1 /\ \A i \in DOMAIN losowania : i < nr => losowania'[i] = losowania[i]
  <2>1. nr' = nr + 1
    BY <1>3, AfterDraw
  <2>2. \A i \in 1..Len(losowania) : i \notin {nr, nr + 1} => losowania'[i] = losowania[i]
    BY <1>1, <1>3, DrawsAfterDraw
  <2>3. \A i \in 1..Len(losowania) : i < nr => i \notin {nr, nr + 1}
    BY <1>1
  <2> QED
    BY <1>1, <2>1, <2>2, <2>3
<1>4. ASSUME NEW g \in Gracze, NEW ks \in SUBSET Due(g), wyplac(g, ks)
      PROVE  nr' = nr /\ losowania' = losowania
  BY <1>4, AfterPayment
<1>5. ASSUME NEW k \in Kupon, WykorzystajZaWczesnie(k)
      PROVE  nr' = nr /\ losowania' = losowania
  BY <1>5, AfterEarlyClaim
<1>6. ASSUME UNCHANGED vars
      PROVE  nr' = nr /\ losowania' = losowania
  BY <1>6 DEF vars, nr, numerKolejnegoLosowania
<1>7. CASE Next
  BY <1>1, <1>2, <1>3, <1>4, <1>5, <1>7, StepsAre
<1> QED
  BY <1>6, <1>7

\* Draws are held in order: after a sale,
LEMMA HeldAfterSale ==
  ASSUME IInv, NEW g \in Gracze, NEW z \in Seq(Bet), NEW n \in 1..MAXLICZBALOSOWAN,
         sprzedajKupon(g, z, n)
  PROVE  HeldInOrder'
<1>1. Typed /\ HeldInOrder /\ wprowadzKupon(z, n) /\ DOMAIN losowania = 1..Len(losowania)
  BY NumbersAre DEF IInv, sprzedajKupon
<1>2. nr' = nr /\ Typed'
  BY AfterSale
<1>3. /\ losowania' \in Seq(Draw) /\ Len(losowania') = Len(losowania)
      /\ \A i \in 1..Len(losowania) : i \in nr..nr+n-1 =>
              Grown(losowania[i], losowania'[i], z, Share(z, n))
      /\ \A i \in 1..Len(losowania) : i \notin nr..nr+n-1 => losowania'[i] = losowania[i]
  BY <1>1, DrawsAfterSale
<1>4. DOMAIN losowania' = 1..Len(losowania)
  BY <1>3, LenProperties
<1>5. ASSUME NEW i \in 1..Len(losowania)
      PROVE  losowania'[i].zwycieskaSzostka = losowania[i].zwycieskaSzostka
  <2>1. CASE i \in nr..nr+n-1
    BY <1>3, <2>1 DEF Grown
  <2>2. CASE i \notin nr..nr+n-1
    BY <1>3, <2>2
  <2> QED
    BY <2>1, <2>2
<1> QED
  BY <1>1, <1>2, <1>4, <1>5 DEF HeldInOrder, odbyte

\* and after a draw.
LEMMA HeldAfterDraw ==
  ASSUME IInv, PrzeprowadzLosowanie
  PROVE  HeldInOrder'
<1>1. /\ Typed /\ HeldInOrder /\ DOMAIN losowania = 1..Len(losowania)
      /\ Len(losowania) \in Nat /\ nr \in 1..Len(losowania)
  BY NumbersAre DEF IInv
<1>2. nr' = nr + 1
  BY AfterDraw
<1>m. PICK m \in Nat : m = Len(losowania)
  BY <1>1
<1>n. PICK n \in Nat \ {0} : n = nr
  BY <1>1
<1>3. /\ losowania' \in Seq(Draw) /\ Len(losowania') = m + 1
      /\ \A i \in 1..m : i \notin {n, n + 1} => losowania'[i] = losowania[i]
      /\ \E szostka \in Szostki : Held(losowania[n], losowania'[n], szostka)
      /\ m + 1 # n + 1 => losowania'[m + 1] = noweLosowanie
  BY <1>1, <1>m, <1>n, DrawsAfterDraw
<1>4. DOMAIN losowania' = 1..m+1
  BY <1>3, LenProperties
<1>5. odbyte(losowania'[n])
  BY <1>3 DEF Held
<1>6. ~odbyte(losowania'[n + 1])
  <2>1. PICK next \in Draw :
              /\ next = IF nr + 1 \in 1..m THEN losowania[nr + 1] ELSE noweLosowanie
              /\ Endowed(next, losowania'[nr + 1], przeniesione(losowania'[nr]),
                         IF losowania'[nr].liczbaWygranych[1] = 0
                         THEN pierwszaPula(losowania[nr]) ELSE 0)
    BY <1>1, <1>m, <1>n, DrawsAfterDraw
  <2>2. losowania'[n + 1].zwycieskaSzostka = next.zwycieskaSzostka
    BY <2>1, <1>m, <1>n DEF Endowed
  <2>3. ~odbyte(next)
    <3>1. CASE n + 1 \in 1..m
      <4>1. next = losowania[n + 1] /\ n + 1 \in DOMAIN losowania /\ ~(n + 1 < nr)
        BY <1>1, <1>m, <1>n, <2>1, <3>1
      <4> QED
        BY <1>1, <4>1 DEF HeldInOrder
    <3>2. CASE n + 1 \notin 1..m
      BY <1>m, <1>n, <2>1, <3>2, NewDrawIs
    <3> QED
      BY <3>1, <3>2
  <2> QED
    BY <2>2, <2>3 DEF odbyte
<1>7. ASSUME NEW i \in 1..m+1 PROVE odbyte(losowania'[i]) <=> i < n + 1
  <2>1. CASE i = n
    BY <1>5, <2>1
  <2>2. CASE i = n + 1
    BY <1>6, <2>2
  <2>3. CASE i \notin {n, n + 1} /\ i \in 1..m
    <3>1. losowania'[i] = losowania[i] /\ (odbyte(losowania[i]) <=> i < n)
      BY <1>1, <1>3, <1>m, <1>n, <2>3 DEF HeldInOrder
    <3> QED
      BY <2>3, <3>1
  <2>4. CASE i = m + 1 /\ m + 1 # n + 1
    <3>1. ~odbyte(losowania'[i]) /\ ~(i < n + 1)
      BY <1>1, <1>3, <1>m, <1>n, <2>4, NewDrawIs
    <3> QED
      BY <3>1
  <2> QED
    BY <2>1, <2>2, <2>3, <2>4
<1> QED
  BY <1>2, <1>4, <1>7, <1>m, <1>n DEF HeldInOrder

\* Coupons in the order of sale, and paid ones over: after a sale,
LEMMA OrderAfterSale ==
  ASSUME IInv, NEW g \in Gracze, NEW z \in Seq(Bet), NEW n \in 1..MAXLICZBALOSOWAN,
         sprzedajKupon(g, z, n)
  PROVE  SoldInOrder' /\ PaidWhenOver'
<1>1. Typed /\ SoldInOrder /\ PaidWhenOver
  BY DEF IInv
<1>c. PICK c \in Nat : c = Len(kupony) /\ Kupon = 1..c
  BY <1>1, NumbersAre
<1>2. /\ nr' = nr /\ nr \in Nat /\ Kupon' = 1..c+1
      /\ \A k \in Kupon : /\ kupony'[k] = kupony[k] /\ sprzedaneKupony'[k] = sprzedaneKupony[k]
                          /\ zakupioneKupony'[k] = zakupioneKupony[k]
      /\ kupony'[c + 1].pierwsze = nr /\ zakupioneKupony'[c + 1] = TRUE
  <2>1. /\ nr' = nr
        /\ Kupon' = Kupon \cup {Len(kupony) + 1} /\ Len(kupony) + 1 \notin Kupon
        /\ \A k \in Kupon : /\ kupony'[k] = kupony[k] /\ sprzedaneKupony'[k] = sprzedaneKupony[k]
                            /\ zakupioneKupony'[k] = zakupioneKupony[k]
        /\ kupony'[Len(kupony) + 1]
             = [zaklady |-> z, pierwsze |-> nr, losowan |-> n, gracz |-> g]
        /\ zakupioneKupony'[Len(kupony) + 1] = TRUE
    BY AfterSale
  <2>2. nr \in Nat
    BY <1>1, NumbersAre
  <2>3. Kupon' = 1..c+1
    BY <1>c, <2>1
  <2>4. kupony'[c + 1].pierwsze = nr /\ zakupioneKupony'[c + 1] = TRUE
    BY <1>c, <2>1
  <2> QED
    BY <2>1, <2>2, <2>3, <2>4
<1>3. SoldInOrder'
  <2>1. ASSUME NEW k \in Kupon' PROVE kupony'[k].pierwsze <= nr'
    BY <1>1, <1>2, <1>c DEF SoldInOrder
  <2>2. ASSUME NEW k \in Kupon', NEW l \in Kupon', k < l
        PROVE  kupony'[k].pierwsze <= kupony'[l].pierwsze
    <3>1. k \in Kupon
      BY <1>2, <1>c, <2>2
    <3>2. CASE l \in Kupon
      BY <1>1, <1>2, <2>2, <3>1, <3>2 DEF SoldInOrder
    <3>3. CASE l = c + 1
      BY <1>1, <1>2, <3>1, <3>3 DEF SoldInOrder
    <3> QED
      BY <1>2, <1>c, <3>2, <3>3
  <2> QED
    BY <2>1, <2>2 DEF SoldInOrder
<1>4. PaidWhenOver'
  <2> SUFFICES ASSUME NEW k \in Kupon', ~zakupioneKupony'[k]
               PROVE  Skonczony(k)' /\ sprzedaneKupony'[k]
    BY DEF PaidWhenOver
  <2>1. k \in Kupon
    BY <1>2, <1>c
  <2>2. Skonczony(k) /\ sprzedaneKupony[k]
    BY <1>1, <1>2, <2>1 DEF PaidWhenOver
  <2> QED
    BY <1>2, <2>1, <2>2 DEF Skonczony, ostatnieLosowanie, nr
<1> QED
  BY <1>3, <1>4

\* and after every other step.
LEMMA OrderAfterOthers ==
  ASSUME IInv, Typed', nr' \in {nr, nr + 1}, kupony' = kupony,
         \A k \in Kupon : sprzedaneKupony[k] => sprzedaneKupony'[k],
         \A k \in Kupon : ~zakupioneKupony'[k] =>
            ~zakupioneKupony[k] \/ (Skonczony(k) /\ sprzedaneKupony'[k])
  PROVE  SoldInOrder' /\ PaidWhenOver'
<1>1. Typed /\ SoldInOrder /\ PaidWhenOver /\ Kupon' = Kupon
  BY DEF IInv, Kupon
<1>2. /\ nr \in Nat
      /\ \A k \in Kupon : kupony[k].pierwsze \in Nat /\ ostatnieLosowanie(k) \in Nat
  BY <1>1, NumbersAre
<1>3. SoldInOrder'
  BY <1>1, <1>2 DEF SoldInOrder
<1>4. ASSUME NEW k \in Kupon, Skonczony(k) PROVE Skonczony(k)'
  <2>1. ostatnieLosowanie(k)' = ostatnieLosowanie(k) /\ ostatnieLosowanie(k) < nr
    BY <1>4 DEF ostatnieLosowanie, Skonczony, nr
  <2>2. ostatnieLosowanie(k)' < nr'
    BY <1>2, <2>1
  <2> QED
    BY <2>2 DEF Skonczony, nr
<1>5. PaidWhenOver'
  BY <1>1, <1>4 DEF PaidWhenOver
<1> QED
  BY <1>3, <1>5

\* Every step keeps the inductive invariant.
LEMMA NextIInv == IInv /\ [Next]_vars => IInv'
<1> SUFFICES ASSUME IInv, [Next]_vars PROVE IInv'
  OBVIOUS
<1>1. Typed /\ HeldInOrder /\ SoldInOrder /\ PaidWhenOver /\ budzetCentrali >= 0
  BY DEF IInv
<1>2. ASSUME NEW g \in Gracze, NEW z \in Seq(Bet), NEW n \in 1..MAXLICZBALOSOWAN, Sale(g, z, n)
      PROVE  IInv'
  <2>1. sprzedajKupon(g, z, n)
    BY <1>2 DEF Sale
  <2>2. Typed' /\ budzetCentrali' \in Nat
    BY <2>1, AfterSale
  <2>3. budzetCentrali' >= 0
    BY <2>2
  <2> QED
    BY <2>1, <2>2, <2>3, HeldAfterSale, OrderAfterSale DEF IInv
<1>3. ASSUME PrzeprowadzLosowanie PROVE IInv'
  <2>1. /\ Typed' /\ nr' = nr + 1
        /\ UNCHANGED <<kasa, kupony, sprzedaneKupony, zakupioneKupony, srodki>>
    BY <1>3, AfterDraw
  <2>2. SoldInOrder' /\ PaidWhenOver'
    BY <2>1, OrderAfterOthers
  <2>3. budzetCentrali' >= 0
    BY <1>1, <2>1 DEF kasa
  <2> QED
    BY <1>3, <2>1, <2>2, <2>3, HeldAfterDraw DEF IInv
<1>4. ASSUME NEW g \in Gracze, NEW ks \in SUBSET Due(g), wyplac(g, ks) PROVE IInv'
  <2>1. /\ Typed' /\ nr' = nr /\ budzetCentrali' \in Nat /\ UNCHANGED <<losowania, kupony>>
        /\ \A k \in Kupon : /\ sprzedaneKupony'[k] <=> k \in ks \/ sprzedaneKupony[k]
                            /\ zakupioneKupony'[k] <=> k \notin ks /\ zakupioneKupony[k]
    BY <1>4, AfterPayment
  <2>2. \A k \in ks : Skonczony(k)
    BY <1>1, DueAre
  <2>3. SoldInOrder' /\ PaidWhenOver'
    BY <2>1, <2>2, OrderAfterOthers
  <2>4. HeldInOrder'
    BY <1>1, <2>1 DEF HeldInOrder
  <2> QED
    BY <2>1, <2>3, <2>4 DEF IInv
<1>5. ASSUME NEW k \in Kupon, WykorzystajZaWczesnie(k) PROVE IInv'
  <2>1. /\ Typed' /\ nr' = nr
        /\ UNCHANGED <<losowania, kasa, kupony, zakupioneKupony, srodki>>
        /\ \A l \in Kupon : l # k => sprzedaneKupony'[l] = sprzedaneKupony[l]
        /\ sprzedaneKupony'[k]
    BY <1>5, AfterEarlyClaim
  <2>3. SoldInOrder' /\ PaidWhenOver'
    BY <2>1, OrderAfterOthers
  <2>4. HeldInOrder'
    BY <1>1, <2>1 DEF HeldInOrder
  <2> QED
    BY <1>1, <2>1, <2>3, <2>4 DEF IInv, kasa
<1>6. ASSUME UNCHANGED vars PROVE IInv'
  BY <1>6, <1>1 DEF vars, kasa, IInv, Typed, HeldInOrder, SoldInOrder, PaidWhenOver, nr,
     numerKolejnegoLosowania, Kupon, Skonczony, ostatnieLosowanie
<1>7. CASE Next
  BY <1>1, <1>2, <1>3, <1>4, <1>5, <1>7, StepsAre
<1> QED
  BY <1>6, <1>7

\* In every reachable state the variables have their types, draws are held and coupons
\* sold in order, only coupons whose draws are over have been paid, and the centre is not
\* overdrawn.
THEOREM InductiveInvariant == Spec => []IInv
BY InitIInv, NextIInv, PTL DEF Spec

-----------------------------------------------------------------------------
\* A coupon is spent without being paid only when it is claimed before its last draw
\* (LostOnlyByEarlyClaim): wykorzystajKupon marks it before the centre fails.
THEOREM LostOnlyEarly == Spec => LostOnlyByEarlyClaim
<1>1. ASSUME IInv, Next
      PROVE  \A k \in Kupon : ~sprzedaneKupony[k] /\ sprzedaneKupony'[k] /\ zakupioneKupony'[k]
               => ~Skonczony(k)
  <2> SUFFICES ASSUME NEW k \in Kupon,
                      ~sprzedaneKupony[k] /\ sprzedaneKupony'[k] /\ zakupioneKupony'[k]
               PROVE  ~Skonczony(k)
    OBVIOUS
  <2>1. ASSUME NEW g \in Gracze, NEW z \in Seq(Bet), NEW n \in 1..MAXLICZBALOSOWAN, Sale(g, z, n)
        PROVE  FALSE
    <3>1. sprzedajKupon(g, z, n)
      BY <2>1 DEF Sale
    <3>2. sprzedaneKupony'[k] = sprzedaneKupony[k]
      BY <1>1, <3>1, AfterSale
    <3> QED
      BY <3>2
  <2>2. ASSUME PrzeprowadzLosowanie PROVE FALSE
    BY <1>1, <2>2, AfterDraw
  <2>3. ASSUME NEW g \in Gracze, NEW ks \in SUBSET Due(g), wyplac(g, ks) PROVE FALSE
    BY <1>1, <2>3, AfterPayment
  <2>4. ASSUME NEW l \in Kupon, WykorzystajZaWczesnie(l) PROVE ~Skonczony(k)
    BY <1>1, <2>4, AfterEarlyClaim
  <2> QED
    BY <1>1, <2>1, <2>2, <2>3, <2>4, StepsAre DEF IInv
<1> QED
  BY <1>1, InductiveInvariant, PTL DEF Spec, LostOnlyByEarlyClaim, vars

\* A function and the same function with one more value.
OneMore(f, S, g, U, x) ==
  /\ IsFiniteSet(S) /\ x \notin S /\ U = S \cup {x}
  /\ f \in [S -> Int] /\ g \in [U -> Int] /\ \A y \in S : g[y] = f[y]

\* The sum of a function with one more value,
LEMMA SumGrows ==
  ASSUME NEW S, NEW x, NEW f, NEW U, NEW g, OneMore(f, S, g, U, x)
  PROVE  SumOf(g) = SumOf(f) + g[x] /\ SumOf(f) \in Int /\ g[x] \in Int
<1>0. /\ IsFiniteSet(S) /\ x \notin S /\ U = S \cup {x}
      /\ f \in [S -> Int] /\ g \in [U -> Int] /\ \A y \in S : g[y] = f[y]
  BY DEF OneMore
<1>1. IsFiniteSet(U) /\ S \in SUBSET U /\ x \in U /\ g \in [U -> Int] /\ S \in SUBSET S
  BY <1>0, FS_AddElement
<1>2. SumOf(g) = Total(g, U) /\ SumOf(f) = Total(f, S)
  BY <1>0, <1>1, SumIs
<1>3. Total(g, S \cup {x}) = Total(g, S) + g[x]
  BY <1>0, <1>1, TotalAdd
<1>4. Total(f, S) = Total(g, S)
  BY <1>0, <1>1, TotalSame
<1>5. Total(f, S) \in Int
  BY <1>0, <1>1, TotalTyped
<1> QED
  BY <1>0, <1>1, <1>2, <1>3, <1>4, <1>5

\* and with one value changed.
LEMMA SumChanges ==
  ASSUME NEW S, IsFiniteSet(S), NEW x \in S, NEW f \in [S -> Int], NEW g \in [S -> Int],
         \A y \in S : y # x => g[y] = f[y]
  PROVE  SumOf(g) = SumOf(f) - f[x] + g[x] /\ SumOf(f) \in Int
<1>1. S \in SUBSET S
  OBVIOUS
<1>2. SumOf(g) = Total(g, S) /\ SumOf(f) = Total(f, S)
  BY SumIs
<1>3. Total(g, S) = Total(f, S) - f[x] + g[x]
  BY <1>1, TotalChange
<1>4. Total(f, S) \in Int
  BY <1>1, TotalTyped
<1> QED
  BY <1>2, <1>3, <1>4

-----------------------------------------------------------------------------
Prizes == [k \in Kupon |-> Nagrody(k)]

\* Prices and prize money are numbers, and there are finitely many.
LEMMA PrizeMoneyIs ==
  ASSUME Typed
  PROVE  /\ Prizes \in [Kupon -> Int] /\ IsFiniteSet(Kupon) /\ IsFiniteSet(Gracze)
         /\ \A k \in Kupon : Nagrody(k) \in Nat /\ Cena(k) \in Nat
<1>1. IsFiniteSet(Kupon)
  BY NumbersAre, FS_Interval
<1>2. ASSUME NEW k \in Kupon PROVE Nagrody(k) \in Nat /\ Cena(k) \in Nat
  <2>1. kupony[k].zaklady \in Seq(Bet) /\ kupony[k].losowan \in Nat
    BY NumbersAre, LimitsAre
  <2> QED
    BY <2>1, PricesAre DEF Nagrody, Cena
<1> QED
  BY <1>1, <1>2, GraczeAssumption DEF Prizes

Paid == SumOf(srodki) + budzetCentrali + podatki + SumOf(Prizes) = SumOf(Srodki) + subsydia

\* The books balance at first,
LEMMA LedgerInit == Init => Paid
<1> SUFFICES ASSUME Init PROVE Paid
  OBVIOUS
<1>1. Kupon = {} /\ srodki = Srodki /\ Typed
  BY InitIInv DEF Init, Kupon, IInv
<1>2. SumOf(Srodki) \in Int
  <2>1. Srodki \in [Gracze -> Int] /\ IsFiniteSet(Gracze) /\ Gracze \in SUBSET Gracze
    BY GraczeAssumption
  <2> QED
    BY <2>1, SumIs, TotalTyped
<1>3. SumOf(Prizes) = 0
  <2>1. Prizes \in [{} -> Int] /\ IsFiniteSet({}) /\ {} \in SUBSET {}
    BY <1>1, PrizeMoneyIs
  <2>2. SumOf(Prizes) = Total(Prizes, {}) /\ Total(Prizes, {}) = 0
    BY <2>1, SumIs, TotalTyped
  <2> QED
    BY <2>2
<1> QED
  BY <1>1, <1>2, <1>3 DEF Paid, Init

\* after a sale,
LEMMA LedgerAfterSale ==
  ASSUME IInv, Paid, NEW g \in Gracze, NEW z \in Seq(Bet), NEW n \in 1..MAXLICZBALOSOWAN,
         sprzedajKupon(g, z, n)
  PROVE  Paid'
<1>1. Typed /\ budzetCentrali \in Int /\ podatki \in Int /\ subsydia \in Int
      /\ srodki \in [Gracze -> Int] /\ IsFiniteSet(Gracze) /\ n \in Nat
  BY GraczeAssumption, LimitsAre DEF IInv, Typed
<1>a. PICK a \in Nat : a = cena(z, n)
  BY <1>1, PricesAre
<1>b. PICK b \in Nat : b = podatek(z, n)
  BY <1>1, PricesAre
<1>d. PICK d \in Nat : d = wartoscNagrod(z, n)
  BY <1>1, PricesAre
<1>2. /\ budzetCentrali' = budzetCentrali + a - b - d /\ podatki' = podatki + b
      /\ subsydia' = subsydia /\ srodki' = [srodki EXCEPT ![g] = srodki[g] - a]
  BY <1>a, <1>b, <1>d, Zenon DEF sprzedajKupon, wprowadzKupon
<1>3. SumOf(srodki') = SumOf(srodki) - a /\ SumOf(srodki) \in Int
  <2>p. PICK p : p = srodki'
    OBVIOUS
  <2>s. PICK s \in [Gracze -> Int] : s = srodki
    BY <1>1
  <2>1. /\ p \in [Gracze -> Int] /\ p[g] = s[g] - a /\ s[g] \in Int
        /\ \A h \in Gracze : h # g => p[h] = s[h]
    BY <1>1, <1>2, <2>p, <2>s
  <2>2. SumOf(p) = SumOf(s) - s[g] + p[g] /\ SumOf(s) \in Int
    BY <1>1, <2>1, SumChanges
  <2> QED
    BY <2>1, <2>2, <2>p, <2>s
<1>x. PICK x : x = Len(kupony) + 1
  OBVIOUS
<1>4. /\ Typed' /\ Kupon' = Kupon \cup {x} /\ x \notin Kupon
      /\ \A k \in Kupon : kupony'[k] = kupony[k]
      /\ kupony'[x] = [zaklady |-> z, pierwsze |-> nr, losowan |-> n, gracz |-> g]
  BY <1>x, AfterSale
<1>5. SumOf(Prizes)' = SumOf(Prizes) + d /\ SumOf(Prizes) \in Int
  <2>1. Prizes \in [Kupon -> Int] /\ IsFiniteSet(Kupon)
    BY <1>1, PrizeMoneyIs
  <2>3. /\ \A k \in Kupon : Prizes'[k] = Prizes[k]
        /\ Prizes'[x] = d
    BY <1>4, <1>d DEF Prizes, Nagrody
  <2>2. Prizes' \in [Kupon' -> Int]
    <3>1. \A k \in Kupon' : Prizes'[k] \in Int
      BY <1>4, <2>1, <2>3
    <3>2. Prizes' = [k \in Kupon' |-> Prizes'[k]]
      BY DEF Prizes
    <3> QED
      BY <3>1, <3>2
  <2>p. PICK p, q, S, U : p = Prizes' /\ q = Prizes /\ S = Kupon /\ U = Kupon'
    OBVIOUS
  <2>q. OneMore(q, S, p, U, x)
    BY <1>4, <2>1, <2>2, <2>3, <2>p DEF OneMore
  <2>4. SumOf(p) = SumOf(q) + p[x] /\ SumOf(q) \in Int
    BY <2>q, SumGrows
  <2> QED
    BY <2>3, <2>4, <2>p
<1>6. SumOf(srodki)' = SumOf(srodki) - a
  BY <1>3
<1>7. SumOf(Srodki)' = SumOf(Srodki)
  OBVIOUS
<1>s. PICK s \in Int : s = SumOf(srodki)
  BY <1>3
<1>t. PICK t \in Int : t = SumOf(Prizes)
  BY <1>5
<1>8. s + budzetCentrali + podatki + t = SumOf(Srodki) + subsydia
  BY <1>s, <1>t DEF Paid
<1>9. (s - a) + (budzetCentrali + a - b - d) + (podatki + b) + (t + d) = SumOf(Srodki) + subsydia
  BY <1>1, <1>8
<1> QED
  BY <1>2, <1>5, <1>6, <1>7, <1>9, <1>s, <1>t DEF Paid

\* and after a payment.
LEMMA LedgerAfterPayment ==
  ASSUME IInv, Paid, NEW g \in Gracze, NEW ks \in SUBSET Due(g), wyplac(g, ks)
  PROVE  Paid'
<1>1. Typed /\ budzetCentrali \in Int /\ podatki \in Int /\ subsydia \in Int
      /\ srodki \in [Gracze -> Int] /\ IsFiniteSet(Gracze) /\ budzetCentrali >= 0
  BY GraczeAssumption DEF IInv, Typed
<1>2. \A k \in ks : Worth(k) \in Int
  <2>1. \A k \in ks : Priced(k)
    BY <1>1, DueAre
  <2> QED
    BY <2>1 DEF Priced, Worth
<1>w. PICK W \in [ks -> Int] : W = [k \in ks |-> Worth(k)]
  BY <1>2
<1>3. \A k \in ks : W[k] = Worth(k)
  BY <1>w
<1>4. /\ budzetCentrali' \in Nat /\ podatki' \in Int /\ subsydia' \in Int
      /\ srodki' \in [Gracze -> Int]
      /\ \A h \in Gracze : h # g => srodki'[h] = srodki[h]
      /\ srodki'[g] + budzetCentrali' + podatki' - subsydia'
              = srodki[g] + budzetCentrali + podatki - subsydia
  BY <1>1, <1>3, MoneyAfterPayment
<1>5. SumOf(srodki)' = SumOf(srodki) - srodki[g] + srodki'[g] /\ SumOf(srodki) \in Int
  <2>p. PICK p, s : p = srodki' /\ s = srodki
    OBVIOUS
  <2>1. SumOf(p) = SumOf(s) - s[g] + p[g] /\ SumOf(s) \in Int
    BY <1>1, <1>4, <2>p, SumChanges
  <2> QED
    BY <2>1, <2>p
<1>6. Prizes' = Prizes
  <2>1. kupony' = kupony
    BY AfterPayment
  <2> QED
    BY <2>1 DEF Prizes, Nagrody, Kupon
<1>7. SumOf(Prizes)' = SumOf(Prizes) /\ SumOf(Srodki)' = SumOf(Srodki)
  BY <1>6
<1>8. SumOf(Prizes) \in Int
  <2>1. Prizes \in [Kupon -> Int] /\ IsFiniteSet(Kupon) /\ Kupon \in SUBSET Kupon
    BY <1>1, PrizeMoneyIs
  <2> QED
    BY <2>1, SumIs, TotalTyped
<1>9. SumOf(Srodki) \in Int
  <2>1. Srodki \in [Gracze -> Int] /\ IsFiniteSet(Gracze) /\ Gracze \in SUBSET Gracze
    BY GraczeAssumption
  <2> QED
    BY <2>1, SumIs, TotalTyped
<1>10. srodki[g] \in Int /\ srodki'[g] \in Int
  BY <1>1, <1>4
<1>s. PICK s \in Int : s = SumOf(srodki)
  BY <1>5
<1>t. PICK t \in Int : t = SumOf(Prizes)
  BY <1>8
<1>u. PICK u \in Int : u = SumOf(Srodki)
  BY <1>9
<1>11. s + budzetCentrali + podatki + t = u + subsydia
  BY <1>s, <1>t, <1>u DEF Paid
<1>12. (s - srodki[g] + srodki'[g]) + budzetCentrali' + podatki' + t = u + subsydia'
  BY <1>1, <1>4, <1>10, <1>11
<1> QED
  BY <1>5, <1>7, <1>12, <1>s, <1>t, <1>u DEF Paid

\* No money appears or vanishes and the centre is never overdrawn (LedgerBalances),
\* whatever is bought, drawn and claimed, in whatever order.
THEOREM MoneyIsConserved == Spec => []LedgerBalances
<1>1. ASSUME IInv, Paid, [Next]_vars PROVE Paid'
  <2>0. Typed
    BY <1>1 DEF IInv
  <2>1. ASSUME UNCHANGED <<kasa, kupony, srodki>> PROVE Paid'
    <3>1. Prizes' = Prizes
      BY <2>1 DEF Prizes, Nagrody, Kupon
    <3>2. SumOf(Prizes)' = SumOf(Prizes) /\ SumOf(Srodki)' = SumOf(Srodki)
          /\ SumOf(srodki)' = SumOf(srodki)
      BY <2>1, <3>1
    <3> QED
      BY <1>1, <2>1, <3>2 DEF Paid, kasa
  <2>2. ASSUME NEW g \in Gracze, NEW z \in Seq(Bet), NEW n \in 1..MAXLICZBALOSOWAN, Sale(g, z, n)
        PROVE  Paid'
    BY <1>1, <2>2, LedgerAfterSale DEF Sale
  <2>3. ASSUME PrzeprowadzLosowanie PROVE Paid'
    BY <2>1, <2>3 DEF PrzeprowadzLosowanie
  <2>4. ASSUME NEW g \in Gracze, NEW ks \in SUBSET Due(g), wyplac(g, ks) PROVE Paid'
    BY <1>1, <2>4, LedgerAfterPayment
  <2>5. ASSUME NEW k \in Kupon, WykorzystajZaWczesnie(k) PROVE Paid'
    BY <2>1, <2>5 DEF WykorzystajZaWczesnie
  <2>6. CASE UNCHANGED vars
    BY <2>1, <2>6 DEF vars
  <2>7. CASE Next
    BY <2>0, <2>2, <2>3, <2>4, <2>5, <2>7, StepsAre
  <2> QED
    BY <1>1, <2>6, <2>7
<1>2. IInv /\ Paid => LedgerBalances
  BY DEF IInv, Paid, Prizes, LedgerBalances
<1> QED
  BY <1>1, <1>2, LedgerInit, InductiveInvariant, PTL DEF Spec

\* The last coupon a player bought has the highest first draw.
LEMMA LastFirst ==
  ASSUME Typed, SoldInOrder, NEW g \in Gracze, NEW k \in Kupon_of(g),
         \A j \in Kupon_of(g) : j <= k
  PROVE  ostatniPierwszy(g) = kupony[k].pierwsze
<1> DEFINE V == {0} \cup {kupony[j].pierwsze : j \in Kupon_of(g)}
<1>1. \A j \in Kupon_of(g) : j \in Kupon /\ j \in Nat /\ kupony[j].pierwsze \in Nat
  BY NumbersAre DEF Kupon_of
<1>2. kupony[k].pierwsze \in V /\ \A y \in V : y \in Nat
  BY <1>1
<1>3. \A j \in Kupon_of(g) : kupony[j].pierwsze <= kupony[k].pierwsze
  <2> SUFFICES ASSUME NEW j \in Kupon_of(g) PROVE kupony[j].pierwsze <= kupony[k].pierwsze
    OBVIOUS
  <2>1. j <= k /\ j \in Kupon /\ k \in Kupon /\ j \in Nat /\ k \in Nat
        /\ kupony[k].pierwsze \in Nat
    BY <1>1
  <2>2. CASE j = k
    BY <2>1, <2>2
  <2>3. CASE j < k
    BY <2>1, <2>3 DEF SoldInOrder
  <2> QED
    BY <2>1, <2>2, <2>3
<1>4. \A y \in V : y <= kupony[k].pierwsze
  BY <1>1, <1>3
<1>m. PICK m : m = Max(V)
  OBVIOUS
<1>5. m \in V /\ \A y \in V : m >= y
  <2>1. \E x \in V : \A y \in V : x >= y
    BY <1>2, <1>4
  <2> HIDE DEF V
  <2> QED
    BY <1>m, <2>1, Zenon DEF Max
<1>6. m = kupony[k].pierwsze
  <2> HIDE DEF V
  <2> QED
    BY <1>2, <1>4, <1>5
<1> QED
  BY <1>6, <1>m DEF ostatniPierwszy

\* The new coupon of a player is the last one, and its strategy allowed it.
LEMMA StrategiesAfterSale ==
  ASSUME IInv, StrategiesKept, NEW g \in Gracze, NEW z \in Seq(Bet),
         NEW n \in 1..MAXLICZBALOSOWAN, Sale(g, z, n)
  PROVE  StrategiesKept'
<1>1. Typed /\ SoldInOrder /\ sprzedajKupon(g, z, n)
  BY DEF IInv, Sale
<1>c. PICK c \in Nat : c = Len(kupony) /\ Kupon = 1..c
  BY <1>1, NumbersAre
<1>2. /\ Kupon' = Kupon \cup {Len(kupony) + 1}
      /\ \A k \in Kupon : kupony'[k] = kupony[k]
      /\ kupony'[Len(kupony) + 1] = [zaklady |-> z, pierwsze |-> nr, losowan |-> n, gracz |-> g]
  BY <1>1, AfterSale
<1>3. /\ Kupon' = 1..c+1 /\ kupony'[c + 1].pierwsze = nr /\ kupony'[c + 1].gracz = g
      /\ nr \in Nat
  BY <1>1, <1>2, <1>c, NumbersAre
<1>4. \A k \in Kupon : /\ ostatnieLosowanie(k)' = ostatnieLosowanie(k)
                       /\ ostatnieLosowanie(k) \in Nat /\ kupony[k].pierwsze \in Nat
  BY <1>1, <1>2, NumbersAre DEF ostatnieLosowanie
<1>5. \A h : Kupon_of(h)' = Kupon_of(h) \cup (IF h = g THEN {c + 1} ELSE {})
  BY <1>2, <1>3, <1>c DEF Kupon_of
<1> SUFFICES ASSUME NEW h \in Gracze, NEW k \in Kupon_of(h)', NEW l \in Kupon_of(h)', k < l
             PROVE  /\ Rodzaj[h] = "Staloliczbowy" =>
                         ostatnieLosowanie(k)' < kupony'[l].pierwsze
                    /\ Rodzaj[h] = "Staloblankietowy"
                         /\ (\A j \in Kupon_of(h)' : j <= k \/ j >= l)
                       => kupony'[l].pierwsze - kupony'[k].pierwsze = coIle
  BY DEF StrategiesKept
<1>6. k \in Kupon_of(h) /\ k \in Kupon /\ k \in Nat /\ k <= c
  <2>1. k \in Kupon_of(h)
    <3>1. k \in Kupon_of(h) \/ k = c + 1
      BY <1>5
    <3>2. l \in 1..c+1
      BY <1>3 DEF Kupon_of
    <3> QED
      BY <3>1, <3>2
  <2> QED
    BY <2>1, <1>c DEF Kupon_of
<1>7. CASE l \in Kupon_of(h)
  <2>1. l \in Kupon
    BY <1>7 DEF Kupon_of
  <2>2. Kupon_of(h) \subseteq Kupon_of(h)'
    BY <1>5
  <2> QED
    BY <1>2, <1>4, <1>6, <1>7, <2>1, <2>2 DEF StrategiesKept
<1>8. CASE l \notin Kupon_of(h)
  <2>1. h = g /\ l = c + 1
    BY <1>5, <1>8
  <2>2. kupony'[l].pierwsze = nr /\ kupony'[k] = kupony[k]
    BY <1>2, <1>3, <1>6, <2>1
  <2>3. ASSUME Rodzaj[h] = "Staloliczbowy" PROVE ostatnieLosowanie(k)' < kupony'[l].pierwsze
    <3>1. czyMozna(g) /\ Rodzaj[g] = "Staloliczbowy"
      BY <2>1, <2>3 DEF Sale
    <3>2. \A j \in Kupon_of(g) : Skonczony(j)
      BY <3>1 DEF czyMozna
    <3>3. ostatnieLosowanie(k) < nr
      BY <3>2, <1>6, <2>1 DEF Skonczony, nr
    <3> QED
      BY <1>4, <1>6, <2>2, <3>3
  <2>4. ASSUME Rodzaj[h] = "Staloblankietowy", \A j \in Kupon_of(h)' : j <= k \/ j >= l
        PROVE  kupony'[l].pierwsze - kupony'[k].pierwsze = coIle
    <3>1. czyMozna(g) /\ Rodzaj[g] = "Staloblankietowy"
      BY <2>1, <2>4 DEF Sale
    <3>2. nr - ostatniPierwszy(g) = coIle
      BY <3>1 DEF czyMozna, nr
    <3>3. \A j \in Kupon_of(g) : j <= k
      <4> SUFFICES ASSUME NEW j \in Kupon_of(g) PROVE j <= k
        OBVIOUS
      <4>0. j \in Kupon_of(h)'
        BY <1>5, <2>1
      <4>1. j <= c /\ j \in Nat
        BY <1>c DEF Kupon_of
      <4> QED
        BY <2>1, <2>4, <4>0, <4>1, <1>c
    <3>4. ostatniPierwszy(g) = kupony[k].pierwsze
      BY <1>1, <1>6, <2>1, <3>3, LastFirst
    <3> QED
      BY <2>2, <3>2, <3>4
  <2> QED
    BY <2>3, <2>4
<1> QED
  BY <1>7, <1>8

\* A fixed-number player is never in one draw twice, a fixed-slip player buys at
\* intervals of exactly coIle draws (StrategiesKept, czyMozna).
THEOREM PlayersKeepToTheirStrategies == Spec => []StrategiesKept
<1>1. Init => StrategiesKept
  BY DEF Init, StrategiesKept, Kupon_of, Kupon
<1>2. ASSUME IInv, StrategiesKept, [Next]_vars PROVE StrategiesKept'
  <2>0. Typed
    BY <1>2 DEF IInv
  <2>1. ASSUME kupony' = kupony PROVE StrategiesKept'
    BY <1>2, <2>1 DEF StrategiesKept, Kupon_of, Kupon, ostatnieLosowanie
  <2>2. CASE UNCHANGED vars
    BY <2>1, <2>2 DEF vars
  <2>3. CASE PrzeprowadzLosowanie
    BY <2>1, <2>3 DEF PrzeprowadzLosowanie
  <2>4. ASSUME NEW g \in Gracze, NEW ks, wyplac(g, ks) PROVE StrategiesKept'
    BY <2>1, <2>4 DEF wyplac
  <2>5. ASSUME NEW k, WykorzystajZaWczesnie(k) PROVE StrategiesKept'
    BY <2>1, <2>5 DEF WykorzystajZaWczesnie
  <2>6. ASSUME NEW g \in Gracze, NEW z \in Seq(Bet), NEW n \in 1..MAXLICZBALOSOWAN, Sale(g, z, n)
        PROVE  StrategiesKept'
    BY <1>2, <2>6, StrategiesAfterSale
  <2>7. CASE Next
    BY <2>0, <2>3, <2>4, <2>5, <2>6, <2>7, StepsAre
  <2> QED
    BY <1>2, <2>2, <2>7
<1> QED
  BY <1>1, <1>2, InductiveInvariant, PTL DEF Spec

\* The sum over two disjoint sets.
LEMMA TotalUnion ==
  ASSUME NEW D, NEW f \in [D -> Int], NEW A \in SUBSET D, NEW B \in SUBSET D,
         IsFiniteSet(A), IsFiniteSet(B), A \cap B = {}
  PROVE  Total(f, A \cup B) = Total(f, A) + Total(f, B)
<1> DEFINE G == {t \in SUBSET B : Total(f, A \cup t) = Total(f, A) + Total(f, t)}
<1>1. ASSUME NEW s \in SUBSET B, \A t \in SUBSET s : t # s => t \in G PROVE s \in G
  <2>0. Total(f, A) \in Int /\ Total(f, {}) = 0
    BY TotalTyped
  <2>1. CASE s = {}
    <3>1. A \cup s = A
      BY <2>1
    <3> QED
      BY <2>0, <2>1, <3>1
  <2>2. CASE s # {}
    <3>c. PICK c : c \in s
      BY <2>2
    <3>t. PICK t : t = s \ {c}
      OBVIOUS
    <3>1. t \in SUBSET s /\ t # s /\ c \in D /\ t \in SUBSET D /\ IsFiniteSet(t)
          /\ c \notin t /\ t \cup {c} = s
      BY <3>c, <3>t, FS_Subset
    <3>2. Total(f, A \cup t) = Total(f, A) + Total(f, t)
      BY <1>1, <3>1
    <3>u. PICK u : u = A \cup t
      OBVIOUS
    <3>3. u \in SUBSET D /\ IsFiniteSet(u) /\ c \notin u /\ u \cup {c} = A \cup s
      <4>1. IsFiniteSet(A \cup t)
        BY <3>1, FS_Union
      <4> QED
        BY <3>c, <3>1, <3>u, <4>1
    <3>4. Total(f, u \cup {c}) = Total(f, u) + f[c]
      BY <3>1, <3>3, TotalAdd
    <3>5. Total(f, t \cup {c}) = Total(f, t) + f[c]
      BY <3>1, TotalAdd
    <3>6. Total(f, t) \in Int /\ f[c] \in Int
      BY <3>1, TotalTyped
    <3>7. Total(f, A \cup s) = Total(f, A) + Total(f, t) + f[c]
      BY <3>2, <3>3, <3>4, <3>u
    <3>8. Total(f, s) = Total(f, t) + f[c]
      BY <3>1, <3>5
    <3> HIDE DEF G
    <3>9. Total(f, A \cup s) = Total(f, A) + Total(f, s)
      BY <2>0, <3>6, <3>7, <3>8
    <3> QED
      BY <3>9 DEF G
  <2> QED
    BY <2>1, <2>2
<1>2. SUBSET B \subseteq G
  <2> HIDE DEF G
  <2> QED
    BY <1>1, SubsetInduction
<1> QED
  BY <1>2

-----------------------------------------------------------------------------
\* What the bets of a coupon win, after tax.
Wins(k) == [w \in Wygrane(k) |-> Netto(kwota(k, w))]

\* For a coupon whose draws are over, Wartosc counts the same wins as wygranaKuponu.
LEMMA WorthIs ==
  ASSUME Typed, HeldInOrder, NEW k \in Kupon, Skonczony(k)
  PROVE  Wartosc(k) = SumOf(Wins(k)) /\ Wartosc(k) = Worth(k) /\ Wartosc(k) \in Int
<1>1. /\ IsFiniteSet(Wygrane(k))
      /\ \A w \in Wygrane(k) : /\ w[1] \in DOMAIN losowania /\ w[1] < nr
                               /\ w[2] \in DOMAIN kupony[k].zaklady
                               /\ kwota(k, w) \in Int
  BY WinsAre
<1>p. PICK S : S = {q \in (DOMAIN losowania) \X (DOMAIN kupony[k].zaklady) :
                      Bierze(q[1], k) /\ odbyte(losowania[q[1]])}
  OBVIOUS
<1>2. S = Wygrane(k)
  <2>1. ASSUME NEW w \in Wygrane(k) PROVE w \in S
    <3>1. w \in (kupony[k].pierwsze..ostatnieLosowanie(k)) \X (DOMAIN kupony[k].zaklady)
      BY DEF Wygrane
    <3>2. w = <<w[1], w[2]>> /\ w[1] \in kupony[k].pierwsze..ostatnieLosowanie(k)
      BY <3>1
    <3>3. Bierze(w[1], k)
      BY <3>2 DEF Bierze
    <3>4. odbyte(losowania[w[1]])
      BY <1>1 DEF HeldInOrder
    <3> QED
      BY <1>1, <1>p, <3>2, <3>3, <3>4
  <2>2. ASSUME NEW q \in S PROVE q \in Wygrane(k)
    BY <1>p DEF Bierze, Wygrane
  <2> QED
    BY <2>1, <2>2
<1>n. PICK N : N = Wins(k)
  OBVIOUS
<1>3. Wartosc(k) = SumOf(N)
  <2>1. Wartosc(k) = SumOf([p \in S |-> Netto(wygrana(losowania[p[1]], kupony[k].zaklady[p[2]]))])
    BY <1>p, Zenon DEF Wartosc
  <2> QED
    BY <2>1, <1>2, <1>n, Zenon DEF Wins, kwota
<1>f. PICK F : F = [w \in Wygrane(k) |-> kwota(k, w)]
  OBVIOUS
<1>t. PICK T : T = [w \in Wygrane(k) |->
           IF kwota(k, w) > WYSOKANAGRODA THEN (kwota(k, w) * 10) \div 100 ELSE 0]
  OBVIOUS
<1>4. wygranaKuponu(k) = SumOf(F) /\ podatekOdWygranych(k) = SumOf(T)
  BY <1>f, <1>t, Zenon DEF wygranaKuponu, podatekOdWygranych
<1>w. PICK W : W = Wygrane(k) /\ W \in SUBSET W
  OBVIOUS
<1>5. /\ F \in [W -> Int] /\ T \in [W -> Int] /\ N \in [W -> Int]
      /\ \A w \in W : F[w] = N[w] + T[w]
  <2>1. WYSOKANAGRODA \in Nat
    BY CenyAssumption
  <2>2. \A x \in Int : /\ Netto(x) \in Int
                       /\ (IF x > WYSOKANAGRODA THEN (x * 10) \div 100 ELSE 0) \in Int
                       /\ x = Netto(x)
                              + (IF x > WYSOKANAGRODA THEN (x * 10) \div 100 ELSE 0)
    BY <2>1 DEF Netto
  <2>3. F \in [W -> Int]
    BY <1>1, <1>f, <1>w
  <2>4. T \in [W -> Int]
    BY <1>1, <1>t, <1>w, <2>2
  <2>5. N \in [W -> Int]
    BY <1>1, <1>n, <1>w, <2>2 DEF Wins
  <2>6. ASSUME NEW w \in W PROVE F[w] = N[w] + T[w]
    <3>x. PICK x \in Int : x = kwota(k, w)
      BY <1>1, <1>w
    <3>1. F[w] = x /\ N[w] = Netto(x)
          /\ T[w] = IF x > WYSOKANAGRODA THEN (x * 10) \div 100 ELSE 0
      BY <1>f, <1>n, <1>t, <1>w, <3>x DEF Wins
    <3> QED
      BY <2>2, <3>1
  <2> QED
    BY <2>3, <2>4, <2>5, <2>6
<1>6. SumOf(F) = SumOf(N) + SumOf(T) /\ SumOf(N) \in Int /\ SumOf(T) \in Int
  <2>1. SumOf(F) = Total(F, W) /\ SumOf(N) = Total(N, W) /\ SumOf(T) = Total(T, W)
    BY <1>1, <1>5, <1>w, SumIs
  <2>2. Total(F, W) = Total(N, W) + Total(T, W)
    BY <1>1, <1>5, <1>w, TotalPlus
  <2>3. Total(N, W) \in Int /\ Total(T, W) \in Int
    BY <1>1, <1>5, <1>w, TotalTyped
  <2> QED
    BY <2>1, <2>2, <2>3
<1>7. Worth(k) = SumOf(F) - SumOf(T)
  BY <1>4 DEF Worth
<1> QED
  BY <1>3, <1>6, <1>7, <1>n

\* The same, for every coupon whose draws are over.
WorthKnown == \A k \in Kupon : Skonczony(k) => Wartosc(k) = SumOf(Wins(k))

\* The same as an implication from the inductive invariant.
LEMMA WorthIsKnown == IInv => WorthKnown
BY WorthIs DEF WorthKnown, IInv

\* Coupons stay sold, and as they are.
LEMMA CouponsStay ==
  ASSUME IInv, [Next]_vars
  PROVE  \A k \in Kupon : k \in Kupon' /\ kupony'[k] = kupony[k]
<1>0. Typed
  BY DEF IInv
<1>1. ASSUME NEW g \in Gracze, NEW z \in Seq(Bet), NEW n \in 1..MAXLICZBALOSOWAN, Sale(g, z, n)
      PROVE  \A k \in Kupon : k \in Kupon' /\ kupony'[k] = kupony[k]
  <2>1. sprzedajKupon(g, z, n)
    BY <1>1 DEF Sale
  <2>2. /\ Kupon' = Kupon \cup {Len(kupony) + 1}
        /\ \A k \in Kupon : kupony'[k] = kupony[k]
    BY <2>1, AfterSale
  <2> QED
    BY <2>2
<1>2. ASSUME kupony' = kupony PROVE \A k \in Kupon : k \in Kupon' /\ kupony'[k] = kupony[k]
  BY <1>2 DEF Kupon
<1>3. CASE PrzeprowadzLosowanie
  BY <1>2, <1>3 DEF PrzeprowadzLosowanie
<1>4. ASSUME NEW g, NEW ks, wyplac(g, ks) PROVE kupony' = kupony
  BY <1>4 DEF wyplac
<1>5. ASSUME NEW k, WykorzystajZaWczesnie(k) PROVE kupony' = kupony
  BY <1>5 DEF WykorzystajZaWczesnie
<1>6. CASE UNCHANGED vars
  BY <1>2, <1>6 DEF vars
<1>7. CASE Next
  BY <1>0, <1>1, <1>2, <1>3, <1>4, <1>5, <1>7, StepsAre
<1> QED
  BY <1>6, <1>7

\* The worth of a coupon, once known, stays as it is.
LEMMA WorthStays ==
  ASSUME IInv, [Next]_vars, IInv'
  PROVE  \A k \in Kupon : Skonczony(k) =>
           Wartosc(k)' = Wartosc(k) /\ Wartosc(k) \in Int /\ Wartosc(k) = Worth(k)
<1> SUFFICES ASSUME NEW k \in Kupon, Skonczony(k)
             PROVE  Wartosc(k)' = Wartosc(k) /\ Wartosc(k) \in Int /\ Wartosc(k) = Worth(k)
  OBVIOUS
<1>1. /\ Typed /\ HeldInOrder /\ Typed' /\ HeldInOrder' /\ k \in Kupon'
      /\ kupony'[k] = kupony[k]
  BY CouponsStay DEF IInv
<1>2. Wartosc(k) = SumOf(Wins(k)) /\ Wartosc(k) \in Int /\ Wartosc(k) = Worth(k)
  BY <1>1, WorthIs
<1>3. Skonczony(k)'
  <2>1. /\ ostatnieLosowanie(k)' = ostatnieLosowanie(k) /\ ostatnieLosowanie(k) < nr
        /\ ostatnieLosowanie(k) \in Nat
    BY <1>1, NumbersAre DEF ostatnieLosowanie, Skonczony, nr
  <2>2. nr' \in {nr, nr + 1} /\ nr \in Nat
    BY <1>1, HeldDrawsStay, NumbersAre
  <2>3. ostatnieLosowanie(k)' < nr'
    BY <2>1, <2>2
  <2> QED
    BY <2>3 DEF Skonczony, nr
<1>4. Wartosc(k)' = SumOf(Wins(k))'
  <2>1. WorthKnown'
    BY WorthIsKnown, PTL
  <2> QED
    BY <1>1, <1>3, <2>1 DEF WorthKnown
<1>5. Wins(k)' = Wins(k)
  <2>1. Wygrane(k)' = Wygrane(k)
    BY <1>1 DEF Wygrane, ostatnieLosowanie
  <2>2. ASSUME NEW w \in Wygrane(k) PROVE kwota(k, w)' = kwota(k, w)
    <3>1. w[1] \in DOMAIN losowania /\ w[1] < nr
      BY <1>1, WinsAre
    <3>2. losowania'[w[1]] = losowania[w[1]]
      BY <3>1, HeldDrawsStay
    <3> QED
      BY <1>1, <3>2 DEF kwota
  <2> QED
    BY <2>1, <2>2 DEF Wins
<1> QED
  BY <1>2, <1>4, <1>5

\* The coupons a player has cashed, and its account.
Cashed(g) == {k \in Kupon_of(g) : ~zakupioneKupony[k]}
Costs(g) == [k \in Kupon_of(g) |-> Cena(k)]
Worths(g) == [k \in Cashed(g) |-> Wartosc(k)]
Account(g) == srodki[g] = Srodki[g] - SumOf(Costs(g)) + SumOf(Worths(g))

\* The sums of an account are numbers.
LEMMA AccountsAre ==
  ASSUME IInv, NEW g \in Gracze
  PROVE  /\ IsFiniteSet(Kupon_of(g)) /\ IsFiniteSet(Cashed(g))
         /\ Costs(g) \in [Kupon_of(g) -> Int] /\ Worths(g) \in [Cashed(g) -> Int]
         /\ SumOf(Costs(g)) \in Int /\ SumOf(Worths(g)) \in Int
         /\ srodki[g] \in Int /\ Srodki[g] \in Int
<1>1. Typed /\ PaidWhenOver /\ HeldInOrder
  BY DEF IInv
<1>2. /\ IsFiniteSet(Kupon) /\ Kupon_of(g) \in SUBSET Kupon /\ Cashed(g) \in SUBSET Kupon
      /\ \A k \in Kupon : Cena(k) \in Nat
  BY <1>1, PrizeMoneyIs DEF Kupon_of, Cashed
<1>3. IsFiniteSet(Kupon_of(g)) /\ IsFiniteSet(Cashed(g))
  BY <1>2, FS_Subset
<1>4. Costs(g) \in [Kupon_of(g) -> Int]
  BY <1>2 DEF Costs
<1>5. ASSUME NEW k \in Cashed(g) PROVE Wartosc(k) \in Int
  <2>1. k \in Kupon /\ Skonczony(k)
    BY <1>1, <1>2 DEF Cashed, PaidWhenOver
  <2> QED
    BY <1>1, <2>1, WorthIs
<1>6. Worths(g) \in [Cashed(g) -> Int]
  BY <1>5 DEF Worths
<1>7. Kupon_of(g) \in SUBSET Kupon_of(g) /\ Cashed(g) \in SUBSET Cashed(g)
  OBVIOUS
<1>8. SumOf(Costs(g)) = Total(Costs(g), Kupon_of(g)) /\ Total(Costs(g), Kupon_of(g)) \in Int
  BY <1>3, <1>4, <1>7, SumIs, TotalTyped
<1>9. SumOf(Worths(g)) = Total(Worths(g), Cashed(g)) /\ Total(Worths(g), Cashed(g)) \in Int
  BY <1>3, <1>6, <1>7, SumIs, TotalTyped
<1> QED
  BY <1>1, <1>3, <1>4, <1>6, <1>8, <1>9, GraczeAssumption DEF Typed

\* The worths of the coupons cashed before a step stay as they are.
LEMMA CashedStays ==
  ASSUME IInv, [Next]_vars, NEW k \in Kupon, ~zakupioneKupony[k]
  PROVE  Wartosc(k)' = Wartosc(k)
<1>1. Skonczony(k)
  BY DEF IInv, PaidWhenOver
<1> QED
  BY <1>1, NextIInv, WorthStays

\* A player whose coupons stay as they are.
LEMMA AccountStays ==
  ASSUME IInv, [Next]_vars, NEW g \in Gracze, Account(g), srodki'[g] = srodki[g],
         Kupon_of(g)' = Kupon_of(g),
         \A k \in Kupon_of(g) : zakupioneKupony'[k] <=> zakupioneKupony[k]
  PROVE  Account(g)'
<1>1. \A k \in Kupon_of(g) : k \in Kupon /\ kupony'[k] = kupony[k]
  BY CouponsStay DEF Kupon_of
<1>2. Costs(g)' = Costs(g)
  BY <1>1 DEF Costs, Cena
<1>3. Cashed(g)' = Cashed(g)
  BY DEF Cashed
<1>4. \A k \in Cashed(g) : Wartosc(k)' = Wartosc(k)
  BY <1>1, CashedStays DEF Cashed
<1>5. Worths(g)' = Worths(g)
  BY <1>3, <1>4 DEF Worths
<1> QED
  BY <1>2, <1>5 DEF Account

\* The accounts are right after a sale,
LEMMA AccountsAfterSale ==
  ASSUME IInv, NEW g \in Gracze, NEW z \in Seq(Bet), NEW n \in 1..MAXLICZBALOSOWAN, Sale(g, z, n),
         [Next]_vars, NEW h \in Gracze, Account(h)
  PROVE  Account(h)'
<1>1. Typed /\ sprzedajKupon(g, z, n) /\ n \in Nat /\ srodki \in [Gracze -> Int]
  BY LimitsAre DEF IInv, Sale, Typed
<1>x. PICK x : x = Len(kupony) + 1
  OBVIOUS
<1>2. /\ Kupon' = Kupon \cup {x} /\ x \notin Kupon
      /\ \A k \in Kupon : /\ kupony'[k] = kupony[k] /\ zakupioneKupony'[k] = zakupioneKupony[k]
      /\ kupony'[x] = [zaklady |-> z, pierwsze |-> nr, losowan |-> n, gracz |-> g]
      /\ zakupioneKupony'[x] = TRUE
  BY <1>1, <1>x, AfterSale
<1>a. PICK a \in Nat : a = cena(z, n)
  BY <1>1, PricesAre
<1>3. srodki' = [srodki EXCEPT ![g] = srodki[g] - a]
  BY <1>1, <1>a, Zenon DEF sprzedajKupon
<1>4. Kupon_of(h)' = Kupon_of(h) \cup (IF h = g THEN {x} ELSE {})
  BY <1>2 DEF Kupon_of
<1>5. CASE h # g
  <2>1. srodki'[h] = srodki[h] /\ Kupon_of(h)' = Kupon_of(h)
    BY <1>1, <1>3, <1>4, <1>5
  <2>2. \A k \in Kupon_of(h) : zakupioneKupony'[k] <=> zakupioneKupony[k]
    BY <1>2 DEF Kupon_of
  <2> QED
    BY <2>1, <2>2, AccountStays
<1>6. CASE h = g
  <2>0. IInv'
    BY NextIInv
  <2>1. Kupon_of(g)' = Kupon_of(g) \cup {x} /\ x \notin Kupon_of(g)
    BY <1>2, <1>4, <1>6 DEF Kupon_of
  <2>2. /\ IsFiniteSet(Kupon_of(g)) /\ Costs(g) \in [Kupon_of(g) -> Int]
        /\ SumOf(Costs(g)) \in Int /\ SumOf(Worths(g)) \in Int
        /\ srodki[g] \in Int /\ Srodki[g] \in Int
    BY AccountsAre
  <2>3. \A k \in Kupon_of(g) : Costs(g)'[k] = Costs(g)[k]
    BY <1>2, <2>1 DEF Costs, Cena, Kupon_of
  <2>4. Costs(g)'[x] = a
    BY <1>2, <2>1, <1>a DEF Costs, Cena
  <2>5. SumOf(Costs(g))' = SumOf(Costs(g)) + a
    <3>p. PICK p, q, S, U : /\ p = Costs(g)' /\ q = Costs(g) /\ S = Kupon_of(g)
                            /\ U = Kupon_of(g)'
      OBVIOUS
    <3>1. p = [k \in U |-> p[k]]
      BY <3>p DEF Costs
    <3>2. p \in [U -> Int]
      BY <3>1, <2>1, <2>2, <2>3, <2>4, <3>p
    <3>3. OneMore(q, S, p, U, x)
      BY <2>1, <2>2, <2>3, <3>2, <3>p DEF OneMore
    <3>4. SumOf(p) = SumOf(q) + p[x]
      BY <3>3, SumGrows
    <3> QED
      BY <2>4, <3>4, <3>p
  <2>6. Cashed(g)' = Cashed(g)
    BY <1>2, <2>1 DEF Cashed, Kupon_of
  <2>7. \A k \in Cashed(g) : Wartosc(k)' = Wartosc(k)
    BY CashedStays DEF Cashed, Kupon_of
  <2>8. Worths(g)' = Worths(g)
    BY <2>6, <2>7 DEF Worths
  <2>9. SumOf(Worths(g))' = SumOf(Worths(g))
    BY <2>8
  <2>10. srodki'[g] = srodki[g] - a
    BY <1>1, <1>3
  <2>11. srodki[g] = Srodki[g] - SumOf(Costs(g)) + SumOf(Worths(g))
    BY <1>6 DEF Account
  <2>12. srodki'[g] = Srodki[g] - SumOf(Costs(g))' + SumOf(Worths(g))'
    BY <2>2, <2>5, <2>9, <2>10, <2>11
  <2> QED
    BY <1>6, <2>12 DEF Account
<1> QED
  BY <1>5, <1>6

\* and after a payment.
LEMMA AccountsAfterPayment ==
  ASSUME IInv, NEW g \in Gracze, NEW ks \in SUBSET Due(g), wyplac(g, ks),
         [Next]_vars, NEW h \in Gracze, Account(h)
  PROVE  Account(h)'
<1>1. Typed /\ budzetCentrali >= 0
  BY DEF IInv
<1>2. /\ IsFiniteSet(ks) /\ ks \in SUBSET Kupon
      /\ \A k \in ks : Priced(k) /\ Skonczony(k) /\ Wazny(k) /\ kupony[k].gracz = g
  BY <1>1, DueAre
<1>3. /\ Kupon' = Kupon /\ kupony' = kupony
      /\ \A k \in Kupon : zakupioneKupony'[k] <=> k \notin ks /\ zakupioneKupony[k]
  BY AfterPayment
<1>4. ASSUME NEW k \in Kupon, Skonczony(k)
      PROVE  Wartosc(k)' = Wartosc(k) /\ Wartosc(k) \in Int /\ Wartosc(k) = Worth(k)
  BY <1>4, NextIInv, WorthStays
<1>w. PICK W \in [ks -> Int] : W = [k \in ks |-> Wartosc(k)]
  BY <1>2, <1>4
<1>5. \A k \in ks : W[k] = Worth(k)
  BY <1>2, <1>4, <1>w
<1>6. /\ srodki'[g] = srodki[g] + Total(W, ks)
      /\ \A j \in Gracze : j # g => srodki'[j] = srodki[j]
  BY <1>1, <1>5, MoneyAfterPayment
<1>7. Kupon_of(h)' = Kupon_of(h)
  BY <1>3 DEF Kupon_of
<1>8. CASE h # g
  <2>1. \A k \in Kupon_of(h) : zakupioneKupony'[k] <=> zakupioneKupony[k]
    BY <1>2, <1>3, <1>8 DEF Kupon_of
  <2> QED
    BY <1>6, <1>7, <1>8, <2>1, AccountStays
<1>9. CASE h = g
  <2>1. /\ IsFiniteSet(Cashed(g)) /\ Worths(g) \in [Cashed(g) -> Int]
        /\ SumOf(Costs(g)) \in Int /\ SumOf(Worths(g)) \in Int
        /\ srodki[g] \in Int /\ Srodki[g] \in Int
    BY AccountsAre
  <2>2. Costs(g)' = Costs(g)
    BY <1>3, <1>7, <1>9 DEF Costs, Cena
  <2>3. SumOf(Costs(g))' = SumOf(Costs(g))
    BY <2>2
  <2>4. Cashed(g)' = Cashed(g) \cup ks /\ Cashed(g) \cap ks = {}
    <3>1. \A k \in ks : k \in Kupon_of(g) /\ zakupioneKupony[k]
      BY <1>2 DEF Kupon_of, Wazny
    <3> QED
      BY <1>3, <1>7, <1>9, <3>1 DEF Cashed, Kupon_of
  <2>A. PICK A, U : A = Cashed(g) /\ U = A \cup ks
    OBVIOUS
  <2>p. PICK p, q : p = Worths(g)' /\ q = Worths(g)
    OBVIOUS
  <2>5. /\ DOMAIN p = U /\ p = [k \in U |-> p[k]]
        /\ \A k \in A : p[k] = q[k] /\ p[k] \in Int
        /\ \A k \in ks : p[k] = W[k] /\ p[k] \in Int
    <3>1. p = [k \in U |-> Wartosc(k)']
      BY <2>4, <2>A, <2>p DEF Worths
    <3>2. \A k \in A : Wartosc(k)' = Wartosc(k)
      BY <2>A, CashedStays DEF Cashed, Kupon_of
    <3>3. \A k \in A : p[k] = q[k] /\ p[k] \in Int
      BY <3>1, <3>2, <2>1, <2>A, <2>p DEF Worths
    <3>4. \A k \in ks : p[k] = W[k] /\ p[k] \in Int
      BY <3>1, <1>2, <1>4, <1>w, <2>A
    <3> QED
      BY <3>1, <3>3, <3>4
  <2>6. p \in [U -> Int] /\ IsFiniteSet(U) /\ A \in SUBSET U /\ ks \in SUBSET U
        /\ IsFiniteSet(A) /\ A \cap ks = {} /\ q \in [A -> Int]
    <3>1. IsFiniteSet(A \cup ks)
      BY <1>2, <2>1, <2>A, FS_Union
    <3>2. \A k \in U : p[k] \in Int
      BY <2>5, <2>A
    <3> QED
      BY <2>1, <2>4, <2>5, <2>A, <2>p, <3>1, <3>2
  <2>7. SumOf(p) = Total(p, U) /\ SumOf(q) = Total(q, A)
    BY <2>6, SumIs
  <2>8. Total(p, A \cup ks) = Total(p, A) + Total(p, ks)
    BY <1>2, <2>6, TotalUnion
  <2>9. Total(p, A) = Total(q, A)
    <3>1. A \subseteq U /\ A \subseteq A
      BY <2>6
    <3> QED
      BY <2>5, <2>6, <3>1, TotalSame
  <2>10. Total(p, ks) = Total(W, ks)
    <3>1. ks \subseteq U /\ ks \subseteq ks
      BY <2>6
    <3> QED
      BY <1>2, <2>5, <2>6, <3>1, TotalSame
  <2>11. Total(W, ks) \in Int
    BY <1>2, TotalTyped, ks \in SUBSET ks
  <2>12. SumOf(Worths(g))' = SumOf(Worths(g)) + Total(W, ks)
    <3>1. SumOf(p) = SumOf(q) + Total(W, ks)
      BY <2>7, <2>8, <2>9, <2>10, <2>A
    <3> QED
      BY <3>1, <2>p
  <2>13. srodki[g] = Srodki[g] - SumOf(Costs(g)) + SumOf(Worths(g))
    BY <1>9 DEF Account
  <2>14. srodki'[g] = Srodki[g] - SumOf(Costs(g))' + SumOf(Worths(g))'
    BY <1>6, <2>1, <2>3, <2>11, <2>12, <2>13
  <2> QED
    BY <1>9, <2>14 DEF Account
<1> QED
  BY <1>8, <1>9

\* Every player has what is left of its money after the purchases and the worth of each
\* coupon it has cashed, once (PaidOnceInFull): no later draw or payment changes it.
THEOREM PlayersArePaidOnceInFull == Spec => []PaidOnceInFull
<1>1. Init => \A g \in Gracze : Account(g)
  <2> SUFFICES ASSUME Init, NEW g \in Gracze PROVE Account(g)
    OBVIOUS
  <2>1. Kupon_of(g) = {} /\ Cashed(g) = {} /\ srodki = Srodki
    BY DEF Init, Kupon_of, Kupon, Cashed
  <2>2. IInv
    BY InitIInv
  <2>3. /\ Costs(g) \in [{} -> Int] /\ Worths(g) \in [{} -> Int] /\ Srodki[g] \in Int
    BY <2>1, <2>2, AccountsAre
  <2>4. IsFiniteSet({}) /\ {} \in SUBSET {}
    BY FS_EmptySet
  <2>5. SumOf(Costs(g)) = 0
    BY <2>3, <2>4, SumIs, TotalTyped
  <2>6. SumOf(Worths(g)) = 0
    BY <2>3, <2>4, SumIs, TotalTyped
  <2> QED
    BY <2>1, <2>3, <2>5, <2>6 DEF Account
<1>2. ASSUME IInv, \A g \in Gracze : Account(g), [Next]_vars
      PROVE  \A g \in Gracze : Account(g)'
  <2> SUFFICES ASSUME NEW h \in Gracze PROVE Account(h)'
    OBVIOUS
  <2>0. Typed /\ Account(h)
    BY <1>2 DEF IInv
  <2>1. ASSUME UNCHANGED <<kupony, zakupioneKupony, srodki>> PROVE Account(h)'
    <3>1. srodki'[h] = srodki[h] /\ Kupon_of(h)' = Kupon_of(h)
          /\ \A k \in Kupon_of(h) : zakupioneKupony'[k] <=> zakupioneKupony[k]
      BY <2>1 DEF Kupon_of, Kupon
    <3> QED
      BY <1>2, <2>0, <3>1, AccountStays
  <2>2. CASE UNCHANGED vars
    BY <2>1, <2>2 DEF vars
  <2>3. CASE PrzeprowadzLosowanie
    BY <2>1, <2>3 DEF PrzeprowadzLosowanie
  <2>4. ASSUME NEW k, WykorzystajZaWczesnie(k) PROVE Account(h)'
    BY <2>1, <2>4 DEF WykorzystajZaWczesnie
  <2>5. ASSUME NEW g \in Gracze, NEW z \in Seq(Bet), NEW n \in 1..MAXLICZBALOSOWAN, Sale(g, z, n)
        PROVE  Account(h)'
    BY <1>2, <2>0, <2>5, AccountsAfterSale
  <2>6. ASSUME NEW g \in Gracze, NEW ks \in SUBSET Due(g), wyplac(g, ks) PROVE Account(h)'
    BY <1>2, <2>0, <2>6, AccountsAfterPayment
  <2>7. CASE Next
    BY <2>0, <2>3, <2>4, <2>5, <2>6, <2>7, StepsAre
  <2> QED
    BY <1>2, <2>2, <2>7
<1> DEFINE Accounts == \A g \in Gracze : Account(g)
<1>3. Accounts => PaidOnceInFull
  BY DEF Account, Costs, Worths, Cashed, PaidOnceInFull
<1>4. Init => Accounts
  BY <1>1
<1>5. IInv /\ Accounts /\ [Next]_vars => Accounts'
  BY <1>2
<1> HIDE DEF Accounts
<1> QED
  BY <1>3, <1>4, <1>5, InductiveInvariant, PTL DEF Spec

\* The bets of a draw are counted in one tier each.
LEMMA WinnersAddUp ==
  ASSUME NEW l \in Draw, NEW szostka \in Szostki
  PROVE  SumOf(Winners(l, szostka)) = Len(l.zaklady)
<1>n. PICK n \in Nat : n = Len(l.zaklady) /\ DOMAIN l.zaklady = 1..n
  <2>1. l.zaklady \in Seq(Bet)
    BY DEF Draw
  <2> QED
    BY <2>1, LenProperties
<1>w. PICK w : w = Winners(l, szostka)
  OBVIOUS
<1>1. w \in [Stopnie -> Int] /\ IsFiniteSet(Stopnie)
  <2>1. \A s : Cardinality(Hits(l, szostka, s)) \in Nat
    BY HitsAre
  <2>2. w \in [Stopnie -> Int]
    BY <2>1, <1>w DEF Winners
  <2>3. IsFiniteSet(Stopnie)
    <3>1. IsFiniteSet(0..4)
      BY FS_Interval, 0 \in Int, 4 \in Int
    <3> QED
      BY <3>1 DEF Stopnie
  <2> QED
    BY <2>2, <2>3
<1> DEFINE In(t) == {i \in 1..n : stopienWygranej(l.zaklady[i], szostka) \in t}
<1> DEFINE G == {t \in SUBSET Stopnie : Total(w, t) = Cardinality(In(t))}
<1>2. \A t : IsFiniteSet(In(t)) /\ Cardinality(In(t)) \in Nat
  <2> SUFFICES ASSUME NEW t PROVE IsFiniteSet(In(t)) /\ Cardinality(In(t)) \in Nat
    OBVIOUS
  <2>1. In(t) \in SUBSET (1..n) /\ IsFiniteSet(1..n)
    BY FS_Interval
  <2> QED
    BY <2>1, FS_Subset, FS_CardinalityType
<1>3. ASSUME NEW s \in SUBSET Stopnie, \A t \in SUBSET s : t # s => t \in G PROVE s \in G
  <2>1. CASE s = {}
    <3>1. Total(w, {}) = 0
      BY <1>1, TotalTyped, Stopnie \in SUBSET Stopnie
    <3>2. Cardinality(In({})) = 0
      <4>1. In({}) = {}
        OBVIOUS
      <4> QED
        BY <4>1, FS_EmptySet
    <3> QED
      BY <2>1, <3>1, <3>2
  <2>2. CASE s # {}
    <3>c. PICK c : c \in s
      BY <2>2
    <3>t. PICK t : t = s \ {c}
      OBVIOUS
    <3>1. t \in SUBSET s /\ t # s /\ c \in Stopnie /\ t \in SUBSET Stopnie
      BY <3>c, <3>t
    <3>2. Total(w, t) = Cardinality(In(t))
      BY <1>3, <3>1
    <3>h. PICK H : H = Hits(l, szostka, c)
      OBVIOUS
    <3>p. PICK P : P = In(t)
      OBVIOUS
    <3>3. In(s) = P \cup H /\ P \cap H = {}
      BY <1>n, <3>c, <3>t, <3>h, <3>p DEF Hits
    <3>4. IsFiniteSet(P) /\ IsFiniteSet(H) /\ Cardinality(P) \in Nat /\ Cardinality(H) \in Nat
      BY <1>2, <3>h, <3>p, HitsAre
    <3>5. Cardinality(P \cup H) = Cardinality(P) + Cardinality(H) - Cardinality(P \cap H)
      BY <3>4, FS_Union
    <3>6. Cardinality(P \cap H) = 0
      BY <3>3, FS_EmptySet
    <3>7. w[c] = Cardinality(H)
      BY <1>w, <3>1, <3>h DEF Winners
    <3>8. Total(w, s) = w[c] + Total(w, t)
      <4>1. IsFiniteSet(s)
        BY <1>1, FS_Subset
      <4> QED
        BY <1>1, <3>c, <3>t, <4>1, TotalRemove
    <3>9. Total(w, s) = Cardinality(In(s))
      <4> HIDE DEF In
      <4> QED
        BY <3>2, <3>3, <3>4, <3>5, <3>6, <3>7, <3>8, <3>p
    <3> QED
      BY <3>9
  <2> QED
    BY <2>1, <2>2
<1>4. SUBSET Stopnie \subseteq G
  <2> HIDE DEF G
  <2> QED
    BY <1>1, <1>3, SubsetInduction
<1>5. In(Stopnie) = 1..n
  <2>1. \A i \in 1..n : stopienWygranej(l.zaklady[i], szostka) \in Stopnie
    BY TierIs
  <2> QED
    BY <2>1
<1>6. Cardinality(1..n) = n
  BY FS_Interval
<1>7. Total(w, Stopnie) = n
  <2>1. Total(w, Stopnie) = Cardinality(In(Stopnie))
    BY <1>4
  <2> QED
    BY <2>1, <1>5, <1>6
<1>8. SumOf(w) = Total(w, Stopnie)
  BY <1>1, SumIs
<1> QED
  BY <1>7, <1>8, <1>n, <1>w

-----------------------------------------------------------------------------
\* The recursion of the jackpot, one draw at a time.
NextJackpot(i, v) ==
  IF odbyte(losowania[i - 1]) /\ losowania[i - 1].liczbaWygranych[1] = 0
  THEN v + (losowania[i - 1].pulaNagrod * 44) \div 100
  ELSE 0

JackpotRecurs ==
  \A i \in Nat : Jackpot[i] = IF i <= 1 THEN 0 ELSE NextJackpot(i, Jackpot[i - 1])

\* The recursive function Jackpot exists, so its equation holds.
LEMMA JackpotIs == JackpotRecurs
<1> DEFINE Eq(h, i) == h[i] = IF i <= 1 THEN 0 ELSE NextJackpot(i, h[i - 1])
<1> DEFINE Good(n) == \E h : DOMAIN h = 0..n /\ \A i \in 0..n : Eq(h, i)
<1> DEFINE G == {n \in Nat : Good(n)}
<1>1. 0 \in G
  <2> DEFINE h == [i \in 0..0 |-> 0]
  <2>1. DOMAIN h = 0..0 /\ \A i \in 0..0 : Eq(h, i)
    OBVIOUS
  <2> QED
    BY <2>1
<1>2. ASSUME NEW n \in Nat, n \in G PROVE n + 1 \in G
  <2>0. Good(n)
    <3> HIDE DEF Good
    <3> QED
      BY <1>2
  <2>1. PICK h : DOMAIN h = 0..n /\ \A i \in 0..n : Eq(h, i)
    <3> HIDE DEF Eq
    <3> QED
      BY <2>0
  <2> DEFINE g == [i \in 0..n+1 |-> IF i <= n THEN h[i]
                                    ELSE IF i <= 1 THEN 0 ELSE NextJackpot(i, h[i - 1])]
  <2>2. ASSUME NEW i \in 0..n+1 PROVE Eq(g, i)
    <3>1. CASE i <= n
      <4>1. i \in 0..n /\ g[i] = h[i]
        BY <3>1
      <4>2. i <= 1 \/ (i - 1 \in 0..n+1 /\ i - 1 <= n)
        BY <3>1
      <4>3. i <= 1 \/ g[i - 1] = h[i - 1]
        BY <4>2
      <4> HIDE DEF g
      <4> QED
        BY <2>1, <4>1, <4>3
    <3>2. CASE ~(i <= n)
      <4>1. g[i] = IF i <= 1 THEN 0 ELSE NextJackpot(i, h[i - 1])
        BY <3>2
      <4>2. i <= 1 \/ (i - 1 \in 0..n+1 /\ i - 1 <= n)
        BY <3>2
      <4>3. i <= 1 \/ g[i - 1] = h[i - 1]
        BY <4>2
      <4> HIDE DEF g
      <4> QED
        BY <4>1, <4>3
    <3> QED
      BY <3>1, <3>2
  <2>3. DOMAIN g = 0..n+1
    OBVIOUS
  <2>4. Good(n + 1)
    <3> HIDE DEF g, Eq
    <3> QED
      BY <2>2, <2>3
  <2> HIDE DEF Good
  <2> QED
    BY <2>4
<1>3. Nat \subseteq G
  <2> HIDE DEF G
  <2> QED
    BY <1>1, <1>2, SetInduction
<1>4. ASSUME NEW n \in Nat, NEW f, NEW h, \A i \in 0..n : Eq(f, i), \A i \in 0..n : Eq(h, i)
      PROVE  f[n] = h[n]
  <2> DEFINE M == {i \in Nat : i <= n => f[i] = h[i]}
  <2>1. 0 \in M
    <3>1. Eq(f, 0) /\ Eq(h, 0)
      <4> HIDE DEF Eq
      <4> QED
        BY <1>4
    <3> QED
      BY <3>1
  <2>2. ASSUME NEW i \in Nat, i \in M PROVE i + 1 \in M
    <3> SUFFICES ASSUME i + 1 <= n PROVE f[i + 1] = h[i + 1]
      OBVIOUS
    <3>1. f[i] = h[i] /\ (i + 1) - 1 = i
      BY <2>2
    <3>2. Eq(f, i + 1) /\ Eq(h, i + 1)
      <4>1. i + 1 \in 0..n
        OBVIOUS
      <4> HIDE DEF Eq
      <4> QED
        BY <1>4, <4>1
    <3> QED
      BY <3>1, <3>2
  <2>3. Nat \subseteq M
    <3> HIDE DEF M
    <3> QED
      BY <2>1, <2>2, SetInduction
  <2> QED
    BY <2>3
<1>p. PICK pick : pick = [n \in Nat |-> CHOOSE h : DOMAIN h = 0..n /\ \A i \in 0..n : Eq(h, i)]
  OBVIOUS
<1>5. ASSUME NEW n \in Nat PROVE \A i \in 0..n : Eq(pick[n], i)
  <2>1. Good(n)
    <3> HIDE DEF Good
    <3> QED
      BY <1>3
  <2> HIDE DEF Eq
  <2> QED
    BY <2>1, <1>p
<1>j. PICK J : J = [n \in Nat |-> pick[n][n]]
  OBVIOUS
<1>6. ASSUME NEW n \in Nat PROVE Eq(J, n)
  <2>1. CASE n <= 1
    <3>1. Eq(pick[n], n)
      <4> HIDE DEF Eq
      <4> QED
        BY <1>5
    <3> QED
      BY <2>1, <3>1, <1>j
  <2>2. CASE ~(n <= 1)
    <3>1. n - 1 \in Nat /\ n \in 0..n /\ (0..n-1) \subseteq 0..n
      BY <2>2
    <3>2. pick[n - 1][n - 1] = pick[n][n - 1]
      <4>1. \A i \in 0..n-1 : Eq(pick[n], i)
        <5> HIDE DEF Eq
        <5> QED
          BY <1>5, <3>1
      <4>2. \A i \in 0..n-1 : Eq(pick[n - 1], i)
        <5> HIDE DEF Eq
        <5> QED
          BY <1>5, <3>1
      <4> HIDE DEF Eq
      <4> QED
        BY <1>4, <3>1, <4>1, <4>2
    <3>3. Eq(pick[n], n)
      <4> HIDE DEF Eq
      <4> QED
        BY <1>5, <3>1
    <3>4. J[n] = pick[n][n] /\ J[n - 1] = pick[n][n - 1]
      BY <1>j, <3>1, <3>2
    <3> QED
      BY <2>2, <3>3, <3>4
  <2> QED
    BY <2>1, <2>2
<1> DEFINE Body(h) == [i \in Nat |->
                        IF i <= 1 THEN 0
                        ELSE LET l == losowania[i - 1]
                             IN  IF odbyte(l) /\ l.liczbaWygranych[1] = 0
                                 THEN h[i - 1] + (l.pulaNagrod * 44) \div 100
                                 ELSE 0]
<1>7. J = Body(J)
  <2>1. \A i \in Nat : J[i] = Body(J)[i]
    BY <1>6 DEF NextJackpot
  <2>2. J = [i \in Nat |-> J[i]]
    BY <1>j
  <2> QED
    BY <2>1, <2>2
<1>8. Jackpot = Body(Jackpot)
  <2>1. Jackpot = CHOOSE h : h = Body(h)
    BY Zenon DEF Jackpot
  <2> HIDE DEF Body
  <2> QED
    BY <1>7, <2>1, Zenon
<1> QED
  BY <1>8 DEF NextJackpot, JackpotRecurs

\* What the coupons pay into draw i, and the bets they enter there.
Shares(i) == [k \in Kupon |-> Udzial(i, k)]
Stakes(i) == [k \in Kupon |-> Stawki(i, k)]
Carried(i) == IF i > 1 /\ odbyte(losowania[i - 1]) THEN przeniesione(losowania[i - 1]) ELSE 0

\* The four parts of PoolsAddUp, for one draw.
PoolIs(i) == losowania[i].pulaNagrod = SumOf(Shares(i)) + Carried(i)
EntriesAre(i) == Len(losowania[i].zaklady) = SumOf(Stakes(i))
TiersAre(i) == odbyte(losowania[i]) =>
                 SumOf(losowania[i].liczbaWygranych) = Len(losowania[i].zaklady)
FirstPoolIs(i) == ~odbyte(losowania[i]) => losowania[i].pulaStopnia[1] = Jackpot[i]
Sound(i) == PoolIs(i) /\ EntriesAre(i) /\ TiersAre(i) /\ FirstPoolIs(i)

\* Shares and stakes are numbers, and so are their sums.
LEMMA SharesAre ==
  ASSUME Typed, NEW i \in Nat
  PROVE  /\ Shares(i) \in [Kupon -> Int] /\ Stakes(i) \in [Kupon -> Int] /\ IsFiniteSet(Kupon)
         /\ SumOf(Shares(i)) \in Int /\ SumOf(Stakes(i)) \in Int
<1>1. IsFiniteSet(Kupon) /\ \A k \in Kupon : Nagrody(k) \in Nat
  BY PrizeMoneyIs
<1>2. ASSUME NEW k \in Kupon PROVE Udzial(i, k) \in Int /\ Stawki(i, k) \in Int
  <2>1. /\ kupony[k].losowan \in Nat \ {0} /\ kupony[k].zaklady \in Seq(Bet)
    BY NumbersAre, LimitsAre
  <2>2. Len(kupony[k].zaklady) \in Nat
    BY <2>1, LenProperties
  <2>3. Nagrody(k) \in Nat
    BY <1>1
  <2>q. PICK q \in Nat : q = Nagrody(k)
    BY <2>3
  <2>4. q \div kupony[k].losowan \in Int
    BY <2>1
  <2> QED
    BY <2>2, <2>4, <2>q DEF Udzial, Stawki
<1>3. Shares(i) \in [Kupon -> Int] /\ Stakes(i) \in [Kupon -> Int]
  BY <1>2 DEF Shares, Stakes
<1>4. Kupon \in SUBSET Kupon
  OBVIOUS
<1>5. SumOf(Shares(i)) = Total(Shares(i), Kupon) /\ SumOf(Stakes(i)) = Total(Stakes(i), Kupon)
  BY <1>1, <1>3, SumIs
<1>6. Total(Shares(i), Kupon) \in Int /\ Total(Stakes(i), Kupon) \in Int
  BY <1>1, <1>3, <1>4, TotalTyped
<1> QED
  BY <1>1, <1>3, <1>5, <1>6

\* Nobody has entered a draw that is not open for sale yet.
LEMMA NothingBeyond ==
  ASSUME Typed, SoldInOrder, NEW i \in Nat, i > Len(losowania)
  PROVE  SumOf(Shares(i)) = 0 /\ SumOf(Stakes(i)) = 0
<1>1. /\ Shares(i) \in [Kupon -> Int] /\ Stakes(i) \in [Kupon -> Int] /\ IsFiniteSet(Kupon)
      /\ Kupon \in SUBSET Kupon
  BY SharesAre
<1>2. ASSUME NEW k \in Kupon PROVE Shares(i)[k] = 0 /\ Stakes(i)[k] = 0
  <2>1. /\ kupony[k].pierwsze \in Nat /\ kupony[k].losowan \in 1..MAXLICZBALOSOWAN
        /\ Len(losowania) = nr + MAXLICZBALOSOWAN - 1 /\ nr \in Nat
        /\ MAXLICZBALOSOWAN \in Nat
    BY NumbersAre, LimitsAre
  <2>2. kupony[k].pierwsze <= nr
    BY DEF SoldInOrder
  <2>3. ostatnieLosowanie(k) < i
    BY <2>1, <2>2 DEF ostatnieLosowanie
  <2>4. ostatnieLosowanie(k) \in Nat
    BY NumbersAre
  <2>5. ~Bierze(i, k)
    BY <2>1, <2>3, <2>4 DEF Bierze
  <2> QED
    BY <2>5 DEF Shares, Stakes, Udzial, Stawki
<1>3. SumOf(Shares(i)) = Total(Shares(i), Kupon) /\ SumOf(Stakes(i)) = Total(Stakes(i), Kupon)
  BY <1>1, SumIs
<1>4. Total(Shares(i), Kupon) = 0
  BY <1>1, <1>2, TotalZero
<1>5. Total(Stakes(i), Kupon) = 0
  BY <1>1, <1>2, TotalZero
<1> QED
  BY <1>3, <1>4, <1>5

\* A new coupon enters its draws.
LEMMA SharesAfterSale ==
  ASSUME IInv, NEW g \in Gracze, NEW z \in Seq(Bet), NEW n \in 1..MAXLICZBALOSOWAN,
         sprzedajKupon(g, z, n), NEW i \in Nat
  PROVE  /\ SumOf(Shares(i))' = SumOf(Shares(i)) + (IF i \in nr..nr+n-1 THEN Share(z, n) ELSE 0)
         /\ SumOf(Stakes(i))' = SumOf(Stakes(i)) + (IF i \in nr..nr+n-1 THEN Len(z) ELSE 0)
<1>1. Typed /\ n \in Nat \ {0}
  BY LimitsAre DEF IInv
<1>x. PICK x : x = Len(kupony) + 1
  OBVIOUS
<1>2. /\ Kupon' = Kupon \cup {x} /\ x \notin Kupon
      /\ \A k \in Kupon : kupony'[k] = kupony[k]
      /\ kupony'[x] = [zaklady |-> z, pierwsze |-> nr, losowan |-> n, gracz |-> g]
  BY <1>x, AfterSale
<1>3. /\ Shares(i) \in [Kupon -> Int] /\ Stakes(i) \in [Kupon -> Int] /\ IsFiniteSet(Kupon)
  BY <1>1, SharesAre
<1>4. \A k \in Kupon : Bierze(i, k)' = Bierze(i, k)
  BY <1>2 DEF Bierze, ostatnieLosowanie
<1>5. Bierze(i, x)' <=> i \in nr..nr+n-1
  BY <1>2 DEF Bierze, ostatnieLosowanie
<1>6. /\ \A k \in Kupon : Shares(i)'[k] = Shares(i)[k] /\ Stakes(i)'[k] = Stakes(i)[k]
  BY <1>2, <1>4 DEF Shares, Stakes, Udzial, Stawki, Nagrody
<1>7. /\ Shares(i)'[x] = IF i \in nr..nr+n-1 THEN Share(z, n) ELSE 0
      /\ Stakes(i)'[x] = IF i \in nr..nr+n-1 THEN Len(z) ELSE 0
  BY <1>2, <1>5 DEF Shares, Stakes, Udzial, Stawki, Nagrody, Share
<1>8. Share(z, n) \in Int /\ Len(z) \in Int
  <2>w. PICK w \in Nat : w = wartoscNagrod(z, n)
    BY <1>1, PricesAre
  <2>1. w \div n \in Int
    BY <1>1
  <2> QED
    BY <2>1, <2>w, LenProperties DEF Share
<1>p. PICK p, q, S, U : /\ p = Shares(i)' /\ q = Shares(i) /\ S = Kupon /\ U = Kupon'
  OBVIOUS
<1>r. PICK r, t : r = Stakes(i)' /\ t = Stakes(i)
  OBVIOUS
<1>9. SumOf(p) = SumOf(q) + p[x]
  <2>1. p = [k \in U |-> p[k]]
    BY <1>p DEF Shares
  <2>2. \A k \in U : p[k] \in Int
    BY <1>2, <1>3, <1>6, <1>7, <1>8, <1>p
  <2>3. p \in [U -> Int]
    BY <2>1, <2>2
  <2>4. OneMore(q, S, p, U, x)
    BY <1>2, <1>3, <1>6, <1>p, <2>3 DEF OneMore
  <2> QED
    BY <2>4, SumGrows
<1>10. SumOf(r) = SumOf(t) + r[x]
  <2>1. r = [k \in U |-> r[k]]
    BY <1>p, <1>r DEF Stakes
  <2>2. \A k \in U : r[k] \in Int
    BY <1>2, <1>3, <1>6, <1>7, <1>8, <1>p, <1>r
  <2>3. r \in [U -> Int]
    BY <2>1, <2>2
  <2>4. OneMore(t, S, r, U, x)
    BY <1>2, <1>3, <1>6, <1>p, <1>r, <2>3 DEF OneMore
  <2> QED
    BY <2>4, SumGrows
<1>11. SumOf(Shares(i))' = SumOf(Shares(i)) + p[x]
  BY <1>9, <1>p
<1>12. SumOf(Stakes(i))' = SumOf(Stakes(i)) + r[x]
  BY <1>10, <1>r
<1> QED
  BY <1>7, <1>11, <1>12, <1>p, <1>r

\* The jackpot of the next draw comes from the draws held.
LEMMA JackpotStays ==
  ASSUME IInv, [Next]_vars
  PROVE  \A i \in 1..nr : Jackpot'[i] = Jackpot[i]
<1>1. /\ nr \in Nat \ {0} /\ nr <= Len(losowania) /\ DOMAIN losowania = 1..Len(losowania)
      /\ Len(losowania) \in Nat
  BY NumbersAre DEF IInv
<1>2. /\ \A i \in Nat : Jackpot[i] = IF i <= 1 THEN 0 ELSE NextJackpot(i, Jackpot[i - 1])
      /\ \A i \in Nat : Jackpot'[i] = IF i <= 1 THEN 0 ELSE NextJackpot(i, Jackpot[i - 1])'
  <2>1. JackpotRecurs'
    BY JackpotIs, PTL
  <2> QED
    BY JackpotIs, <2>1 DEF JackpotRecurs
<1>3. \A i \in DOMAIN losowania : i < nr => losowania'[i] = losowania[i]
  BY HeldDrawsStay
<1>n. PICK n \in Nat : n = nr
  BY <1>1
<1> DEFINE G == {i \in Nat : i <= n => Jackpot'[i] = Jackpot[i]}
<1>4. 0 \in G
  BY <1>2
<1>5. ASSUME NEW i \in Nat, i \in G PROVE i + 1 \in G
  <2> SUFFICES ASSUME i + 1 <= n PROVE Jackpot'[i + 1] = Jackpot[i + 1]
    OBVIOUS
  <2>1. Jackpot'[i] = Jackpot[i] /\ (i + 1) - 1 = i
    BY <1>5
  <2>2. CASE i = 0
    BY <1>2, <2>2
  <2>3. CASE i # 0
    <3>1. losowania'[i] = losowania[i]
      <4>1. i \in DOMAIN losowania /\ i < nr
        BY <1>1, <1>n, <2>3
      <4> QED
        BY <1>3, <4>1
    <3>2. NextJackpot(i + 1, Jackpot[i])' = NextJackpot(i + 1, Jackpot[i])
      BY <2>1, <3>1 DEF NextJackpot, odbyte
    <3>3. /\ Jackpot[i + 1] = NextJackpot(i + 1, Jackpot[i])
          /\ Jackpot'[i + 1] = NextJackpot(i + 1, Jackpot[i])'
      BY <1>2, <2>1, <2>3
    <3> QED
      BY <3>2, <3>3
  <2> QED
    BY <2>2, <2>3
<1>6. Nat \subseteq G
  <2> HIDE DEF G
  <2> QED
    BY <1>4, <1>5, SetInduction
<1> QED
  BY <1>1, <1>6, <1>n

\* No jackpot is known for the draws after the next one.
NoJackpotAhead ==
  \A i \in Nat : i > nr /\ i - 1 \in DOMAIN losowania => Jackpot[i] = 0

\* The draw before such a draw has not been held.
LEMMA JackpotAheadIs == IInv => NoJackpotAhead
<1> SUFFICES ASSUME IInv, NEW i \in Nat, i > nr, i - 1 \in DOMAIN losowania PROVE Jackpot[i] = 0
  BY DEF NoJackpotAhead
<1>1. HeldInOrder /\ nr \in Nat \ {0}
  BY NumbersAre DEF IInv
<1>2. ~odbyte(losowania[i - 1])
  BY <1>1 DEF HeldInOrder
<1>3. Jackpot[i] = NextJackpot(i, Jackpot[i - 1])
  BY <1>1, JackpotIs DEF JackpotRecurs
<1> QED
  BY <1>2, <1>3 DEF NextJackpot

AllSound == \A i \in DOMAIN losowania : Sound(i)

\* The property, draw by draw.
LEMMA AllSoundIs == PoolsAddUp <=> AllSound
BY Zenon DEF PoolsAddUp, AllSound, Sound, PoolIs, EntriesAre, TiersAre, FirstPoolIs, Shares, Stakes,
   Carried

-----------------------------------------------------------------------------
\* What a sale leaves as it is: what is handed on, and the jackpots.
LEMMA CarriedAfterSale ==
  ASSUME IInv, NEW g \in Gracze, NEW z \in Seq(Bet), NEW n \in 1..MAXLICZBALOSOWAN,
         Sale(g, z, n), [Next]_vars
  PROVE  \A i \in DOMAIN losowania : Carried(i)' = Carried(i) /\ Jackpot'[i] = Jackpot[i]
<1>0. IInv'
  BY NextIInv
<1>1. /\ Typed /\ HeldInOrder /\ HeldInOrder' /\ nr \in Nat \ {0}
      /\ DOMAIN losowania = 1..Len(losowania) /\ Len(losowania) \in Nat
  BY <1>0, NumbersAre DEF IInv
<1>2. sprzedajKupon(g, z, n) /\ wprowadzKupon(z, n)
  BY DEF Sale, sprzedajKupon
<1>3. nr' = nr /\ DOMAIN losowania' = DOMAIN losowania
  <2>1. losowania' \in Seq(Draw) /\ Len(losowania') = Len(losowania)
    BY <1>1, <1>2, DrawsAfterSale
  <2>2. DOMAIN losowania' = DOMAIN losowania
    BY <1>1, <2>1, LenProperties
  <2> QED
    BY <1>2, <2>2, AfterSale
<1>4. \A i \in DOMAIN losowania : i < nr => losowania'[i] = losowania[i]
  BY HeldDrawsStay
<1>5. ASSUME NEW i \in DOMAIN losowania PROVE Carried(i)' = Carried(i)
  <2>1. CASE i = 1
    BY <2>1 DEF Carried
  <2>2. CASE i # 1 /\ i - 1 < nr
    <3>1. i - 1 \in DOMAIN losowania
      BY <1>1, <2>2
    <3>2. losowania'[i - 1] = losowania[i - 1]
      BY <1>4, <2>2, <3>1
    <3> QED
      BY <3>2 DEF Carried, odbyte, przeniesione
  <2>3. CASE i # 1 /\ ~(i - 1 < nr)
    <3>1. i - 1 \in DOMAIN losowania
      BY <1>1, <2>3
    <3>2. ~odbyte(losowania[i - 1]) /\ ~odbyte(losowania'[i - 1])
      BY <1>1, <1>3, <2>3, <3>1 DEF HeldInOrder, odbyte
    <3>3. Carried(i) = 0
      BY <3>2 DEF Carried
    <3>4. Carried(i)' = 0
      BY <3>2 DEF Carried, odbyte
    <3> QED
      BY <3>3, <3>4
  <2> QED
    BY <1>1, <2>1, <2>2, <2>3
<1>6. ASSUME NEW i \in DOMAIN losowania PROVE Jackpot'[i] = Jackpot[i]
  <2>1. CASE i \in 1..nr
    BY <2>1, JackpotStays
  <2>2. CASE i \notin 1..nr
    <3>1. i \in Nat /\ i > nr /\ i - 1 \in DOMAIN losowania
      BY <1>1, <2>2
    <3>2. NoJackpotAhead /\ NoJackpotAhead'
      <4>1. NoJackpotAhead
        BY JackpotAheadIs
      <4>2. NoJackpotAhead'
        BY <1>0, JackpotAheadIs, PTL
      <4> QED
        BY <4>1, <4>2
    <3>3. Jackpot[i] = 0
      BY <3>1, <3>2 DEF NoJackpotAhead
    <3>4. Jackpot'[i] = 0
      BY <1>3, <3>1, <3>2 DEF NoJackpotAhead
    <3> QED
      BY <3>3, <3>4
  <2> QED
    BY <2>1, <2>2
<1> QED
  BY <1>5, <1>6

\* The pools add up after a sale,
LEMMA PoolsAfterSale ==
  ASSUME IInv, AllSound, NEW g \in Gracze, NEW z \in Seq(Bet), NEW n \in 1..MAXLICZBALOSOWAN,
         Sale(g, z, n), [Next]_vars
  PROVE  AllSound'
<1>1. /\ Typed /\ Typed' /\ nr \in Nat \ {0} /\ DOMAIN losowania = 1..Len(losowania)
      /\ Len(losowania) \in Nat /\ n \in Nat \ {0}
  <2>1. IInv'
    BY NextIInv
  <2> QED
    BY <2>1, NumbersAre, LimitsAre DEF IInv
<1>2. sprzedajKupon(g, z, n) /\ wprowadzKupon(z, n)
  BY DEF Sale, sprzedajKupon
<1>3. /\ losowania' \in Seq(Draw) /\ Len(losowania') = Len(losowania)
      /\ \A i \in 1..Len(losowania) : i \in nr..nr+n-1 =>
              Grown(losowania[i], losowania'[i], z, Share(z, n))
      /\ \A i \in 1..Len(losowania) : i \notin nr..nr+n-1 => losowania'[i] = losowania[i]
  BY <1>1, <1>2, DrawsAfterSale
<1>4. DOMAIN losowania' = 1..Len(losowania)
  BY <1>3, LenProperties
<1>s. PICK s \in Int : s = Share(z, n)
  <2>w. PICK w \in Nat : w = wartoscNagrod(z, n)
    BY <1>1, PricesAre
  <2>1. w \div n \in Int
    BY <1>1
  <2> QED
    BY <2>1, <2>w DEF Share
<1>5. ASSUME NEW i \in 1..Len(losowania) PROVE Sound(i)'
  <2>1. /\ SumOf(Shares(i))' = SumOf(Shares(i)) + (IF i \in nr..nr+n-1 THEN s ELSE 0)
        /\ SumOf(Stakes(i))' = SumOf(Stakes(i)) + (IF i \in nr..nr+n-1 THEN Len(z) ELSE 0)
    BY <1>1, <1>2, <1>s, SharesAfterSale
  <2>2. Sound(i) /\ Carried(i)' = Carried(i) /\ Jackpot'[i] = Jackpot[i]
    BY <1>1, CarriedAfterSale DEF AllSound
  <2>3. /\ SumOf(Shares(i)) \in Int /\ SumOf(Stakes(i)) \in Int
    BY <1>1, SharesAre
  <2>l. PICK l \in Draw : l = losowania[i]
    BY <1>1, NumbersAre
  <2>r. PICK r : r = losowania'[i]
    OBVIOUS
  <2>4. /\ l.pulaNagrod \in Int /\ Len(l.zaklady) \in Nat /\ Len(z) \in Nat /\ Carried(i) \in Int
    <3>1. l.pulaNagrod \in Int /\ Len(l.zaklady) \in Nat /\ Len(z) \in Nat
      BY LenProperties DEF Draw
    <3>2. Carried(i) \in Int
      <4>1. CASE i > 1
        <5>1. losowania[i - 1] \in Draw
          BY <1>1, <4>1, NumbersAre
        <5> QED
          BY <5>1, PrizesAre DEF Carried
      <4>2. CASE ~(i > 1)
        BY <4>2 DEF Carried
      <4> QED
        BY <4>1, <4>2
    <3> QED
      BY <3>1, <3>2
  <2>5. /\ l.pulaNagrod = SumOf(Shares(i)) + Carried(i)
        /\ Len(l.zaklady) = SumOf(Stakes(i))
    BY <2>2, <2>l DEF Sound, PoolIs, EntriesAre
  <2>6. CASE i \in nr..nr+n-1
    <3>1. Grown(l, r, z, s)
      BY <1>3, <1>s, <2>6, <2>l, <2>r
    <3>2. /\ r.pulaNagrod = l.pulaNagrod + s /\ r.zwycieskaSzostka = l.zwycieskaSzostka
          /\ Len(r.zaklady) = Len(l.zaklady) + Len(z) /\ r.pulaStopnia = l.pulaStopnia
      BY <3>1 DEF Grown
    <3>3. r.pulaNagrod = SumOf(Shares(i))' + Carried(i)'
      BY <2>1, <2>2, <2>3, <2>4, <2>5, <2>6, <3>2
    <3>4. Len(r.zaklady) = SumOf(Stakes(i))'
      BY <2>1, <2>3, <2>4, <2>5, <2>6, <3>2
    <3>5. ~odbyte(l)
      BY <1>1, <2>6, <2>l DEF IInv, HeldInOrder
    <3>6. ~odbyte(r) /\ r.pulaStopnia[1] = Jackpot'[i]
      BY <2>2, <2>l, <3>2, <3>5 DEF Sound, FirstPoolIs, odbyte
    <3>7. PoolIs(i)'
      BY <2>r, <3>3 DEF PoolIs
    <3>8. EntriesAre(i)'
      BY <2>r, <3>4 DEF EntriesAre
    <3>9. TiersAre(i)' /\ FirstPoolIs(i)'
      BY <2>r, <3>6 DEF TiersAre, FirstPoolIs, odbyte
    <3> QED
      BY <3>7, <3>8, <3>9 DEF Sound
  <2>7. CASE i \notin nr..nr+n-1
    <3>1. r = l
      BY <1>3, <2>7, <2>l, <2>r
    <3>2. r.pulaNagrod = SumOf(Shares(i))' + Carried(i)'
      BY <2>1, <2>2, <2>3, <2>5, <2>7, <3>1
    <3>3. Len(r.zaklady) = SumOf(Stakes(i))'
      BY <2>1, <2>3, <2>5, <2>7, <3>1
    <3>4. TiersAre(i) /\ FirstPoolIs(i)
      BY <2>2 DEF Sound
    <3>5. PoolIs(i)'
      BY <2>r, <3>2 DEF PoolIs
    <3>6. EntriesAre(i)'
      BY <2>r, <3>3 DEF EntriesAre
    <3>7. losowania'[i] = losowania[i]
      BY <2>l, <2>r, <3>1
    <3>8. SumOf(losowania[i].liczbaWygranych)' = SumOf(losowania[i].liczbaWygranych)
      BY <3>7
    <3>9. TiersAre(i)'
      BY <3>4, <3>7, <3>8 DEF TiersAre, odbyte
    <3>10. FirstPoolIs(i)'
      BY <2>2, <3>4, <3>7 DEF FirstPoolIs, odbyte
    <3> QED
      BY <3>5, <3>6, <3>9, <3>10 DEF Sound
  <2> QED
    BY <2>6, <2>7
<1> QED
  BY <1>4, <1>5 DEF AllSound

\* What the draw leaves as it is: what the coupons pay and enter.
LEMMA SharesAfterDraw ==
  ASSUME IInv, kupony' = kupony, NEW i
  PROVE  SumOf(Shares(i))' = SumOf(Shares(i)) /\ SumOf(Stakes(i))' = SumOf(Stakes(i))
<1>1. Shares(i)' = Shares(i) /\ Stakes(i)' = Stakes(i)
  BY DEF Shares, Stakes, Udzial, Stawki, Bierze, Nagrody, ostatnieLosowanie, Kupon
<1> QED
  BY <1>1

\* A draw that is held hands on what nobody won.
LEMMA CarriedIs ==
  ASSUME Typed, HeldInOrder, NEW i \in 1..Len(losowania)
  PROVE  /\ Carried(i) \in Int
         /\ Carried(i) = IF i > 1 /\ i - 1 < nr THEN przeniesione(losowania[i - 1]) ELSE 0
<1>1. /\ nr \in Nat \ {0} /\ DOMAIN losowania = 1..Len(losowania) /\ Len(losowania) \in Nat
  BY NumbersAre
<1>2. CASE i > 1
  <2>1. i - 1 \in DOMAIN losowania
    BY <1>1, <1>2
  <2>2. losowania[i - 1] \in Draw
    BY <2>1, NumbersAre
  <2>3. przeniesione(losowania[i - 1]) \in Int
    BY <2>2, PrizesAre
  <2>4. odbyte(losowania[i - 1]) <=> i - 1 < nr
    BY <2>1 DEF HeldInOrder
  <2> QED
    BY <1>2, <2>3, <2>4 DEF Carried
<1>3. CASE ~(i > 1)
  BY <1>3 DEF Carried
<1> QED
  BY <1>2, <1>3

CarriedInOrder ==
  \A i \in 1..Len(losowania) :
    Carried(i) = IF i > 1 /\ i - 1 < nr THEN przeniesione(losowania[i - 1]) ELSE 0

\* The same as an implication from the inductive invariant.
LEMMA CarriedInOrderIs == IInv => CarriedInOrder
BY CarriedIs DEF IInv, CarriedInOrder

\* A draw that stays as it is, handed the same as before.
LEMMA SameDrawIsSound ==
  ASSUME IInv, kupony' = kupony, NEW i, Sound(i), losowania'[i] = losowania[i],
         Carried(i)' = Carried(i), odbyte(losowania[i]) \/ Jackpot'[i] = Jackpot[i]
  PROVE  Sound(i)'
<1>1. SumOf(Shares(i))' = SumOf(Shares(i)) /\ SumOf(Stakes(i))' = SumOf(Stakes(i))
  BY SharesAfterDraw
<1>2. PoolIs(i) /\ EntriesAre(i) /\ TiersAre(i) /\ FirstPoolIs(i)
  BY DEF Sound
<1>3. PoolIs(i)'
  BY <1>1, <1>2 DEF PoolIs
<1>4. EntriesAre(i)'
  BY <1>1, <1>2 DEF EntriesAre
<1>5. SumOf(losowania[i].liczbaWygranych)' = SumOf(losowania[i].liczbaWygranych)
  OBVIOUS
<1>6. TiersAre(i)'
  BY <1>2, <1>5 DEF TiersAre, odbyte
<1>7. FirstPoolIs(i)'
  BY <1>2 DEF FirstPoolIs, odbyte
<1> QED
  BY <1>3, <1>4, <1>6, <1>7 DEF Sound

\* The draw that is held.
LEMMA HeldDrawIsSound ==
  ASSUME IInv, PrzeprowadzLosowanie, NEW n \in Nat, n = nr, Sound(n), Carried(n)' = Carried(n)
  PROVE  Sound(n)'
<1>1. kupony' = kupony
  BY DEF PrzeprowadzLosowanie
<1>2. SumOf(Shares(n))' = SumOf(Shares(n)) /\ SumOf(Stakes(n))' = SumOf(Stakes(n))
  BY <1>1, SharesAfterDraw
<1>3. PoolIs(n) /\ EntriesAre(n)
  BY DEF Sound
<1>l. PICK l \in Draw : l = losowania[n]
  BY NumbersAre DEF IInv
<1>r. PICK r : r = losowania'[n]
  OBVIOUS
<1>s. PICK szostka \in Szostki : Held(l, r, szostka)
  BY <1>l, <1>r, DrawsAfterDraw DEF IInv
<1>4. /\ r.pulaNagrod = l.pulaNagrod /\ r.zaklady = l.zaklady /\ odbyte(r)
      /\ r.liczbaWygranych = Winners(l, szostka)
  BY <1>s DEF Held
<1>5. PoolIs(n)'
  BY <1>2, <1>3, <1>4, <1>l, <1>r DEF PoolIs
<1>6. EntriesAre(n)'
  BY <1>2, <1>3, <1>4, <1>l, <1>r DEF EntriesAre
<1>7. SumOf(Winners(l, szostka)) = Len(l.zaklady)
  BY WinnersAddUp
<1>8. SumOf(losowania[n].liczbaWygranych)' = SumOf(r.liczbaWygranych)
  BY <1>r
<1>9. TiersAre(n)'
  BY <1>4, <1>7, <1>8, <1>r DEF TiersAre
<1>10. FirstPoolIs(n)'
  BY <1>4, <1>r DEF FirstPoolIs, odbyte
<1> QED
  BY <1>5, <1>6, <1>9, <1>10 DEF Sound

\* The draw that is endowed.
LEMMA EndowedDrawIsSound ==
  ASSUME IInv, AllSound, PrzeprowadzLosowanie, NEW n \in Nat \ {0}, n = nr
  PROVE  Sound(n + 1)'
<1>0. [Next]_vars /\ kupony' = kupony
  BY DEF PrzeprowadzLosowanie, Next
<1>1. /\ Typed /\ HeldInOrder /\ SoldInOrder /\ Len(losowania) \in Nat
      /\ DOMAIN losowania = 1..Len(losowania) /\ n \in 1..Len(losowania)
  BY NumbersAre DEF IInv
<1>m. PICK m \in Nat : m = Len(losowania)
  BY <1>1
<1>l. PICK l \in Draw : l = losowania[n]
  BY <1>1, NumbersAre
<1>h. PICK h \in Draw : h = losowania'[n] /\ odbyte(h) /\ h.pulaNagrod = l.pulaNagrod
  <2>1. PICK szostka \in Szostki : Held(l, losowania'[n], szostka)
    BY <1>1, <1>l, DrawsAfterDraw
  <2> QED
    BY <2>1 DEF Held
<1>r. PICK r : r = losowania'[n + 1]
  OBVIOUS
<1>c. PICK c : c = IF h.liczbaWygranych[1] = 0 THEN pierwszaPula(l) ELSE 0
  OBVIOUS
<1>x. PICK next \in Draw :
        /\ next = IF n + 1 \in 1..m THEN losowania[n + 1] ELSE noweLosowanie
        /\ Endowed(next, r, przeniesione(h), c)
  <2>1. \E next \in Draw :
          /\ next = IF nr + 1 \in 1..m THEN losowania[nr + 1] ELSE noweLosowanie
          /\ Endowed(next, losowania'[nr + 1], przeniesione(losowania'[nr]),
                     IF losowania'[nr].liczbaWygranych[1] = 0
                     THEN pierwszaPula(losowania[nr]) ELSE 0)
    BY <1>1, <1>m, DrawsAfterDraw
  <2> QED
    BY <2>1, <1>c, <1>h, <1>l, <1>r
<1>s. PICK s \in Int : s = SumOf(Shares(n + 1))
  BY <1>1, SharesAre, n + 1 \in Nat
<1>t. PICK t \in Int : t = SumOf(Stakes(n + 1))
  BY <1>1, SharesAre, n + 1 \in Nat
<1>2. /\ next.pulaNagrod = s /\ Len(next.zaklady) = t /\ next.pulaStopnia[1] = 0
      /\ ~odbyte(next)
  <2>1. CASE n + 1 \in 1..m
    <3>1. next = losowania[n + 1] /\ n + 1 \in DOMAIN losowania
      BY <1>1, <1>m, <1>x, <2>1
    <3>2. ~odbyte(next)
      BY <1>1, <3>1 DEF HeldInOrder
    <3>3. Carried(n + 1) = 0
      BY <1>1, <1>m, <2>1, CarriedIs
    <3>4. PoolIs(n + 1) /\ EntriesAre(n + 1) /\ FirstPoolIs(n + 1)
      BY <3>1 DEF AllSound, Sound
    <3>5. Jackpot[n + 1] = 0
      BY <1>1, JackpotAheadIs DEF NoJackpotAhead
    <3>6. next.pulaNagrod = s
      BY <1>s, <3>1, <3>3, <3>4 DEF PoolIs
    <3>7. Len(next.zaklady) = t
      BY <1>t, <3>1, <3>4 DEF EntriesAre
    <3> QED
      BY <3>1, <3>2, <3>4, <3>5, <3>6, <3>7 DEF FirstPoolIs
  <2>2. CASE n + 1 \notin 1..m
    <3>1. next = noweLosowanie
      BY <1>x, <2>2
    <3>2. s = 0 /\ t = 0
      BY <1>1, <1>m, <1>s, <1>t, <2>2, NothingBeyond
    <3>3. Len(<<>>) = 0
      OBVIOUS
    <3> QED
      BY <3>1, <3>2, <3>3, NewDrawIs
  <2> QED
    BY <2>1, <2>2
<1>3. /\ r.pulaNagrod = next.pulaNagrod + przeniesione(h) /\ r.zaklady = next.zaklady
      /\ r.pulaStopnia[1] = next.pulaStopnia[1] + c /\ ~odbyte(r)
  BY <1>x, <1>2 DEF Endowed, odbyte
<1>4. SumOf(Shares(n + 1))' = s /\ SumOf(Stakes(n + 1))' = t
  BY <1>0, <1>s, <1>t, SharesAfterDraw
<1>5. Carried(n + 1)' = przeniesione(h)
  <2>1. n + 1 > 1 /\ (n + 1) - 1 = n
    OBVIOUS
  <2> QED
    BY <1>h, <2>1 DEF Carried, odbyte, przeniesione
<1>6. PoolIs(n + 1)'
  BY <1>2, <1>3, <1>4, <1>5, <1>r DEF PoolIs
<1>7. EntriesAre(n + 1)'
  BY <1>2, <1>3, <1>4, <1>r DEF EntriesAre
<1>8. TiersAre(n + 1)'
  BY <1>3, <1>r DEF TiersAre, odbyte
<1>9. Jackpot'[n + 1] = c
  <2>1. Jackpot'[n + 1] = NextJackpot(n + 1, Jackpot[n])'
    <3>1. JackpotRecurs'
      BY JackpotIs, PTL
    <3>2. ~(n + 1 <= 1) /\ (n + 1) - 1 = n /\ n + 1 \in Nat
      OBVIOUS
    <3> QED
      BY <3>1, <3>2 DEF JackpotRecurs
  <2>2. Jackpot'[n] = l.pulaStopnia[1]
    <3>1. ~odbyte(l)
      BY <1>1, <1>l DEF HeldInOrder
    <3>2. FirstPoolIs(n)
      BY <1>1 DEF AllSound, Sound
    <3>3. Jackpot'[n] = Jackpot[n]
      BY <1>0, <1>1, JackpotStays
    <3> QED
      BY <1>l, <3>1, <3>2, <3>3 DEF FirstPoolIs
  <2>3. NextJackpot(n + 1, Jackpot[n])'
          = IF h.liczbaWygranych[1] = 0
            THEN l.pulaStopnia[1] + (h.pulaNagrod * 44) \div 100 ELSE 0
    <3>1. (n + 1) - 1 = n
      OBVIOUS
    <3> QED
      BY <1>h, <2>2, <3>1 DEF NextJackpot, odbyte
  <2> QED
    BY <1>c, <1>h, <2>1, <2>3 DEF pierwszaPula
<1>10. r.pulaStopnia[1] = c
  <2>1. c \in Int
    BY <1>c, PrizesAre
  <2> QED
    BY <1>2, <1>3, <2>1
<1>11. FirstPoolIs(n + 1)'
  BY <1>9, <1>10, <1>r DEF FirstPoolIs
<1> QED
  BY <1>6, <1>7, <1>8, <1>11 DEF Sound

\* after a draw: the held one, the one it endows, the open ones and the new one,
LEMMA PoolsAfterDraw ==
  ASSUME IInv, AllSound, PrzeprowadzLosowanie
  PROVE  AllSound'
<1>0. [Next]_vars /\ kupony' = kupony
  BY DEF PrzeprowadzLosowanie, Next
<1>i. IInv'
  BY <1>0, NextIInv
<1>1. /\ Typed /\ HeldInOrder /\ SoldInOrder /\ Len(losowania) \in Nat
      /\ DOMAIN losowania = 1..Len(losowania) /\ nr \in 1..Len(losowania)
  BY NumbersAre DEF IInv
<1>m. PICK m \in Nat : m = Len(losowania)
  BY <1>1
<1>n. PICK n \in Nat \ {0} : n = nr /\ nr' = n + 1
  BY <1>1, AfterDraw
<1>2. /\ Len(losowania') = m + 1 /\ DOMAIN losowania' = 1..m+1
      /\ \A i \in 1..m : i \notin {n, n + 1} => losowania'[i] = losowania[i]
      /\ m + 1 # n + 1 => losowania'[m + 1] = noweLosowanie
  <2>1. /\ losowania' \in Seq(Draw) /\ Len(losowania') = m + 1
        /\ \A i \in 1..m : i \notin {n, n + 1} => losowania'[i] = losowania[i]
        /\ m + 1 # n + 1 => losowania'[m + 1] = noweLosowanie
    BY <1>1, <1>m, <1>n, DrawsAfterDraw
  <2>2. DOMAIN losowania' = 1..m+1
    BY <2>1, LenProperties
  <2> QED
    BY <2>1, <2>2
<1>3. \A i \in 1..m+1 :
        Carried(i)' = IF i > 1 /\ i - 1 < n + 1 THEN przeniesione(losowania'[i - 1]) ELSE 0
  <2>1. CarriedInOrder'
    BY <1>i, CarriedInOrderIs, PTL
  <2> QED
    BY <1>2, <1>n, <2>1 DEF CarriedInOrder, przeniesione
<1>4. \A i \in 1..m :
        Carried(i) = IF i > 1 /\ i - 1 < n THEN przeniesione(losowania[i - 1]) ELSE 0
  BY <1>m, <1>n, CarriedInOrderIs DEF CarriedInOrder
<1>5. ASSUME NEW i \in 1..m+1 PROVE Sound(i)'
  <2>1. CASE i <= n
    <3>1. i \in 1..m /\ i \in DOMAIN losowania /\ Sound(i)
      BY <1>1, <1>m, <1>n, <2>1 DEF AllSound
    <3>2. Carried(i)' = Carried(i)
      <4>1. CASE i = 1
        BY <1>3, <1>4, <3>1, <4>1
      <4>2. CASE i # 1
        <5>1. i > 1 /\ i - 1 < n /\ i - 1 < n + 1 /\ i - 1 \in 1..m /\ i - 1 \notin {n, n + 1}
          BY <2>1, <3>1, <4>2
        <5>2. losowania'[i - 1] = losowania[i - 1]
          BY <1>2, <5>1
        <5> QED
          BY <1>3, <1>4, <3>1, <5>1, <5>2
      <4> QED
        BY <4>1, <4>2
    <3>3. CASE i = n
      BY <1>n, <3>1, <3>2, <3>3, HeldDrawIsSound
    <3>4. CASE i # n
      <4>1. i \notin {n, n + 1} /\ i < n
        BY <2>1, <3>4
      <4>2. losowania'[i] = losowania[i]
        BY <1>2, <3>1, <4>1
      <4>3. odbyte(losowania[i])
        BY <1>1, <1>n, <3>1, <4>1 DEF HeldInOrder
      <4> QED
        BY <1>0, <3>1, <3>2, <4>2, <4>3, SameDrawIsSound
    <3> QED
      BY <3>3, <3>4
  <2>2. CASE i = n + 1
    BY <1>n, <2>2, EndowedDrawIsSound
  <2>3. CASE i > n + 1
    <3>1. i > nr /\ i > nr' /\ i - 1 \in DOMAIN losowania /\ i - 1 \in DOMAIN losowania'
      BY <1>1, <1>2, <1>m, <1>n, <2>3
    <3>2. Jackpot[i] = 0
      BY <3>1, JackpotAheadIs DEF NoJackpotAhead
    <3>3. Jackpot'[i] = 0
      <4>1. NoJackpotAhead'
        BY <1>i, JackpotAheadIs, PTL
      <4> QED
        BY <3>1, <4>1 DEF NoJackpotAhead
    <3>4. Carried(i)' = 0
      BY <1>3, <2>3
    <3>5. CASE i \in 1..m
      <4>1. losowania'[i] = losowania[i] /\ Sound(i)
        BY <1>1, <1>2, <1>m, <2>3, <3>5 DEF AllSound
      <4>2. Carried(i) = 0
        BY <1>4, <2>3, <3>5
      <4> QED
        BY <1>0, <3>2, <3>3, <3>4, <4>1, <4>2, SameDrawIsSound
    <3>6. CASE i = m + 1
      <4>1. losowania'[i] = noweLosowanie
        BY <1>2, <2>3, <3>6
      <4>2. SumOf(Shares(i)) = 0 /\ SumOf(Stakes(i)) = 0
        BY <1>1, <1>m, <3>6, NothingBeyond
      <4>3. SumOf(Shares(i))' = 0 /\ SumOf(Stakes(i))' = 0
        BY <1>0, <4>2, SharesAfterDraw
      <4>4. Len(<<>>) = 0
        OBVIOUS
      <4>5. PoolIs(i)'
        BY <3>4, <4>1, <4>3, NewDrawIs DEF PoolIs
      <4>6. EntriesAre(i)'
        BY <4>1, <4>3, <4>4, NewDrawIs DEF EntriesAre
      <4>7. TiersAre(i)'
        BY <4>1, NewDrawIs DEF TiersAre, odbyte
      <4>8. FirstPoolIs(i)'
        BY <3>3, <4>1, NewDrawIs DEF FirstPoolIs
      <4> QED
        BY <4>5, <4>6, <4>7, <4>8 DEF Sound
    <3> QED
      BY <3>5, <3>6
  <2> QED
    BY <2>1, <2>2, <2>3
<1> QED
  BY <1>2, <1>5 DEF AllSound

-----------------------------------------------------------------------------
\* and at first, when all draws are empty.
LEMMA PoolsAtFirst == Init => AllSound
<1> SUFFICES ASSUME Init, NEW i \in DOMAIN losowania PROVE Sound(i)
  BY DEF AllSound
<1>1. Typed /\ HeldInOrder /\ IInv
  BY InitIInv DEF IInv
<1>2. /\ i \in 1..MAXLICZBALOSOWAN /\ losowania[i] = noweLosowanie
      /\ Len(losowania) \in Nat /\ DOMAIN losowania = 1..Len(losowania)
      /\ Kupon = {}
  <2>1. DOMAIN kupony = {}
    BY EmptySeq DEF Init
  <2> QED
    BY <1>1, <2>1, NumbersAre DEF Init, Kupon
<1>3. SumOf(Shares(i)) = 0 /\ SumOf(Stakes(i)) = 0
  <2>1. /\ Shares(i) \in [Kupon -> Int] /\ Stakes(i) \in [Kupon -> Int] /\ IsFiniteSet(Kupon)
    BY <1>1, <1>2, SharesAre
  <2>2. SumOf(Shares(i)) = Total(Shares(i), Kupon) /\ SumOf(Stakes(i)) = Total(Stakes(i), Kupon)
    BY <2>1, SumIs
  <2>3. Total(Shares(i), {}) = 0 /\ Total(Stakes(i), {}) = 0
    BY <2>1, TotalTyped, Kupon \in SUBSET Kupon
  <2> QED
    BY <1>2, <2>2, <2>3
<1>4. nr = 1
  BY <1>2, LimitsAre DEF Init, nr, numerKolejnegoLosowania
<1>5. Carried(i) = 0
  BY <1>1, <1>2, <1>4, CarriedIs
<1>6. ~odbyte(losowania[i])
  BY <1>2, NewDrawIs
<1>7. Jackpot[i] = 0
  <2>1. CASE i = 1
    BY <2>1, JackpotIs DEF JackpotRecurs
  <2>2. CASE i # 1
    <3>1. i \in Nat /\ i > nr /\ i - 1 \in DOMAIN losowania
      BY <1>2, <1>4, <2>2
    <3> QED
      BY <1>1, <3>1, JackpotAheadIs DEF NoJackpotAhead
  <2> QED
    BY <2>1, <2>2
<1>8. Len(<<>>) = 0
  OBVIOUS
<1>9. PoolIs(i) /\ EntriesAre(i)
  BY <1>2, <1>3, <1>5, <1>8, NewDrawIs DEF PoolIs, EntriesAre
<1>10. TiersAre(i) /\ FirstPoolIs(i)
  BY <1>2, <1>6, <1>7, NewDrawIs DEF TiersAre, FirstPoolIs
<1> QED
  BY <1>9, <1>10 DEF Sound

\* Payments change neither draws nor coupons.
LEMMA PoolsStay ==
  ASSUME AllSound, losowania' = losowania, kupony' = kupony
  PROVE  AllSound'
<1>1. ASSUME NEW i \in DOMAIN losowania PROVE Sound(i)'
  <2>1. Sound(i)
    BY DEF AllSound
  <2>2. Shares(i)' = Shares(i) /\ Stakes(i)' = Stakes(i)
    BY DEF Shares, Stakes, Udzial, Stawki, Bierze, Nagrody, ostatnieLosowanie, Kupon
  <2>3. SumOf(Shares(i))' = SumOf(Shares(i)) /\ SumOf(Stakes(i))' = SumOf(Stakes(i))
    BY <2>2
  <2>4. Jackpot' = Jackpot
    BY Zenon DEF Jackpot, odbyte
  <2>5. Carried(i)' = Carried(i)
    BY DEF Carried, odbyte, przeniesione
  <2>6. SumOf(losowania[i].liczbaWygranych)' = SumOf(losowania[i].liczbaWygranych)
    OBVIOUS
  <2>7. PoolIs(i)'
    BY <2>1, <2>3, <2>5 DEF Sound, PoolIs
  <2>8. EntriesAre(i)'
    BY <2>1, <2>3 DEF Sound, EntriesAre
  <2>9. TiersAre(i)'
    BY <2>1, <2>6 DEF Sound, TiersAre, odbyte
  <2>10. FirstPoolIs(i)'
    BY <2>1, <2>4 DEF Sound, FirstPoolIs, odbyte
  <2> QED
    BY <2>7, <2>8, <2>9, <2>10 DEF Sound
<1> QED
  BY <1>1 DEF AllSound

\* In every reachable state the pools of every draw add up (PoolsAddUp): prize money,
\* entries, winners and the jackpot.
THEOREM PoolsAreSound == Spec => []PoolsAddUp
<1>1. Init => AllSound
  BY PoolsAtFirst
<1>2. IInv /\ AllSound /\ [Next]_vars => AllSound'
  <2> SUFFICES ASSUME IInv, AllSound, [Next]_vars PROVE AllSound'
    OBVIOUS
  <2>0. Typed
    BY DEF IInv
  <2>1. CASE UNCHANGED vars
    BY <2>1, PoolsStay DEF vars
  <2>2. ASSUME NEW g \in Gracze, NEW z \in Seq(Bet), NEW n \in 1..MAXLICZBALOSOWAN, Sale(g, z, n)
        PROVE  AllSound'
    BY <2>2, PoolsAfterSale
  <2>3. CASE PrzeprowadzLosowanie
    BY <2>3, PoolsAfterDraw
  <2>4. ASSUME NEW g \in Gracze, NEW ks \in SUBSET Due(g), wyplac(g, ks) PROVE AllSound'
    BY <2>4, PoolsStay DEF wyplac
  <2>5. ASSUME NEW k \in Kupon, WykorzystajZaWczesnie(k) PROVE AllSound'
    BY <2>5, PoolsStay DEF WykorzystajZaWczesnie
  <2> QED
    BY <2>0, <2>1, <2>2, <2>3, <2>4, <2>5, StepsAre
<1>3. AllSound => PoolsAddUp
  BY AllSoundIs
<1> QED
  BY <1>1, <1>2, <1>3, InductiveInvariant, PTL DEF Spec
=============================================================================
