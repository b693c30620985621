----------------------------- MODULE Losowanie -----------------------------
(***************************************************************************)
(* One draw of the lottery (class Losowanie) and the bets that take part   *)
(* in it (class Zaklad).  A method that changes the draw is an operator    *)
(* from the draw to the draw; what it sends on to the next draw is an      *)
(* operator of its own.  A bet is the set of its numbers.                  *)
(***************************************************************************)
EXTENDS Integers, Sequences, FiniteSets

CONSTANTS
  DLUGOSCZAKLADU, \* numbers in a bet
  MINIMALNE,      \* [0..4 -> Nat]: the guaranteed prizes, 0 where there is none
  Szostki         \* the results a draw may have: sets of DLUGOSCZAKLADU numbers

ASSUME MinimaAssumption == MINIMALNE \in [0..4 -> Nat]
ASSUME SzostkiAssumption ==
  /\ DLUGOSCZAKLADU \in Nat \ {0}
  /\ \A s \in Szostki : IsFiniteSet(s) /\ Cardinality(s) = DLUGOSCZAKLADU

Stopnie == 0..4
Nieodbyte == {}   \* zwycieskaSzostka before the draw

Larger(a, b) == IF a > b THEN a ELSE b

noweLosowanie ==
  [pulaNagrod       |-> 0,
   pulaStopnia      |-> [s \in Stopnie |-> 0],
   liczbaWygranych  |-> [s \in Stopnie |-> 0],
   zwycieskaSzostka |-> Nieodbyte,
   zaklady          |-> <<>>]

odbyte(l) == l.zwycieskaSzostka # Nieodbyte

\* The tier of a bet: 1 when all numbers are hit, 0 when it wins nothing.
stopienWygranej(z, szostka) ==
  LET stopien == DLUGOSCZAKLADU + 1 - Cardinality(z \cap szostka)
  IN  IF stopien <= 4 THEN stopien ELSE 0

dodajZaklady(l, z) == [l EXCEPT !.zaklady = @ \o z]
zwiekszPule(l, wartosc) == [l EXCEPT !.pulaNagrod = @ + wartosc]
kumulacja(l, a) == [l EXCEPT !.pulaStopnia[1] = @ + a]

\* The first pool before the guaranteed minimum: what an unwon draw hands on.
pierwszaPula(l) == l.pulaStopnia[1] + (l.pulaNagrod * 44) \div 100

\* wyznaczNagrody: winners are counted, the pool is divided; the third tier gets
\* what is left.
wyznaczNagrody(l, szostka) ==
  LET liczba == [s \in Stopnie |-> Cardinality(
                   {i \in DOMAIN l.zaklady : stopienWygranej(l.zaklady[i], szostka) = s})]
      druga == (l.pulaNagrod * 8) \div 100
      reszta == l.pulaNagrod - pierwszaPula(l) - druga
  IN  [pulaNagrod       |-> l.pulaNagrod,
       pulaStopnia      |-> [l.pulaStopnia EXCEPT
                               ![1] = Larger(pierwszaPula(l), MINIMALNE[1]),
                               ![2] = druga,
                               ![3] = Larger(reszta, MINIMALNE[3] * liczba[3]),
                               ![4] = MINIMALNE[4] * liczba[4]],
       liczbaWygranych  |-> liczba,
       zwycieskaSzostka |-> szostka,
       zaklady          |-> l.zaklady]

\* What the draw l, just held, adds to the next draw: the unwon second and third
\* pool to its prize money, the unwon first pool to its first pool.
przeniesione(l) == (IF l.liczbaWygranych[2] = 0 THEN l.pulaStopnia[2] ELSE 0)
                 + (IF l.liczbaWygranych[3] = 0 THEN l.pulaStopnia[3] ELSE 0)

\* wygrana(int): the prize of one winner; wygrana(Zaklad) asks for the bet's tier.
wygranaStopnia(l, stopien) ==
  IF l.liczbaWygranych[stopien] = 0 THEN 0
                                    ELSE l.pulaStopnia[stopien] \div l.liczbaWygranych[stopien]
wygrana(l, z) == wygranaStopnia(l, stopienWygranej(z, l.zwycieskaSzostka))
=============================================================================
