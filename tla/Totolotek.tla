----------------------------- MODULE Totolotek -----------------------------
(***************************************************************************)
(* The lottery: the centre with its draws and its budget, the state budget,*)
(* the vendors that sell and pay coupons, and the players with their       *)
(* strategies.  The program has one thread; what varies is the order in    *)
(* which the public operations are called, the numbers of a quick pick and *)
(* the results of the draws.  Every action is one call the players of Main *)
(* or Main itself may make, in any order.                                  *)
(***************************************************************************)
EXTENDS Losowanie, FiniteSetsExt

CONSTANTS
  Gracze,             \* the players
  Rodzaj,             \* [Gracze -> the class of the player]
  Blankiet,           \* [Gracze -> a slip: the bets it plays and for how many draws]
  coIle,              \* the period of a GraczStaloblankietowy
  Srodki,             \* [Gracze -> Nat]: what a player starts with
  Zaklady,            \* the bets a quick pick may choose
  MAXLICZBALOSOWAN,   \* draws open for sale at a time
  MAXLICZBAZAKLADOW,  \* bets on a coupon
  CENAZAKLADU, PODATEKODZAKLADU, NANagrody, WYSOKANAGRODA,
  MaxKuponow,         \* bound on the coupons sold, for model checking
  MaxLosowan          \* bound on the draws held: Main holds 20

Rodzaje == {"Losowy", "Minimalista", "Staloliczbowy", "Staloblankietowy"}

ASSUME GraczeAssumption ==
  /\ IsFiniteSet(Gracze)
  /\ Rodzaj \in [Gracze -> Rodzaje]
  /\ Srodki \in [Gracze -> Nat]
  /\ coIle \in Nat \ {0}
ASSUME CenyAssumption ==
  /\ {CENAZAKLADU, PODATEKODZAKLADU, WYSOKANAGRODA} \subseteq Nat
  /\ PODATEKODZAKLADU <= CENAZAKLADU
  /\ NANagrody \in 0..100
ASSUME LiczbyAssumption ==
  /\ {MAXLICZBALOSOWAN, MAXLICZBAZAKLADOW} \subseteq Nat \ {0}
  /\ \A g \in Gracze : Rodzaj[g] \in {"Staloliczbowy", "Staloblankietowy"} =>
       /\ Blankiet[g].zaklady \in Seq(SUBSET Nat) \ {<<>>}
       /\ Blankiet[g].losowan \in 1..MAXLICZBALOSOWAN
  /\ Zaklady \subseteq SUBSET Nat

VARIABLES
  losowania,        \* the draws, held and open
  budzetCentrali,   \* the money of the centre
  podatki,          \* taxes the state has taken,
  subsydia,         \* and subsidies it has paid
  kupony,           \* the coupons, in the order of sale (the first part of the id)
  sprzedaneKupony,  \* [coupon -> used], as the vendor that sold it keeps it
  zakupioneKupony,  \* [coupon -> still good], as its owner keeps it
  srodki            \* [Gracze -> Nat]

kasa == <<budzetCentrali, podatki, subsydia>>
vars == <<losowania, kasa, kupony, sprzedaneKupony, zakupioneKupony, srodki>>

Kupon == DOMAIN kupony
Kupon_of(g) == {k \in Kupon : kupony[k].gracz = g}

\* The last draw a coupon covers, and its price with the tax and the prize money in it.
ostatnieLosowanie(k) == kupony[k].pierwsze + kupony[k].losowan - 1
stawki(z, n) == Len(z) * n
cena(z, n) == stawki(z, n) * CENAZAKLADU
podatek(z, n) == stawki(z, n) * PODATEKODZAKLADU
wartoscNagrod(z, n) == ((cena(z, n) - podatek(z, n)) * NANagrody) \div 100

numerKolejnegoLosowania == Len(losowania) - MAXLICZBALOSOWAN + 1
Skonczony(k) == ostatnieLosowanie(k) < numerKolejnegoLosowania

Init ==
  /\ losowania = [i \in 1..MAXLICZBALOSOWAN |-> noweLosowanie]
  /\ budzetCentrali = 0 /\ podatki = 0 /\ subsydia = 0
  /\ kupony = <<>> /\ sprzedaneKupony = <<>> /\ zakupioneKupony = <<>>
  /\ srodki = Srodki

-----------------------------------------------------------------------------
(***************************************************************************)
(* Buying.                                                                 *)
(***************************************************************************)
czyStarczy(g, wartosc) == srodki[g] >= wartosc

\* wprowadzKupon at the centre: bets and prize money go to every draw the coupon
\* covers; what the division leaves over goes nowhere.
wprowadzKupon(z, n) ==
  LET pierwsze == numerKolejnegoLosowania
  IN  /\ podatki' = podatki + podatek(z, n)
      /\ budzetCentrali' = budzetCentrali + cena(z, n) - podatek(z, n) - wartoscNagrod(z, n)
      /\ losowania' = [i \in DOMAIN losowania |->
           IF i \in pierwsze..(pierwsze + n - 1)
           THEN zwiekszPule(dodajZaklady(losowania[i], z), wartoscNagrod(z, n) \div n)
           ELSE losowania[i]]
      /\ UNCHANGED subsydia

\* sprzedajKupon, called by kupKupon: the player has the money.
sprzedajKupon(g, z, n) ==
  /\ Len(kupony) < MaxKuponow
  /\ czyStarczy(g, cena(z, n))
  /\ wprowadzKupon(z, n)
  /\ kupony' = Append(kupony, [zaklady |-> z, pierwsze |-> numerKolejnegoLosowania,
                               losowan |-> n, gracz |-> g])
  /\ sprzedaneKupony' = Append(sprzedaneKupony, FALSE)
  /\ zakupioneKupony' = Append(zakupioneKupony, TRUE)
  /\ srodki' = [srodki EXCEPT ![g] = @ - cena(z, n)]

\* A quick pick (ChybilTrafil): any bets.
QuickPick(liczba) == [1..liczba -> Zaklady]

\* One purchase of GraczLosowy, which makes up to a hundred.
KupLosowy(g) ==
  /\ Rodzaj[g] = "Losowy"
  /\ \E n \in 1..MAXLICZBALOSOWAN, m \in 1..MAXLICZBAZAKLADOW :
       \E z \in QuickPick(m) : sprzedajKupon(g, z, n)

\* czyMozna of the three fixed strategies.
ostatniPierwszy(g) == Max({0} \cup {kupony[k].pierwsze : k \in Kupon_of(g)})

\* (A mutant: a slip is played again from the end of the period on, not at its end.)
czyMoznaOdTerminu(g) ==
  CASE Rodzaj[g] = "Minimalista" -> TRUE
    [] Rodzaj[g] = "Staloliczbowy" -> \A k \in Kupon_of(g) : Skonczony(k)
    [] Rodzaj[g] = "Staloblankietowy" ->
         numerKolejnegoLosowania - ostatniPierwszy(g) >= coIle

czyMozna(g) ==
  CASE Rodzaj[g] = "Minimalista" -> TRUE
    [] Rodzaj[g] = "Staloliczbowy" -> \A k \in Kupon_of(g) : Skonczony(k)
    [] Rodzaj[g] = "Staloblankietowy" ->
         numerKolejnegoLosowania - ostatniPierwszy(g) = coIle

\* GraczStaly.dzialajKup: the favourite generator; the vendors take turns.
DzialajKup(g) ==
  /\ Rodzaj[g] # "Losowy"
  /\ czyMozna(g)
  /\ IF Rodzaj[g] = "Minimalista"
     THEN \E z \in QuickPick(1) : sprzedajKupon(g, z, 1)
     ELSE sprzedajKupon(g, Blankiet[g].zaklady, Blankiet[g].losowan)

-----------------------------------------------------------------------------
(***************************************************************************)
(* The draw.                                                               *)
(***************************************************************************)
\* (A mutant: the new draw is appended last, so the held draw is still the next one
\* when the jackpot is handed over.)
PrzeprowadzLosowanieBezDodania ==
  /\ numerKolejnegoLosowania <= MaxLosowan
  /\ \E szostka \in Szostki :
       LET nr == numerKolejnegoLosowania
           ak == wyznaczNagrody(losowania[nr], szostka)
           skumulowane == IF ak.liczbaWygranych[1] = 0 THEN pierwszaPula(losowania[nr]) ELSE 0
       IN  losowania' = Append([losowania EXCEPT ![nr] = kumulacja(ak, skumulowane)], noweLosowanie)
  /\ UNCHANGED <<kasa, kupony, sprzedaneKupony, zakupioneKupony, srodki>>

\* przeprowadzLosowanie: a new open draw is appended first, so that the number of
\* the next draw has moved on when the held one hands over what nobody won.
PrzeprowadzLosowanie ==
  /\ numerKolejnegoLosowania <= MaxLosowan
  /\ \E szostka \in Szostki :
       LET nr == numerKolejnegoLosowania
           dodane == Append(losowania, noweLosowanie)
           ak == wyznaczNagrody(dodane[nr], szostka)
           skumulowane == IF ak.liczbaWygranych[1] = 0 THEN pierwszaPula(dodane[nr]) ELSE 0
       IN  losowania' = [dodane EXCEPT
             ![nr] = ak,
             ![nr + 1] = kumulacja(zwiekszPule(@, przeniesione(ak)), skumulowane)]
  /\ UNCHANGED <<kasa, kupony, sprzedaneKupony, zakupioneKupony, srodki>>

-----------------------------------------------------------------------------
(***************************************************************************)
(* Paying.                                                                 *)
(***************************************************************************)
\* The sum of the values of a function.
SumOf(f) == MapThenSumSet(LAMBDA x : f[x], DOMAIN f)

\* The wins of a coupon: one for every bet in every draw it covers.
Wygrane(k) == (kupony[k].pierwsze..ostatnieLosowanie(k)) \X (DOMAIN kupony[k].zaklady)
kwota(k, w) == wygrana(losowania[w[1]], kupony[k].zaklady[w[2]])
wygranaKuponu(k) == SumOf([w \in Wygrane(k) |-> kwota(k, w)])
podatekOdWygranych(k) ==
  SumOf([w \in Wygrane(k) |->
           IF kwota(k, w) > WYSOKANAGRODA THEN (kwota(k, w) * 10) \div 100 ELSE 0])

\* (A mutant: the tax goes to the state and to the player.)
ZaplaconeBrutto(k, m) ==
  LET w == wygranaKuponu(k)
      subsydium == IF w > m.budzet THEN w - m.budzet ELSE 0
  IN  [budzet |-> m.budzet + subsydium - w, podatki |-> m.podatki + podatekOdWygranych(k),
       subsydia |-> m.subsydia + subsydium, srodki |-> m.srodki + w]

\* The money after CentralaTotolotka.wyplac of coupon k and the player's receipt of
\* it; when the budget does not suffice the state subsidises what is missing.
Zaplacone(k, m) ==
  LET w == wygranaKuponu(k)
      p == podatekOdWygranych(k)
      subsydium == IF w > m.budzet THEN w - m.budzet ELSE 0
  IN  [budzet |-> m.budzet + subsydium - w, podatki |-> m.podatki + p,
       subsydia |-> m.subsydia + subsydium, srodki |-> m.srodki + w - p]

\* The money after all coupons of ks have been paid to g.
Rozliczone(g, ks) ==
  FoldSet(Zaplacone, [budzet |-> budzetCentrali, podatki |-> podatki,
                      subsydia |-> subsydia, srodki |-> srodki[g]], ks)

\* (A mutant: without subsidies; the centre refuses what its budget does not cover.)
wyplacBezSubsydiow(g, ks) ==
  LET m == Rozliczone(g, ks)
      starczy == m.subsydia = subsydia
  IN  /\ budzetCentrali' = IF starczy THEN m.budzet ELSE budzetCentrali
      /\ podatki' = IF starczy THEN m.podatki ELSE podatki
      /\ srodki' = IF starczy THEN [srodki EXCEPT ![g] = m.srodki] ELSE srodki
      /\ sprzedaneKupony' = [k \in Kupon |-> k \in ks \/ sprzedaneKupony[k]]
      /\ zakupioneKupony' = [k \in Kupon |-> (starczy => k \notin ks) /\ zakupioneKupony[k]]
      /\ UNCHANGED <<subsydia, losowania, kupony>>

\* The vendors of the coupons ks mark them as used and the centre pays them to g.
wyplac(g, ks) ==
  LET m == Rozliczone(g, ks)
  IN  /\ budzetCentrali' = m.budzet
      /\ podatki' = m.podatki
      /\ subsydia' = m.subsydia
      /\ srodki' = [srodki EXCEPT ![g] = m.srodki]
      /\ sprzedaneKupony' = [k \in Kupon |-> k \in ks \/ sprzedaneKupony[k]]
      /\ zakupioneKupony' = [k \in Kupon |-> k \notin ks /\ zakupioneKupony[k]]
      /\ UNCHANGED <<losowania, kupony>>

\* A coupon whose vendor does not refuse it.
Wazny(k) == zakupioneKupony[k] /\ ~sprzedaneKupony[k]

\* (A mutant: the last draw of a coupon has to lie further back.)
DzialajOdbierzPozniej(g) ==
  LET ks == {k \in Kupon_of(g) : ostatnieLosowanie(k) + 1 < numerKolejnegoLosowania /\ Wazny(k)}
  IN  ks # {} /\ wyplac(g, ks)

\* dzialajOdbierz: the player claims every coupon whose draws are over; a refusal
\* (OszustwoGracza) is caught and changes nothing.
DzialajOdbierz(g) ==
  LET ks == {k \in Kupon_of(g) : Skonczony(k) /\ Wazny(k)}
  IN  ks # {} /\ wyplac(g, ks)

\* (A mutant: the draws held so far are paid and the coupon is spent.)
WykorzystajCzesciowo(k) == ~Skonczony(k) /\ Wazny(k) /\ wyplac(kupony[k].gracz, {k})

\* wykorzystajKupon before the last draw: the vendor marks the coupon, then the
\* centre asks the next draw for its result and fails on null (an exception nobody
\* catches), before any money has moved.
WykorzystajZaWczesnie(k) ==
  /\ ~Skonczony(k) /\ Wazny(k)
  /\ sprzedaneKupony' = [sprzedaneKupony EXCEPT ![k] = TRUE]
  /\ UNCHANGED <<losowania, kasa, kupony, zakupioneKupony, srodki>>

\* wykorzystajKupon of a coupon whose draws are over.
WykorzystajKupon(k) == Skonczony(k) /\ Wazny(k) /\ wyplac(kupony[k].gracz, {k})

Next ==
  \/ \E g \in Gracze : KupLosowy(g) \/ DzialajKup(g) \/ DzialajOdbierz(g)
  \/ PrzeprowadzLosowanie
  \/ \E k \in Kupon : WykorzystajZaWczesnie(k) \/ WykorzystajKupon(k)

\* Main lets every player collect in each of its rounds; nobody has to buy or draw.
Fairness == WF_vars(\E g \in Gracze : DzialajOdbierz(g))

Spec == Init /\ [][Next]_vars /\ Fairness

-----------------------------------------------------------------------------
(***************************************************************************)
(* Properties.                                                             *)
(***************************************************************************)
Cena(k) == cena(kupony[k].zaklady, kupony[k].losowan)
Nagrody(k) == wartoscNagrod(kupony[k].zaklady, kupony[k].losowan)

\* No money appears or vanishes: what the players paid is with the centre, with the
\* state or set aside for prizes, what they were paid came from the centre and the
\* subsidies, and the centre is never overdrawn.
LedgerBalances ==
  /\ SumOf(srodki) + budzetCentrali + podatki + SumOf([k \in Kupon |-> Nagrody(k)])
       = SumOf(Srodki) + subsydia
  /\ budzetCentrali >= 0

\* What coupon k is worth after the draws held so far: the sum of its prizes, a
\* high one less a tenth of it.
Netto(w) == IF w > WYSOKANAGRODA THEN w - (w * 10) \div 100 ELSE w
Bierze(i, k) == i \in kupony[k].pierwsze..ostatnieLosowanie(k)
Wartosc(k) ==
  SumOf([p \in {q \in (DOMAIN losowania) \X (DOMAIN kupony[k].zaklady) :
                  Bierze(q[1], k) /\ odbyte(losowania[q[1]])} |->
           Netto(wygrana(losowania[p[1]], kupony[k].zaklady[p[2]]))])

\* Every player has what is left of its money after the purchases, and the worth of
\* each coupon it has cashed, once: no later draw or payment changes that worth.
PaidOnceInFull ==
  \A g \in Gracze :
    srodki[g] = Srodki[g] - SumOf([k \in Kupon_of(g) |-> Cena(k)])
                + SumOf([k \in {j \in Kupon_of(g) : ~zakupioneKupony[j]} |-> Wartosc(k)])

Udzial(i, k) == IF Bierze(i, k) THEN Nagrody(k) \div kupony[k].losowan ELSE 0
Stawki(i, k) == IF Bierze(i, k) THEN Len(kupony[k].zaklady) ELSE 0

\* The jackpot draw i inherits from the draws before it that nobody won.
Jackpot[i \in Nat] ==
  IF i <= 1 THEN 0
  ELSE LET l == losowania[i - 1]
       IN  IF odbyte(l) /\ l.liczbaWygranych[1] = 0
           THEN Jackpot[i - 1] + (l.pulaNagrod * 44) \div 100
           ELSE 0

\* The prize money of a draw is the shares of the coupons that cover it and what
\* the draw before it handed on; the bets it knows are those of these coupons, so
\* nobody joins a draw already held; each of them is counted in one tier; and the
\* first pool of an open draw is the jackpot nobody has won yet.
PoolsAddUp ==
  \A i \in DOMAIN losowania :
    LET l == losowania[i]
    IN  /\ l.pulaNagrod = SumOf([k \in Kupon |-> Udzial(i, k)])
             + (IF i > 1 /\ odbyte(losowania[i - 1]) THEN przeniesione(losowania[i - 1]) ELSE 0)
        /\ Len(l.zaklady) = SumOf([k \in Kupon |-> Stawki(i, k)])
        /\ odbyte(l) => SumOf(l.liczbaWygranych) = Len(l.zaklady)
        /\ ~odbyte(l) => l.pulaStopnia[1] = Jackpot[i]

\* The strategies: a fixed-number player is never in one draw twice, a fixed-slip
\* player buys at intervals of exactly coIle draws.
StrategiesKept ==
  \A g \in Gracze : \A k, l \in Kupon_of(g) : k < l =>
    /\ Rodzaj[g] = "Staloliczbowy" => ostatnieLosowanie(k) < kupony[l].pierwsze
    /\ Rodzaj[g] = "Staloblankietowy" /\ (\A j \in Kupon_of(g) : j <= k \/ j >= l)
         => kupony[l].pierwsze - kupony[k].pierwsze = coIle

\* A coupon is spent without being paid only if it is claimed before its last draw.
LostOnlyByEarlyClaim ==
  [][\A k \in Kupon : ~sprzedaneKupony[k] /\ sprzedaneKupony'[k] /\ zakupioneKupony'[k]
        => ~Skonczony(k)]_vars

\* Again and again no coupon is left whose draws are over and whose prize nobody
\* has asked for.
CouponsAreCollected == []<>(\A k \in Kupon : Skonczony(k) => sprzedaneKupony[k])
=============================================================================
