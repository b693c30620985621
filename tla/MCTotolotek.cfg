CONSTANTS
  DLUGOSCZAKLADU = 6
  MINIMALNE <- MCMinimalne
  Szostki <- MCSzostki
  Gracze <- MCGracze
  Rodzaj <- MCRodzaj
  Blankiet <- MCBlankiet
  coIle = 1
  Srodki <- MCSrodki
  Zaklady <- MCZaklady
  MAXLICZBALOSOWAN = 2
  MAXLICZBAZAKLADOW = 1
  CENAZAKLADU = 300
  PODATEKODZAKLADU = 60
  NANagrody = 49
  WYSOKANAGRODA = 228000
  MaxKuponow = 3
  MaxLosowan = 2
SPECIFICATION Spec
INVARIANTS
  LedgerBalances
  PaidOnceInFull
  PoolsAddUp
  StrategiesKept
PROPERTIES
  LostOnlyByEarlyClaim
  CouponsAreCollected
\* The simulation ends with its last round.
CHECK_DEADLOCK FALSE
