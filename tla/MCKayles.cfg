CONSTANTS
  Players = {p1, p2}
  NoPlayer = NoPlayer
  MaxPawn = 1
  InitialRow <- FullRow
  CounterSize = 2
  Timeout = 1
  MaxGameId = 1
  NoGame = NoGame
  MaxClock = 3
SPECIFICATION FairSpec
INVARIANTS
  TypeOK
  PawnsCounted
  ServedGamesAreFresh
  RetainedFromTheEnd
  ScheduleConsistent
  OneWaitingGame
  IdsHandedOut
PROPERTIES
  TimeoutVerdict
  MoverHoldsTurn
  RemovedOnlyAfterSilence
  CleanupTerminates
  ImplementsMatch
