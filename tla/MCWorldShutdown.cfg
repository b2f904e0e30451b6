CONSTANTS
  Players = {p1, p2}
  RateNum = 147
  RateDen = 100
  Times = {0, 1, 2, 4}
  MaxTimer = 4
  MaxElapsed = 2
  MaxCommands = 3

SPECIFICATION Spec

INVARIANTS
  CleanStopSaves
  CancelIsFinal
  IdleShutdownSparesPlayers

PROPERTIES
  ShutdownHappens
