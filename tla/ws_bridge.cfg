SPECIFICATION Spec
CONSTANTS
  MaxTurns = 2
  MaxTexts = 1
  MaxConnections = 2
  FirstMayFail = TRUE
  MayDisconnect = TRUE
INVARIANTS
  TypeOK
  NoDeafTurn
  CancelHitsItsTurn
PROPERTIES
  KeepsThePromise
