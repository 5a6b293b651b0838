SPECIFICATION FairSpec
CONSTANTS
  MaxTurns = 2
  MaxTexts = 1
  MaxConnections = 2
  FirstMayFail = FALSE
  MayDisconnect = FALSE
PROPERTIES
  RunsEnd
  GenerationAborted
  Reconnects
