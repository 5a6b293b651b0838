SPECIFICATION Spec
CONSTANTS
  MaxUserTurns = 2
  MaxTurns = 3
  MaxInjected = 1
  MaxSentences = 1
  StoreMayFail = TRUE
  MayShutDown = TRUE
INVARIANTS
  TypeOK
  MapHoldsOpenTurns
  JournalOrder
PROPERTIES
  NothingAfterShutdown
