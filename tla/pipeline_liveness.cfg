SPECIFICATION RFairSpec
CONSTANTS
  MaxUserTurns = 2
  MaxTurns = 2
  MaxInjected = 0
  MaxSentences = 2
  StoreMayFail = FALSE
  MayShutDown = TRUE
PROPERTIES
  ContextServed
  HeardWritten
  KeepsThePromise
