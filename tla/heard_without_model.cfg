SPECIFICATION Spec
CONSTANTS
  MaxUserTurns = 2
  MaxTurns = 2
  MaxInjected = 0
  MaxSentences = 1
  StoreMayFail = FALSE
  MayShutDown = FALSE
INVARIANTS
  HeardFollowsItsModel
