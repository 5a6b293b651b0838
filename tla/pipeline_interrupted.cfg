SPECIFICATION Spec
CONSTANTS
  MaxUserTurns = 4
  MaxTurns = 2
  MaxInjected = 0
  MaxSentences = 2
  StoreMayFail = FALSE
  MayShutDown = FALSE
INVARIANTS
  HeardOncePerInvocation
  NoSpeechFromLaterTurn
  SpeechAccountedFor
  HeardIsFirstReport
  ShownAsHeard
  CutShortIsMarked
  MapHoldsUnreported
