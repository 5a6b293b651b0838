SPECIFICATION Spec
CONSTANTS
  MaxUserTurns = 3
  MaxTurns = 4
  MaxInjected = 1
  MaxSentences = 1
  StoreMayFail = FALSE
  MayShutDown = FALSE
INVARIANTS
  InjectedSpeechUntracked
