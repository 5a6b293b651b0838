SPECIFICATION Spec
CONSTANTS
  p1 = p1
  Page = {p1}
  MaxTasks = 3
  MaxCallTurns = 1
  MaxRestarts = 1
INVARIANTS
  TypeOK
  RepliesPaired
  ShownIsLogged
  MixedOnlyAfterError
  ConflictOnlyByRace
PROPERTIES
  Answered
