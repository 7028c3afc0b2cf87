SPECIFICATION Spec
CONSTANTS
  a = a
  Item = {a}
  MaxIndex = 2
  Input = {optim, eval}
  OptimStep = {optim}
  EvalRow = {eval}
  NoInput = none
  RunCount = 3
  Member <- FirstHasMember
  Broken = {2}
  BatchSize = 1
  CandidateBudget = 2
  MaxFault = 1
INVARIANTS TypeOK PassIsBounded RecordedSuccessHolds EpisodeIsComplete
PROPERTIES SettledRunsAreReleased EpisodeIsStable
