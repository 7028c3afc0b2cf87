SPECIFICATION Spec
CONSTANTS
  a = a
  Item = {a}
  MaxIndex = 2
  Input = {x}
  OptimStep = {x}
  EvalRow = {}
  NoInput = none
  RunCount = 2
  Member <- SharedMember
  Broken = {}
  BatchSize = 1
  CandidateBudget = 2
  MaxFault = 0
PROPERTIES ReleasesOnlySettledRuns
