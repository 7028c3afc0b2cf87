SPECIFICATION Spec
CONSTANTS
  a = a
  b = b
  c = c
  d = d
  Item = {a}
  MaxIndex = 2
  Input = {x}
  NoInput = none
  Pass = {p, q}
  Rank <- RankOf
  StageAt <- FanOut
  ControlCount = 3
  StageOf <- ThenSecond
  Selects <- AllThenA
  Wide = {1, 2}
  MaxCapacity = 2
  BatchSize = 2
  MaxSkips = 2
  MaxFault = 2
INVARIANTS TypeOK
PROPERTIES AdmissionsRespectControls ImplementsLifecycle
