SPECIFICATION Spec
CONSTANTS
  a = a
  b = b
  c = c
  d = d
  Item = {a, b, c, d}
  MaxIndex = 0
  Input = {x}
  NoInput = none
  Pass = {p, q}
  Rank <- RankOf
  StageAt <- TwoPipelines
  ControlCount = 2
  StageOf <- EachStage
  Selects <- AllThenA
  Wide = {1, 2}
  MaxCapacity = 0
  BatchSize = 2
  MaxSkips = 3
  MaxFault = 0
INVARIANTS FirstPagesDoNotDeadlock
