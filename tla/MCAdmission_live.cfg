SPECIFICATION Spec
CONSTANTS
  a = a
  b = b
  c = c
  d = d
  Item = {a, b}
  MaxIndex = 1
  Input = {x}
  NoInput = none
  Pass = {p}
  Rank <- RankOf
  StageAt <- OnePipeline
  ControlCount = 3
  StageOf <- EachStage
  Selects <- AllThenA
  Wide = {1, 2}
  MaxCapacity = 1
  BatchSize = 1
  MaxSkips = 3
  MaxFault = 1
PROPERTIES RoomIsUsed
