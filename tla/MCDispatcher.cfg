SPECIFICATION Spec
CONSTANTS
  r1 = r1
  r2 = r2
  stage = stage
  other = other
  completion = completion
  x = x
  y = y
  Registration = {r1, r2}
  Workflow = {stage, other, completion}
  Stage = {stage, other}
  Registry <- Registries
  Execution = {x, y}
  WorkflowOf <- StageAndCompletion
  MaxFault = 2
  None = None
INVARIANTS TypeOK OwnerHoldsAll ReadyIsWhole ShutdownIsFinal
PROPERTIES ClosedIsReleased
