SPECIFICATION Spec
CONSTANTS
  Item = {w1}
  MaxIndex = 2
  Input = {in1}
  NoInput = NoInput
  MaxAttempt = 1
  MaxSweep = 1
  MaxFault = 1
INVARIANTS TypeOK JoinSafe
PROPERTIES ImplementsLifecycle
