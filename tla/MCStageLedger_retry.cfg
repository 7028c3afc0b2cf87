SPECIFICATION Spec
CONSTANTS
  Item = {w1}
  MaxIndex = 0
  Input = {in1}
  NoInput = NoInput
  MaxAttempt = 2
  MaxSweep = 2
  MaxFault = 2
INVARIANTS StateMatchesAttempt SuccessIsRecorded
PROPERTIES OutcomeIsImmutable FinalItemStaysPut DeadAttemptsAreSwept
