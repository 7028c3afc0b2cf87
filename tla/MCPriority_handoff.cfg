SPECIFICATION Spec
CONSTANTS
  a = a
  b = b
  c1 = c1
  c2 = c2
  Item = {a}
  Last <- One
  Level = {0, 1}
  Caller = {c1}
  Cancel = Cancel
  Requests <- OneChange
  None = None
CHECK_DEADLOCK FALSE
PROPERTIES OnlyStaleCompletionsAreRejected
