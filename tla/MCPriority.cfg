SPECIFICATION Spec
CONSTANTS
  a = a
  b = b
  c1 = c1
  c2 = c2
  Item = {a, b}
  Last <- ThreeAndOne
  Level = {0, 1}
  Caller = {c1, c2}
  Cancel = Cancel
  Requests <- CancelAndChunk
  None = None
CHECK_DEADLOCK FALSE
INVARIANTS TypeOK PrioritiesAgree
PROPERTIES ImplementsLifecycle CancellationsTakeAll
