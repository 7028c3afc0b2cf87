SPECIFICATION Spec
CONSTANTS
  a = a
  b = b
  c = c
  r1 = r1
  r2 = r2
  s1 = s1
  s2 = s2
  x = x
  y = y
  Submitter = {s1, s2}
  Run = {r1, r2}
  Work = {a, b, c}
  Calls <- TwoCallers
  NoDigest = NoDigest
  None = None
  ChunkSize = 2
  MaxFault = 2
CHECK_DEADLOCK FALSE
INVARIANTS TypeOK ClosedIsDeclared WorkIsAccountedFor
PROPERTIES RegistrationOnlyAdds RegistrationCompletes ImplementsRegistry
