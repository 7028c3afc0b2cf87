SPECIFICATION Spec
CONSTANTS
  Run = {run}
  MaxAttempt = 2
  MaxFault = 3
  local = local
  here = here
  there = there
  padded = padded
  blank = blank
  None = none
  LocalId = local
  Identity = {local, here, there}
  Field = {local, here, there, padded, blank}
  Strip <- StripPadding
INVARIANTS TypeOK HistoryIsFailures
PROPERTIES OutcomeIsImmutable CompletionsAreDecided
