SPECIFICATION Spec
CONSTANTS
  Source = {a, b}
  None = None
  Threshold = 1
  Base = 1
  MaxBackoff = 2
  EntryTTL = 2
  MaxExponent = 1
  Power <- MCPower
  Proc = {p, q}
  Request = {r1, r2}
  Old = Old
  Blank = Blank
  MaxAttempts = 2
  MaxClock = 4
  MaxLogins = 4
INVARIANTS
  SessionsSurvive
  BurstIsBounded
PROPERTIES
  BackoffIsServed
SYMMETRY Symmetry
CHECK_DEADLOCK FALSE
