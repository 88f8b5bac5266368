SPECIFICATION Spec
CONSTANTS
  Runner = {timer}
  Timers = {timer}
  Order <- MCOrder
  Cooldown = 1
  Window = 3
  MaxAttempts = 1
  Resend = 2
  RunLimit = 1
  StartClock = 4
  MaxClock = 8
  MaxPasses = 3
INVARIANTS
  HardCap
CHECK_DEADLOCK FALSE
