SPECIFICATION Spec
CONSTANTS
  Runner = {timer, operator}
  Timers = {timer}
  Order <- MCOrder
  Cooldown = 1
  Window = 2
  MaxAttempts = 2
  Resend = 2
  RunLimit = 1
  StartClock = 4
  MaxClock = 7
  MaxPasses = 3
INVARIANTS
  BudgetKept
  InboxMatchesFile
PROPERTIES
  RemindersOnTime
  ImplementsHealBudget
CHECK_DEADLOCK FALSE
