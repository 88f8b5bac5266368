SPECIFICATION Spec
CONSTANTS
  Runner = {timer, operator}
  Timer = timer
  Resend = 2
  RunLimit = 1
  MaxClock = 6
  MaxRuns = 1
  MaxFlips = 2
INVARIANTS
  SilenceHasItsMail
  FailureIsReported
  RecoveryIsReported
CHECK_DEADLOCK FALSE
