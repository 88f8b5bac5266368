SPECIFICATION Spec
CONSTANTS
  None = None
  Malformed = Malformed
  Fold <- MCFold
  Octets = 2
  ReverseRoot <- MCReverseRoot
  Doc <- MCDoc
  Refused = Refused
  Elsewhere = Elsewhere
  MaxFileEdits = 2
INVARIANTS
  NothingBlockedIsServed
  OkMeansServed
  FailureIsTheConfiguration
CHECK_DEADLOCK FALSE
