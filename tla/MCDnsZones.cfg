SPECIFICATION ZonesSpec
CONSTANTS
  None = None
  Malformed = Malformed
  Fold <- MCFold
  Octets = 2
  ReverseRoot <- MCReverseRoot
  Line <- MCLine
  Record <- MCRecord
  MaxLines = 4
  MaxEdits = 2
INVARIANTS
  NothingIsLost
  ConvertedPassesGate
  CleanFileIsAnswered
CHECK_DEADLOCK FALSE
