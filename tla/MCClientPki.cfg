SPECIFICATION PkiSpec
CONSTANTS
  Device = {phone}
  Proc = {p, q}
  None = None
  Missing = Missing
  Empty = Empty
  MaxSerial = 3
  MaxCommands = 4
  MaxMoves = 1
INVARIANTS
  NoDeviceIsCutOff
  HintsAreComplete
  BackupIsWhole
PROPERTIES
  NothingIsForgotten
SYMMETRY Symmetry
CHECK_DEADLOCK FALSE
