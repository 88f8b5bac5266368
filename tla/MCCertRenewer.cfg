SPECIFICATION FairSpec
CONSTANTS
  Domain = {"www", "git"}
  Configured = {"www"}
  Runner = {"unit", "heal", "operator"}
  Unit = "unit"
  Heal = "heal"
  Nobody = "nobody"
  Listed <- MCListed
  MaxRuns = 1
  MaxFaults = 1
  MaxExpiries = 1
INVARIANTS
  TypeOK
  KeysGetShared
PROPERTIES
  IntactStaysInPlace
  AppliedMeansTended
  ServedAfterSuccess
  EveryCertIsRenewed
