SPECIFICATION FairSpec
CONSTANTS
  Name = {"blog", "wiki", "home-warden-web-ui"}
  Key = {"b.org", "w.org"}
  Body = {"plain", "odd", "invalid"}
  ValidBody = {"plain", "odd"}
  RenderableBody = {"plain"}
  Keep = Keep
  Null = Null
  Request = {r1, r2}
  Edits <- MCEdits
  HandWritten <- Catalogs
  WebUiName = "home-warden-web-ui"
  NoFqdn = NoFqdn
  None = None
  MaxRequests = 2
  MaxMoves = 1
INVARIANTS
  TypeOK
  UniqueIdentifiers
  NeverWedged
PROPERTIES
  OnlyTestedIsPersisted
  ImplementsAtomicCatalog
  EveryRequestEnds
CHECK_DEADLOCK FALSE
