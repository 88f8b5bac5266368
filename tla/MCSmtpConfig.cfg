SPECIFICATION Spec
CONSTANTS
  Request = {r1, r2}
  Relay = {a, b}
  Password = {p, q}
  Blank = Blank
  Missing = Missing
  Fqdn = {"ui.org"}
  None = None
  Malformed = Malformed
  MaxRequests = 3
INVARIANTS
  OtherKeysKept
  PasswordOfItsRelay
  MalformedIsKept
CHECK_DEADLOCK FALSE
