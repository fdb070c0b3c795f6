SPECIFICATION Spec
CONSTANTS
  Handlers = {h1}
  MaxClaims = 2
  MaxFaults = 1
  MaxMoves = 1
  Endings = {"parked", "done", "exhausted"}
  LEASE_TTL = 2
  DetectAfter = 2
  TICKET_PROVIDER = "ddb"
  DetectorMode = "shadow"
  ReconcileMode = "off"
INVARIANTS
  StampIsOwn
PROPERTIES
  LockSpec
CHECK_DEADLOCK FALSE
