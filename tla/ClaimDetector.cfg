SPECIFICATION Spec
CONSTANTS
  Handlers = {h1, h2}
  MaxClaims = 2
  MaxFaults = 1
  MaxMoves = 0
  Endings = {"silent"}
  LEASE_TTL = 2
  DetectAfter = 2
  TICKET_PROVIDER = "jira"
  DetectorMode = "enforce"
  ReconcileMode = "off"
SYMMETRY Interchangeable
INVARIANTS
  TypeOK
  OneSessionPerClaim
PROPERTIES
  LockSpec
  ClosedRunStartsNothing
CHECK_DEADLOCK FALSE
