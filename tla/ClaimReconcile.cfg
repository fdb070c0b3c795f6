SPECIFICATION Spec
CONSTANTS
  Handlers = {h1, h2}
  MaxClaims = 4
  MaxFaults = 0
  MaxMoves = 0
  Endings = {"silent"}
  LEASE_TTL = 2
  DetectAfter = 2
  TICKET_PROVIDER = "ddb"
  DetectorMode = "off"
  ReconcileMode = "enforce"
SYMMETRY Interchangeable
INVARIANTS
  RetryBudget
PROPERTIES
  EscalationHolds
CHECK_DEADLOCK FALSE
