SPECIFICATION Spec
CONSTANTS
  Handlers = {h1, h2}
  MaxClaims = 3
  MaxFaults = 0
  MaxMoves = 0
  Endings = {"silent"}
  LEASE_TTL = 2
  DetectAfter = 2
  TICKET_PROVIDER = "jira"
  DetectorMode = "enforce"
  ReconcileMode = "enforce"
SYMMETRY Interchangeable
PROPERTIES
  EscalationHolds
CHECK_DEADLOCK FALSE
