SPECIFICATION FairSpec
CONSTANTS
  Handlers = {h1}
  MaxClaims = 4
  MaxFaults = 1
  MaxMoves = 0
  Endings = {"silent"}
  LEASE_TTL = 2
  DetectAfter = 2
  TICKET_PROVIDER = "jira"
  DetectorMode = "enforce"
  ReconcileMode = "off"
INVARIANTS
  RetryBudget
PROPERTIES
  DeadClaimRecovered
  StolenClaimRedriven
CHECK_DEADLOCK FALSE
