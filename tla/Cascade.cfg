SPECIFICATION FairSpec
CONSTANTS
  build = build
  design = design
  review = review
  NoTicket = NoTicket
  Tickets = {build, design, review}
  BlockedBy <- MCBlockedBy
  Handlers = {h1, h2}
  LevelTrigger = "enforce"
  SWEEP_CAP = 2
  MaxUpsets = 1
  Completing = {build, design}
  MaxOthers = 2
  Cycle = 2
INVARIANTS
  TypeOK
  NotBeforeItsBlockers
  WindowComesRound
PROPERTIES
  UnblockedIsBegun
CHECK_DEADLOCK FALSE
