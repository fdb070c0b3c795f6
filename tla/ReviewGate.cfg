SPECIFICATION FairSpec
CONSTANTS
  Handlers = {h1, h2}
  Settings <- Chosen
  Notes = {n1, adv, cont, both}
  Continue = {cont, both}
  Advisory = {adv, both}
  MaxRounds = 2
  MaxDecisions = 3
  MaxOthers = 1
  MaxTrouble = 1
  MaxJiraDecisions = 2
  MaxDirectTrouble = 0
INVARIANTS
  TypeOK
  OneOpenReview
  NothingLost
  ReworkedOnce
  CapStopsNewRounds
PROPERTIES
  ComesBeforeThePerson
  RejectionAnswered
CHECK_DEADLOCK FALSE
