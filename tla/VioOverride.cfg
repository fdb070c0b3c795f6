SPECIFICATION Spec
CONSTANTS
  Handlers = {h1, h2}
  Settings <- Enforced
  Notes = {adv, cont}
  Continue = {cont}
  Advisory = {adv}
  MaxRounds = 2
  MaxDecisions = 2
  MaxOthers = 0
  MaxTrouble = 1
  MaxJiraDecisions = 0
  MaxDirectTrouble = 0
INVARIANTS
  OverrideHeard
CHECK_DEADLOCK FALSE
