SPECIFICATION FairSpec
CONSTANTS
  Callers = {c1, c2}
  Tickets = {t1, t2}
  FollowUps = {t2}
  Epics = {e1, e2}
  Nobody = Nobody
  MaxMishaps = 1
INVARIANTS
  TypeOK
  CloseoutHonest
  OnePostRunEpic
PROPERTIES
  ResumeSparesSessions
  CloseoutCompletes
CHECK_DEADLOCK FALSE
