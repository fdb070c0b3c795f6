SPECIFICATION Spec
CONSTANTS
  Invs = {i1, i2}
  Routes = {r1}
  OpenPhases = {"intake", "ship"}
  FirstPhase = "intake"
  InvLimit = 1
  StaleWindow = 2
  IndexLags = TRUE
  MaxMishaps = 1
SYMMETRY Interchangeable
INVARIANTS
  TypeOK
  OneFinalizer
  EffectsFollowTheClaim
PROPERTIES
  OutcomeSpec
