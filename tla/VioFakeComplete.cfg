SPECIFICATION Spec
CONSTANTS
  Invs = {i1}
  Routes = {r1}
  OpenPhases = {"intake"}
  FirstPhase = "intake"
  InvLimit = 1
  StaleWindow = 2
  IndexLags = FALSE
  MaxMishaps = 1
INVARIANT NeverFakeComplete
