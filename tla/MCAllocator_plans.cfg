SPECIFICATION Spec
CONSTANTS
  duo = duo
  trio = trio
  None = None
  Bands = {duo, trio}
  Days = {0, 1}
  STEP = 2
  Inputs <- MCInputs
INVARIANTS PlanInv NobodyGains
CHECK_DEADLOCK FALSE
