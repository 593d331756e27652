SPECIFICATION Spec
CONSTANTS
  r1 = r1
  r2 = r2
  Runs <- TwoRuns
  NoRun = NoRun
  Accounts = 2
  Interval = 4
  Tolerance = 1
  LeaseTime = 2
  RunImmediately = {TRUE, FALSE}
  Timely = TRUE
  MaxTime = 8
  MaxRestarts = 2
SYMMETRY MCSymmetry
CHECK_DEADLOCK FALSE
INVARIANTS
  TypeOK
  OneDispatcher
PROPERTIES
  DispatchesAreSpaced
  LeaseIsOwned
