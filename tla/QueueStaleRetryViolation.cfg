SPECIFICATION Spec
CONSTANTS
  t1 = t1
  t2 = t2
  s1 = s1
  s2 = s2
  NoOwner = NoOwner
  TaskIds <- MCTaskIds
  Slots <- MCSlots
  MaxAttempt = 2
  Kind = "sync"
  FaultKinds = {"worker_crash"}
  MaxFaults = 1
SYMMETRY MCSymmetry
CHECK_DEADLOCK FALSE
INVARIANTS
  LockIsBacked
