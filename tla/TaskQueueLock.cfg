SPECIFICATION Spec
CONSTANTS
  t1 = t1
  t2 = t2
  s1 = s1
  s2 = s2
  NoOwner = NoOwner
  TaskIds <- MCTaskIds
  Slots <- MCSlots
  MaxAttempt = 3
  Kind = "sync"
  FaultKinds = {"lost_record", "publish_fails", "required_write_fails", "schedule_fails", "lock_expires", "call_raises"}
  MaxFaults = 3
SYMMETRY MCSymmetry
CHECK_DEADLOCK FALSE
INVARIANTS
  LockIsBacked
  OneExecutor
