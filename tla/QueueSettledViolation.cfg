SPECIFICATION Spec
CONSTANTS
  t1 = t1
  t2 = t2
  s1 = s1
  s2 = s2
  NoOwner = NoOwner
  TaskIds <- MCOneTask
  Slots <- MCOneSlot
  MaxAttempt = 2
  Kind = "media"
  FaultKinds = {"publish_reply_lost"}
  MaxFaults = 1
CHECK_DEADLOCK FALSE
PROPERTIES
  SettledIsFinal
