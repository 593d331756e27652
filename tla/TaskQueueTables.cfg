SPECIFICATION FairSpec
CONSTANTS
  t1 = t1
  t2 = t2
  s1 = s1
  s2 = s2
  NoOwner = NoOwner
  TaskIds <- MCOneTask
  Slots <- MCSlots
  MaxAttempt = 2
  Kind = "media"
  FaultKinds = {"lost_record", "publish_fails", "publish_reply_lost", "producer_crash", "rollback_write_fails", "required_write_fails", "schedule_fails", "lock_expires", "scheduler_crash", "worker_crash", "redelivery", "schedule_unknown", "reserve_reply_lost", "call_raises", "release_logged"}
  MaxFaults = 2
CHECK_DEADLOCK FALSE
PROPERTIES
  TCSpec
  EveryTaskEnds
