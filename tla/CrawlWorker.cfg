SPECIFICATION FairSpec
CONSTANTS
  None = None
  Processes = {p1, p2}
  Stamps <- MCStamps
  MaxFaults = 2
INVARIANTS
  WorkerTypeOK
PROPERTIES
  LockSpec
  RecordedIsKept
  OutcomeIsFinal
  RecordedIsCleared
  RunEnds
