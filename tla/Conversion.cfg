SPECIFICATION Spec
CONSTANTS
  t1 = t1
  o1 = o1
  o2 = o2
  n1 = n1
  n2 = n2
  TaskIds <- MCTaskIds
  MaxAttempt = 3
  Old <- MCOld
  New <- MCNew
  MaxFaults = 2
SYMMETRY MCSymmetry
INVARIANTS
  ConversionTypeOK
  CurrentIsNewest
  RowMatchesAttempt
  RetryHasDeadline
  ServedFilesIntact
  RecoveryIsAccepted
  AdoptedTasksHaveEnded
PROPERTIES
  SettledOnlyAdvances
  AttemptNeverDecreases
  NewWritesSurvive
