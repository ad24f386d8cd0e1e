SPECIFICATION FairSpec
CONSTANTS
  Direct = {d1}
  Queued = {q1}
  MaxAttempts <- MCMaxAttempts
  MaxFaults = 1
  MaxCrashes = 2
INVARIANTS
  TypeOK
  SuccessMeansAccepted
  AttemptsBounded
PROPERTIES
  SuccessStays
  JobsSurvive
  TimersEnd
CHECK_DEADLOCK FALSE
