SPECIFICATION FairSpec
CONSTANTS
  k1 = k1
  None = None
  Payments = {p1}
  Requests = {q1, q2}
  Reviews = {v1, v2}
  Processes = {x1}
  Batches = {b1}
  Key <- MCKey
  Endpoints = 2
  MaxRetries = 1
  MaxCrashes = 1
INVARIANTS
  TypeOK
  RecordedMeansSent
  SentMeansApproved
PROPERTIES
  ProcessingEnds
CHECK_DEADLOCK FALSE
