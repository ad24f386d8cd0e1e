SPECIFICATION FairSpec
CONSTANTS
  p1 = p1
  p2 = p2
  Payments = {p1, p2}
  SameToken = {p2}
  Presigned = {p1}
  OneSigner = {p1}
  MaxAttempts = 3
  MaxFaults = 1
  MaxCrashes = 1
CHECK_DEADLOCK FALSE
INVARIANTS
  TypeOK
  OneSwapBeyondDoubt
  StatusAgreesWithChain
PROPERTIES
  SwapEnds
