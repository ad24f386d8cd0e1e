SPECIFICATION Spec
CONSTANTS
  p1 = p1
  p2 = p2
  Payments = {p1, p2}
  Escrowed = {}
  Triggers = {c1}
  Dailies = {d1}
  RetryJob = retryJob
  ProviderHooks = {h1}
  None = none
  LostReplies = TRUE
  ContractErrors = FALSE
  MaxRetries = 1
  MaxAttempts = 2
  MaxCrashes = 1
CHECK_DEADLOCK FALSE
SYMMETRY PaymentSymmetry
INVARIANT TypeOK
INVARIANT SettledMeansPaid
PROPERTY KeepsPromise
