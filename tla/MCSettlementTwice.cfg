SPECIFICATION Spec
CONSTANTS
  p1 = p1
  p2 = p2
  Payments = {p1, p2}
  Escrowed = {p1, p2}
  Triggers = {c1}
  Dailies = {d1}
  RetryJob = retryJob
  ProviderHooks = {}
  None = none
  LostReplies = FALSE
  ContractErrors = FALSE
  MaxRetries = 3
  MaxAttempts = 3
  MaxCrashes = 0
CHECK_DEADLOCK FALSE
INVARIANT NoPaymentSettledTwice
