SPECIFICATION FairSpec
CONSTANTS
  p1 = p1
  s1 = s1
  w1 = w1
  w2 = w2
  p2 = p2
  t3 = t3
  t1 = t1
  t2 = t2
  None = None
  ExpiryJob = job
  MaxCrashes = 1
  Intents = {}
  Sessions = {s1}
  Wallets = {w1, w2}
  Transfers = {t1}
  Sender <- MCPageSender
  Reference <- MCPageReference
  Exact = {t1}
  SameToken = {t1}
  Visits = {v1}
  Confirms = {c1}
  FeedHooks = {f1}
  RefHooks = {}
INVARIANTS
  PaidByProvenCustomer
PROPERTIES
  SessionRecorded
  DueSessionsEnd
