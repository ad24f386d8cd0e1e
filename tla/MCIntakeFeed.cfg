SPECIFICATION FairSpec
CONSTANTS
  p1 = p1
  s1 = s1
  w1 = w1
  w2 = w2
  p2 = p2
  t3 = t3
  t1 = t1
  t2 = t2
  None = None
  ExpiryJob = job
  MaxCrashes = 1
  Intents = {p1, p2}
  Sessions = {}
  Wallets = {w1}
  Transfers = {t1, t2, t3}
  Sender <- MCSender
  Reference <- MCReference
  Exact = {t1, t3}
  SameToken = {t1}
  Visits = {}
  Confirms = {}
  FeedHooks = {f1, f2}
  RefHooks = {r1, r2}
INVARIANTS
  TypeOK
  PaidInFull
  ReportActedOnOnce
PROPERTIES
  DuePaymentsEnd
