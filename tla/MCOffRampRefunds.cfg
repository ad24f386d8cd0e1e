SPECIFICATION Spec
CONSTANTS
  t1 = t1
  t2 = t2
  s1 = s1
  s2 = s2
  Foreign = foreign
  None = none
  Quotes = {q1}
  Txs = {t1}
  Submits = {s1, s2}
  Target <- AnyTarget
  SolanaHooks = {w1}
  MonnifyHooks = {m1}
  ProviderHooks = {p1}
  Ngn = {t1}
  WalletIds = {}
  Closable = {}
  Slow = {}
  ForeignDeposits = {foreign}
  LostReplies = {"disburse"}
  MaxCrashes = 0
CHECK_DEADLOCK FALSE
INVARIANT RefundedOnlyIfUnpaid
