SPECIFICATION FairSpec
CONSTANTS
  t1 = t1
  t2 = t2
  s1 = s1
  s2 = s2
  Foreign = foreign
  None = none
  Quotes = {q1}
  Txs = {t1}
  Submits = {s1, s2}
  Target <- AnyTarget
  SolanaHooks = {w1}
  MonnifyHooks = {m1}
  ProviderHooks = {}
  Ngn = {t1}
  WalletIds = {}
  Closable = {}
  Slow = {t1}
  ForeignDeposits = {}
  LostReplies = {}
  MaxCrashes = 0
CHECK_DEADLOCK FALSE
PROPERTY SignedOnce
PROPERTY DepositResolved
PROPERTY AwaitingSignatureTimesOut
