SPECIFICATION Spec
CONSTANTS
  t1 = t1
  t2 = t2
  s1 = s1
  s2 = s2
  Foreign = foreign
  None = none
  Quotes = {q1}
  Txs = {t1, t2}
  Submits = {s1}
  Target <- AnyTarget
  SolanaHooks = {w1}
  MonnifyHooks = {}
  ProviderHooks = {}
  Ngn = {t1}
  WalletIds = {t1}
  Closable = {t1}
  Slow = {t1}
  ForeignDeposits = {foreign}
  LostReplies = {"broadcast", "disburse"}
  MaxCrashes = 1
CHECK_DEADLOCK FALSE
INVARIANT TypeOK
INVARIANT OneOrderPerTransaction
PROPERTY KeepsPromise
PROPERTY AdmissionClosedByMark
