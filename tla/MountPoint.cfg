SPECIFICATION FairSpec
CHECK_DEADLOCK FALSE
CONSTANTS
  Thread = {t1, t2, t3}
  NoThread = NoThread
  Condition = {wait}
  Client = {c1, c2, c3}
  NoClient = NoClient
  Limits = {0, 2, 3}
  MaxCalls = 2
  MaxDepth = 2
INVARIANT PoolAccount
PROPERTY PoolGuarded
PROPERTY KeepsPromise
PROPERTY EveryCallReturns
