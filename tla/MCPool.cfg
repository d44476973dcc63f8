SPECIFICATION FairSpec
CONSTANTS
  Callers = {p, q, r}
  Terminable = {}
  PoolSize = 2
  MaxCalls = 2
  MaxRestarts = 0
  MaxIndex = 4
  NULL = NULL
INVARIANTS
  TypeOK
  PoolIsBounded
  ResultIsReady
PROPERTIES
  EveryCallReturns
CHECK_DEADLOCK FALSE
