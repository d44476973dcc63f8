SPECIFICATION Spec
CONSTANTS
  Callers = {p, q}
  Terminable = {p}
  PoolSize = 2
  MaxCalls = 1
  MaxRestarts = 0
  MaxIndex = 3
  NULL = NULL
INVARIANTS
  ResultIsReady
