SPECIFICATION Spec
CONSTANTS
  Callers = {p, q, r}
  Terminable = {p, q, r}
  PoolSize = 2
  MaxCalls = 1
  MaxRestarts = 1
  MaxIndex = 8
  NULL = NULL
INVARIANTS
  SemaphoresAreExclusive
