SPECIFICATION Spec
CONSTANTS
  Callers = {p, q}
  Foreign = {}
  Worker = Worker
  Entering = {Worker}
  MaxInvocations = 2
  CallerCalls = 1
  HandlerCalls = 0
  Restarts = "never"
  NULL = NULL
INVARIANTS
  NoLostWakeup
