SPECIFICATION FairSpec
CONSTANTS
  Callers = {}
  Foreign = {f, g}
  Worker = Worker
  Entering = {f, g}
  MaxInvocations = 2
  CallerCalls = 0
  HandlerCalls = 0
  Restarts = "never"
  NULL = NULL
PROPERTIES
  EveryCallbackReturns
CHECK_DEADLOCK FALSE
