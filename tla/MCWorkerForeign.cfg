SPECIFICATION FairSpec
CONSTANTS
  Callers = {p, q}
  Foreign = {f}
  Worker = Worker
  Entering = {f}
  MaxInvocations = 3
  CallerCalls = 2
  HandlerCalls = 1
  Restarts = "never"
  NULL = NULL
INVARIANTS
  FrameOutlivesHandler
PROPERTIES
  EveryCalloutReturns
  EveryCallbackReturns
CHECK_DEADLOCK FALSE
