SPECIFICATION FairSpec
CONSTANTS
  Callers = {p}
  Foreign = {}
  Worker = Worker
  Entering = {Worker}
  MaxInvocations = 4
  CallerCalls = 2
  HandlerCalls = 2
  Restarts = "never"
  NULL = NULL
INVARIANTS
  TypeOK
  StacksAgree
PROPERTIES
  ImplementsNesting
  EveryCalloutReturns
  EveryCallbackReturns
CHECK_DEADLOCK FALSE
