SPECIFICATION Spec
CONSTANTS
  Callers = {p, q}
  Foreign = {f}
  Worker = Worker
  Entering = {Worker, f}
  MaxInvocations = 3
  CallerCalls = 1
  HandlerCalls = 1
  Restarts = "quiet"
  NULL = NULL
INVARIANTS
  ReturnsMatchLoops
  OnlyReturnsLeakTasks
  PopsItsOwn
CHECK_DEADLOCK FALSE
