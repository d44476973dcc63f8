SPECIFICATION FairSpec
CONSTANTS
  Callers = {p, q}
  MaxInvocations = 3
  CallerCalls = 2
  HandlerCalls = 1
  NULL = NULL
INVARIANTS
  TypeOK
  ListIsOnTheCStack
  PopsItsOwn
PROPERTIES
  ImplementsNesting
  ReturnsInOrder
CHECK_DEADLOCK FALSE
