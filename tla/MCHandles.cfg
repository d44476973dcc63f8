SPECIFICATION Spec
CONSTANTS
  byte = byte
  point = point
  definition = definition
  sort = sort
  visit = visit
  worker = worker
  call = call
  BasicTypes = {byte}
  StructTypes = {point}
  Definitions = {definition}
  Callbacks = {sort, visit}
  Workers = {worker}
  Calls = {call}
  Members <- MCMembers
  Refs <- MCRefs
  Processes = {p, q}
  Addresses = {1, 2, 3, 4, 5, 6, 7, 8}
  Statics = {0}
  StaticOf <- MCStaticOf
  Malloc <- MCMalloc
  Failures = {"noType", "noMembers", "noOffsets", "badCif", "noClosure", "badClosure"}
  MaxPending = 1
  NULL = NULL
INVARIANTS
  TypeOK
  HandlesOwnMemory
  TypesOutliveUsers
  CallsUseLiveMemory
  LeaksAreBounded
  OnlyEmptiedKeysHideCallbacks
SYMMETRY
  MCSymmetry
