SPECIFICATION FairSpec
CONSTANTS
  Producers = {p1, p2}
  Consumer = c
  Nodes = {n1, n2, n3}
  Elements = {e1, e2}
  NULL = NULL
INVARIANTS
  TypeOK
  UnlockedReadIsSafe
  SignalsMatchNodes
  HeapIsExact
PROPERTIES
  ImplementsFIFO
  EventuallyTaken
