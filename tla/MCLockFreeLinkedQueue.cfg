CONSTANTS
  Producers = {p1, p2}
  Consumers = {c1, c2}
  Nodes = {n1, n2, n3}
  Values = {v1, v2}
  NULL = NULL
  None = None
  Pending = Pending
  Empty = Empty
  RecycleAtOnce = TRUE
SPECIFICATION Spec
SYMMETRY Blocks
INVARIANTS
  TypeOK
  LocksExclusive
  CountAgrees
  HeapIsList
PROPERTIES
  Linearizable
\* A push that loses the tail for good stops the whole queue.
CHECK_DEADLOCK FALSE
