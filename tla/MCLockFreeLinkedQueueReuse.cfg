CONSTANTS
  Producers = {p1, p2}
  Consumers = {c1, c2}
  Nodes = {n1, n2, n3}
  Values = {v1}
  NULL = NULL
  None = None
  Pending = Pending
  Empty = Empty
  RecycleAtOnce = TRUE
SPECIFICATION Spec
PROPERTIES
  TailReleased
CHECK_DEADLOCK FALSE
