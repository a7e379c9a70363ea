CONSTANTS
  Lists = {l1, l2}
  NULL = NULL
  MaxMessages = 3
SPECIFICATION Spec
INVARIANTS
  OnceAndInOrder
  NothingLeftBehind
  ListsAlive
PROPERTIES
  Drains
\* The end: the destructor is done.
CHECK_DEADLOCK FALSE
