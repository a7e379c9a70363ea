CONSTANTS
  Variables = {x, y}
\* A name is a number, as an index is: TLC orders states by comparing parts.
  Names = {1}
  Addresses = {a, b, c}
  Stack = Stack
  NULL = NULL
  MaxParts = 3
SPECIFICATION Spec
SYMMETRY Symmetry
INVARIANTS
  CountsHandles
  LeaksAreCycles
PROPERTIES
  ImplementsGraph
\* A read after deletion ends what the code defines.
CHECK_DEADLOCK FALSE
