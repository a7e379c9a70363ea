CONSTANTS
  MaxStarts = 3
  Throwing <- AllPlaces
SPECIFICATION Spec
INVARIANTS
  FirstShutdownWaits
  SingleWorker
PROPERTIES
  ShutdownReturns
  Quiesces
\* An object that has been started MaxStarts times and shut down stays so.
CHECK_DEADLOCK FALSE
