CONSTANTS
  LengthBytes = 4
  Frames <- SomeFrames
  Noise = {3}
  MaxFrames = 2
  MaxLinks = 2
SPECIFICATION Spec
INVARIANTS
  SizeStillHolds
  InOrder
PROPERTIES
  EveryFrameArrives
  DataThreadStops
CHECK_DEADLOCK FALSE
