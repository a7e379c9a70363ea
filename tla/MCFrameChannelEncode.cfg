CONSTANTS
  LengthBytes = 2
  Frames <- SomeFrames
  Noise = {}
  MaxFrames = 2
  MaxLinks = 1
SPECIFICATION Spec
PROPERTIES
  EveryFrameArrives
CHECK_DEADLOCK FALSE
