CONSTANTS
  Byte = {2, 3}
  MaxBytes = 4
  MaxChunk = 3
SPECIFICATION Spec
PROPERTIES
  Streams
