SPECIFICATION Spec
CONSTANTS
  S1 = S1
  S2 = S2
  NoStream = NoStream
  Stream <- OneStream
  BufferCap = 1
  MaxSent <- OneEach
  MaxWrites = 1
  Events = {}
INVARIANTS Framed
CHECK_DEADLOCK FALSE
