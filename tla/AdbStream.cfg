SPECIFICATION Spec
CONSTANTS
  S1 = S1
  S2 = S2
  NoStream = NoStream
  Stream <- OneStream
  BufferCap = 2
  MaxSent <- FourEach
  MaxWrites = 1
  Events = {"close", "shut", "cancel", "drop", "other"}
PROPERTIES StreamsArePipes
CHECK_DEADLOCK FALSE
