SPECIFICATION FairSpec
CONSTANTS
  S1 = S1
  S2 = S2
  NoStream = NoStream
  Stream <- TwoStreams
  BufferCap = 1
  MaxSent <- TwoAndNone
  MaxWrites = 0
  Events = {"shut", "cancel"}
INVARIANTS OpenKnowsPeer NobodyOrphaned
PROPERTIES OpensReturn PumpExits
CHECK_DEADLOCK FALSE
