SPECIFICATION Spec
CONSTANTS
  Bodies <- AllBodies
  MayThrow <- Throws
  MaxLabels = 50
  MaxSteps = 8
  MaxTape = 4
  WordBits = 64
INVARIANTS
  
  BlankWrittenOnce
  CheckedAreDeclared
  NoFallOff
  PlainEmits
 
CHECK_DEADLOCK FALSE
