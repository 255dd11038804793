SPECIFICATION Spec
CONSTANTS
  Names = {"a", "b", "c"}
  MaxDepth = 12
  MaxResync = 3
  Inputs <- AllInputs
  Units <- Written
  Modes <- BothModes
INVARIANTS Faithful Understood Diagnosed SpinsBounded
CHECK_DEADLOCK FALSE
