SPECIFICATION Spec
CONSTANTS
  Package = {"p", "q", "r", "lang"}
  Simple = {"A", "B", "C", "Z"}
  JavaLang = "lang"
  OnPath <- Path
  Batches <- AllBatches
  MaxErrors = 2
  Emits = {"class", "jar"}
  Faults = {"path", "read", "create", "write", "panic"}
INVARIANTS ExitIsHonest NoClobber NamesMeanJLS
CHECK_DEADLOCK FALSE
