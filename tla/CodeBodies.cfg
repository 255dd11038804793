SPECIFICATION Spec
CONSTANTS
  Label <- Labels
  Fragment <- AllFragments
  Continues <- SameFamily
  ShortMax = 32767
  MaxCodeLength = 65535
  MaxStack = 65535
  MaxLocals = 65535
  ArgSlots = 1
  maxReplays = 10
  MaxBody = 41
INVARIANTS BranchesLand SwitchesLand DepthsAgree TablesAreCurrent FewBranchesConverge
CHECK_DEADLOCK FALSE
