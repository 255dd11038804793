SPECIFICATION Spec
CONSTANTS
  MaxPoolIndex = 11
  MaxUtf8 = 9
  MaxCalls = 3
  MaxDims = 2
  MaxArgSlots = 4
  Descriptors <- Tried
  Versions <- SomeVersions
  Names <- SomeNames
  FlagSets <- SomeFlags
  FieldArgs <- SomeFields
  MethodArgs <- SomeMethods
  Literals <- SomeLiterals
  Bodies <- SomeBodies
  Foreign <- Others
  ReadModes <- SomeModes
  MayCut <- Cuttable
INVARIANTS WrittenIffLegal DescriptorsParse ReadsBack DamageRefused PoolSound RawIsExact
CHECK_DEADLOCK FALSE
