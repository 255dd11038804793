SPECIFICATION Spec
CONSTANTS
  MaxPoolIndex = 5
  MaxUtf8 = 3
  Text <- Texts
  Pair <- Pairs
  Member <- Members
  Half <- Halves
  Full <- Fulls
  MaxLate = 1
INVARIANTS IndexesStand OneEach RefusedWithReason
CHECK_DEADLOCK FALSE
