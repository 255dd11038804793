SPECIFICATION FairSpec
CONSTANTS
  G1 = G1
  G2 = G2
  A = A
  B = B
  C = C
  D = D
  E = E
  Nobody = Nobody
  Goroutine <- Two
  Class <- Classes
  Bounds <- ProgramBounds
  Supers <- ProgramSupers
  Signature <- ProgramSignature
  MaxCalls = 2
INVARIANTS CompletedOnce
PROPERTIES CallsReturn
CHECK_DEADLOCK FALSE
