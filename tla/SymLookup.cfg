SPECIFICATION FairSpec
CONSTANTS
  G1 = G1
  G2 = G2
  A = A
  AB = AB
  C = C
  D = D
  Nobody = Nobody
  Goroutine <- Two
  Name <- Names
  OnPath <- Files
  Unreadable = {C}
  Rows <- Nesting
  Source = {A}
  MaxCalls = 3
INVARIANTS OneSymbolPerFile SourceWins CompletedOnce
PROPERTIES CallsReturn
CHECK_DEADLOCK FALSE
