SPECIFICATION Spec
CONSTANTS
  P1 = P1
  Proc <- OneProc
  Inode <- Inodes
  Chunks = 2
  MaxRevision = 2
  MaxCalls = 5
  MaxCrashes = 3
  Options = {"force", "remove"}
INVARIANTS WholeJar
PROPERTIES FetchedIsUsable
CHECK_DEADLOCK FALSE
