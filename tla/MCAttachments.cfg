SPECIFICATION FairSpec
CONSTANTS
  File = {f1, f2}
  Temp = {t1}
  Upload = {u1, u2}
  Dir = Dir
  None = None
  Grace = 2
  MaxFiles = 2
  MaxCrashes = 1
INVARIANTS
  RowsOnDisk
PROPERTIES
  OrphansReclaimed
  NothingLeft
