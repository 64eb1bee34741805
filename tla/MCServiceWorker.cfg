SPECIFICATION FairSpec
CONSTANTS
  Request = {r1, r2}
  File = {f1, f2, f3}
  None = None
  MaxFiles = 1
INVARIANTS
  FilesBounded
PROPERTIES
  NetworkWins
  CopyAnswers
  DeadSessionForgotten
