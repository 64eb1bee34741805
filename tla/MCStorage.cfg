SPECIFICATION StorageFairSpec
CONSTANTS
  Request = {r1, r2}
  Session = {s1, s2}
  Nobody = Nobody
  Limit = 1
  SessionLimit = 2
  MaxText = 1
  FileSize = 1
  Slots = 1
  MaxTries = 2
CHECK_DEADLOCK FALSE
INVARIANTS SessionWithinLimit OverrunBounded
PROPERTY RequestsEnd
