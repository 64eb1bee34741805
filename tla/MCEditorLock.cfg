SPECIFICATION FairSpec
CONSTANTS
  Client = {c1, c2}
  Handler = {h1, h2}
  Entry = {e1, e2, e3}
  Nobody = Nobody
  NoEntry = NoEntry
  TTL = 3
INVARIANTS
  TimerCoversLock
  RoomToldTruth
PROPERTIES
  LiveLockKept
  VanishedHolderFreed
  ImplementsLease
