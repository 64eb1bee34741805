SPECIFICATION Spec
CONSTANTS
  Horizon = 4
  Client = {c1}
  Proxy = {p1}
  Key = {c1, p1}
  Junk = junk
  Request = {r1, r2}
  Setups = {{"limiter"}, {"lockout"}}
  Rate = 1
  Burst = 1
  EntryTTL = 3
  PruneEvery = 2
  Delay = 1
  MaxFails = 2
  Duration = 3
  MaxEntries = 0
VIEW Relevant
SYMMETRY Symmetry
CHECK_DEADLOCK FALSE
INVARIANTS RateKept SenderIsOrigin FailuresBounded LockLasts
PROPERTIES LimiterSpec
