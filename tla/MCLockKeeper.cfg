SPECIFICATION FairSpec
CONSTANTS
  TTL = 7
  MinBeat = 1
  MaxBeat = 3
  IdleRelease = 4
  Delay = 1
  Late = 1
  Skew = 1
  MaxUnder = 2
INVARIANTS
  NeverLapses
  HolderInStep
PROPERTIES
  IdleLetsGo
