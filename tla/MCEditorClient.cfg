SPECIFICATION FairSpec
CONSTANTS
  Peer = Peer
  MaxText = 2
  MaxConn = 2
  MaxRefusals = 1
  Uploads = TRUE
INVARIANTS
  TypeOK
  Converged
PROPERTIES
  NothingDropped
  EditSettles
  AllAnswered
CHECK_DEADLOCK FALSE
