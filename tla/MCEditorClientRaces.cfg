SPECIFICATION Spec
CONSTANTS
  Peer = Peer
  MaxText = 2
  MaxConn = 2
  MaxRefusals = 0
  Uploads = FALSE
INVARIANTS
  KnowsServer
CHECK_DEADLOCK FALSE
