SPECIFICATION FairSpec
CONSTANTS
  Conn = {c1}
  Put = {p1}
  Entry = {e1, e2}
  Nobody = Nobody
  NoEntry = NoEntry
  TTL = 2
  Cap = 1
  MaxEdits = 1
  Asks = {"heartbeat"}
  Timely = FALSE
  Env = {"break", "delete", "expire", "shutdown"}
PROPERTIES
  
  
  HolderHeard
CHECK_DEADLOCK FALSE
