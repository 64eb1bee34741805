SPECIFICATION FairSpec
CONSTANTS
  Conn = {c1, c2}
  Put = {}
  Entry = {e1, e2}
  Nobody = Nobody
  NoEntry = NoEntry
  TTL = 1
  Cap = 2
  MaxEdits = 0
  Asks = {}
  Timely = TRUE
  Env = {"delete"}
PROPERTY DeletedRoomEmpties
CHECK_DEADLOCK FALSE
