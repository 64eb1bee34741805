SPECIFICATION Spec
CONSTANTS
  Conn = {c1, c2}
  Put = {}
  Entry = {e1}
  Nobody = Nobody
  NoEntry = NoEntry
  TTL = 2
  Cap = 1
  MaxEdits = 2
  Asks = {"acquire", "heartbeat", "release"}
  Timely = TRUE
  Env = {"break"}
SYMMETRY Interchangeable
VIEW Relevant
INVARIANTS
  TypeOK
  TextConverges
  LockConverges
  GoneHoldsNothing
  WriterHolds
CHECK_DEADLOCK FALSE
