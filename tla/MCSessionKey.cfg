SPECIFICATION Spec
CONSTANTS
  LinkKey = {k1}
  PassKey = {p1}
  NoKey = NoKey
  MaxText = 2
  MaxLoads = 2
CONSTRAINT Small
VIEW Relevant
INVARIANTS ShownInStep OpensWithKey PasswordKeptOut
PROPERTIES KeyForGood
CHECK_DEADLOCK FALSE
