SPECIFICATION FairSpec
CONSTANTS
  Ids = {d1, d2}
  Conns = {c1, c2}
  NoConn = NoConn
  MaxWaits = 3
INVARIANTS TypeOK WaitIsCounted Consistent
PROPERTIES OnlyTheLastWaitDecides OneVerdict TimedSettles DepartedSettles
CHECK_DEADLOCK FALSE
