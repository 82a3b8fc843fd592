SPECIFICATION Spec
CONSTANTS
  w1 = w1
  w2 = w2
  part = part
  name = name
  Ids = {w1, w2, part}
  Windows = {w1, w2}
  Names = {name}
  NoName = NoName
  Nobody = Nobody
  MultiWindow = TRUE
  MaxBatches = 3
  MaxSets = 1
  MaxSubs = 1
INVARIANTS
  KeysNameObjects
PROPERTIES
  WindowsAreKept
  EveryCloseIsTold
  NothingEchoes
  ClosedIsGoneUnlessAdopted
SYMMETRY Alike
CHECK_DEADLOCK FALSE
