SPECIFICATION FairSpec
CONSTANTS
  s1 = s1
  s2 = s2
  t1 = t1
  t2 = t2
  NoSet = NoSet
  Sources = {s1, s2}
  Sets = {t1, t2}
  SourceOf <- TwoSources
  MaxScopes = 2
  MaxRecords = 1
INVARIANTS DestroyIsKnown EveryQueryIsWanted
PROPERTIES EndIsTheEnd EveryScopeEnds
CHECK_DEADLOCK FALSE
