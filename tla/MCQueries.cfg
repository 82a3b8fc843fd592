SPECIFICATION Spec
CONSTANTS
  s1 = s1
  s2 = s2
  t1 = t1
  t2 = t2
  NoSet = NoSet
  Sources = {s1, s2}
  Sets = {t1, t2}
  SourceOf <- TwoSources
  MaxScopes = 2
  MaxRecords = 2
CONSTRAINT InOneLine
PROPERTY KeepsThePromise
CHECK_DEADLOCK FALSE
