SPECIFICATION FairSpec
CONSTANTS
  w1 = w1
  w2 = w2
  a1 = a1
  a2 = a2
  Windows = {w1}
  Apps = {a1}
  Nobody = Nobody
  Owner <- OwnerOne
  ParentOf <- NoParents
  MaxIds = 2
  MaxWaits = 2
  Fickle = {}
  DesktopEnvironment = FALSE
  PersonUsesCloseBox = TRUE
PROPERTIES EveryCloseResolves
CHECK_DEADLOCK FALSE
