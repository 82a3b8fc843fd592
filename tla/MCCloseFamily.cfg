SPECIFICATION Spec
CONSTANTS
  w1 = w1
  w2 = w2
  a1 = a1
  a2 = a2
  Windows = {w1, w2}
  Apps = {a1}
  Nobody = Nobody
  Owner <- OwnerOne
  ParentOf <- Family
  MaxIds = 2
  MaxWaits = 2
  Fickle = {w2}
  DesktopEnvironment = FALSE
  PersonUsesCloseBox = TRUE
INVARIANTS NoStandingPermission ExitLosesNothing
PROPERTIES ClosedByLeave
VIEW View
CHECK_DEADLOCK FALSE
