SPECIFICATION Spec
CONSTANTS
  w1 = w1
  w2 = w2
  a1 = a1
  a2 = a2
  Windows = {w1, w2}
  Apps = {a1, a2}
  Nobody = Nobody
  Owner <- OwnerApart
  ParentOf <- NoParents
  MaxIds = 3
  MaxWaits = 1
  Fickle = {}
  DesktopEnvironment = TRUE
  PersonUsesCloseBox = TRUE
INVARIANTS QuitWaitsOnSomebody DecidingIsAsked NoQuestionAboutNothing
PROPERTIES RefusalIsFinal
VIEW View
CHECK_DEADLOCK FALSE
