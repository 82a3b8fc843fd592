SPECIFICATION Spec
CONSTANTS
  main = main
  palette = palette
  ask = ask
  alert = alert
  prompt = prompt
  prompt2 = prompt2
  app = app
  Windows = {main, palette, ask, alert, prompt, prompt2}
  Nobody = Nobody
  Dock = Dock
  Kind <- KindOf
  App <- AppOf
  Owner <- OwnerOf
  Minimizes = {prompt, prompt2}
  Doomed = {alert}
  Retypes = {ask}
  MaxOpened = 3
INVARIANTS
  OverlayAboveOwner
  ModalsAreManaged
  WayOut
PROPERTIES
  AnswerClosesOwn
  GhostsAreRemembered
  BlockedOnlyInherits
SYMMETRY Prompts
