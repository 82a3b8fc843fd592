SPECIFICATION Spec
CONSTANTS
  main = main
  palette = palette
  ask = ask
  alert = alert
  prompt = prompt
  prompt2 = prompt2
  app = app
  Windows = {main, prompt}
  Nobody = Nobody
  Dock = Dock
  Kind <- KindOf
  App <- AppOf
  Owner <- OwnerOf
  Minimizes = {main, prompt}
  Doomed = {}
  Retypes = {}
  MaxOpened = 2
INVARIANT ClosedIsGone
