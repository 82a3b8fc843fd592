SPECIFICATION Spec
CONSTANTS
  fig = fig
  figaro = figaro
  psl = psl
  txt = txt
  piece = piece
  s1 = s1
  s2 = s2
  s3 = s3
  older = older
  newer = newer
  Keys = {fig, figaro}
  Safes = {s1, s2, s3}
  Types = {psl, txt}
  Psl = psl
  Pieces = {piece}
  MaxPieces = 1
  MaxStops = 2
  Rank <- MCRank
  Shorter <- MCShorter
  BundleOf <- MCBundleOf
  NoHash = NoHash
INVARIANTS
  OneFileEach
  NewStartsEmpty
  HashIsTrue
  BundlesAgree
SYMMETRY Alike
CHECK_DEADLOCK FALSE
