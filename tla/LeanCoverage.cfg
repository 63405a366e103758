CONSTANTS
  x = x
  y = y
  m1 = m1
  v = v
  None = None
  Names = {x, y}
  Modules = {m1, v}
  VENDORED = {v}
  Statements = 2
  AnyPieces = 4
  MathPieces = 5
  MaxLine = 9
  Sources <- TextFiles
  Blueprints <- ShortBlueprints
SPECIFICATION MCSpec
INVARIANTS
  ClaimsAreGuarded
  TexProblemsAreRight
PROPERTIES
  LossesAreSeen
  TextScanEnds
CHECK_DEADLOCK FALSE
