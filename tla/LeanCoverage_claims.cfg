CONSTANTS
  x = x
  y = y
  m1 = m1
  v = v
  None = None
  Names = {x, y}
  Modules = {m1, v}
  VENDORED = {v}
  Statements = 2
  AnyPieces = 1
  MathPieces = 1
  MaxLine = 9
  Sources <- TextFiles
  Blueprints <- ShortBlueprints
SPECIFICATION SnapshotSpec
INVARIANT
  ClaimsAreMarked
CHECK_DEADLOCK FALSE
