CONSTANTS
  Vendored <- VendoredFiles
  Ported <- PortedFiles
  Bullets <- TwoBullets
  Elsewhere <- OneElsewhere
  MODEL_NS = {"Q"}
  Paths <- NamesAndParts
  Length = 6
  BodyLines = 1
  MaxLines = 1
  Pieces = 0
  Texts <- TextsOfPieces
SPECIFICATION ReadSpec
INVARIANT
  DeadNamesAreFull
CHECK_DEADLOCK FALSE
