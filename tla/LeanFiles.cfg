CONSTANTS
  Vendored <- VendoredFiles
  Ported <- PortedFiles
  Bullets <- TwoBullets
  Elsewhere <- OneElsewhere
  MODEL_NS = {"Q"}
  Paths <- NamesAndParts
  Length = 5
  BodyLines = 6
  MaxLines = 3
  Pieces = 4
  Texts <- TextsOfPieces
SPECIFICATION MCSpec
INVARIANTS
  NamesAreFull
  PairingIsSound
  PartsAreWhole
CHECK_DEADLOCK FALSE
