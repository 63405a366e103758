CONSTANTS
  c1 = c1
  c2 = c2
  None = None
  Nil = Nil
  Pieces <- PiecesOf
  Prepending = {1}
  Upstream <- UpstreamHas
  Oversized <- OneOversized
  Incomplete <- OneIncomplete
  Commits = {c1, c2}
  Sources <- ShortFiles
  MaxLines = 13
  EDITS <- ThreeEdits
  Counts = {0, 1, 2}
  Component <- Components
  Order <- InFileOrder
SPECIFICATION MCSpec
INVARIANTS
  CopyIsSound
  ModulesSettle
  PatchIsWhole
  
  LeastFixpoint
PROPERTIES
  TextIsKept
  ProseIsKept
  Terminates
CHECK_DEADLOCK FALSE
