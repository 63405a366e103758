CONSTANTS
  h1 = h1
  h2 = h2
  a = a
  b = b
  c1 = c1
  c2 = c2
  None = None
  Handlers = {h1}
  Files = {a, b}
  Clients = {c1, c2}
  Texts <- TwoTexts
  Items <- TwoReports
  MaxOpenFiles = 1
  MaxVersion = 2
SPECIFICATION Spec
INVARIANTS
  TypeOK
  VerdictIsForItsText
  EditBaseAgrees
  BoundedWorkers
  NoLostServer
SYMMETRY Symmetric
CHECK_DEADLOCK FALSE
