CONSTANTS
  h1 = h1
  a = a
  c1 = c1
  c2 = c2
  None = None
  Handlers = {h1}
  Files = {a}
  Clients = {c1, c2}
  Texts <- TwoTexts
  Items <- TwoReports
  MaxOpenFiles = 1
  MaxVersion = 2
SPECIFICATION ShutdownSpec
INVARIANT
  SilenceNeverMeansSuccess
CHECK_DEADLOCK FALSE
