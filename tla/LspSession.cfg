CONSTANTS
  s1 = s1
  s2 = s2
  p1 = p1
  p2 = p2
  p3 = p3
  h1 = h1
  a = a
  c1 = c1
  c2 = c2
  None = None
  NoOne = None
  Handlers = {h1}
  Files = {a}
  Clients = {c1, c2}
  Texts <- TwoTexts
  Items <- TwoReports
  MaxOpenFiles = 1
  MaxVersion = 2
  Starters = {s1, s2}
  Helpers = {p1, p2, p3}
SPECIFICATION MCSpec
INVARIANTS
  OneHelper
  ServerCanBeFound
  OwnTextOnly
PROPERTIES
  OwnerUnlinks
  StartReturns
CHECK_DEADLOCK FALSE
