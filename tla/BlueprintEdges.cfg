CONSTANTS
  A = A
  B = B
  C = C
  a = a
  b = b
  c = c
  Nodes = {A, B, C}
  Vertices = {A, B, C}
  Decls = {a, b, c}
  Dumped = {a, b, c}
  Theorems = {a, b}
  Definitions = {C}
  Only = {A, B, C}
  Lean <- OneEach
  Alias <- Itself
SPECIFICATION MCSpec
INVARIANTS
  GreenAncestors
  SameReach
  FixPasses
  NoNeedlessEdge
  WalkIsExact
CHECK_DEADLOCK FALSE
