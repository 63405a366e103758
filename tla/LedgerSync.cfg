CONSTANTS
  n1 = n1
  n11 = n11
  n12 = n12
  n111 = n111
  s1 = s1
  s2 = s2
  t1 = t1
  None = None
  Unreadable = Unreadable
  MaxEvents = 3
  MaxCounter = 1
  Ids = {n1, n11, n12, n111}
  Parent <- Tree
  LedgerIds = {n1, n12}
  Statements = {s1, s2}
  Taints = {t1}
  DepLists <- Dependencies
SPECIFICATION MCSpec
INVARIANTS
  NeverInvents
  ExactWhenAcyclic
  ReplayIsLatest
  CitedRecordsWereShown
CHECK_DEADLOCK FALSE
