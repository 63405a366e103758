CONSTANTS
  root = root
  child = child
  stdout = stdout
  stderr = stderr
  pull = pull
  main = main
  c1 = c1
  c2 = c2
  author = author
  review = review
  None = None
  Author = author
  Review = review
  MaxComments = 2
  Root = root
  Children = {child}
  Streams = {stdout, stderr}
  First = stdout
  Limited = TRUE
  MaxLines = 2
SPECIFICATION MCSpec
INVARIANTS
  WholeLog
  StoppedAndReported
  StatusIsClear
PROPERTIES
  WrapperEnds
  EveryCommitIsReported
CHECK_DEADLOCK FALSE
