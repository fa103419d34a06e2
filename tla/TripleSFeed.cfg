SPECIFICATION Spec
CONSTANTS
  Conns = {c1, c2}
  Loops = {l1, l2}
  MaxAttempts = 2
  NoConn = NoConn
INVARIANTS
  LossTended
  OneFeed
  DownClosed
CHECK_DEADLOCK FALSE
PROPERTIES
  RunEnds
  FeedKept
