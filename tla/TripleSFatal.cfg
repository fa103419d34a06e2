SPECIFICATION Spec
CONSTANTS
  Conns = {c1, c2, c3}
  Loops = {l1, l2}
  MaxAttempts = 2
  NoConn = NoConn
PROPERTIES
  FatalKept
CHECK_DEADLOCK FALSE
