SPECIFICATION Spec
CONSTANTS
  info = info
  warn = warn
  bet = bet
  Lines = {warn}
  Level <- MCLevel
  RingLevel = 0
  Empty = Empty
  Size = 1
  Emitters = {e1}
  SinkLevel = 4
  ChannelOf <- MCChannelOf
  None = None
  QueueSize = 2
  Window = 1
  Burst = 2
  Horizon = 3
  MaxNotes = 5
INVARIANTS
  HeaderKept
CHECK_DEADLOCK FALSE
