SPECIFICATION Spec
CONSTANTS
  info = info
  warn = warn
  bet = bet
  Lines = {info, warn, bet}
  Level <- MCLevel
  RingLevel = 0
  Empty = Empty
  Size = 2
  Emitters = {e1, e2}
  SinkLevel = 4
  ChannelOf <- MCChannelOf
  None = None
  QueueSize = 1
  Window = 1
  Burst = 2
  Horizon = 2
  MaxNotes = 3
INVARIANTS
  CountTrue
  RateKept
  StopFlushes
  OnlyEarlyPanics
PROPERTIES
  Recency
  Settled
CHECK_DEADLOCK FALSE
