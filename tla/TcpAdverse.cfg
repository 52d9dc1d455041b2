SPECIFICATION Spec
CONSTANTS
  IdStart = 1
  MaxId = 3
  MaxSpurious = 0
  PollCapacity = 2
  MergedEvents = FALSE
  Usage = {"listen", "connect", "send", "empty_send", "close", "early_send"}
  Faults = {"accept", "nodelay", "interrupt", "backlog_reset"}
  ReuseIds = TRUE
  MaxBytes = 0
  MaxSend = 1
  MaxRoom = 1
  MaxBacklog = 1
INVARIANTS
  PendingEventsKnown
  IdsDistinct
  InterestRegistered
CHECK_DEADLOCK FALSE
