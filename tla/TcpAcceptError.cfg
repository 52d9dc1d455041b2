SPECIFICATION Spec
CONSTANTS
  IdStart = 1
  MaxId = 4
  MaxSpurious = 0
  PollCapacity = 2
  MergedEvents = TRUE
  Usage = {"listen"}
  Faults = {"accept"}
  ReuseIds = FALSE
  MaxBytes = 1
  MaxSend = 1
  MaxRoom = 1
  MaxBacklog = 1
INVARIANTS
  IncomingIntact
CHECK_DEADLOCK FALSE
