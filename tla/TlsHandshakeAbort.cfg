SPECIFICATION Spec
CONSTANTS
  IdStart = 1
  MaxId = 3
  MaxSpurious = 3
  PollCapacity = 2
  MergedEvents = TRUE
  Usage = {"listen"}
  Faults = {}
  ReuseIds = FALSE
  MaxBytes = 1
  MaxSend = 1
  MaxRoom = 2
  MaxBacklog = 1
  Handshake = {}
  ReadSize = 2
  MaxRead = 1
  SessionRoom = 1
  Parts = {1}
INVARIANTS
  NoPanic
CHECK_DEADLOCK FALSE
