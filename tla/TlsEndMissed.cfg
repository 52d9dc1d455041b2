SPECIFICATION FairSpec
CONSTANTS
  IdStart = 1
  MaxId = 2
  MaxSpurious = 3
  PollCapacity = 2
  MergedEvents = TRUE
  Usage = {"connect"}
  Faults = {}
  ReuseIds = FALSE
  MaxBytes = 1
  MaxSend = 1
  MaxRoom = 2
  MaxBacklog = 1
  Handshake = {"ticket"}
  ReadSize = 8
  MaxRead = 1
  SessionRoom = 1
  Parts = {1}
PROPERTIES
  EndNoticed
CHECK_DEADLOCK FALSE
