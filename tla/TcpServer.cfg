SPECIFICATION FairSpec
CONSTANTS
  IdStart = 1
  MaxId = 4
  MaxSpurious = 0
  PollCapacity = 1
  MergedEvents = FALSE
  Usage = {"listen", "multicast", "close"}
  Faults = {}
  ReuseIds = FALSE
  MaxBytes = 1
  MaxSend = 1
  MaxRoom = 1
  MaxBacklog = 2
PROPERTIES
  KeepsContract
  BacklogAccepted
CHECK_DEADLOCK FALSE
