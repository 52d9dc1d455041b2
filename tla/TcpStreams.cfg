SPECIFICATION FairSpec
CONSTANTS
  IdStart = 1
  MaxId = 2
  MaxSpurious = 0
  PollCapacity = 2
  MergedEvents = TRUE
  Usage = {"connect", "send", "close", "shutdown"}
  Faults = {"refuse", "reset"}
  ReuseIds = FALSE
  MaxBytes = 3
  MaxSend = 2
  MaxRoom = 2
  MaxBacklog = 1
INVARIANTS
  NoPanic
  OutgoingIntact
  NoSilentLoss
PROPERTIES
  KeepsContract
  ConnectAnswered
  DataDelivered
  DataWritten
  EndNoticed
CHECK_DEADLOCK FALSE
