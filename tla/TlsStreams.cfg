SPECIFICATION ReadingSpec
CONSTANTS
  IdStart = 1
  MaxId = 2
  MaxSpurious = 1
  PollCapacity = 2
  MergedEvents = FALSE
  Usage = {"connect", "send", "early_send", "close"}
  Faults = {"refuse"}
  ReuseIds = FALSE
  MaxBytes = 2
  MaxSend = 2
  MaxRoom = 1
  MaxBacklog = 1
  Handshake = {"abandon", "ticket"}
  ReadSize = 1
  MaxRead = 1
  SessionRoom = 1
  Parts = {1, 2}
PROPERTIES
  DataWritten
  DataDelivered
  AttemptsEnd
  EndNoticedUnlessLeft
CHECK_DEADLOCK FALSE
