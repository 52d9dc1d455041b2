SPECIFICATION Spec
CONSTANTS
  IdStart = 1
  MaxId = 3
  MaxSpurious = 0
  PollCapacity = 2
  MergedEvents = TRUE
  Usage = {"listen", "multicast", "close", "shutdown"}
  Faults = {"reset", "accept", "nodelay", "backlog_reset", "interrupt"}
  ReuseIds = FALSE
  MaxBytes = 2
  MaxSend = 1
  MaxRoom = 1
  MaxBacklog = 1
  Handshake = {"abandon", "reject", "ticket", "notify"}
  ReadSize = 2
  MaxRead = 1
  SessionRoom = 1
  Parts = {1, 2}
INVARIANTS
  InterestRegistered
  StatusFollowsSession
  NoDataInHandshake
  IncomingIntact
  EstablishedNotLost
  DataAnnounced
  NothingAfterEnd
  OutgoingIntact
  AbortsOnlyInHandshake
CHECK_DEADLOCK FALSE
