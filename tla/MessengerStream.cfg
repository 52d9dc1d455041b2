SPECIFICATION FairSpec
CONSTANTS
  Base = 3
  CtxSize = 1
  Ids = {1}
  MaxFrames = 2
  InterfaceCalls = TRUE
  Codec <- MCCodec
  Messages <- ContextMessages
  Malformed <- NotMessages
INVARIANTS
  Reassembly
  BuffersHaveConnections
  MessagesAsWritten
  EndsAreReported
PROPERTIES
  MessagesArrive
CHECK_DEADLOCK FALSE
