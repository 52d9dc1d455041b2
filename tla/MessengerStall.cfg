SPECIFICATION Spec
CONSTANTS
  Base = 3
  CtxSize = 1
  Ids = {1}
  MaxFrames = 1
  InterfaceCalls = FALSE
  Codec <- MCCodec
  Messages <- ContextMessages
  Malformed <- NotMessages
INVARIANTS
  NoneMeansIncomplete
CHECK_DEADLOCK FALSE
