SPECIFICATION Spec
CONSTANTS
  Base = 4
  CtxSize = 1
  Ids = {1, 2}
  Owner = 0
  Others = {1, 2}
  MaxCalls = 3
  Codec <- MCCodec
  Contexts <- MCContexts
INVARIANTS
  CallersServedInOrder
  SameOrderEverywhere
  CloseComesLast
CHECK_DEADLOCK FALSE
