SPECIFICATION FairSpec
CONSTANTS
  Threads = {t1, t2}
  MaxCalls = 2
  MaxSockets = 1
INVARIANTS
  NoLostWakeup
  WaitsForSomething
PROPERTIES
  ImplementsService
  CallReturns
CHECK_DEADLOCK FALSE
