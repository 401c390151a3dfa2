SPECIFICATION FairSpec
CONSTANTS
  Callers = {c1}
  MaxCalls = 3
  MaxCloses = 2
  Inputs = 1
  Concurrent = FALSE
  Nil = Nil
INVARIANTS TypeOK OwnResponse NoLeftover NoOrphan
PROPERTIES CloseTerminates KeepsPromise CallReturns
CHECK_DEADLOCK FALSE
