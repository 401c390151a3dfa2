SPECIFICATION Spec
CONSTANTS
  Callers = {c1}
  MaxCalls = 1
  MaxCloses = 0
  Configs <- StdinNotOpened
  Other = Other
  Nil = Nil
INVARIANTS InputDelivered
CHECK_DEADLOCK FALSE
