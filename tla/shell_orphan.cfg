SPECIFICATION Spec
CONSTANTS
  Callers = {c1, c2}
  MaxCalls = 1
  MaxCloses = 1
  Inputs = 1
  Concurrent = TRUE
  Nil = Nil
PROPERTIES CloseTerminates
CHECK_DEADLOCK FALSE
