SPECIFICATION Spec
CONSTANTS
  Callers = {c1}
  MaxCalls = 2
  MaxCloses = 0
  Inputs = 1
  Concurrent = FALSE
  Nil = Nil
PROPERTIES KeptAlive
CHECK_DEADLOCK FALSE
