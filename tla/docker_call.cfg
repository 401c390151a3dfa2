SPECIFICATION Spec
CONSTANTS
  Callers = {c1, c2}
  MaxCalls = 2
  MaxCloses = 2
  Configs <- AllKinds
  Other = Other
  Nil = Nil
INVARIANTS TypeOK OwnAnswer NothingLeft NoConnectionLeft OneRetained
PROPERTIES CleanedByClose
CHECK_DEADLOCK FALSE
