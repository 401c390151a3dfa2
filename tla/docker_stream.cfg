SPECIFICATION FairSpec
CONSTANTS
  Callers = {c1}
  Owner = Owner
  MaxCalls = 3
  MaxCloses = 2
  Configs <- AllKinds
  Nil = Nil
INVARIANTS TypeOK NothingLost
PROPERTIES KeepsPromise CallReturns
CHECK_DEADLOCK FALSE
