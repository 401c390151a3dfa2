SPECIFICATION FairSpec
CONSTANTS
  MaxCalls = 2
  Size = 4
  Capacity = 5
  Children <- Exchanges
INVARIANTS TypeOK LineExact BinaryExact CutOnlyByDeath NothingBehind
PROPERTIES Answered
CHECK_DEADLOCK FALSE
