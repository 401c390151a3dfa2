SPECIFICATION LoaderSpec
CONSTANTS
  Text <- Strings
  Sources <- Argv
INVARIANTS ArgvRuns
CHECK_DEADLOCK FALSE
