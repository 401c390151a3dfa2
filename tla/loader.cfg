SPECIFICATION LoaderSpec
CONSTANTS
  Text <- Strings
  Sources <- AllSources
INVARIANTS LoaderTypeOK NothingSkipped NameRight DiscoveryRight LegacyAccepted NormalizedOnce
CHECK_DEADLOCK FALSE
