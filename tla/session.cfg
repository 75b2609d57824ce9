SPECIFICATION FairSpec
CONSTANTS
  MaxCalls = 2
CHECK_DEADLOCK FALSE
INVARIANTS
  EmptySuccessExplained OneVoice OverIsStill SilenceExplained
PROPERTIES
  HungChildIsKilled ShutdownReturns
