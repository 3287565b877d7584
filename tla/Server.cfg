SPECIFICATION ServerSpec
CONSTANTS
  Apps = {p1, p2, p3}
  NoApp = NoApp
  StartupRetries = 2
  RecoveryAttempts = 1
  MaxStray = 1
INVARIANTS
  ServerTypeOK
  NoStrayPoller
PROPERTIES
  FreshGetsItsThreshold
  ShutdownStartsNothing
  LostPollerIsReplaced
  BotComesBack
  ShutdownTerminates
  IngestionKeepsRunning
CHECK_DEADLOCK FALSE
