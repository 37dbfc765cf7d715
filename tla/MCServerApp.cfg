SPECIFICATION FairSpec
CONSTANTS
  Handlers = {"main", "recv"}
  MaxSignals = 3
CHECK_DEADLOCK FALSE
INVARIANTS
  TypeOK
  ReceiverSafe
  CleanWhenStarted
  NothingLeft
PROPERTY
  ShutdownCompletes
