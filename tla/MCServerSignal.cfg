SPECIFICATION FairSpec
CONSTANTS
  Handlers = {"main"}
  MaxSignals = 1
CHECK_DEADLOCK FALSE
PROPERTY SignalCloses
