CONSTANTS
  MaxInterrupts = 2
SPECIFICATION FairSpec
PROPERTIES
  FirstInterruptStopsTheClient
CHECK_DEADLOCK FALSE
