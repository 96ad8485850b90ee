CONSTANTS
  d1 = d1
  d2 = d2
  Doors <- TwoDoors
  Pids <- FivePids
  MaxUpsets = 2
SPECIFICATION FairSpec
INVARIANTS
  OneReachableDaemon
PROPERTIES
  DaemonComesUp
CHECK_DEADLOCK FALSE
