CONSTANTS
  p1 = p1
  p2 = p2
  Peers <- OnePeer
  MaxTime = 1
  Narrowings <- MCProductionNarrowings
  Answers <- OneAnswer
  Edits <- EveryTable
  SaveOutcomes <- EverySaveOutcome
  ConfigOutcomes <- EveryConfigOutcome
SPECIFICATION MCSpec
INVARIANTS
  DifferenceIsTold
  
PROPERTIES
  RetriedUntilSaved
CHECK_DEADLOCK FALSE
