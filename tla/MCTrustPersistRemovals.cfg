CONSTANTS
  p1 = p1
  p2 = p2
  Peers <- TwoPeers
  MaxTime = 1
  Narrowings <- MCProductionNarrowings
  Answers <- OneAnswer
  Edits <- LinesEdited
  SaveOutcomes <- AlwaysOk
  ConfigOutcomes <- AlwaysOk
SYMMETRY PeerSymmetry
SPECIFICATION StandingSpec
INVARIANTS
  ForgetsOnlyWhatWasRemoved
CHECK_DEADLOCK FALSE
