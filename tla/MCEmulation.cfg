CONSTANTS
  p1 = p1
  p2 = p2
  button = button
  Peers <- TwoPeers
  Steady <- SecondSteady
  Keys <- MCKeys
  Inputs <- FirstMoves
  Scopes <- EveryScope
  Limit = 2
  MaxLinks = 1
  MaxNotices = 1
  MaxRequests = 1
  MaxTold = 1
  MaxQueue <- Queues
SPECIFICATION Spec
INVARIANTS
  HeldOnlyWhileCrossed
  
  NoPeerStarves
  NoRemoteConsent
CHECK_DEADLOCK FALSE
