CONSTANTS
  p1 = p1
  p2 = p2
  Peers <- MCPeers
  MaxTime = 1
  Narrowings <- MCProductionNarrowings
SPECIFICATION StoreSpec
INVARIANTS
  StoreInv
  
  PairingRoundTrips
PROPERTIES
  GrantsOutliveApprovals
