CONSTANTS
  a = a
  b = b
  First = a
  Second = b
  MaxConns = 2
  Choices <- Both
  MaxApprovals <- OnceEach
  Faults <- Reliable
SPECIFICATION FairSpec
PROPERTIES
  ApprovalEnds
  NumberLeavesScreen
CHECK_DEADLOCK FALSE
