CONSTANTS
  a = a
  b = b
  First = a
  Second = b
  MaxConns = 2
  Choices <- OneWay
  MaxApprovals <- OnceEach
  Faults <- EveryFault
SPECIFICATION Spec
INVARIANTS
  PairedOnlyByBoth
  OnlyTheAddedIsStranded
  BothHoldTheSame
  
CHECK_DEADLOCK FALSE
