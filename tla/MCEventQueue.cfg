CONSTANTS
  left = left
  right = right
  k1 = k1
  k2 = k2
  Positions <- MCPositions
  Keys <- MCKeys
  Makes <- MCMakes
  Capacity = 1
  MaxMoved <- MCMaxMoved
  MaxBegins = 1
SPECIFICATION Spec
INVARIANTS
  ClicksLandWhereMade
  QueueIsBounded
  NoLostWakeup
PROPERTIES
  KeepsItsPromise
CHECK_DEADLOCK FALSE
