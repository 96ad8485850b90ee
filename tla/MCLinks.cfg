SPECIFICATION FairSpec
CONSTANTS
  MaxLinks = 2
  MaxEdits = 2
  MaxFaults = 1
INVARIANTS
  EachSideKeepsTheSame
  CutLeavesNoLink

  
CHECK_DEADLOCK FALSE
