CONSTANTS
  l = l
  r = r
  x = x
  y = y
  s = s
  NoText = NoText
  Machines = {l, r}
  Texts = {x, y, s}
  Copies <- OwnTexts
  Secrets = {s}
  Counted = {l}
  Policies <- EitherWay
  QueuedPerLink = 1
  MaxCopies = 2
  MaxFaults = 1
  RefusalsBeforeRevoked = 2
  MaxChanges = 2
  MaxDisturbances = 1
SPECIFICATION MCSpec
INVARIANTS
  SendsOnlyItsOwn
  NothingLandsUntaken
  NoExitLoop
PROPERTIES
  CopyIsNoticed
  RevocationIsNoticed
  
CHECK_DEADLOCK FALSE
