CONSTANTS
  c1 = c1
  key = key
  chord = chord
  button = button
  None = None
  Clients <- OneClient
  Keys <- AllKeys
  Buttons <- OneButton
  LockKeys <- OneKey
  Bind <- ChordOnly
  Gestures <- Strokes
  Linger = FALSE
  MaxLinks = 2
  MaxEvents = 1
  MaxHeard = 1
  MaxFrames = 2
SPECIFICATION FairSpec
INVARIANTS
  
  NothingLeftDown
PROPERTIES
  CrossingSettles
CHECK_DEADLOCK FALSE
