SPECIFICATION FairSpec
CONSTANTS
  Base = 3
  MaxSize = 4
  Frames <- MCFrames
  MaxFrames = 2
  MaxFaults = 3
INVARIANT TypeOK
INVARIANT IndexInBounds
INVARIANT DeliveredIntact
PROPERTY LinkRecovers
