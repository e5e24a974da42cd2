\* Both kinds; a queue of two frames, or three bytes.
SPECIFICATION FairSpec
CONSTANTS
  Kinds <- BothKinds
  MaxQueued = 2
  MaxBytes = 3
  Sizes = {1, 2, 3}
  MaxFrames = 4
  MaxConnections = 2
INVARIANTS
  QueueAccounted
  StreamInOrder
  StartsDecodable
PROPERTY
  StopEnds
