SPECIFICATION FairSpec
CONSTANTS
  MaxEvents = 3
  MaxQueued = 2
  MaxBytes = 3
  Capacity = 3
  MaxFaults = 1
  MaxSessions = 2
INVARIANTS
  QueueAccounted
  FramesIntact
PROPERTIES
  ImplementsChannel
  EveryFrameResolved
  EveryRequestAnswered
  DestructorsEnd
