SPECIFICATION FairSpec
CONSTANTS
  MaxPackets = 5
  Width = 3
  Odd <- MCOdd
  QueueLimit = 2
  MaxRequests = 3
INVARIANTS
  DrainsPosted
  NoReplay
  WindowExact
PROPERTIES
  ImplementsChannel
  EveryPacketResolved
CHECK_DEADLOCK FALSE
