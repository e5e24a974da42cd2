SPECIFICATION FairSpec
CONSTANTS
  MaxPlugs = 2
  MaxRequests = 2
  MaxTimeouts = 1
INVARIANTS
  SessionWatched
PROPERTIES
  WaitsForPhone
  UnplugTold
  DiscoveryAnswered
  OrphansEnd
CHECK_DEADLOCK FALSE
