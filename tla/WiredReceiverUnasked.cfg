\* One phone, and a worker whose wait times out once.
SPECIFICATION Spec
CONSTANTS
  MaxPlugs = 1
  MaxRequests = 1
  MaxTimeouts = 1
PROPERTIES
  OnlyWhenAsked
CHECK_DEADLOCK FALSE
