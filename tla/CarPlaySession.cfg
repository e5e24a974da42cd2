\* Every mode; accessories that send anything, and cooperative ones.
SPECIFICATION FairSpec
CONSTANTS
  UsedModes <- Modes
  Environments <- AnyEnvironment
  Windows = {1, 2}
  MaxPackets = 4
INVARIANTS
  AuthenticatedBeforeWifi
  WifiGivenBack
PROPERTY
  SessionCompletes
