\* An accessory that may acknowledge the phone's SYN before its own SYN is read.
SPECIFICATION FairSpec
CONSTANTS
  dflt = dflt
  ctl = ctl
  none = none
  other = other
  SeqMod = 4
  FirstSeq = 2
  PeerSyn = 3
  DefaultWindow = 2
  DefaultSid = dflt
  NoSid = none
  OtherSid = other
  PeerLsps <- AllLsps
  PeerAcksEarly = TRUE
  MaxPhoneMsgs = 2
  MaxPeerMsgs = 0
  PeerWindow = 1
  MaxReplies = 0
  ChannelCap = 2
INVARIANTS
  EstablishedKnown
PROPERTIES
  LinkOnlyAdvances
  EveryMessageResolved
\* A dead link stops.
CHECK_DEADLOCK FALSE
