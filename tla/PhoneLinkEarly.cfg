\* An accessory that may acknowledge the phone's SYN before its own SYN is read.
SPECIFICATION Spec
CONSTANTS
  dflt = dflt
  ctl = ctl
  none = none
  other = other
  SeqMod = 4
  FirstSeq = 2
  PeerSyn = 3
  DefaultWindow = 2
  DefaultSid = dflt
  NoSid = none
  OtherSid = other
  PeerLsps <- AllLsps
  PeerAcksEarly = TRUE
  MaxPhoneMsgs = 4
  MaxPeerMsgs = 2
  PeerWindow = 2
  MaxReplies = 1
  ChannelCap = 2
INVARIANTS
  HandshakeComplete
\* A dead link stops.
CHECK_DEADLOCK FALSE
