\* Two-bit sequence numbers, so that both streams wrap around.
SPECIFICATION Spec
CONSTANTS
  dflt = dflt
  ctl = ctl
  none = none
  other = other
  SeqMod = 4
  FirstSeq = 2
  PeerSyn = 3
  DefaultWindow = 2
  DefaultSid = dflt
  NoSid = none
  OtherSid = other
  PeerLsps <- AllLsps
  PeerAcksEarly = FALSE
  MaxPhoneMsgs = 4
  MaxPeerMsgs = 2
  PeerWindow = 2
  MaxReplies = 1
  ChannelCap = 2
INVARIANTS
  TypeOK
  NoMessageForgotten
  PeerStreamInOrder
PROPERTIES
  ImplementsChannel
\* A dead link stops.
CHECK_DEADLOCK FALSE
