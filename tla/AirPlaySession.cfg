\* Two head units, one retry; all kinds of video.
SPECIFICATION FairSpec
CONSTANTS
  Accessories = {car, other}
  Options <- ThreeOptions
  PairingStore = TRUE
  MaxUnits = 2
  None = None
INVARIANTS
  EndsProperly
  AnswerMatchesRequest
  OnlyThePairedAccessory
  StreamDecodable
PROPERTY
  SessionReturns
