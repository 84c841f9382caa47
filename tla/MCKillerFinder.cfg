SPECIFICATION FairSpec
CONSTANTS
  Ids = {c1, c2, c3}
  NoId = NoId
  Seen <- MCSeen
  MaxSess = 3
  PacketNum = 5
  MaxTime = 2
  Timeout = 1
  SweepPeriod = 2
  SweepMax = 1
INVARIANTS
  OnePlace
  CaptureOwns
  NoClosedActive
  ClosedOrSilent
PROPERTIES
  DecoderOutlivesCapture
  HandoffSpec
  PostedIsDecoded
  Terminates
