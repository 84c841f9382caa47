SPECIFICATION Spec
CONSTANTS
  Ids = {c1, c2}
  NoId = NoId
  Seen <- MCSeenFew
  MaxSess = 2
  PacketNum = 4
  MaxTime = 2
  Timeout = 1
  SweepPeriod = 2
  SweepMax = 1
INVARIANT DecoderWorks
