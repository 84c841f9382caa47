SPECIFICATION Spec
CONSTANTS
  SeqSpace = 10
  Hole = Hole
  StreamLen = 5
  MaxSeg = 2
INVARIANTS
  AnyOrderFaithful
  InOrderFaithful
  FeedAligned
  FeedExact
CHECK_DEADLOCK FALSE
