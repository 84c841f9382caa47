SPECIFICATION Spec
CONSTANTS
  SeqSpace = 100
  Hole = Hole
  Streams <- MCStreams
  Dbs <- MCDbs
  Domains = {"bad.com", "good.com"}
  Dotted = {"www."}
  Ports = {":80"}
  MaxSeg = 3
  Window = 3
  MaxStale = 2
CHECK_DEADLOCK FALSE
INVARIANTS
  ResetRight
  MethodKnown
