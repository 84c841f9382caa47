SPECIFICATION Spec
CONSTANTS
  Dropped = {"d1", "d2"}
  Unpacked = {"u1", "u2"}
  Contents <- Mixture
  Kind <- MixtureKind
  Inside <- MixtureInside
  Virus = {"virus"}
  Signed = {"signed"}
  None = None
  MaxWrites = 3
  MaxDepth = 3
INVARIANTS
  VirusNotSent
  Judged
PROPERTY EachFileHandled
CHECK_DEADLOCK FALSE
