SPECIFICATION FairSpec
CONSTANTS
  Requests = {r1, r2}
  Names = {a, b}
  Senders = {s1, s2}
  NoJob = NoJob
INVARIANTS
  Accounted
  SentIsRecorded
  AnsweredIsSent
PROPERTY JobsAreTaken
