SPECIFICATION FairSpec
CONSTANTS
  Procs = {p1, p2}
  None = none
  MaxBeads = 2
  InitialBeads = 0
  MaxCommits = 1
  MaxRetries = 1
  MaxIterations = 1
INVARIANTS
  TypeOK
  PushedWorkWasReviewed
  NoClosedBeadAheadOfCode
  RetryContext
  AutoRerunsBounded
PROPERTIES
  HandoffEnds
