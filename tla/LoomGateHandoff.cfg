SPECIFICATION Spec
CONSTANTS
  Procs = {p1, p2}
  None = none
  MaxBeads = 2
  InitialBeads = 0
  MaxCommits = 1
  MaxRetries = 0
  MaxIterations = 1
INVARIANT
  HandoffFreesLock
