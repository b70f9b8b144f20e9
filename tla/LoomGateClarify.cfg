SPECIFICATION Spec
CONSTANTS
  Procs = {p1, p2}
  None = none
  MaxBeads = 2
  InitialBeads = 1
  MaxCommits = 1
  MaxRetries = 0
  MaxIterations = 1
PROPERTY
  ClarifiedBeadIsLeftAlone
