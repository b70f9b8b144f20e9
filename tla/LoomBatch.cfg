SPECIFICATION FairSpec
CONSTANTS
  s1 = s1
  s2 = s2
  b1 = b1
  b2 = b2
  b3 = b3
  Specs <- MCSpecs
  Beads <- MCBeads
  SpecOf <- MCSpecOf
  None = none
  Parallel = 2
  MaxCommits = 2
INVARIANTS
  TypeOK
  NoWorkLost
  OneAgentPerWorktree
  ResultsAreTrue
PROPERTIES
  MergeBackEnds
