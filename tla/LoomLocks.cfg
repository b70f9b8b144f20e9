SPECIFICATION FairSpec
CONSTANTS
  Specs = {s1, s2}
  Commands = {c1, c2}
  Inits = {i1, i2}
  Workspace = workspace
  None = none
  MaxPolls = 1
INVARIANTS
  TypeOK
  MutualExclusion
  NoOrphanLock
  InitOutlivesEarlyCommands
PROPERTIES
  AcquisitionEnds
  ImplementsExclusiveLocks
