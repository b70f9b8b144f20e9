SPECIFICATION Spec
CONSTANTS
  Specs = {s1}
  Commands = {c1}
  Inits = {i1}
  Workspace = workspace
  None = none
  MaxPolls = 0
INVARIANT
  RebuildExcludesCommands
