SPECIFICATION Spec
CONSTANTS
  Specs = {1, 2}
  Companions = {"lib"}
  m1 = m1
  m2 = m2
  Mols = {m1, m2}
  SpecOf <- MCSpecOf
  NoFile = nofile
  None = none
  Unknown = unknown
  p = p
  q = q
  Procs = {p, q}
  MaxStarts = 3
SYMMETRY
  Symmetry
INVARIANTS
  TypeOK
  RowsAsReported
  RebuildRepairs
  DeadRebuildWedgesNobody
CHECK_DEADLOCK FALSE
