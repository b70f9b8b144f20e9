SPECIFICATION Spec
CONSTANTS
  a = a
  p = p
  q = q
  Beads = {1, 2, 3}
  Specs = {a}
  SpecOf <- MCSpecOf
  Msgs = {p, q}
  None = none
  MaxQuestions = 2
  MaxMsgs = 2
SYMMETRY
  Symmetry
INVARIANTS
  LockedAnswerFitsQuestion
CHECK_DEADLOCK FALSE
