SPECIFICATION Spec
CONSTANTS
  None = none
  Capacity = 2
  MaxLines = 5
  MaxEntries = 3
  MaxDays = 146097
INVARIANTS
  TextReadAsWritten
  TodoStartsAsConfigured
  LogsTellWhatHappened
CHECK_DEADLOCK FALSE
