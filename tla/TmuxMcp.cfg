SPECIFICATION FairSpec
CONSTANTS
  MaxPanes = 2
  MaxFaults = 1
INVARIANTS
  TypeOK
  PanesAreWindows
  ListingIsTrue
  AuditIsTrue
PROPERTIES
  ClientGoneCleansUp
CHECK_DEADLOCK FALSE
