SPECIFICATION FairSpec
CHECK_DEADLOCK FALSE
CONSTANTS
  r1 = r1
  r2 = r2
  Tasks <- TwoRequests
  MaxAbandoned = 1
  MaxCalls = 2
  Blocking <- OutlastTheStop
INVARIANTS
  DrainedOwesNothing
  FileHasOwner
PROPERTIES
  RoomComesBack
  ShutdownEnds
