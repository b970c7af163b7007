SPECIFICATION Spec
CHECK_DEADLOCK FALSE
CONSTANTS
  s1 = s1
  s2 = s2
  p1 = p1
  Nobody = Nobody
  Unsaved = Unsaved
  Servers <- TwoServers
  Projects <- OneProject
  Stamps <- TrueStamp
  MaxEvents = 3
  MaxFailedWrites = 2
  Slow <- InCalls
SYMMETRY ServerSymmetry
INVARIANTS
  ListenerHasDescriptor
  FileFollowsMemory
  CleanExit
PROPERTY KeepsPromise
