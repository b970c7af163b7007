SPECIFICATION PluginSpec
CHECK_DEADLOCK FALSE
CONSTANTS
  s1 = s1
  s2 = s2
  p1 = p1
  Nobody = Nobody
  Unsaved = Unsaved
  Servers <- OneServer
  Projects <- OneProject
  Stamps <- AnyStamp
  MaxEvents = 1
  MaxFailedWrites = 1
  Slow <- InCalls
PROPERTIES
  DropEnds
  ListensAgain
  StaleGoes
