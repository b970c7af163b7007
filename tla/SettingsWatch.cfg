SPECIFICATION FairSpec
CHECK_DEADLOCK FALSE
CONSTANTS
  hide = hide
  other = other
  Item <- TwoItems
  Tool <- OneTool
  Attempts = 3
  MaxWrites = 2
  MaxFaults = 2
  Racing = {"loss"}
PROPERTIES
  NeverRepublished
  ChangesArrive
