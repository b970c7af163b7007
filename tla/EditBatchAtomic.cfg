SPECIFICATION Spec
CHECK_DEADLOCK FALSE
CONSTANTS
  a = a
  b = b
  old = old
  new = new
  Objects = {a, b}
  Layers <- OneLayer
  Frames <- FourFrames
  Length <- TwoLengths
  Values = {old, new}
  MaxSteps = 3
  FailedCallApplies = FALSE
INVARIANTS
  InverseFindsRoom
  DoneMeansAsked
PROPERTY KeepsPromise
