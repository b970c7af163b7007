SPECIFICATION FairSpec
CONSTANTS
  red = red
  blue = blue
  Fingerprints <- Prints
  MaxEpoch = 1
  MaxWorld = 1
  MaxRevision = 1
  MaxEvents = 1
  MaxIssues = 1
  RunsThenPanics = TRUE
PROPERTY RequestAnswered
