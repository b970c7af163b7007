SPECIFICATION Spec
CONSTANTS
  red = red
  blue = blue
  Fingerprints <- Prints
  MaxEpoch = 1
  MaxWorld = 1
  MaxRevision = 2
  MaxEvents = 1
  MaxIssues = 2
  RunsThenPanics = FALSE
SYMMETRY PrintSymmetry
INVARIANTS
  PluginChangeNeverLooksSaved
  EditHitsWhatWasRead
  AnswerIsNewer
PROPERTY NoSilentChange
