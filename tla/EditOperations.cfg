\* Every behaviour is one request, or one listing, and ends with it.
SPECIFICATION Spec
CHECK_DEADLOCK FALSE
CONSTANTS
  EffectNames = {"blur", "glow"}
  Settings = {"fixed", "moving"}
  Moving = {"moving"}
  MaxEffects = 3
  MaxColumnEdits = 1
  Layers <- MCLayers
  Frames <- MCFrames
  InitialObjects <- MCInitialObjects
  Aliases <- MCAliases
  ObjectNames = {"standard", "other"}
  LayersAsked = {0}
  MaxTimelineEdits = 1
  Values = {0, 1, 2}
  MaxSettingsEdits = 1
  Timelines <- MCTimelines
  PageLimit = 1
  MaxSceneChanges = 3
  Tokens <- MCTokens
  MaxTokens = 12
  MaxNumber = 31
  Numeral <- MCNumeral
  Lowered <- MCLowered
  HostItems <- MCHostItems
  Requests <- MCRequests
  AliasRows <- MCAliasRows
  HostModes <- MCHostModes
  LostModes <- MCLostModes
  Facets <- MCFacets
  DefaultParams <- MCDefaultParams
  TopValue = 2
  Offered = {"one", "two", "Red", "red", "black"}
INVARIANTS
  AnswerNamesWhatIsThere
  AnswerAdmitsWhatIsLeft
  OnlyWhatWasAsked
  PagesFitTogether
  ItemsMeanWhatIsSaid
