SPECIFICATION DataSpec
CONSTANTS
  p1 = p1
  p2 = p2
  h1 = h1
  h2 = h2
  hide = hide
  other = other
  NoSaver = NoSaver
  Saver <- TwoProcesses
  Item <- TwoItems
  MaxWrites = 3
  MaxFaults = 1
  Racing = {"absence", "loss"}
  Host <- TwoHosts
  Offers <- SomeOffers
  Generated <- ShortTree
  MaxUpsets = 1
SYMMETRY HostSymmetry
INVARIANTS
  RefreshFindsFile
  TreeRepaired
PROPERTIES
  OthersChangesStay
  FileStaysWhole
