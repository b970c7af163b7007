SPECIFICATION Spec
CHECK_DEADLOCK FALSE
CONSTANTS
  c1 = c1
  c2 = c2
  k1 = k1
  k2 = k2
  k3 = k3
  NoToken = NoToken
  Thread <- TwoCalls
  Token <- ThreeImages
  Sizes = {1, 2}
  MaxBytes = 2
  Limits <- TwoOrOne
  MaxClock = 1
  MaxStuck = 1
  Meddling = {}
SYMMETRY StoreSymmetry
INVARIANTS
  NothingForgotten
  OneOwner
PROPERTIES
  WithinLimits
  
