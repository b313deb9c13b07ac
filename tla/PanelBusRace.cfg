SPECIFICATION Spec
CONSTANTS
  Bands = 2
  BusMayFail = FALSE
INVARIANT DrawsInPlace
