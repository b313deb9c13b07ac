SPECIFICATION Spec
CONSTANTS
  StableFrames = 1
  Grid = 4
  MovePeriod = 4
  FrameWrap = 4
  FruitCells <- MCNearFruit
  EnvMayFail = TRUE
  MaxLen = 4
CONSTRAINT LengthBound
INVARIANT ShadowInSync
