SPECIFICATION Spec
CONSTANTS
  StableFrames = 3
  Grid = 20
  MovePeriod = 30
  FrameWrap = 600
  FruitCells <- MCFarFruit
  EnvMayFail = FALSE
  MaxLen = 4
CONSTRAINT LengthBound
INVARIANT GateFollowsMotion
