SPECIFICATION Spec
CONSTANTS
  Grid = 4
  MovePeriod = 2
  FrameWrap = 3
  FruitCells <- MCFruitCells
  MaxLen = 5
CONSTRAINT LengthBound
INVARIANTS TypeOK Connected OneBendIsNoReversal ShortSnakeLives KeepsPace
