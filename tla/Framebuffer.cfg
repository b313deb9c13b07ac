CONSTANTS
  Width = 12
  Height = 2
  Glyph = 2
  Font <- TwoGlyphs
  Calls <- AllCalls
  Colors <- SomeColors
SPECIFICATION Spec
CONSTRAINT Painted
INVARIANTS TypeOK LinesAreStraight LinesAreThinAndWhole OvalsAreRound OvalsAreWhole
PROPERTY ImplementsCanvas
