SPECIFICATION Spec
CONSTANTS
  Bands = 2
  BusMayFail = TRUE
INVARIANTS TypeOK DrawnBlocksStay BlockIsNotOverwritten
PROPERTY ViewportRecovers
