SPECIFICATION Spec
CONSTANTS
  NoNetwork = NoNetwork
  Networks = {home, work}
  LongNames = {}
  InRange = {home, work}
  EngineMayFail = FALSE
  ConfigMayFail = FALSE
  EventQueue = 2
  NvsMayFail = FALSE
INVARIANT ConnectsToTheNamed
