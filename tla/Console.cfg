SPECIFICATION Spec
CONSTANTS
  NoNetwork = NoNetwork
  Networks = {home, long}
  LongNames = {long}
  InRange = {home, long}
  EngineMayFail = TRUE
  ConfigMayFail = TRUE
  EventQueue = 2
  NvsMayFail = TRUE
INVARIANTS TypeOK LampIsKept OnlyAsked NeverStranded
PROPERTIES Reconnects ConsoleComesBack
