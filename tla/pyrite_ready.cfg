SPECIFICATION Spec
CONSTANTS
  Suite = "lines"
  Programs <- MCPrograms
  WordOf <- MCWordOf
  LineOf <- MCLineOf
  BadBytes = {5}
  MaxOutstanding = 1
  RobSize = 5
  FrontEndMax = 2
  MaxUops = 6
  BufSize = 12
  MaxRemote = 0
INVARIANT SequencerReady
