SPECIFICATION FairSpec
CONSTANTS
  Suite = "all"
  Programs <- MCPrograms
  WordOf <- MCWordOf
  LineOf <- MCLineOf
  BadBytes = {5}
  MaxOutstanding = 2
  RobSize = 5
  FrontEndMax = 2
  MaxUops = 6
  BufSize = 12
  MaxRemote = 1
INVARIANTS TypeOK WindowOrder  WaitersAreWoken
PROPERTIES EverythingCommits
