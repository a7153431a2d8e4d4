SPECIFICATION FairSpec
CONSTANTS
  NumRanks = 2
  NumBanks = 3
  T <- MCT
  CmdQueueDepth = 4
  TotalRowAccesses = 1
  Configs <- MCConfigs
  Width <- MCWidth
  Scheme = 2
  Transactions <- MCTransactions
  TransQueueDepth = 2
  RefreshPeriod = 32
  MaxTransactions = 3
  Stride = 8
INVARIANTS TypeOK NoError DataBusIsExclusive ColumnHasRow RefreshIsComing
PROPERTIES TransactionsComplete
