SPECIFICATION FairSpec
CONSTANTS
    Address = {a1, a2}
    Requestor = {p1}
    TransQueueDepth = 2
    MaxOperations = 4
INVARIANTS
    EveryOperationAnswered
    NoStrandedTransaction
PROPERTY
    WaitingTransactionsEnter
CHECK_DEADLOCK FALSE
