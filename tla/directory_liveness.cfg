SPECIFICATION FairSpec
CONSTANTS
    Proc = {p1, p2}
    Dir = Dir
    CacheRequestType = {"LD", "IFETCH", "ST"}
    SequencerOutstandingRequests = 2
    MaxStores = 2
PROPERTIES
    TransactionsComplete
    ImplementsCoherentMemory
