SPECIFICATION Spec
CONSTANTS
    Proc = {p1, p2, p3}
    Dir = Dir
    CacheRequestType = {"LD", "ST"}
    SequencerOutstandingRequests = 2
    MaxStores = 3
SYMMETRY ProcSymmetry
INVARIANTS
    TypeOK
    NoInvalidTransition
    AssertionsHold
    SingleWriter
    NoStaleRead
    LatestSurvives
    DirectoryKnowsHolders
PROPERTY MemoryNeverRegresses
