SPECIFICATION Spec
CONSTANTS
    Proc = {p1, p2, p3}
    Dir = Dir
    CacheRequestType = {"LD", "ST"}
    SequencerOutstandingRequests = 2
    MaxStores = 2
    Randomization = FALSE
SYMMETRY ProcSymmetry
INVARIANTS
    NoOtherFailure
    CachesCoherent
    ExclusiveDataIsExclusive
CHECK_DEADLOCK FALSE
