SPECIFICATION Spec
CONSTANTS
    Proc = {p1, p2}
    Dir = Dir
    CacheRequestType = {"LD", "ST"}
    SequencerOutstandingRequests = 2
    MaxStores = 2
    Randomization = FALSE
INVARIANT NoInvalidTransition
