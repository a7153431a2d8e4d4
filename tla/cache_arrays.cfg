SPECIFICATION FairSpec
CONSTANTS
    Address = {a1, a2, a3}
    SetOf <- MCSetOf
    Assoc <- MCAssoc
    NumberOfTBEs = 1
    SequencerOutstandingRequests = 2
    None = None
INVARIANTS
    Exclusion
    L2IsStable
    WithinCapacity
PROPERTY RequestsComplete
