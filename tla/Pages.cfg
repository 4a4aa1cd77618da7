CONSTANTS
    Ids = {i1, i2}
    Names = {n1, n2}
    Keys = {k1, k2}
    None = None
    PageSize = 1
    MaxFaults = 1
SPECIFICATION FairSpec
INVARIANTS
    TypeOK
    FlagsTellOfRequests
    ListFaithful
    DeletionsVetted
    RevealedKeyLive
PROPERTIES
    LoadingEnds
CHECK_DEADLOCK FALSE
