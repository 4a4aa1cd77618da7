CONSTANTS
    MaxFaults = 2
SPECIFICATION FairSpec
INVARIANTS
    TypeOK
    StoreVouched
    NoOverlappingAuthCalls
    NoFormFlash
    BlankMeansBusy
PROPERTIES
    RedirectsSettle
    RedirectsConverge
