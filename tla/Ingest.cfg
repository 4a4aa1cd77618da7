CONSTANTS
    Times = {1, 2}
    Places = {p1, p2}
    NoPlace = NoPlace
    Requests = {r1, r2}
    NoRequest = NoRequest
SPECIFICATION FairSpec
INVARIANTS
    TypeOK
    AckedFixesStored
    FailedPollsLeaveNoTrace
PROPERTIES
    LatestMovesForward
    UploadEnds
    ImplementsLocationLog
