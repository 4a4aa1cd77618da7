CONSTANTS
    Emails = {e1, e2}
    NoEmail = NoEmail
    Requests = {r1, r2}
    Ops = {"hook", "update", "passwd", "delete"}
    AuthulaSharesTable = TRUE
    CanFail = TRUE
SPECIFICATION Spec
SYMMETRY Symmetry
INVARIANTS
    TypeOK
    OneSuperAdminBeforeService
    DeletedNeverAdmitted
PROPERTIES
    TombstonesFrozen
    OnlyOwnerOrAdminDeletes
    SignUpElects
