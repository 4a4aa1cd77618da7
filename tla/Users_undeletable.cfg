CONSTANTS
    Emails = {e1, e2}
    NoEmail = NoEmail
    Requests = {r1, r2}
    Ops = {"hook", "delete"}
    AuthulaSharesTable = TRUE
    CanFail = FALSE
SPECIFICATION Spec
INVARIANTS
    SuperAdminNotSoftDeleted
