CONSTANTS
    Emails = {e1, e2}
    NoEmail = NoEmail
    Requests = {r1, r2}
    Ops = {"hook", "create", "passwd", "delete"}
    AuthulaSharesTable = FALSE
    CanFail = TRUE
SPECIFICATION Spec
SYMMETRY Symmetry
INVARIANTS
    TempPasswordNeverServed
PROPERTIES
    ImplementsDirectory
