CONSTANTS
    Emails = {e1, e2}
    NoEmail = NoEmail
    Requests = {r1, r2}
    Ops = {"hook", "me", "getMe", "create"}
    AuthulaSharesTable = TRUE
    CanFail = FALSE
SPECIFICATION FairSpec
PROPERTIES
    FirstSignUpElects
