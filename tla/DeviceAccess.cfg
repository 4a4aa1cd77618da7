CONSTANTS
    Users = {u1, u2}
    NoUser = NoUser
    Devices = {d1, d2}
    NoDevice = NoDevice
    Requests = {r1, r2}
    CanFail = TRUE
SPECIFICATION Spec
SYMMETRY Symmetry
INVARIANTS
    TypeOK
    OneOwner
    OwnerOnlySteps
    LateTargetsRefused
PROPERTIES
    DeletedDevicesFrozen
    ImplementsAccessBook
\* Once every user is deleted nobody is left to send a request.
CHECK_DEADLOCK FALSE
