CONSTANTS
    Devices = {d1, d2}
    NoDevice = NoDevice
    Keys = {k1, k2, k3}
    NoKey = NoKey
    Requests = {r1, r2}
    CanFail = TRUE
SPECIFICATION FairSpec
INVARIANTS
    TypeOK
    OneActiveKey
    DeadKeysRefused
PROPERTIES
    IssuedKeysFrozen
    ImplementsKeySlot
    CreateMeetsAKey
