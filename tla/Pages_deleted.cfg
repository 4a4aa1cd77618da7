CONSTANTS
    Ids = {i1, i2}
    Names = {n1, n2}
    Keys = {k1, k2}
    None = None
    PageSize = 1
    MaxFaults = 0
SPECIFICATION Spec
PROPERTIES
    DeletedMeansDeleted
CHECK_DEADLOCK FALSE
