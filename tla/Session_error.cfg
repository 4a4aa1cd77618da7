CONSTANTS
    MaxFaults = 0
SPECIFICATION Spec
INVARIANTS
    FailureIsShown
