\* Three runs, one after the other: an init, an issue and one more of either.
SPECIFICATION CASpec
CONSTANTS
    Runs = {"r1", "r2", "r3"}
    Serial = TRUE
CHECK_DEADLOCK FALSE
INVARIANTS
    CATypeOK
    CreatedKept
    ChainVerifies
