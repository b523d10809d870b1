\* Two runs at the same time.
SPECIFICATION CASpec
CONSTANTS
    Runs = {"r1", "r2"}
    Serial = FALSE
CHECK_DEADLOCK FALSE
INVARIANT
    CreatedKept
