\* Two runs, one after the other.
SPECIFICATION CASpec
CONSTANTS
    Runs = {"r1", "r2"}
    Serial = TRUE
CHECK_DEADLOCK FALSE
INVARIANT
    NoKeylessCertificate
