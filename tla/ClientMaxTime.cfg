SPECIFICATION FairSpec
CONSTANTS
    HasBackoff = TRUE
    Pauses = {1, 2}
    MaxElapsed = 4
    Hiccup = 2
INVARIANT
    RetriesBeforeGivingUp
