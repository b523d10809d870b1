\* Two units each way through a window of one: every hop fills up and blocks.
CONSTANTS
    MaxUp = 2
    MaxDown = 2
    Window = 1
SPECIFICATION Spec
INVARIANT HalfCloseAnswered
\* The connection ends.
CHECK_DEADLOCK FALSE
