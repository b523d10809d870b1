\* Two units each way through a window of one: every hop fills up and blocks.
CONSTANTS
    MaxUp = 2
    MaxDown = 2
    Window = 1
SPECIFICATION FairSpec
INVARIANTS TypeOK AnswerComplete
PROPERTIES ServerSideEnds ProxyEnds Flows
\* The connection ends.
CHECK_DEADLOCK FALSE
