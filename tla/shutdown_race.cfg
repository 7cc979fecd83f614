CONSTANTS
    N <- MCBuffers3
    MaxTriggers <- MCTriggers
    HwLimit = 0
SPECIFICATION Spec
PROPERTY NoSubmitAfterShutdown
CHECK_DEADLOCK FALSE
