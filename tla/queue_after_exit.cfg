CONSTANTS
    N <- MCBuffers3
    MaxTriggers <- MCTriggers
    HwLimit = 0
SPECIFICATION Spec
PROPERTY NoEnqueueAfterExit
CHECK_DEADLOCK FALSE
