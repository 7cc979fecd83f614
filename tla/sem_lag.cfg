CONSTANTS
    N <- MCBuffers3
    MaxTriggers <- MCTriggers
    HwLimit = 0
SPECIFICATION Spec
INVARIANT SemLagAtMostOne
CHECK_DEADLOCK FALSE
