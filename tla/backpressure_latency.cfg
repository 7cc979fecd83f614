CONSTANTS
    N <- MCBuffers3
    MaxTriggers <- MCTriggers
    HwLimit = 1
SPECIFICATION Spec
INVARIANT BufferExclusive
CHECK_DEADLOCK FALSE
