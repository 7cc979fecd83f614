CONSTANTS
    N <- MCBuffers3
    MaxTriggers <- MCTriggers
    HwLimit = 0
SPECIFICATION FairSpec
INVARIANT TypeOK
INVARIANT BufferExclusive
PROPERTY FramesDelivered
\* The pipeline idles in sem_wait once the bounded triggers are used up.
CHECK_DEADLOCK FALSE
