CONSTANTS
    Streams <- MCStreams
    EOS = EOS
    BufSize <- MCBufSize
    Latency = 1
    WireBigEndian = FALSE
    DropFrames = TRUE
SPECIFICATION Spec
INVARIANT TimestampsMatchFrames
\* The worker thread returns after cleanup.
CHECK_DEADLOCK FALSE
