CONSTANTS
    Streams <- MCStreams
    EOS = EOS
    BufSize <- MCBufSize
    Latency = 1
    WireBigEndian = TRUE
    DropFrames = FALSE
SPECIFICATION Spec
INVARIANT ValidPacketsAccepted
\* The worker thread returns after cleanup.
CHECK_DEADLOCK FALSE
