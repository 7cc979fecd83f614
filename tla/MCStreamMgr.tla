---------------------------- MODULE MCStreamMgr ----------------------------
(* Model-checking instance of StreamMgr.  The camera sends three frames    *)
(* and the sentinel, the last frame exactly ENCODED_FRAME_BUF_SIZE long,   *)
(* or a stream whose second frame is one byte too large, or a stream cut  *)
(* off without the sentinel.  Timestamps 255 and 256 differ in both bytes. *)
EXTENDS StreamMgr

MCBufSize == 3
MCStreams ==
    { << [ts |-> 255, size |-> 1], [ts |-> 256, size |-> 2],
         [ts |-> 257, size |-> 3], EOS >>,
      << [ts |-> 255, size |-> 2], [ts |-> 256, size |-> 4], EOS >>,
      << [ts |-> 255, size |-> 1], [ts |-> 256, size |-> 1] >> }
=============================================================================
