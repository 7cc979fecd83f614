---------------------------- MODULE MCCameraNode ----------------------------
(* Model-checking instance of CameraNode: three or four DMA buffers (the   *)
(* configuration requires at least three) and enough triggers to wrap the  *)
(* request ring twice.                                                     *)
EXTENDS CameraNode

MCBuffers3 == 3
MCBuffers4 == 4
MCTriggers == 7
=============================================================================
