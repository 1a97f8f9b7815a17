--------------------------- MODULE MCFrameBuffer ---------------------------
(* The double buffer, for model checking on a small instance.              *)
EXTENDS FrameBuffer
=============================================================================
