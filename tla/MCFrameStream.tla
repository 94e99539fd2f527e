--------------------------- MODULE MCFrameStream ---------------------------
(* One run and the browser that follows it, for TLC. *)
EXTENDS FrameStream
=============================================================================
