--------------------------- MODULE MCFramedStream ---------------------------
(* Small instances of FramedStream for TLC. *)
EXTENDS FramedStream
=============================================================================
