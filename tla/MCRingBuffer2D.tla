--------------------------- MODULE MCRingBuffer2D ---------------------------
(* RingBuffer2D for TLC: the sizes are given in the .cfg files so that rows *)
(* do not divide the chunk size and chunks do not divide the capacity.      *)
EXTENDS RingBuffer2D
=============================================================================
