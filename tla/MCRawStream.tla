---------------------------- MODULE MCRawStream ----------------------------
(* RawStream and FFTBackend for TLC; the bounds are in the .cfg files.      *)
EXTENDS RawStream
=============================================================================
