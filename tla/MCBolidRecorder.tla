-------------------------- MODULE MCBolidRecorder --------------------------
(* BolidRecorder for TLC; the bounds are in the .cfg files.                 *)
EXTENDS BolidRecorder
=============================================================================
