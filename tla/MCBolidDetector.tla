-------------------------- MODULE MCBolidDetector --------------------------
(* BolidDetector for TLC, on every sequence of rows with and without a      *)
(* detection up to MaxRows long.                                            *)
EXTENDS BolidDetector
=============================================================================
