--------------------------- MODULE MCJackFrontend ---------------------------
(* JackFrontend for TLC; the bounds are in the .cfg files.                  *)
EXTENDS JackFrontend
=============================================================================
