----------------------------- MODULE MCChannel -----------------------------
(* Channel for TLC. Two messages are enough to tell an order from another.  *)
EXTENDS Channel
=============================================================================
