-------------------------- MODULE MCMessageDispatch --------------------------
(* MessageDispatch for TLC; the bounds are in the .cfg file.                *)
EXTENDS MessageDispatch

CONSTANT HourRows \* how many rows an hour has

HourOfRow(time) == time \div HourRows
=============================================================================
