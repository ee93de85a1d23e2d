------------------------- MODULE MCSnapshotRecorder -------------------------
(* SnapshotRecorder for TLC; the bounds are in the .cfg files.              *)
EXTENDS SnapshotRecorder
=============================================================================
