--------------------------- MODULE MCSnapshotIPC ---------------------------
(* SnapshotIPC with two reports, so that one check lists two triggers.     *)
EXTENDS SnapshotIPC
=============================================================================
