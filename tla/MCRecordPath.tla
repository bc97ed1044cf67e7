---------------------------- MODULE MCRecordPath ----------------------------
(* RecordPath for TLC: the times come from the configuration. *)
EXTENDS RecordPath
=============================================================================
