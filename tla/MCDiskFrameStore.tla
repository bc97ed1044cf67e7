-------------------------- MODULE MCDiskFrameStore --------------------------
(* A small instance of DiskFrameStore for TLC. *)
EXTENDS DiskFrameStore

MCPts == 0..3
MCCapacities == {1, 2}
=============================================================================
