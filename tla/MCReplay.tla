------------------------------- MODULE MCReplay -------------------------------
(* A small instance of Replay for TLC.                                     *)
EXTENDS Replay

\* Two and a half seconds of footage in half-second ticks.
MCPts == 0..4
MCCapacities == {1, 2}
MCRequests == {0, 1, 2}
MCAudioTimes == {1, 4, 8}
=============================================================================
