------------------------------ MODULE MCPlayer ------------------------------
(* A clip of five ticks with one keyframe, and a track of sound that starts   *)
(* late and ends before the pictures do.                                      *)
EXTENDS Player

MCKeyFrames == {0}
MCAudioTicks == {1}
MCRanges == {<<1, 4>>}
MCSeekTargets == {2, 5}
=============================================================================
