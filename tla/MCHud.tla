--------------------------------- MODULE MCHud ---------------------------------
(* Instances of Hud for TLC.                                                 *)
EXTENDS Hud
=============================================================================
