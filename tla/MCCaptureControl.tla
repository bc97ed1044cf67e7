-------------------------- MODULE MCCaptureControl --------------------------
(* A small instance of CaptureControl for TLC. *)
EXTENDS CaptureControl

=============================================================================
