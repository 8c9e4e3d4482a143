--------------------------- MODULE MCCaptureLoop ----------------------------
(* The capture loop with its bounds given in the configurations.           *)
EXTENDS CaptureLoop
=============================================================================
