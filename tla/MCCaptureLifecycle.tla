------------------------- MODULE MCCaptureLifecycle -------------------------
(* Small instance of CaptureLifecycle for TLC. *)
EXTENDS CaptureLifecycle

CONSTANTS r1, r2

OneReq == {r1}
TwoReqs == {r1, r2}
=============================================================================
