---------------------------- MODULE MCIoListener ----------------------------
(***************************************************************************)
(* Instances of IoListener for TLC: the event masks the runs use.          *)
(***************************************************************************)
EXTENDS IoListener

AcceptMasks == {{"IN"}, {"IN", "ONESHOT"}}
AllMasks    == {{"OUT"}, {"IN"}, {"IN", "ONESHOT"}}
=============================================================================
