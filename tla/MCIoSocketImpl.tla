--------------------------- MODULE MCIoSocketImpl ---------------------------
(***************************************************************************)
(* Instances of IoSocketImpl for TLC: the event masks and shutdown         *)
(* arguments that the runs let the application use.                        *)
(***************************************************************************)
EXTENDS IoSocketImpl

LevelMasks   == {{"OUT"}, {"IN", "OUT"}}
MixedMasks   == {{"OUT"}, {"IN", "OUT", "ET"}, {"IN", "ONESHOT"}}
EdgeMasks    == {{"OUT", "ET"}, {"IN", "OUT", "ET"}}
LiveMasks    == {{"IN", "OUT", "ET"}}
StreamMasks  == {{"IN", "OUT", "ET"}, {"IN", "ONESHOT"}}
=============================================================================
