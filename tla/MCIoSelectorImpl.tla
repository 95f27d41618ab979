--------------------------- MODULE MCIoSelectorImpl ---------------------------
(***************************************************************************)
(* Instances of IoSelectorImpl for TLC: the timeouts the runs use.         *)
(***************************************************************************)
EXTENDS IoSelectorImpl

EndlessOrTimed == {-1, 0, 2}
=============================================================================
