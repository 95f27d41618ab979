------------------------------- MODULE MCDemo -------------------------------
(***************************************************************************)
(* An instance of Demo for TLC: a request of two strings, sent through a   *)
(* buffer that holds just both, and a buffer of main() that takes less     *)
(* than the socket holds.                                                  *)
(***************************************************************************)
EXTENDS Demo

TwoStrings == <<1, 1>>
NoMasks    == {}
=============================================================================
