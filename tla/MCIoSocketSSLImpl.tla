-------------------------- MODULE MCIoSocketSSLImpl --------------------------
(***************************************************************************)
(* Instances of IoSocketSSLImpl for TLC: the flights of a TLS 1.3          *)
(* handshake on both sides, what follows, and the event masks.             *)
(***************************************************************************)
EXTENDS IoSocketSSLImpl

BothRoles   == [client |-> <<"w", "r", "w">>, server |-> <<"r", "w", "w", "r">>]
ServerRole  == [server |-> <<"r", "w", "r">>]
DataThenEnd == <<"ticket", "data", "close">>
OneData     == <<"data">>
AskAll      == {{"IN"}, {"IN", "OUT"}}
=============================================================================
