-------------------------------- MODULE Demo --------------------------------
(***************************************************************************)
(* main(), the download client: its loop as the application of one socket, *)
(* composed with IoSocketImpl (plain TCP), the kernel and the server.      *)
(* resolve(), the file and the console are left out: "got" is what recv()  *)
(* has returned, of which printing shows what precedes a zero byte.        *)
(***************************************************************************)
EXTENDS IoSocketImpl

CONSTANTS
  Request,   \* lengths of the strings that adp_puts() sends
  ReadLen    \* length of main()'s own buffer

ASSUME DemoAssumption == Request \in Seq(Nat \ {0}) /\ ReadLen \in Nat \ {0}

VARIABLES
  at,    \* what main() does next: "connect", "ctl", "loop" (call wait()), "event" (inside or
         \* back from wait()), "free"; or "ended"
  next   \* the string to send next

demoVars == <<vars, at, next>>

DemoInit == Init /\ status = "DISCONNECT" /\ at = "connect" /\ next = 1

-----------------------------------------------------------------------------
(* Faulty variants of the helpers below, to test the properties.            *)

ReadsOnce(n) == FALSE
OnlyErrors   == ev = {"ERROR"}

-----------------------------------------------------------------------------
Goto(place) == at' = place /\ UNCHANGED next

\* connect(), whose result is ignored, and ctl(IO_EVENT_OUT).
Start == at = "connect" /\ Connect /\ Goto("ctl")
AskOut == at = "ctl" /\ Ctl({"OUT"}) /\ Goto("loop")

\* wait() without a timeout; it returns here or, in Update, after a packet.
CallWait == at = "loop" /\ Wait /\ Goto("event")

\* wait() has returned.
Told == at = "event" /\ pc = "user"

\* IO_EVENT_OUT: the request is sent string by string, whatever send() returns, then
\* ctl(IO_EVENT_IN).
Puts ==
  /\ Told /\ "OUT" \in ev /\ next <= Len(Request)
  /\ Send(Request[next])
  /\ next' = next + 1 /\ UNCHANGED at

AskIn ==
  /\ Told /\ "OUT" \in ev /\ next > Len(Request)
  /\ Ctl({"IN"})
  /\ next' = 1 /\ at' = "loop"

\* IO_EVENT_IN: recv() until it returns 0 or less.
ReadOn(n) == n > 0
Read ==
  /\ Told /\ "OUT" \notin ev /\ "IN" \in ev
  /\ Recv(ReadLen)
  /\ Goto(IF ~RecvShut /\ ReadOn(Handed(ReadLen)) THEN "event" ELSE "loop")

\* Any other event: close() once, whatever it returns, and leave the loop.
Failure == ev \cap {"OUT", "IN"} = {}
GiveUp == Told /\ Failure /\ Close /\ Goto("free")

\* FreeIoSelector(): the destructor deletes the socket if close() has not.
Free ==
  /\ at = "free"
  /\ alive' = FALSE /\ listed' = FALSE /\ open' = FALSE
  /\ Goto("ended")
  /\ UNCHANGED <<status, shutdownFlag, lastError, sendVar, recvVar, evMask, pc, ev, peer>>

Main == Start \/ AskOut \/ CallWait \/ Puts \/ AskIn \/ Read \/ GiveUp \/ Free

Environment ==
  \/ Update \/ KernelSend \/ KernelRecv \/ \E how \in PeerEnds : PeerEnd(how)

DemoNext == Main \/ (Environment /\ UNCHANGED <<at, next>>)

DemoSpec == DemoInit /\ [][DemoNext]_demoVars

\* main() runs on, wait() takes what is queued, the kernel finishes what it can without the
\* server.
DemoLive ==
  /\ DemoSpec
  /\ WF_demoVars(Main)
  /\ WF_demoVars(Update /\ UNCHANGED <<at, next>>)
  /\ WF_demoVars(KernelSend /\ UNCHANGED <<at, next>>)
  /\ WF_demoVars((KRecvFin \/ KAbortRecv) /\ UNCHANGED <<at, next>>)

-----------------------------------------------------------------------------
(* Properties.                                                              *)

\* main() ends once the server has closed or reset the connection, or has refused it.
DownloadEnds ==
  (peer \in {"fin", "reset"} \/ (sendIo.st = "done" /\ ~sendIo.ok)) ~> at = "ended"

\* Every byte the kernel has delivered to the socket is read by main(), however the response is
\* cut into pieces, unless the connection is reset.
ResponseRead ==
  \A k \in 1..MaxIn : inCount >= k ~> Len(got) >= k \/ peer = "reset"

=============================================================================
