---------------------------- MODULE IoSocketImpl ----------------------------
(***************************************************************************)
(* One TCP connection: an IoSocketImpl object, the part of IoSelectorImpl  *)
(* that serves it (ctl, wait, close), the Windows kernel that owns its two *)
(* overlapped operations, the remote peer, and the single-threaded         *)
(* application that calls them.                                            *)
(*                                                                         *)
(* The application and the handlers run in one thread, so every call is    *)
(* one atomic action; only the kernel and the peer run between two calls   *)
(* and while the thread is blocked in wait().                              *)
(*                                                                         *)
(* Data: the k-th byte of either direction is the number k, so that a byte *)
(* lost, repeated, reordered or overwritten shows in the streams.  Position*)
(* p of a C buffer is index p + 1 here.                                    *)
(***************************************************************************)
EXTENDS Integers, Sequences

CONSTANTS
  SEND_BUF_LEN,  \* capacity of the send buffer
  RECV_BUF_LEN,  \* capacity of the receive buffer
  CtlMasks,      \* the event masks the application passes to ctl()
  Hows,          \* the arguments it passes to shutdown()
  MaxOut,        \* bound: bytes the application wants to send
  MaxIn,         \* bound: bytes the peer sends
  PeerEnds,      \* how the peer may end the connection: "fin", "reset"
  PostMayFail,   \* WSASend/WSARecv/ConnectEx may fail at once (no packet follows)
  FiniteWait,    \* the application passes a finite timeout to wait()
  AppRules       \* rules the application keeps: "connect", "header", "drain" (see below)

\* "connect": it calls connect() on a socket that is not connected, and not again
\*            before wait() has taken the result of the last attempt.
\* "header":  it does as IoSocketImpl.h says of the states: an unconnected socket is
\*            not yet sent on, read from (IO_EVENT_IN included) or shut down, only one
\*            whose status is > 0 is shut down, and a closed one is left alone.
\* "drain":   told IO_EVENT_IN, or having read some bytes, it reads until the
\*            buffer is empty before it calls wait() again, as the loop in
\*            main() does.

Events   == {"IN", "OUT", "ERROR", "HANGUP"}
Flags    == {"ET", "ONESHOT"}
Statuses == {"DISCONNECT", "CONNECTED", "SHUTDOWN", "BROKEN", "CLOSED", "PEERCLOSED"}
Negative == {"BROKEN", "CLOSED", "PEERCLOSED"}
Positive == {"CONNECTED", "SHUTDOWN"}

ASSUME SocketAssumption ==
  /\ SEND_BUF_LEN \in Nat \ {0} /\ RECV_BUF_LEN \in Nat \ {0}
  /\ CtlMasks \subseteq SUBSET (Events \cup Flags)
  /\ Hows \subseteq {"recv", "send", "both"}
  /\ MaxOut \in Nat /\ MaxIn \in Nat
  /\ PeerEnds \subseteq {"fin", "reset"}
  /\ PostMayFail \in BOOLEAN /\ FiniteWait \in BOOLEAN
  /\ AppRules \subseteq {"connect", "header", "drain"}

VARIABLES
  \* the IoSocketImpl object
  open,          \* _s is a valid handle
  status,        \* _status
  evMask,        \* _evMask, as a set of names
  shutdownFlag,  \* _shutdownFlag; "none" is -1
  lastError,     \* _lastError
  sendOlp, sendBuf, recvOlp, recvBuf,  \* _sendOlp, _recvOlp and the memory they point to
  \* the selector's books on it
  listed,        \* it is in _actAdpList
  alive,         \* it is in _adpList: not deleted yet
  \* the kernel and the peer
  sendIo, recvIo, \* what the kernel knows of the operation posted with each OVERLAPPED
  peer, wire, inCount,
  \* the application
  pc,            \* "user": in its own code; "wait": blocked in wait()
  ev,            \* the events the last wait() returned
  sent, got      \* bytes send() accepted, bytes recv() returned

sock    == <<open, status, shutdownFlag, lastError>>
sendVar == <<sendOlp, sendBuf, sendIo, wire, sent>>
recvVar == <<recvOlp, recvBuf, recvIo, inCount, got>>
waitVar == <<evMask, listed, pc, ev>>
vars    == <<sock, sendVar, recvVar, waitVar, alive, peer>>

\* The completion port hands back one packet per posted operation: an operation is
\* idle, in flight (the kernel owns its buffer), or done with its packet queued.
\* The port's order between the two packets is not kept; any order is allowed.
Idle       == [st |-> "idle", ok |-> FALSE, n |-> 0]
Flight     == [st |-> "flight", ok |-> FALSE, n |-> 0]
Done(b, k) == [st |-> "done", ok |-> b, n |-> k]
IoState    == [st : {"idle", "flight", "done"}, ok : BOOLEAN, n : Nat]
SendOlps == [opp : {"NONE", "CONNECT", "SEND"}, ipos : 0..SEND_BUF_LEN,
             upos : 0..SEND_BUF_LEN, et : BOOLEAN]
RecvOlps == [opp : {"NONE", "RECV"}, ipos : 0..RECV_BUF_LEN,
             upos : 0..RECV_BUF_LEN, et : BOOLEAN]

SendTypeOK ==
  /\ sendOlp \in SendOlps /\ sendBuf \in [1..SEND_BUF_LEN -> Nat] /\ sendIo \in IoState
  /\ wire \in Seq(Nat) /\ sent \in 0..MaxOut

RecvTypeOK ==
  /\ recvOlp \in RecvOlps /\ recvBuf \in [1..RECV_BUF_LEN -> Nat] /\ recvIo \in IoState
  /\ got \in Seq(Nat) /\ inCount \in 0..MaxIn

SockTypeOK ==
  /\ open \in BOOLEAN /\ alive \in BOOLEAN /\ listed \in BOOLEAN
  /\ status \in Statuses
  /\ evMask \subseteq Events \cup Flags /\ ev \subseteq Events
  /\ shutdownFlag \in {"none", "recv", "send", "both"}
  /\ lastError \in {"none", "EAGAIN", "ESHUTDOWN", "FAILED"}
  /\ peer \in {"none", "up", "fin", "reset"}
  /\ pc \in {"user", "wait"}

\* The values each variable may take; the positions stay inside their buffers.
TypeOK == SendTypeOK /\ RecvTypeOK /\ SockTypeOK

\* A new socket is unconnected, or the connection accept() took from a listener.
Init ==
  /\ \/ status = "DISCONNECT" /\ peer = "none"
     \/ status = "CONNECTED" /\ peer = "up"
  /\ open = TRUE /\ evMask = {} /\ shutdownFlag = "none"
  /\ lastError = "none"
  /\ sendOlp = [opp |-> "NONE", ipos |-> 0, upos |-> 0, et |-> FALSE]
  /\ recvOlp = [opp |-> "NONE", ipos |-> 0, upos |-> 0, et |-> FALSE]
  /\ sendBuf = [i \in 1..SEND_BUF_LEN |-> 0]
  /\ recvBuf = [i \in 1..RECV_BUF_LEN |-> 0]
  /\ listed = FALSE /\ alive = TRUE
  /\ sendIo = Idle /\ recvIo = Idle
  /\ wire = <<>> /\ inCount = 0
  /\ pc = "user" /\ ev = {} /\ sent = 0 /\ got = <<>>

-----------------------------------------------------------------------------
(* Faulty variants of the helpers below: what the code would do with a      *)
(* plausible mistake in it.  No action uses them; they test the properties. *)

BusyRecvOnly         == recvOlp.opp # "NONE"
MovedNothing(buf, from, n) == buf
TakenStillMarked(olp) == olp
FillsBeyond(n)       == sendOlp.upos + n > SEND_BUF_LEN
HandsOverAll(len)    == len
UnreadOneLess        == IF recvOlp.ipos > recvOlp.upos THEN recvOlp.ipos - recvOlp.upos - 1 ELSE 0
EmptiesOnlyIfNone(n) == n = 0
OutstandingNever(o)  == FALSE
TransferredAll       == sendOlp.ipos
NothingLeftBothOnly  == IF shutdownFlag = "both" THEN "ESHUTDOWN" ELSE "IDLE"
BreakUnlessFineRevives(pr) ==
  /\ status' = IF pr \in {"BUSY", "IDLE", "POSTED"} THEN "CONNECTED" ELSE "BROKEN"
  /\ lastError' = IF pr \in {"BUSY", "IDLE", "POSTED"} THEN lastError ELSE pr

-----------------------------------------------------------------------------
(* Helpers shared by the calls and the completion handlers.                 *)

Header == "header" \in AppRules
ConnectsOnce == "connect" \in AppRules
Calls  == pc = "user" /\ alive /\ (Header => open)

SendShut == shutdownFlag \in {"send", "both"}
RecvShut == shutdownFlag \in {"recv", "both"}

\* busy()
Busy == recvOlp.opp # "NONE" \/ sendOlp.opp # "NONE"

\* memmove(buf, buf + from, n)
Moved(buf, from, n) == [i \in DOMAIN buf |-> IF i <= n THEN buf[i + from] ELSE buf[i]]

\* onUpdate() clears the operation type of a structure whose packet was taken.
Taken(olp) == [olp EXCEPT !.opp = "NONE"]

\* The send buffer: its free places, and whether n more bytes fill it.
Room     == SEND_BUF_LEN - sendOlp.upos
Fills(n) == sendOlp.upos + n >= SEND_BUF_LEN

\* The receive buffer: its unread bytes, those recv(buf, len) hands over, and whether
\* handing over n bytes leaves none, so that the next read must be posted.
Unread      == recvOlp.ipos - recvOlp.upos
Handed(len) == IF len > Unread THEN Unread ELSE len
Empties(n)  == n >= Unread

\* The post functions do nothing while an operation is outstanding; a read is only
\* posted once the memmove has left no unread byte.
Outstanding(o) == o.opp # "NONE"
Drained(left)  == left = 0

\* What a post function returned: "BUSY" WSA_IO_PENDING because one is outstanding,
\* "IDLE" 0 with nothing to do, "POSTED" 0 or WSA_IO_PENDING from the kernel,
\* "FAILED" any other error of the kernel.
PostResults == {"BUSY", "IDLE", "POSTED", "ESHUTDOWN", "FAILED"}
Fine(pr)    == pr \in {"BUSY", "IDLE", "POSTED"}

\* What postSend() returns with nothing left to send: after shutdown() an error.
NothingLeft == IF SendShut THEN "ESHUTDOWN" ELSE "IDLE"

\* The kernel's answer to WSASend / WSARecv / ConnectEx: the first two need an open handle
\* with a connection, the last one an open handle without one and without an attempt under
\* way.  A failed call leaves no packet behind.
Linked     == open /\ peer # "none"
Unlinked   == open /\ peer = "none" /\ sendIo.st = "idle"
Issued(possible, pr) ==
  \/ pr = "POSTED" /\ possible
  \/ pr = "FAILED" /\ (PostMayFail \/ ~possible)

\* postSend(), called with the overlapped structure in state o, the buffer b and the
\* kernel's side io.
PostSend(o, b, io, pr) ==
  \/ /\ Outstanding(o)
     /\ pr = "BUSY"
     /\ sendOlp' = o /\ sendBuf' = b /\ sendIo' = io
  \/ LET left == o.upos - o.ipos IN
     /\ ~Outstanding(o)
     /\ sendBuf' = Moved(b, o.ipos, left)
     /\ \/ /\ left = 0
           /\ pr = NothingLeft
           /\ sendOlp' = [o EXCEPT !.ipos = 0, !.upos = 0]
           /\ sendIo' = io
        \/ /\ left > 0
           /\ sendOlp' = [o EXCEPT !.opp = "SEND", !.ipos = left, !.upos = left]
           /\ Issued(Linked, pr)
           /\ sendIo' = IF pr = "POSTED" THEN Flight ELSE io

\* postRecv(), called with the overlapped structure in state o.
PostRecv(o, pr) ==
  \/ /\ RecvShut
     /\ pr = "ESHUTDOWN"
     /\ recvOlp' = o /\ UNCHANGED <<recvBuf, recvIo>>
  \/ /\ ~RecvShut /\ Outstanding(o)
     /\ pr = "BUSY"
     /\ recvOlp' = o /\ UNCHANGED <<recvBuf, recvIo>>
  \/ LET left == o.ipos - o.upos IN
     /\ ~RecvShut /\ ~Outstanding(o)
     /\ recvBuf' = Moved(recvBuf, o.upos, left)
     /\ \/ /\ ~Drained(left)
           /\ pr = "IDLE"
           /\ recvOlp' = [o EXCEPT !.ipos = left, !.upos = 0]
           /\ UNCHANGED recvIo
        \/ /\ Drained(left)
           /\ recvOlp' = [o EXCEPT !.opp = "RECV", !.ipos = left, !.upos = 0]
           /\ Issued(Linked, pr)
           /\ recvIo' = IF pr = "POSTED" THEN Flight ELSE recvIo

\* Every caller of a post function treats an error so.
Break(err) == status' = "BROKEN" /\ lastError' = err
BreakUnlessFine(pr) == IF Fine(pr) THEN UNCHANGED <<status, lastError>> ELSE Break(pr)

\* onDetectEvent(): the events the present state of the socket calls for.
Detected ==
  IF ~open \/ status \in Negative
  THEN IF status = "PEERCLOSED" THEN {"HANGUP"} ELSE {"ERROR"}
  ELSE {e \in {"IN", "OUT", "ERROR"} :
         \/ e = "IN"    /\ ~RecvShut /\ Unread > 0
         \/ e = "OUT"   /\ ~SendShut /\ status \in Positive /\ sendOlp.upos < SEND_BUF_LEN
         \/ e = "ERROR" /\ SendShut /\ sendOlp.ipos = sendOlp.upos}

\* maskEvent(): the events that the mask lets through; with IO_EVENT_ONESHOT the first
\* of them clears the mask.
MaskEvent(raw) ==
  /\ ev' = raw \cap evMask
  /\ evMask' = IF ev' # {} /\ "ONESHOT" \in evMask THEN {} ELSE evMask

\* The end of wait()'s loop, after a packet: return the events, or go on waiting; a
\* finite timeout may have run out meanwhile.
Resume(raw) ==
  /\ MaskEvent(raw)
  /\ \/ ev' # {} /\ pc' = "user"
     \/ ev' = {} /\ pc' = "wait"
     \/ ev' = {} /\ FiniteWait /\ pc' = "user"

-----------------------------------------------------------------------------
(* The application's calls.                                                 *)

\* connect() retypes _sendOlp whatever is under way with it; of a closed handle it does not
\* even get the address of ConnectEx.  Bound: not called while the packet of an attempt that
\* failed is queued, so that there is never a second packet for the same structure.
Connect ==
  /\ Calls
  /\ ConnectsOnce => status = "DISCONNECT" /\ sendIo.st = "idle"
  /\ ~(sendIo.st = "done" /\ peer = "none")
  /\ sendOlp' = IF open THEN [sendOlp EXCEPT !.opp = "CONNECT"] ELSE sendOlp
  /\ \E pr \in PostResults :
       /\ Issued(Unlinked, pr)
       /\ sendIo' = IF pr = "POSTED" THEN Flight ELSE sendIo
       /\ lastError' = IF pr = "POSTED" THEN lastError ELSE pr
  /\ UNCHANGED <<open, status, shutdownFlag, sendBuf, wire, sent, recvVar, waitVar, alive, peer>>

\* send(buf, len): copies what fits behind the bytes already written and posts.
Send(len) ==
  LET n == IF len > Room THEN Room ELSE len
      o == [sendOlp EXCEPT !.upos = @ + n, !.et = @ \/ Fills(n)]
      b == [i \in 1..SEND_BUF_LEN |->
             IF i > sendOlp.upos /\ i <= sendOlp.upos + n
             THEN sent + i - sendOlp.upos ELSE sendBuf[i]]
  IN
  /\ Calls
  /\ Header => status # "DISCONNECT"
  /\ \/ /\ SendShut
        /\ lastError' = "ESHUTDOWN"
        /\ UNCHANGED <<status, sendOlp, sendBuf, sendIo, sent>>
     \/ /\ ~SendShut /\ n = 0
        /\ lastError' = "EAGAIN"
        /\ UNCHANGED <<status, sendOlp, sendBuf, sendIo, sent>>
     \/ /\ ~SendShut /\ n > 0
        /\ sent' = sent + n
        /\ \E pr \in PostResults : PostSend(o, b, sendIo, pr) /\ BreakUnlessFine(pr)
  /\ UNCHANGED <<open, shutdownFlag, wire, recvVar, waitVar, alive, peer>>

\* recv(buf, len): hands over unread bytes; once none is left it posts the next read.
Recv(len) ==
  LET n == Handed(len) IN
  /\ Calls
  /\ Header => status # "DISCONNECT"
  /\ \/ /\ RecvShut
        /\ lastError' = "ESHUTDOWN"
        /\ UNCHANGED <<status, recvOlp, recvBuf, recvIo, got>>
     \/ /\ ~RecvShut /\ ~Empties(n)
        /\ got' = got \o SubSeq(recvBuf, recvOlp.upos + 1, recvOlp.upos + n)
        /\ recvOlp' = [recvOlp EXCEPT !.upos = @ + n]
        /\ UNCHANGED <<status, lastError, recvBuf, recvIo>>
     \/ /\ ~RecvShut /\ Empties(n)
        /\ got' = got \o SubSeq(recvBuf, recvOlp.upos + 1, recvOlp.upos + n)
        /\ \E pr \in PostResults :
             /\ PostRecv([recvOlp EXCEPT !.upos = @ + n, !.et = TRUE], pr)
             /\ IF Fine(pr) THEN status' = status /\ lastError' = "EAGAIN" ELSE Break(pr)
  /\ UNCHANGED <<open, shutdownFlag, inCount, sendVar, waitVar, alive, peer>>

\* shutdown(how) only notes the wish; postSend() and onDetectEvent() act on it.
Shutdown(how) ==
  /\ Calls
  /\ Header => status \in Positive
  /\ shutdownFlag' = how
  /\ status' = "SHUTDOWN"
  /\ UNCHANGED <<open, lastError, sendVar, recvVar, waitVar, alive, peer>>

\* IoSelectorImpl::ctl() and IoSocketImpl::ctl().
Ctl(mask) ==
  /\ Calls
  /\ Header /\ "IN" \in mask => status # "DISCONNECT" /\ ~RecvShut
  /\ evMask' = mask \cup {"ERROR", "HANGUP"}
  /\ listed' = TRUE
  /\ IF "IN" \in mask
     THEN \E pr \in PostResults : PostRecv(recvOlp, pr) /\ BreakUnlessFine(pr)
     ELSE UNCHANGED <<recvOlp, recvBuf, recvIo, status, lastError>>
  /\ UNCHANGED <<open, shutdownFlag, inCount, got, sendVar, pc, ev, alive, peer>>

\* IoSelectorImpl::close() and closesocket(): the first call closes the handle, and the
\* object is deleted by the first call that finds both structures free.
Close ==
  /\ pc = "user" /\ alive
  /\ open' = FALSE
  /\ status' = IF open THEN "CLOSED" ELSE status
  /\ IF Busy
     THEN lastError' = "EAGAIN" /\ UNCHANGED <<listed, alive>>
     ELSE listed' = FALSE /\ alive' = FALSE /\ UNCHANGED lastError
  /\ UNCHANGED <<shutdownFlag, sendVar, recvVar, evMask, pc, ev, peer>>

-----------------------------------------------------------------------------
(* wait(): the check list first, then completion packets one by one.        *)

Wait ==
  /\ pc = "user" /\ alive
  /\ "drain" \in AppRules /\ ("IN" \in ev \/ recvOlp.upos > 0) => RecvShut \/ Unread = 0
  /\ listed' = FALSE
  /\ IF listed THEN MaskEvent(Detected) ELSE ev' = {} /\ UNCHANGED evMask
  /\ pc' = IF ev' # {} THEN "user" ELSE "wait"
  /\ UNCHANGED <<sock, sendVar, recvVar, alive, peer>>

\* GetQueuedCompletionStatus() finds no packet until the timeout.
Timeout ==
  /\ pc = "wait" /\ FiniteWait /\ sendIo.st # "done" /\ recvIo.st # "done"
  /\ pc' = "user" /\ ev' = {}
  /\ UNCHANGED <<sock, sendVar, recvVar, evMask, listed, alive, peer>>

\* Each completion handler starts as onUpdate() does: the packet is taken and the
\* operation type is cleared; then a closed socket ignores the result.
OnConnect ==
  /\ pc = "wait" /\ sendIo.st = "done" /\ sendOlp.opp = "CONNECT" /\ open
  /\ sendIo' = Idle
  /\ sendOlp' = Taken(sendOlp)
  /\ status' = IF sendIo.ok THEN "CONNECTED" ELSE status
  /\ Resume(IF sendIo.ok THEN {"OUT"} ELSE {"HANGUP"})
  /\ UNCHANGED <<open, shutdownFlag, lastError, sendBuf, wire, sent, recvVar, listed, alive, peer>>

\* The length onSend() drops: bytesTransfered, which may be less than was submitted.
Transferred == sendIo.n

\* onSend(): the bytes sent are dropped and the rest is posted at once.
OnSend ==
  LET fires == "ET" \notin evMask \/ sendOlp.et
      o     == [Taken(sendOlp) EXCEPT !.ipos = Transferred, !.et = @ /\ "ET" \notin evMask]
  IN
  /\ pc = "wait" /\ sendIo.st = "done" /\ sendOlp.opp = "SEND" /\ open
  /\ \/ /\ sendIo.ok /\ sendIo.n > 0
        /\ \E pr \in PostResults :
             /\ PostSend(o, sendBuf, Idle, pr)
             /\ IF pr = "ESHUTDOWN" THEN status' = status /\ lastError' = pr ELSE BreakUnlessFine(pr)
             /\ Resume(IF pr = "ESHUTDOWN" THEN {"ERROR"} ELSE IF fires THEN {"OUT"} ELSE {})
     \/ /\ sendIo.ok /\ sendIo.n = 0
        /\ sendOlp' = Taken(sendOlp) /\ sendIo' = Idle
        /\ status' = "PEERCLOSED"
        /\ Resume({"HANGUP"})
        /\ UNCHANGED <<sendBuf, lastError>>
     \/ /\ ~sendIo.ok
        /\ sendOlp' = Taken(sendOlp) /\ sendIo' = Idle
        /\ Break("FAILED")
        /\ Resume({"ERROR"})
        /\ UNCHANGED sendBuf
  /\ UNCHANGED <<open, shutdownFlag, wire, sent, recvVar, listed, alive, peer>>

\* onRecv(): the next read is posted only when the application has emptied the buffer.
OnRecv ==
  LET fires == "ET" \notin evMask \/ recvOlp.et IN
  /\ pc = "wait" /\ recvIo.st = "done" /\ open
  /\ recvIo' = Idle
  /\ \/ /\ recvIo.ok /\ recvIo.n > 0
        /\ recvOlp' = [Taken(recvOlp) EXCEPT !.ipos = @ + recvIo.n,
                                             !.et = @ /\ "ET" \notin evMask]
        /\ Resume(IF fires THEN {"IN"} ELSE {})
        /\ UNCHANGED <<status, lastError>>
     \/ /\ recvIo.ok /\ recvIo.n = 0
        /\ recvOlp' = Taken(recvOlp)
        /\ status' = "PEERCLOSED"
        /\ Resume({"HANGUP"})
        /\ UNCHANGED lastError
     \/ /\ ~recvIo.ok
        /\ recvOlp' = Taken(recvOlp)
        /\ Break("FAILED")
        /\ Resume({"ERROR"})
  /\ UNCHANGED <<open, shutdownFlag, recvBuf, inCount, got, sendVar, listed, alive, peer>>

\* onUpdate() once the handle is closed: the result is dropped and no event is raised.
OnClosed ==
  /\ pc = "wait" /\ ~open
  /\ \/ /\ sendIo.st = "done"
        /\ sendIo' = Idle /\ sendOlp' = Taken(sendOlp)
        /\ UNCHANGED <<recvIo, recvOlp>>
     \/ /\ recvIo.st = "done"
        /\ recvIo' = Idle /\ recvOlp' = Taken(recvOlp)
        /\ UNCHANGED <<sendIo, sendOlp>>
  /\ Resume({})
  /\ UNCHANGED <<sock, sendBuf, wire, sent, recvBuf, inCount, got, listed, alive, peer>>

-----------------------------------------------------------------------------
(* The kernel and the peer (not part of src/: what the calls above rely on). *)

\* What is in flight without a peer is a ConnectEx, with one a WSASend, whatever the
\* operation type says by now.  ConnectEx completes; the peer is there from then on.
KConnect(ok) ==
  /\ sendIo.st = "flight" /\ peer = "none" /\ open
  /\ sendIo' = Done(ok, 0)
  /\ peer' = IF ok THEN "up" ELSE peer
  /\ UNCHANGED <<sock, sendOlp, sendBuf, wire, sent, recvVar, waitVar, alive>>

\* WSASend completes: the first n of the ipos bytes submitted went out, read from the
\* buffer as it is now.
KSend(n) ==
  /\ sendIo.st = "flight" /\ open /\ peer \in {"up", "fin"}
  /\ wire' = wire \o SubSeq(sendBuf, 1, n)
  /\ sendIo' = Done(TRUE, n)
  /\ UNCHANGED <<sock, sendOlp, sendBuf, sent, recvVar, waitVar, alive, peer>>

\* WSARecv completes with the peer's next n bytes, stored in the part [ipos, end) of the
\* buffer that was submitted.
KRecv(n) ==
  /\ recvIo.st = "flight" /\ open /\ peer = "up" /\ inCount + n <= MaxIn
  /\ recvOlp.ipos + n <= RECV_BUF_LEN
  /\ recvBuf' = [i \in 1..RECV_BUF_LEN |->
                   IF i > recvOlp.ipos /\ i <= recvOlp.ipos + n
                   THEN inCount + i - recvOlp.ipos ELSE recvBuf[i]]
  /\ inCount' = inCount + n
  /\ recvIo' = Done(TRUE, n)
  /\ UNCHANGED <<sock, recvOlp, got, sendVar, waitVar, alive, peer>>

\* The peer has closed its side: WSARecv completes with no byte.
KRecvFin ==
  /\ recvIo.st = "flight" /\ open /\ peer = "fin"
  /\ recvIo' = Done(TRUE, 0)
  /\ UNCHANGED <<sock, recvOlp, recvBuf, inCount, got, sendVar, waitVar, alive, peer>>

\* An operation ends without transferring anything: the handle was closed, or the
\* connection was reset (a send may then also report success with no byte).
KAbortSend(ok) ==
  /\ sendIo.st = "flight"
  /\ ~open \/ peer = "reset"
  /\ ok => open
  /\ sendIo' = Done(ok, 0)
  /\ UNCHANGED <<sock, sendOlp, sendBuf, wire, sent, recvVar, waitVar, alive, peer>>

KAbortRecv ==
  /\ recvIo.st = "flight"
  /\ ~open \/ peer = "reset"
  /\ recvIo' = Done(FALSE, 0)
  /\ UNCHANGED <<sock, recvOlp, recvBuf, inCount, got, sendVar, waitVar, alive, peer>>

PeerEnd(how) ==
  /\ peer = "up" \/ (peer = "fin" /\ how = "reset")
  /\ peer' = how
  /\ UNCHANGED <<sock, sendVar, recvVar, waitVar, alive>>

-----------------------------------------------------------------------------
Application ==
  \/ Connect \/ Close \/ Wait
  \/ \E len \in 1..(MaxOut - sent) : Send(len)
  \/ \E len \in 1..RECV_BUF_LEN : Recv(len)
  \/ \E how \in Hows : Shutdown(how)
  \/ \E mask \in CtlMasks : Ctl(mask)

Update == OnConnect \/ OnSend \/ OnRecv \/ OnClosed

KernelSend ==
  \/ \E ok \in BOOLEAN : KConnect(ok) \/ KAbortSend(ok)
  \/ \E n \in 1..sendOlp.ipos : KSend(n)

KernelRecv == KRecvFin \/ KAbortRecv \/ \E n \in 1..RECV_BUF_LEN : KRecv(n)

Next ==
  \/ Application \/ Update \/ Timeout
  \/ KernelSend \/ KernelRecv \/ \E how \in PeerEnds : PeerEnd(how)

Spec == Init /\ [][Next]_vars

\* The event loop keeps calling wait(), and not always right after a ctl(): wait() looks
\* at the check list before the completion port, so an application that re-arms a ready
\* socket before every wait() never gets to the packets.  wait() takes what is queued; the
\* kernel finishes what it can finish without the peer: connecting, sending, a read that
\* the end of the connection or of the handle has decided.  Data from the peer may never
\* come.  An application told by close() that the socket is busy tries again, and does not
\* block for ever meanwhile; no timeout helps while the handle is open.
Fairness ==
  /\ WF_vars(Wait) /\ SF_vars(Wait /\ ~listed) /\ WF_vars(Update) /\ WF_vars(Timeout /\ ~open)
  /\ WF_vars(KernelSend) /\ WF_vars(KRecvFin \/ KAbortRecv)
  /\ SF_vars(Close /\ ~open)

LiveSpec == Spec /\ Fairness

-----------------------------------------------------------------------------
(* Safety.                                                                  *)

\* What reaches the peer is exactly what send() accepted, in order, without a byte lost,
\* repeated or overwritten by the memmove and memcpy of postSend() and send().
WireInOrder == Len(wire) <= sent /\ \A i \in DOMAIN wire : wire[i] = i

\* What recv() returns is exactly what the peer sent, in order.
ReadInOrder == Len(got) <= inCount /\ \A i \in DOMAIN got : got[i] = i

\* No byte disappears between the kernel and the application: while the handle is open,
\* a byte the kernel delivered has been read, is unread in the buffer, or is counted in a
\* packet wait() has not taken yet.
NoInboundLoss ==
  open => inCount = Len(got) + (recvOlp.ipos - recvOlp.upos) + recvIo.n

\* No accepted byte disappears from the send buffer while the connection lives.
NoOutboundLoss ==
  open /\ peer # "reset" =>
    sent = Len(wire) + sendOlp.upos - sendIo.n

\* The object is deleted only when the kernel has no operation and the port no packet
\* that refers to it ("make sure no IOCP operation is under way", IoSelectorImpl::close).
DeletedIsIdle == ~alive => sendIo = Idle /\ recvIo = Idle /\ ~listed

\* The structure of an outstanding operation is never taken for free, and a read is only
\* outstanding on an empty buffer: the assertion of onRecv().
OutstandingIsMarked ==
  /\ sendIo.st # "idle" => sendOlp.opp # "NONE"
  /\ recvIo.st # "idle" => recvOlp.opp = "RECV" /\ recvOlp.ipos = 0 /\ recvOlp.upos = 0

\* While the kernel sends [0, ipos), no call moves or rewrites those bytes.
KernelOwnsRegion ==
  [][ sendIo.st = "flight" /\ sendIo'.st = "flight" /\ sendOlp.opp = "SEND" =>
        /\ sendOlp'.ipos = sendOlp.ipos
        /\ \A i \in 1..sendOlp.ipos : sendBuf'[i] = sendBuf[i] ]_vars

\* A status < 0 is final: the socket can only be closed (IoSocketImpl.h:52).
NegativeIsFinal == [][(status \in Negative) => status' \in Negative]_vars

\* Accepted bytes never wait in the buffer of a usable socket without a send under way.
NeverStranded == open /\ status \in Positive /\ sendOlp.upos > 0 => sendIo.st # "idle"

\* Once the application has emptied the receive buffer of a usable socket, a read is
\* outstanding, so that more data or the end of the connection will be noticed.
EmptiedIsReading ==
  open /\ status \in Positive /\ recvOlp.et /\ recvOlp.ipos = recvOlp.upos => recvIo.st # "idle"

\* A full send buffer has armed the edge, so its draining will be reported.
FullIsArmed == sendOlp.upos = SEND_BUF_LEN => sendOlp.et

\* onSend() reports ERROR after a send that succeeded only to say that the socket is shut
\* down and that every accepted byte is out.
DrainReportIsTrue ==
  [][ OnSend /\ sendIo.ok /\ "ERROR" \in ev' => Len(wire) = sent ]_vars

\* An application that always empties the buffer is never left in wait() while bytes it
\* asked for lie unread, once an edge-triggered one has made its first recv().
UnreadIsReported ==
  (/\ pc = "wait" /\ open /\ status \in Positive /\ ~RecvShut
   /\ "IN" \in evMask /\ ("ET" \in evMask => got # <<>>))
  => recvOlp.upos = recvOlp.ipos

\* onDetectEvent(): a shut down, unbroken socket reports ERROR only once its data has been
\* sent, to say that it can be closed (IoSocketImpl.cpp:744).
SafeToClose ==
  [][ Wait /\ "ERROR" \in ev' /\ status = "SHUTDOWN" => Len(wire) = sent ]_vars

-----------------------------------------------------------------------------
(* The inductive invariant that the safety properties follow from.          *)

\* While the connection lives, or a packet still counts bytes that went out, the send
\* buffer of an application that connects once holds the accepted bytes from the first one
\* of that packet on.
SendContent ==
  /\ sendOlp.opp # "SEND" => sendOlp.ipos = 0
  /\ sent = Len(wire) + sendOlp.upos - sendIo.n
  /\ \A i \in 1..sendOlp.upos : sendBuf[i] = Len(wire) - sendIo.n + i

SendOrder ==
  /\ sendIo.st = "done" /\ sendOlp.opp = "SEND" /\ (~sendIo.ok \/ sendIo.n = 0) =>
       ~open \/ peer = "reset"
  /\ WireInOrder
  /\ open /\ (peer # "reset" \/ sendIo.n > 0) => SendContent

SendInv ==
  /\ sendOlp.ipos <= sendOlp.upos
  /\ sendIo.st # "idle" => sendOlp.opp # "NONE"
  /\ sendIo.st # "done" => ~sendIo.ok /\ sendIo.n = 0
  /\ sendIo.n <= sendOlp.ipos
  /\ FullIsArmed
  /\ ConnectsOnce => SendOrder

\* The receive buffer, with the bytes of a packet not taken yet, holds what the peer sent
\* and recv() has not returned.
RecvContent ==
  /\ Len(got) + recvOlp.ipos - recvOlp.upos + recvIo.n <= inCount
  /\ \A i \in 1..(recvOlp.ipos + recvIo.n) :
       i > recvOlp.upos => recvBuf[i] = Len(got) + i - recvOlp.upos

RecvInv ==
  /\ recvOlp.upos <= recvOlp.ipos
  /\ recvIo.st # "idle" => recvOlp.opp = "RECV"
  /\ recvOlp.opp = "RECV" => recvOlp.ipos = 0 /\ recvOlp.upos = 0
  /\ recvIo.st # "done" => ~recvIo.ok /\ recvIo.n = 0
  /\ ~recvIo.ok => recvIo.n = 0
  /\ recvIo.n <= RECV_BUF_LEN
  /\ ReadInOrder
  /\ inCount <= Len(got) + RECV_BUF_LEN
  /\ open => inCount = Len(got) + recvOlp.ipos - recvOlp.upos + recvIo.n
  /\ RecvContent

\* An application that connects once: before ConnectEx has succeeded there is no peer, no
\* send is under way then, and at most one connection is made.
AttemptInv ==
  /\ status = "DISCONNECT" /\ sendOlp.opp = "NONE" => peer = "none"
  /\ sendOlp.opp = "CONNECT" /\ (sendIo.st # "done" \/ ~sendIo.ok) => peer = "none"
  /\ sendOlp.opp = "SEND" => status # "DISCONNECT" /\ (sendIo.st # "idle" => peer # "none")

\* A closed handle is noted in the status, for good if the header's rules are kept: the
\* assertion of onUpdate(); a deleted object has no operation outstanding.
LifeInv ==
  /\ ConnectsOnce => AttemptInv
  /\ ~open => status # "DISCONNECT" /\ (Header => status = "CLOSED")
  /\ ~alive => ~open /\ ~listed /\ ~Busy

\* Send and receive buffers, their operations, and the life of the object.
SocketInv == SendInv /\ RecvInv /\ LifeInv

-----------------------------------------------------------------------------
(* What a connection promises: a bounded pipe of bytes in each direction.   *)

\* send() puts bytes in until the buffer is full and the peer takes them; a reset or
\* closing the handle breaks the pipe.
Outbound == INSTANCE BytePipe WITH
  Capacity <- SEND_BUF_LEN, up <- open /\ peer # "reset", put <- sent, out <- wire

\* The kernel puts bytes in and recv() takes them; what the buffer holds when the handle is
\* closed can still be read until the object is deleted.
Inbound == INSTANCE BytePipe WITH
  Capacity <- RECV_BUF_LEN, up <- alive, put <- inCount, out <- got

\* What send() accepts is delivered to the peer once and in order, at most a buffer of it
\* waits, and nothing goes out once broken, whatever send(), postSend() and onSend() move.
OutboundIsPipe == Outbound!Spec

\* What the peer sends is handed over once and in order, and at most a buffer of it waits,
\* whatever onRecv(), recv(), ctl() and postRecv() move.
InboundIsPipe == Inbound!Spec

-----------------------------------------------------------------------------
(* Liveness, of LiveSpec.                                                   *)

Over == ~open \/ status \in Negative

\* Every byte accepted is flushed as long as the connection lives, even after shutdown().
FlushedEventually == sendOlp.upos > 0 ~> sendOlp.upos = 0 \/ Over

\* Edge-triggered output: a caller that found the buffer full is told when there is room.
RoomReported ==
  (sendOlp.upos = SEND_BUF_LEN /\ "OUT" \in evMask)
    ~> ({"OUT", "ERROR", "HANGUP"} \cap ev # {} \/ "OUT" \notin evMask \/ Over)

\* A socket shut down for sending with data under way reports ERROR when the data is out.
DrainReported ==
  (SendShut /\ sendIo.st = "flight" /\ "ERROR" \in evMask)
    ~> ({"ERROR", "HANGUP"} \cap ev # {} \/ Over)

\* A closed socket is deleted in the end.
CloseCompletes == ~open ~> ~alive

=============================================================================
