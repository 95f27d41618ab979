--------------------------- MODULE IoSocketSSLImpl ---------------------------
(***************************************************************************)
(* A TLS socket: IoSocketSSLImpl with its BIO callbacks over the socket it *)
(* is derived from, the OpenSSL engine, wait() as the socket sees it, the  *)
(* kernel, the peer and the application.                                   *)
(*                                                                         *)
(* What travels are records, REC fragments each: the flights of the        *)
(* handshake, data, and close_notify.  A BIO call moves fragments between  *)
(* the engine and the two buffers of the socket below; its order of events *)
(* is that of IoSocketImpl.tla, which also accounts for every byte, so     *)
(* that counts are enough here.  Masks are level-triggered.                *)
(*                                                                         *)
(* A call of OpenSSL is a sequence of steps, one for each BIO call, with   *)
(* the kernel free to act in between.                                      *)
(***************************************************************************)
EXTENDS Integers, Sequences, FiniteSets

CONSTANTS
  Roles,       \* "client": made by socket(); "server": made by accept()
  Flights,     \* [Roles -> Seq({"w", "r"})]: what the engine writes and reads in a handshake
  After,       \* what the peer sends then: a sequence of "data", "ticket", "close"
  REC,         \* fragments of a record
  BUF_LEN,     \* SEND_BUF_LEN and RECV_BUF_LEN, in fragments
  MaxOut,      \* bound: records the application sends
  CtlMasks,    \* the event masks of ctl()
  Hows,        \* the arguments of shutdown()
  PeerEnds,    \* how the peer may end the connection: "fin", "reset"
  MayClose,    \* the application closes the socket at any time
  AppRules     \* {"polite"}: see below

\* "polite": a socket whose status is < 0 is only closed, one whose status is > 0 shut down;
\* ctl(IO_EVENT_IN) needs a connection whose receiving side is open; send() waits for the
\* handshake; whatever event it is told of, the application calls recv() until that fails,
\* before it calls ctl() or wait() again.

Events   == {"IN", "OUT", "ERROR", "HANGUP"}
Statuses == {"DISCONNECT", "CONNECTED", "SHUTDOWN", "BROKEN", "CLOSED", "PEERCLOSED"}
Negative == {"BROKEN", "CLOSED", "PEERCLOSED"}
Positive == {"CONNECTED", "SHUTDOWN"}

ASSUME TlsAssumption ==
  /\ Roles \subseteq {"client", "server"} /\ Flights \in [Roles -> Seq({"w", "r"})]
  /\ After \in Seq({"data", "ticket", "close"})
  /\ REC \in Nat \ {0} /\ BUF_LEN \in Nat \ {0} /\ MaxOut \in Nat
  /\ CtlMasks \subseteq SUBSET Events
  /\ Hows \subseteq {"recv", "send", "both"} /\ PeerEnds \subseteq {"fin", "reset"}
  /\ MayClose \in BOOLEAN /\ AppRules \subseteq {"polite"}

VARIABLES
  \* the IoSocketImpl part
  open, status, evMask, shutdownFlag,
  recvOpp, rx,           \* _recvOlp: its operation type, the unread fragments
  sendOpp, ipos, upos,   \* _sendOlp
  listed, alive,
  \* the IoSocketSSLImpl part
  role, handshaked, sslShutdownFlag, canRecv, canSend,
  \* the engine behind _ssl
  call,       \* the SSL function under way: "none", "handshake", "read", "write"
  step,       \* the flight of the handshake that comes next
  inb, outb,  \* fragments of the present record that were read, and written
  inRecs,     \* records read completely
  \* the kernel and the peer
  recvIo, sendIo, peer,
  inCount,    \* fragments the kernel has delivered
  wire,       \* fragments that have gone out
  \* the application
  pc, ev, got, wrote

sockVar == <<open, status, evMask, shutdownFlag, listed, alive>>
sslVar  == <<handshaked, sslShutdownFlag, canRecv, canSend>>
engine  == <<step, inb, outb, inRecs>>
recvVar == <<recvOpp, rx, recvIo>>
sendVar == <<sendOpp, ipos, upos, sendIo>>
vars == <<sockVar, sslVar, call, engine, recvVar, sendVar, role, peer, inCount, wire, pc, ev,
          got, wrote>>

Idle       == [st |-> "idle", ok |-> FALSE, n |-> 0]
Flight     == [st |-> "flight", ok |-> FALSE, n |-> 0]
Done(b, k) == [st |-> "done", ok |-> b, n |-> k]
IoState    == [st : {"idle", "flight", "done"}, ok : BOOLEAN, n : 0..BUF_LEN]

Script     == Flights[role]
Count(x)   == Cardinality({i \in DOMAIN Script : Script[i] = x})
InRecords  == Count("r") + Len(After)

\* The values each variable may take.
TypeOK ==
  /\ open \in BOOLEAN /\ listed \in BOOLEAN /\ alive \in BOOLEAN
  /\ status \in Statuses /\ evMask \subseteq Events /\ ev \subseteq Events
  /\ shutdownFlag \in {"none", "recv", "send", "both"} /\ sslShutdownFlag \in {"none", "recv", "send", "both"}
  /\ recvOpp \in {"NONE", "RECV"} /\ sendOpp \in {"NONE", "CONNECT", "SEND"}
  /\ rx \in 0..BUF_LEN /\ upos \in 0..BUF_LEN /\ ipos \in 0..upos
  /\ recvIo \in IoState /\ sendIo \in IoState
  /\ role \in Roles /\ handshaked \in BOOLEAN /\ canRecv \in BOOLEAN /\ canSend \in BOOLEAN
  /\ call \in {"none", "handshake", "read", "write"}
  /\ step \in 1..(Len(Script) + 1) /\ inb \in 0..(REC - 1) /\ outb \in 0..(REC - 1)
  /\ inRecs \in 0..InRecords /\ inCount \in 0..(REC * InRecords) /\ wire \in Nat
  /\ peer \in {"none", "up", "fin", "reset"} /\ pc \in {"user", "wait"}
  /\ got \in 0..Len(After) /\ wrote \in 0..MaxOut

Init ==
  /\ role \in Roles
  /\ status = IF role = "server" THEN "CONNECTED" ELSE "DISCONNECT"
  /\ peer   = IF role = "server" THEN "up" ELSE "none"
  /\ open = TRUE /\ evMask = {} /\ shutdownFlag = "none" /\ listed = FALSE /\ alive = TRUE
  /\ recvOpp = "NONE" /\ rx = 0 /\ recvIo = Idle
  /\ sendOpp = "NONE" /\ ipos = 0 /\ upos = 0 /\ sendIo = Idle
  /\ handshaked = FALSE /\ sslShutdownFlag = "none" /\ canRecv = FALSE /\ canSend = FALSE
  /\ call = "none" /\ step = 1 /\ inb = 0 /\ outb = 0 /\ inRecs = 0
  /\ inCount = 0 /\ wire = 0
  /\ pc = "user" /\ ev = {} /\ got = 0 /\ wrote = 0

-----------------------------------------------------------------------------
(* Faulty variants of the helpers below, to test the properties.            *)

BusyRecvOnly       == recvOpp # "NONE"
RoomIgnoresUsed    == BUF_LEN
DrivenByReads(raw) == "IN" \in raw
SilentEnd          == {}
PostRecvAgain(r) ==
  /\ rx' = r
  /\ recvOpp' = IF r = 0 THEN "RECV" ELSE recvOpp
  /\ recvIo'  = IF r = 0 /\ open /\ peer # "none" THEN Flight ELSE recvIo

-----------------------------------------------------------------------------
Polite == "polite" \in AppRules
HsDone == step > Len(Script)             \* SSL_is_init_finished()
Quiet  == sslShutdownFlag # "none"       \* SSL_set_shutdown() was called
Linked == open /\ peer # "none"          \* WSARecv() and WSASend() succeed
Lesser(a, b) == IF a < b THEN a ELSE b

SendShut == shutdownFlag \in {"send", "both"}
RecvShut == shutdownFlag \in {"recv", "both"}

Busy == recvOpp # "NONE" \/ sendOpp # "NONE"
Room == BUF_LEN - upos

\* postRecv() with r unread fragments left, and whether it fails: the operation type stays
\* set then, and no packet comes.
RecvFails(r) == r = 0 /\ recvOpp = "NONE" /\ ~Linked
PostRecv(r) ==
  /\ rx' = r
  /\ recvOpp' = IF r = 0 THEN "RECV" ELSE recvOpp
  /\ recvIo'  = IF r = 0 /\ recvOpp = "NONE" /\ Linked THEN Flight ELSE recvIo

\* postSend() of a buffer with u fragments written, the first gone of which are out, with
\* an operation of type opp under way.
SendFails(opp, gone, u) == opp = "NONE" /\ u > gone /\ ~Linked
PostSend(opp, gone, u, io) ==
  LET left == u - gone IN
  IF opp # "NONE"
  THEN sendOpp' = opp /\ ipos' = ipos /\ upos' = u /\ sendIo' = io
  ELSE /\ ipos' = left /\ upos' = left
       /\ sendOpp' = IF left > 0 THEN "SEND" ELSE "NONE"
       /\ sendIo'  = IF left > 0 /\ Linked THEN Flight ELSE io

\* maskEvent() and the end of wait()'s loop.
Resume(raw) ==
  /\ ev' = raw \cap evMask
  /\ pc' = IF ev' # {} THEN "user" ELSE "wait"

\* onDetectEvent(), as in IoSocketImpl.tla, and what detectEvent() adds to it.
Detected ==
  IF ~open \/ status \in Negative
  THEN IF status = "PEERCLOSED" THEN {"HANGUP"} ELSE {"ERROR"}
  ELSE {e \in {"IN", "OUT", "ERROR"} :
         \/ e = "IN"    /\ ~RecvShut /\ rx > 0
         \/ e = "OUT"   /\ ~SendShut /\ status \in Positive /\ Room > 0
         \/ e = "ERROR" /\ SendShut /\ ipos = upos}

SslDetected ==
  Detected \cup {e \in {"IN", "OUT"} : (e = "IN" /\ canRecv) \/ (e = "OUT" /\ canSend)}

-----------------------------------------------------------------------------
(* The engine.  It works for SSL_do_handshake(), SSL_read() or SSL_write()  *)
(* until it has what was asked for, or a BIO call tells it to retry.        *)

\* What it wants next: to write or to read a record, or nothing more.
Wants ==
  IF ~HsDone THEN Script[step]
  ELSE IF call = "read" THEN "r" ELSE IF call = "write" THEN "w" ELSE "end"

\* The k-th record of the peer; SSL_read() after the close_notify of the peer, or after
\* SSL_set_shutdown(), which pretends that it has come.
InKind(k) == IF k <= Count("r") THEN "flight" ELSE After[k - Count("r")]
EndOfData == Quiet \/ \E k \in 1..inRecs : InKind(k) = "close"

\* What sslHandshake() reports when the handshake is over.
DoneEvents == {"OUT"}

\* recv(), send() and sslHandshake() once the SSL function has returned res: "ok" (above 0),
\* "read" and "write" (SSL_ERROR_WANT_x), "zero" (SSL_ERROR_ZERO_RETURN) or "fail"; st is
\* the status that the BIO calls have left.
AfterRead(res, st) ==
  /\ canRecv' = (res = "ok")
  /\ status' = CASE res \in {"ok", "read"} -> st [] res = "zero" -> "PEERCLOSED" [] OTHER -> "BROKEN"
  /\ ev' = IF res = "ok" THEN ev ELSE {}
  /\ UNCHANGED <<handshaked, canSend, pc>>

AfterWrite(res, st) ==
  /\ canSend' = (res = "ok")
  /\ status' = CASE res \in {"ok", "write"} -> st [] OTHER -> "BROKEN"
  /\ UNCHANGED <<handshaked, canRecv, pc, ev>>

AfterHandshake(res, st) ==
  /\ handshaked' = (res = "ok")
  /\ status' = st
  /\ Resume(CASE res = "ok" -> DoneEvents [] res = "fail" -> {"ERROR"} [] OTHER -> {})
  /\ UNCHANGED <<canRecv, canSend>>

Return(res, st) ==
  /\ call' = "none"
  /\ CASE call = "read"      -> AfterRead(res, st)
       [] call = "write"     -> AfterWrite(res, st)
       [] call = "handshake" -> AfterHandshake(res, st)

GoOn(st) == status' = st /\ UNCHANGED <<call, handshaked, canRecv, canSend, pc, ev>>

Fixed == <<open, evMask, shutdownFlag, listed, alive, sslShutdownFlag, role, peer, inCount, wire>>

\* The function can return at once: the handshake is over, the data has ended, or
\* SSL_write() comes after SSL_set_shutdown().
AtOnce ==
  \/ call = "handshake" /\ HsDone /\ Return("ok", status)
  \/ call = "read" /\ EndOfData /\ Return("zero", status)
  \/ call = "write" /\ Quiet /\ Return("fail", status)

Works == call # "none" /\ (call = "read" => ~EndOfData) /\ (call = "write" => ~Quiet)

EngineReturns ==
  /\ AtOnce
  /\ UNCHANGED <<Fixed, engine, recvVar, sendVar, got, wrote>>

\* bio_iocp_read() through IoSocketImpl::recv(): as much of the present record as has come;
\* once the buffer is empty the next read is posted.
BioRead ==
  LET n    == Lesser(REC - inb, rx)
      st   == IF RecvFails(rx - n) THEN "BROKEN" ELSE status
      full == inb + n = REC
      data == full /\ HsDone /\ InKind(inRecs + 1) = "data"
  IN
  /\ Works /\ Wants = "r"
  /\ IF rx = n THEN PostRecv(0) ELSE rx' = rx - n /\ UNCHANGED <<recvOpp, recvIo>>
  /\ inb' = IF full THEN 0 ELSE inb + n
  /\ inRecs' = IF full THEN inRecs + 1 ELSE inRecs
  /\ step' = IF full /\ ~HsDone THEN step + 1 ELSE step
  /\ got' = IF data THEN got + 1 ELSE got
  /\ IF n = 0 THEN Return(IF RecvFails(rx - n) THEN "fail" ELSE "read", st)
     ELSE IF data THEN Return("ok", st) ELSE GoOn(st)
  /\ UNCHANGED <<Fixed, outb, sendVar, wrote>>

\* bio_iocp_write() through IoSocketImpl::send(): as much of the present record as fits.
BioWrite ==
  LET n    == Lesser(REC - outb, Room)
      st   == IF n > 0 /\ SendFails(sendOpp, ipos, upos + n) THEN "BROKEN" ELSE status
      full == outb + n = REC
  IN
  /\ Works /\ Wants = "w"
  /\ IF n = 0 THEN UNCHANGED sendVar ELSE PostSend(sendOpp, ipos, upos + n, sendIo)
  /\ outb' = IF full THEN 0 ELSE outb + n
  /\ step' = IF full /\ ~HsDone THEN step + 1 ELSE step
  /\ wrote' = IF full /\ HsDone THEN wrote + 1 ELSE wrote
  /\ IF n = 0 THEN Return("write", st)
     ELSE IF full /\ HsDone THEN Return("ok", st) ELSE GoOn(st)
  /\ UNCHANGED <<Fixed, inb, inRecs, recvVar, got>>

Engine == EngineReturns \/ BioRead \/ BioWrite

-----------------------------------------------------------------------------
(* The application's calls.                                                 *)

\* The application is taken to keep to the states of IoSocketImpl.h (lines 43-55), which the
\* functions themselves do not test: it calls connect() on an unconnected socket and not again
\* while an attempt is under way, recv() and send() only after it has one, and nothing but
\* close() on a closed handle.  IoSocketImpl.tla has those calls without these restrictions.
MustRead == open /\ status \notin Negative /\ (ev # {} \/ canRecv)
Calls == pc = "user" /\ call = "none" /\ alive /\ open /\ (Polite => status \notin Negative)

Connect ==
  /\ Calls /\ status = "DISCONNECT" /\ sendOpp = "NONE"
  /\ sendOpp' = "CONNECT" /\ sendIo' = Flight
  /\ UNCHANGED <<sockVar, sslVar, call, engine, recvVar, ipos, upos, role, peer, inCount, wire,
                 pc, ev, got, wrote>>

\* recv() and send() start the engine; a record partly written is written to its end first.
Recv ==
  /\ Calls /\ status # "DISCONNECT"
  /\ call' = "read"
  /\ UNCHANGED <<sockVar, sslVar, engine, recvVar, sendVar, role, peer, inCount, wire, pc, ev,
                 got, wrote>>

Send ==
  /\ Calls /\ status # "DISCONNECT" /\ wrote < MaxOut
  /\ Polite => handshaked
  /\ call' = "write"
  /\ UNCHANGED <<sockVar, sslVar, engine, recvVar, sendVar, role, peer, inCount, wire, pc, ev,
                 got, wrote>>

\* shutdown(): the engine is told that both sides have said good-bye, so that SSL_shutdown()
\* succeeds at once, or fails if the handshake is not over; that failure is ignored here.
Shutdown(how) ==
  /\ Calls /\ (Polite => status \in Positive)
  /\ sslShutdownFlag' = how
  /\ IF HsDone THEN shutdownFlag' = how /\ status' = "SHUTDOWN" ELSE UNCHANGED <<shutdownFlag, status>>
  /\ UNCHANGED <<open, evMask, listed, alive, handshaked, canRecv, canSend, call, engine, recvVar,
                 sendVar, role, peer, inCount, wire, pc, ev, got, wrote>>

\* ctl() is not overridden: it posts a read of the socket below.
Ctl(mask) ==
  /\ Calls
  /\ Polite => ~MustRead /\ ("IN" \in mask => status # "DISCONNECT" /\ ~RecvShut)
  /\ evMask' = mask \cup {"ERROR", "HANGUP"} /\ listed' = TRUE
  /\ \/ "IN" \notin mask /\ UNCHANGED <<recvVar, status>>
     \/ "IN" \in mask /\ RecvShut /\ status' = "BROKEN" /\ UNCHANGED recvVar
     \/ /\ "IN" \in mask /\ ~RecvShut
        /\ PostRecv(rx) /\ status' = IF RecvFails(rx) THEN "BROKEN" ELSE status
  /\ UNCHANGED <<open, shutdownFlag, alive, sslVar, call, engine, sendVar, role, peer, inCount,
                 wire, pc, ev, got, wrote>>

Close ==
  /\ pc = "user" /\ call = "none" /\ alive /\ (MayClose \/ status \in Negative)
  /\ open' = FALSE
  /\ status' = IF open THEN "CLOSED" ELSE status
  /\ IF Busy THEN UNCHANGED <<listed, alive>> ELSE listed' = FALSE /\ alive' = FALSE
  /\ UNCHANGED <<evMask, shutdownFlag, sslVar, call, engine, recvVar, sendVar, role, peer,
                 inCount, wire, pc, ev, got, wrote>>

-----------------------------------------------------------------------------
(* wait().                                                                  *)

Wait ==
  /\ pc = "user" /\ call = "none" /\ alive
  /\ Polite => ~MustRead
  /\ listed' = FALSE
  /\ ev' = IF listed THEN SslDetected \cap evMask ELSE {}
  /\ pc' = IF ev' # {} THEN "user" ELSE "wait"
  /\ UNCHANGED <<open, status, evMask, shutdownFlag, alive, sslVar, call, engine, recvVar, sendVar,
                 role, peer, inCount, wire, got, wrote>>

\* update(), after onUpdate() has returned raw and left the status st: an operation that
\* succeeded drives the SSL shutdown or the handshake, whose event replaces raw.
Drives(raw) == TRUE
AfterUpdate(ok, raw, st) ==
  IF ok /\ Quiet
  THEN IF HsDone THEN /\ shutdownFlag' = sslShutdownFlag /\ status' = "SHUTDOWN"
                      /\ Resume(raw) /\ UNCHANGED call
                 ELSE status' = st /\ Resume({"ERROR"}) /\ UNCHANGED <<shutdownFlag, call>>
  ELSE IF ok /\ ~handshaked /\ Drives(raw)
       THEN call' = "handshake" /\ status' = st /\ UNCHANGED <<shutdownFlag, pc, ev>>
       ELSE status' = st /\ Resume(raw) /\ UNCHANGED <<shutdownFlag, call>>

UpdateKeeps == <<open, evMask, listed, alive, sslVar, engine, role, peer, inCount, wire, got, wrote>>
Blocked == pc = "wait" /\ call = "none"

OnConnect ==
  /\ Blocked /\ open /\ sendIo.st = "done" /\ sendOpp = "CONNECT"
  /\ sendIo' = Idle /\ sendOpp' = "NONE"
  /\ IF sendIo.ok THEN AfterUpdate(TRUE, {"OUT"}, "CONNECTED") ELSE AfterUpdate(FALSE, {"HANGUP"}, status)
  /\ UNCHANGED <<UpdateKeeps, recvVar, ipos, upos>>

OnSend ==
  /\ Blocked /\ open /\ sendIo.st = "done" /\ sendOpp = "SEND"
  /\ \/ /\ sendIo.ok /\ sendIo.n > 0
        /\ PostSend("NONE", sendIo.n, upos, Idle)
        /\ AfterUpdate(TRUE, IF SendShut /\ sendIo.n = upos THEN {"ERROR"} ELSE {"OUT"}, status)
     \/ /\ sendIo.ok /\ sendIo.n = 0
        /\ sendIo' = Idle /\ sendOpp' = "NONE"
        /\ AfterUpdate(TRUE, {"HANGUP"}, "PEERCLOSED")
        /\ UNCHANGED <<ipos, upos>>
     \/ /\ ~sendIo.ok
        /\ sendIo' = Idle /\ sendOpp' = "NONE"
        /\ AfterUpdate(FALSE, {"ERROR"}, "BROKEN")
        /\ UNCHANGED <<ipos, upos>>
  /\ UNCHANGED <<UpdateKeeps, recvVar>>

OnRecv ==
  /\ Blocked /\ open /\ recvIo.st = "done"
  /\ recvIo' = Idle /\ recvOpp' = "NONE" /\ rx' = rx + recvIo.n
  /\ IF ~recvIo.ok THEN AfterUpdate(FALSE, {"ERROR"}, "BROKEN")
     ELSE IF recvIo.n = 0 THEN AfterUpdate(TRUE, {"HANGUP"}, "PEERCLOSED")
     ELSE AfterUpdate(TRUE, {"IN"}, status)
  /\ UNCHANGED <<UpdateKeeps, sendVar>>

\* onUpdate() of a closed handle ignores the result, but update() goes on all the same.
OnClosed ==
  /\ Blocked /\ ~open
  /\ \/ /\ sendIo.st = "done" /\ sendIo' = Idle /\ sendOpp' = "NONE"
        /\ AfterUpdate(sendIo.ok, {}, status)
        /\ UNCHANGED <<recvVar, ipos, upos>>
     \/ /\ recvIo.st = "done" /\ recvIo' = Idle /\ recvOpp' = "NONE"
        /\ AfterUpdate(recvIo.ok, {}, status)
        /\ UNCHANGED <<sendVar, rx>>
  /\ UNCHANGED UpdateKeeps

Update == OnConnect \/ OnSend \/ OnRecv \/ OnClosed

-----------------------------------------------------------------------------
(* The kernel and the peer.                                                 *)

KernelKeeps == <<sockVar, sslVar, call, engine, role, pc, ev, got, wrote>>

KConnect(ok) ==
  /\ sendIo.st = "flight" /\ sendOpp = "CONNECT" /\ open
  /\ sendIo' = Done(ok, 0) /\ peer' = IF ok THEN "up" ELSE peer
  /\ UNCHANGED <<KernelKeeps, recvVar, sendOpp, ipos, upos, inCount, wire>>

KSend(n) ==
  /\ sendIo.st = "flight" /\ sendOpp = "SEND" /\ open /\ peer \in {"up", "fin"}
  /\ sendIo' = Done(TRUE, n) /\ wire' = wire + n
  /\ UNCHANGED <<KernelKeeps, recvVar, sendOpp, ipos, upos, peer, inCount>>

\* The peer sends its k-th record once it has the flights that come before it.
OwnBefore(k) ==
  IF k > Count("r") THEN Count("w")
  ELSE LET i == CHOOSE j \in DOMAIN Script :
                  Script[j] = "r" /\ Cardinality({h \in 1..j : Script[h] = "r"}) = k
       IN  Cardinality({h \in 1..i : Script[h] = "w"})
MaySend(k) == k <= InRecords /\ wire >= REC * OwnBefore(k)

KRecv(n) ==
  /\ recvIo.st = "flight" /\ open /\ peer = "up"
  /\ MaySend((inCount + n - 1) \div REC + 1)
  /\ recvIo' = Done(TRUE, n) /\ inCount' = inCount + n
  /\ UNCHANGED <<KernelKeeps, sendVar, recvOpp, rx, peer, wire>>

\* The end of the stream, a closed handle, a reset connection.
KRecvEnd ==
  /\ recvIo.st = "flight"
  /\ \/ open /\ peer = "fin" /\ recvIo' = Done(TRUE, 0)
     \/ (~open \/ peer = "reset") /\ recvIo' = Done(FALSE, 0)
  /\ UNCHANGED <<KernelKeeps, sendVar, recvOpp, rx, peer, inCount, wire>>

KSendEnd(ok) ==
  /\ sendIo.st = "flight" /\ (~open \/ peer = "reset")
  /\ ok => open /\ sendOpp = "SEND"
  /\ sendIo' = Done(ok, 0)
  /\ UNCHANGED <<KernelKeeps, recvVar, sendOpp, ipos, upos, peer, inCount, wire>>

PeerEnd(how) ==
  /\ peer = "up" \/ (peer = "fin" /\ how = "reset")
  /\ peer' = how
  /\ UNCHANGED <<KernelKeeps, recvVar, sendVar, inCount, wire>>

-----------------------------------------------------------------------------
KernelSend == (\E ok \in BOOLEAN : KConnect(ok) \/ KSendEnd(ok)) \/ \E n \in 1..ipos : KSend(n)
KernelRecv == KRecvEnd \/ \E n \in 1..BUF_LEN : KRecv(n)

Next ==
  \/ Connect \/ Recv \/ Send \/ Close \/ Wait
  \/ \E how \in Hows : Shutdown(how)
  \/ \E mask \in CtlMasks : Ctl(mask)
  \/ Engine \/ Update \/ KernelSend \/ KernelRecv \/ \E how \in PeerEnds : PeerEnd(how)

Spec == Init /\ [][Next]_vars

\* As in IoSocketImpl.tla: the event loop waits again and again, not always right after a
\* ctl(); what is queued is taken and an SSL function runs to its end; the kernel works; the
\* application reads what it must before it waits.  Here the peer is a TLS peer, so it
\* sends what the handshake owes.
LiveSpec ==
  /\ Spec
  /\ SF_vars(Wait) /\ SF_vars(Wait /\ ~listed) /\ WF_vars(Update) /\ WF_vars(Engine)
  /\ WF_vars(KernelSend) /\ WF_vars(KernelRecv) /\ SF_vars(Recv /\ MustRead)

-----------------------------------------------------------------------------
(* Properties.                                                              *)

Usable == open /\ status \in Positive /\ ~Quiet

\* The object is deleted only when the kernel and the port have nothing of it, although a
\* late packet may make the engine post again.
DeletedIsIdle == ~alive => recvIo = Idle /\ sendIo = Idle

\* Every fragment that the kernel has delivered to an open handle is in a record the engine
\* has read, in the receive buffer, or in the packet that waits in the port: no read that is
\* posted while the answer to the last one is queued overwrites what has come.
NoFragmentLost == open => inCount = REC * inRecs + inb + rx + recvIo.n

\* A client starts the handshake itself; a server's first read is posted by ctl(IO_EVENT_IN).
Started == role = "server" => "IN" \in evMask

\* While wait() is blocked during the handshake, the operation the engine waits for is under
\* way: a read if it wants to read, a send if it wants to write.
HandshakeNeverStalls ==
  Blocked /\ Usable /\ ~HsDone /\ Started =>
    IF Wants = "r" THEN recvIo.st # "idle" ELSE sendIo.st # "idle"

\* The handshake ends, in whatever pieces its flights arrive and whatever the mask is.
HandshakeCompletes ==
  (status = "CONNECTED" /\ Started) ~> (HsDone \/ ~Usable \/ peer # "up")

\* All the data of the peer is returned by recv(), also the data that came together with the
\* end of the handshake, to an application that asks for both events and reads until recv()
\* fails whatever it was told.  (One that asks for IO_EVENT_IN alone may be left in wait():
\* the handshake's IO_EVENT_OUT replaces the IO_EVENT_IN of data that came with its end.)
Asks == {"IN", "OUT"} \subseteq evMask
DataSent == Cardinality({i \in DOMAIN After : After[i] = "data"})
DataDelivered ==
  (HsDone /\ Asks) ~> (got = DataSent \/ ~Usable \/ ~Asks \/ peer # "up")

\* IO_EVENT_HANGUP reports that the peer is gone (IoSelector.h:80).
HangupReported ==
  (pc = "wait" /\ "IN" \in evMask /\ peer = "fin") ~> (pc = "user")

=============================================================================
