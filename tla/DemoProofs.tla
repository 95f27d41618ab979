----------------------------- MODULE DemoProofs -----------------------------
(***************************************************************************)
(* Proofs about main(), for every request, response and buffer size: it    *)
(* keeps the rules of IoSocketImpl.h that the theorems about a connection  *)
(* in use assume, so that they apply to it.                                *)
(***************************************************************************)
EXTENDS Demo, TLAPS

\* The socket with an application that keeps all rules, passes the masks of main() to
\* ctl() and never calls shutdown().  It sends no more than one buffer holds; MaxOut leaves room
\* for the call that finds the buffer full.
Ruled == INSTANCE IoSocketUsableProofs WITH
  AppRules <- {"connect", "header", "drain"}, CtlMasks <- {{"OUT"}, {"IN"}}, Hows <- {},
  MaxOut <- SEND_BUF_LEN + 1

-----------------------------------------------------------------------------
(* The actions of Ruled are those of Demo, where its rules allow them.      *)

\* The assumption of the module that Ruled instantiates.
LEMMA RuledAssumption ==
  /\ SEND_BUF_LEN \in Nat \ {0} /\ RECV_BUF_LEN \in Nat \ {0}
  /\ {{"OUT"}, {"IN"}} \subseteq SUBSET (Ruled!Events \cup Ruled!Flags)
  /\ {} \subseteq {"recv", "send", "both"}
  /\ SEND_BUF_LEN + 1 \in Nat /\ MaxIn \in Nat
  /\ PeerEnds \subseteq {"fin", "reset"}
  /\ PostMayFail \in BOOLEAN /\ FiniteWait \in BOOLEAN
  /\ {"connect", "header", "drain"} \subseteq {"connect", "header", "drain"}
BY SocketAssumption DEF SocketAssumption, Ruled!Events, Ruled!Flags

\* The post functions.
LEMMA SamePosts ==
  /\ \A o, b, io, pr : PostSend(o, b, io, pr) => Ruled!PostSend(o, b, io, pr)
  /\ \A o, pr : PostRecv(o, pr) => Ruled!PostRecv(o, pr)
<1>1. ASSUME NEW o, NEW b, NEW io, NEW pr, PostSend(o, b, io, pr)
      PROVE  Ruled!PostSend(o, b, io, pr)
  BY <1>1, Zenon DEF Ruled!PostSend, PostSend, Ruled!Outstanding, Outstanding,
       Ruled!Moved, Moved, Ruled!NothingLeft, NothingLeft, Ruled!Issued, Issued, Ruled!SendShut,
       SendShut, Ruled!Flight, Flight, Ruled!Linked, Linked
<1>2. ASSUME NEW o, NEW pr, PostRecv(o, pr)
      PROVE  Ruled!PostRecv(o, pr)
  BY <1>2, Zenon DEF Ruled!PostRecv, PostRecv, Ruled!Outstanding, Outstanding,
       Ruled!Moved, Moved, Ruled!Issued, Issued, Ruled!Drained,
       Drained, Ruled!RecvShut, RecvShut, Ruled!Flight, Flight, Ruled!Linked, Linked
<1> QED BY <1>1, <1>2

\* What the rules ask of connect(), send() and recv().
Unstarted == open /\ status = "DISCONNECT" /\ sendIo.st = "idle"
Started   == open /\ status # "DISCONNECT"

\* The actions of which the rules ask no more than that.
LEMMA SameActions ==
  /\ Connect /\ Unstarted => Ruled!Connect
  /\ \A len : Send(len) /\ Started => Ruled!Send(len)
  /\ \A len : Recv(len) /\ Started => Ruled!Recv(len)
  /\ Close => Ruled!Close
  /\ Update => Ruled!Update
  /\ KernelSend => Ruled!KernelSend
  /\ KernelRecv => Ruled!KernelRecv
  /\ \A how : PeerEnd(how) => Ruled!PeerEnd(how)
<1> USE DEF Ruled!sendVar, sendVar, Ruled!recvVar, recvVar, Ruled!sock, sock, Ruled!waitVar, waitVar
<1>1. Close => Ruled!Close
  BY Zenon DEF Ruled!Close, Close, Ruled!Busy, Busy
<1>2. KernelSend => Ruled!KernelSend
  BY Zenon DEF Ruled!KernelSend, KernelSend, Ruled!KConnect, KConnect, Ruled!KAbortSend, KAbortSend,
               Ruled!KSend, KSend, Ruled!Done, Done
<1>3. KernelRecv => Ruled!KernelRecv
  BY Zenon DEF Ruled!KernelRecv, KernelRecv, Ruled!KRecvFin, KRecvFin, Ruled!KAbortRecv, KAbortRecv,
               Ruled!KRecv, KRecv, Ruled!Done, Done
<1>4. \A how : PeerEnd(how) => Ruled!PeerEnd(how)
  BY Zenon DEF Ruled!PeerEnd, PeerEnd
<1> USE DEF Ruled!PostResults, PostResults, Ruled!Issued, Issued, Ruled!Flight, Flight,
            Ruled!Idle, Idle, Ruled!Taken, Taken, Ruled!Resume, Resume, Ruled!MaskEvent, MaskEvent,
            Ruled!BreakUnlessFine, BreakUnlessFine, Ruled!Fine, Fine, Ruled!Break, Break,
            Ruled!Linked, Linked
<1>5. Connect /\ Unstarted => Ruled!Connect
  BY Zenon DEF Ruled!Connect, Connect, Ruled!Calls, Calls, Ruled!Unlinked, Unlinked, Unstarted
<1>6. \A len : Send(len) /\ Started => Ruled!Send(len)
  BY Zenon DEF Ruled!Send, Send, Ruled!Calls, Calls, Started, Ruled!SendShut, SendShut, Ruled!Room, Room,
               Ruled!Fills, Fills, Ruled!PostSend, PostSend, Ruled!Outstanding, Outstanding,
               Ruled!Moved, Moved, Ruled!NothingLeft, NothingLeft
<1>7. \A len : Recv(len) /\ Started => Ruled!Recv(len)
  BY Zenon DEF Ruled!Recv, Recv, Ruled!Calls, Calls, Started, Ruled!RecvShut, RecvShut, Ruled!Handed, Handed,
               Ruled!Empties, Empties, Ruled!Unread, Unread, Ruled!PostRecv, PostRecv,
               Ruled!Outstanding, Outstanding, Ruled!Moved, Moved, Ruled!Drained, Drained
<1>8. OnConnect => Ruled!OnConnect
  BY Zenon DEF Ruled!OnConnect, OnConnect
<1>9. OnSend => Ruled!OnSend
  BY Zenon DEF Ruled!OnSend, OnSend, Ruled!Transferred, Transferred, Ruled!SendShut, SendShut,
               Ruled!PostSend, PostSend, Ruled!Outstanding, Outstanding, Ruled!Moved, Moved,
               Ruled!NothingLeft, NothingLeft
<1>10. OnRecv => Ruled!OnRecv
  BY Zenon DEF Ruled!OnRecv, OnRecv
<1>11. OnClosed => Ruled!OnClosed
  BY Zenon DEF Ruled!OnClosed, OnClosed
<1>12. Update => Ruled!Update
  BY <1>8, <1>9, <1>10, <1>11, Zenon DEF Update, Ruled!Update
<1> QED BY <1>1, <1>2, <1>3, <1>4, <1>5, <1>6, <1>7, <1>12, Zenon

\* ctl() for IO_EVENT_IN needs a socket that is connected, by the rule "header".
LEMMA SameCtl ==
  ASSUME NEW mask, Ctl(mask), open, "IN" \in mask => status # "DISCONNECT" /\ ~RecvShut
  PROVE  Ruled!Ctl(mask)
BY Zenon DEF Ruled!Ctl, Ctl, Ruled!Calls, Calls, Ruled!RecvShut, RecvShut, Ruled!PostResults,
             PostResults, Ruled!PostRecv, PostRecv, Ruled!Outstanding, Outstanding, Ruled!Moved,
             Moved, Ruled!Drained, Drained, Ruled!Issued, Issued, Ruled!Flight, Flight,
             Ruled!Linked, Linked, Ruled!BreakUnlessFine, BreakUnlessFine, Ruled!Fine, Fine, Ruled!Break, Break,
             Ruled!sendVar, sendVar

\* wait() needs an emptied buffer when it has told of unread bytes, by the rule "drain".
LEMMA SameWait ==
  ASSUME Wait, "IN" \in ev \/ recvOlp.upos > 0 => Unread = 0
  PROVE  Ruled!Wait
BY Zenon DEF Ruled!Wait, Wait, Ruled!MaskEvent, MaskEvent, Ruled!Detected, Detected, Ruled!Unread,
             Unread, Ruled!RecvShut, RecvShut, Ruled!SendShut, SendShut, Ruled!Negative, Negative,
             Ruled!Positive, Positive, Ruled!sendVar, sendVar, Ruled!recvVar, recvVar, Ruled!sock,
             sock

\* recv() depends on its length only by what it hands over.
LEMMA RecvByHanded ==
  ASSUME NEW k, NEW len, Handed(k) = Handed(len), Recv(len)
  PROVE  Recv(k)
BY Zenon DEF Recv

\* How many of len bytes send() accepts.
Accepted(len) == IF len > Room THEN Room ELSE len

\* send() depends on its length only by what it accepts.
LEMMA SendByAccepted ==
  ASSUME NEW k, NEW len, Accepted(k) = Accepted(len), Send(len)
  PROVE  Send(k)
<1> DEFINE Sends(n) ==
      LET o == [sendOlp EXCEPT !.upos = @ + n, !.et = @ \/ Fills(n)]
          b == [i \in 1..SEND_BUF_LEN |->
                 IF i > sendOlp.upos /\ i <= sendOlp.upos + n
                 THEN sent + i - sendOlp.upos ELSE sendBuf[i]]
      IN  \/ /\ SendShut
             /\ lastError' = "ESHUTDOWN"
             /\ UNCHANGED <<status, sendOlp, sendBuf, sendIo, sent>>
          \/ /\ ~SendShut /\ n = 0
             /\ lastError' = "EAGAIN"
             /\ UNCHANGED <<status, sendOlp, sendBuf, sendIo, sent>>
          \/ /\ ~SendShut /\ n > 0
             /\ sent' = sent + n
             /\ \E pr \in PostResults : PostSend(o, b, sendIo, pr) /\ BreakUnlessFine(pr)
<1>1. \A l : Send(l) <=> /\ Calls /\ (Header => status # "DISCONNECT") /\ Sends(Accepted(l))
                         /\ UNCHANGED <<open, shutdownFlag, wire, recvVar, waitVar, alive, peer>>
  BY Zenon DEF Send, Accepted
<1> HIDE DEF Sends
<1> QED BY <1>1, Zenon

-----------------------------------------------------------------------------
(* Where main() is, and what the socket is like there.                      *)

\* What ctl() makes of the two masks of main().
AskedOut == {"OUT", "ERROR", "HANGUP"}
AskedIn  == {"IN", "ERROR", "HANGUP"}

\* The request is not sent yet, or its strings are being sent.
Asking == at \in {"connect", "ctl", "loop", "event"} /\ evMask # AskedIn

\* The places of the program, and the masks it has passed there.
Places ==
  /\ at \in {"connect", "ctl", "loop", "event", "free", "ended"} /\ next \in 1..(Len(Request) + 1)
  /\ at = "connect" => status = "DISCONNECT" /\ sendIo.st = "idle"
  /\ at \in {"connect", "ctl", "loop", "event"} => open
  /\ at \in {"connect", "ctl"} => ev = {} /\ evMask = {}
  /\ at \in {"loop", "event"} => evMask \in {AskedOut, AskedIn}
  /\ at # "event" => pc = "user"
  /\ shutdownFlag = "none"
  /\ at = "ended" => ~open

\* The request is sent in one go, so that no more of it is accepted than the buffer holds.
OneGo ==
  /\ sent <= SEND_BUF_LEN
  /\ Asking =>
       /\ sent = sendOlp.upos /\ (sendOlp.opp = "NONE" => sendOlp.ipos = 0)
       /\ at # "event" \/ pc = "wait" => sent = 0
       /\ recvOlp.opp = "NONE" /\ recvOlp.upos = 0 /\ "IN" \notin ev

\* What main() has been told: nothing of an unconnected socket, and of room only while it
\* asks for it.
Heard ==
  at = "event" =>
    /\ ev \cap {"IN", "OUT"} # {} => status # "DISCONNECT"
    /\ "OUT" \in ev => evMask = AskedOut

\* It comes back to wait() with an empty buffer.
Emptied == at = "loop" /\ ("IN" \in ev \/ recvOlp.upos > 0) => Unread = 0

MainInv == Places /\ OneGo /\ Heard /\ Emptied

\* What the theorems about the socket rest on.
Socket == Ruled!TypeOK /\ Ruled!SocketInv /\ Ruled!UsableInv /\ Ruled!ReportInv

\* The facts about the socket that the steps of main() need.
LEMMA SocketFacts ==
  ASSUME Socket
  PROVE  /\ sent \in Nat /\ sendOlp.upos \in Nat /\ sendOlp.ipos \in Nat
         /\ sendOlp.ipos <= sendOlp.upos /\ sendOlp.upos <= SEND_BUF_LEN
         /\ sendOlp \in Ruled!SendOlps /\ sendIo \in IoState /\ sendBuf \in [1..SEND_BUF_LEN -> Nat]
         /\ recvOlp \in Ruled!RecvOlps /\ recvOlp.ipos \in Nat /\ recvOlp.upos \in Nat
         /\ recvOlp.upos <= recvOlp.ipos /\ recvOlp.ipos <= RECV_BUF_LEN
         /\ recvOlp.opp = "RECV" => recvOlp.ipos = 0 /\ recvOlp.upos = 0
         /\ status = "DISCONNECT" => recvOlp.opp = "NONE" /\ recvOlp.ipos = 0 /\ recvOlp.upos = 0
         /\ status = "DISCONNECT" => sendOlp.opp # "SEND"
         /\ pc \in {"user", "wait"}
<1>1. SEND_BUF_LEN \in Nat /\ RECV_BUF_LEN \in Nat
  BY SocketAssumption DEF SocketAssumption
<1>2. Ruled!SendTypeOK /\ Ruled!RecvTypeOK /\ Ruled!SockTypeOK
  BY DEF Socket, Ruled!TypeOK
<1>3. Ruled!SendInv /\ Ruled!RecvInv /\ Ruled!LifeInv /\ Ruled!Untouched
  BY DEF Socket, Ruled!SocketInv, Ruled!UsableInv
<1>4. /\ sendOlp \in Ruled!SendOlps /\ sendBuf \in [1..SEND_BUF_LEN -> Nat]
      /\ sendIo \in IoState /\ sent \in Nat
  BY <1>1, <1>2 DEF Ruled!SendTypeOK, Ruled!IoState, IoState
<1>5. /\ sendOlp.upos \in Nat /\ sendOlp.ipos \in Nat /\ sendOlp.upos <= SEND_BUF_LEN
  BY <1>1, <1>4 DEF Ruled!SendOlps
<1>6. sendOlp.ipos <= sendOlp.upos
  BY <1>3 DEF Ruled!SendInv
<1>7. recvOlp \in Ruled!RecvOlps
  BY <1>2 DEF Ruled!RecvTypeOK
<1>8. recvOlp.ipos \in Nat /\ recvOlp.upos \in Nat /\ recvOlp.ipos <= RECV_BUF_LEN
  BY <1>1, <1>7 DEF Ruled!RecvOlps
<1>9. /\ recvOlp.upos <= recvOlp.ipos
      /\ recvOlp.opp = "RECV" => recvOlp.ipos = 0 /\ recvOlp.upos = 0
  BY <1>3 DEF Ruled!RecvInv
<1>10. /\ status = "DISCONNECT" => recvOlp.opp = "NONE" /\ recvOlp.ipos = 0 /\ recvOlp.upos = 0
       /\ status = "DISCONNECT" => sendOlp.opp # "SEND"
  BY <1>3 DEF Ruled!Untouched, Ruled!LifeInv, Ruled!AttemptInv, Ruled!ConnectsOnce
<1>11. pc \in {"user", "wait"}
  BY <1>2 DEF Ruled!SockTypeOK
<1> QED BY <1>4, <1>5, <1>6, <1>7, <1>8, <1>9, <1>10, <1>11

-----------------------------------------------------------------------------
(* The rules are kept.                                                      *)

\* A string is sent as one of a length the socket's specification allows: what is cut off
\* makes no difference.
LEMMA PutsRuled ==
  ASSUME Socket, Places, OneGo, Heard, Puts
  PROVE  \E k \in 1..((SEND_BUF_LEN + 1) - sent) : Ruled!Send(k)
<1> DEFINE len == Request[next]
           k == IF Room = 0 THEN 1 ELSE Accepted(len)
<1>1. len \in Nat /\ len > 0
  BY DemoAssumption DEF DemoAssumption, Places, Puts
<1>2. sent = sendOlp.upos
  BY DEF Puts, Told, Heard, OneGo, Asking, AskedOut, AskedIn
<1>3. SEND_BUF_LEN \in Nat /\ sent \in Nat /\ sent <= SEND_BUF_LEN /\ Room = SEND_BUF_LEN - sent
  BY <1>2, SocketFacts, SocketAssumption DEF SocketAssumption, Room
<1>4. Send(len) /\ Started
  BY DEF Puts, Told, Heard, Places, Started
<1> HIDE DEF len
<1>5. Accepted(k) = Accepted(len) /\ k \in 1..((SEND_BUF_LEN + 1) - sent)
  BY <1>1, <1>3 DEF Accepted
<1> HIDE DEF k
<1>6. Send(k)
  BY <1>4, <1>5, SendByAccepted
<1> QED BY <1>4, <1>5, <1>6, SameActions

\* Reading into a buffer that is larger than the socket's is like reading into one as large.
LEMMA ReadRuled ==
  ASSUME Socket, Places, Heard, Read
  PROVE  \E k \in 1..RECV_BUF_LEN : Ruled!Recv(k)
<1> DEFINE k == IF ReadLen > RECV_BUF_LEN THEN RECV_BUF_LEN ELSE ReadLen
<1>1. ReadLen \in Nat /\ ReadLen > 0 /\ RECV_BUF_LEN \in Nat /\ RECV_BUF_LEN > 0
  BY DemoAssumption, SocketAssumption DEF DemoAssumption, SocketAssumption
<1>2. Unread \in Nat /\ Unread <= RECV_BUF_LEN
  BY <1>1, SocketFacts DEF Unread
<1>3. Handed(k) = Handed(ReadLen) /\ k \in 1..RECV_BUF_LEN
  BY <1>1, <1>2 DEF Handed
<1>4. Recv(ReadLen) /\ Started
  BY DEF Read, Told, Heard, Places, Started
<1> HIDE DEF k
<1>5. Recv(k)
  BY <1>3, <1>4, RecvByHanded
<1> QED BY <1>3, <1>4, <1>5, SameActions

\* Every step but FreeIoSelector() is one of a socket whose application keeps the rules.
LEMMA StepRuled ==
  ASSUME Socket, MainInv, DemoNext
  PROVE  Free \/ Ruled!Next
<1>1. CASE Start \/ GiveUp
  BY <1>1, SameActions DEF Start, GiveUp, MainInv, Places, Unstarted, Ruled!Next, Ruled!Application
<1>2. CASE AskOut
  <2>1. Ruled!Ctl({"OUT"})
    BY <1>2, SameCtl DEF AskOut, MainInv, Places
  <2> QED BY <2>1 DEF Ruled!Next, Ruled!Application
<1>3. CASE CallWait
  <2>1. Ruled!Wait
    BY <1>3, SameWait DEF CallWait, MainInv, Emptied
  <2> QED BY <2>1 DEF Ruled!Next, Ruled!Application
<1>4. CASE Puts
  <2>1. Places /\ OneGo /\ Heard
    BY DEF MainInv
  <2>2. \E k \in 1..((SEND_BUF_LEN + 1) - sent) : Ruled!Send(k)
    BY <1>4, <2>1, PutsRuled
  <2> QED BY <2>2 DEF Ruled!Next, Ruled!Application
<1>5. CASE AskIn
  <2>1. open /\ status # "DISCONNECT" /\ ~RecvShut
    BY <1>5 DEF AskIn, Told, MainInv, Heard, Places, RecvShut
  <2>2. Ruled!Ctl({"IN"})
    BY <1>5, <2>1, SameCtl DEF AskIn
  <2> QED BY <2>2 DEF Ruled!Next, Ruled!Application
<1>6. CASE Read
  BY <1>6, ReadRuled DEF MainInv, Ruled!Next, Ruled!Application
<1>7. CASE Environment
  BY <1>7, SameActions DEF Environment, Ruled!Next
<1> QED BY <1>1, <1>2, <1>3, <1>4, <1>5, <1>6, <1>7 DEF DemoNext, Main

\* FreeIoSelector() aside, the invariant of the socket is kept.
LEMMA SocketStep ==
  ASSUME Socket, [Ruled!Next]_(Ruled!vars)
  PROVE  Socket'
<1>1. /\ Ruled!TypeOK /\ Ruled!SocketInv /\ Ruled!Untouched /\ Ruled!Sending /\ Ruled!Reading
      /\ Ruled!EdgeArmed /\ Ruled!Noted /\ Ruled!ReportInv
  BY DEF Socket, Ruled!UsableInv, Ruled!ReportInv
<1>2. /\ Ruled!Header /\ Ruled!ConnectsOnce /\ Ruled!NeverReopened
      /\ "drain" \in {"connect", "header", "drain"}
  BY DEF Ruled!Header, Ruled!ConnectsOnce, Ruled!NeverReopened
<1>3. Ruled!TypeOK' /\ Ruled!SocketInv'
  BY <1>1, RuledAssumption, Ruled!StepInv, Zenon
<1>4. Ruled!Untouched'
  BY <1>1, <1>2, RuledAssumption, Ruled!UntouchedStep, Zenon
<1>5. Ruled!Sending'
  BY <1>1, <1>2, RuledAssumption, Ruled!SendingStep, Zenon
<1>6. Ruled!Reading'
  BY <1>1, <1>2, RuledAssumption, Ruled!ReadingStep, Zenon
<1>7. Ruled!EdgeArmed'
  BY <1>1, RuledAssumption, Ruled!EdgeStep, Zenon
<1>8. Ruled!Noted'
  BY <1>1, RuledAssumption, Ruled!NotedStep, Zenon
<1>9. Ruled!Told'
  BY <1>1, <1>2, RuledAssumption, Ruled!ToldStep, Zenon
<1> QED BY <1>3, <1>4, <1>5, <1>6, <1>7, <1>8, <1>9 DEF Socket, Ruled!UsableInv, Ruled!ReportInv

-----------------------------------------------------------------------------
(* The invariant of main().                                                 *)

\* What the end of wait()'s loop does under the masks of main().
LEMMA Resumed ==
  ASSUME Places, at = "event", NEW raw, Resume(raw)
  PROVE  evMask' = evMask /\ ev' = raw \cap evMask /\ pc' \in {"user", "wait"}
BY DEF Places, AskedOut, AskedIn, Resume, MaskEvent

\* The kernel and the peer touch nothing that main() goes by.
LEMMA OutsideQuiet ==
  ASSUME MainInv, KernelSend \/ KernelRecv \/ (\E how \in PeerEnds : PeerEnd(how)),
         UNCHANGED <<at, next>>
  PROVE  MainInv'
<1>1. /\ UNCHANGED <<open, status, shutdownFlag, evMask, ev, pc, sent, sendOlp, recvOlp>>
      /\ sendIo.st = "idle" => sendIo'.st = "idle"
  BY DEF KernelSend, KernelRecv, PeerEnd, KConnect, KSend, KAbortSend, KRecv, KRecvFin, KAbortRecv,
         sock, waitVar, sendVar, recvVar
<1> QED BY <1>1 DEF MainInv, Places, OneGo, Heard, Emptied, Asking, Unread

\* The completion handlers run inside wait().
LEMMA UpdateKeepsMain ==
  ASSUME Socket, MainInv, Update, UNCHANGED <<at, next>>
  PROVE  MainInv'
<1>1. pc = "wait" /\ at = "event" /\ Places /\ OneGo /\ Heard
  BY DEF Update, OnConnect, OnSend, OnRecv, OnClosed, MainInv, Places
<1>2. PICK raw \in SUBSET Events :
        /\ Resume(raw)
        /\ "OUT" \in raw => status' # "DISCONNECT"
        /\ "IN" \in raw => status' # "DISCONNECT"
  <2>1. CASE OnConnect
    BY <2>1 DEF OnConnect, Events
  <2>2. CASE OnSend
    <3>1. status # "DISCONNECT" /\ status' \in {status, "BROKEN", "PEERCLOSED"}
      BY <2>2, SocketFacts DEF OnSend, BreakUnlessFine, Break
    <3>2. \E raw \in SUBSET Events : Resume(raw)
      BY <2>2 DEF OnSend, Events
    <3> QED BY <3>1, <3>2
  <2>3. CASE OnRecv
    <3>1. recvOlp.opp = "RECV"
      BY <2>3 DEF OnRecv, Socket, Ruled!SocketInv, Ruled!RecvInv
    <3>2. status # "DISCONNECT" /\ status' \in {status, "BROKEN", "PEERCLOSED"}
      BY <2>3, <3>1, SocketFacts DEF OnRecv, Break
    <3>3. \E raw \in SUBSET Events : Resume(raw)
      BY <2>3 DEF OnRecv, Events
    <3> QED BY <3>2, <3>3
  <2>4. CASE OnClosed
    BY <2>4 DEF OnClosed
  <2> QED BY <2>1, <2>2, <2>3, <2>4 DEF Update
<1>3. evMask' = evMask /\ ev' = raw \cap evMask /\ pc' \in {"user", "wait"}
  BY <1>1, <1>2, Resumed
<1>4. UNCHANGED <<open, shutdownFlag, sent>>
  BY DEF Update, OnConnect, OnSend, OnRecv, OnClosed, sock, sendVar
<1>5. Places'
  BY <1>1, <1>3, <1>4 DEF Places
<1>6. Heard' /\ Emptied'
  BY <1>1, <1>2, <1>3 DEF Heard, Emptied, Places, AskedOut, AskedIn
<1>7. ASSUME Asking
      PROVE  /\ sendOlp'.upos = sendOlp.upos /\ (sendOlp'.opp = "NONE" => sendOlp'.ipos = 0)
             /\ recvOlp'.opp = "NONE" /\ recvOlp'.upos = 0
  <2>1. sent = 0 /\ sendOlp.upos = 0 /\ sendOlp.ipos = 0 /\ recvOlp.opp = "NONE" /\ recvOlp.upos = 0
    BY <1>1, <1>7, SocketFacts DEF OneGo
  <2>2. recvIo.st # "done"
    BY <2>1 DEF Socket, Ruled!SocketInv, Ruled!RecvInv
  <2>3. sendIo.n \in Nat /\ sendIo.n <= 0
    BY <2>1, SocketFacts DEF Socket, Ruled!SocketInv, Ruled!SendInv, IoState
  <2>4. UNCHANGED recvOlp
    BY <2>2 DEF Update, OnConnect, OnSend, OnRecv, OnClosed, recvVar
  <2>5. sendOlp' \in {sendOlp, Taken(sendOlp)}
    BY <2>2, <2>3 DEF Update, OnConnect, OnSend, OnRecv, OnClosed, sendVar
  <2>6. Taken(sendOlp).upos = 0 /\ Taken(sendOlp).ipos = 0
    BY <2>1, SocketFacts DEF Taken, Ruled!SendOlps
  <2> QED BY <2>1, <2>4, <2>5, <2>6
<1>8. OneGo'
  BY <1>1, <1>3, <1>4, <1>7 DEF OneGo, Asking, Places, AskedOut, AskedIn
<1> QED BY <1>5, <1>6, <1>8 DEF MainInv

\* The steps of main() before the request is sent, and the waits.
LEMMA StartKeepsMain ==
  ASSUME Socket, MainInv, Start
  PROVE  MainInv'
<1>1. Places /\ OneGo /\ at = "connect" /\ at' = "ctl"
  BY DEF MainInv, Start, Goto
<1>2. /\ sendOlp' = [sendOlp EXCEPT !.opp = "CONNECT"]
      /\ UNCHANGED <<recvOlp, sent, ev, evMask, pc, open, shutdownFlag, next>>
  BY <1>1 DEF Start, Goto, Connect, recvVar, waitVar, Places
<1>3. sendOlp'.upos = sendOlp.upos /\ sendOlp'.opp = "CONNECT"
  BY <1>2, SocketFacts DEF Ruled!SendOlps
<1>4. Places' /\ Heard' /\ Emptied'
  BY <1>1, <1>2 DEF Places, Heard, Emptied
<1>5. OneGo'
  BY <1>1, <1>2, <1>3 DEF OneGo, Asking
<1> QED BY <1>4, <1>5 DEF MainInv

\* ctl(IO_EVENT_OUT) posts nothing.
LEMMA AskOutKeepsMain ==
  ASSUME Socket, MainInv, AskOut
  PROVE  MainInv'
<1>1. Places /\ OneGo /\ at = "ctl" /\ at' = "loop"
  BY DEF MainInv, AskOut, Goto
<1>2. /\ UNCHANGED <<sendOlp, recvOlp, sent, ev, pc, open, shutdownFlag, next>>
      /\ evMask' = AskedOut
  BY DEF AskOut, Goto, Ctl, sendVar, AskedOut
<1>3. "IN" \notin evMask /\ "IN" \in AskedIn /\ "IN" \notin AskedOut /\ ev = {} /\ pc = "user"
  BY <1>1 DEF Places, AskedIn, AskedOut
<1>4. /\ sent = 0 /\ sendOlp.upos = 0 /\ (sendOlp.opp = "NONE" => sendOlp.ipos = 0)
      /\ recvOlp.opp = "NONE" /\ recvOlp.upos = 0 /\ sent <= SEND_BUF_LEN
  BY <1>1, <1>3 DEF OneGo, Asking
<1>5. Places'
  BY <1>1, <1>2, <1>3 DEF Places
<1>6. Heard' /\ Emptied'
  BY <1>1, <1>2, <1>3, <1>4 DEF Heard, Emptied
<1>7. OneGo'
  BY <1>1, <1>2, <1>3, <1>4 DEF OneGo, Asking
<1> QED BY <1>5, <1>6, <1>7 DEF MainInv

\* wait() tells of room and of data only on a connected socket.
LEMMA CallWaitKeepsMain ==
  ASSUME Socket, MainInv, CallWait
  PROVE  MainInv'
<1>1. Places /\ OneGo /\ at = "loop" /\ at' = "event"
  BY DEF MainInv, CallWait, Goto
<1>2. UNCHANGED <<sendOlp, recvOlp, sent, open, status, shutdownFlag, next>>
  BY DEF CallWait, Goto, Wait, sock, sendVar, recvVar
<1>3. evMask' = evMask /\ ev' \subseteq evMask /\ ev' \subseteq Detected
  BY <1>1 DEF CallWait, Wait, MaskEvent, Places, AskedOut, AskedIn
<1>4. ev' \cap {"IN", "OUT"} # {} => status # "DISCONNECT"
  <2> SUFFICES ASSUME status = "DISCONNECT" PROVE "IN" \notin Detected /\ "OUT" \notin Detected
    BY <1>3
  <2>1. Unread = 0
    BY SocketFacts DEF Unread
  <2> QED BY <2>1 DEF Detected, Negative, Positive
<1>5. Places'
  BY <1>1, <1>2, <1>3 DEF Places
<1>6. Heard' /\ Emptied'
  BY <1>1, <1>2, <1>3, <1>4 DEF Heard, Emptied, Places, AskedOut, AskedIn
<1>7. OneGo'
  BY <1>1, <1>2, <1>3 DEF OneGo, Asking, Places, AskedOut, AskedIn
<1> QED BY <1>5, <1>6, <1>7 DEF MainInv

\* The strings go one behind the other into a buffer nothing is taken from meanwhile.
LEMMA PutsKeepsMain ==
  ASSUME Socket, MainInv, Puts
  PROVE  MainInv'
<1>1. /\ Places /\ OneGo /\ at = "event" /\ at' = "event" /\ "OUT" \in ev /\ pc = "user"
      /\ next' = next + 1 /\ next <= Len(Request) /\ evMask = AskedOut /\ status # "DISCONNECT"
      /\ Send(Request[next])
  BY DEF MainInv, Puts, Told, Heard
<1>2. /\ UNCHANGED <<recvOlp, ev, evMask, pc, open, shutdownFlag>> /\ status' \in {status, "BROKEN"}
  BY <1>1 DEF Send, recvVar, waitVar, BreakUnlessFine, Break
<1>3. Len(Request) \in Nat /\ next \in Nat
  BY <1>1, DemoAssumption DEF DemoAssumption, Places
<1>4. Places'
  BY <1>1, <1>2, <1>3 DEF Places
<1>5. Heard' /\ Emptied'
  BY <1>1, <1>2 DEF Heard, Emptied
<1>6. /\ sent' \in Nat /\ sent' <= SEND_BUF_LEN /\ sent' = sendOlp'.upos
      /\ (sendOlp'.opp = "NONE" => sendOlp'.ipos = 0)
  <2> DEFINE n == IF Request[next] > Room THEN Room ELSE Request[next]
             e == sendOlp.et \/ Fills(n)
             o == [sendOlp EXCEPT !.upos = @ + n, !.et = @ \/ Fills(n)]
             b == [i \in 1..SEND_BUF_LEN |->
                    IF i > sendOlp.upos /\ i <= sendOlp.upos + n
                    THEN sent + i - sendOlp.upos ELSE sendBuf[i]]
  <2>1. \/ UNCHANGED <<sendOlp, sent>>
        \/ n > 0 /\ sent' = sent + n /\ \E pr \in PostResults : PostSend(o, b, sendIo, pr)
    BY <1>1, Zenon DEF Send
  <2>2. /\ sent = sendOlp.upos /\ (sendOlp.opp = "NONE" => sendOlp.ipos = 0)
        /\ sent \in Nat /\ sent <= SEND_BUF_LEN /\ SEND_BUF_LEN \in Nat
        /\ sendOlp.ipos \in Nat /\ sendOlp.ipos <= sent
    <3>1. Asking
      BY <1>1 DEF Asking, AskedOut, AskedIn
    <3>2. sent <= SEND_BUF_LEN /\ sent = sendOlp.upos /\ (sendOlp.opp = "NONE" => sendOlp.ipos = 0)
      BY <1>1, <3>1 DEF OneGo
    <3>3. SEND_BUF_LEN \in Nat
      BY SocketAssumption DEF SocketAssumption
    <3> QED BY <3>2, <3>3, SocketFacts
  <2>3. CASE UNCHANGED <<sendOlp, sent>>
    BY <2>2, <2>3
  <2>4. ASSUME n > 0, sent' = sent + n, NEW pr, PostSend(o, b, sendIo, pr)
        PROVE  /\ sent' \in Nat /\ sent' <= SEND_BUF_LEN /\ sent' = sendOlp'.upos
               /\ (sendOlp'.opp = "NONE" => sendOlp'.ipos = 0)
    <3>1. Request[next] \in Nat
      BY <1>1, <1>3, DemoAssumption DEF DemoAssumption, Places
    <3>2. n \in Nat /\ sent + n <= SEND_BUF_LEN
      BY <2>2, <3>1 DEF Room
    <3>3. b \in [1..SEND_BUF_LEN -> Nat]
      BY <2>2, <3>2, SocketFacts
    <3>4. o = [sendOlp EXCEPT !.upos = @ + n, !.et = e] /\ e \in BOOLEAN
      OBVIOUS
    <3> HIDE DEF n, e, o, b
    <3>5. o = [opp |-> sendOlp.opp, ipos |-> sendOlp.ipos, upos |-> sendOlp.upos + n, et |-> e]
      BY <3>4, SocketFacts DEF Ruled!SendOlps
    <3>6. o \in Ruled!SendOlps /\ o.opp = sendOlp.opp /\ o.ipos = sendOlp.ipos /\ o.upos = sent + n
      BY <2>2, <3>2, <3>4, <3>5, SocketFacts DEF Ruled!SendOlps
    <3>7. Ruled!PostSend(o, b, sendIo, pr) /\ o.ipos <= o.upos /\ sendIo \in Ruled!IoState
      BY <2>2, <2>4, <3>2, <3>6, SamePosts, SocketFacts DEF IoState, Ruled!IoState
    <3>8. \/ o.opp # "NONE" /\ sendOlp' = o
          \/ /\ o.opp = "NONE" /\ sendOlp'.upos = o.upos - o.ipos
             /\ \/ sendOlp'.upos = 0
                \/ sendOlp'.opp = "SEND"
      BY <3>3, <3>6, <3>7, RuledAssumption, Ruled!PostSendShape
    <3>9. CASE o.opp # "NONE" /\ sendOlp' = o
      BY <2>2, <2>4, <3>2, <3>6, <3>9
    <3>10. CASE /\ o.opp = "NONE" /\ sendOlp'.upos = o.upos - o.ipos
                /\ sendOlp'.upos = 0 \/ sendOlp'.opp = "SEND"
      BY <2>2, <2>4, <3>2, <3>6, <3>10
    <3> QED BY <3>8, <3>9, <3>10
  <2> QED BY <2>1, <2>3, <2>4
<1>7. OneGo'
  BY <1>1, <1>2, <1>6 DEF OneGo, Asking, AskedOut, AskedIn
<1> QED BY <1>4, <1>5, <1>7 DEF MainInv

\* ctl(IO_EVENT_IN) finds no byte in the receive buffer.
LEMMA AskInKeepsMain ==
  ASSUME Socket, MainInv, AskIn
  PROVE  MainInv'
<1>1. /\ Places /\ OneGo /\ at = "event" /\ at' = "loop" /\ "OUT" \in ev /\ pc = "user"
      /\ evMask = AskedOut /\ next' = 1
  BY DEF MainInv, AskIn, Told, Heard
<1>2. /\ UNCHANGED <<sent, ev, pc, open, shutdownFlag>> /\ evMask' = AskedIn
      /\ \E pr \in PostResults : PostRecv(recvOlp, pr)
  BY DEF AskIn, Ctl, sendVar, AskedIn
<1>3. Asking
  BY <1>1 DEF Asking, AskedOut, AskedIn
<1>4. "IN" \notin ev /\ recvOlp.upos = 0 /\ sent <= SEND_BUF_LEN
  BY <1>1, <1>3 DEF OneGo
<1>5. recvOlp'.upos = 0
  <2> PICK pr \in PostResults : PostRecv(recvOlp, pr)
    BY <1>2
  <2>1. Ruled!PostRecv(recvOlp, pr) /\ Ruled!RecvTypeOK
    BY SamePosts DEF Socket, Ruled!TypeOK
  <2> QED BY <1>4, <2>1, SocketFacts, RuledAssumption, Ruled!PostRecvShape
<1>6. Places'
  <2>1. Len(Request) \in Nat
    BY DemoAssumption DEF DemoAssumption
  <2> QED BY <1>1, <1>2, <2>1 DEF Places
<1>7. Heard' /\ Emptied' /\ OneGo'
  BY <1>1, <1>2, <1>4, <1>5 DEF Heard, Emptied, OneGo, Asking
<1> QED BY <1>6, <1>7 DEF MainInv

\* The last recv() of a turn has found the buffer empty.
LEMMA ReadKeepsMain ==
  ASSUME Socket, MainInv, Read
  PROVE  MainInv'
<1>1. /\ Places /\ OneGo /\ at = "event" /\ at' \in {"event", "loop"} /\ pc = "user"
      /\ "OUT" \notin ev /\ "IN" \in ev /\ status # "DISCONNECT" /\ UNCHANGED next /\ Recv(ReadLen)
  BY DEF MainInv, Read, Told, Heard, Goto
<1>2. UNCHANGED <<sent, ev, evMask, pc, open, shutdownFlag>> /\ status' \in {status, "BROKEN"}
  BY <1>1 DEF Recv, sendVar, waitVar, Break
<1>3. evMask = AskedIn
  BY <1>1 DEF OneGo, Asking
<1>4. Places'
  BY <1>1, <1>2 DEF Places
<1>5. Heard' /\ OneGo'
  BY <1>1, <1>2, <1>3 DEF Heard, OneGo, Asking
<1>6. ASSUME at' = "loop" PROVE Unread' = 0
  <2> DEFINE n == Handed(ReadLen)
             u == recvOlp.upos + n
             o == [recvOlp EXCEPT !.upos = @ + n, !.et = TRUE]
  <2>1. ~RecvShut
    BY <1>1 DEF Places, RecvShut
  <2>2. ~(n > 0)
    BY <1>6, <2>1 DEF Read, Goto, ReadOn
  <2>3. /\ recvOlp.ipos \in Nat /\ recvOlp.upos \in Nat /\ recvOlp.upos <= recvOlp.ipos
        /\ ReadLen \in Nat /\ ReadLen > 0
    BY SocketFacts, DemoAssumption DEF DemoAssumption
  <2>4. n = 0 /\ recvOlp.ipos = recvOlp.upos /\ Empties(n)
    BY <2>2, <2>3 DEF Handed, Unread, Empties
  <2>5. PICK pr \in PostResults : PostRecv(o, pr)
    BY <1>1, <2>1, <2>4, Zenon DEF Recv
  <2>6. u = recvOlp.upos
    BY <2>3, <2>4
  <2>7. o = [recvOlp EXCEPT !.upos = u, !.et = TRUE]
    OBVIOUS
  <2> HIDE DEF o, u, n
  <2>8. o \in Ruled!RecvOlps /\ o.ipos = recvOlp.ipos /\ o.upos = recvOlp.upos
    BY <2>6, <2>7, SocketFacts DEF Ruled!RecvOlps
  <2>9. Ruled!PostRecv(o, pr) /\ o.upos <= o.ipos /\ o.ipos = o.upos
    BY <2>4, <2>5, <2>8, <2>3, SamePosts
  <2>10. recvOlp'.ipos = recvOlp'.upos
    BY <2>8, <2>9, RuledAssumption, Ruled!PostRecvKeeps
  <2>11. Socket'
    <3>1. Ruled!Next
      BY ReadRuled DEF MainInv, Ruled!Next, Ruled!Application
    <3> QED BY <3>1, SocketStep
  <2>12. recvOlp'.ipos \in Nat
    BY <2>11 DEF Socket, Ruled!TypeOK, Ruled!RecvTypeOK, Ruled!RecvOlps
  <2> QED BY <2>10, <2>12 DEF Unread
<1>7. Emptied'
  BY <1>6 DEF Emptied
<1> QED BY <1>4, <1>5, <1>7 DEF MainInv

\* Every step of the program and of what it waits for keeps the invariant.
LEMMA MainStep ==
  ASSUME Socket, MainInv, [DemoNext]_demoVars
  PROVE  MainInv'
<1>1. CASE UNCHANGED demoVars
  BY <1>1 DEF demoVars, vars, sock, sendVar, recvVar, waitVar, MainInv, Places, OneGo, Heard,
              Emptied, Asking, Unread
<1>2. CASE GiveUp
  BY <1>2 DEF GiveUp, Told, Goto, Close, sendVar, MainInv, Places, OneGo, Heard, Emptied, Asking
<1>3. CASE Free
  BY <1>3 DEF Free, Goto, sendVar, MainInv, Places, OneGo, Heard, Emptied, Asking
<1>4. CASE Environment /\ UNCHANGED <<at, next>>
  BY <1>4, OutsideQuiet, UpdateKeepsMain DEF Environment
<1> QED BY <1>1, <1>2, <1>3, <1>4, StartKeepsMain, AskOutKeepsMain, CallWaitKeepsMain,
           PutsKeepsMain, AskInKeepsMain, ReadKeepsMain DEF DemoNext, Main

-----------------------------------------------------------------------------
(* The theorems.                                                            *)

\* Until FreeIoSelector() the invariant of the socket holds; what is on the wire and what is
\* read stays in order after it.
DemoInv ==
  /\ MainInv /\ WireInOrder /\ ReadInOrder
  /\ at # "ended" => Socket

\* A new socket keeps the invariants.
LEMMA InitSocket == DemoInit => Socket
<1> SUFFICES ASSUME DemoInit PROVE Socket
  OBVIOUS
<1>1. Ruled!Init
  BY Zenon DEF DemoInit, Init, Ruled!Init, Ruled!Idle, Idle
<1>2. Ruled!TypeOK /\ Ruled!SocketInv
  BY <1>1, RuledAssumption, Ruled!InitInv
<1>3. Ruled!UsableInv
  BY <1>1, RuledAssumption, Ruled!IoStates
     DEF Ruled!Init, Ruled!UsableInv, Ruled!Untouched, Ruled!Sending, Ruled!Reading
<1>4. Ruled!ReportInv
  BY <1>1 DEF Ruled!Init, Ruled!ReportInv, Ruled!EdgeArmed, Ruled!Noted, Ruled!Told
<1> QED BY <1>2, <1>3, <1>4 DEF Socket

\* The order of the streams is part of the invariant of the socket.
LEMMA SocketOrdered == Socket => WireInOrder /\ ReadInOrder
BY DEF Socket, Ruled!SocketInv, Ruled!SendInv, Ruled!RecvInv, Ruled!ConnectsOnce, Ruled!SendOrder,
       Ruled!WireInOrder, WireInOrder, Ruled!ReadInOrder, ReadInOrder

\* The same of the next state.
LEMMA OrderedNext == Socket' => WireInOrder' /\ ReadInOrder'
<1>1. (Socket => WireInOrder /\ ReadInOrder)'
  BY SocketOrdered, PTL
<1> QED BY <1>1

\* DemoInv is inductive.
LEMMA DemoInductive == DemoSpec => []DemoInv
<1>1. DemoInit => DemoInv
  <2> SUFFICES ASSUME DemoInit PROVE DemoInv
    OBVIOUS
  <2>1. Socket /\ WireInOrder /\ ReadInOrder
    BY InitSocket, SocketOrdered
  <2>2. Len(Request) \in Nat /\ SEND_BUF_LEN \in Nat
    BY DemoAssumption, SocketAssumption DEF DemoAssumption, SocketAssumption
  <2>3. MainInv
    BY <2>2 DEF DemoInit, Init, Idle, MainInv, Places, OneGo, Heard, Emptied
  <2> QED BY <2>1, <2>3 DEF DemoInv
<1>2. DemoInv /\ [DemoNext]_demoVars => DemoInv'
  <2> SUFFICES ASSUME DemoInv, [DemoNext]_demoVars PROVE DemoInv'
    OBVIOUS
  <2>1. CASE at # "ended" /\ ~Free
    <3>1. Socket /\ MainInv
      BY <2>1 DEF DemoInv
    <3>2. [Ruled!Next]_(Ruled!vars)
      BY <2>1, <3>1, StepRuled
         DEF demoVars, vars, sock, sendVar, recvVar, waitVar, Ruled!vars, Ruled!sock, Ruled!sendVar,
             Ruled!recvVar, Ruled!waitVar
    <3>3. Socket' /\ WireInOrder' /\ ReadInOrder'
      BY <3>1, <3>2, SocketStep, OrderedNext
    <3> QED BY <3>1, <3>3, MainStep DEF DemoInv
  <2>2. CASE at # "ended" /\ Free
    <3>1. MainInv'
      BY <2>2, MainStep DEF DemoInv
    <3>2. at' = "ended" /\ UNCHANGED <<wire, sent, got, inCount>>
      BY <2>2 DEF Free, Goto, sendVar, recvVar
    <3> QED BY <3>1, <3>2 DEF DemoInv, WireInOrder, ReadInOrder
  <2>3. CASE at = "ended"
    <3>1. MainInv /\ ~open /\ pc = "user" /\ WireInOrder /\ ReadInOrder
      BY <2>3 DEF DemoInv, MainInv, Places
    <3>2. \/ UNCHANGED demoVars
          \/ /\ KernelSend \/ KernelRecv \/ \E how \in PeerEnds : PeerEnd(how)
             /\ UNCHANGED <<at, next>>
      BY <2>3, <3>1 DEF DemoNext, Main, Start, AskOut, CallWait, Puts, AskIn, Read, GiveUp, Free,
                        Told, Environment, Update, OnConnect, OnSend, OnRecv, OnClosed
    <3>3. MainInv'
      BY <3>1, <3>2, OutsideQuiet
         DEF demoVars, vars, sock, sendVar, recvVar, waitVar, MainInv, Places, OneGo, Heard, Emptied,
             Asking, Unread
    <3>4. at' = "ended" /\ UNCHANGED <<wire, sent, got, inCount>>
      BY <2>3, <3>1, <3>2 DEF KernelSend, KernelRecv, PeerEnd, KConnect, KSend, KAbortSend, KRecv,
                              KRecvFin, KAbortRecv, sendVar, recvVar, demoVars, vars
    <3> QED BY <3>1, <3>3, <3>4 DEF DemoInv, WireInOrder, ReadInOrder
  <2> QED BY <2>1, <2>2, <2>3
<1> QED BY <1>1, <1>2, PTL DEF DemoSpec

\* main() keeps the rules: until FreeIoSelector() every step is one of a socket whose
\* application does as IoSocketImpl.h says and empties the buffer it is told of.
THEOREM MainKeepsRules == DemoSpec => [][Free \/ Ruled!Next]_demoVars
<1>1. DemoInv /\ [DemoNext]_demoVars => [Free \/ Ruled!Next]_demoVars
  <2> SUFFICES ASSUME DemoInv, DemoNext PROVE Free \/ Ruled!Next
    OBVIOUS
  <2>1. CASE at # "ended"
    BY <2>1, StepRuled DEF DemoInv
  <2>2. CASE at = "ended"
    BY <2>2, SameActions DEF DemoNext, Main, Start, AskOut, CallWait, Puts, AskIn, Read, GiveUp,
                             Free, Told, Environment, Ruled!Next
  <2> QED BY <2>1, <2>2
<1> QED BY <1>1, DemoInductive, PTL DEF DemoSpec

\* So, while its socket is usable, it is never left in wait() with a request that nothing
\* sends, with an emptied buffer that nothing reads into, or with bytes of the response it was
\* not told of.
THEOREM MainServed == DemoSpec => [](NeverStranded /\ EmptiedIsReading /\ UnreadIsReported)
<1>1. DemoInv => NeverStranded /\ EmptiedIsReading /\ UnreadIsReported
  <2> SUFFICES ASSUME DemoInv, open PROVE NeverStranded /\ EmptiedIsReading /\ UnreadIsReported
    BY DEF NeverStranded, EmptiedIsReading, UnreadIsReported
  <2>1. Ruled!Sending /\ Ruled!Reading /\ Ruled!Told
    BY DEF DemoInv, MainInv, Places, Socket, Ruled!UsableInv, Ruled!ReportInv
  <2>2. NeverStranded /\ EmptiedIsReading
    BY <2>1 DEF Ruled!Sending, Ruled!Reading, Ruled!Live, Ruled!Positive, Positive, NeverStranded,
                EmptiedIsReading
  <2>3. UnreadIsReported
    BY <2>1 DEF Ruled!Told, Ruled!Wanted, Ruled!Live, Ruled!RecvShut, RecvShut, Ruled!Positive,
                Positive, UnreadIsReported
  <2> QED BY <2>2, <2>3
<1> QED BY <1>1, DemoInductive, PTL

\* What the server gets is a beginning of the request, what it reads one of the response.
THEOREM MainInOrder == DemoSpec => [](WireInOrder /\ ReadInOrder)
<1>1. DemoInv => WireInOrder /\ ReadInOrder
  BY DEF DemoInv
<1> QED BY <1>1, DemoInductive, PTL

\* Once the socket of main() is dead no completion revives it.
THEOREM MainNegativeFinal == DemoSpec => NegativeIsFinal
<1> DEFINE Stays == status \in Negative => status' \in Negative
<1>1. DemoInv /\ [DemoNext]_demoVars => [Stays]_vars
  <2> SUFFICES ASSUME DemoInv, DemoNext, status \in Negative PROVE status' \in Negative
    BY DEF demoVars
  <2>1. CASE at # "ended" /\ ~Free
    <3>1. Ruled!TypeOK /\ Ruled!SocketInv /\ Ruled!Untouched /\ Socket /\ MainInv
      BY <2>1 DEF DemoInv, Socket, Ruled!UsableInv
    <3>2. Ruled!Next /\ Ruled!Header /\ Ruled!ConnectsOnce /\ status \in Ruled!Negative
      BY <2>1, <3>1, StepRuled DEF Ruled!Header, Ruled!ConnectsOnce, Ruled!Negative, Negative
    <3>3. status' \in Ruled!Negative
      BY <3>1, <3>2, RuledAssumption, Ruled!NegativeStep, Zenon
    <3> QED BY <3>3 DEF Ruled!Negative, Negative
  <2>2. CASE Free
    BY <2>2 DEF Free
  <2>3. CASE at = "ended" /\ ~Free
    <3>1. pc = "user"
      BY <2>3 DEF DemoInv, MainInv, Places
    <3>2. KernelSend \/ KernelRecv \/ \E how \in PeerEnds : PeerEnd(how)
      BY <2>3, <3>1 DEF DemoNext, Main, Start, AskOut, CallWait, Puts, AskIn, Read, GiveUp, Told,
                        Environment, Update, OnConnect, OnSend, OnRecv, OnClosed
    <3> QED BY <3>2 DEF KernelSend, KernelRecv, PeerEnd, KConnect, KSend, KAbortSend, KRecv,
                        KRecvFin, KAbortRecv, sock
  <2> QED BY <2>1, <2>2, <2>3
<1> QED BY <1>1, DemoInductive, PTL DEF DemoSpec, NegativeIsFinal

=============================================================================
