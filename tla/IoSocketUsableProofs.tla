------------------------ MODULE IoSocketUsableProofs ------------------------
(***************************************************************************)
(* Proofs about a connection in use, for every buffer size and number of   *)
(* bytes and for an application that connects once ("connect"), keeps the  *)
(* rules of IoSocketImpl.h ("header") and, for the reports, empties the    *)
(* buffer it is told of ("drain"): a negative status is final, accepted    *)
(* bytes and an emptied buffer have their operation under way, unread      *)
(* bytes are reported.                                                     *)
(***************************************************************************)
EXTENDS IoSocketImplProofs

Live == open /\ status \in Positive

\* Before the connection is made nothing has been sent or read, and only ConnectEx may be
\* under way; after it ConnectEx is not.
Untouched ==
  /\ open /\ sendOlp.opp = "CONNECT" => status = "DISCONNECT"
  /\ status = "DISCONNECT" =>
       /\ sendOlp.upos = 0 /\ got = <<>>
       /\ recvOlp.opp = "NONE" /\ recvOlp.ipos = 0 /\ recvOlp.upos = 0 /\ ~recvOlp.et

\* On a usable socket a marked structure has an operation (a post that failed would have
\* broken the socket), and what should be under way is marked.
Sending ==
  Live => /\ sendOlp.opp = "SEND" => sendIo.st # "idle"
          /\ sendOlp.upos > 0 => sendOlp.opp = "SEND"

Reading ==
  Live => /\ recvOlp.opp = "RECV" => recvIo.st # "idle"
          /\ recvOlp.et /\ recvOlp.ipos = recvOlp.upos => recvOlp.opp = "RECV"

UsableInv == Untouched /\ Sending /\ Reading

\* An edge-triggered read under way reports what it brings, once recv() was called.
EdgeArmed == got # <<>> /\ recvOlp.ipos = recvOlp.upos => recvOlp.et

\* The application wants to know of unread bytes.
Wanted == ~RecvShut /\ "IN" \in evMask /\ ("ET" \in evMask => got # <<>>)

\* Unread bytes it wants are on their way to it: the socket is on the check list, or the
\* event is told, or the application is in the middle of reading.
Told ==
  Live /\ Wanted /\ recvOlp.upos # recvOlp.ipos =>
    pc = "user" /\ (listed \/ "IN" \in ev \/ recvOlp.upos > 0)

\* The shutdown flag is unset or one the application passed.
Noted == shutdownFlag \in Hows \cup {"none"}

ReportInv == EdgeArmed /\ Noted /\ Told

\* A second shutdown() does not open the receiving side again.
NeverReopened == "send" \in Hows => Hows \subseteq {"send"}

-----------------------------------------------------------------------------
(* What the post functions leave behind.                                    *)

\* WSASend and WSARecv leave an operation behind when they take it.
LEMMA PostedIsFlight ==
  /\ \A o, b, io : PostSend(o, b, io, "POSTED") => sendIo' = Flight
  /\ \A o : PostRecv(o, "POSTED") => recvIo' = Flight
<1>1. ASSUME NEW o, NEW b, NEW io, PostSend(o, b, io, "POSTED") PROVE sendIo' = Flight
  BY <1>1 DEF PostSend, NothingLeft
<1>2. ASSUME NEW o, PostRecv(o, "POSTED") PROVE recvIo' = Flight
  BY <1>2 DEF PostRecv
<1> QED BY <1>1, <1>2

\* postSend(): unless the kernel refused, a structure marked SEND has its operation, and
\* bytes left in the buffer are marked.
LEMMA PostSendUsable ==
  ASSUME NEW o \in SendOlps, NEW b \in [1..SEND_BUF_LEN -> Nat], NEW io \in IoState,
         NEW pr, o.ipos <= o.upos, PostSend(o, b, io, pr),
         pr # "FAILED", o.opp # "CONNECT", o.opp = "SEND" => io.st # "idle"
  PROVE  /\ sendOlp'.opp # "CONNECT"
         /\ sendOlp'.opp = "SEND" => sendIo'.st # "idle"
         /\ sendOlp'.upos > 0 => sendOlp'.opp = "SEND"
<1>1. CASE o.opp # "NONE"
  <2>1. sendOlp' = o /\ sendIo' = io
    BY <1>1, PostSendShape
  <2> QED BY <1>1, <2>1 DEF SendOlps
<1>2. CASE o.opp = "NONE"
  <2>1. \/ sendOlp'.upos = 0 /\ sendOlp'.opp = "NONE"
        \/ sendOlp'.upos > 0 /\ sendOlp'.opp = "SEND" /\ pr = "POSTED"
    BY <1>2, PostSendShape
  <2>2. pr = "POSTED" => sendIo'.st # "idle"
    BY PostedIsFlight, IoStates
  <2> QED BY <2>1, <2>2
<1> QED BY <1>1, <1>2

\* postRecv() keeps the edge flag, and drops no unread byte.
LEMMA PostRecvKeeps ==
  ASSUME NEW o \in RecvOlps, NEW pr, o.upos <= o.ipos, PostRecv(o, pr)
  PROVE  /\ recvOlp'.et = o.et
         /\ recvOlp'.ipos = recvOlp'.upos <=> o.ipos = o.upos
<1>1. CASE RecvShut \/ Outstanding(o)
  BY <1>1, Zenon DEF PostRecv
<1>2. CASE ~RecvShut /\ ~Outstanding(o)
  <2> DEFINE left == o.ipos - o.upos
  <2>1. o.ipos \in Nat /\ o.upos \in Nat /\ left \in Nat /\ (left = 0 <=> o.ipos = o.upos)
    BY RecvLength DEF RecvOlps
  <2>2. \/ recvOlp' = [o EXCEPT !.ipos = left, !.upos = 0]
        \/ recvOlp' = [o EXCEPT !.opp = "RECV", !.ipos = left, !.upos = 0]
    BY <1>2, Zenon DEF PostRecv
  <2>3. recvOlp'.et = o.et /\ recvOlp'.ipos = left /\ recvOlp'.upos = 0
    BY <2>2 DEF RecvOlps
  <2> HIDE DEF left
  <2> QED BY <2>1, <2>3
<1> QED BY <1>1, <1>2

\* postRecv(): unless it failed, a structure marked RECV has its operation, and an empty
\* buffer is marked.
LEMMA PostRecvUsable ==
  ASSUME NEW o \in RecvOlps, NEW pr \in PostResults, o.upos <= o.ipos, PostRecv(o, pr), Fine(pr),
         o.opp = "RECV" => recvIo.st # "idle"
  PROVE  /\ recvOlp'.opp = "RECV" => recvIo'.st # "idle"
         /\ o.ipos = o.upos => recvOlp'.opp = "RECV"
<1>1. ~RecvShut
  BY DEF PostRecv, Fine, Outstanding, Drained
<1>2. CASE Outstanding(o)
  <2>1. recvOlp' = o /\ recvIo' = recvIo
    BY <1>1, <1>2, Zenon DEF PostRecv
  <2> QED BY <1>2, <2>1 DEF Outstanding, RecvOlps
<1>3. CASE ~Outstanding(o)
  <2> DEFINE left == o.ipos - o.upos
  <2>1. o.ipos \in Nat /\ o.upos \in Nat /\ left \in Nat
    BY RecvLength DEF RecvOlps
  <2>2. CASE Drained(left)
    <3>1. recvOlp' = [o EXCEPT !.opp = "RECV", !.ipos = left, !.upos = 0] /\ Issued(Linked, pr)
      BY <1>1, <1>3, <2>2, Zenon DEF PostRecv
    <3>2. pr = "POSTED"
      BY <3>1 DEF Issued, Fine
    <3>3. recvIo'.st # "idle"
      BY <3>2, PostedIsFlight, IoStates
    <3> QED BY <3>1, <3>3 DEF RecvOlps
  <2>3. CASE ~Drained(left)
    <3>1. recvOlp' = [o EXCEPT !.ipos = left, !.upos = 0]
      BY <1>1, <1>3, <2>3, Zenon DEF PostRecv
    <3>2. o.ipos # o.upos
      BY <2>1, <2>3 DEF Drained
    <3> QED BY <1>3, <3>1, <3>2 DEF Outstanding, RecvOlps
  <2> QED BY <2>2, <2>3
<1> QED BY <1>2, <1>3

-----------------------------------------------------------------------------
(* What the calls and handlers that post hand to the post functions.        *)

\* send() posts the accepted bytes with the new ones behind them.
LEMMA SendPosts ==
  ASSUME SendTypeOK, SendInv, NEW len \in 1..(MaxOut - sent), Send(len)
  PROVE  \/ UNCHANGED <<status, sendOlp, sendIo>>
         \/ \E o \in SendOlps, b \in [1..SEND_BUF_LEN -> Nat], pr \in PostResults :
              /\ o.opp = sendOlp.opp /\ o.ipos <= o.upos
              /\ PostSend(o, b, sendIo, pr) /\ BreakUnlessFine(pr)
<1> DEFINE n == IF len > Room THEN Room ELSE len
           e == sendOlp.et \/ Fills(n)
           u == sendOlp.upos + n
           o == [sendOlp EXCEPT !.upos = @ + n, !.et = @ \/ Fills(n)]
           b == [i \in 1..SEND_BUF_LEN |->
                  IF i > sendOlp.upos /\ i <= sendOlp.upos + n
                  THEN sent + i - sendOlp.upos ELSE sendBuf[i]]
<1>1. \/ UNCHANGED <<status, sendOlp, sendIo>>
      \/ n > 0 /\ \E pr \in PostResults : PostSend(o, b, sendIo, pr) /\ BreakUnlessFine(pr)
  BY Zenon DEF Send
<1>2. ASSUME n > 0
      PROVE  o \in SendOlps /\ b \in [1..SEND_BUF_LEN -> Nat] /\ o.opp = sendOlp.opp /\ o.ipos <= o.upos
  <2>1. /\ sendOlp.ipos \in Nat /\ sendOlp.upos \in Nat /\ sendOlp.upos <= SEND_BUF_LEN
        /\ sendOlp.ipos <= sendOlp.upos /\ sent \in Nat
    BY SendLength, Bounds DEF SendTypeOK, SendOlps, SendInv
  <2>2. n \in Nat /\ u \in 0..SEND_BUF_LEN /\ sendOlp.ipos <= u
    BY <2>1, SendLength, Bounds DEF Room
  <2>3. b \in [1..SEND_BUF_LEN -> Nat]
    BY <2>1, <2>2, SendLength DEF SendTypeOK
  <2>4. o = [sendOlp EXCEPT !.upos = u, !.et = e] /\ e \in BOOLEAN
    OBVIOUS
  <2> HIDE DEF n, e, u, o
  <2>5. o = [opp |-> sendOlp.opp, ipos |-> sendOlp.ipos, upos |-> u, et |-> e]
    BY <2>4 DEF SendTypeOK, SendOlps
  <2>6. o \in SendOlps
    BY <2>2, <2>4, <2>5 DEF SendTypeOK, SendOlps
  <2> QED BY <2>2, <2>3, <2>5, <2>6
<1> HIDE DEF o, b, n
<1> QED BY <1>1, <1>2

\* onSend() posts what is left after the bytes that went out, or ends the connection.
LEMMA OnSendPosts ==
  ASSUME SendTypeOK, SendInv, OnSend
  PROVE  \/ sendOlp' = Taken(sendOlp) /\ status' \in Negative
         \/ \E o \in SendOlps, pr \in PostResults :
              /\ o.opp = "NONE" /\ o.ipos <= o.upos
              /\ PostSend(o, sendBuf, Idle, pr)
              /\ (pr = "ESHUTDOWN" /\ status' = status) \/ BreakUnlessFine(pr)
<1> DEFINE e == sendOlp.et /\ "ET" \notin evMask
           n == sendIo.n
           o == [Taken(sendOlp) EXCEPT !.ipos = Transferred, !.et = @ /\ "ET" \notin evMask]
<1>1. \/ sendOlp' = Taken(sendOlp) /\ (status' = "PEERCLOSED" \/ Break("FAILED"))
      \/ \E pr \in PostResults :
           /\ PostSend(o, sendBuf, Idle, pr)
           /\ IF pr = "ESHUTDOWN" THEN status' = status /\ lastError' = pr ELSE BreakUnlessFine(pr)
  BY Zenon DEF OnSend
<1>2. o = [opp |-> "NONE", ipos |-> n, upos |-> sendOlp.upos, et |-> e] /\ e \in BOOLEAN
  <2>1. o = [[sendOlp EXCEPT !.opp = "NONE"] EXCEPT !.ipos = n, !.et = e] /\ e \in BOOLEAN
    BY DEF Taken, Transferred, SendTypeOK, SendOlps
  <2> HIDE DEF e, o, n
  <2> QED BY <2>1 DEF SendTypeOK, SendOlps
<1> HIDE DEF e, o
<1>3. sendOlp.upos \in 0..SEND_BUF_LEN /\ n \in Nat /\ n <= sendOlp.upos
  BY SendLength DEF SendInv, SendTypeOK, SendOlps, IoState
<1> HIDE DEF n
<1>4. o \in SendOlps /\ o.opp = "NONE" /\ o.ipos <= o.upos
  BY <1>2, <1>3, SendLength DEF SendOlps
<1> QED BY <1>1, <1>4 DEF Break, Negative

\* recv() leaves unread bytes behind it, or posts on an emptied buffer.
LEMMA RecvPosts ==
  ASSUME RecvTypeOK, RecvInv, NEW len \in 1..RECV_BUF_LEN, Recv(len)
  PROVE  \/ RecvShut /\ UNCHANGED <<status, recvOlp, recvIo, got>>
         \/ /\ UNCHANGED <<status, recvIo>> /\ recvOlp'.opp = recvOlp.opp
            /\ recvOlp'.upos > 0 /\ recvOlp'.upos # recvOlp'.ipos
         \/ \E o \in RecvOlps, pr \in PostResults :
              /\ o.opp = recvOlp.opp /\ o.et /\ o.ipos = o.upos
              /\ PostRecv(o, pr)
              /\ IF Fine(pr) THEN status' = status ELSE Break(pr)
<1> DEFINE n == Handed(len)
           u == recvOlp.upos + n
           o == [recvOlp EXCEPT !.upos = @ + n, !.et = TRUE]
<1>1. \/ RecvShut /\ UNCHANGED <<status, recvOlp, recvIo, got>>
      \/ /\ UNCHANGED <<status, recvIo>> /\ ~Empties(n)
         /\ recvOlp' = [recvOlp EXCEPT !.upos = @ + n]
      \/ /\ Empties(n)
         /\ \E pr \in PostResults :
              PostRecv(o, pr) /\ IF Fine(pr) THEN status' = status ELSE Break(pr)
  <2>1. CASE RecvShut
    BY <2>1, Zenon DEF Recv
  <2>2. CASE ~RecvShut /\ ~Empties(n)
    BY <2>2, Zenon DEF Recv
  <2>3. CASE ~RecvShut /\ Empties(n)
    <3>1. PICK pr \in PostResults :
             /\ PostRecv(o, pr)
             /\ IF Fine(pr) THEN status' = status /\ lastError' = "EAGAIN" ELSE Break(pr)
      BY <2>3, Zenon DEF Recv
    <3>2. IF Fine(pr) THEN status' = status ELSE Break(pr)
      BY <3>1
    <3> HIDE DEF o, n
    <3> QED BY <2>3, <3>1, <3>2
  <2> QED BY <2>1, <2>2, <2>3
<1>2. /\ recvOlp.ipos \in Nat /\ recvOlp.upos \in Nat /\ recvOlp.ipos <= RECV_BUF_LEN
      /\ recvOlp.upos <= recvOlp.ipos /\ len \in Nat /\ len > 0
  BY RecvLength DEF RecvTypeOK, RecvOlps, RecvInv
<1>3. ASSUME ~Empties(n), recvOlp' = [recvOlp EXCEPT !.upos = @ + n]
      PROVE  recvOlp'.opp = recvOlp.opp /\ recvOlp'.upos > 0 /\ recvOlp'.upos # recvOlp'.ipos
  <2>1. u \in Nat /\ u > 0 /\ u # recvOlp.ipos
    BY <1>2, <1>3 DEF Handed, Empties, Unread
  <2>2. recvOlp'.opp = recvOlp.opp /\ recvOlp'.upos = u /\ recvOlp'.ipos = recvOlp.ipos
    BY <1>3 DEF RecvTypeOK, RecvOlps
  <2> QED BY <2>1, <2>2
<1>4. ASSUME Empties(n) PROVE o \in RecvOlps /\ o.opp = recvOlp.opp /\ o.et /\ o.ipos = o.upos
  <2>1. u = recvOlp.ipos
    BY <1>2, <1>4 DEF Handed, Empties, Unread
  <2>2. o = [recvOlp EXCEPT !.upos = u, !.et = TRUE]
    OBVIOUS
  <2> HIDE DEF u, o, n
  <2>3. o = [opp |-> recvOlp.opp, ipos |-> recvOlp.ipos, upos |-> u, et |-> TRUE]
    BY <2>2 DEF RecvTypeOK, RecvOlps
  <2> QED BY <2>1, <2>3 DEF RecvTypeOK, RecvOlps
<1> HIDE DEF o, n
<1> QED BY <1>1, <1>3, <1>4

-----------------------------------------------------------------------------
(* The steps, for an application that only shuts down a usable socket.      *)

\* Before the connection is made nothing is sent or read.
LEMMA UntouchedStep ==
  ASSUME Header, ConnectsOnce, TypeOK, SocketInv, Untouched, [Next]_vars
  PROVE  Untouched'
<1>1. /\ SendTypeOK /\ RecvTypeOK /\ SendInv /\ RecvInv /\ LifeInv
      /\ status \in Statuses
  BY DEF TypeOK, SocketInv, SockTypeOK
<1>2. CASE UNCHANGED vars
  BY <1>2 DEF Untouched, vars, sock, sendVar, recvVar
<1>3. CASE Connect
  BY <1>1, <1>3 DEF Connect, recvVar, Untouched, SendTypeOK, SendOlps
<1>4. CASE Close
  BY <1>4 DEF Close, Untouched, LifeInv, SocketInv
<1>5. CASE Wait \/ Timeout
  BY <1>5 DEF Wait, Timeout, Untouched, sock, sendVar, recvVar
<1>6. ASSUME NEW len \in 1..(MaxOut - sent), Send(len) PROVE Untouched'
  <2>1. status # "DISCONNECT" /\ open /\ UNCHANGED recvVar /\ sendOlp.opp # "CONNECT"
    BY <1>6 DEF Send, Calls, Untouched
  <2>2. CASE UNCHANGED <<status, sendOlp, sendIo>>
    BY <2>1, <2>2 DEF Untouched
  <2>3. ASSUME NEW o \in SendOlps, NEW b \in [1..SEND_BUF_LEN -> Nat], NEW pr \in PostResults,
               o.opp = sendOlp.opp, o.ipos <= o.upos, PostSend(o, b, sendIo, pr), BreakUnlessFine(pr)
        PROVE  Untouched'
    <3>1. status' # "DISCONNECT"
      BY <2>1, <2>3 DEF BreakUnlessFine, Break
    <3>2. sendOlp'.opp # "CONNECT"
      BY <1>1, <2>1, <2>3, PostSendShape DEF SendTypeOK
    <3> QED BY <3>1, <3>2 DEF Untouched
  <2> QED BY <1>1, <1>6, <2>2, <2>3, SendPosts
<1>7. ASSUME NEW len \in 1..RECV_BUF_LEN, Recv(len) PROVE Untouched'
  <2>1. status # "DISCONNECT" /\ open /\ UNCHANGED sendVar /\ sendOlp.opp # "CONNECT"
    BY <1>7 DEF Recv, Calls, Untouched
  <2>2. status' # "DISCONNECT"
    BY <1>1, <1>7, <2>1, RecvPosts DEF Break
  <2> QED BY <2>1, <2>2 DEF Untouched, sendVar
<1>8. ASSUME NEW how \in Hows, Shutdown(how) PROVE Untouched'
  BY <1>8 DEF Shutdown, Untouched, Positive, sendVar, recvVar, Calls
<1>9. ASSUME NEW mask \in CtlMasks, Ctl(mask) PROVE Untouched'
  <2>1. open /\ UNCHANGED <<open, sendVar, got>> /\ ("IN" \in mask => status # "DISCONNECT")
    BY <1>9 DEF Ctl, Calls
  <2>2. \/ "IN" \notin mask /\ UNCHANGED <<recvOlp, status>>
        \/ "IN" \in mask /\ \E pr \in PostResults : BreakUnlessFine(pr)
    BY <1>9, Zenon DEF Ctl
  <2>3. \/ UNCHANGED <<recvOlp, status>>
        \/ status # "DISCONNECT" /\ status' # "DISCONNECT"
    BY <2>1, <2>2 DEF BreakUnlessFine, Break
  <2> QED BY <2>1, <2>3 DEF Untouched, sendVar
<1>10. CASE OnConnect
  BY <1>1, <1>10 DEF OnConnect, recvVar, Untouched, Taken, SendTypeOK, SendOlps
<1>11. CASE OnSend
  <2>1. status # "DISCONNECT" /\ open /\ UNCHANGED recvVar
    BY <1>1, <1>11 DEF OnSend, LifeInv, AttemptInv
  <2>2. CASE sendOlp' = Taken(sendOlp) /\ status' \in Negative
    BY <1>1, <2>1, <2>2 DEF Untouched, Taken, SendTypeOK, SendOlps, Negative
  <2>3. ASSUME NEW o \in SendOlps, NEW pr \in PostResults,
               o.opp = "NONE", o.ipos <= o.upos, PostSend(o, sendBuf, Idle, pr),
               (pr = "ESHUTDOWN" /\ status' = status) \/ BreakUnlessFine(pr)
        PROVE  Untouched'
    <3>1. status' # "DISCONNECT"
      BY <2>1, <2>3 DEF BreakUnlessFine, Break
    <3>2. sendOlp'.opp # "CONNECT"
      BY <1>1, <2>3, PostSendShape, IoStates DEF SendTypeOK
    <3> QED BY <3>1, <3>2 DEF Untouched
  <2> QED BY <1>1, <1>11, <2>2, <2>3, OnSendPosts
<1>12. CASE OnRecv
  <2>1. /\ status # "DISCONNECT" /\ open /\ UNCHANGED sendVar
        /\ status' \in {status, "PEERCLOSED", "BROKEN"}
    BY <1>1, <1>12 DEF OnRecv, RecvInv, Untouched, Break
  <2> QED BY <2>1 DEF Untouched, sendVar
<1>13. CASE OnClosed
  BY <1>1, <1>13 DEF OnClosed, sock, LifeInv, Untouched
<1>14. CASE KernelSend \/ KernelRecv \/ \E how \in PeerEnds : PeerEnd(how)
  <2>1. UNCHANGED <<open, status, sendOlp, recvOlp, got>>
    BY <1>14 DEF KernelSend, KernelRecv, PeerEnd, KConnect, KSend, KAbortSend, KRecv, KRecvFin,
                 KAbortRecv, sock, sendVar, recvVar
  <2> QED BY <2>1 DEF Untouched
<1> QED BY <1>2, <1>3, <1>4, <1>5, <1>6, <1>7, <1>8, <1>9, <1>10, <1>11, <1>12, <1>13, <1>14
        DEF Next, Application, Update

\* On a usable socket accepted bytes have their send.
LEMMA SendingStep ==
  ASSUME Header, ConnectsOnce, TypeOK, SocketInv, Untouched, Sending, [Next]_vars
  PROVE  Sending'
<1>1. SendTypeOK /\ RecvTypeOK /\ SendInv /\ RecvInv /\ LifeInv
  BY DEF TypeOK, SocketInv
<1>2. CASE UNCHANGED <<sendOlp, sendIo>> /\ (Live' => Live)
  BY <1>2 DEF Sending
<1>3. CASE Connect \/ Close
  BY <1>3 DEF Connect, Close, Sending, Live, Positive
<1>4. CASE Wait \/ Timeout \/ UNCHANGED vars
  BY <1>2, <1>4 DEF Wait, Timeout, vars, sock, sendVar, Live
<1>5. ASSUME NEW len \in 1..(MaxOut - sent), Send(len) PROVE Sending'
  <2>1. open /\ UNCHANGED open /\ sendOlp.opp # "CONNECT"
    BY <1>5 DEF Send, Calls, Untouched
  <2>2. CASE UNCHANGED <<status, sendOlp, sendIo>>
    BY <1>2, <2>1, <2>2 DEF Live
  <2>3. ASSUME NEW o \in SendOlps, NEW b \in [1..SEND_BUF_LEN -> Nat], NEW pr \in PostResults,
               o.opp = sendOlp.opp, o.ipos <= o.upos, PostSend(o, b, sendIo, pr), BreakUnlessFine(pr)
        PROVE  Sending'
    <3> SUFFICES ASSUME Live' PROVE Sending'
      BY DEF Sending
    <3>1. Live /\ pr # "FAILED"
      BY <2>1, <2>3 DEF BreakUnlessFine, Break, Fine, Live, Positive
    <3>2. o.opp = "SEND" => sendIo.st # "idle"
      BY <2>3, <3>1 DEF Sending
    <3> QED BY <1>1, <2>1, <2>3, <3>1, <3>2, PostSendUsable DEF Sending, SendTypeOK
  <2> QED BY <1>1, <1>5, <2>2, <2>3, SendPosts
<1>6. ASSUME NEW len \in 1..RECV_BUF_LEN, Recv(len) PROVE Sending'
  <2>1. UNCHANGED <<sendVar, open>>
    BY <1>6 DEF Recv
  <2>2. status' = status \/ status' = "BROKEN"
    BY <1>1, <1>6, RecvPosts DEF Break
  <2> QED BY <1>2, <2>1, <2>2 DEF Live, Positive, sendVar
<1>7. ASSUME NEW how \in Hows, Shutdown(how) PROVE Sending'
  BY <1>2, <1>7 DEF Shutdown, sendVar, Live
<1>8. ASSUME NEW mask \in CtlMasks, Ctl(mask) PROVE Sending'
  <2>1. UNCHANGED <<sendVar, open>> /\ (status' = status \/ status' = "BROKEN")
    BY <1>8 DEF Ctl, BreakUnlessFine, Break
  <2> QED BY <1>2, <2>1 DEF Live, Positive, sendVar
<1>9. CASE OnConnect
  BY <1>1, <1>9 DEF OnConnect, Untouched, Sending, Taken, SendTypeOK, SendOlps
<1>10. CASE OnSend
  <2>1. open /\ UNCHANGED open
    BY <1>10 DEF OnSend
  <2>2. CASE sendOlp' = Taken(sendOlp) /\ status' \in Negative
    BY <2>2 DEF Sending, Live, Negative, Positive
  <2>3. ASSUME NEW o \in SendOlps, NEW pr \in PostResults,
               o.opp = "NONE", o.ipos <= o.upos, PostSend(o, sendBuf, Idle, pr),
               (pr = "ESHUTDOWN" /\ status' = status) \/ BreakUnlessFine(pr)
        PROVE  Sending'
    <3> SUFFICES ASSUME Live' PROVE Sending'
      BY DEF Sending
    <3>1. pr # "FAILED"
      BY <2>3 DEF BreakUnlessFine, Break, Fine, Live, Positive
    <3> QED BY <1>1, <2>3, <3>1, PostSendUsable, IoStates DEF Sending, SendTypeOK
  <2> QED BY <1>1, <1>10, <2>2, <2>3, OnSendPosts
<1>11. CASE OnRecv
  <2>1. UNCHANGED <<sendVar, open>> /\ status' \in {status, "PEERCLOSED", "BROKEN"}
    BY <1>11 DEF OnRecv, Break
  <2> QED BY <1>2, <2>1 DEF Live, Positive, sendVar
<1>12. CASE OnClosed
  BY <1>12 DEF OnClosed, sock, Sending, Live
<1>13. CASE KernelSend
  <2>1. UNCHANGED <<sock, sendOlp>> /\ sendIo.st = "flight" /\ sendIo'.st = "done"
    BY <1>13, IoStates DEF KernelSend, KConnect, KSend, KAbortSend, Done
  <2> QED BY <2>1 DEF Sending, Live, sock
<1>14. CASE KernelRecv \/ \E how \in PeerEnds : PeerEnd(how)
  <2>1. UNCHANGED <<sock, sendVar>>
    BY <1>14 DEF KernelRecv, PeerEnd, KRecv, KRecvFin, KAbortRecv
  <2> QED BY <1>2, <2>1 DEF Live, sock, sendVar
<1> QED BY <1>3, <1>4, <1>5, <1>6, <1>7, <1>8, <1>9, <1>10, <1>11, <1>12, <1>13, <1>14
        DEF Next, Application, Update

\* On a usable socket an emptied buffer has its read.
LEMMA ReadingStep ==
  ASSUME Header, ConnectsOnce, TypeOK, SocketInv, Untouched, Reading, [Next]_vars
  PROVE  Reading'
<1>1. SendTypeOK /\ RecvTypeOK /\ SendInv /\ RecvInv /\ LifeInv /\ recvOlp \in RecvOlps
  BY DEF TypeOK, SocketInv, RecvTypeOK
<1>2. CASE UNCHANGED <<recvOlp, recvIo>> /\ (Live' => Live)
  BY <1>2 DEF Reading
<1>3. CASE Connect \/ Close
  BY <1>3 DEF Connect, Close, Reading, Live, Positive
<1>4. CASE Wait \/ Timeout \/ UNCHANGED vars
  BY <1>2, <1>4 DEF Wait, Timeout, vars, sock, recvVar, Live
<1>5. ASSUME NEW len \in 1..(MaxOut - sent), Send(len) PROVE Reading'
  <2>1. UNCHANGED <<recvVar, open>>
    BY <1>5 DEF Send
  <2>2. status' = status \/ status' = "BROKEN"
    BY <1>1, <1>5, SendPosts DEF BreakUnlessFine, Break
  <2> QED BY <1>2, <2>1, <2>2 DEF Live, Positive, recvVar
<1>6. ASSUME NEW len \in 1..RECV_BUF_LEN, Recv(len) PROVE Reading'
  <2> SUFFICES ASSUME Live' PROVE Reading'
    BY DEF Reading
  <2>1. UNCHANGED open
    BY <1>6 DEF Recv
  <2>2. CASE UNCHANGED <<status, recvOlp, recvIo>>
    BY <1>2, <2>1, <2>2 DEF Live
  <2>3. CASE UNCHANGED <<status, recvIo>> /\ recvOlp'.opp = recvOlp.opp /\ recvOlp'.upos # recvOlp'.ipos
    BY <2>1, <2>3 DEF Reading, Live
  <2>4. ASSUME NEW o \in RecvOlps, NEW pr \in PostResults,
               o.opp = recvOlp.opp, o.ipos = o.upos, PostRecv(o, pr),
               IF Fine(pr) THEN status' = status ELSE Break(pr)
        PROVE  Reading'
    <3>1. Fine(pr) /\ Live
      BY <2>1, <2>4 DEF Break, Live, Positive
    <3>2. o.opp = "RECV" => recvIo.st # "idle"
      BY <2>4, <3>1 DEF Reading
    <3>3. o.upos <= o.ipos
      BY <2>4, RecvLength DEF RecvOlps
    <3> QED BY <2>4, <3>1, <3>2, <3>3, PostRecvUsable DEF Reading
  <2> QED BY <1>1, <1>6, <2>2, <2>3, <2>4, RecvPosts
<1>7. ASSUME NEW how \in Hows, Shutdown(how) PROVE Reading'
  BY <1>2, <1>7 DEF Shutdown, recvVar, Live
<1>8. ASSUME NEW mask \in CtlMasks, Ctl(mask) PROVE Reading'
  <2> SUFFICES ASSUME Live' PROVE Reading'
    BY DEF Reading
  <2>1. UNCHANGED open
    BY <1>8 DEF Ctl
  <2>2. CASE UNCHANGED <<status, recvOlp, recvIo>>
    BY <1>2, <2>1, <2>2 DEF Live
  <2>3. ASSUME NEW pr \in PostResults, PostRecv(recvOlp, pr), BreakUnlessFine(pr) PROVE Reading'
    <3>1. Fine(pr) /\ Live
      BY <2>1, <2>3 DEF BreakUnlessFine, Break, Live, Positive
    <3>2. recvOlp.upos <= recvOlp.ipos /\ (recvOlp.opp = "RECV" => recvIo.st # "idle")
      BY <1>1, <3>1 DEF RecvInv, Reading
    <3> QED BY <1>1, <2>3, <3>1, <3>2, PostRecvUsable, PostRecvKeeps DEF Reading
  <2> QED BY <1>8, <2>2, <2>3, Zenon DEF Ctl
<1>9. CASE OnConnect
  BY <1>1, <1>9 DEF OnConnect, recvVar, Untouched, Reading
<1>10. CASE OnSend
  <2>1. UNCHANGED <<recvVar, open>> /\ status' \in {status, "PEERCLOSED", "BROKEN"}
    BY <1>10 DEF OnSend, BreakUnlessFine, Break
  <2> QED BY <1>2, <2>1 DEF Live, Positive, recvVar
<1>11. CASE OnRecv
  <2>1. CASE status' \in Negative
    BY <2>1 DEF Reading, Live, Negative, Positive
  <2>2. CASE recvIo.ok /\ recvIo.n > 0
    <3>1. recvOlp.opp = "RECV" /\ recvOlp.ipos = 0 /\ recvOlp.upos = 0 /\ recvIo.n \in Nat
      BY <1>1, <1>11 DEF OnRecv, RecvInv, RecvTypeOK, IoState
    <3>2. recvOlp' = [Taken(recvOlp) EXCEPT !.ipos = @ + recvIo.n, !.et = @ /\ "ET" \notin evMask]
      BY <2>2, <1>11 DEF OnRecv
    <3>3. recvOlp'.opp = "NONE" /\ recvOlp'.ipos = recvIo.n /\ recvOlp'.upos = 0
      BY <3>1, <3>2 DEF Taken, RecvTypeOK, RecvOlps
    <3> QED BY <2>2, <3>1, <3>3 DEF Reading
  <2> QED BY <1>11, <2>1, <2>2 DEF OnRecv, Break, Negative
<1>12. CASE OnClosed
  BY <1>12 DEF OnClosed, sock, Reading, Live
<1>13. CASE KernelRecv
  <2>1. UNCHANGED <<sock, recvOlp>> /\ recvIo.st = "flight" /\ recvIo'.st = "done"
    BY <1>13, IoStates DEF KernelRecv, KRecv, KRecvFin, KAbortRecv, Done
  <2> QED BY <2>1 DEF Reading, Live, sock
<1>14. CASE KernelSend \/ \E how \in PeerEnds : PeerEnd(how)
  <2>1. UNCHANGED <<sock, recvVar>>
    BY <1>14 DEF KernelSend, PeerEnd, KConnect, KSend, KAbortSend
  <2> QED BY <1>2, <2>1 DEF Live, sock, recvVar
<1> QED BY <1>3, <1>4, <1>5, <1>6, <1>7, <1>8, <1>9, <1>10, <1>11, <1>12, <1>13, <1>14
        DEF Next, Application, Update

\* Once recv() was called, a read is only under way with the edge armed.
LEMMA EdgeStep ==
  ASSUME TypeOK, SocketInv, Untouched, EdgeArmed, [Next]_vars
  PROVE  EdgeArmed'
<1>1. RecvTypeOK /\ RecvInv /\ recvOlp \in RecvOlps /\ recvOlp.upos <= recvOlp.ipos
  BY DEF TypeOK, SocketInv, RecvTypeOK, RecvInv
<1>2. ASSUME NEW len \in 1..RECV_BUF_LEN, Recv(len) PROVE EdgeArmed'
  <2>1. ASSUME NEW o \in RecvOlps, NEW pr \in PostResults, o.et, o.ipos = o.upos, PostRecv(o, pr)
        PROVE  EdgeArmed'
    <3>1. o.upos <= o.ipos
      BY <2>1, RecvLength DEF RecvOlps
    <3> QED BY <2>1, <3>1, PostRecvKeeps DEF EdgeArmed
  <2> QED BY <1>1, <1>2, <2>1, RecvPosts DEF EdgeArmed
<1>3. ASSUME NEW mask \in CtlMasks, Ctl(mask) PROVE EdgeArmed'
  <2>1. \/ UNCHANGED recvOlp
        \/ \E pr \in PostResults : PostRecv(recvOlp, pr)
    BY <1>3, Zenon DEF Ctl
  <2>2. got' = got
    BY <1>3 DEF Ctl
  <2> QED BY <1>1, <2>1, <2>2, PostRecvKeeps DEF EdgeArmed
<1>4. CASE OnRecv
  <2>1. recvOlp.opp = "RECV" /\ recvOlp.ipos = 0 /\ recvOlp.upos = 0 /\ got' = got /\ recvIo.n \in Nat
    BY <1>1, <1>4 DEF OnRecv, RecvInv, RecvTypeOK, IoState
  <2>2. CASE recvOlp' = Taken(recvOlp)
    BY <1>1, <2>1, <2>2 DEF EdgeArmed, Taken, RecvOlps
  <2>3. CASE recvIo.n > 0 /\ recvOlp' = [Taken(recvOlp) EXCEPT !.ipos = @ + recvIo.n,
                                                               !.et = @ /\ "ET" \notin evMask]
    <3>1. recvOlp'.ipos = recvIo.n /\ recvOlp'.upos = 0
      BY <1>1, <2>1, <2>3 DEF Taken, RecvOlps
    <3> QED BY <2>1, <2>3, <3>1 DEF EdgeArmed
  <2> QED BY <1>4, <2>2, <2>3 DEF OnRecv
<1>5. CASE OnClosed
  <2>1. got' = got /\ (recvOlp' = recvOlp \/ recvOlp' = Taken(recvOlp))
    BY <1>5 DEF OnClosed
  <2> QED BY <1>1, <2>1 DEF EdgeArmed, Taken, RecvOlps
<1>6. CASE UNCHANGED <<recvOlp, got>>
  BY <1>6 DEF EdgeArmed
<1>7. CASE Timeout \/ OnConnect \/ OnSend \/ UNCHANGED vars
  BY <1>6, <1>7 DEF Timeout, OnConnect, OnSend, vars, recvVar
<1>8. CASE Application
  <2>1. UNCHANGED recvVar \/ (\E len \in 1..RECV_BUF_LEN : Recv(len)) \/ \E mask \in CtlMasks : Ctl(mask)
    BY <1>8 DEF Application, Connect, Close, Wait, Send, Shutdown
  <2> QED BY <1>2, <1>3, <1>6, <2>1 DEF recvVar
<1>9. CASE KernelSend \/ KernelRecv \/ \E how \in PeerEnds : PeerEnd(how)
  BY <1>6, <1>9 DEF KernelSend, KernelRecv, PeerEnd, KConnect, KSend, KAbortSend, KRecv, KRecvFin,
                    KAbortRecv, recvVar
<1> QED BY <1>4, <1>5, <1>7, <1>8, <1>9 DEF Next, Update

\* Unread bytes the application wants are reported to it, if it empties the buffer.
LEMMA ToldStep ==
  ASSUME Header, ConnectsOnce, "drain" \in AppRules, NeverReopened,
         TypeOK, SocketInv, Untouched, ReportInv, [Next]_vars
  PROVE  Told'
<1>1. RecvTypeOK /\ RecvInv /\ recvOlp \in RecvOlps /\ recvOlp.upos <= recvOlp.ipos
  BY DEF TypeOK, SocketInv, RecvTypeOK, RecvInv
<1>2. EdgeArmed /\ Noted /\ Told
  BY DEF ReportInv
<1>3. ASSUME UNCHANGED <<recvOlp, got, listed, ev, pc, evMask, shutdownFlag>>, Live' => Live
      PROVE  Told'
  BY <1>2, <1>3 DEF Told, Wanted, RecvShut
<1>4. CASE Connect \/ Close
  BY <1>4 DEF Connect, Close, Told, Live, Positive
<1>5. CASE UNCHANGED vars
  BY <1>3, <1>5 DEF vars, sock, recvVar, waitVar, Live
<1>6. ASSUME NEW len \in 1..(MaxOut - sent), Send(len) PROVE Told'
  <2>1. UNCHANGED <<recvVar, waitVar, shutdownFlag, open>>
    BY <1>6 DEF Send
  <2>2. status' = status \/ status' = "BROKEN"
    BY <1>6, SendPosts DEF BreakUnlessFine, Break, TypeOK, SocketInv
  <2> QED BY <1>3, <2>1, <2>2 DEF recvVar, waitVar, Live, Positive
<1>7. ASSUME NEW len \in 1..RECV_BUF_LEN, Recv(len) PROVE Told'
  <2>1. pc = "user" /\ UNCHANGED <<waitVar, shutdownFlag, open>>
    BY <1>7 DEF Recv, Calls
  <2>2. CASE RecvShut
    BY <2>1, <2>2 DEF Told, Wanted, RecvShut
  <2>3. CASE recvOlp'.upos > 0
    BY <2>1, <2>3 DEF Told, waitVar
  <2>4. ASSUME NEW o \in RecvOlps, NEW pr \in PostResults, o.ipos = o.upos, PostRecv(o, pr)
        PROVE  Told'
    <3>1. o.upos <= o.ipos
      BY <2>4, RecvLength DEF RecvOlps
    <3> QED BY <2>4, <3>1, PostRecvKeeps DEF Told
  <2> QED BY <1>1, <1>7, <2>2, <2>3, <2>4, RecvPosts
<1>8. ASSUME NEW how \in Hows, Shutdown(how) PROVE Told'
  <2>1. /\ status \in Positive /\ shutdownFlag' = how
        /\ UNCHANGED <<recvOlp, got, listed, ev, pc, evMask, open>>
    BY <1>8 DEF Shutdown, recvVar, waitVar
  <2>2. RecvShut => RecvShut'
    <3>1. CASE how = "send"
      <4>1. Hows \subseteq {"send"}
        BY <3>1 DEF NeverReopened
      <4> QED BY <1>2, <4>1 DEF RecvShut, Noted
    <3>2. CASE how # "send"
      BY <2>1, <3>2, SocketAssumption DEF RecvShut, SocketAssumption
    <3> QED BY <3>1, <3>2
  <2> QED BY <1>2, <2>1, <2>2 DEF Told, Wanted, Live
<1>9. ASSUME NEW mask \in CtlMasks, Ctl(mask) PROVE Told'
  BY <1>9 DEF Ctl, Calls, Told
<1>10. CASE Wait
  <2>1. /\ UNCHANGED <<open, status, shutdownFlag, recvOlp, got>>
        /\ "IN" \in ev \/ recvOlp.upos > 0 => RecvShut \/ recvOlp.ipos - recvOlp.upos = 0
        /\ IF listed THEN MaskEvent(Detected) ELSE ev' = {} /\ UNCHANGED evMask
        /\ pc' = IF ev' # {} THEN "user" ELSE "wait"
    BY <1>10 DEF Wait, sock, recvVar, Unread
  <2> SUFFICES ASSUME Live', Wanted', recvOlp'.upos # recvOlp'.ipos
               PROVE  pc' = "user" /\ "IN" \in ev'
    BY DEF Told
  <2>2. Live /\ ~RecvShut /\ recvOlp.upos # recvOlp.ipos /\ "IN" \in evMask'
    BY <2>1 DEF Live, Wanted, RecvShut
  <2>3. recvOlp.ipos - recvOlp.upos > 0
    BY <1>1, <2>2, RecvLength DEF RecvOlps
  <2>4. CASE listed
    <3>1. "IN" \in Detected
      BY <2>2, <2>3 DEF Detected, Live, Positive, Negative, Unread
    <3>2. ev' = Detected \cap evMask /\ "IN" \in evMask
      BY <2>1, <2>2, <2>4 DEF MaskEvent
    <3> QED BY <2>1, <3>1, <3>2
  <2>5. CASE ~listed
    <3>1. evMask' = evMask
      BY <2>1, <2>5
    <3>2. Wanted
      BY <2>1, <3>1 DEF Wanted, RecvShut
    <3>3. "IN" \in ev \/ recvOlp.upos > 0
      BY <1>2, <2>2, <2>5, <3>2 DEF Told
    <3> QED BY <2>1, <2>2, <2>3, <3>3
  <2> QED BY <2>4, <2>5
<1>11. CASE pc = "wait" /\ UNCHANGED <<recvOlp, got, shutdownFlag>> /\ (Live' => Live)
            /\ evMask' \in {evMask, {}}
  BY <1>2, <1>11 DEF Told, Wanted, RecvShut
<1>12. CASE Timeout
  BY <1>11, <1>12 DEF Timeout, sock, recvVar, Live
<1>13. CASE OnConnect
  <2>1. status = "DISCONNECT" /\ recvOlp' = recvOlp
    BY <1>13 DEF OnConnect, Untouched, recvVar
  <2> QED BY <2>1 DEF Untouched, Told
<1>14. CASE OnSend
  <2>1. /\ pc = "wait" /\ UNCHANGED <<recvVar, shutdownFlag, open>>
        /\ status' \in {status, "PEERCLOSED", "BROKEN"} /\ evMask' \in {evMask, {}}
    BY <1>14 DEF OnSend, BreakUnlessFine, Break, Resume, MaskEvent
  <2> QED BY <1>11, <2>1 DEF Live, Positive, recvVar
<1>15. CASE OnRecv
  <2>1. CASE status' \in Negative
    BY <2>1 DEF Told, Live, Negative, Positive
  <2>2. CASE recvIo.ok /\ recvIo.n > 0
    <3>1. /\ recvOlp.opp = "RECV" /\ recvOlp.ipos = 0 /\ recvOlp.upos = 0
          /\ UNCHANGED got
      BY <1>1, <1>15 DEF OnRecv, RecvInv
    <3>2. Resume(IF "ET" \notin evMask \/ recvOlp.et THEN {"IN"} ELSE {})
      BY <1>15, <2>2 DEF OnRecv
    <3> SUFFICES ASSUME Wanted' PROVE pc' = "user" /\ "IN" \in ev'
      BY DEF Told
    <3>3. evMask' = evMask /\ "IN" \in evMask
      BY <3>2 DEF Wanted, Resume, MaskEvent
    <3>4. "ET" \notin evMask \/ recvOlp.et
      BY <1>2, <3>1, <3>3 DEF Wanted, EdgeArmed
    <3> QED BY <3>2, <3>3, <3>4 DEF Resume, MaskEvent
  <2> QED BY <1>15, <2>1, <2>2 DEF OnRecv, Break, Negative
<1>16. CASE OnClosed
  BY <1>16 DEF OnClosed, sock, Told, Live
<1>17. CASE KernelSend \/ KernelRecv \/ \E how \in PeerEnds : PeerEnd(how)
  <2>1. UNCHANGED <<sock, recvOlp, got, waitVar>>
    BY <1>17 DEF KernelSend, KernelRecv, PeerEnd, KConnect, KSend, KAbortSend, KRecv, KRecvFin,
                 KAbortRecv, recvVar
  <2> QED BY <1>3, <2>1 DEF sock, waitVar, Live
<1> QED BY <1>4, <1>5, <1>6, <1>7, <1>8, <1>9, <1>10, <1>12, <1>13, <1>14, <1>15, <1>16, <1>17
        DEF Next, Application, Update

\* The shutdown flag comes from shutdown() alone.
LEMMA NotedStep ==
  ASSUME Noted, [Next]_vars
  PROVE  Noted'
<1>1. (\E how \in Hows : Shutdown(how)) \/ UNCHANGED shutdownFlag
  BY DEF Next, Application, Update, Connect, Close, Wait, Send, Recv, Ctl, OnConnect, OnSend, OnRecv,
         OnClosed, Timeout, KernelSend, KernelRecv, KConnect, KSend, KAbortSend, KRecv, KRecvFin,
         KAbortRecv, PeerEnd, vars, sock
<1> QED BY <1>1 DEF Noted, Shutdown

-----------------------------------------------------------------------------
(* The theorems.                                                            *)

\* For an application that connects once and keeps to the header, UsableInv holds throughout.
LEMMA Usable == Header /\ ConnectsOnce => (Spec => [](TypeOK /\ SocketInv /\ UsableInv))
<1> SUFFICES ASSUME Header, ConnectsOnce PROVE Spec => [](TypeOK /\ SocketInv /\ UsableInv)
  OBVIOUS
<1>1. Init => UsableInv
  BY IoStates DEF Init, UsableInv, Untouched, Sending, Reading
<1>2. TypeOK /\ SocketInv /\ UsableInv /\ [Next]_vars => UsableInv'
  BY UntouchedStep, SendingStep, ReadingStep DEF UsableInv
<1> QED BY <1>1, <1>2, Inductive, PTL DEF Spec

\* For one that also empties the buffer, ReportInv does.
LEMMA Reporting ==
  Header /\ ConnectsOnce /\ "drain" \in AppRules /\ NeverReopened => (Spec => [](UsableInv /\ ReportInv))
<1> SUFFICES ASSUME Header, ConnectsOnce, "drain" \in AppRules, NeverReopened
             PROVE  Spec => [](UsableInv /\ ReportInv)
  OBVIOUS
<1>1. Init => ReportInv
  BY DEF Init, ReportInv, EdgeArmed, Noted, Told
<1>2. TypeOK /\ SocketInv /\ UsableInv /\ ReportInv /\ [Next]_vars => ReportInv'
  BY EdgeStep, NotedStep, ToldStep DEF UsableInv, ReportInv
<1>3. Spec => [](TypeOK /\ SocketInv /\ UsableInv)
  BY Usable
<1> QED BY <1>1, <1>2, <1>3, PTL DEF Spec

\* No call and no completion revives a socket with a negative status.
LEMMA NegativeStep ==
  ASSUME Header, ConnectsOnce, TypeOK, SocketInv, Untouched, [Next]_vars, status \in Negative
  PROVE  status' \in Negative
<1>1. CASE Connect \/ Close \/ Wait \/ \E how \in Hows : Shutdown(how)
  BY <1>1 DEF Connect, Close, Wait, Shutdown, sock, Negative, Positive
<1>2. ASSUME NEW len \in 1..(MaxOut - sent), Send(len) PROVE status' \in Negative
  BY <1>2, SendPosts DEF TypeOK, SocketInv, BreakUnlessFine, Break, Negative
<1>3. ASSUME NEW len \in 1..RECV_BUF_LEN, Recv(len) PROVE status' \in Negative
  BY <1>3, RecvPosts DEF TypeOK, SocketInv, Break, Negative
<1>4. ASSUME NEW mask \in CtlMasks, Ctl(mask) PROVE status' \in Negative
  BY <1>4 DEF Ctl, BreakUnlessFine, Break, Negative
<1>5. CASE OnConnect
  BY <1>5 DEF OnConnect, Untouched, Negative
<1>6. CASE OnSend
  BY <1>6, OnSendPosts DEF TypeOK, SocketInv, BreakUnlessFine, Break, Negative
<1>7. CASE OnRecv \/ OnClosed \/ Timeout
  BY <1>7 DEF OnRecv, OnClosed, Timeout, Break, sock, Negative
<1>8. CASE KernelSend \/ KernelRecv \/ \E how \in PeerEnds : PeerEnd(how)
  BY <1>8 DEF KernelSend, KernelRecv, PeerEnd, KConnect, KSend, KAbortSend, KRecv, KRecvFin,
              KAbortRecv, sock
<1>9. CASE UNCHANGED vars
  BY <1>9 DEF vars, sock
<1> QED BY <1>1, <1>2, <1>3, <1>4, <1>5, <1>6, <1>7, <1>8, <1>9 DEF Next, Application, Update

\* A status < 0 is final, whatever completes after it, if connect() and shutdown() are only
\* called where the header allows them.
THEOREM NegativeFinal == Header /\ ConnectsOnce => (Spec => NegativeIsFinal)
<1> SUFFICES ASSUME Header, ConnectsOnce PROVE Spec => NegativeIsFinal
  OBVIOUS
<1> DEFINE Stays == status \in Negative => status' \in Negative
<1>1. TypeOK /\ SocketInv /\ UsableInv /\ [Next]_vars => [Stays]_vars
  BY NegativeStep DEF UsableInv
<1>2. Spec => [](TypeOK /\ SocketInv /\ UsableInv)
  BY Usable
<1> QED BY <1>1, <1>2, PTL DEF Spec, NegativeIsFinal

\* Bytes send() accepted never lie in the buffer of a usable socket without a WSASend.
THEOREM NothingStranded == Header /\ ConnectsOnce => (Spec => []NeverStranded)
<1> SUFFICES ASSUME Header, ConnectsOnce PROVE Spec => []NeverStranded
  OBVIOUS
<1>1. UsableInv => NeverStranded
  BY DEF UsableInv, Sending, Live, NeverStranded
<1> QED BY <1>1, Usable, PTL

\* A usable socket whose buffer the application has emptied has a WSARecv under way.
THEOREM EmptiedReads == Header /\ ConnectsOnce => (Spec => []EmptiedIsReading)
<1> SUFFICES ASSUME Header, ConnectsOnce PROVE Spec => []EmptiedIsReading
  OBVIOUS
<1>1. UsableInv => EmptiedIsReading
  BY DEF UsableInv, Reading, Live, EmptiedIsReading
<1> QED BY <1>1, Usable, PTL

\* An application that empties the buffer whenever it is told, or has begun to, is never
\* left in wait() with bytes it asked for, provided it does not open the receiving side
\* again with a second shutdown().
THEOREM UnreadReported ==
  Header /\ ConnectsOnce /\ "drain" \in AppRules /\ NeverReopened => (Spec => []UnreadIsReported)
<1> SUFFICES ASSUME Header, ConnectsOnce, "drain" \in AppRules, NeverReopened PROVE Spec => []UnreadIsReported
  OBVIOUS
<1>1. ReportInv => UnreadIsReported
  BY DEF ReportInv, Told, Wanted, Live, UnreadIsReported
<1>2. Spec => [](UsableInv /\ ReportInv)
  BY Reporting
<1> QED BY <1>1, <1>2, PTL

=============================================================================
