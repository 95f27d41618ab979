------------------------- MODULE IoSocketImplProofs -------------------------
(***************************************************************************)
(* Proofs about IoSocketImpl, for every buffer size and every number of    *)
(* bytes: the types and the inductive invariant SocketInv hold, and with   *)
(* them the byte streams, the ownership of the buffers and the deletion of *)
(* the object are right; and a connection implements two bounded pipes of  *)
(* bytes (BytePipe).  What concerns the bytes sent is proved of an         *)
(* application that keeps the rule "connect", all the rest of every one.   *)
(***************************************************************************)
EXTENDS IoSocketImpl, SequenceTheorems, TLAPS

-----------------------------------------------------------------------------
(* The helpers.                                                             *)

\* memmove keeps the length of the buffer and shifts n bytes to its start.
LEMMA MovedShifts ==
  ASSUME NEW L \in Nat, NEW b \in [1..L -> Nat],
         NEW from \in Nat, NEW n \in Nat, from + n <= L
  PROVE  /\ Moved(b, from, n) \in [1..L -> Nat]
         /\ \A i \in 1..n : Moved(b, from, n)[i] = b[from + i]
BY DEF Moved

\* What SocketAssumption says of the lengths, in pieces the provers can carry.
LEMMA SendLength == SEND_BUF_LEN \in Nat /\ SEND_BUF_LEN > 0
BY SocketAssumption DEF SocketAssumption

\* The same of the receive buffer.
LEMMA RecvLength == RECV_BUF_LEN \in Nat /\ RECV_BUF_LEN > 0
BY SocketAssumption DEF SocketAssumption

\* The same of the bounds on the bytes.
LEMMA Bounds == MaxOut \in Nat /\ MaxIn \in Nat
BY SocketAssumption DEF SocketAssumption

\* postSend(): while an operation is outstanding nothing moves; otherwise the submitted
\* part is dropped and all the rest is submitted.
LEMMA PostSendShape ==
  ASSUME NEW o \in SendOlps, NEW b \in [1..SEND_BUF_LEN -> Nat], NEW io \in IoState,
         NEW pr, o.ipos <= o.upos, PostSend(o, b, io, pr)
  PROVE  /\ sendOlp' \in SendOlps
         /\ sendBuf' \in [1..SEND_BUF_LEN -> Nat]
         /\ sendIo' \in {io, Flight}
         /\ sendOlp'.et = o.et
         /\ \/ /\ o.opp # "NONE" /\ pr = "BUSY"
               /\ sendOlp' = o /\ sendBuf' = b /\ sendIo' = io
            \/ /\ o.opp = "NONE" /\ pr \in {"IDLE", "ESHUTDOWN", "POSTED", "FAILED"}
               /\ sendOlp'.upos = o.upos - o.ipos /\ sendOlp'.ipos = sendOlp'.upos
               /\ \A i \in 1..sendOlp'.upos : sendBuf'[i] = b[o.ipos + i]
               /\ \/ sendOlp'.upos = 0 /\ sendOlp'.opp = "NONE" /\ sendIo' = io
                     /\ pr \in {"IDLE", "ESHUTDOWN"}
                  \/ sendOlp'.upos > 0 /\ sendOlp'.opp = "SEND"
                     /\ pr \in {"POSTED", "FAILED"}
<1>1. CASE Outstanding(o)
  BY <1>1 DEF PostSend, Outstanding, SendOlps
<1>2. CASE ~Outstanding(o)
  <2> DEFINE left == o.upos - o.ipos
  <2>1. left \in Nat /\ o.ipos \in Nat /\ o.ipos + left <= SEND_BUF_LEN /\ left <= SEND_BUF_LEN
    BY SendLength DEF SendOlps
  <2>2. sendBuf' = Moved(b, o.ipos, left) /\ o.opp = "NONE"
    BY <1>2 DEF PostSend, Outstanding
  <2>3. /\ sendBuf' \in [1..SEND_BUF_LEN -> Nat]
        /\ \A i \in 1..left : sendBuf'[i] = b[o.ipos + i]
    <3> DEFINE from == o.ipos
    <3>1. from \in Nat /\ left \in Nat /\ from + left <= SEND_BUF_LEN
      BY <2>1
    <3>2. sendBuf' = Moved(b, from, left)
      BY <2>2
    <3> HIDE DEF left, from
    <3>3. /\ Moved(b, from, left) \in [1..SEND_BUF_LEN -> Nat]
          /\ \A i \in 1..left : Moved(b, from, left)[i] = b[from + i]
      BY <3>1, <3>2, SendLength, MovedShifts
    <3>4. /\ sendBuf' \in [1..SEND_BUF_LEN -> Nat]
          /\ \A i \in 1..left : sendBuf'[i] = b[from + i]
      BY <3>2, <3>3
    <3> QED BY <3>4, <2>1 DEF from
  <2>4. CASE left = 0
    <3>1. ~(left > 0)
      BY <2>4
    <3>2. sendOlp' = [o EXCEPT !.ipos = 0, !.upos = 0] /\ sendIo' = io /\ pr = NothingLeft
      BY <1>2, <3>1, Zenon DEF PostSend
    <3>3. sendOlp' = [opp |-> "NONE", ipos |-> 0, upos |-> 0, et |-> o.et]
      BY <2>2, <3>2, SendLength DEF SendOlps
    <3>5. sendOlp' \in SendOlps
      BY <3>3, <2>2, <3>2, SendLength DEF SendOlps
    <3>4. pr \in {"IDLE", "ESHUTDOWN"}
      BY <3>2 DEF NothingLeft
    <3> QED BY <2>2, <2>3, <2>4, <3>2, <3>3, <3>4, <3>5
  <2>5. CASE left > 0
    <3>1. left # 0
      BY <2>5
    <3>2. /\ sendOlp' = [o EXCEPT !.opp = "SEND", !.ipos = left, !.upos = left]
          /\ Issued(Linked, pr)
          /\ sendIo' = IF pr = "POSTED" THEN Flight ELSE io
      BY <1>2, <3>1, Zenon DEF PostSend
    <3>3. sendOlp' = [opp |-> "SEND", ipos |-> left, upos |-> left, et |-> o.et]
      BY <2>1, <3>2, SendLength DEF SendOlps
    <3>5. sendOlp' \in SendOlps
      BY <3>3, <2>1, <3>2, SendLength DEF SendOlps
    <3>4. sendIo' \in {io, Flight} /\ pr \in {"POSTED", "FAILED"}
      BY <3>2 DEF Issued
    <3> QED BY <2>2, <2>3, <2>5, <3>3, <3>4, <3>5
  <2> QED BY <2>1, <2>4, <2>5
<1> QED BY <1>1, <1>2

\* postRecv(): a read is only submitted on an empty buffer.
LEMMA PostRecvShape ==
  ASSUME RecvTypeOK, NEW o \in RecvOlps, NEW pr, o.upos <= o.ipos, PostRecv(o, pr)
  PROVE  /\ recvOlp' \in RecvOlps
         /\ recvBuf' \in [1..RECV_BUF_LEN -> Nat]
         /\ recvIo' \in {recvIo, Flight}
         /\ \/ recvOlp' = o /\ recvBuf' = recvBuf /\ recvIo' = recvIo
               /\ (pr = "ESHUTDOWN" \/ (pr = "BUSY" /\ o.opp # "NONE"))
            \/ /\ o.opp = "NONE" /\ pr \in {"IDLE", "POSTED", "FAILED"}
               /\ recvOlp'.upos = 0 /\ recvOlp'.ipos = o.ipos - o.upos
               /\ \A i \in 1..recvOlp'.ipos : recvBuf'[i] = recvBuf[o.upos + i]
               /\ \/ recvOlp'.opp = "NONE" /\ recvIo' = recvIo
                  \/ recvOlp'.opp = "RECV" /\ recvOlp'.ipos = 0
<1>1. CASE RecvShut \/ Outstanding(o)
  <2>1. /\ recvOlp' = o /\ recvBuf' = recvBuf /\ recvIo' = recvIo
        /\ pr = "ESHUTDOWN" \/ (pr = "BUSY" /\ Outstanding(o))
    BY <1>1, Zenon DEF PostRecv
  <2>2. recvBuf \in [1..RECV_BUF_LEN -> Nat]
    BY DEF RecvTypeOK
  <2>3. recvOlp' \in RecvOlps /\ recvBuf' \in [1..RECV_BUF_LEN -> Nat] /\ recvIo' \in {recvIo, Flight}
    BY <2>1, <2>2
  <2>4. pr = "ESHUTDOWN" \/ (pr = "BUSY" /\ o.opp # "NONE")
    BY <2>1 DEF Outstanding
  <2> QED BY <2>1, <2>3, <2>4
<1>2. CASE ~RecvShut /\ ~Outstanding(o)
  <2> DEFINE left == o.ipos - o.upos
  <2>1. left \in Nat /\ o.upos \in Nat /\ o.upos + left <= RECV_BUF_LEN /\ left <= RECV_BUF_LEN
    BY RecvLength DEF RecvOlps
  <2>2. recvBuf' = Moved(recvBuf, o.upos, left) /\ o.opp = "NONE"
    BY <1>2 DEF PostRecv, Outstanding
  <2>3. /\ recvBuf' \in [1..RECV_BUF_LEN -> Nat]
        /\ \A i \in 1..left : recvBuf'[i] = recvBuf[o.upos + i]
    <3> DEFINE from == o.upos
    <3>1. from \in Nat /\ left \in Nat /\ from + left <= RECV_BUF_LEN
      BY <2>1
    <3>2. recvBuf' = Moved(recvBuf, from, left) /\ recvBuf \in [1..RECV_BUF_LEN -> Nat]
      BY <2>2 DEF RecvTypeOK
    <3> HIDE DEF left, from
    <3>3. /\ Moved(recvBuf, from, left) \in [1..RECV_BUF_LEN -> Nat]
          /\ \A i \in 1..left : Moved(recvBuf, from, left)[i] = recvBuf[from + i]
      BY <3>1, <3>2, RecvLength, MovedShifts
    <3>4. /\ recvBuf' \in [1..RECV_BUF_LEN -> Nat]
          /\ \A i \in 1..left : recvBuf'[i] = recvBuf[from + i]
      BY <3>2, <3>3
    <3> QED BY <3>4, <2>1 DEF from
  <2>4. CASE Drained(left)
    <3>1. /\ recvOlp' = [o EXCEPT !.opp = "RECV", !.ipos = left, !.upos = 0]
          /\ Issued(Linked, pr)
          /\ recvIo' = IF pr = "POSTED" THEN Flight ELSE recvIo
      BY <1>2, <2>4, Zenon DEF PostRecv
    <3>2. left = 0
      BY <2>4 DEF Drained
    <3>3. recvOlp' = [opp |-> "RECV", ipos |-> left, upos |-> 0, et |-> o.et]
      BY <2>1, <3>1, RecvLength DEF RecvOlps
    <3>5. recvOlp' \in RecvOlps
      BY <3>3, <2>1, <3>1, RecvLength DEF RecvOlps
    <3>4. recvIo' \in {recvIo, Flight} /\ pr \in {"POSTED", "FAILED"}
      BY <3>1 DEF Issued
    <3> QED BY <2>2, <2>3, <3>2, <3>3, <3>4, <3>5
  <2>5. CASE ~Drained(left)
    <3>1. recvOlp' = [o EXCEPT !.ipos = left, !.upos = 0] /\ recvIo' = recvIo /\ pr = "IDLE"
      BY <1>2, <2>5, Zenon DEF PostRecv
    <3>2. recvOlp' = [opp |-> "NONE", ipos |-> left, upos |-> 0, et |-> o.et]
      BY <2>1, <2>2, <3>1, RecvLength DEF RecvOlps
    <3>3. recvOlp' \in RecvOlps
      BY <3>2, <2>1, <2>2, <3>1, RecvLength DEF RecvOlps
    <3> QED BY <2>2, <2>3, <3>1, <3>2, <3>3
  <2> QED BY <2>4, <2>5
<1> QED BY <1>1, <1>2

\* The states of an operation.
LEMMA IoStates ==
  /\ Idle \in IoState /\ Idle.st = "idle" /\ Idle.n = 0 /\ ~Idle.ok
  /\ Flight \in IoState /\ Flight.st = "flight" /\ Flight.n = 0 /\ ~Flight.ok
  /\ \A ok \in BOOLEAN, n \in Nat :
       /\ Done(ok, n) \in IoState /\ Done(ok, n).st = "done"
       /\ Done(ok, n).n = n /\ Done(ok, n).ok = ok
BY DEF Idle, Flight, Done, IoState

-----------------------------------------------------------------------------
(* The send half: SendTypeOK and SendInv.                                   *)

\* Steps that leave the send half alone; the handle may be closed and the peer may end.
LEMMA SendFrame ==
  ASSUME SendTypeOK, SendInv, UNCHANGED sendVar,
         open' => open, (peer = "reset") => (peer' = "reset")
  PROVE  SendTypeOK' /\ SendInv'
<1>1. UNCHANGED <<sendOlp, sendBuf, sendIo, wire, sent>>
  BY DEF sendVar
<1>2. SendTypeOK'
  BY <1>1 DEF SendTypeOK
<1>3. SendOrder => SendOrder'
  BY <1>1 DEF SendOrder, SendContent, WireInOrder
<1> QED BY <1>1, <1>2, <1>3 DEF SendInv, FullIsArmed

\* connect() moves nothing; called by the rule it starts an operation of no bytes on a free
\* structure.
LEMMA SendConnect ==
  ASSUME SendTypeOK, SendInv, LifeInv, Connect
  PROVE  SendTypeOK' /\ SendInv'
<1>1. /\ sendOlp' = (IF open THEN [sendOlp EXCEPT !.opp = "CONNECT"] ELSE sendOlp)
      /\ UNCHANGED <<sendBuf, wire, sent, open, peer>>
      /\ sendIo' = sendIo \/ (sendIo' = Flight /\ open /\ sendIo.st = "idle")
  BY DEF Connect, Issued, Unlinked
<1>2. /\ sendOlp'.ipos = sendOlp.ipos /\ sendOlp'.upos = sendOlp.upos /\ sendOlp'.et = sendOlp.et
      /\ sendOlp'.opp = (IF open THEN "CONNECT" ELSE sendOlp.opp)
      /\ sendOlp' \in SendOlps
  BY <1>1 DEF SendTypeOK, SendOlps
<1>3. SendTypeOK'
  BY <1>1, <1>2, IoStates DEF SendTypeOK
<1>4. sendIo' = sendIo \/ (sendIo'.st = "flight" /\ sendIo'.n = 0 /\ ~sendIo'.ok /\ open)
  BY <1>1, IoStates
<1>5. sendOlp.ipos \in Nat
  BY DEF SendTypeOK, SendOlps
<1>6. ConnectsOnce => SendOrder'
  <2> SUFFICES ASSUME ConnectsOnce PROVE SendOrder'
    OBVIOUS
  <2>1. /\ SendOrder /\ AttemptInv /\ sendIo.n = 0
        /\ status = "DISCONNECT" /\ sendIo.st = "idle"
    BY DEF SendInv, LifeInv, Connect
  <2>2. sendIo'.st # "done" /\ sendIo'.n = 0 /\ sendOlp.opp # "SEND"
    BY <1>4, <2>1 DEF AttemptInv
  <2>3. SendContent => SendContent'
    BY <1>1, <1>2, <2>1, <2>2 DEF SendContent
  <2> QED BY <1>1, <2>1, <2>2, <2>3 DEF SendOrder, WireInOrder
<1> QED BY <1>1, <1>2, <1>3, <1>4, <1>5, <1>6 DEF SendInv, FullIsArmed

\* send() writes behind the accepted bytes; postSend() submits them all or none.
LEMMA SendSend ==
  ASSUME SendTypeOK, SendInv, NEW len \in 1..(MaxOut - sent), Send(len)
  PROVE  SendTypeOK' /\ SendInv'
<1> DEFINE n == IF len > Room THEN Room ELSE len
           o == [sendOlp EXCEPT !.upos = @ + n, !.et = @ \/ Fills(n)]
           b == [i \in 1..SEND_BUF_LEN |->
                  IF i > sendOlp.upos /\ i <= sendOlp.upos + n
                  THEN sent + i - sendOlp.upos ELSE sendBuf[i]]
<1>1. UNCHANGED <<open, wire, peer>>
  BY DEF Send
<1>2. CASE SendShut \/ ~(n > 0)
  <2>1. UNCHANGED sendVar
    BY <1>1, <1>2, Zenon DEF Send, sendVar
  <2> QED BY <1>1, <2>1, SendFrame
<1>3. CASE ~SendShut /\ n > 0
  <2>1. n # 0
    BY <1>3
  <2>2. PICK pr \in PostResults : PostSend(o, b, sendIo, pr)
    BY <1>3, <2>1, Zenon DEF Send
  <2>3. sent' = sent + n
    BY <1>3, <2>1, Zenon DEF Send
  <2>4. /\ sendOlp.ipos \in Nat /\ sendOlp.upos \in Nat /\ sendOlp.ipos <= sendOlp.upos
        /\ n \in Nat /\ sendOlp.upos + n <= SEND_BUF_LEN
        /\ sent \in Nat /\ sent + n \in 0..MaxOut
    <3>1. /\ sendOlp.ipos \in Nat /\ sendOlp.upos \in Nat /\ sendOlp.upos <= SEND_BUF_LEN
          /\ sendOlp.ipos <= sendOlp.upos /\ sent \in Nat
      BY SendLength, Bounds DEF SendTypeOK, SendOlps, SendInv
    <3>2. sent <= MaxOut /\ len \in Nat /\ len <= MaxOut - sent /\ MaxOut \in Nat
      BY <3>1, Bounds DEF SendTypeOK
    <3>3. n \in Nat /\ n <= len /\ n <= SEND_BUF_LEN - sendOlp.upos
      BY <3>1, <3>2, SendLength DEF Room
    <3> HIDE DEF n
    <3>4. sendOlp.upos + n <= SEND_BUF_LEN
      BY ONLY <3>1, <3>3, SendLength
    <3>5. sent + n \in 0..MaxOut
      BY ONLY <3>1, <3>2, <3>3
    <3> QED BY ONLY <3>1, <3>3, <3>4, <3>5
  <2> DEFINE e == sendOlp.et \/ Fills(n)
             u == sendOlp.upos + n
  <2>5. o = [sendOlp EXCEPT !.upos = u, !.et = e] /\ e \in BOOLEAN /\ u \in 0..SEND_BUF_LEN
    BY <2>4, SendLength
  <2>6. e = (sendOlp.et \/ Fills(n))
    OBVIOUS
  <2> HIDE DEF e, o
  <2>7. o = [opp |-> sendOlp.opp, ipos |-> sendOlp.ipos, upos |-> u, et |-> e]
    BY <2>5 DEF SendTypeOK, SendOlps
  <2>8. o \in SendOlps
    BY <2>4, <2>5, <2>7 DEF SendTypeOK, SendOlps
  <2>9. b \in [1..SEND_BUF_LEN -> Nat]
    BY <2>4 DEF SendTypeOK
  <2>10. \A i \in 1..u :
          b[i] = IF i <= sendOlp.upos THEN sendBuf[i] ELSE sent + i - sendOlp.upos
    BY <2>4, SendLength
  <2> HIDE DEF b, n, u
  <2>11. sendIo \in IoState /\ o.ipos <= o.upos
    BY <2>4, <2>7 DEF SendTypeOK, u
  <2>12. CASE o.opp # "NONE"
    <3>1. sendOlp' = o /\ sendBuf' = b /\ sendIo' = sendIo
      BY <2>2, <2>8, <2>9, <2>11, <2>12, PostSendShape
    <3>2. SendTypeOK'
      BY <1>1, <2>3, <2>4, <2>8, <2>9, <2>11, <3>1 DEF SendTypeOK
    <3>3. SendContent => SendContent'
      <4> SUFFICES ASSUME SendContent PROVE SendContent'
        OBVIOUS
      <4>1. Len(wire) \in Nat /\ sendIo.n \in Nat
        BY DEF SendTypeOK, IoState
      <4>2. sent + n = Len(wire) + u - sendIo.n
        BY <2>4, <4>1 DEF SendContent, u
      <4>3. \A i \in 1..u : b[i] = Len(wire) - sendIo.n + i
        <5> SUFFICES ASSUME NEW i \in 1..u PROVE b[i] = Len(wire) - sendIo.n + i
          OBVIOUS
        <5>1. i \in Nat /\ sent = Len(wire) + sendOlp.upos - sendIo.n
          BY <2>4 DEF SendContent, u
        <5>2. CASE i <= sendOlp.upos
          BY <2>4, <2>10, <5>1, <5>2 DEF SendContent, u
        <5>3. CASE i > sendOlp.upos
          <6>1. b[i] = sent + i - sendOlp.upos /\ i \in Nat /\ sendOlp.upos \in Nat /\ sent \in Nat
            BY <2>4, <2>10, <5>1, <5>3
          <6>2. sent + i - sendOlp.upos = Len(wire) - sendIo.n + i
            BY ONLY <4>1, <5>1, <6>1
          <6> QED BY ONLY <6>1, <6>2
        <5> QED BY <2>4, <5>1, <5>2, <5>3
      <4> QED BY <1>1, <2>3, <2>7, <3>1, <4>2, <4>3 DEF SendContent
    <3>4. FullIsArmed'
      BY <2>4, <2>6, <2>7, <3>1 DEF FullIsArmed, u, Fills
    <3>5. WireInOrder => WireInOrder'
      BY <1>1, <2>3, <2>4 DEF WireInOrder, SendTypeOK
    <3>6. SendOrder => SendOrder'
      BY <1>1, <2>7, <3>1, <3>3, <3>5 DEF SendOrder
    <3> QED BY <1>1, <2>4, <2>7, <2>12, <3>1, <3>2, <3>4, <3>6 DEF SendInv, u
  <2>13. CASE o.opp = "NONE"
    <3>1. sendIo.st = "idle" /\ sendIo.n = 0 /\ sendIo \in IoState
      BY <2>7, <2>11, <2>13 DEF SendInv, IoState
    <3>2. /\ sendIo' \in IoState /\ sendIo'.st # "done" /\ sendIo'.n = 0 /\ ~sendIo'.ok
          /\ sendIo'.st # "idle" => sendOlp'.opp # "NONE"
      BY <2>2, <2>8, <2>9, <2>11, <2>13, <3>1, PostSendShape, IoStates DEF SendInv
    <3>3. /\ sendOlp' \in SendOlps /\ sendBuf' \in [1..SEND_BUF_LEN -> Nat]
          /\ sendOlp'.et = e
          /\ sendOlp'.upos = u - sendOlp.ipos /\ sendOlp'.ipos = sendOlp'.upos
          /\ \A i \in 1..sendOlp'.upos : sendBuf'[i] = b[sendOlp.ipos + i]
          /\ sendOlp'.opp # "SEND" => sendOlp'.upos = 0
      <4>1. o.ipos = sendOlp.ipos /\ o.upos = u /\ o.et = e
        BY <2>7
      <4>2. /\ sendOlp' \in SendOlps /\ sendBuf' \in [1..SEND_BUF_LEN -> Nat]
            /\ sendOlp'.et = o.et
            /\ sendOlp'.upos = o.upos - o.ipos /\ sendOlp'.ipos = sendOlp'.upos
            /\ \A i \in 1..sendOlp'.upos : sendBuf'[i] = b[o.ipos + i]
            /\ sendOlp'.opp # "SEND" => sendOlp'.upos = 0
        BY <2>2, <2>8, <2>9, <2>11, <2>13, PostSendShape
      <4> QED BY ONLY <4>1, <4>2
    <3>4. SendTypeOK'
      BY <1>1, <2>3, <2>4, <3>2, <3>3 DEF SendTypeOK
    <3>5. ASSUME ConnectsOnce, open, peer # "reset" PROVE SendContent'
      <4>1. /\ sendOlp.ipos = 0 /\ sent = Len(wire) + sendOlp.upos
            /\ Len(wire) \in Nat
            /\ \A i \in 1..sendOlp.upos : sendBuf[i] = Len(wire) + i
        <5>1. SendContent
          BY <3>5 DEF SendInv, SendOrder
        <5>2. sendOlp.opp # "SEND" /\ Len(wire) \in Nat
          BY <2>7, <2>13 DEF SendTypeOK
        <5> QED BY <2>4, <3>1, <5>1, <5>2 DEF SendContent
      <4>2. ASSUME NEW i \in 1..u PROVE b[i] = Len(wire) + i
        <5>1. i \in Nat /\ i > 0
          BY <2>4 DEF u
        <5>2. CASE i <= sendOlp.upos
          <6>1. b[i] = sendBuf[i] /\ i \in 1..sendOlp.upos
            BY <2>4, <2>10, <5>1, <5>2
          <6> QED BY <4>1, <6>1
        <5>3. CASE i > sendOlp.upos
          <6>1. b[i] = sent + i - sendOlp.upos
            BY <2>4, <2>10, <5>1, <5>3
          <6>2. sent + i - sendOlp.upos = Len(wire) + i
            BY ONLY <2>4, <4>1, <5>1
          <6> QED BY ONLY <6>1, <6>2
        <5> QED BY <2>4, <5>1, <5>2, <5>3
      <4>3. sendOlp'.upos = u /\ \A i \in 1..u : sendBuf'[i] = Len(wire) + i
        <5>1. sendOlp'.upos = u
          BY <2>4, <3>3, <4>1 DEF u
        <5>2. ASSUME NEW i \in 1..u PROVE sendBuf'[i] = Len(wire) + i
          <6>1. sendBuf'[i] = b[sendOlp.ipos + i] /\ i \in Nat
            BY <2>4, <3>3, <5>1 DEF u
          <6>2. sendOlp.ipos + i = i
            BY ONLY <4>1, <6>1
          <6> QED BY <4>2, <6>1, <6>2
        <5> QED BY <5>1, <5>2
      <4> QED BY <1>1, <2>3, <2>4, <3>2, <3>3, <4>1, <4>3 DEF SendContent, u
    <3>6. FullIsArmed'
      <4>1. sendOlp'.upos = SEND_BUF_LEN => Fills(n)
        BY <2>4, <3>3, SendLength DEF u, Fills
      <4> QED BY <2>6, <3>3, <4>1 DEF FullIsArmed
    <3>7. ConnectsOnce => WireInOrder'
      BY <1>1, <2>3, <2>4 DEF SendInv, SendOrder, WireInOrder, SendTypeOK
    <3>8. ConnectsOnce => SendOrder'
      BY <1>1, <3>2, <3>5, <3>7 DEF SendOrder
    <3> QED BY <1>1, <2>4, <3>2, <3>3, <3>4, <3>6, <3>8 DEF SendInv, SendTypeOK, SendOlps
  <2> QED BY <2>12, <2>13
<1> QED BY <1>2, <1>3

\* A packet is taken and its result ignored: nothing had been submitted, or the
\* connection is over.
LEMMA SendTaken ==
  ASSUME SendTypeOK, SendInv,
         sendIo' = Idle, sendOlp' = Taken(sendOlp), UNCHANGED <<sendBuf, wire, sent, open, peer>>,
         ConnectsOnce /\ open /\ peer # "reset" => sendOlp.opp # "SEND"
  PROVE  SendTypeOK' /\ SendInv'
<1>1. sendOlp' = [opp |-> "NONE", ipos |-> sendOlp.ipos, upos |-> sendOlp.upos, et |-> sendOlp.et]
  BY DEF Taken, SendTypeOK, SendOlps
<1>2. sendOlp' \in SendOlps
  BY <1>1 DEF SendTypeOK, SendOlps
<1>3. SendTypeOK'
  BY <1>2, IoStates DEF SendTypeOK
<1>4. ASSUME ConnectsOnce, open, peer # "reset" PROVE SendContent'
  <2>1. SendContent /\ sendOlp.ipos = 0 /\ sendIo.n = 0
    BY <1>4 DEF SendInv, SendOrder, SendContent, SendTypeOK, SendOlps, IoState
  <2> QED BY <1>1, <2>1, IoStates DEF SendContent
<1>5. ConnectsOnce => SendOrder'
  BY <1>4, IoStates DEF SendInv, SendOrder, WireInOrder
<1> QED BY <1>1, <1>3, <1>5, IoStates DEF SendInv, FullIsArmed, SendTypeOK, SendOlps

\* The kernel ends an operation that sent nothing.
LEMMA SendEnds ==
  ASSUME SendTypeOK, SendInv, NEW ok \in BOOLEAN,
         sendIo.st = "flight", sendIo' = Done(ok, 0), UNCHANGED <<sendOlp, sendBuf, wire, sent, open>>,
         ConnectsOnce /\ sendOlp.opp = "SEND" => ~open \/ peer = "reset",
         peer = "reset" => peer' = "reset"
  PROVE  SendTypeOK' /\ SendInv'
<1>1. sendIo' \in IoState /\ sendIo'.st = "done" /\ sendIo'.n = 0 /\ sendIo'.ok = ok
  BY IoStates
<1>2. SendTypeOK'
  BY <1>1 DEF SendTypeOK
<1>3. sendIo.n = 0 /\ sendOlp.opp # "NONE" /\ sendOlp.ipos \in Nat
  BY DEF SendInv, SendTypeOK, SendOlps
<1>4. ASSUME ConnectsOnce, open, peer' # "reset" PROVE SendContent'
  <2>1. SendContent
    BY <1>4 DEF SendInv, SendOrder
  <2> QED BY <1>1, <1>3, <2>1 DEF SendContent
<1>5. FullIsArmed'
  BY DEF SendInv, FullIsArmed
<1>6. ConnectsOnce => SendOrder'
  BY <1>1, <1>4 DEF SendInv, SendOrder, WireInOrder
<1> QED BY <1>1, <1>2, <1>3, <1>5, <1>6 DEF SendInv

\* The kernel sends the first n bytes of the submitted part.
LEMMA SendKernel ==
  ASSUME SendTypeOK, SendInv, LifeInv, NEW n \in 1..sendOlp.ipos, KSend(n)
  PROVE  SendTypeOK' /\ SendInv'
<1>1. /\ sendIo.st = "flight" /\ open /\ peer # "reset" /\ peer # "none"
      /\ UNCHANGED <<sendOlp, sendBuf, sent, open, peer>>
      /\ sendIo' = Done(TRUE, n) /\ wire' = wire \o SubSeq(sendBuf, 1, n)
  BY DEF KSend, sock
<1>2. /\ sendOlp.ipos \in Nat /\ sendOlp.upos \in Nat /\ sendOlp.ipos <= sendOlp.upos
      /\ sendOlp.upos <= SEND_BUF_LEN /\ n \in Nat /\ n > 0 /\ n <= sendOlp.ipos
  BY SendLength DEF SendTypeOK, SendOlps, SendInv
<1>3. /\ sendIo.n = 0 /\ sendOlp.opp # "NONE"
      /\ ConnectsOnce => SendContent /\ WireInOrder /\ sendOlp.opp = "SEND"
  BY <1>1 DEF SendInv, SendOrder, SendTypeOK, SendOlps, LifeInv, AttemptInv
<1>4. sendIo' \in IoState /\ sendIo'.st = "done" /\ sendIo'.n = n /\ sendIo'.ok
  BY <1>1, <1>2, IoStates
<1>5. /\ SubSeq(sendBuf, 1, n) \in Seq(Nat) /\ Len(SubSeq(sendBuf, 1, n)) = n
      /\ \A i \in 1..n : SubSeq(sendBuf, 1, n)[i] = sendBuf[i]
  <2>1. \A i \in 1..n : sendBuf[i] \in Nat
    BY <1>2, SendLength DEF SendTypeOK
  <2> QED BY <1>2, <2>1, SubSeqProperties
<1>6. /\ wire' \in Seq(Nat) /\ Len(wire') = Len(wire) + n /\ Len(wire) \in Nat
      /\ \A i \in 1..Len(wire') : wire'[i] = IF i <= Len(wire) THEN wire[i] ELSE sendBuf[i - Len(wire)]
  <2>1. wire \in Seq(Nat)
    BY DEF SendTypeOK
  <2> QED BY <1>1, <1>5, <2>1, ConcatProperties
<1>7. SendTypeOK'
  BY <1>1, <1>4, <1>6 DEF SendTypeOK
<1>8. ASSUME ConnectsOnce PROVE SendContent'
  <2>0. SendContent
    BY <1>3, <1>8
  <2>1. Len(wire') - sendIo'.n = Len(wire) - sendIo.n
    BY <1>2, <1>3, <1>4, <1>6
  <2>2. sent = Len(wire') + sendOlp.upos - sendIo'.n
    BY <1>2, <1>3, <1>4, <1>6, <2>0 DEF SendContent
  <2> QED BY <1>1, <1>3, <2>0, <2>1, <2>2 DEF SendContent
<1>9. ASSUME ConnectsOnce PROVE WireInOrder'
  <2>0. SendContent /\ WireInOrder
    BY <1>3, <1>9
  <2>1. Len(wire') <= sent /\ DOMAIN wire = 1..Len(wire) /\ DOMAIN wire' = 1..Len(wire')
    BY <1>2, <1>3, <1>6, <2>0, LenProperties DEF SendContent, SendTypeOK
  <2>2. ASSUME NEW i \in 1..Len(wire') PROVE wire'[i] = i
    <3>1. CASE i <= Len(wire)
      <4>1. i \in DOMAIN wire /\ wire'[i] = wire[i]
        BY <1>6, <2>1, <3>1
      <4> QED BY <2>0, <4>1 DEF WireInOrder
    <3>2. CASE i > Len(wire)
      <4> DEFINE j == i - Len(wire)
      <4>0. i \in Nat /\ i <= Len(wire) + n /\ Len(wire) \in Nat /\ wire'[i] = sendBuf[j]
        BY <1>2, <1>6, <3>2
      <4>1. j \in 1..sendOlp.upos /\ Len(wire) + j = i /\ wire'[i] = sendBuf[j]
        BY ONLY <1>2, <3>2, <4>0
      <4> HIDE DEF j
      <4>2. sendBuf[j] = Len(wire) - sendIo.n + j
        BY <2>0, <4>1 DEF SendContent
      <4> QED BY <1>2, <1>3, <1>6, <4>1, <4>2
    <3> QED BY <1>6, <3>1, <3>2
  <2> QED BY <1>1, <1>6, <2>1, <2>2 DEF WireInOrder
<1>10. FullIsArmed'
  BY <1>1 DEF SendInv, FullIsArmed
<1>11. sendOlp' = sendOlp
  BY <1>1
<1>12. /\ sendOlp'.ipos <= sendOlp'.upos /\ sendOlp'.opp # "NONE"
       /\ sendIo'.n <= sendOlp'.ipos /\ sendIo'.n # 0
  <2>1. sendIo'.n = n
    BY <1>4
  <2> QED BY <1>2, <1>3, <1>11, <2>1
<1>13. ConnectsOnce => SendOrder'
  BY <1>4, <1>8, <1>9, <1>12 DEF SendOrder
<1> QED BY <1>4, <1>7, <1>10, <1>12, <1>13 DEF SendInv

\* onSend() drops the bytes that went out and submits all the rest.
LEMMA SendDone ==
  ASSUME SendTypeOK, SendInv, OnSend
  PROVE  SendTypeOK' /\ SendInv'
<1> DEFINE o == [Taken(sendOlp) EXCEPT !.ipos = Transferred, !.et = @ /\ "ET" \notin evMask]
<1>1. /\ sendIo.st = "done" /\ sendOlp.opp = "SEND" /\ open
      /\ UNCHANGED <<wire, sent, open, peer>>
  BY DEF OnSend
<1>2. CASE ~sendIo.ok \/ sendIo.n = 0
  <2>1. ~(sendIo.ok /\ sendIo.n > 0)
    BY <1>2
  <2>2. sendOlp' = Taken(sendOlp) /\ sendIo' = Idle /\ sendBuf' = sendBuf
    BY <2>1, Zenon DEF OnSend
  <2>3. ConnectsOnce => peer = "reset"
    BY <1>1, <1>2 DEF SendInv, SendOrder
  <2> QED BY <1>1, <2>2, <2>3, SendTaken
<1>3. CASE sendIo.ok /\ sendIo.n > 0
  <2>1. ~(sendIo.n = 0)
    BY <1>3
  <2>2. PICK pr \in PostResults : PostSend(o, sendBuf, Idle, pr)
    BY <1>3, <2>1, Zenon DEF OnSend
  <2> DEFINE e == sendOlp.et /\ "ET" \notin evMask
             n == sendIo.n
  <2>3. o = [opp |-> "NONE", ipos |-> n, upos |-> sendOlp.upos, et |-> e] /\ e \in BOOLEAN
    <3>1. o = [[sendOlp EXCEPT !.opp = "NONE"] EXCEPT !.ipos = n, !.et = e] /\ e \in BOOLEAN
      BY DEF Taken, Transferred, SendTypeOK, SendOlps
    <3> HIDE DEF e, o, n
    <3> QED BY <3>1 DEF SendTypeOK, SendOlps
  <2> HIDE DEF e, o
  <2>4. /\ sendOlp.upos \in 0..SEND_BUF_LEN /\ n \in Nat /\ n > 0 /\ n <= sendOlp.upos
        /\ Len(wire) \in Nat
    BY <1>3, SendLength DEF SendInv, SendTypeOK, SendOlps, IoState
  <2> HIDE DEF n
  <2>5. o \in SendOlps /\ o.ipos <= o.upos /\ o.opp = "NONE" /\ o.ipos = n /\ o.upos = sendOlp.upos
    BY <2>3, <2>4, SendLength DEF SendOlps
  <2>6. ConnectsOnce => SendContent /\ WireInOrder
    BY <1>1, <1>3 DEF SendInv, SendOrder
  <2>7. /\ sendOlp' \in SendOlps /\ sendBuf' \in [1..SEND_BUF_LEN -> Nat]
        /\ sendIo' \in {Idle, Flight}
        /\ sendOlp'.upos = o.upos - o.ipos /\ sendOlp'.ipos = sendOlp'.upos
        /\ \A i \in 1..sendOlp'.upos : sendBuf'[i] = sendBuf[o.ipos + i]
        /\ sendOlp'.opp = "SEND" \/ (sendOlp'.upos = 0 /\ sendIo' = Idle)
    <3>1. sendBuf \in [1..SEND_BUF_LEN -> Nat] /\ Idle \in IoState
      BY IoStates DEF SendTypeOK
    <3> QED BY <2>2, <2>5, <3>1, PostSendShape
  <2>8. sendOlp'.upos = sendOlp.upos - n /\ \A i \in 1..sendOlp'.upos : sendBuf'[i] = sendBuf[n + i]
    BY <2>5, <2>7
  <2>9. sendIo' \in IoState /\ sendIo'.st # "done" /\ sendIo'.n = 0 /\ ~sendIo'.ok
    BY <2>7, IoStates
  <2>10. SendTypeOK'
    BY <1>1, <2>7, <2>9 DEF SendTypeOK
  <2>11. ASSUME ConnectsOnce PROVE SendContent'
    <3>0. SendContent
      BY <2>6, <2>11
    <3>1. sent = Len(wire) + sendOlp'.upos
      BY <2>4, <3>0, <2>8 DEF SendContent, n
    <3>2. ASSUME NEW i \in 1..sendOlp'.upos PROVE sendBuf'[i] = Len(wire) + i
      <4>1. n + i \in 1..sendOlp.upos /\ i \in Nat /\ sendBuf'[i] = sendBuf[n + i]
        BY <2>4, <2>8
      <4>2. sendBuf[n + i] = Len(wire) - n + (n + i)
        BY <3>0, <4>1 DEF SendContent, n
      <4> QED BY <2>4, <4>1, <4>2
    <3>3. sendOlp'.opp # "SEND" => sendOlp'.ipos = 0
      BY <2>7
    <3>4. wire' = wire /\ sent' = sent /\ sendIo'.n = 0
      BY <1>1, <2>9
    <3>5. Len(wire) \in Nat /\ sendOlp'.upos \in Nat
      BY <2>4, <2>8
    <3> QED BY <3>1, <3>2, <3>3, <3>4, <3>5 DEF SendContent
  <2>12. FullIsArmed'
    BY <1>1, <2>4, <2>8 DEF FullIsArmed
  <2>13. ConnectsOnce => SendOrder'
    BY <1>1, <2>6, <2>9, <2>11 DEF SendOrder, WireInOrder
  <2> QED BY <2>4, <2>7, <2>8, <2>9, <2>10, <2>12, <2>13, IoStates DEF SendInv
<1> QED BY <1>2, <1>3 DEF SendTypeOK, IoState

\* Every step keeps the send half right.
LEMMA SendStep ==
  ASSUME TypeOK, SocketInv, [Next]_vars
  PROVE  SendTypeOK' /\ SendInv'
<1>1. SendTypeOK /\ SendInv /\ LifeInv
  BY DEF TypeOK, SocketInv
<1>2. CASE Connect
  BY <1>1, <1>2, SendConnect
<1>3. CASE Close
  BY <1>1, <1>3, SendFrame DEF Close
<1>4. CASE \/ Wait \/ Timeout \/ KernelRecv \/ OnRecv \/ UNCHANGED vars
           \/ (\E how \in Hows : Shutdown(how)) \/ (\E mask \in CtlMasks : Ctl(mask))
           \/ (\E len \in 1..RECV_BUF_LEN : Recv(len))
  <2>1. UNCHANGED <<sendVar, open, peer>>
    BY <1>4 DEF Wait, Timeout, KernelRecv, KRecv, KRecvFin, KAbortRecv, OnRecv, vars, sock,
                Shutdown, Ctl, Recv
  <2> QED BY <1>1, <2>1, SendFrame
<1>5. ASSUME NEW len \in 1..(MaxOut - sent), Send(len) PROVE SendTypeOK' /\ SendInv'
  BY <1>1, <1>5, SendSend
<1>6. CASE OnConnect
  <2>1. sendOlp.opp # "SEND"
    BY <1>6 DEF OnConnect
  <2> QED BY <1>1, <1>6, <2>1, SendTaken DEF OnConnect
<1>7. CASE OnSend
  BY <1>1, <1>7, SendDone
<1>8. CASE OnClosed
  <2>1. ~open /\ UNCHANGED <<sendBuf, wire, sent, open, peer>>
    BY <1>8 DEF OnClosed, sock
  <2>2. CASE sendIo' = Idle /\ sendOlp' = Taken(sendOlp)
    BY <1>1, <2>1, <2>2, SendTaken
  <2>3. CASE UNCHANGED <<sendIo, sendOlp>>
    BY <1>1, <2>1, <2>3, SendFrame DEF sendVar
  <2> QED BY <1>8, <2>2, <2>3 DEF OnClosed
<1>9. ASSUME NEW ok \in BOOLEAN, KConnect(ok) PROVE SendTypeOK' /\ SendInv'
  <2>1. /\ peer = "none" /\ sendIo.st = "flight" /\ sendIo' = Done(ok, 0)
        /\ UNCHANGED <<sendOlp, sendBuf, wire, sent, open>>
    BY <1>9 DEF KConnect, sock
  <2>2. ConnectsOnce => sendOlp.opp # "SEND"
    BY <1>1, <2>1 DEF LifeInv, AttemptInv
  <2> QED BY <1>1, <1>9, <2>1, <2>2, SendEnds
<1>10. ASSUME NEW ok \in BOOLEAN, KAbortSend(ok) PROVE SendTypeOK' /\ SendInv'
  <2>1. /\ sendIo.st = "flight" /\ sendIo' = Done(ok, 0) /\ (~open \/ peer = "reset")
        /\ UNCHANGED <<sendOlp, sendBuf, wire, sent, open, peer>>
    BY <1>10 DEF KAbortSend, sock
  <2> QED BY <1>1, <1>10, <2>1, SendEnds
<1>11. ASSUME NEW n \in 1..sendOlp.ipos, KSend(n) PROVE SendTypeOK' /\ SendInv'
  BY <1>1, <1>11, SendKernel
<1>12. ASSUME NEW how \in PeerEnds, PeerEnd(how) PROVE SendTypeOK' /\ SendInv'
  BY <1>1, <1>12, SendFrame DEF PeerEnd, sock
<1> QED BY <1>2, <1>3, <1>4, <1>5, <1>6, <1>7, <1>8, <1>9, <1>10, <1>11, <1>12
        DEF Next, Application, Update, KernelSend

-----------------------------------------------------------------------------
(* The receive half: RecvTypeOK and RecvInv.                                *)

\* Steps that leave the receive half alone; the handle may be closed.
LEMMA RecvFrame ==
  ASSUME RecvTypeOK, RecvInv, UNCHANGED recvVar, open' => open
  PROVE  RecvTypeOK' /\ RecvInv'
<1>1. UNCHANGED <<recvOlp, recvBuf, recvIo, inCount, got>>
  BY DEF recvVar
<1>2. RecvTypeOK'
  BY <1>1 DEF RecvTypeOK
<1>3. RecvContent => RecvContent'
  BY <1>1 DEF RecvContent
<1> QED BY <1>1, <1>2, <1>3 DEF RecvInv, ReadInOrder

\* Bytes handed over in order, then perhaps postRecv(): no unread byte is lost.
LEMMA RecvPost ==
  ASSUME RecvTypeOK, RecvInv, UNCHANGED <<open, inCount>>,
         NEW o \in RecvOlps, o.opp = recvOlp.opp, o.ipos = recvOlp.ipos,
         recvOlp.upos <= o.upos, o.upos <= o.ipos,
         got' \in Seq(Nat), Len(got') = Len(got) + o.upos - recvOlp.upos,
         \A i \in DOMAIN got' : got'[i] = i,
         NEW pr, PostRecv(o, pr) \/ (recvOlp' = o /\ UNCHANGED <<recvBuf, recvIo>>)
  PROVE  RecvTypeOK' /\ RecvInv'
<1> DEFINE u == recvOlp.upos
           v == o.upos
           p == recvOlp.ipos
<1>1. /\ u \in Nat /\ v \in Nat /\ p \in Nat /\ u <= v /\ v <= p
      /\ Len(got) \in Nat /\ Len(got') = Len(got) + v - u
      /\ inCount \in Nat /\ recvIo \in IoState
  BY Bounds DEF RecvTypeOK, RecvOlps
<1> HIDE DEF u, v, p
<1>2. /\ Len(got') + p - v + recvIo.n <= inCount
      /\ open => inCount = Len(got') + p - v + recvIo.n
      /\ inCount <= Len(got') + RECV_BUF_LEN
      /\ \A i \in 1..(p + recvIo.n) : i > v => recvBuf[i] = Len(got') + i - v
  <2>1. RecvContent /\ recvIo.n \in Nat
    BY <1>1 DEF RecvInv, IoState
  <2>2. /\ Len(got) + p - u + recvIo.n <= inCount
        /\ open => inCount = Len(got) + p - u + recvIo.n
        /\ inCount <= Len(got) + RECV_BUF_LEN
    BY <2>1 DEF RecvInv, RecvContent, u, p
  <2>3. \A i \in 1..(p + recvIo.n) : i > u => recvBuf[i] = Len(got) + i - u
    BY <2>1 DEF RecvContent, u, p
  <2>4. /\ Len(got') + p - v + recvIo.n <= inCount
        /\ open => inCount = Len(got') + p - v + recvIo.n
        /\ inCount <= Len(got') + RECV_BUF_LEN
    BY <1>1, <2>1, <2>2, RecvLength
  <2>5. ASSUME NEW i \in 1..(p + recvIo.n), i > v PROVE recvBuf[i] = Len(got') + i - v
    <3>1. i \in Nat /\ i > u
      BY <1>1, <2>1, <2>5
    <3>2. recvBuf[i] = Len(got) + i - u
      BY <2>3, <3>1
    <3>3. /\ u \in Nat /\ v \in Nat /\ i \in Nat /\ Len(got) \in Nat
          /\ Len(got') = Len(got) + v - u
      BY <1>1, <3>1
    <3>4. Len(got) + i - u = Len(got') + i - v
      BY ONLY <3>3
    <3> QED BY ONLY <3>2, <3>4
  <2> QED BY <2>4, <2>5
<1>3. inCount \in 0..MaxIn /\ inCount' = inCount
  BY DEF RecvTypeOK
<1>4. ReadInOrder'
  <2>1. recvIo.n \in Nat
    BY <1>1 DEF IoState
  <2>2. Len(got') + p - v + recvIo.n <= inCount
    BY <1>2
  <2>4. Len(got') \in Nat /\ v <= p /\ v \in Nat /\ p \in Nat /\ inCount \in Nat
    BY <1>1, LenProperties
  <2>3. Len(got') <= inCount
    BY ONLY <2>1, <2>2, <2>4
  <2> QED BY <1>3, <2>3 DEF ReadInOrder
<1>5. CASE recvOlp' = o /\ recvBuf' = recvBuf /\ recvIo' = recvIo
  <2>1. RecvTypeOK'
    BY <1>3, <1>5 DEF RecvTypeOK
  <2>2. RecvContent' /\ (open => inCount = Len(got') + p - v + recvIo.n)
    BY <1>2, <1>3, <1>5 DEF RecvContent, v, p
  <2>3. o.opp = "RECV" => o.ipos = 0 /\ o.upos = 0
    BY <1>1 DEF RecvInv, v, p
  <2> QED BY <1>2, <1>3, <1>4, <1>5, <2>1, <2>2, <2>3 DEF RecvInv, v, p
<1>6. CASE ~(recvOlp' = o /\ recvBuf' = recvBuf /\ recvIo' = recvIo)
  <2>1. /\ recvOlp' \in RecvOlps /\ recvBuf' \in [1..RECV_BUF_LEN -> Nat]
        /\ recvIo' \in {recvIo, Flight} /\ recvOlp.opp = "NONE"
        /\ recvOlp'.upos = 0 /\ recvOlp'.ipos = p - v
        /\ \A i \in 1..recvOlp'.ipos : recvBuf'[i] = recvBuf[v + i]
        /\ \/ recvOlp'.opp = "NONE" /\ recvIo' = recvIo
           \/ recvOlp'.opp = "RECV" /\ recvOlp'.ipos = 0
    <3>1. PostRecv(o, pr)
      BY <1>6
    <3> QED BY <1>6, <3>1, PostRecvShape DEF v, p
  <2>2. recvIo.st = "idle" /\ recvIo.n = 0 /\ ~recvIo.ok
    BY <1>1, <2>1 DEF RecvInv, IoState
  <2>3. recvIo' \in IoState /\ recvIo'.st # "done" /\ recvIo'.n = 0 /\ ~recvIo'.ok
    BY <1>1, <2>1, <2>2, IoStates
  <2>4. recvIo'.st # "idle" => recvOlp'.opp = "RECV"
    BY <2>1, <2>2
  <2>5. RecvTypeOK'
    BY <1>3, <2>1, <2>3 DEF RecvTypeOK
  <2>6. RecvContent'
    <3>1. Len(got') + recvOlp'.ipos <= inCount
      BY <1>1, <1>2, <2>1, <2>2
    <3>2. ASSUME NEW i \in 1..recvOlp'.ipos PROVE recvBuf'[i] = Len(got') + i
      <4>1. v + i \in 1..p /\ v + i > v /\ i \in Nat /\ recvBuf'[i] = recvBuf[v + i]
        BY <1>1, <2>1
      <4>2. recvBuf[v + i] = Len(got') + (v + i) - v
        BY <1>1, <1>2, <2>2, <4>1
      <4> QED BY <1>1, <4>1, <4>2
    <3>3. recvOlp'.ipos \in Nat /\ recvOlp'.upos = 0
      BY <1>1, <2>1
    <3> QED BY <1>1, <1>3, <2>3, <3>1, <3>2, <3>3 DEF RecvContent
  <2>7. recvOlp'.upos <= recvOlp'.ipos
    BY <1>1, <2>1
  <2>8. /\ open => inCount = Len(got') + recvOlp'.ipos - recvOlp'.upos + recvIo'.n
        /\ inCount <= Len(got') + RECV_BUF_LEN
    BY <1>1, <1>2, <2>1, <2>2, <2>3
  <2> QED BY <1>3, <1>4, <2>1, <2>3, <2>4, <2>5, <2>6, <2>7, <2>8, RecvLength DEF RecvInv
<1> QED BY <1>5, <1>6

\* recv() hands over the oldest unread bytes.
LEMMA RecvRecv ==
  ASSUME RecvTypeOK, RecvInv, NEW len \in 1..RECV_BUF_LEN, Recv(len)
  PROVE  RecvTypeOK' /\ RecvInv'
<1> DEFINE n == Handed(len)
           o1 == [recvOlp EXCEPT !.upos = @ + n]
           o2 == [recvOlp EXCEPT !.upos = @ + n, !.et = TRUE]
           bytes == SubSeq(recvBuf, recvOlp.upos + 1, recvOlp.upos + n)
<1>1. UNCHANGED <<open, inCount>>
  BY DEF Recv
<1>2. CASE RecvShut
  <2>1. UNCHANGED recvVar
    BY <1>1, <1>2, Zenon DEF Recv, recvVar
  <2> QED BY <1>1, <2>1, RecvFrame
<1>3. CASE ~RecvShut
  <2>1. /\ recvOlp.upos \in Nat /\ recvOlp.ipos \in 0..RECV_BUF_LEN
        /\ n \in Nat /\ recvOlp.upos + n <= recvOlp.ipos
    BY RecvLength DEF RecvTypeOK, RecvOlps, RecvInv, Handed, Unread
  <2>2. got' = got \o bytes
    BY <1>3, Zenon DEF Recv
  <2>3. /\ o1 = [opp |-> recvOlp.opp, ipos |-> recvOlp.ipos, upos |-> recvOlp.upos + n, et |-> recvOlp.et]
        /\ o2 = [opp |-> recvOlp.opp, ipos |-> recvOlp.ipos, upos |-> recvOlp.upos + n, et |-> TRUE]
    <3> DEFINE w == recvOlp.upos + n
    <3>1. o1 = [recvOlp EXCEPT !.upos = w] /\ o2 = [recvOlp EXCEPT !.upos = w, !.et = TRUE]
      OBVIOUS
    <3>2. w = recvOlp.upos + n
      OBVIOUS
    <3> HIDE DEF w, n, o1, o2
    <3> QED BY <3>1, <3>2 DEF RecvTypeOK, RecvOlps
  <2>4. PICK pr : \/ PostRecv(o2, pr)
                  \/ recvOlp' = o1 /\ UNCHANGED <<recvBuf, recvIo>>
    BY <1>3, Zenon DEF Recv
  <2> HIDE DEF n, o1, o2
  <2>5. /\ o1 \in RecvOlps /\ o2 \in RecvOlps
        /\ o1.upos = recvOlp.upos + n /\ o2.upos = recvOlp.upos + n
        /\ o1.opp = recvOlp.opp /\ o2.opp = recvOlp.opp
        /\ o1.ipos = recvOlp.ipos /\ o2.ipos = recvOlp.ipos
    BY <2>1, <2>3, RecvLength DEF RecvTypeOK, RecvOlps
  <2>6. /\ bytes \in Seq(Nat) /\ Len(bytes) = n
        /\ \A i \in 1..n : bytes[i] = recvBuf[recvOlp.upos + i]
    <3> DEFINE f == recvOlp.upos + 1
               g == recvOlp.upos + n
    <3>1. bytes = SubSeq(recvBuf, f, g)
      OBVIOUS
    <3>2. f \in Nat /\ g \in Nat /\ f \in 1..(g + 1) /\ g <= RECV_BUF_LEN /\ g - f + 1 = n
      BY <2>1, RecvLength
    <3>3. \A i \in 1..n : f + i - 1 = recvOlp.upos + i
      BY <2>1
    <3> HIDE DEF f, g, bytes
    <3>4. \A i \in f..g : recvBuf[i] \in Nat
      BY <3>2, RecvLength DEF RecvTypeOK
    <3>5. /\ SubSeq(recvBuf, f, g) \in Seq(Nat)
          /\ Len(SubSeq(recvBuf, f, g)) = IF f <= g THEN g - f + 1 ELSE 0
          /\ \A i \in 1..(g - f + 1) : SubSeq(recvBuf, f, g)[i] = recvBuf[f + i - 1]
      BY <3>2, <3>4, SubSeqProperties
    <3>6. Len(bytes) = n
      BY <2>1, <3>1, <3>2, <3>5
    <3>7. ASSUME NEW i \in 1..n PROVE bytes[i] = recvBuf[recvOlp.upos + i]
      <4>1. bytes[i] = recvBuf[f + i - 1]
        BY <3>1, <3>2, <3>5
      <4>2. f + i - 1 = recvOlp.upos + i
        BY <3>3
      <4> QED BY <4>1, <4>2
    <3> QED BY <3>1, <3>5, <3>6, <3>7
  <2>7. /\ got' \in Seq(Nat) /\ Len(got') = Len(got) + n /\ Len(got) \in Nat
        /\ \A i \in 1..Len(got') :
             got'[i] = IF i <= Len(got) THEN got[i] ELSE bytes[i - Len(got)]
    <3>1. got \in Seq(Nat)
      BY DEF RecvTypeOK
    <3> HIDE DEF bytes
    <3>2. Len(got) \in Nat /\ bytes \in Seq(Nat)
      BY <2>6, <3>1
    <3>3. /\ got \o bytes \in Seq(Nat) /\ Len(got \o bytes) = Len(got) + Len(bytes)
          /\ \A i \in 1 .. Len(got) + Len(bytes) :
               (got \o bytes)[i] = IF i <= Len(got) THEN got[i] ELSE bytes[i - Len(got)]
      BY <3>1, <3>2, ConcatProperties
    <3> QED BY <2>2, <2>6, <3>2, <3>3
  <2>8. \A i \in DOMAIN got' : got'[i] = i
    <3> HIDE DEF bytes
    <3>1. DOMAIN got' = 1..Len(got') /\ DOMAIN got = 1..Len(got)
      BY <2>7, LenProperties DEF RecvTypeOK
    <3>2. ASSUME NEW i \in 1..Len(got') PROVE got'[i] = i
      <4>1. CASE i <= Len(got)
        BY <2>7, <3>1, <4>1 DEF RecvInv, ReadInOrder
      <4>2. CASE i > Len(got)
        <5> DEFINE j == i - Len(got)
                   k == recvOlp.upos + j
        <5>0. i \in Nat /\ n \in Nat /\ Len(got) \in Nat /\ i <= Len(got) + n
          BY <2>1, <2>7
        <5>1. j \in 1..n /\ Len(got) + j = i
          BY <4>2, <5>0
        <5>7. got'[i] = bytes[j]
          BY <2>7, <4>2, <5>0
        <5>2. RecvContent /\ recvIo.n \in Nat
          BY DEF RecvInv, RecvTypeOK, IoState
        <5>3. k \in 1..(recvOlp.ipos + recvIo.n) /\ k > recvOlp.upos
          <6> HIDE DEF j
          <6>1. recvOlp.ipos \in Nat
            BY <2>1, RecvLength
          <6>2. j \in Nat /\ j > 0 /\ j <= n
            BY <5>0, <5>1
          <6>3. recvOlp.upos \in Nat /\ recvOlp.upos + n <= recvOlp.ipos /\ recvIo.n \in Nat
            BY <2>1, <5>2
          <6>4. n \in Nat
            BY <5>0
          <6>5. recvOlp.upos + j > recvOlp.upos /\ recvOlp.upos + j <= recvOlp.ipos
            BY ONLY <6>1, <6>2, <6>3, <6>4
          <6>6. recvOlp.upos + j <= recvOlp.ipos + recvIo.n
            BY ONLY <6>1, <6>2, <6>3, <6>5
          <6> QED BY <6>1, <6>2, <6>3, <6>5, <6>6
        <5>4. k = recvOlp.upos + j
          OBVIOUS
        <5> HIDE DEF j, k, bytes
        <5>5. got'[i] = recvBuf[k]
          BY <2>6, <5>1, <5>4, <5>7
        <5>6. recvBuf[k] = Len(got) + k - recvOlp.upos
          BY <5>2, <5>3 DEF RecvContent
        <5>8. j \in Nat /\ k - recvOlp.upos = j
          BY <2>1, <5>0, <5>1, <5>4
        <5>9. Len(got) + k - recvOlp.upos = Len(got) + (k - recvOlp.upos)
          BY <2>1, <5>0, <5>4, <5>8
        <5> QED BY <5>1, <5>5, <5>6, <5>8, <5>9
      <4> QED BY <2>7, <4>1, <4>2
    <3> QED BY <3>1, <3>2
  <2>9. Len(got') = Len(got) + o1.upos - recvOlp.upos /\ o2.upos = o1.upos
        /\ recvOlp.upos <= o1.upos /\ o1.upos <= o1.ipos
    BY <2>1, <2>5, <2>7
  <2>10. CASE PostRecv(o2, pr)
    BY <1>1, <2>5, <2>7, <2>8, <2>9, <2>10, RecvPost
  <2>11. CASE recvOlp' = o1 /\ UNCHANGED <<recvBuf, recvIo>>
    BY <1>1, <2>5, <2>7, <2>8, <2>9, <2>11, RecvPost
  <2> QED BY <2>4, <2>10, <2>11
<1> QED BY <1>2, <1>3

\* onRecv() counts the bytes of the packet, which lie behind the unread ones.
LEMMA RecvDone ==
  ASSUME RecvTypeOK, RecvInv, OnRecv
  PROVE  RecvTypeOK' /\ RecvInv'
<1>1. /\ recvIo.st = "done" /\ open /\ recvIo' = Idle
      /\ UNCHANGED <<recvBuf, inCount, got, open>>
  BY DEF OnRecv
<1>2. /\ recvOlp.opp = "RECV" /\ recvOlp.ipos = 0 /\ recvOlp.upos = 0
      /\ recvIo.n \in Nat /\ recvIo.n <= RECV_BUF_LEN /\ recvIo.ok \in BOOLEAN
      /\ RecvContent
  BY <1>1 DEF RecvInv, RecvTypeOK, IoState
<1>3. Idle \in IoState /\ Idle.st = "idle" /\ Idle.n = 0 /\ ~Idle.ok
  BY IoStates
<1>4. ReadInOrder'
  BY <1>1 DEF RecvInv, ReadInOrder
<1>5. /\ recvOlp'.opp = "NONE" /\ recvOlp'.upos = 0 /\ recvOlp'.ipos = recvIo.n
      /\ recvOlp' \in RecvOlps
  <2>1. CASE recvIo.ok /\ recvIo.n > 0
    <3>1. ~(recvIo.n = 0)
      BY <2>1
    <3>2. recvOlp' = [Taken(recvOlp) EXCEPT !.ipos = @ + recvIo.n, !.et = @ /\ "ET" \notin evMask]
      BY <2>1, <3>1, Zenon DEF OnRecv
    <3> DEFINE e == recvOlp.et /\ "ET" \notin evMask
               p == recvOlp.ipos + recvIo.n
    <3>3. /\ recvOlp' = [[recvOlp EXCEPT !.opp = "NONE"] EXCEPT !.ipos = p, !.et = e]
          /\ e \in BOOLEAN
      BY <3>2 DEF Taken, RecvTypeOK, RecvOlps
    <3>4. p = recvIo.n
      BY <1>2
    <3> HIDE DEF e, p
    <3>5. recvOlp' = [opp |-> "NONE", ipos |-> p, upos |-> recvOlp.upos, et |-> e]
      BY <3>3 DEF RecvTypeOK, RecvOlps
    <3>6. p \in 0..RECV_BUF_LEN
      BY <1>2, <3>4, RecvLength
    <3>7. recvOlp' \in RecvOlps
      BY <1>2, <3>3, <3>5, <3>6, RecvLength DEF RecvOlps
    <3> QED BY <1>2, <3>4, <3>5, <3>7
  <2>2. CASE ~(recvIo.ok /\ recvIo.n > 0)
    <3>1. recvOlp' = Taken(recvOlp)
      BY <2>2, Zenon DEF OnRecv
    <3>2. recvOlp' = [opp |-> "NONE", ipos |-> recvOlp.ipos, upos |-> recvOlp.upos, et |-> recvOlp.et]
      BY <3>1 DEF Taken, RecvTypeOK, RecvOlps
    <3>3. recvIo.n = 0
      BY <1>2, <2>2 DEF RecvInv
    <3> QED BY <1>2, <3>2, <3>3, RecvLength DEF RecvTypeOK, RecvOlps
  <2> QED BY <2>1, <2>2
<1>6. RecvTypeOK'
  BY <1>1, <1>3, <1>5 DEF RecvTypeOK
<1>7. RecvContent'
  <2>1. /\ Len(got) + recvIo.n <= inCount /\ Len(got) \in Nat /\ inCount \in Nat
        /\ \A i \in 1..recvIo.n : recvBuf[i] = Len(got) + i
    BY <1>2, Bounds DEF RecvContent, RecvTypeOK
  <2> QED BY <1>1, <1>2, <1>3, <1>5, <2>1 DEF RecvContent
<1>8. /\ open' => inCount' = Len(got') + recvOlp'.ipos - recvOlp'.upos + recvIo'.n
      /\ inCount' <= Len(got') + RECV_BUF_LEN
  <2>1. /\ Len(got) \in Nat /\ inCount = Len(got) + recvIo.n
        /\ inCount <= Len(got) + RECV_BUF_LEN
    BY <1>1, <1>2 DEF RecvInv, RecvTypeOK
  <2> QED BY <1>1, <1>2, <1>3, <1>5, <2>1
<1> QED BY <1>1, <1>2, <1>3, <1>4, <1>5, <1>6, <1>7, <1>8, RecvLength DEF RecvInv

\* The kernel stores the peer's next n bytes in the empty buffer.
LEMMA RecvKernel ==
  ASSUME RecvTypeOK, RecvInv, NEW n \in 1..RECV_BUF_LEN, KRecv(n)
  PROVE  RecvTypeOK' /\ RecvInv'
<1>1. /\ recvIo.st = "flight" /\ open /\ inCount + n <= MaxIn
      /\ UNCHANGED <<recvOlp, got, open>>
      /\ recvBuf' = [i \in 1..RECV_BUF_LEN |->
                       IF i > recvOlp.ipos /\ i <= recvOlp.ipos + n
                       THEN inCount + i - recvOlp.ipos ELSE recvBuf[i]]
      /\ inCount' = inCount + n /\ recvIo' = Done(TRUE, n)
  BY DEF KRecv, sock
<1>2. /\ recvOlp.opp = "RECV" /\ recvOlp.ipos = 0 /\ recvOlp.upos = 0 /\ recvIo.n = 0
      /\ inCount = Len(got) /\ Len(got) \in Nat /\ n \in Nat /\ n <= RECV_BUF_LEN
  BY <1>1, RecvLength DEF RecvInv, RecvTypeOK
<1>3. recvIo' \in IoState /\ recvIo'.st = "done" /\ recvIo'.n = n /\ recvIo'.ok
  BY <1>1, <1>2, IoStates
<1>4. inCount \in Nat /\ inCount + n \in 0..MaxIn
  BY <1>1, <1>2, Bounds
<1>5. /\ recvBuf' \in [1..RECV_BUF_LEN -> Nat]
      /\ \A i \in 1..n : recvBuf'[i] = Len(got) + i
  BY <1>1, <1>2, <1>4, RecvLength DEF RecvTypeOK
<1>6. RecvTypeOK'
  BY <1>1, <1>3, <1>4, <1>5 DEF RecvTypeOK
<1>7. RecvContent'
  <2>1. recvOlp'.ipos = 0 /\ recvOlp'.upos = 0 /\ got' = got
    BY <1>1, <1>2
  <2>2. inCount' = Len(got) + n
    BY <1>1, <1>2
  <2> QED BY <1>2, <1>3, <1>5, <2>1, <2>2 DEF RecvContent
<1>8. ReadInOrder'
  BY <1>1, <1>2, <1>4 DEF RecvInv, ReadInOrder
<1>9. /\ inCount' = Len(got') + recvOlp'.ipos - recvOlp'.upos + recvIo'.n
      /\ inCount' <= Len(got') + RECV_BUF_LEN
  <2>1. /\ inCount' = Len(got) + n /\ got' = got
        /\ recvOlp'.ipos = 0 /\ recvOlp'.upos = 0 /\ recvIo'.n = n
    BY <1>1, <1>2, <1>3
  <2>2. Len(got) \in Nat /\ n \in Nat /\ n <= RECV_BUF_LEN
    BY <1>2
  <2> QED BY <2>1, <2>2, RecvLength
<1> QED BY <1>1, <1>2, <1>3, <1>6, <1>7, <1>8, <1>9 DEF RecvInv

\* A read ends without a byte.
LEMMA RecvEnds ==
  ASSUME RecvTypeOK, RecvInv, NEW ok \in BOOLEAN,
         recvIo.st = "flight", recvIo' = Done(ok, 0),
         UNCHANGED <<recvOlp, recvBuf, inCount, got, open>>
  PROVE  RecvTypeOK' /\ RecvInv'
<1>1. recvIo' \in IoState /\ recvIo'.st = "done" /\ recvIo'.n = 0
  BY IoStates
<1>2. recvIo.n = 0
  BY DEF RecvInv
<1>3. RecvTypeOK'
  BY <1>1 DEF RecvTypeOK
<1>4. RecvContent => RecvContent'
  BY <1>1, <1>2 DEF RecvContent
<1> QED BY <1>1, <1>2, <1>3, <1>4, RecvLength DEF RecvInv, ReadInOrder

\* onUpdate() drops the packet of a closed handle.
LEMMA RecvDropped ==
  ASSUME RecvTypeOK, RecvInv, ~open', recvIo' = Idle, recvOlp' = Taken(recvOlp),
         UNCHANGED <<recvBuf, inCount, got>>
  PROVE  RecvTypeOK' /\ RecvInv'
<1>1. recvOlp' = [opp |-> "NONE", ipos |-> recvOlp.ipos, upos |-> recvOlp.upos, et |-> recvOlp.et]
  BY DEF Taken, RecvTypeOK, RecvOlps
<1>2. recvOlp' \in RecvOlps
  BY <1>1 DEF RecvTypeOK, RecvOlps
<1>3. RecvTypeOK'
  BY <1>2, IoStates DEF RecvTypeOK
<1>4. RecvContent'
  <2>1. /\ recvOlp.ipos \in Nat /\ recvOlp.upos \in Nat /\ recvIo.n \in Nat
        /\ Len(got) \in Nat /\ inCount \in Nat /\ RecvContent
    BY RecvLength, Bounds DEF RecvTypeOK, RecvOlps, IoState, RecvInv
  <2> QED BY <1>1, <2>1, IoStates DEF RecvContent
<1> QED BY <1>1, <1>3, <1>4, IoStates, RecvLength DEF RecvInv, ReadInOrder

\* Every step keeps the receive half right.
LEMMA RecvStep ==
  ASSUME TypeOK, SocketInv, [Next]_vars
  PROVE  RecvTypeOK' /\ RecvInv'
<1>1. RecvTypeOK /\ RecvInv
  BY DEF TypeOK, SocketInv
<1>2. CASE Close
  BY <1>1, <1>2, RecvFrame DEF Close
<1>3. CASE \/ Connect \/ Wait \/ Timeout \/ KernelSend \/ OnConnect \/ OnSend \/ UNCHANGED vars
           \/ (\E len \in 1..(MaxOut - sent) : Send(len))
           \/ (\E how \in Hows : Shutdown(how)) \/ (\E how \in PeerEnds : PeerEnd(how))
  <2>1. UNCHANGED <<recvVar, open>>
    BY <1>3 DEF Connect, Wait, Timeout, KernelSend, KConnect, KSend, KAbortSend, OnConnect,
                OnSend, vars, sock, Send, Shutdown, PeerEnd
  <2> QED BY <1>1, <2>1, RecvFrame
<1>4. ASSUME NEW mask \in CtlMasks, Ctl(mask) PROVE RecvTypeOK' /\ RecvInv'
  <2>1. UNCHANGED <<open, inCount, got>>
    BY <1>4 DEF Ctl
  <2>2. CASE "IN" \in mask
    <3>1. PICK pr \in PostResults : PostRecv(recvOlp, pr)
      BY <1>4, <2>2, Zenon DEF Ctl
    <3>2. /\ recvOlp \in RecvOlps /\ recvOlp.upos <= recvOlp.ipos /\ recvOlp.upos <= recvOlp.upos
          /\ got' \in Seq(Nat) /\ Len(got') = Len(got) + recvOlp.upos - recvOlp.upos
          /\ \A i \in DOMAIN got' : got'[i] = i
      BY <1>1, <2>1, RecvLength DEF RecvTypeOK, RecvInv, RecvOlps, ReadInOrder
    <3> QED BY <1>1, <2>1, <3>1, <3>2, RecvPost
  <2>3. CASE "IN" \notin mask
    <3>1. UNCHANGED recvVar
      BY <1>4, <2>1, <2>3, Zenon DEF Ctl, recvVar
    <3> QED BY <1>1, <2>1, <3>1, RecvFrame
  <2> QED BY <2>2, <2>3
<1>5. ASSUME NEW len \in 1..RECV_BUF_LEN, Recv(len) PROVE RecvTypeOK' /\ RecvInv'
  BY <1>1, <1>5, RecvRecv
<1>6. CASE OnRecv
  BY <1>1, <1>6, RecvDone
<1>7. CASE OnClosed
  <2>1. ~open' /\ open' = open /\ UNCHANGED <<recvBuf, inCount, got>>
    BY <1>7 DEF OnClosed, sock
  <2>2. CASE recvIo' = Idle /\ recvOlp' = Taken(recvOlp)
    BY <1>1, <2>1, <2>2, RecvDropped
  <2>3. CASE UNCHANGED <<recvIo, recvOlp>>
    BY <1>1, <2>1, <2>3, RecvFrame DEF recvVar
  <2> QED BY <1>7, <2>2, <2>3 DEF OnClosed
<1>8. CASE KRecvFin \/ KAbortRecv
  <2>1. /\ recvIo.st = "flight" /\ \E ok \in BOOLEAN : recvIo' = Done(ok, 0)
        /\ UNCHANGED <<recvOlp, recvBuf, inCount, got, open>>
    BY <1>8 DEF KRecvFin, KAbortRecv, sock
  <2> QED BY <1>1, <2>1, RecvEnds
<1>9. ASSUME NEW n \in 1..RECV_BUF_LEN, KRecv(n) PROVE RecvTypeOK' /\ RecvInv'
  BY <1>1, <1>9, RecvKernel
<1> QED BY <1>2, <1>3, <1>4, <1>5, <1>6, <1>7, <1>8, <1>9
        DEF Next, Application, Update, KernelRecv

-----------------------------------------------------------------------------
(* The life of the object, and the types of the rest.                       *)

\* postSend() neither starts nor disturbs a connection attempt, and the kernel takes a send
\* only with a connection.
LEMMA PostSendLife ==
  ASSUME NEW o \in [opp : {"NONE", "CONNECT", "SEND"}, ipos : Int, upos : Int, et : BOOLEAN],
         NEW b, NEW io, NEW pr, PostSend(o, b, io, pr)
  PROVE  \/ sendOlp' = o /\ sendIo' = io
         \/ o.opp = "NONE" /\ sendOlp'.opp = "NONE" /\ sendIo' = io
         \/ o.opp = "NONE" /\ sendOlp'.opp = "SEND" /\ sendIo' = io /\ pr = "FAILED"
         \/ o.opp = "NONE" /\ sendOlp'.opp = "SEND" /\ peer # "none"
<1>1. CASE Outstanding(o)
  BY <1>1, Zenon DEF PostSend
<1>2. CASE ~Outstanding(o)
  <2> DEFINE left == o.upos - o.ipos
  <2>1. \/ sendOlp' = [o EXCEPT !.ipos = 0, !.upos = 0] /\ sendIo' = io
        \/ /\ sendOlp' = [o EXCEPT !.opp = "SEND", !.ipos = left, !.upos = left]
           /\ Issued(Linked, pr) /\ sendIo' = IF pr = "POSTED" THEN Flight ELSE io
    BY <1>2, Zenon DEF PostSend
  <2>2. o.opp = "NONE"
    BY <1>2 DEF Outstanding
  <2> HIDE DEF left
  <2>3. CASE sendOlp' = [o EXCEPT !.ipos = 0, !.upos = 0] /\ sendIo' = io
    <3>1. sendOlp'.opp = "NONE"
      BY <2>2, <2>3
    <3> QED BY <2>2, <2>3, <3>1
  <2>4. CASE /\ sendOlp' = [o EXCEPT !.opp = "SEND", !.ipos = left, !.upos = left]
             /\ Issued(Linked, pr) /\ sendIo' = IF pr = "POSTED" THEN Flight ELSE io
    <3>1. sendOlp'.opp = "SEND"
      BY <2>4
    <3>2. (pr = "POSTED" /\ peer # "none") \/ pr = "FAILED"
      BY <2>4 DEF Issued, Linked
    <3> QED BY <2>2, <2>4, <3>1, <3>2
  <2> QED BY <2>1, <2>3, <2>4
<1> QED BY <1>1, <1>2

\* Every step keeps what is known of the life of the object.
LEMMA LifeStep ==
  ASSUME TypeOK, SocketInv, [Next]_vars
  PROVE  LifeInv'
<1>1. LifeInv /\ SendTypeOK /\ RecvTypeOK /\ SendInv /\ RecvInv
  BY DEF SocketInv, TypeOK
<1>2. CASE Connect
  <2>1. /\ alive /\ (Header => open)
        /\ UNCHANGED <<open, status, alive, peer, recvOlp, listed>>
        /\ sendOlp' = (IF open THEN [sendOlp EXCEPT !.opp = "CONNECT"] ELSE sendOlp)
    BY <1>2 DEF Connect, Calls, recvVar, waitVar
  <2>2. open => sendOlp'.opp = "CONNECT"
    BY <1>1, <2>1 DEF SendTypeOK, SendOlps
  <2>3. ASSUME ConnectsOnce PROVE AttemptInv'
    <3>1. AttemptInv /\ status = "DISCONNECT" /\ sendIo.st = "idle" /\ open
      BY <1>1, <1>2, <2>3 DEF LifeInv, Connect
    <3>2. peer = "none"
      BY <1>1, <3>1 DEF AttemptInv, SendTypeOK, SendOlps
    <3> QED BY <2>1, <2>2, <3>1, <3>2 DEF AttemptInv
  <2> QED BY <1>1, <2>1, <2>3 DEF LifeInv
<1>3. ASSUME NEW len \in 1..(MaxOut - sent), Send(len) PROVE LifeInv'
  <2> DEFINE n == IF len > Room THEN Room ELSE len
             o == [sendOlp EXCEPT !.upos = @ + n, !.et = @ \/ Fills(n)]
             b == [i \in 1..SEND_BUF_LEN |->
                    IF i > sendOlp.upos /\ i <= sendOlp.upos + n
                    THEN sent + i - sendOlp.upos ELSE sendBuf[i]]
  <2>1. /\ alive /\ (Header => open)
        /\ UNCHANGED <<open, alive, peer>>
        /\ status' \in {status, "BROKEN"}
    BY <1>3, Zenon DEF Send, Calls, BreakUnlessFine, Break
  <2>2. \/ UNCHANGED <<sendOlp, sendIo>>
        \/ \E pr \in PostResults :
             PostSend(o, b, sendIo, pr) /\ (pr = "FAILED" => status' = "BROKEN")
    BY <1>3, Zenon DEF Send, BreakUnlessFine, Break, Fine
  <2>3. /\ o \in [opp : {"NONE", "CONNECT", "SEND"}, ipos : Int, upos : Int, et : BOOLEAN]
        /\ o.opp = sendOlp.opp
    <3>1. n \in Int
      BY <1>1, SendLength, Bounds DEF Room, SendTypeOK, SendOlps
    <3> DEFINE u == sendOlp.upos + n
               e == sendOlp.et \/ Fills(n)
    <3>2. u \in Int /\ e \in BOOLEAN /\ o = [sendOlp EXCEPT !.upos = u, !.et = e]
      BY <1>1, <3>1, SendLength DEF SendTypeOK, SendOlps
    <3> HIDE DEF u, e, o
    <3>3. o = [opp |-> sendOlp.opp, ipos |-> sendOlp.ipos, upos |-> u, et |-> e]
      BY <1>1, <3>2 DEF SendTypeOK, SendOlps
    <3> QED BY <1>1, <3>2, <3>3, SendLength DEF SendTypeOK, SendOlps
  <2> HIDE DEF o, b
  <2>4. \/ sendOlp'.opp = sendOlp.opp /\ sendIo' = sendIo
        \/ sendOlp.opp = "NONE" /\ sendOlp'.opp = "SEND" /\ sendIo' = sendIo /\ status' = "BROKEN"
        \/ sendOlp.opp = "NONE" /\ sendOlp'.opp = "SEND" /\ peer # "none"
    BY <2>2, <2>3, PostSendLife
  <2>5. sendOlp.opp = "NONE" => sendIo.st = "idle"
    BY <1>1 DEF SendInv
  <2>6. AttemptInv => AttemptInv'
    BY <2>1, <2>4, <2>5 DEF AttemptInv
  <2> QED BY <1>1, <2>1, <2>6 DEF LifeInv
<1>4. ASSUME NEW len \in 1..RECV_BUF_LEN, Recv(len) PROVE LifeInv'
  <2>1. /\ alive /\ (Header => open)
        /\ UNCHANGED <<open, alive, peer, sendOlp, sendIo>>
        /\ status' \in {status, "BROKEN"}
    BY <1>4, Zenon DEF Recv, Calls, sendVar, Break
  <2> QED BY <1>1, <2>1 DEF LifeInv, AttemptInv
<1>5. ASSUME NEW how \in Hows, Shutdown(how) PROVE LifeInv'
  BY <1>1, <1>5 DEF LifeInv, AttemptInv, Shutdown, Calls, sendVar, recvVar, waitVar
<1>6. ASSUME NEW mask \in CtlMasks, Ctl(mask) PROVE LifeInv'
  <2>1. /\ alive /\ (Header => open)
        /\ UNCHANGED <<open, alive, peer, sendOlp, sendIo>>
        /\ status' \in {status, "BROKEN"}
    BY <1>6, Zenon DEF Ctl, Calls, sendVar, Break, BreakUnlessFine
  <2> QED BY <1>1, <2>1 DEF LifeInv, AttemptInv
<1>7. CASE Close
  <2>1. /\ UNCHANGED <<peer, sendOlp, sendIo, recvOlp>>
        /\ ~open' /\ status' = (IF open THEN "CLOSED" ELSE status)
        /\ ~alive' => ~listed' /\ ~Busy
    BY <1>7 DEF Close, sendVar, recvVar
  <2> QED BY <1>1, <2>1 DEF LifeInv, AttemptInv, Busy
<1>8. CASE Wait \/ Timeout \/ KernelRecv \/ UNCHANGED vars
  <2>1. UNCHANGED <<open, status, alive, peer, sendOlp, sendIo, recvOlp>> /\ (listed' => listed)
    <3>1. CASE Wait \/ Timeout \/ UNCHANGED vars
      BY <3>1 DEF Wait, Timeout, vars, sock, sendVar, recvVar, waitVar
    <3>2. CASE KernelRecv
      <4>1. UNCHANGED <<sock, recvOlp, sendVar, waitVar, alive, peer>>
        BY <3>2, Zenon DEF KernelRecv, KRecv, KRecvFin, KAbortRecv
      <4> QED BY <4>1 DEF sock, sendVar, waitVar
    <3> QED BY <1>8, <3>1, <3>2
  <2> QED BY <1>1, <2>1 DEF LifeInv, AttemptInv, Busy
<1>9. CASE OnConnect
  <2>1. /\ open /\ alive /\ sendOlp' = Taken(sendOlp) /\ sendOlp.opp = "CONNECT"
        /\ UNCHANGED <<open, alive, peer>> /\ sendIo.st = "done"
        /\ status' = (IF sendIo.ok THEN "CONNECTED" ELSE status)
    BY <1>1, <1>9 DEF OnConnect, LifeInv
  <2>2. sendOlp'.opp = "NONE"
    BY <1>1, <2>1 DEF Taken, SendTypeOK, SendOlps
  <2> QED BY <1>1, <2>1, <2>2 DEF LifeInv, AttemptInv
<1>10. CASE OnSend
  <2> DEFINE o == [Taken(sendOlp) EXCEPT !.ipos = Transferred, !.et = @ /\ "ET" \notin evMask]
  <2>1. /\ open /\ alive /\ sendOlp.opp = "SEND"
        /\ UNCHANGED <<open, alive, peer>>
    BY <1>1, <1>10 DEF OnSend, LifeInv
  <2>2. status' \in {status, "BROKEN", "PEERCLOSED"}
    BY <1>10, Zenon DEF OnSend, Break, BreakUnlessFine
  <2>3. \/ sendOlp' = Taken(sendOlp)
        \/ \E pr \in PostResults : PostSend(o, sendBuf, Idle, pr)
    BY <1>10, Zenon DEF OnSend
  <2>4. /\ o \in [opp : {"NONE", "CONNECT", "SEND"}, ipos : Int, upos : Int, et : BOOLEAN]
        /\ o.opp = "NONE"
    <3> DEFINE e == sendOlp.et /\ "ET" \notin evMask
    <3>1. o = [[sendOlp EXCEPT !.opp = "NONE"] EXCEPT !.ipos = sendIo.n, !.et = e] /\ e \in BOOLEAN
      BY <1>1 DEF Taken, Transferred, SendTypeOK, SendOlps
    <3> HIDE DEF e, o
    <3>2. o = [opp |-> "NONE", ipos |-> sendIo.n, upos |-> sendOlp.upos, et |-> e]
      BY <1>1, <3>1 DEF SendTypeOK, SendOlps
    <3> QED BY <1>1, <3>1, <3>2, SendLength DEF SendTypeOK, SendOlps, IoState
  <2>5. Taken(sendOlp).opp = "NONE"
    BY <1>1 DEF Taken, SendTypeOK, SendOlps
  <2> HIDE DEF o
  <2>6. /\ sendOlp'.opp # "CONNECT"
        /\ sendOlp'.opp = "SEND" => sendIo'.st = "idle" \/ peer # "none"
    BY <2>3, <2>4, <2>5, PostSendLife, IoStates
  <2>7. AttemptInv => AttemptInv'
    BY <2>1, <2>2, <2>6 DEF AttemptInv
  <2> QED BY <1>1, <2>1, <2>2, <2>7 DEF LifeInv
<1>11. CASE OnRecv
  <2>1. /\ open /\ alive /\ UNCHANGED <<open, alive, peer, sendOlp, sendIo>>
    BY <1>1, <1>11 DEF OnRecv, LifeInv, sendVar
  <2>2. status' \in {status, "BROKEN", "PEERCLOSED"}
    BY <1>11, Zenon DEF OnRecv, Break
  <2> QED BY <1>1, <2>1, <2>2 DEF LifeInv, AttemptInv
<1>12. CASE OnClosed
  <2>1. ~open /\ UNCHANGED <<open, status, alive, peer, listed>>
    BY <1>12 DEF OnClosed, sock
  <2>2. \/ UNCHANGED <<recvIo, recvOlp>> /\ sendIo.st # "idle" /\ sendOlp' = Taken(sendOlp)
        \/ UNCHANGED <<sendIo, sendOlp>> /\ recvIo.st # "idle"
    BY <1>12 DEF OnClosed
  <2>3. alive
    BY <1>1, <2>2 DEF LifeInv, Busy, SendInv, RecvInv
  <2>4. sendOlp'.opp \in {sendOlp.opp, "NONE"}
    BY <1>1, <2>2 DEF Taken, SendTypeOK, SendOlps
  <2>5. sendOlp'.opp # "NONE" => sendOlp' = sendOlp /\ sendIo' = sendIo
    BY <1>1, <2>2 DEF Taken, SendTypeOK, SendOlps
  <2>6. status # "DISCONNECT"
    BY <1>1, <2>1 DEF LifeInv
  <2>7. AttemptInv => AttemptInv'
    BY <2>1, <2>5, <2>6 DEF AttemptInv
  <2> QED BY <1>1, <2>1, <2>3, <2>7 DEF LifeInv
<1>13. CASE KernelSend
  <2>1. UNCHANGED <<open, status, alive, sendOlp, recvOlp, listed>>
    BY <1>13 DEF KernelSend, KConnect, KSend, KAbortSend, sock, recvVar, waitVar
  <2>2. CASE \E n \in 1..sendOlp.ipos : KSend(n)
    <3>1. peer \in {"up", "fin"} /\ peer' = peer
      BY <2>2 DEF KSend
    <3>2. PICK n \in 1..sendOlp.ipos : sendIo' = Done(TRUE, n)
      BY <2>2 DEF KSend
    <3>3. sendIo'.st = "done" /\ sendIo'.ok
      <4>1. n \in Nat
        BY <1>1, SendLength DEF SendTypeOK, SendOlps
      <4> QED BY <3>2, <4>1, IoStates
    <3> QED BY <1>1, <2>1, <3>1, <3>3 DEF LifeInv, AttemptInv, Busy
  <2>3. ASSUME NEW ok \in BOOLEAN, KConnect(ok) PROVE LifeInv'
    <3>1. /\ peer = "none" /\ sendIo.st = "flight" /\ sendIo' = Done(ok, 0)
          /\ peer' = (IF ok THEN "up" ELSE peer)
      BY <2>3 DEF KConnect
    <3>2. sendIo'.st = "done" /\ sendIo'.ok = ok /\ sendOlp.opp # "NONE"
      BY <1>1, <3>1, IoStates DEF SendInv
    <3> QED BY <1>1, <2>1, <3>1, <3>2 DEF LifeInv, AttemptInv, Busy
  <2>4. ASSUME NEW ok \in BOOLEAN, KAbortSend(ok) PROVE LifeInv'
    <3>1. sendIo.st = "flight" /\ peer' = peer /\ sendOlp.opp # "NONE"
      BY <1>1, <2>4 DEF KAbortSend, SendInv
    <3> QED BY <1>1, <2>1, <3>1 DEF LifeInv, AttemptInv, Busy
  <2> QED BY <1>13, <2>2, <2>3, <2>4 DEF KernelSend
<1>14. ASSUME NEW how \in PeerEnds, PeerEnd(how) PROVE LifeInv'
  <2>1. /\ peer # "none" /\ peer' # "none"
        /\ UNCHANGED <<open, status, alive, sendOlp, sendIo, recvOlp, listed>>
    BY <1>14, SocketAssumption DEF PeerEnd, SocketAssumption, sock, sendVar, recvVar, waitVar
  <2> QED BY <1>1, <2>1 DEF LifeInv, AttemptInv, Busy
<1> QED BY <1>2, <1>3, <1>4, <1>5, <1>6, <1>7, <1>8, <1>9, <1>10, <1>11, <1>12, <1>13, <1>14
        DEF Next, Application, Update

\* Every step keeps the types of the socket, the selector's books and the application.
LEMMA SockTypes ==
  ASSUME TypeOK, SocketInv, [Next]_vars
  PROVE  SockTypeOK'
<1>1. SockTypeOK /\ CtlMasks \subseteq SUBSET (Events \cup Flags) /\ Hows \subseteq {"recv", "send", "both"}
      /\ PeerEnds \subseteq {"fin", "reset"}
  BY SocketAssumption DEF TypeOK, SocketAssumption
<1>2. CASE Application
  <2>1. /\ open' \in BOOLEAN /\ alive' \in BOOLEAN /\ listed' \in BOOLEAN
        /\ peer' = peer /\ pc' \in {"user", "wait"}
    BY <1>1, <1>2 DEF Application, Connect, Close, Wait, Send, Recv, Shutdown, Ctl, sendVar, recvVar,
                      waitVar, sock, SockTypeOK
  <2>2. CASE Connect \/ Close \/ (\E how \in Hows : Shutdown(how))
    BY <1>1, <2>1, <2>2 DEF Connect, Close, Shutdown, Issued, PostResults, waitVar, SockTypeOK, Statuses
  <2>3. CASE Wait
    <3>1. Detected \subseteq Events
      BY DEF Detected, Events
    <3>2. /\ evMask' \subseteq Events \cup Flags /\ ev' \subseteq Events
      BY <1>1, <2>3, <3>1 DEF Wait, MaskEvent, SockTypeOK
    <3>3. UNCHANGED sock
      BY <2>3 DEF Wait
    <3> QED BY <1>1, <2>1, <3>2, <3>3 DEF SockTypeOK, sock
  <2>4. ASSUME NEW len \in 1..(MaxOut - sent), Send(len) PROVE SockTypeOK'
    <3>1. UNCHANGED <<shutdownFlag, waitVar>>
      BY <2>4 DEF Send
    <3>2. \/ status' = status /\ lastError' \in {"ESHUTDOWN", "EAGAIN"}
          \/ \E pr \in PostResults : BreakUnlessFine(pr)
      BY <2>4, Zenon DEF Send
    <3>3. status' \in Statuses /\ lastError' \in {"none", "EAGAIN", "ESHUTDOWN", "FAILED"}
      BY <1>1, <3>2 DEF BreakUnlessFine, Break, Fine, PostResults, Statuses, SockTypeOK
    <3> QED BY <1>1, <2>1, <3>1, <3>3 DEF SockTypeOK, waitVar
  <2>5. ASSUME NEW len \in 1..RECV_BUF_LEN, Recv(len) PROVE SockTypeOK'
    <3>1. UNCHANGED <<shutdownFlag, waitVar>>
      BY <2>5 DEF Recv
    <3>2. \/ status' = status /\ lastError' \in {lastError, "ESHUTDOWN", "EAGAIN"}
          \/ \E pr \in PostResults : ~Fine(pr) /\ Break(pr)
      BY <2>5, Zenon DEF Recv
    <3>3. status' \in Statuses /\ lastError' \in {"none", "EAGAIN", "ESHUTDOWN", "FAILED"}
      BY <1>1, <3>2 DEF Break, Fine, PostResults, Statuses, SockTypeOK
    <3> QED BY <1>1, <2>1, <3>1, <3>3 DEF SockTypeOK, waitVar
  <2>6. ASSUME NEW mask \in CtlMasks, Ctl(mask) PROVE SockTypeOK'
    <3>1. UNCHANGED <<shutdownFlag, ev>> /\ evMask' \subseteq Events \cup Flags
      BY <1>1, <2>6 DEF Ctl, Events, Flags
    <3>2. UNCHANGED <<status, lastError>> \/ \E pr \in PostResults : BreakUnlessFine(pr)
      BY <2>6, Zenon DEF Ctl
    <3>3. status' \in Statuses /\ lastError' \in {"none", "EAGAIN", "ESHUTDOWN", "FAILED"}
      BY <1>1, <3>2 DEF BreakUnlessFine, Break, Fine, PostResults, Statuses, SockTypeOK
    <3> QED BY <1>1, <2>1, <3>1, <3>3 DEF SockTypeOK
  <2> QED BY <1>2, <2>2, <2>3, <2>4, <2>5, <2>6 DEF Application
<1>3. CASE Update \/ Timeout
  <2>1. UNCHANGED <<open, alive, listed, peer, shutdownFlag>> /\ pc' \in {"user", "wait"}
    BY <1>3 DEF Update, OnConnect, OnSend, OnRecv, OnClosed, Timeout, Resume, sock
  <2>2. status' \in Statuses /\ lastError' \in {"none", "EAGAIN", "ESHUTDOWN", "FAILED"}
    BY <1>1, <1>3 DEF Update, OnConnect, OnSend, OnRecv, OnClosed, Timeout, sock, SockTypeOK,
                      BreakUnlessFine, Break, Fine, PostResults, Statuses
  <2>3. evMask' \subseteq Events \cup Flags /\ ev' \subseteq Events
    BY <1>1, <1>3 DEF Update, OnConnect, OnSend, OnRecv, OnClosed, Timeout, Resume, MaskEvent,
                      SockTypeOK, Events, Flags
  <2> QED BY <1>1, <2>1, <2>2, <2>3 DEF SockTypeOK
<1>4. CASE KernelSend \/ KernelRecv \/ UNCHANGED vars \/ \E how \in PeerEnds : PeerEnd(how)
  <2>1. UNCHANGED <<sock, waitVar, alive>> /\ peer' \in {"none", "up", "fin", "reset"}
    BY <1>1, <1>4 DEF KernelSend, KernelRecv, PeerEnd, KConnect, KSend, KAbortSend, KRecv, KRecvFin,
                      KAbortRecv, vars, SockTypeOK
  <2> QED BY <1>1, <2>1 DEF SockTypeOK, sock, waitVar
<1> QED BY <1>2, <1>3, <1>4 DEF Next

-----------------------------------------------------------------------------
(* The theorems.                                                            *)

\* The initial state.
LEMMA InitInv == Init => TypeOK /\ SocketInv
<1> SUFFICES ASSUME Init PROVE TypeOK /\ SocketInv
  OBVIOUS
<1>1. /\ sendBuf \in [1..SEND_BUF_LEN -> Nat] /\ recvBuf \in [1..RECV_BUF_LEN -> Nat]
      /\ sendOlp \in SendOlps /\ recvOlp \in RecvOlps
  BY SendLength, RecvLength DEF Init, SendOlps, RecvOlps
<1>2. <<>> \in Seq(Nat) /\ Len(<<>>) = 0 /\ DOMAIN <<>> = {}
  OBVIOUS
<1>3. SendTypeOK
  BY <1>1, <1>2, Bounds, IoStates DEF Init, SendTypeOK
<1>4. RecvTypeOK
  BY <1>1, <1>2, Bounds, IoStates DEF Init, RecvTypeOK
<1>5. SockTypeOK
  BY DEF Init, SockTypeOK, Statuses
<1>6. SendInv
  BY <1>2, SendLength, IoStates DEF Init, SendInv, SendOrder, SendContent, FullIsArmed, WireInOrder
<1>7. RecvInv
  BY <1>2, RecvLength, IoStates DEF Init, RecvInv, RecvContent, ReadInOrder
<1>8. LifeInv
  BY DEF Init, LifeInv, AttemptInv
<1> QED BY <1>3, <1>4, <1>5, <1>6, <1>7, <1>8 DEF TypeOK, SocketInv

\* The inductive step.
LEMMA StepInv == TypeOK /\ SocketInv /\ [Next]_vars => TypeOK' /\ SocketInv'
BY SendStep, RecvStep, LifeStep, SockTypes DEF TypeOK, SocketInv

\* The conjuncts above, as one invariant of the specification.
LEMMA Inductive == Spec => [](TypeOK /\ SocketInv)
<1>1. (TypeOK /\ SocketInv) /\ [Next]_vars => (TypeOK /\ SocketInv)'
  BY StepInv
<1> QED BY InitInv, <1>1, PTL DEF Spec

\* Whatever the application, the kernel and the peer do, every variable keeps its type: the
\* positions ipos and upos of IOCPOVERLAPPED stay inside their buffers.
THEOREM TypeCorrect == Spec => []TypeOK
BY Inductive, PTL

\* The receive buffer, and with the rule "connect" the send buffer, holds the bytes the
\* streams say, operations and structures agree, and the object is only deleted without any:
\* the invariant every other theorem follows from.
THEOREM SocketCorrect == Spec => []SocketInv
BY Inductive, PTL

\* send(), postSend() and onSend() put the accepted bytes on the wire exactly once, in order,
\* unless connect() is called on a socket that is connected or connecting.
THEOREM WireCorrect == ASSUME ConnectsOnce PROVE Spec => []WireInOrder
<1>1. SocketInv => WireInOrder
  BY DEF SocketInv, SendInv, SendOrder
<1> QED BY <1>1, SocketCorrect, PTL

\* onRecv(), recv() and postRecv() hand the peer's bytes over exactly once, in order.
THEOREM ReadCorrect == Spec => []ReadInOrder
<1>1. SocketInv => ReadInOrder
  BY DEF SocketInv, RecvInv
<1> QED BY <1>1, SocketCorrect, PTL

\* No byte the kernel delivered disappears between the kernel and recv().
THEOREM InboundKept == Spec => []NoInboundLoss
<1>1. TypeOK /\ SocketInv => NoInboundLoss
  <2> SUFFICES ASSUME TypeOK, SocketInv, open
               PROVE inCount = Len(got) + (recvOlp.ipos - recvOlp.upos) + recvIo.n
    BY DEF NoInboundLoss
  <2>1. /\ recvOlp.ipos \in Nat /\ recvOlp.upos \in Nat /\ Len(got) \in Nat /\ recvIo.n \in Nat
    BY DEF TypeOK, RecvTypeOK, RecvOlps, IoState
  <2>2. inCount = Len(got) + recvOlp.ipos - recvOlp.upos + recvIo.n
    BY DEF SocketInv, RecvInv, RecvContent
  <2> QED BY <2>1, <2>2
<1> QED BY <1>1, Inductive, PTL

\* No byte send() accepted disappears from the send buffer while the connection lives,
\* unless connect() is called on a socket that is connected or connecting.
THEOREM OutboundKept == ASSUME ConnectsOnce PROVE Spec => []NoOutboundLoss
<1>1. SocketInv => NoOutboundLoss
  BY DEF SocketInv, SendInv, SendOrder, SendContent, NoOutboundLoss
<1> QED BY <1>1, SocketCorrect, PTL

\* close() deletes the object only when no operation and no packet refers to it any more.
THEOREM DeletionIsSafe == Spec => []DeletedIsIdle
<1>1. TypeOK /\ SocketInv => DeletedIsIdle
  <2> SUFFICES ASSUME TypeOK, SocketInv, ~alive
               PROVE sendIo = Idle /\ recvIo = Idle /\ ~listed
    BY DEF DeletedIsIdle
  <2>1. ~listed /\ sendOlp.opp = "NONE" /\ recvOlp.opp = "NONE"
    BY DEF SocketInv, LifeInv, Busy
  <2>2. sendIo \in IoState /\ sendIo.st = "idle" /\ sendIo.n = 0 /\ sendIo.ok = FALSE
    BY <2>1 DEF SocketInv, SendInv, TypeOK, SendTypeOK, IoState
  <2>3. recvIo \in IoState /\ recvIo.st = "idle" /\ recvIo.n = 0 /\ recvIo.ok = FALSE
    BY <2>1 DEF SocketInv, RecvInv, TypeOK, RecvTypeOK, IoState
  <2> QED BY <2>1, <2>2, <2>3 DEF IoState, Idle
<1> QED BY <1>1, Inductive, PTL

\* An OVERLAPPED the kernel still uses is never taken for a free one, and a read is only
\* under way on an empty buffer.
THEOREM MarkCorrect == Spec => []OutstandingIsMarked
<1>1. SocketInv => OutstandingIsMarked
  BY DEF SocketInv, SendInv, RecvInv, OutstandingIsMarked
<1> QED BY <1>1, SocketCorrect, PTL

\* One step of send(): behind an operation under way it only appends.
LEMMA SendAppends ==
  ASSUME TypeOK, SocketInv, NEW len \in 1..(MaxOut - sent), Send(len), sendOlp.opp = "SEND"
  PROVE  /\ sendOlp'.ipos = sendOlp.ipos
         /\ \A i \in 1..sendOlp.ipos : sendBuf'[i] = sendBuf[i]
<1> DEFINE n == IF len > Room THEN Room ELSE len
           o == [sendOlp EXCEPT !.upos = @ + n, !.et = @ \/ Fills(n)]
           b == [i \in 1..SEND_BUF_LEN |->
                  IF i > sendOlp.upos /\ i <= sendOlp.upos + n
                  THEN sent + i - sendOlp.upos ELSE sendBuf[i]]
<1>1. \/ UNCHANGED <<sendOlp, sendBuf>>
      \/ \E pr \in PostResults : PostSend(o, b, sendIo, pr)
  BY Zenon DEF Send
<1>2. o.opp = "SEND" /\ o.ipos = sendOlp.ipos
  BY DEF TypeOK, SendTypeOK, SendOlps
<1>3. \A i \in 1..sendOlp.ipos : b[i] = sendBuf[i]
  <2>1. /\ sendOlp.ipos \in Nat /\ sendOlp.upos \in Nat /\ sendOlp.ipos <= sendOlp.upos
        /\ sendOlp.upos <= SEND_BUF_LEN
    BY SendLength DEF TypeOK, SocketInv, SendTypeOK, SendOlps, SendInv
  <2>2. ASSUME NEW i \in 1..sendOlp.ipos PROVE i \in 1..SEND_BUF_LEN /\ ~(i > sendOlp.upos)
    BY <2>1, SendLength
  <2> QED BY <2>2
<1> HIDE DEF o, b
<1>4. ASSUME NEW pr, PostSend(o, b, sendIo, pr) PROVE sendOlp' = o /\ sendBuf' = b
  <2>1. Outstanding(o)
    BY <1>2 DEF Outstanding
  <2> QED BY <1>4, <2>1, Zenon DEF PostSend
<1> QED BY <1>1, <1>2, <1>3, <1>4

\* While WSASend owns the submitted part of the send buffer, send() and postSend() leave it
\* where it is and as it is.
THEOREM KernelOwnership == Spec => KernelOwnsRegion
<1> DEFINE Owns == sendIo.st = "flight" /\ sendIo'.st = "flight" /\ sendOlp.opp = "SEND" =>
                     /\ sendOlp'.ipos = sendOlp.ipos
                     /\ \A i \in 1..sendOlp.ipos : sendBuf'[i] = sendBuf[i]
<1>1. TypeOK /\ SocketInv /\ [Next]_vars => [Owns]_vars
  <2> SUFFICES ASSUME TypeOK, SocketInv, [Next]_vars,
                      sendIo.st = "flight", sendIo'.st = "flight", sendOlp.opp = "SEND"
               PROVE  /\ sendOlp'.ipos = sendOlp.ipos
                      /\ \A i \in 1..sendOlp.ipos : sendBuf'[i] = sendBuf[i]
    OBVIOUS
  <2>1. ASSUME NEW len \in 1..(MaxOut - sent), Send(len)
        PROVE  /\ sendOlp'.ipos = sendOlp.ipos
               /\ \A i \in 1..sendOlp.ipos : sendBuf'[i] = sendBuf[i]
    BY <2>1, SendAppends
  <2>2. CASE UNCHANGED <<sendOlp, sendBuf>>
    BY <2>2
  <2>3. CASE ~(\E len \in 1..(MaxOut - sent) : Send(len))
    <3>0. CASE Connect
      <4>1. sendOlp' = (IF open THEN [sendOlp EXCEPT !.opp = "CONNECT"] ELSE sendOlp)
        BY <3>0 DEF Connect
      <4>2. sendOlp'.ipos = sendOlp.ipos /\ sendBuf' = sendBuf
        BY <3>0, <4>1 DEF Connect, TypeOK, SendTypeOK, SendOlps
      <4> QED BY <4>2
    <3>1. CASE Application /\ ~Connect
      BY <2>3, <3>1 DEF Application, Close, Wait, Recv, Shutdown, Ctl, sendVar
    <3>2. CASE Update
      <4>1. CASE OnConnect \/ OnSend
        BY <4>1 DEF OnConnect, OnSend
      <4>2. CASE OnRecv \/ OnClosed
        BY <4>2 DEF OnRecv, OnClosed, sendVar
      <4> QED BY <3>2, <4>1, <4>2 DEF Update
    <3>3. CASE Timeout \/ KernelSend \/ KernelRecv \/ UNCHANGED vars \/ \E how \in PeerEnds : PeerEnd(how)
      BY <3>3 DEF Timeout, KernelSend, KernelRecv, KConnect, KSend, KAbortSend, KRecv, KRecvFin,
                  KAbortRecv, PeerEnd, vars, sendVar
    <3> QED BY <3>0, <3>1, <3>2, <3>3 DEF Next
  <2> QED BY <2>1, <2>3
<1> QED BY <1>1, Inductive, PTL DEF Spec, KernelOwnsRegion

\* When onSend() reports ERROR after a successful send, the socket is shut down and every
\* accepted byte has gone out: an application that connects once may close it without
\* losing any.
THEOREM DrainReportCorrect == ASSUME ConnectsOnce PROVE Spec => DrainReportIsTrue
<1> DEFINE Told == OnSend /\ sendIo.ok /\ "ERROR" \in ev' => Len(wire) = sent
<1>1. TypeOK /\ SocketInv /\ [Next]_vars => [Told]_vars
  <2> SUFFICES ASSUME TypeOK, SocketInv, OnSend, sendIo.ok, "ERROR" \in ev'
               PROVE  Len(wire) = sent
    OBVIOUS
  <2> DEFINE o == [Taken(sendOlp) EXCEPT !.ipos = Transferred, !.et = @ /\ "ET" \notin evMask]
             fires == "ET" \notin evMask \/ sendOlp.et
  <2>1. sendIo.n # 0
    <3>1. ASSUME sendIo.n = 0 PROVE FALSE
      <4>1. ~(sendIo.n > 0)
        BY <3>1
      <4>2. Resume({"HANGUP"})
        BY <4>1, Zenon DEF OnSend
      <4> QED BY <4>2 DEF Resume, MaskEvent
    <3> QED BY <3>1
  <2>2. PICK pr \in PostResults :
           /\ PostSend(o, sendBuf, Idle, pr)
           /\ Resume(IF pr = "ESHUTDOWN" THEN {"ERROR"} ELSE IF fires THEN {"OUT"} ELSE {})
    BY <2>1, Zenon DEF OnSend
  <2>3. pr = "ESHUTDOWN"
    BY <2>2 DEF Resume, MaskEvent
  <2>4. /\ sendIo.n \in Nat /\ sendOlp.upos \in Nat /\ Len(wire) \in Nat /\ sendOlp.opp = "SEND"
        /\ sent = Len(wire) + sendOlp.upos - sendIo.n
    BY <2>1, SendLength
       DEF OnSend, TypeOK, SendTypeOK, SendOlps, IoState, SocketInv, SendInv, SendOrder, SendContent
  <2>5. o.upos = sendOlp.upos /\ o.ipos = sendIo.n
    BY DEF Taken, Transferred, TypeOK, SendTypeOK, SendOlps
  <2> HIDE DEF o
  <2>6. o.upos - o.ipos = 0
    <3>1. ~Issued(Linked, "ESHUTDOWN") /\ "ESHUTDOWN" # "BUSY"
      BY DEF Issued
    <3> QED BY <2>2, <2>3, <3>1, Zenon DEF PostSend
  <2> QED BY <2>4, <2>5, <2>6
<1> QED BY <1>1, Inductive, PTL DEF Spec, DrainReportIsTrue

-----------------------------------------------------------------------------
(* The refinement: a connection implements two bounded pipes of bytes.      *)

\* A sequence whose i-th element is i is Bytes of its length.
LEMMA OrderedIsBytes ==
  ASSUME NEW w \in Seq(Nat), \A i \in DOMAIN w : w[i] = i
  PROVE  w = [i \in 1..Len(w) |-> i]
<1>1. w \in [1..Len(w) -> Nat] /\ DOMAIN w = 1..Len(w)
  BY LenProperties
<1> QED BY <1>1

\* The state of both pipes: what came out is Bytes of its number and was put in before, and
\* while a direction is up it holds no more than its buffer.
OutboundState ==
  /\ Len(wire) \in Nat /\ sent \in Nat /\ Len(wire) <= sent
  /\ wire = [i \in 1..Len(wire) |-> i]
  /\ open /\ peer # "reset" => sent - Len(wire) <= SEND_BUF_LEN

InboundState ==
  /\ Len(got) \in Nat /\ inCount \in Nat /\ Len(got) <= inCount
  /\ got = [i \in 1..Len(got) |-> i]
  /\ inCount - Len(got) <= RECV_BUF_LEN

\* The invariant of the connection says as much.
LEMMA OutboundStates ==
  ASSUME ConnectsOnce, TypeOK, SocketInv
  PROVE  OutboundState
<1>1. wire \in Seq(Nat) /\ Len(wire) <= sent /\ \A i \in DOMAIN wire : wire[i] = i
  BY DEF TypeOK, SendTypeOK, SocketInv, SendInv, SendOrder, WireInOrder
<1>2. wire = [i \in 1..Len(wire) |-> i] /\ Len(wire) \in Nat
  BY <1>1, OrderedIsBytes, LenProperties
<1>3. sent \in Nat
  BY Bounds DEF TypeOK, SendTypeOK
<1>4. ASSUME open, peer # "reset" PROVE sent - Len(wire) <= SEND_BUF_LEN
  <2>1. /\ sent = Len(wire) + sendOlp.upos - sendIo.n
        /\ sendIo.n \in Nat /\ sendOlp.upos \in Nat /\ sendOlp.upos <= SEND_BUF_LEN
    BY <1>4, SendLength
       DEF SocketInv, SendInv, SendOrder, SendContent, TypeOK, SendTypeOK, SendOlps, IoState
  <2> QED BY ONLY <2>1, <1>2, SendLength
<1> QED BY <1>1, <1>2, <1>3, <1>4 DEF OutboundState

LEMMA InboundStates ==
  ASSUME TypeOK, SocketInv
  PROVE  InboundState
<1>1. got \in Seq(Nat) /\ Len(got) <= inCount /\ \A i \in DOMAIN got : got[i] = i
  BY DEF TypeOK, RecvTypeOK, SocketInv, RecvInv, ReadInOrder
<1>2. got = [i \in 1..Len(got) |-> i] /\ Len(got) \in Nat
  BY <1>1, OrderedIsBytes, LenProperties
<1>3. inCount \in Nat /\ inCount <= Len(got) + RECV_BUF_LEN
  BY Bounds DEF TypeOK, RecvTypeOK, SocketInv, RecvInv
<1> QED BY <1>1, <1>2, <1>3, RecvLength DEF InboundState

\* What a step may do to the outbound pipe.
LEMMA OutboundMoves ==
  ASSUME TypeOK, SocketInv, [Next]_vars
  PROVE  \/ UNCHANGED <<open, peer, wire>> /\ sent' >= sent
         \/ open /\ peer # "reset" /\ UNCHANGED <<open, peer, sent>> /\ Len(wire') > Len(wire)
         \/ open' = FALSE /\ UNCHANGED <<peer, sent, wire>>
         \/ UNCHANGED <<open, sent, wire>> /\ (peer = "reset" => peer' = "reset")
<1>0. sent \in Nat
  BY Bounds DEF TypeOK, SendTypeOK
<1>1. CASE Application
  <2>1. ASSUME NEW len \in 1..(MaxOut - sent), Send(len)
        PROVE  UNCHANGED <<open, peer, wire>> /\ sent' >= sent
    <3> DEFINE n == IF len > Room THEN Room ELSE len
    <3>1. UNCHANGED <<open, peer, wire>> /\ (sent' = sent \/ (n > 0 /\ sent' = sent + n))
      BY <2>1 DEF Send
    <3>2. Room \in Int /\ len \in Int
      BY SendLength, Bounds, <1>0 DEF Room, TypeOK, SendTypeOK, SendOlps
    <3> QED BY <1>0, <3>1, <3>2
  <2>2. CASE Close
    BY <2>2 DEF Close, sendVar
  <2>3. ASSUME ~Close, ~(\E len \in 1..(MaxOut - sent) : Send(len))
        PROVE  UNCHANGED <<open, peer, wire, sent>>
    BY <1>1, <2>3 DEF Application, Connect, Wait, Recv, Shutdown, Ctl, sendVar, sock
  <2> QED BY <1>0, <2>1, <2>2, <2>3
<1>2. CASE Update
  <2>1. UNCHANGED <<open, peer, wire, sent>>
    BY <1>2 DEF Update, OnConnect, OnSend, OnRecv, OnClosed, sendVar, sock
  <2> QED BY <1>0, <2>1
<1>3. CASE KernelSend
  <2>1. ASSUME NEW ok \in BOOLEAN, KConnect(ok)
        PROVE  UNCHANGED <<open, sent, wire>> /\ (peer = "reset" => peer' = "reset")
    <3>1. peer = "none"
      BY <2>1 DEF KConnect
    <3> QED BY <2>1, <3>1 DEF KConnect, sock
  <2>2. ASSUME NEW ok \in BOOLEAN, KAbortSend(ok)
        PROVE  UNCHANGED <<open, peer, sent, wire>>
    BY <2>2 DEF KAbortSend, sock
  <2>3. ASSUME NEW n \in 1..sendOlp.ipos, KSend(n)
        PROVE  open /\ peer # "reset" /\ UNCHANGED <<open, peer, sent>> /\ Len(wire') > Len(wire)
    <3>1. /\ wire \in Seq(Nat) /\ n \in Nat /\ n > 0 /\ n <= SEND_BUF_LEN
          /\ sendBuf \in [1..SEND_BUF_LEN -> Nat]
      BY SendLength DEF TypeOK, SendTypeOK, SendOlps
    <3>2. /\ SubSeq(sendBuf, 1, n) \in Seq(Nat) /\ Len(SubSeq(sendBuf, 1, n)) = n
      <4>1. sendBuf \in Seq(Nat) /\ Len(sendBuf) = SEND_BUF_LEN
        BY <3>1, SendLength, SeqDef, LenProperties
      <4> QED BY <3>1, <4>1, SubSeqProperties, SendLength
    <3>3. Len(wire \o SubSeq(sendBuf, 1, n)) = Len(wire) + n /\ Len(wire) \in Nat
      BY <3>1, <3>2, ConcatProperties, LenProperties
    <3> QED BY <2>3, <3>1, <3>3 DEF KSend, sock
  <2> QED BY <1>0, <1>3, <2>1, <2>2, <2>3 DEF KernelSend
<1>4. CASE Timeout \/ KernelRecv \/ UNCHANGED vars
  <2>1. UNCHANGED <<open, peer, wire, sent>>
    BY <1>4 DEF Timeout, KernelRecv, KRecv, KRecvFin, KAbortRecv, sendVar, sock, vars
  <2> QED BY <1>0, <2>1
<1>5. ASSUME NEW how \in PeerEnds, PeerEnd(how)
      PROVE  UNCHANGED <<open, sent, wire>> /\ (peer = "reset" => peer' = "reset")
  BY <1>5 DEF PeerEnd, sock, sendVar
<1> QED BY <1>1, <1>2, <1>3, <1>4, <1>5 DEF Next

\* A step of the connection is a step of the outbound pipe or leaves it alone.
LEMMA OutboundStep ==
  ASSUME TypeOK, SocketInv, OutboundState, OutboundState', [Next]_vars
  PROVE  [Outbound!Next]_Outbound!pipe
<1>1. CASE UNCHANGED <<open, peer, wire>> /\ sent' >= sent
  <2>1. sent' = sent \/ sent' > sent
    BY <1>1 DEF OutboundState
  <2>2. open /\ peer # "reset" => sent' - Len(wire) <= SEND_BUF_LEN
    BY <1>1 DEF OutboundState
  <2> QED BY <1>1, <2>1, <2>2 DEF Outbound!Next, Outbound!Put, Outbound!pipe
<1>2. CASE open /\ peer # "reset" /\ UNCHANGED <<open, peer, sent>> /\ Len(wire') > Len(wire)
  <2>1. Len(wire') \in (Len(wire) + 1)..sent
    BY <1>2 DEF OutboundState
  <2>2. wire' = [i \in 1..Len(wire') |-> i]
    BY DEF OutboundState
  <2> QED BY <1>2, <2>1, <2>2 DEF Outbound!Next, Outbound!Take, Outbound!Bytes
<1>3. CASE open' = FALSE /\ UNCHANGED <<peer, sent, wire>>
  BY <1>3 DEF Outbound!Next, Outbound!Fail, Outbound!pipe
<1>4. CASE UNCHANGED <<open, sent, wire>> /\ (peer = "reset" => peer' = "reset")
  BY <1>4 DEF Outbound!Next, Outbound!Fail, Outbound!pipe
<1> QED BY <1>1, <1>2, <1>3, <1>4, OutboundMoves

\* What a step may do to the inbound pipe.
LEMMA InboundMoves ==
  ASSUME TypeOK, SocketInv, InboundState, [Next]_vars
  PROVE  \/ UNCHANGED <<alive, got>> /\ inCount' >= inCount
         \/ alive /\ UNCHANGED <<alive, inCount>> /\ Len(got') >= Len(got)
         \/ alive' = FALSE /\ UNCHANGED <<inCount, got>>
<1>0. inCount \in Nat /\ inCount >= inCount
  BY DEF InboundState
<1>1. CASE Application
  <2>1. ASSUME NEW len \in 1..RECV_BUF_LEN, Recv(len)
        PROVE  alive /\ UNCHANGED <<alive, inCount>> /\ Len(got') >= Len(got)
    <3> DEFINE piece == SubSeq(recvBuf, recvOlp.upos + 1, recvOlp.upos + Handed(len))
    <3>1. alive /\ UNCHANGED <<alive, inCount>> /\ (got' = got \/ got' = got \o piece)
      BY <2>1 DEF Recv, Calls
    <3>2. /\ recvOlp.upos \in 0..RECV_BUF_LEN /\ recvOlp.ipos \in 0..RECV_BUF_LEN
          /\ recvOlp.upos <= recvOlp.ipos /\ len \in Nat
      BY RecvLength DEF TypeOK, RecvTypeOK, RecvOlps, SocketInv, RecvInv
    <3>3. Handed(len) \in Nat /\ recvOlp.upos + Handed(len) <= RECV_BUF_LEN
      BY <3>2, RecvLength DEF Handed, Unread
    <3>4. recvBuf \in [1..RECV_BUF_LEN -> Nat] /\ got \in Seq(Nat)
      BY DEF TypeOK, RecvTypeOK
    <3>5. piece \in Seq(Nat)
      <4> DEFINE f == recvOlp.upos + 1
                 g == recvOlp.upos + Handed(len)
      <4>1. f \in 1..(RECV_BUF_LEN + 1) /\ g \in 0..RECV_BUF_LEN
        BY <3>2, <3>3, RecvLength
      <4>2. piece = SubSeq(recvBuf, f, g)
        OBVIOUS
      <4> HIDE DEF f, g, piece
      <4>3. \A i \in f..g : recvBuf[i] \in Nat
        BY <3>4, <4>1, RecvLength
      <4> QED BY <4>1, <4>2, <4>3, SubSeqProperties, RecvLength
    <3> HIDE DEF piece
    <3>6. Len(got \o piece) = Len(got) + Len(piece) /\ Len(got) \in Nat /\ Len(piece) \in Nat
      BY <3>4, <3>5, ConcatProperties, LenProperties
    <3>7. Len(got \o piece) >= Len(got)
      BY ONLY <3>6
    <3> QED BY <3>1, <3>6, <3>7
  <2>2. CASE Close
    BY <1>0, <2>2 DEF Close, recvVar
  <2>3. ASSUME ~Close, ~(\E len \in 1..RECV_BUF_LEN : Recv(len))
        PROVE  UNCHANGED <<alive, got, inCount>>
    BY <1>1, <2>3 DEF Application, Connect, Wait, Send, Shutdown, Ctl, recvVar, sock
  <2> QED BY <1>0, <2>1, <2>2, <2>3
<1>2. CASE Update
  <2>1. UNCHANGED <<alive, got, inCount>>
    BY <1>2 DEF Update, OnConnect, OnSend, OnRecv, OnClosed, recvVar, sock
  <2> QED BY <1>0, <2>1
<1>3. CASE KernelRecv
  <2>1. ASSUME NEW n \in 1..RECV_BUF_LEN, KRecv(n)
        PROVE  UNCHANGED <<alive, got>> /\ inCount' >= inCount
    BY <1>0, <2>1, RecvLength DEF KRecv, sock
  <2>2. CASE KRecvFin \/ KAbortRecv
    BY <1>0, <2>2 DEF KRecvFin, KAbortRecv, sock
  <2> QED BY <1>3, <2>1, <2>2 DEF KernelRecv
<1>4. CASE Timeout \/ KernelSend \/ UNCHANGED vars \/ \E how \in PeerEnds : PeerEnd(how)
  <2>1. UNCHANGED <<alive, got, inCount>>
    BY <1>4 DEF Timeout, KernelSend, KConnect, KAbortSend, KSend, PeerEnd, recvVar, sock, vars
  <2> QED BY <1>0, <2>1
<1> QED BY <1>1, <1>2, <1>3, <1>4 DEF Next

\* A step of the connection is a step of the inbound pipe or leaves it alone.
LEMMA InboundStep ==
  ASSUME TypeOK, SocketInv, InboundState, InboundState', [Next]_vars
  PROVE  [Inbound!Next]_Inbound!pipe
<1>1. CASE UNCHANGED <<alive, got>> /\ inCount' >= inCount
  <2>1. inCount' = inCount \/ inCount' > inCount
    BY <1>1 DEF InboundState
  <2>2. alive => inCount' - Len(got) <= RECV_BUF_LEN
    BY <1>1 DEF InboundState
  <2> QED BY <1>1, <2>1, <2>2 DEF Inbound!Next, Inbound!Put, Inbound!pipe
<1>2. CASE alive /\ UNCHANGED <<alive, inCount>> /\ Len(got') >= Len(got)
  <2>0. /\ Len(got) \in Nat /\ Len(got') \in Nat /\ Len(got') <= inCount' /\ inCount' = inCount
        /\ inCount \in Nat /\ Len(got') >= Len(got)
    BY <1>2 DEF InboundState
  <2>1. CASE Len(got') = Len(got)
    BY <1>2, <2>1 DEF Inbound!pipe, InboundState
  <2>2. CASE Len(got') > Len(got)
    <3>1. Len(got') \in (Len(got) + 1)..inCount
      BY ONLY <2>0, <2>2
    <3>2. got' = [i \in 1..Len(got') |-> i]
      BY DEF InboundState
    <3> QED BY <1>2, <3>1, <3>2 DEF Inbound!Next, Inbound!Take, Inbound!Bytes
  <2>3. Len(got') = Len(got) \/ Len(got') > Len(got)
    BY ONLY <2>0
  <2> QED BY <2>1, <2>2, <2>3
<1>3. CASE alive' = FALSE /\ UNCHANGED <<inCount, got>>
  BY <1>3 DEF Inbound!Next, Inbound!Fail, Inbound!pipe, TypeOK, SockTypeOK
<1> QED BY <1>1, <1>2, <1>3, InboundMoves

\* Inbound, a connection is a bounded pipe that delivers every byte once and in order: in
\* whatever order the application calls, no byte WSARecv received is lost, repeated or
\* overtaken by onRecv(), recv(), ctl() and postRecv().
THEOREM InboundCorrect == Spec => InboundIsPipe
<1>1. Init => Inbound!Init
  BY DEF Init, Inbound!Init
<1>2. TypeOK /\ SocketInv /\ InboundState /\ InboundState' /\ [Next]_vars
        => [Inbound!Next]_Inbound!pipe
  BY InboundStep
<1>3. TypeOK /\ SocketInv => InboundState
  BY InboundStates
<1> QED BY <1>1, <1>2, <1>3, Inductive, PTL DEF Spec, InboundIsPipe, Inbound!Spec

\* Outbound it is one too, for every application that connects once: no byte send()
\* accepted is lost, repeated or overtaken, or goes out after the end.
THEOREM OutboundCorrect == ASSUME ConnectsOnce PROVE Spec => OutboundIsPipe
<1>1. Init => Outbound!Init
  BY DEF Init, Outbound!Init
<1>2. TypeOK /\ SocketInv /\ OutboundState /\ OutboundState' /\ [Next]_vars
        => [Outbound!Next]_Outbound!pipe
  BY OutboundStep
<1>3. TypeOK /\ SocketInv => OutboundState
  BY OutboundStates
<1> QED BY <1>1, <1>2, <1>3, Inductive, PTL DEF Spec, OutboundIsPipe, Outbound!Spec

=============================================================================
