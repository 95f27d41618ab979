------------------------ MODULE IoSocketSSLImplProofs ------------------------
(***************************************************************************)
(* Proofs about the TLS socket, for every handshake, record and buffer     *)
(* size: an object is only deleted without an operation, wait() never      *)
(* blocks in a handshake without the operation that the engine waits for,  *)
(* and no fragment is lost on its way to the engine.                       *)
(***************************************************************************)
EXTENDS IoSocketSSLImpl, FiniteSetTheorems, TLAPS

\* The structure of an operation under way is marked.
Marked ==
  /\ sendIo = Idle \/ sendOpp # "NONE"
  /\ recvIo = Idle \/ recvOpp # "NONE"

\* A deleted object has no operation, and neither wait() nor the engine works for it.
Dead == ~alive => pc = "user" /\ call = "none" /\ sendOpp = "NONE" /\ recvOpp = "NONE"

LifeInv == Marked /\ Dead

\* postRecv() marks the operation it posts.
LEMMA PostRecvMarks ==
  ASSUME NEW r, PostRecv(r), recvIo = Idle \/ recvOpp # "NONE"
  PROVE  recvIo' = Idle \/ recvOpp' # "NONE"
BY DEF PostRecv

\* So does postSend().
LEMMA PostSendMarks ==
  ASSUME NEW opp, NEW gone, NEW u, NEW io, PostSend(opp, gone, u, io), io = Idle \/ opp # "NONE"
  PROVE  sendIo' = Idle \/ sendOpp' # "NONE"
BY DEF PostSend

\* The BIO calls, inside an SSL function of a live object.
LEMMA EngineLife ==
  ASSUME LifeInv, Engine
  PROVE  LifeInv'
<1>1. alive' = alive /\ alive
  BY DEF LifeInv, Dead, Engine, EngineReturns, AtOnce, BioRead, BioWrite, Works, Fixed
<1>2. CASE EngineReturns
  BY <1>1, <1>2 DEF EngineReturns, recvVar, sendVar, LifeInv, Marked, Dead
<1>3. CASE BioRead
  <2>1. UNCHANGED sendVar /\ ((\E r : PostRecv(r)) \/ UNCHANGED <<recvOpp, recvIo>>)
    BY <1>3 DEF BioRead
  <2> QED BY <1>1, <2>1, PostRecvMarks DEF sendVar, LifeInv, Marked, Dead
<1>4. CASE BioWrite
  <2>1. UNCHANGED recvVar /\ ((\E u : PostSend(sendOpp, ipos, u, sendIo)) \/ UNCHANGED sendVar)
    BY <1>4 DEF BioWrite
  <2> QED BY <1>1, <2>1, PostSendMarks DEF recvVar, sendVar, LifeInv, Marked, Dead
<1> QED BY <1>2, <1>3, <1>4 DEF Engine

\* The application's calls and wait().
LEMMA CallLife ==
  ASSUME LifeInv,
         \/ Connect \/ Recv \/ Send \/ Close \/ Wait
         \/ \E how \in Hows : Shutdown(how)
         \/ \E mask \in CtlMasks : Ctl(mask)
  PROVE  LifeInv'
<1>1. CASE Connect
  BY <1>1 DEF Connect, Calls, sockVar, recvVar, LifeInv, Marked, Dead
<1>2. CASE Recv \/ Send
  BY <1>2 DEF Recv, Send, Calls, sockVar, recvVar, sendVar, LifeInv, Marked, Dead
<1>3. CASE Close
  BY <1>3 DEF Close, Busy, recvVar, sendVar, LifeInv, Marked, Dead
<1>4. CASE Wait \/ \E how \in Hows : Shutdown(how)
  BY <1>4 DEF Wait, Shutdown, Calls, recvVar, sendVar, LifeInv, Marked, Dead
<1>5. ASSUME NEW mask, Ctl(mask) PROVE LifeInv'
  <2>1. alive /\ alive' = alive /\ UNCHANGED sendVar /\ (PostRecv(rx) \/ UNCHANGED recvVar)
    BY <1>5 DEF Ctl, Calls
  <2> QED BY <2>1, PostRecvMarks DEF recvVar, sendVar, LifeInv, Marked, Dead
<1> QED BY <1>1, <1>2, <1>3, <1>4, <1>5

\* The completion handlers, which run for a live object only.
LEMMA UpdateLife ==
  ASSUME LifeInv, Update
  PROVE  LifeInv'
<1>1. alive' = alive /\ alive
  BY DEF LifeInv, Dead, Update, OnConnect, OnSend, OnRecv, OnClosed, Blocked, UpdateKeeps
<1>2. Marked'
  <2>1. CASE OnConnect \/ OnRecv \/ OnClosed
    BY <2>1 DEF OnConnect, OnRecv, OnClosed, recvVar, sendVar, LifeInv, Marked
  <2>2. CASE OnSend
    <3>1. /\ UNCHANGED recvVar
          /\ PostSend("NONE", sendIo.n, upos, Idle) \/ sendIo' = Idle
      BY <2>2 DEF OnSend
    <3> QED BY <3>1, PostSendMarks DEF recvVar, LifeInv, Marked
  <2> QED BY <2>1, <2>2 DEF Update
<1> QED BY <1>1, <1>2 DEF LifeInv, Dead

\* The kernel only finishes what is under way.
LEMMA KernelLife ==
  ASSUME LifeInv, KernelSend \/ KernelRecv \/ \E how \in PeerEnds : PeerEnd(how)
  PROVE  LifeInv'
<1>1. UNCHANGED <<alive, pc, call, sendOpp, recvOpp>>
  BY DEF KernelSend, KernelRecv, KConnect, KSend, KSendEnd, KRecv, KRecvEnd, PeerEnd, KernelKeeps,
         sockVar, recvVar, sendVar
<1>2. /\ sendIo' = sendIo \/ (sendIo.st = "flight")
      /\ recvIo' = recvIo \/ (recvIo.st = "flight")
  BY DEF KernelSend, KernelRecv, KConnect, KSend, KSendEnd, KRecv, KRecvEnd, PeerEnd, recvVar, sendVar
<1> QED BY <1>1, <1>2 DEF LifeInv, Marked, Dead, Idle

\* close() deletes a TLS socket only when neither the kernel nor the port refers to it, and
\* nothing of it starts an operation afterwards.
THEOREM TlsDeletionIsSafe == Spec => []DeletedIsIdle
<1>1. Init => LifeInv
  BY DEF Init, LifeInv, Marked, Dead
<1>2. LifeInv /\ [Next]_vars => LifeInv'
  <2> SUFFICES ASSUME LifeInv, [Next]_vars PROVE LifeInv'
    OBVIOUS
  <2>1. CASE UNCHANGED vars
    BY <2>1 DEF vars, sockVar, recvVar, sendVar, LifeInv, Marked, Dead
  <2>2. CASE Next
    BY <2>2, EngineLife, CallLife, UpdateLife, KernelLife DEF Next
  <2> QED BY <2>1, <2>2
<1>3. LifeInv => DeletedIsIdle
  BY DEF LifeInv, Marked, Dead, DeletedIsIdle
<1> QED BY <1>1, <1>2, <1>3, PTL DEF Spec

-----------------------------------------------------------------------------
(* The handshake.                                                           *)

\* Fragments, positions and control.
Counts ==
  /\ call \in {"none", "handshake", "read", "write"}
  /\ inb \in 0..(REC - 1) /\ outb \in 0..(REC - 1) /\ step \in Nat
  /\ rx \in Nat /\ recvIo.n \in Nat
  /\ ipos \in Nat /\ upos \in 0..BUF_LEN /\ ipos <= upos
  /\ sendIo.n \in Nat /\ sendIo.n <= ipos
  /\ recvOpp \in {"NONE", "RECV"} /\ sendOpp \in {"NONE", "CONNECT", "SEND"}

\* Before the connection nothing has been read or written, and ConnectEx makes the peer.
Unconnected ==
  /\ status = "DISCONNECT" => open /\ call = "none" /\ recvOpp = "NONE" /\ upos = 0
  /\ open /\ sendOpp = "CONNECT" => status = "DISCONNECT"
  /\ sendOpp = "CONNECT" /\ sendIo.ok => peer # "none"

\* On a usable socket a marked structure has an operation, and fragments written one that
\* sends them.
Posted ==
  Usable =>
    /\ peer # "none"
    /\ recvOpp = "RECV" => recvIo.st # "idle"
    /\ sendOpp = "SEND" => sendIo.st # "idle"
    /\ upos > 0 => sendOpp = "SEND"

\* When no SSL function runs, the engine waits for a read on an empty buffer, or for the send
\* buffer to drain; only a server that was never asked for IO_EVENT_IN has no read yet.
Parked ==
  /\ handshaked => HsDone
  /\ call = "none" /\ Usable /\ ~HsDone =>
       IF Wants = "r" THEN rx = 0 /\ (recvOpp = "RECV" \/ ~Started) ELSE sendOpp = "SEND"

HandshakeInv == Counts /\ Unconnected /\ Posted /\ Parked

\* What postRecv() and postSend() leave on a usable socket.
LEMMA PostRecvPosts ==
  ASSUME NEW r \in Nat, PostRecv(r), Counts, Marked, recvOpp = "RECV" => recvIo.st # "idle"
  PROVE  /\ rx' \in Nat /\ recvIo'.n \in Nat /\ recvOpp' \in {"NONE", "RECV"}
         /\ Linked => (recvOpp' = "RECV" => recvIo'.st # "idle")
         /\ r = 0 => recvOpp' = "RECV"
BY DEF PostRecv, Counts, Marked, Flight

LEMMA PostSendFree ==
  ASSUME NEW opp, NEW gone \in Nat, NEW u \in Nat, NEW io, gone <= u, PostSend(opp, gone, u, io),
         opp = "NONE"
  PROVE  /\ upos' \in Nat /\ upos' <= u /\ ipos' = upos'
         /\ sendOpp' \in {"NONE", "SEND"} /\ (sendIo' = Flight \/ sendIo' = io)
         /\ Linked => (sendOpp' = "SEND" => sendIo' = Flight)
         /\ upos' > 0 => sendOpp' = "SEND"
<1>1. u - gone \in Nat /\ u - gone <= u
  OBVIOUS
<1> QED BY <1>1 DEF PostSend

\* Each BIO call keeps the counts within the record and the buffers.
LEMMA EngineCounts ==
  ASSUME Counts, Marked, Engine
  PROVE  Counts'
<1> USE TlsAssumption
<1>0. call' \in {call, "none"}
  BY DEF Engine, EngineReturns, AtOnce, BioRead, BioWrite, Return, GoOn
<1>1. CASE EngineReturns
  BY <1>0, <1>1 DEF EngineReturns, engine, recvVar, sendVar, Counts
<1>2. CASE BioRead
  <2> DEFINE n == Lesser(REC - inb, rx)
  <2>1. n \in Nat /\ inb + n <= REC /\ n <= rx /\ inb + n \in Nat
    BY DEF Lesser, Counts
  <2>2. /\ UNCHANGED <<outb, sendVar>>
        /\ inb' = IF inb + n = REC THEN 0 ELSE inb + n
        /\ step' \in {step, step + 1}
        /\ IF rx = n THEN PostRecv(0) ELSE rx' = rx - n /\ UNCHANGED <<recvOpp, recvIo>>
    BY <1>2 DEF BioRead
  <2> HIDE DEF n
  <2>3. rx' \in Nat /\ recvOpp' \in {"NONE", "RECV"} /\ recvIo'.n \in Nat
    BY <2>1, <2>2 DEF PostRecv, Counts, Flight
  <2>4. inb' \in 0..(REC - 1) /\ step' \in Nat
    BY <2>1, <2>2 DEF Counts
  <2> QED BY <1>0, <2>2, <2>3, <2>4 DEF Counts, sendVar
<1>3. CASE BioWrite
  <2> DEFINE n == Lesser(REC - outb, Room)
  <2>1. n \in Nat /\ outb + n <= REC /\ outb + n \in Nat /\ upos + n \in Nat /\ upos + n <= BUF_LEN
    BY DEF Lesser, Room, Counts
  <2>2. /\ UNCHANGED <<inb, recvVar>>
        /\ outb' = IF outb + n = REC THEN 0 ELSE outb + n
        /\ step' \in {step, step + 1}
        /\ PostSend(sendOpp, ipos, upos + n, sendIo) \/ UNCHANGED sendVar
    BY <1>3 DEF BioWrite
  <2> HIDE DEF n
  <2>3. outb' \in 0..(REC - 1) /\ step' \in Nat
    BY <2>1, <2>2 DEF Counts
  <2>4. CASE UNCHANGED sendVar
    BY <1>0, <2>2, <2>3, <2>4 DEF Counts, sendVar, recvVar
  <2>5. CASE PostSend(sendOpp, ipos, upos + n, sendIo)
    <3>1. CASE sendOpp # "NONE"
      BY <1>0, <2>1, <2>2, <2>3, <2>5, <3>1 DEF PostSend, Counts, recvVar
    <3>2. CASE sendOpp = "NONE"
      <4>1. /\ upos' \in Nat /\ upos' <= upos + n /\ ipos' = upos'
            /\ sendOpp' \in {"NONE", "SEND"} /\ (sendIo' = Flight \/ sendIo' = sendIo)
        <5>1. ipos \in Nat /\ ipos <= upos + n
          BY <2>1 DEF Counts
        <5> QED BY ONLY <2>1, <2>5, <3>2, <5>1, PostSendFree
      <4>2. sendIo'.n = 0
        BY <3>2, <4>1 DEF Marked, Flight, Idle
      <4>3. upos' \in 0..BUF_LEN
        BY <2>1, <4>1
      <4> QED BY <1>0, <2>2, <2>3, <4>1, <4>2, <4>3 DEF Counts, recvVar
    <3> QED BY <3>1, <3>2
  <2> QED BY <2>2, <2>4, <2>5
<1> QED BY <1>1, <1>2, <1>3 DEF Engine

\* Where the engine stops it has posted what it waits for.
LEMMA EngineHandshake ==
  ASSUME HandshakeInv, Marked, Engine
  PROVE  Unconnected' /\ Posted' /\ Parked'
<1> USE DEF HandshakeInv
<1>1. call # "none" /\ status # "DISCONNECT"
  BY DEF Engine, EngineReturns, AtOnce, BioRead, BioWrite, Works, Unconnected
<1>2. UNCHANGED <<open, evMask, sslShutdownFlag, role, peer>> /\ call' \in {call, "none"}
  BY DEF Engine, EngineReturns, AtOnce, BioRead, BioWrite, Fixed, Return, GoOn
<1>3. status' \in {status, "BROKEN", "PEERCLOSED"}
  <2>1. ASSUME NEW res \in {"ok", "read", "write", "zero", "fail"}, NEW st \in {status, "BROKEN"}, Return(res, st)
        PROVE  status' \in {status, "BROKEN", "PEERCLOSED"}
    BY <1>1, <2>1 DEF Counts, Return, AfterRead, AfterWrite, AfterHandshake
  <2>2. \E st \in {status, "BROKEN"} :
          (\E res \in {"ok", "read", "write", "zero", "fail"} : Return(res, st)) \/ GoOn(st)
    <3>1. CASE EngineReturns
      BY <3>1 DEF EngineReturns, AtOnce
    <3>2. CASE BioRead
      BY <3>2 DEF BioRead
    <3>3. CASE BioWrite
      BY <3>3 DEF BioWrite
    <3> QED BY <3>1, <3>2, <3>3 DEF Engine
  <2> QED BY <2>1, <2>2 DEF GoOn
<1>4. Usable' => Usable
  BY <1>2, <1>3 DEF Usable, Quiet, Positive
<1>5. open => sendOpp # "CONNECT"
  BY <1>1 DEF Unconnected
<1>6. CASE EngineReturns
  <2>1. UNCHANGED <<engine, recvVar, sendVar>>
    BY <1>6 DEF EngineReturns
  <2>2. Usable' => HsDone
    BY <1>6, <1>2, <1>4 DEF EngineReturns, AtOnce, Return, AfterRead, AfterWrite, Usable, Quiet, Positive
  <2>3. (handshaked => HsDone) /\ (handshaked' => HsDone)
    BY <1>6 DEF EngineReturns, AtOnce, Return, AfterRead, AfterWrite, AfterHandshake, Parked
  <2>4. HsDone' <=> HsDone
    BY <1>2, <2>1 DEF HsDone, Script, engine
  <2> QED BY <1>1, <1>2, <1>3, <1>4, <1>5, <2>1, <2>2, <2>3, <2>4
          DEF Unconnected, Posted, Parked, recvVar, sendVar
<1>7. CASE BioRead
  <2> DEFINE n == Lesser(REC - inb, rx)
             full == inb + n = REC
  <2>1. n \in Nat /\ n <= rx /\ (n = 0 => rx = 0 /\ ~full)
    BY TlsAssumption DEF Lesser, Counts
  <2>2. /\ UNCHANGED sendVar
        /\ IF rx = n THEN PostRecv(0) ELSE rx' = rx - n /\ UNCHANGED <<recvOpp, recvIo>>
        /\ step' = IF full /\ ~HsDone THEN step + 1 ELSE step
        /\ Wants = "r"
    BY <1>7 DEF BioRead
  <2>3. /\ n = 0 => handshaked' \in {handshaked, FALSE}
        /\ handshaked' => handshaked \/ HsDone
        /\ call' = "none" => n = 0 \/ HsDone
    <3>1. PICK st : IF n = 0 THEN Return("read", st) \/ Return("fail", st)
                    ELSE (HsDone /\ Return("ok", st)) \/ GoOn(st)
      BY <1>7 DEF BioRead
    <3> HIDE DEF n
    <3> QED BY <1>1, <3>1 DEF Counts, Return, GoOn, AfterRead, AfterWrite, AfterHandshake
  <2> HIDE DEF n, full
  <2>4. HsDone => HsDone'
    BY <1>2, <2>2 DEF HsDone, Script, Counts
  <2>5. Usable => (recvOpp' = "RECV" => recvIo'.st # "idle") /\ (rx = n => recvOpp' = "RECV" /\ rx' = 0)
    BY <2>2, PostRecvPosts DEF Posted, Usable, Linked, PostRecv
  <2>6. Unconnected' /\ Posted'
    BY <1>1, <1>2, <1>3, <1>4, <1>5, <2>2, <2>5 DEF Unconnected, Posted, sendVar
  <2>7. ASSUME call' = "none", Usable', ~HsDone'
        PROVE  Wants' = "r" /\ rx' = 0 /\ recvOpp' = "RECV"
    <3>1. n = 0 /\ rx = n /\ step' = step
      BY <2>1, <2>2, <2>3, <2>4, <2>7
    <3>2. Wants' = "r"
      BY <1>2, <2>2, <2>4, <2>7, <3>1 DEF Wants, Script
    <3> QED BY <1>4, <2>5, <2>7, <3>1, <3>2
  <2>8. handshaked' => HsDone'
    BY <2>3, <2>4 DEF Parked
  <2> QED BY <2>6, <2>7, <2>8 DEF Parked
<1>8. CASE BioWrite
  <2> DEFINE n == Lesser(REC - outb, Room)
             full == outb + n = REC
  <2>1. n \in Nat /\ (n = 0 => upos > 0 /\ ~full)
    BY TlsAssumption DEF Lesser, Room, Counts
  <2>2. /\ UNCHANGED recvVar
        /\ IF n = 0 THEN UNCHANGED sendVar ELSE PostSend(sendOpp, ipos, upos + n, sendIo)
        /\ step' = IF full /\ ~HsDone THEN step + 1 ELSE step
        /\ Wants = "w"
    BY <1>8 DEF BioWrite
  <2>3. /\ handshaked' => handshaked \/ HsDone
        /\ call' = "none" => n = 0 \/ HsDone
    <3>1. PICK st : IF n = 0 THEN Return("write", st)
                    ELSE (HsDone /\ Return("ok", st)) \/ GoOn(st)
      BY <1>8 DEF BioWrite
    <3> HIDE DEF n
    <3> QED BY <1>1, <3>1 DEF Counts, Return, GoOn, AfterRead, AfterWrite, AfterHandshake
  <2> HIDE DEF n, full
  <2>4. HsDone => HsDone'
    BY <1>2, <2>2 DEF HsDone, Script, Counts
  <2>5. /\ open => sendOpp' # "CONNECT"
        /\ sendOpp' = "CONNECT" => sendIo' = sendIo /\ sendOpp = "CONNECT"
    BY <1>5, <2>2 DEF PostSend, sendVar
  <2>6. Usable => (sendOpp' = "SEND" => sendIo'.st # "idle") /\ (upos' > 0 => sendOpp' = "SEND")
    <3>1. CASE n = 0
      BY <2>2, <3>1 DEF Posted, sendVar
    <3>2. CASE n # 0 /\ sendOpp = "NONE"
      BY <2>2, <3>2 DEF Posted, PostSend, Usable, Linked, Flight
    <3>3. CASE n # 0 /\ sendOpp # "NONE"
      BY <1>5, <2>2, <3>3 DEF Posted, PostSend, Usable, Counts
    <3> QED BY <3>1, <3>2, <3>3
  <2>7. Unconnected' /\ Posted'
    BY <1>1, <1>2, <1>3, <1>4, <2>2, <2>5, <2>6 DEF Unconnected, Posted, recvVar
  <2>8. ASSUME call' = "none", Usable', ~HsDone'
        PROVE  Wants' = "w" /\ sendOpp' = "SEND"
    <3>1. n = 0 /\ upos > 0 /\ step' = step
      BY <2>1, <2>2, <2>3, <2>4, <2>8
    <3>2. Wants' = "w"
      BY <1>2, <2>2, <2>4, <2>8, <3>1 DEF Wants, Script
    <3>3. sendOpp' = "SEND"
      BY <1>4, <2>2, <2>8, <3>1 DEF Posted, sendVar
    <3> QED BY <3>2, <3>3
  <2>9. handshaked' => HsDone'
    BY <2>3, <2>4 DEF Parked
  <2> QED BY <2>7, <2>8, <2>9 DEF Parked
<1> QED BY <1>6, <1>7, <1>8 DEF Engine

\* ctl() posts the first read of a server; no other call of the application moves anything.
LEMMA CallHandshake ==
  ASSUME HandshakeInv, Marked, Polite,
         \/ Connect \/ Recv \/ Send \/ Close \/ Wait
         \/ \E how \in Hows : Shutdown(how)
         \/ \E mask \in CtlMasks : Ctl(mask)
  PROVE  HandshakeInv'
<1> USE DEF HandshakeInv
<1>1. CASE Connect
  BY <1>1 DEF Connect, sockVar, sslVar, engine, recvVar, Counts, Unconnected, Posted, Parked, HsDone,
              Script, Usable, Positive, Flight
<1>2. CASE Recv \/ Send
  BY <1>2 DEF Recv, Send, sockVar, sslVar, engine, recvVar, sendVar, Counts, Unconnected, Posted,
              Parked, HsDone, Script, Usable, Positive, Quiet
<1>3. CASE Close
  BY <1>3 DEF Close, sslVar, engine, recvVar, sendVar, Counts, Unconnected, Posted, Parked, HsDone,
              Script, Usable
<1>4. CASE Wait
  BY <1>4 DEF Wait, sslVar, engine, recvVar, sendVar, Counts, Unconnected, Posted, Parked, HsDone,
              Script, Usable, Quiet, Wants, Started
<1>5. ASSUME NEW how \in Hows, Shutdown(how) PROVE HandshakeInv'
  <2>1. ~Usable' /\ status # "DISCONNECT" /\ status' # "DISCONNECT"
    BY <1>5, TlsAssumption DEF Shutdown, Usable, Quiet, Positive
  <2> QED BY <1>5, <2>1 DEF Shutdown, engine, recvVar, sendVar, Counts, Unconnected, Posted, Parked,
              HsDone, Script
<1>6. ASSUME NEW mask, Ctl(mask) PROVE HandshakeInv'
  <2>1. /\ UNCHANGED <<open, sslVar, call, engine, sendVar, role, peer>>
        /\ evMask' = mask \cup {"ERROR", "HANGUP"}
        /\ call = "none" /\ open
        /\ "IN" \in mask => status # "DISCONNECT" /\ PostRecv(rx)
        /\ "IN" \notin mask => UNCHANGED <<recvVar, status>>
        /\ status' \in {status, "BROKEN"}
    BY <1>6 DEF Ctl, Calls
  <2>2. Usable' => Usable
    BY <2>1 DEF Usable, Quiet, sslVar, Positive
  <2>3. /\ rx' \in Nat /\ recvIo'.n \in Nat /\ recvOpp' \in {"NONE", "RECV"}
        /\ Usable => (recvOpp' = "RECV" => recvIo'.st # "idle")
    <3>1. CASE "IN" \in mask
      BY <2>1, <3>1 DEF PostRecv, Counts, Posted, Usable, Linked, Flight
    <3>2. CASE "IN" \notin mask
      BY <2>1, <3>2 DEF recvVar, Counts, Posted
    <3> QED BY <3>1, <3>2
  <2>4. Counts'
    BY <2>1, <2>3 DEF Counts, engine, sendVar
  <2>5. Unconnected' /\ Posted'
    BY <2>1, <2>2, <2>3 DEF Unconnected, Posted, recvVar, sendVar
  <2>6. HsDone' = HsDone /\ (~HsDone => Wants' = Wants)
    BY <2>1 DEF HsDone, Wants, Script, engine
  <2>7. rx = 0 /\ (recvOpp = "RECV" \/ ~Started) => rx' = 0 /\ (recvOpp' = "RECV" \/ ~Started')
    BY <2>1 DEF PostRecv, recvVar, Started
  <2> QED BY <2>1, <2>2, <2>4, <2>5, <2>6, <2>7 DEF Parked, sslVar, sendVar
<1> QED BY <1>1, <1>2, <1>3, <1>4, <1>5, <1>6

\* What update() leaves: no new DISCONNECT, and a usable socket only if the handshake goes on.
LEMMA AfterUpdateLeaves ==
  ASSUME NEW ok \in BOOLEAN, NEW raw, NEW st, AfterUpdate(ok, raw, st), UpdateKeeps' = UpdateKeeps,
         call = "none"
  PROVE  /\ status' \in {st, "SHUTDOWN"} /\ call' \in {"none", "handshake"}
         /\ ~ok => call' = "none" /\ status' = st
         /\ Usable' => status' = st /\ open /\ ~Quiet
         /\ ok /\ Usable' /\ call' = "none" => handshaked
         /\ HsDone' = HsDone /\ handshaked' = handshaked
BY DEF AfterUpdate, Drives, UpdateKeeps, sslVar, engine, Usable, Quiet, HsDone, Script

\* After a completion either the handshake is run again or the socket is no longer usable.
LEMMA UpdateHandshake ==
  ASSUME HandshakeInv, Marked, Update
  PROVE  HandshakeInv'
<1> USE DEF HandshakeInv
<1>1. /\ call = "none" /\ UpdateKeeps' = UpdateKeeps
  BY DEF Update, OnConnect, OnSend, OnRecv, OnClosed, Blocked
<1>2. UNCHANGED <<open, inb, outb, step, role, peer, handshaked, sslShutdownFlag>>
  BY <1>1 DEF UpdateKeeps, sslVar, engine
<1>3. CASE OnConnect
  <2>1. /\ open /\ sendOpp = "CONNECT" /\ sendIo' = Idle /\ sendOpp' = "NONE"
        /\ UNCHANGED <<recvVar, ipos, upos>>
        /\ \/ sendIo.ok /\ AfterUpdate(TRUE, {"OUT"}, "CONNECTED")
           \/ AfterUpdate(FALSE, {"HANGUP"}, status)
    BY <1>3 DEF OnConnect
  <2>2. status = "DISCONNECT" /\ recvOpp = "NONE" /\ upos = 0
    BY <2>1 DEF Unconnected
  <2>3. CASE sendIo.ok /\ AfterUpdate(TRUE, {"OUT"}, "CONNECTED")
    <3>1. /\ status' \in {"CONNECTED", "SHUTDOWN"} /\ call' \in {"none", "handshake"}
          /\ Usable' /\ call' = "none" => handshaked
          /\ HsDone' = HsDone
      BY <1>1, <2>3, AfterUpdateLeaves
    <3>2. peer # "none"
      BY <2>1, <2>3 DEF Unconnected
    <3> QED BY <1>2, <2>1, <2>2, <3>1, <3>2 DEF Counts, Unconnected, Posted, Parked, recvVar, Idle
  <2>4. CASE AfterUpdate(FALSE, {"HANGUP"}, status)
    <3>1. status' = status /\ call' = "none" /\ HsDone' = HsDone
      BY <1>1, <2>4, AfterUpdateLeaves
    <3>2. ~Usable'
      BY <2>2, <3>1 DEF Usable, Positive
    <3> QED BY <1>2, <2>1, <2>2, <3>1, <3>2 DEF Counts, Unconnected, Posted, Parked, recvVar, Idle
  <2> QED BY <2>1, <2>3, <2>4
<1>4. CASE OnSend
  <2>1. open /\ sendOpp = "SEND" /\ UNCHANGED recvVar
    BY <1>4 DEF OnSend
  <2>2. CASE /\ sendIo.n > 0 /\ PostSend("NONE", sendIo.n, upos, Idle)
             /\ \E raw : AfterUpdate(TRUE, raw, status)
    <3>1. /\ status' \in {status, "SHUTDOWN"} /\ call' \in {"none", "handshake"}
          /\ Usable' => status' = status /\ open /\ ~Quiet
          /\ Usable' /\ call' = "none" => handshaked
          /\ HsDone' = HsDone
      BY <1>1, <2>2, AfterUpdateLeaves
    <3>2. sendIo.n \in Nat /\ upos \in Nat /\ sendIo.n <= upos /\ upos > 0 /\ upos <= BUF_LEN
      BY <2>2, TlsAssumption DEF Counts
    <3>3. status # "DISCONNECT"
      BY <3>2 DEF Unconnected
    <3>4. /\ upos' \in Nat /\ upos' <= upos /\ ipos' = upos'
          /\ sendOpp' \in {"NONE", "SEND"} /\ (sendIo' = Flight \/ sendIo' = Idle)
          /\ Linked => (sendOpp' = "SEND" => sendIo' = Flight)
          /\ upos' > 0 => sendOpp' = "SEND"
      BY ONLY <2>2, <3>2, PostSendFree
    <3>5. upos' \in 0..BUF_LEN
      BY ONLY <3>2, <3>4, TlsAssumption
    <3>6. sendIo'.n = 0
      BY <3>4 DEF Flight, Idle
    <3>7. Counts'
      BY <1>2, <2>1, <3>1, <3>4, <3>5, <3>6 DEF Counts, recvVar
    <3>8. Usable' => Usable
      BY <3>1 DEF Usable
    <3>9. Unconnected' /\ Posted'
      BY <1>2, <2>1, <3>1, <3>3, <3>4, <3>8 DEF Unconnected, Posted, Usable, Linked, Flight, recvVar
    <3> QED BY <1>2, <3>1, <3>7, <3>9 DEF Parked
  <2>3. CASE /\ sendIo' = Idle /\ sendOpp' = "NONE" /\ UNCHANGED <<ipos, upos>>
             /\ \E st \in {"PEERCLOSED", "BROKEN"}, ok \in BOOLEAN : \E raw : AfterUpdate(ok, raw, st)
    <3>1. /\ status' \in {"PEERCLOSED", "BROKEN", "SHUTDOWN"} /\ call' \in {"none", "handshake"}
          /\ Usable' => status' \in {"PEERCLOSED", "BROKEN"}
          /\ HsDone' = HsDone
      BY <1>1, <2>3, AfterUpdateLeaves
    <3>2. ~Usable'
      BY <3>1 DEF Usable, Positive
    <3> QED BY <1>2, <2>1, <2>3, <3>1, <3>2 DEF Counts, Unconnected, Posted, Parked, recvVar, Idle
  <2> QED BY <1>4, <2>2, <2>3 DEF OnSend
<1>5. CASE OnRecv
  <2>1. /\ open /\ recvIo.st = "done" /\ UNCHANGED sendVar
        /\ recvIo' = Idle /\ recvOpp' = "NONE" /\ rx' = rx + recvIo.n
        /\ \/ \E raw : AfterUpdate(TRUE, raw, status)
           \/ \E st \in {"PEERCLOSED", "BROKEN"}, ok \in BOOLEAN : \E raw : AfterUpdate(ok, raw, st)
    BY <1>5 DEF OnRecv
  <2>2. status # "DISCONNECT" /\ sendOpp # "CONNECT"
    BY <2>1 DEF Marked, Unconnected, Idle
  <2>3. /\ status' \in {status, "PEERCLOSED", "BROKEN", "SHUTDOWN"} /\ call' \in {"none", "handshake"}
        /\ Usable' => status' \in {status, "PEERCLOSED", "BROKEN"} /\ ~Quiet
        /\ Usable' /\ call' = "none" => handshaked \/ status' \in {"PEERCLOSED", "BROKEN"}
        /\ HsDone' = HsDone
    BY <1>1, <2>1, AfterUpdateLeaves
  <2>4. Usable' => Usable
    BY <2>1, <2>3 DEF Usable, Positive
  <2>5. Counts'
    <3>1. rx' \in Nat /\ recvIo'.n \in Nat
      BY <2>1 DEF Counts, Idle
    <3> QED BY <1>2, <2>1, <2>3, <3>1 DEF Counts, sendVar
  <2>6. Unconnected' /\ Posted'
    BY <1>2, <2>1, <2>2, <2>3, <2>4 DEF Unconnected, Posted, sendVar
  <2>7. Parked'
    BY <1>2, <2>3 DEF Parked, Usable, Positive
  <2> QED BY <2>5, <2>6, <2>7
<1>6. CASE OnClosed
  <2>1. /\ ~open /\ \E ok \in {sendIo.ok, recvIo.ok} : AfterUpdate(ok, {}, status)
        /\ \/ sendIo' = Idle /\ sendOpp' = "NONE" /\ UNCHANGED <<recvVar, ipos, upos>>
           \/ recvIo' = Idle /\ recvOpp' = "NONE" /\ UNCHANGED <<sendVar, rx>>
    BY <1>6 DEF OnClosed
  <2>2. status' \in {status, "SHUTDOWN"} /\ call' \in {"none", "handshake"}
    BY <1>1, <2>1 DEF AfterUpdate
  <2>3. HsDone' = HsDone /\ ~Usable'
    BY <1>2, <2>1 DEF HsDone, Script, Usable
  <2> QED BY <1>2, <2>1, <2>2, <2>3 DEF Counts, Unconnected, Posted, Parked, recvVar, sendVar, Idle
<1> QED BY <1>3, <1>4, <1>5, <1>6 DEF Update

\* What the kernel finishes is still to be handled.
LEMMA KernelHandshake ==
  ASSUME HandshakeInv, Marked, KernelSend \/ KernelRecv \/ \E how \in PeerEnds : PeerEnd(how)
  PROVE  HandshakeInv'
<1> USE DEF HandshakeInv
<1>1. /\ UNCHANGED <<open, status, evMask, handshaked, sslShutdownFlag, call, step, inb, outb, role>>
      /\ UNCHANGED <<recvOpp, rx, sendOpp, ipos, upos>>
  BY DEF KernelSend, KernelRecv, KConnect, KSend, KSendEnd, KRecv, KRecvEnd, PeerEnd, KernelKeeps,
         sockVar, sslVar, engine, recvVar, sendVar
<1>2. /\ recvIo' = recvIo \/ (recvIo'.st = "done" /\ recvIo'.n \in Nat)
  BY DEF KernelSend, KernelRecv, KConnect, KSend, KSendEnd, KRecv, KRecvEnd, PeerEnd, recvVar, Done
<1>3. /\ sendIo' = sendIo \/ (sendIo'.st = "done" /\ sendIo'.n \in Nat /\ sendIo'.n <= ipos)
      /\ sendOpp = "CONNECT" /\ sendIo'.ok => sendIo' = sendIo \/ peer' # "none"
  <2>1. ipos \in Nat
    BY DEF Counts
  <2>2. CASE KernelRecv \/ \E how \in PeerEnds : PeerEnd(how)
    BY <2>2 DEF KernelRecv, KRecv, KRecvEnd, PeerEnd, sendVar
  <2>3. ASSUME NEW ok \in BOOLEAN, KConnect(ok) \/ KSendEnd(ok)
        PROVE  /\ sendIo'.st = "done" /\ sendIo'.n = 0
               /\ sendOpp = "CONNECT" /\ sendIo'.ok => peer' # "none"
    BY <2>3 DEF KConnect, KSendEnd, Done
  <2>4. ASSUME NEW n \in 1..ipos, KSend(n)
        PROVE  /\ sendIo'.st = "done" /\ sendIo'.n \in Nat /\ sendIo'.n <= ipos /\ sendOpp = "SEND"
    BY <2>1, <2>4 DEF KSend, Done
  <2> QED BY <2>1, <2>2, <2>3, <2>4 DEF KernelSend
<1>4. peer # "none" => peer' # "none"
  BY TlsAssumption DEF KernelSend, KernelRecv, KConnect, KSend, KSendEnd, KRecv, KRecvEnd, PeerEnd
<1>5. Counts'
  BY <1>1, <1>2, <1>3 DEF Counts
<1>6. Unconnected' /\ Posted'
  BY <1>1, <1>2, <1>3, <1>4 DEF Unconnected, Posted, Usable, Quiet
<1>7. Parked'
  BY <1>1 DEF Parked, Usable, Quiet, HsDone, Script, Wants, Started
<1> QED BY <1>5, <1>6, <1>7

\* While wait() is blocked in the handshake, the read or the send that the engine waits for
\* is under way, for every handshake that a server does not begin to write, every record and
\* buffer size and every application that keeps the rules.
THEOREM HandshakeCorrect ==
  ASSUME Polite,
         "server" \in Roles /\ Flights["server"] # <<>> => Flights["server"][1] = "r"
  PROVE  Spec => []HandshakeNeverStalls
<1> DEFINE Inv == LifeInv /\ HandshakeInv
<1>1. Init => Inv
  <2> SUFFICES ASSUME Init PROVE Inv
    OBVIOUS
  <2>1. LifeInv
    BY DEF Init, LifeInv, Marked, Dead
  <2>2. Counts /\ Unconnected /\ Posted
    BY TlsAssumption DEF Init, Counts, Unconnected, Posted, Usable, Positive, Idle
  <2>3. Parked
    <3>1. ASSUME Usable, ~HsDone PROVE Wants = "r" /\ ~Started
      <4>1. role = "server" /\ step = 1 /\ evMask = {}
        BY <3>1, TlsAssumption DEF Init, Usable, Positive
      <4>2. Script # <<>>
        BY <3>1, <4>1 DEF HsDone
      <4> QED BY <3>1, <4>1, <4>2 DEF Init, Wants, Script, Started
    <3> QED BY <3>1 DEF Init, Parked
  <2> QED BY <2>1, <2>2, <2>3 DEF HandshakeInv
<1>2. Inv /\ [Next]_vars => Inv'
  <2> SUFFICES ASSUME Inv, [Next]_vars PROVE Inv'
    OBVIOUS
  <2>1. CASE UNCHANGED vars
    BY <2>1 DEF vars, sockVar, sslVar, engine, recvVar, sendVar, LifeInv, Marked, Dead, HandshakeInv,
                Counts, Unconnected, Posted, Parked, Usable, Quiet, HsDone, Script, Wants, Started
  <2>2. CASE Next
    <3>1. LifeInv'
      BY <2>2, EngineLife, CallLife, UpdateLife, KernelLife DEF Next
    <3>2. HandshakeInv'
      BY <2>2, EngineCounts, EngineHandshake, CallHandshake, UpdateHandshake, KernelHandshake
         DEF Next, LifeInv, HandshakeInv
    <3> QED BY <3>1, <3>2
  <2> QED BY <2>1, <2>2
<1>3. Inv => HandshakeNeverStalls
  BY DEF HandshakeInv, Posted, Parked, HandshakeNeverStalls, Blocked
<1> QED BY <1>1, <1>2, <1>3, PTL DEF Spec

-----------------------------------------------------------------------------
(* The values of the variables, and what becomes of every fragment.  These  *)
(* hold of every application, polite or not.                                *)

ControlOK ==
  /\ open \in BOOLEAN /\ listed \in BOOLEAN /\ alive \in BOOLEAN
  /\ status \in Statuses /\ evMask \subseteq Events /\ ev \subseteq Events
  /\ shutdownFlag \in {"none", "recv", "send", "both"} /\ sslShutdownFlag \in {"none", "recv", "send", "both"}
  /\ role \in Roles /\ handshaked \in BOOLEAN /\ canRecv \in BOOLEAN /\ canSend \in BOOLEAN
  /\ call \in {"none", "handshake", "read", "write"}
  /\ peer \in {"none", "up", "fin", "reset"} /\ pc \in {"user", "wait"}

\* The send buffer: an operation reports at most what it was given.
SendSide ==
  /\ sendOpp \in {"NONE", "CONNECT", "SEND"} /\ upos \in 0..BUF_LEN /\ ipos \in 0..upos
  /\ sendIo \in IoState /\ sendIo.n <= ipos /\ wire \in Nat
  /\ sendIo = Idle \/ sendOpp # "NONE"

\* The receive buffer: a read is posted on an empty buffer only.
RecvSide ==
  /\ recvOpp \in {"NONE", "RECV"} /\ rx \in 0..BUF_LEN /\ recvIo \in IoState
  /\ recvIo = Idle \/ recvOpp # "NONE"
  /\ recvOpp = "RECV" => rx = 0
  /\ recvIo.st # "done" => recvIo.n = 0

\* The records of the handshake and of the application.
Progress ==
  /\ step \in 1..(Len(Script) + 1) /\ outb \in 0..(REC - 1) /\ wrote \in 0..MaxOut
  /\ call = "write" => wrote < MaxOut

\* The fragments: those that were delivered and those that were read.
Fragments ==
  /\ inb \in 0..(REC - 1) /\ inRecs \in Nat /\ inCount \in 0..(REC * InRecords)
  /\ REC * inRecs + inb + rx + recvIo.n <= inCount
  /\ open => REC * inRecs + inb + rx + recvIo.n = inCount
  /\ got \in Nat /\ (got = 0 \/ got + Count("r") <= inRecs)

StreamInv == ControlOK /\ SendSide /\ RecvSide /\ Progress /\ Fragments

\* The number of records is finite, and a sum of whole records is not less than its parts.
LEMMA CountIsNat ==
  ASSUME NEW x, role \in Roles
  PROVE  Count(x) \in Nat /\ InRecords \in Nat /\ Len(Script) \in Nat
<1>1. Script \in Seq({"w", "r"}) /\ Len(After) \in Nat
  BY TlsAssumption DEF Script
<1>2. DOMAIN Script = 1..Len(Script) /\ Len(Script) \in Nat
  BY <1>1
<1>3. IsFiniteSet(1..Len(Script))
  BY <1>2, FS_Interval
<1>4. \A y : Count(y) \in Nat
  <2> TAKE y
  <2>1. {i \in DOMAIN Script : Script[i] = y} \subseteq 1..Len(Script)
    BY <1>2
  <2> QED BY <1>3, <2>1, FS_Subset, FS_CardinalityType DEF Count
<1> QED BY <1>1, <1>2, <1>4 DEF InRecords

LEMMA ProductIsNat ==
  ASSUME NEW a \in Nat, NEW b \in Nat
  PROVE  a * b \in Nat
OBVIOUS

LEMMA WholeRecords ==
  ASSUME NEW c \in Nat \ {0}, NEW a \in Nat, NEW b \in Nat, c * a <= c * b
  PROVE  a <= b
<1> SUFFICES ASSUME a > b PROVE FALSE
  OBVIOUS
<1>1. PICK d \in Nat : a = b + d /\ d >= 1
  <2>1. a - b \in Nat /\ a = b + (a - b) /\ a - b >= 1
    OBVIOUS
  <2> QED BY <2>1
<1>2. c * a = c * b + c * d
  BY <1>1
<1>3. c * d >= 1 /\ c * b \in Nat /\ c * d \in Nat
  BY <1>1
<1> QED BY <1>2, <1>3

\* The record that the next fragment belongs to ends within what the peer sends.
LEMMA WithinRecords ==
  ASSUME NEW c \in Nat \ {0}, NEW x \in Nat, NEW r \in Nat, x \div c + 1 <= r
  PROVE  x + 1 <= c * r
<1>1. PICK q \in Nat, d \in Nat : q = x \div c /\ x = c * q + d /\ d < c
  <2>1. x \div c \in Nat
    OBVIOUS
  <2>2. x % c \in Nat /\ x % c < c
    OBVIOUS
  <2>3. x = c * (x \div c) + (x % c)
    OBVIOUS
  <2> QED BY <2>1, <2>2, <2>3
<1>2. PICK e \in Nat : r = q + 1 + e
  <2>1. r - (q + 1) \in Nat /\ r = q + 1 + (r - (q + 1))
    BY <1>1
  <2> QED BY <2>1
<1>3. c * r = c * q + c + c * e /\ c * e \in Nat /\ c * q \in Nat
  BY <1>2
<1> QED BY <1>1, <1>3

\* The records that the engine has read are records of the peer.
LEMMA StreamTypes ==
  ASSUME StreamInv
  PROVE  TypeOK
<1> USE TlsAssumption
<1>1. Count("r") \in Nat /\ InRecords \in Nat /\ Len(After) \in Nat
  BY CountIsNat DEF StreamInv, ControlOK, InRecords
<1>2. InRecords = Count("r") + Len(After)
  BY DEF InRecords
<1>3. REC * inRecs \in Nat /\ inRecs \in Nat /\ inb \in Nat /\ rx \in Nat /\ recvIo.n \in Nat
      /\ inCount \in Nat /\ inCount <= REC * InRecords /\ REC * InRecords \in Nat
  BY <1>1 DEF StreamInv, RecvSide, Fragments, IoState
<1>4. REC * inRecs <= REC * InRecords
  BY <1>3 DEF StreamInv, Fragments
<1>5. inRecs <= InRecords
  BY <1>1, <1>3, <1>4, WholeRecords
<1>6. got \in 0..Len(After)
  BY <1>1, <1>2, <1>3, <1>5 DEF StreamInv, Fragments
<1> QED BY <1>1, <1>5, <1>6 DEF StreamInv, ControlOK, SendSide, RecvSide, Progress, Fragments, TypeOK

\* What postRecv() and postSend() leave.
LEMMA PostRecvKeeps ==
  ASSUME RecvSide, NEW r \in 0..BUF_LEN, recvOpp = "RECV" => r = 0, PostRecv(r)
  PROVE  RecvSide' /\ rx' = r /\ recvIo'.n = recvIo.n
<1>1. /\ rx' = r /\ recvOpp' = IF r = 0 THEN "RECV" ELSE recvOpp
      /\ recvIo' = recvIo \/ (recvIo' = Flight /\ r = 0 /\ recvOpp = "NONE")
  BY DEF PostRecv
<1>2. Flight \in IoState /\ Flight.n = 0 /\ Idle.n = 0
  BY TlsAssumption DEF Flight, Idle, IoState
<1>3. recvIo'.n = recvIo.n
  BY <1>1, <1>2 DEF RecvSide
<1> QED BY <1>1, <1>2, <1>3 DEF RecvSide

LEMMA PostSendKeeps ==
  ASSUME NEW opp \in {"NONE", "CONNECT", "SEND"}, NEW gone \in Nat, NEW u \in 0..BUF_LEN, gone <= u,
         NEW io \in IoState, io = Idle \/ opp # "NONE", ipos \in Nat, ipos <= u, io.n <= ipos,
         wire \in Nat, wire' = wire, PostSend(opp, gone, u, io)
  PROVE  SendSide'
<1>0. BUF_LEN \in Nat
  BY TlsAssumption
<1>1. Flight \in IoState /\ Flight.n = 0 /\ Idle.n = 0
  BY TlsAssumption DEF Flight, Idle, IoState
<1>2. CASE opp # "NONE"
  BY <1>0, <1>2 DEF PostSend, SendSide
<1>3. CASE opp = "NONE"
  <2>1. u - gone \in 0..BUF_LEN
    BY <1>0
  <2>2. /\ ipos' = u - gone /\ upos' = u - gone /\ sendOpp' \in {"NONE", "SEND"}
        /\ sendIo' = io \/ (sendIo' = Flight /\ sendOpp' = "SEND")
    BY <1>3 DEF PostSend
  <2>3. io = Idle
    BY <1>3
  <2> QED BY <1>0, <1>1, <2>1, <2>2, <2>3 DEF SendSide
<1> QED BY <1>2, <1>3

\* The return of an SSL function.
LEMMA ReturnControl ==
  ASSUME ControlOK, call # "none", NEW res, NEW st \in Statuses, Return(res, st) \/ GoOn(st),
         UNCHANGED <<open, evMask, shutdownFlag, listed, alive, sslShutdownFlag, role, peer>>
  PROVE  ControlOK' /\ call' \in {call, "none"}
<1>1. status' \in Statuses /\ call' \in {call, "none"}
  BY DEF ControlOK, Return, GoOn, AfterRead, AfterWrite, AfterHandshake, Statuses
<1>2. /\ handshaked' \in BOOLEAN /\ canRecv' \in BOOLEAN /\ canSend' \in BOOLEAN
      /\ pc' \in {"user", "wait"} /\ ev' \subseteq Events
  BY DEF ControlOK, Return, GoOn, AfterRead, AfterWrite, AfterHandshake, Resume
<1> QED BY <1>1, <1>2 DEF ControlOK

\* A BIO read takes fragments of the present record from the receive buffer to the engine.
LEMMA EngineReads ==
  ASSUME StreamInv, BioRead
  PROVE  StreamInv'
<1> USE DEF StreamInv
<1> DEFINE n    == Lesser(REC - inb, rx)
           full == inb + n = REC
           data == full /\ HsDone /\ InKind(inRecs + 1) = "data"
<1>1. /\ n \in Nat /\ inb + n <= REC /\ n <= rx /\ inb \in Nat /\ rx \in Nat /\ rx <= BUF_LEN
      /\ REC \in Nat /\ REC > 0 /\ BUF_LEN \in Nat
  BY TlsAssumption DEF Lesser, RecvSide, Fragments
<1>2. /\ Works /\ UNCHANGED <<Fixed, outb, sendVar, wrote>>
      /\ IF rx = n THEN PostRecv(0) ELSE rx' = rx - n /\ UNCHANGED <<recvOpp, recvIo>>
      /\ inb' = IF full THEN 0 ELSE inb + n
      /\ inRecs' = IF full THEN inRecs + 1 ELSE inRecs
      /\ step' = IF full /\ ~HsDone THEN step + 1 ELSE step
      /\ got' = IF data THEN got + 1 ELSE got
  BY DEF BioRead
<1>3. ControlOK' /\ call' \in {call, "none"}
  <2>1. \E res : \E st \in {status, "BROKEN"} : Return(res, st) \/ GoOn(st)
    BY DEF BioRead
  <2>2. call # "none" /\ status \in Statuses /\ "BROKEN" \in Statuses
    BY <1>2 DEF Works, ControlOK, Statuses
  <2> QED BY <1>2, <2>1, <2>2, ReturnControl DEF Fixed
<1>4. role' = role /\ inCount' = inCount /\ open' = open /\ Script' = Script /\ InRecords' = InRecords
      /\ Count("r")' = Count("r")
  BY <1>2 DEF Fixed, Script, InRecords, Count
<1>5. Count("r") \in Nat /\ Len(Script) \in Nat
  BY CountIsNat DEF ControlOK
<1>6. data => Count("r") < inRecs + 1
  BY <1>5 DEF InKind, Fragments
<1> HIDE DEF n
<1>7. RecvSide' /\ rx' = rx - n /\ recvIo'.n = recvIo.n
  <2>1. CASE rx = n
    <3>1. PostRecv(0) /\ rx - n = 0 /\ 0 \in 0..BUF_LEN
      BY <1>1, <1>2, <2>1
    <3> QED BY <3>1, PostRecvKeeps
  <2>2. CASE rx # n
    <3>1. rx' = rx - n /\ UNCHANGED <<recvOpp, recvIo>> /\ rx - n \in 0..BUF_LEN /\ rx # 0
      BY <1>1, <1>2, <2>2
    <3> QED BY <3>1 DEF RecvSide
  <2> QED BY <2>1, <2>2
<1>8. SendSide'
  BY <1>2 DEF SendSide, sendVar, Fixed
<1>9. Progress'
  <2>1. step' \in 1..(Len(Script) + 1)
    BY <1>2, <1>5 DEF Progress, HsDone
  <2> QED BY <1>2, <1>3, <1>4, <2>1 DEF Progress
<1>10. Fragments'
  <2>1. inb' \in 0..(REC - 1) /\ inRecs' \in Nat
    BY <1>1, <1>2 DEF Fragments
  <2>2. REC * inRecs' + inb' = REC * inRecs + inb + n
    BY <1>1, <1>2 DEF Fragments
  <2>3. recvIo.n \in Nat /\ inRecs \in Nat
    BY <1>1 DEF RecvSide, Fragments, IoState
  <2>4. REC * inRecs' + inb' + rx' + recvIo'.n = REC * inRecs + inb + rx + recvIo.n
    <3>1. REC * inRecs \in Nat /\ REC * inRecs' \in Nat
      BY ONLY <1>1, <2>1, <2>3, ProductIsNat
    <3>2. inb' \in Nat
      BY ONLY <1>1, <2>1
    <3> QED BY ONLY <1>1, <1>7, <2>2, <2>3, <3>1, <3>2
  <2>5. got' \in Nat /\ (got' = 0 \/ got' + Count("r") <= inRecs')
    BY <1>2, <1>5, <1>6, <2>3 DEF Fragments
  <2> QED BY <1>4, <2>1, <2>4, <2>5 DEF Fragments
<1> QED BY <1>3, <1>7, <1>8, <1>9, <1>10

\* A BIO write takes fragments of the present record from the engine to the send buffer.
LEMMA EngineWrites ==
  ASSUME StreamInv, BioWrite
  PROVE  StreamInv'
<1> USE DEF StreamInv
<1> DEFINE n    == Lesser(REC - outb, Room)
           full == outb + n = REC
<1>1. /\ n \in Nat /\ outb + n <= REC /\ outb \in Nat /\ upos \in Nat /\ upos + n <= BUF_LEN
      /\ REC \in Nat /\ REC > 0 /\ BUF_LEN \in Nat
  BY TlsAssumption DEF Lesser, Room, SendSide, Progress
<1>2. /\ Works /\ Wants = "w" /\ UNCHANGED <<Fixed, inb, inRecs, recvVar, got>>
      /\ IF n = 0 THEN UNCHANGED sendVar ELSE PostSend(sendOpp, ipos, upos + n, sendIo)
      /\ outb' = IF full THEN 0 ELSE outb + n
      /\ step' = IF full /\ ~HsDone THEN step + 1 ELSE step
      /\ wrote' = IF full /\ HsDone THEN wrote + 1 ELSE wrote
  BY DEF BioWrite
<1>3. ControlOK' /\ call' \in {call, "none"}
  <2>1. \E res : \E st \in {status, "BROKEN"} : Return(res, st) \/ GoOn(st)
    BY DEF BioWrite
  <2>2. call # "none" /\ status \in Statuses /\ "BROKEN" \in Statuses
    BY <1>2 DEF Works, ControlOK, Statuses
  <2> QED BY <1>2, <2>1, <2>2, ReturnControl DEF Fixed
<1>4. role' = role /\ Script' = Script /\ InRecords' = InRecords /\ Count("r")' = Count("r")
  BY <1>2 DEF Fixed, Script, InRecords, Count
<1>5. Len(Script) \in Nat
  BY CountIsNat DEF ControlOK
<1>6. full /\ HsDone => call = "write" /\ call' = "none"
  <2>1. HsDone => call = "write"
    BY <1>2 DEF Wants
  <2>2. full /\ HsDone => n # 0
    BY <1>1 DEF Progress
  <2>3. full /\ HsDone => Return("ok", IF n > 0 /\ SendFails(sendOpp, ipos, upos + n) THEN "BROKEN" ELSE status)
    BY <2>2 DEF BioWrite
  <2> QED BY <2>1, <2>3 DEF Return
<1> HIDE DEF n
<1>7. SendSide'
  <2>1. CASE n = 0
    BY <1>2, <2>1 DEF SendSide, sendVar, Fixed
  <2>2. CASE n # 0
    <3>1. PostSend(sendOpp, ipos, upos + n, sendIo) /\ wire' = wire
      BY <1>2, <2>2 DEF Fixed
    <3>2. /\ ipos \in Nat /\ ipos <= upos + n /\ upos + n \in 0..BUF_LEN
          /\ sendOpp \in {"NONE", "CONNECT", "SEND"} /\ sendIo \in IoState /\ sendIo.n <= ipos
          /\ (sendIo = Idle \/ sendOpp # "NONE") /\ wire \in Nat
      BY <1>1 DEF SendSide
    <3> QED BY ONLY <3>1, <3>2, PostSendKeeps
  <2> QED BY <2>1, <2>2
<1>8. RecvSide' /\ rx' = rx /\ recvIo' = recvIo
  BY <1>2 DEF RecvSide, recvVar
<1>9. Progress'
  <2>1. step' \in 1..(Len(Script) + 1)
    BY <1>2, <1>5 DEF Progress, HsDone
  <2>2. outb' \in 0..(REC - 1)
    BY <1>1, <1>2 DEF Progress
  <2>3. wrote' \in 0..MaxOut /\ (call' = "write" => wrote' < MaxOut)
    BY <1>2, <1>3, <1>6, TlsAssumption DEF Progress
  <2> QED BY <1>4, <2>1, <2>2, <2>3 DEF Progress
<1>10. Fragments'
  BY <1>2, <1>4, <1>8 DEF Fragments, Fixed
<1> QED BY <1>3, <1>7, <1>8, <1>9, <1>10

\* The SSL function that can return at once.
LEMMA EngineEnds ==
  ASSUME StreamInv, EngineReturns
  PROVE  StreamInv'
<1> USE DEF StreamInv
<1>1. UNCHANGED <<Fixed, engine, recvVar, sendVar, got, wrote>>
  BY DEF EngineReturns
<1>2. ControlOK' /\ call' \in {call, "none"}
  <2>1. call # "none" /\ \E res : Return(res, status)
    BY DEF EngineReturns, AtOnce
  <2>2. status \in Statuses
    BY DEF ControlOK
  <2> QED BY <1>1, <2>1, <2>2, ReturnControl DEF Fixed
<1>3. SendSide' /\ RecvSide'
  BY <1>1 DEF SendSide, RecvSide, sendVar, recvVar, Fixed
<1>4. Progress' /\ Fragments'
  BY <1>1, <1>2 DEF Progress, Fragments, Script, InRecords, Count, Fixed, engine, recvVar
<1> QED BY <1>2, <1>3, <1>4

\* The application's calls, and wait(): only ctl() touches a buffer.
LEMMA CallStream ==
  ASSUME StreamInv,
         \/ Connect \/ Recv \/ Send \/ Close \/ Wait
         \/ \E how \in Hows : Shutdown(how)
         \/ \E mask \in CtlMasks : Ctl(mask)
  PROVE  StreamInv'
<1> USE TlsAssumption DEF StreamInv
<1>1. /\ UNCHANGED <<engine, role, peer, inCount, wire, got, wrote>>
      /\ open' => open
      /\ call' \in {call, "none"} \/ (call' \in {"read", "write"} /\ (call' = "write" => wrote < MaxOut))
  BY DEF Connect, Recv, Send, Close, Wait, Shutdown, Ctl, sockVar, Calls, ControlOK
<1>2. ControlOK'
  <2>1. CASE Connect \/ Recv \/ Send
    BY <2>1 DEF Connect, Recv, Send, sockVar, sslVar, ControlOK
  <2>2. CASE Close
    BY <2>2, ZenonT(30) DEF Close, sslVar, ControlOK, Statuses
  <2>3. CASE Wait
    BY <2>3, ZenonT(30) DEF Wait, sslVar, ControlOK
  <2>4. ASSUME NEW how \in Hows, Shutdown(how) PROVE ControlOK'
    BY <2>4 DEF Shutdown, ControlOK, Statuses
  <2>5. ASSUME NEW mask \in CtlMasks, Ctl(mask) PROVE ControlOK'
    <3>1. /\ evMask' = mask \cup {"ERROR", "HANGUP"} /\ listed' = TRUE /\ status' \in {status, "BROKEN"}
          /\ UNCHANGED <<open, shutdownFlag, alive, sslVar, call, role, peer, pc, ev>>
      BY <2>5 DEF Ctl
    <3> QED BY <3>1 DEF ControlOK, sslVar, Statuses, Events
  <2> QED BY <2>1, <2>2, <2>3, <2>4, <2>5
<1>3. SendSide'
  <2>1. CASE Connect
    BY <2>1 DEF Connect, SendSide, Flight, Idle, IoState
  <2>2. CASE ~Connect
    <3>1. UNCHANGED <<sendVar, wire>>
      BY <2>2 DEF Recv, Send, Close, Wait, Shutdown, Ctl
    <3> QED BY <3>1 DEF SendSide, sendVar
  <2> QED BY <2>1, <2>2
<1>4. RecvSide' /\ rx' = rx /\ recvIo'.n = recvIo.n
  <2>1. PostRecv(rx) \/ UNCHANGED recvVar
    BY DEF Connect, Recv, Send, Close, Wait, Shutdown, Ctl
  <2>2. rx \in 0..BUF_LEN /\ (recvOpp = "RECV" => rx = 0)
    BY DEF RecvSide
  <2> QED BY <2>1, <2>2, PostRecvKeeps DEF RecvSide, recvVar
<1>5. Progress' /\ Fragments'
  BY <1>1, <1>4 DEF Progress, Fragments, Script, InRecords, Count, engine
<1> QED BY <1>2, <1>3, <1>4, <1>5

\* What update() leaves.
LEMMA AfterUpdateControl ==
  ASSUME ControlOK, NEW ok, NEW raw, NEW st \in Statuses, AfterUpdate(ok, raw, st),
         UpdateKeeps' = UpdateKeeps
  PROVE  ControlOK' /\ call' \in {call, "handshake"}
<1>1. status' \in Statuses /\ call' \in {call, "handshake"}
      /\ shutdownFlag' \in {shutdownFlag, sslShutdownFlag}
  BY DEF AfterUpdate, Statuses
<1>2. /\ pc' = pc /\ ev' = ev
      \/ \E r : Resume(r)
  BY DEF AfterUpdate
<1>3. UNCHANGED <<open, evMask, listed, alive, handshaked, sslShutdownFlag, canRecv, canSend, role, peer>>
  BY DEF UpdateKeeps, sslVar
<1> QED BY <1>1, <1>2, <1>3 DEF ControlOK, Resume

\* The completion handlers: onRecv() adds what came to the buffer, onSend() drops what is out.
LEMMA UpdateStream ==
  ASSUME StreamInv, Update
  PROVE  StreamInv'
<1> USE TlsAssumption DEF StreamInv
<1>1. UpdateKeeps' = UpdateKeeps /\ call = "none"
  BY DEF Update, OnConnect, OnSend, OnRecv, OnClosed, Blocked
<1>2. ControlOK' /\ call' \in {call, "handshake"}
  <2>1. \E ok, raw : \E st \in {status, "CONNECTED", "PEERCLOSED", "BROKEN"} : AfterUpdate(ok, raw, st)
    BY DEF Update, OnConnect, OnSend, OnRecv, OnClosed
  <2>2. {status, "CONNECTED", "PEERCLOSED", "BROKEN"} \subseteq Statuses
    BY DEF ControlOK, Statuses
  <2> QED BY <1>1, <2>1, <2>2, AfterUpdateControl
<1>3. /\ UNCHANGED <<open, step, inb, outb, inRecs, role, inCount, wire, got, wrote>>
      /\ UNCHANGED <<Script, InRecords, Count("r")>>
  BY <1>1 DEF UpdateKeeps, engine, Script, InRecords, Count
<1>4. Progress'
  BY <1>1, <1>2, <1>3 DEF Progress
<1>5. Idle \in IoState /\ Idle.n = 0 /\ Idle.st # "done"
  BY DEF Idle, IoState
<1>6. SendSide'
  <2>1. CASE UNCHANGED sendVar
    BY <1>3, <2>1 DEF SendSide, sendVar
  <2>2. CASE sendIo' = Idle /\ sendOpp' = "NONE" /\ UNCHANGED <<ipos, upos>>
    BY <1>3, <1>5, <2>2 DEF SendSide
  <2>3. CASE PostSend("NONE", sendIo.n, upos, Idle)
    <3>1. /\ sendIo.n \in Nat /\ sendIo.n <= upos /\ upos \in 0..BUF_LEN /\ ipos \in Nat /\ ipos <= upos
          /\ wire \in Nat
      BY DEF SendSide, IoState
    <3>2. Idle.n <= ipos /\ wire' = wire
      BY <1>3, <1>5, <3>1
    <3> QED BY ONLY <1>5, <2>3, <3>1, <3>2, PostSendKeeps
  <2> QED BY <2>1, <2>2, <2>3 DEF Update, OnConnect, OnSend, OnRecv, OnClosed
<1>7. RecvSide' /\ Fragments'
  <2>1. recvIo.n \in Nat /\ rx \in Nat /\ inRecs \in Nat /\ inb \in Nat /\ REC * inRecs \in Nat
    BY ProductIsNat DEF RecvSide, Fragments, IoState
  <2>2. CASE UNCHANGED recvVar
    BY <1>3, <2>2 DEF RecvSide, Fragments, recvVar
  <2>3. CASE OnRecv
    <3>1. recvIo' = Idle /\ recvOpp' = "NONE" /\ rx' = rx + recvIo.n /\ recvIo # Idle
      BY <2>3, <1>5 DEF OnRecv
    <3>2. rx = 0 /\ recvIo.n <= BUF_LEN
      BY <3>1 DEF RecvSide, IoState
    <3>3. RecvSide'
      BY <1>5, <2>1, <3>1, <3>2 DEF RecvSide
    <3>4. Fragments'
      BY <1>3, <1>5, <2>1, <3>1, <3>2 DEF Fragments
    <3> QED BY <3>3, <3>4
  <2>4. CASE ~open /\ recvIo' = Idle /\ recvOpp' = "NONE" /\ rx' = rx
    <3>1. RecvSide'
      BY <1>5, <2>1, <2>4 DEF RecvSide
    <3>2. Fragments'
      BY <1>3, <1>5, <2>1, <2>4 DEF Fragments
    <3> QED BY <3>1, <3>2
  <2> QED BY <2>2, <2>3, <2>4 DEF Update, OnConnect, OnSend, OnClosed
<1> QED BY <1>2, <1>4, <1>6, <1>7

\* The kernel delivers fragments of records that the peer sends.
LEMMA KernelStream ==
  ASSUME StreamInv, KernelSend \/ KernelRecv \/ \E how \in PeerEnds : PeerEnd(how)
  PROVE  StreamInv'
<1> USE TlsAssumption DEF StreamInv
<1>1. UNCHANGED <<sockVar, sslVar, call, step, inb, outb, inRecs, role, pc, ev, got, wrote>>
      /\ UNCHANGED <<recvOpp, rx, sendOpp, ipos, upos>>
  BY DEF KernelSend, KernelRecv, KConnect, KSend, KSendEnd, KRecv, KRecvEnd, PeerEnd, KernelKeeps,
         engine, recvVar, sendVar
<1>2. UNCHANGED <<Script, InRecords, Count("r")>> /\ Count("r") \in Nat /\ InRecords \in Nat
  BY <1>1, CountIsNat DEF Script, InRecords, Count, ControlOK
<1>3. peer' \in {"none", "up", "fin", "reset"}
  BY DEF KernelSend, KernelRecv, KConnect, KSend, KSendEnd, KRecv, KRecvEnd, PeerEnd, ControlOK
<1>4. ControlOK' /\ Progress'
  BY <1>1, <1>2, <1>3 DEF ControlOK, Progress, sockVar, sslVar
<1>5. SendSide'
  <2>1. CASE UNCHANGED <<sendVar, wire>>
    BY <2>1 DEF SendSide, sendVar
  <2>2. ASSUME NEW ok \in BOOLEAN, KConnect(ok) \/ KSendEnd(ok) PROVE SendSide'
    <3>1. sendIo' = [st |-> "done", ok |-> ok, n |-> 0] /\ wire' = wire /\ sendIo.st = "flight"
      BY <2>2 DEF KConnect, KSendEnd, Done
    <3>2. sendIo' \in IoState /\ sendIo'.n = 0
      BY <3>1 DEF IoState
    <3> QED BY <1>1, <3>1, <3>2 DEF SendSide, Idle
  <2>3. ASSUME NEW n \in 1..ipos, KSend(n) PROVE SendSide'
    <3>1. n \in Nat /\ n <= ipos /\ n <= BUF_LEN
      BY DEF SendSide
    <3>2. sendIo' = [st |-> "done", ok |-> TRUE, n |-> n] /\ wire' = wire + n /\ sendIo.st = "flight"
      BY <2>3 DEF KSend, Done
    <3>3. sendIo' \in IoState /\ sendIo'.n = n
      BY <3>1, <3>2 DEF IoState
    <3> QED BY <1>1, <3>1, <3>2, <3>3 DEF SendSide, Idle
  <2>4. CASE KernelRecv \/ \E how \in PeerEnds : PeerEnd(how)
    BY <2>1, <2>4 DEF KernelRecv, KRecv, KRecvEnd, PeerEnd
  <2> QED BY <2>2, <2>3, <2>4 DEF KernelSend
<1>6. RecvSide' /\ Fragments'
  <2>1. recvIo.n \in Nat /\ rx \in Nat /\ inRecs \in Nat /\ inb \in Nat /\ REC * inRecs \in Nat
        /\ inCount \in Nat
    BY ProductIsNat DEF RecvSide, Fragments, IoState
  <2>2. CASE UNCHANGED recvVar /\ inCount' = inCount
    BY <1>1, <1>2, <2>2 DEF RecvSide, Fragments, recvVar, sockVar
  <2>3. CASE KRecvEnd
    <3>1. /\ recvIo.st = "flight" /\ inCount' = inCount
          /\ \E ok \in BOOLEAN : recvIo' = [st |-> "done", ok |-> ok, n |-> 0]
      BY <2>3 DEF KRecvEnd, Done
    <3>2. recvIo' \in IoState /\ recvIo'.n = 0 /\ recvIo.n = 0 /\ recvOpp # "NONE"
      BY <3>1 DEF IoState, RecvSide, Idle
    <3>3. RecvSide'
      BY <1>1, <3>1, <3>2 DEF RecvSide
    <3>4. Fragments'
      BY <1>1, <1>2, <2>1, <3>1, <3>2 DEF Fragments, sockVar
    <3> QED BY <3>3, <3>4
  <2>4. ASSUME NEW n \in 1..BUF_LEN, KRecv(n) PROVE RecvSide' /\ Fragments'
    <3>1. /\ recvIo.st = "flight" /\ inCount' = inCount + n /\ open
          /\ recvIo' = [st |-> "done", ok |-> TRUE, n |-> n]
          /\ (inCount + n - 1) \div REC + 1 <= InRecords
      BY <2>4 DEF KRecv, Done, MaySend
    <3>2. recvIo' \in IoState /\ recvIo'.n = n /\ recvIo.n = 0 /\ recvOpp # "NONE"
      BY <3>1 DEF IoState, RecvSide, Idle
    <3>3. RecvSide'
      BY <1>1, <3>1, <3>2 DEF RecvSide
    <3>4. inCount + n <= REC * InRecords
      <4>1. inCount + n - 1 \in Nat
        BY <2>1
      <4>2. inCount + n - 1 + 1 <= REC * InRecords
        BY <1>2, <3>1, <4>1, WithinRecords
      <4>3. REC * InRecords \in Nat
        BY <1>2, ProductIsNat
      <4> QED BY <2>1, <4>2, <4>3
    <3>5. Fragments'
      <4>1. REC * InRecords \in Nat /\ inCount + n \in Nat
        BY <1>2, <2>1, ProductIsNat
      <4> QED BY <1>1, <1>2, <2>1, <3>1, <3>2, <3>4, <4>1 DEF Fragments, sockVar
    <3> QED BY <3>3, <3>5
  <2>5. CASE KernelSend \/ \E how \in PeerEnds : PeerEnd(how)
    BY <2>2, <2>5 DEF KernelSend, KConnect, KSend, KSendEnd, PeerEnd
  <2> QED BY <2>3, <2>4, <2>5 DEF KernelRecv
<1> QED BY <1>4, <1>5, <1>6

LEMMA StreamInvariant == Spec => []StreamInv
<1>1. Init => StreamInv
  <2> SUFFICES ASSUME Init PROVE StreamInv
    OBVIOUS
  <2>1. Count("r") \in Nat /\ InRecords \in Nat /\ Len(Script) \in Nat
    BY CountIsNat DEF Init
  <2>2. ControlOK
    BY DEF Init, ControlOK, Statuses
  <2>3. Idle \in IoState /\ Idle.n = 0
    BY TlsAssumption DEF Idle, IoState
  <2>4. SendSide /\ RecvSide /\ Progress
    BY <2>1, <2>3, TlsAssumption DEF Init, SendSide, RecvSide, Progress
  <2>5. Fragments
    <3>1. REC * InRecords \in Nat /\ REC * 0 = 0
      BY <2>1, ProductIsNat, TlsAssumption
    <3> QED BY <2>1, <2>3, <3>1, TlsAssumption DEF Init, Fragments
  <2> QED BY <2>2, <2>4, <2>5 DEF StreamInv
<1>2. StreamInv /\ [Next]_vars => StreamInv'
  <2> SUFFICES ASSUME StreamInv, [Next]_vars PROVE StreamInv'
    OBVIOUS
  <2>1. CASE UNCHANGED vars
    BY <2>1 DEF vars, sockVar, sslVar, engine, recvVar, sendVar, StreamInv, ControlOK, SendSide,
                RecvSide, Progress, Fragments, Script, InRecords, Count
  <2>2. CASE Next
    BY <2>2, EngineReads, EngineWrites, EngineEnds, CallStream, UpdateStream, KernelStream
       DEF Next, Engine
  <2> QED BY <2>1, <2>2
<1> QED BY <1>1, <1>2, PTL DEF Spec

\* Every variable keeps to its values: no BIO call runs past a record or a buffer, and the
\* engine reads no record that the peer does not send.
THEOREM TlsTypeCorrect == Spec => []TypeOK
<1>1. StreamInv => TypeOK
  BY StreamTypes
<1> QED BY <1>1, StreamInvariant, PTL

\* Between the kernel, the receive buffer and the engine no fragment is lost or read twice,
\* in whatever pieces the records arrive and whenever the application calls recv() or ctl().
THEOREM NothingLost == Spec => []NoFragmentLost
<1>1. StreamInv => NoFragmentLost
  <2> SUFFICES ASSUME StreamInv, open PROVE inCount = REC * inRecs + inb + rx + recvIo.n
    BY DEF NoFragmentLost
  <2> QED BY DEF StreamInv, Fragments
<1> QED BY <1>1, StreamInvariant, PTL

=============================================================================
