------------------------ MODULE IoSelectorImplProofs ------------------------
(***************************************************************************)
(* Proofs about the selector, for any number of sockets, wakeups and       *)
(* timeouts and any application: a timeout is never early, the check list  *)
(* holds every socket at most once and no deleted one, and the notes that  *)
(* close() goes by tell the truth of the kernel and the port, so that      *)
(* close() deletes no socket with an operation under way.                  *)
(***************************************************************************)
EXTENDS IoSelectorImpl, ListsProofs, FiniteSetTheorems, SequenceTheorems, TLAPS

\* The bounds are numbers, and no timeout is beyond the clock.
LEMMA Bounds ==
  /\ MaxTicks \in Nat /\ Olps \subseteq {"recv", "send"}
  /\ Timeouts \subseteq Int /\ \A t \in Timeouts : t <= MaxTicks
  /\ Listeners \subseteq Sockets
BY SelectorAssumption DEF SelectorAssumption

-----------------------------------------------------------------------------
(* The time wait() has waited.                                              *)

ClockTypes ==
  /\ pc \in {"user", "wait"}
  /\ timeo \in Int /\ timeo <= MaxTicks
  /\ left \in Nat /\ since \in Nat /\ total \in 0..MaxTicks

\* What has been taken off the timeout, and the ticks not yet taken off, have passed.
ClockAdds == pc = "wait" /\ timeo >= 0 => total >= (timeo - left) + since \/ total = MaxTicks

ClockInv == ClockTypes /\ ClockAdds

\* The clock does not go back.
LEMMA LaterTypes ==
  ASSUME NEW n \in Nat
  PROVE  /\ Later(n) \in {n, n + 1}
         /\ n \in 0..MaxTicks => Later(n) \in 0..MaxTicks /\ (Later(n) = n => n = MaxTicks)
BY Bounds DEF Later

\* The steps of the loop of wait(): what is taken off `left' has been counted in `total'.
LEMMA GoOnStep ==
  ASSUME ClockInv, pc = "wait", GoOn
  PROVE  ClockInv'
<1>1. /\ timeo \in Int /\ timeo <= MaxTicks /\ left \in Nat /\ since \in Nat
      /\ total \in 0..MaxTicks /\ total \in Nat
      /\ timeo >= 0 => total >= (timeo - left) + since \/ total = MaxTicks
  BY Bounds DEF ClockInv, ClockTypes, ClockAdds
<1>2. Later(total) \in 0..MaxTicks /\ Later(total) >= total
  BY <1>1, LaterTypes
<1>3. CASE timeo < 0
  <2>1. UNCHANGED <<pc, timeo, left>> /\ since' = 0 /\ total' \in {total, Later(total)}
    BY <1>1, <1>3 DEF GoOn
  <2> QED BY <1>1, <1>2, <1>3, <2>1 DEF ClockInv, ClockTypes, ClockAdds
<1>4. CASE timeo >= 0 /\ UsedUp(since)
  <2>1. Return("TIMEOUT")
    BY <1>1, <1>4 DEF GoOn
  <2> QED BY <2>1, Bounds DEF Return, ClockInv, ClockTypes, ClockAdds
<1>5. CASE timeo >= 0 /\ ~UsedUp(since)
  <2>1. /\ UNCHANGED <<pc, timeo>> /\ since' = 0 /\ total' \in {total, Later(total)}
        /\ left' = left - since
    BY <1>1, <1>5 DEF GoOn, Remaining
  <2>2. since < left
    BY <1>1, <1>5 DEF UsedUp
  <2>3. left' \in Nat
    BY ONLY <1>1, <2>1, <2>2
  <2>4. total' >= (timeo' - left') + since' \/ total' = MaxTicks
    BY ONLY <1>1, <1>2, <1>5, <2>1
  <2> QED BY <1>1, <1>2, <2>1, <2>3, <2>4 DEF ClockInv, ClockTypes, ClockAdds
<1> QED BY <1>1, <1>3, <1>4, <1>5

LEMMA ClockStep ==
  ASSUME ClockInv, [Next]_vars
  PROVE  ClockInv'
<1>1. CASE \E t \in Timeouts : WaitPort(t)
  <2>1. PICK t \in Timeouts : WaitPort(t)
    BY <1>1
  <2>2. t \in Int /\ t <= MaxTicks
    BY Bounds
  <2> QED BY <2>1, <2>2, Bounds DEF WaitPort, ClockInv, ClockTypes, ClockAdds
<1>2. CASE Take
  <2>1. CASE \E r \in {"SUCESS", "WAKEUP"} : Return(r)
    BY <2>1, Bounds DEF Return, ClockInv, ClockTypes, ClockAdds
  <2>2. CASE pc = "wait" /\ GoOn
    BY <2>2, GoOnStep
  <2> QED BY <1>2, <2>1, <2>2 DEF Take, TakeWakeup, TakePacket, OnWakeup
<1>3. CASE Timeout \/ Fault
  BY <1>3, Bounds DEF Timeout, Fault, Return, ClockInv, ClockTypes, ClockAdds
<1>4. CASE Tick
  <2>1. /\ timeo \in Int /\ timeo <= MaxTicks /\ left \in Nat /\ since \in Nat
        /\ total \in 0..MaxTicks /\ total \in Nat
        /\ pc = "wait" /\ timeo >= 0 => total >= (timeo - left) + since \/ total = MaxTicks
    BY Bounds DEF ClockInv, ClockTypes, ClockAdds
  <2>2. since' = Later(since) /\ total' = Later(total) /\ UNCHANGED <<pc, timeo, left>>
    BY <1>4 DEF Tick
  <2>3. /\ since' \in {since, since + 1} /\ total' \in 0..MaxTicks
        /\ total' \in {total, total + 1} /\ (total' = total => total = MaxTicks)
    BY <2>1, <2>2, LaterTypes
  <2>4. pc' = "wait" /\ timeo' >= 0 => total' >= (timeo' - left') + since' \/ total' = MaxTicks
    BY <2>1, <2>2, <2>3
  <2> QED BY <2>1, <2>2, <2>3, <2>4 DEF ClockInv, ClockTypes, ClockAdds
<1>5. CASE UNCHANGED <<pc, clock>>
  BY <1>5 DEF clock, ClockInv, ClockTypes, ClockAdds
<1>6. CASE \/ \E s \in Sockets : Socket(s) \/ Use(s) \/ Ctl(s) \/ Close(s)
           \/ \E s \in Sockets, o \in Olps : Complete(s, o)
           \/ \E l \in Listeners, s \in Sockets : Accept(l, s)
           \/ Free \/ Wakeup \/ UNCHANGED vars \/ \E n \in DOMAIN actAdpList : WaitListed(n)
  BY <1>5, <1>6 DEF Socket, Use, Ctl, Close, Complete, Accept, Free, Wakeup, WaitListed, vars
<1> QED BY <1>1, <1>2, <1>3, <1>4, <1>6 DEF Next, Wait

\* wait() never says IO_WAIT_TIMEOUT before the time it was given has passed, however many
\* packets without an event it takes off the port meanwhile, and never in an endless wait.
THEOREM TimeoutCorrect == Spec => TimeoutIsDue
<1>1. Init => ClockInv
  BY Bounds DEF Init, ClockInv, ClockTypes, ClockAdds
<1>2. ClockInv /\ [Next]_vars => ClockInv'
  BY ClockStep
<1> DEFINE Due == ret' # ret /\ ret' = "TIMEOUT" => timeo >= 0 /\ total >= timeo
<1>3. ClockInv /\ [Next]_vars => [Due]_vars
  <2> SUFFICES ASSUME ClockInv, Next, ret' # ret, ret' = "TIMEOUT"
               PROVE  timeo >= 0 /\ total >= timeo
    BY DEF vars
  <2>1. /\ timeo \in Int /\ timeo <= MaxTicks /\ left \in Nat /\ since \in Nat /\ total \in Nat
        /\ pc = "wait" /\ timeo >= 0 => total >= (timeo - left) + since \/ total = MaxTicks
    BY Bounds DEF ClockInv, ClockTypes, ClockAdds
  <2>2. pc = "wait" /\ timeo >= 0 /\ since >= left
    <3>1. CASE Timeout
      BY <3>1 DEF Timeout
    <3>2. CASE Take
      <4>1. pc = "wait" /\ GoOn
        BY <3>2 DEF Take, TakeWakeup, TakePacket, OnWakeup, Return
      <4> QED BY <2>1, <4>1 DEF GoOn, UsedUp
    <3>3. CASE Wait
      BY <3>3 DEF Wait, WaitListed, WaitPort
    <3> QED BY <3>1, <3>2, <3>3
            DEF Next, Socket, Use, Ctl, Close, Complete, Accept, Free, Wakeup, Fault, Return, Tick
  <2> QED BY ONLY <2>1, <2>2
<1> QED BY <1>1, <1>2, <1>3, PTL DEF Spec, TimeoutIsDue

-----------------------------------------------------------------------------
(* The values of the variables, and the check list.                         *)

ObjectsOK ==
  /\ iocp \in BOOLEAN /\ ret \in {"none", "SUCESS", "TIMEOUT", "WAKEUP", "ERROR"}
  /\ adpList \subseteq used /\ used \subseteq Sockets /\ handles \subseteq adpList
  /\ ready \subseteq Sockets

KernelOK ==
  /\ noted \in [Sockets -> SUBSET Olps] /\ posted \in [Sockets -> SUBSET Olps]
  /\ port \in Seq(Packets)

TimeOK ==
  /\ pc \in {"user", "wait"}
  /\ timeo \in Int /\ left \in Nat /\ since \in 0..MaxTicks /\ total \in 0..MaxTicks

\* A list of objects, each of them once.
Sound(list, objects) ==
  /\ list \in Seq(Sockets)
  /\ \A i \in DOMAIN list :
       /\ list[i] \in objects
       /\ \A j \in DOMAIN list : list[i] = list[j] => i = j

BooksInv == ObjectsOK /\ KernelOK /\ TimeOK /\ Sound(actAdpList, adpList)

\* remove(), push_back() after it, and the part of the list that wait() has not looked at.
LEMMA ListMoves ==
  ASSUME NEW list, NEW objects \in SUBSET Sockets, Sound(list, objects)
  PROVE  /\ \A s : Sound(Without(list, s), objects \ {s})
         /\ \A s \in objects : Sound(Relisted(list, s), objects)
         /\ \A n \in 1..Len(list) : Sound(SubSeq(list, n + 1, Len(list)), objects)
<1>1. list \in Seq(Sockets)
  BY DEF Sound
<1>2. ASSUME NEW s PROVE Sound(Without(list, s), objects \ {s})
  <2>1. /\ Without(list, s) \in Seq(Sockets)
        /\ \A i \in DOMAIN Without(list, s) :
             Without(list, s)[i] # s /\ \E j \in DOMAIN list : list[j] = Without(list, s)[i]
        /\ \A i, j \in DOMAIN Without(list, s) : Without(list, s)[i] = Without(list, s)[j] => i = j
    <3> DEFINE w == Dropped(list, {s})
    <3>1. /\ w \in Seq(Sockets)
          /\ \A x : (\E i \in DOMAIN w : w[i] = x) <=> x \notin {s} /\ \E i \in DOMAIN list : list[i] = x
          /\ (\A i, j \in DOMAIN list : list[i] = list[j] => i = j)
               => \A i, j \in DOMAIN w : w[i] = w[j] => i = j
      BY <1>1, DroppedFacts
    <3> HIDE DEF w
    <3>2. \A i \in DOMAIN w : w[i] # s /\ \E j \in DOMAIN list : list[j] = w[i]
      BY <3>1
    <3>3. \A i, j \in DOMAIN w : w[i] = w[j] => i = j
      BY <3>1 DEF Sound
    <3> QED BY <3>1, <3>2, <3>3 DEF Without, w
  <2> QED BY <2>1 DEF Sound
<1>3. ASSUME NEW s \in objects PROVE Sound(Relisted(list, s), objects)
  <2> DEFINE w == Without(list, s)
  <2>1. Sound(w, objects \ {s})
    BY <1>2
  <2> HIDE DEF w
  <2>2. w \in Seq(Sockets) /\ Len(w) \in Nat /\ DOMAIN w = 1..Len(w)
    BY <2>1 DEF Sound
  <2>3. /\ Append(w, s) \in Seq(Sockets) /\ DOMAIN Append(w, s) = 1..(Len(w) + 1)
        /\ Append(w, s)[Len(w) + 1] = s
        /\ \A i \in 1..Len(w) : Append(w, s)[i] = w[i]
    BY <2>2
  <2>4. \A i : i \in 1..(Len(w) + 1) <=> i \in 1..Len(w) \/ i = Len(w) + 1
    BY <2>2
  <2> QED BY <2>1, <2>2, <2>3, <2>4 DEF Sound, Relisted, w
<1>4. ASSUME NEW n \in 1..Len(list) PROVE Sound(SubSeq(list, n + 1, Len(list)), objects)
  <2> DEFINE r == SubSeq(list, n + 1, Len(list))
  <2>1. Len(list) \in Nat /\ DOMAIN list = 1..Len(list)
    BY <1>1
  <2>2. /\ r \in Seq(Sockets) /\ DOMAIN r = 1..(Len(list) - n)
        /\ \A i \in 1..(Len(list) - n) : r[i] = list[n + i]
    <3>1. /\ n + 1 \in 1..(Len(list) + 1) /\ Len(list) \in n..Len(list)
          /\ \A i \in 1..(Len(list) - n) : n + 1 + i - 1 = n + i
      BY <2>1
    <3> QED BY <1>1, <2>1, <3>1, SubSeqProperties
  <2>3. \A i \in 1..(Len(list) - n) : n + i \in DOMAIN list
    BY <2>1
  <2>4. \A i, j \in 1..(Len(list) - n) : n + i = n + j => i = j
    BY <2>1
  <2> HIDE DEF r
  <2> QED BY <2>2, <2>3, <2>4 DEF Sound, r
<1> QED BY <1>2, <1>3, <1>4

\* What MayPost() changes: the notes grow, and what the kernel takes is noted and was not
\* under way.
LEMMA PostFacts ==
  ASSUME KernelOK, NEW s \in Sockets, NEW n \in SUBSET Olps, NEW q, MayPost(s, n, q)
  PROVE  /\ noted' \in [Sockets -> SUBSET Olps] /\ posted' \in [Sockets -> SUBSET Olps]
         /\ \A x \in Sockets \ {s} : noted'[x] = noted[x] /\ posted'[x] = posted[x]
         /\ n \subseteq noted'[s]
         /\ \E taken \in SUBSET noted'[s] :
              posted'[s] = posted[s] \cup taken /\ taken \cap UnderWay(s, q) = {}
<1>1. PICK asked \in SUBSET Olps :
        /\ noted' = [noted EXCEPT ![s] = n \cup asked]
        /\ \/ \E taken \in SUBSET (asked \ UnderWay(s, q)) :
                posted' = [posted EXCEPT ![s] = @ \cup taken]
           \/ posted' = posted
  BY DEF MayPost
<1>2. PICK taken \in SUBSET (asked \ UnderWay(s, q)) : posted' = [posted EXCEPT ![s] = @ \cup taken]
  <2>1. CASE posted' = posted
    <3>1. posted' = [posted EXCEPT ![s] = @ \cup {}]
      BY <2>1 DEF KernelOK
    <3> QED BY <3>1
  <2> QED BY <1>1, <2>1
<1>3. noted'[s] = n \cup asked /\ posted'[s] = posted[s] \cup taken
  BY <1>1, <1>2 DEF KernelOK
<1>4. /\ noted' \in [Sockets -> SUBSET Olps] /\ posted' \in [Sockets -> SUBSET Olps]
      /\ \A x \in Sockets \ {s} : noted'[x] = noted[x] /\ posted'[x] = posted[x]
  BY <1>1, <1>2 DEF KernelOK
<1>5. taken \in SUBSET noted'[s] /\ taken \cap UnderWay(s, q) = {}
  BY <1>2, <1>3
<1> QED BY <1>3, <1>4, <1>5

\* The calls.
LEMMA CallBooks ==
  ASSUME BooksInv,
         \/ \E s \in Sockets : Socket(s) \/ Use(s) \/ Ctl(s) \/ Close(s)
         \/ \E l \in Listeners, s \in Sockets : Accept(l, s)
         \/ Free \/ Wakeup
  PROVE  BooksInv'
<1> USE DEF BooksInv
<1>1. UNCHANGED <<pc, clock, ret>>
  BY DEF Socket, Use, Ctl, Close, Accept, Free, Wakeup
<1>2. TimeOK'
  BY <1>1 DEF TimeOK, clock
<1>3. adpList \subseteq Sockets /\ handles \subseteq Sockets
  BY DEF ObjectsOK
<1>4. CASE \E s \in Sockets : Socket(s)
  BY <1>1, <1>2, <1>4 DEF Socket, kernel, ObjectsOK, KernelOK, Sound
<1>5. CASE \E s \in Sockets : Use(s)
  <2>1. PICK s \in Sockets : Use(s)
    BY <1>5
  <2> QED BY <1>1, <1>2, <2>1, PostFacts DEF Use, books, MayChange, ObjectsOK, KernelOK, Sound
<1>6. CASE \E s \in Sockets : Ctl(s)
  <2>1. PICK s \in Sockets : Ctl(s)
    BY <1>6
  <2>2. /\ s \in adpList /\ MayPost(s, noted[s], port) /\ MayChange(s)
        /\ actAdpList' = Relisted(actAdpList, s)
        /\ UNCHANGED <<iocp, adpList, used, handles, port>>
    BY <2>1 DEF Ctl
  <2>3. Sound(actAdpList', adpList')
    BY <1>3, <2>2, ListMoves
  <2>4. KernelOK'
    <3>1. noted[s] \in SUBSET Olps
      BY DEF KernelOK
    <3> QED BY <2>2, <3>1, PostFacts DEF KernelOK
  <2>5. ObjectsOK'
    BY <1>1, <2>2 DEF ObjectsOK, MayChange
  <2> QED BY <1>2, <2>3, <2>4, <2>5
<1>7. CASE \E s \in Sockets : Close(s)
  <2>1. PICK s \in Sockets : Close(s)
    BY <1>7
  <2>2. /\ handles' = handles \ {s} /\ MayChange(s) /\ UNCHANGED <<iocp, used, kernel>>
        /\ \/ UNCHANGED <<adpList, actAdpList>>
           \/ adpList' = adpList \ {s} /\ actAdpList' = Without(actAdpList, s)
    BY <2>1 DEF Close
  <2>3. Sound(actAdpList', adpList')
    BY <1>3, <2>2, ListMoves
  <2>4. ObjectsOK' /\ KernelOK'
    BY <1>1, <2>2 DEF ObjectsOK, KernelOK, MayChange, kernel
  <2> QED BY <1>2, <2>3, <2>4
<1>8. CASE \E l \in Listeners, s \in Sockets : Accept(l, s)
  <2>1. PICK l \in Listeners, s \in Sockets : Accept(l, s)
    BY <1>8
  <2>2. l \in Sockets /\ noted[l] \in SUBSET Olps
    BY Bounds DEF KernelOK
  <2> QED BY <1>1, <1>2, <2>1, <2>2, PostFacts DEF Accept, ObjectsOK, KernelOK, Sound
<1>9. CASE Free
  <2>1. /\ iocp' = FALSE /\ port' = <<>> /\ adpList' = {} /\ actAdpList' = <<>> /\ handles' = {}
        /\ ready' = {} /\ UNCHANGED <<used, noted, posted>>
    BY <1>9 DEF Free
  <2>2. <<>> \in Seq(Sockets) /\ <<>> \in Seq(Packets) /\ DOMAIN <<>> = {}
    BY EmptySeq, LenProperties
  <2> QED BY <1>1, <1>2, <2>1, <2>2 DEF ObjectsOK, KernelOK, Sound
<1>10. CASE Wakeup
  <2>1. port' = Append(port, Wake) /\ UNCHANGED <<iocp, books, ready, noted, posted>>
    BY <1>10 DEF Wakeup
  <2>2. port' \in Seq(Packets)
    BY <2>1, AppendProperties DEF KernelOK, Packets
  <2> QED BY <1>1, <1>2, <2>1, <2>2 DEF books, ObjectsOK, KernelOK, Sound
<1> QED BY <1>4, <1>5, <1>6, <1>7, <1>8, <1>9, <1>10

\* The loop of wait() keeps within the clock.
LEMMA GoOnTime ==
  ASSUME TimeOK, pc = "wait", GoOn \/ \E r \in {"SUCESS", "WAKEUP", "ERROR"} : Return(r)
  PROVE  TimeOK' /\ ret' \in {ret, "SUCESS", "TIMEOUT", "WAKEUP", "ERROR"}
<1>1. total \in Nat /\ Later(total) \in 0..MaxTicks /\ 0 \in 0..MaxTicks
  BY Bounds, LaterTypes DEF TimeOK
<1>2. CASE \E r \in {"SUCESS", "WAKEUP", "TIMEOUT", "ERROR"} : Return(r)
  BY <1>1, <1>2 DEF Return, TimeOK
<1>3. CASE timeo < 0 /\ GoOn /\ ~Return("TIMEOUT")
  <2>1. since' = 0 /\ total' \in {total, Later(total)} /\ UNCHANGED <<pc, timeo, left, ret>>
    BY <1>3 DEF GoOn, TimeOK
  <2> QED BY <1>1, <2>1 DEF TimeOK
<1>4. CASE ~(timeo < 0) /\ GoOn /\ ~Return("TIMEOUT")
  <2>1. /\ ~UsedUp(since) /\ left' = left - since /\ since' = 0 /\ total' \in {total, Later(total)}
        /\ UNCHANGED <<pc, timeo, ret>>
    BY <1>4 DEF GoOn, Remaining
  <2>2. left \in Nat /\ since \in Nat /\ since < left
    BY <2>1, Bounds DEF TimeOK, UsedUp
  <2>3. left' \in Nat
    BY ONLY <2>1, <2>2
  <2> QED BY <1>1, <2>1, <2>3 DEF TimeOK
<1> QED BY <1>2, <1>3, <1>4

\* wait(), the kernel and the clock.
LEMMA WaitBooks ==
  ASSUME BooksInv,
         Wait \/ Take \/ Timeout \/ Fault \/ Tick \/ \E s \in Sockets, o \in Olps : Complete(s, o)
  PROVE  BooksInv'
<1> USE DEF BooksInv
<1>1. adpList \subseteq Sockets
  BY DEF ObjectsOK
<1>2. CASE \E n \in DOMAIN actAdpList : WaitListed(n)
  <2>1. PICK n \in DOMAIN actAdpList : WaitListed(n)
    BY <1>2
  <2>2. n \in 1..Len(actAdpList)
    BY DEF Sound
  <2>3. /\ actAdpList' = SubSeq(actAdpList, n + 1, Len(actAdpList)) /\ ret' = "SUCESS"
        /\ ready' \subseteq ready
        /\ UNCHANGED <<iocp, adpList, used, handles, kernel, pc, clock>>
    BY <2>1 DEF WaitListed, Rest
  <2>4. Sound(actAdpList', adpList')
    BY <1>1, <2>2, <2>3, ListMoves
  <2> QED BY <2>3, <2>4 DEF ObjectsOK, KernelOK, TimeOK, kernel, clock
<1>3. CASE \E t \in Timeouts : WaitPort(t)
  <2>1. PICK t \in Timeouts : WaitPort(t)
    BY <1>3
  <2>2. /\ actAdpList' = <<>> /\ pc' = "wait" /\ ret' = "none" /\ timeo' = t
        /\ left' = (IF t >= 0 THEN t ELSE 0) /\ since' = 0 /\ total' = 0
        /\ UNCHANGED <<iocp, adpList, used, handles, ready, kernel>>
    BY <2>1 DEF WaitPort
  <2>3. t \in Int /\ 0 \in 0..MaxTicks
    BY Bounds
  <2>4. <<>> \in Seq(Sockets) /\ DOMAIN <<>> = {}
    BY EmptySeq, LenProperties
  <2> QED BY <2>2, <2>3, <2>4 DEF ObjectsOK, KernelOK, TimeOK, kernel, Sound
<1>4. CASE TakeWakeup
  <2>1. /\ pc = "wait" /\ port # <<>> /\ port' = Tail(port) /\ Return("WAKEUP")
        /\ UNCHANGED <<iocp, books, ready, noted, posted>>
    BY <1>4 DEF TakeWakeup, OnWakeup
  <2>2. Tail(port) \in Seq(Packets)
    BY <2>1, HeadTailProperties DEF KernelOK
  <2>3. TimeOK' /\ ret' \in {ret, "SUCESS", "TIMEOUT", "WAKEUP", "ERROR"}
    BY <2>1, GoOnTime
  <2> QED BY <2>1, <2>2, <2>3 DEF books, ObjectsOK, KernelOK, Sound
<1>5. CASE \E s \in Sockets, o \in Olps : TakePacket(s, o)
  <2>1. PICK s \in Sockets, o \in Olps : TakePacket(s, o)
    BY <1>5
  <2>2. /\ pc = "wait" /\ port # <<>> /\ port' = Tail(port) /\ (Return("SUCESS") \/ GoOn)
        /\ \/ MayPost(s, noted[s] \ {o}, Tail(port)) /\ MayChange(s)
           \/ noted' = [noted EXCEPT ![s] = @ \ {o}] /\ UNCHANGED <<posted, ready>>
        /\ UNCHANGED <<iocp, books>>
    BY <2>1 DEF TakePacket
  <2>3. Tail(port) \in Seq(Packets)
    BY <2>2, HeadTailProperties DEF KernelOK
  <2>4. TimeOK' /\ ret' \in {ret, "SUCESS", "TIMEOUT", "WAKEUP", "ERROR"}
    BY <2>2, GoOnTime
  <2>5. noted' \in [Sockets -> SUBSET Olps] /\ posted' \in [Sockets -> SUBSET Olps]
    <3>1. noted[s] \ {o} \in SUBSET Olps
      BY DEF KernelOK
    <3>2. CASE MayPost(s, noted[s] \ {o}, Tail(port))
      BY <3>1, <3>2, PostFacts
    <3>3. CASE noted' = [noted EXCEPT ![s] = @ \ {o}] /\ UNCHANGED <<posted, ready>>
      BY <3>1, <3>3 DEF KernelOK
    <3> QED BY <2>2, <3>2, <3>3
  <2>6. ready' \subseteq Sockets
    BY <2>2 DEF MayChange, ObjectsOK
  <2> QED BY <2>2, <2>3, <2>4, <2>5, <2>6 DEF books, ObjectsOK, KernelOK, Sound
<1>6. CASE Timeout \/ Fault
  <2>1. PICK r \in {"TIMEOUT", "ERROR"} : Return(r)
    BY <1>6 DEF Timeout, Fault
  <2>2. UNCHANGED <<iocp, books, ready, kernel>> /\ 0 \in 0..MaxTicks
    BY <1>6, Bounds DEF Timeout, Fault
  <2> QED BY <2>1, <2>2 DEF Return, books, kernel, ObjectsOK, KernelOK, TimeOK, Sound
<1>7. CASE Tick
  <2>1. /\ since' = Later(since) /\ total' = Later(total)
        /\ UNCHANGED <<iocp, books, ready, kernel, pc, timeo, left, ret>>
    BY <1>7 DEF Tick
  <2>2. since' \in 0..MaxTicks /\ total' \in 0..MaxTicks
    BY <2>1, Bounds, LaterTypes DEF TimeOK
  <2> QED BY <2>1, <2>2 DEF books, kernel, ObjectsOK, KernelOK, TimeOK, Sound
<1>8. CASE \E s \in Sockets, o \in Olps : Complete(s, o)
  <2>1. PICK s \in Sockets, o \in Olps : Complete(s, o)
    BY <1>8
  <2>2. /\ posted' = [posted EXCEPT ![s] = @ \ {o}]
        /\ port' = Append(port, <<s, o>>) \/ port' = port
        /\ UNCHANGED <<iocp, books, ready, noted, pc, clock, ret>>
    BY <2>1 DEF Complete
  <2>3. port' \in Seq(Packets)
    <3>1. port \in Seq(Packets) /\ <<s, o>> \in Packets
      BY DEF KernelOK, Packets
    <3>2. Append(port, <<s, o>>) \in Seq(Packets)
      BY <3>1, AppendProperties
    <3> QED BY <2>2, <3>1, <3>2
  <2>4. posted' \in [Sockets -> SUBSET Olps]
    BY <2>2 DEF KernelOK
  <2> QED BY <2>2, <2>3, <2>4 DEF books, clock, ObjectsOK, KernelOK, TimeOK, Sound
<1> QED BY <1>2, <1>3, <1>4, <1>5, <1>6, <1>7, <1>8 DEF Wait, Take

LEMMA BooksInvariant == Spec => []BooksInv
<1>1. Init => BooksInv
  <2>1. <<>> \in Seq(Sockets) /\ <<>> \in Seq(Packets) /\ DOMAIN <<>> = {}
    BY EmptySeq, LenProperties
  <2>2. 0 \in 0..MaxTicks
    BY Bounds
  <2> QED BY <2>1, <2>2 DEF Init, BooksInv, ObjectsOK, KernelOK, TimeOK, Sound
<1>2. BooksInv /\ [Next]_vars => BooksInv'
  <2> SUFFICES ASSUME BooksInv, [Next]_vars PROVE BooksInv'
    OBVIOUS
  <2>1. CASE UNCHANGED vars
    BY <2>1 DEF vars, books, kernel, clock, BooksInv, ObjectsOK, KernelOK, TimeOK, Sound
  <2> QED BY <2>1, CallBooks, WaitBooks DEF Next
<1> QED BY <1>1, <1>2, PTL DEF Spec

\* Every variable keeps to its values, for any number of sockets and wakeups.
THEOREM SelectorTypeCorrect == Spec => []TypeOK
<1>1. BooksInv => TypeOK
  BY DEF BooksInv, ObjectsOK, KernelOK, TimeOK, Sound, TypeOK
<1> QED BY <1>1, BooksInvariant, PTL

\* detectEvent() is called for existing sockets only, and in one wait() for each at most once:
\* whatever the order of ctl() and close(), the check list holds each socket once and none
\* that close() or the destructor has deleted.
THEOREM CheckListCorrect == Spec => []CheckListSound
<1>1. BooksInv => CheckListSound
  BY DEF BooksInv, Sound, CheckListSound
<1> QED BY <1>1, BooksInvariant, PTL

-----------------------------------------------------------------------------
(* What close() goes by.                                                    *)

\* The packets of a port after a packet e joins it, and after the first one is taken.
LEMMA QueueMoves ==
  ASSUME NEW q \in Seq(Packets), OneEach(q)
  PROVE  /\ \A e \in Packets :
              /\ \A s \in Sockets : QueuedOf(s, Append(q, e)) =
                   QueuedOf(s, q) \cup {o \in Olps : <<s, o>> = e}
              /\ e = Wake \/ (\A i \in DOMAIN q : q[i] # e) => OneEach(Append(q, e))
         /\ q # <<>> =>
              /\ OneEach(Tail(q))
              /\ \A s \in Sockets : QueuedOf(s, Tail(q)) \subseteq QueuedOf(s, q)
              /\ \A s \in Sockets, o \in Olps : Head(q) = <<s, o>> =>
                   o \in QueuedOf(s, q) /\ o \notin QueuedOf(s, Tail(q))
<1>1. Len(q) \in Nat /\ DOMAIN q = 1..Len(q)
  BY LenProperties
<1>2. ASSUME NEW e \in Packets
      PROVE  /\ \A s \in Sockets : QueuedOf(s, Append(q, e)) =
                  QueuedOf(s, q) \cup {o \in Olps : <<s, o>> = e}
             /\ e = Wake \/ (\A i \in DOMAIN q : q[i] # e) => OneEach(Append(q, e))
  <2> DEFINE a == Append(q, e)
  <2>1. /\ DOMAIN a = 1..(Len(q) + 1) /\ a[Len(q) + 1] = e
        /\ \A i \in 1..Len(q) : a[i] = q[i]
    BY <1>1, AppendProperties, LenProperties
  <2>2. \A i : i \in 1..(Len(q) + 1) <=> i \in 1..Len(q) \/ i = Len(q) + 1
    BY <1>1
  <2> HIDE DEF a
  <2>3. \A s \in Sockets : QueuedOf(s, a) = QueuedOf(s, q) \cup {o \in Olps : <<s, o>> = e}
    BY <1>1, <2>1, <2>2 DEF QueuedOf
  <2>4. e = Wake \/ (\A i \in DOMAIN q : q[i] # e) => OneEach(a)
    BY <1>1, <2>1, <2>2 DEF OneEach
  <2> QED BY <2>3, <2>4 DEF a
<1>3. ASSUME q # <<>>
      PROVE  /\ OneEach(Tail(q))
             /\ \A s \in Sockets : QueuedOf(s, Tail(q)) \subseteq QueuedOf(s, q)
             /\ \A s \in Sockets, o \in Olps : Head(q) = <<s, o>> =>
                  o \in QueuedOf(s, q) /\ o \notin QueuedOf(s, Tail(q))
  <2> DEFINE t == Tail(q)
  <2>1. /\ t \in Seq(Packets) /\ Head(q) = q[1] /\ Len(t) = Len(q) - 1
        /\ \A i \in 1..Len(t) : t[i] = q[i + 1]
    BY <1>3, HeadTailProperties
  <2>2. DOMAIN t = 1..Len(t) /\ Len(t) \in Nat /\ Len(q) # 0
    BY <1>3, <2>1, LenProperties, EmptySeq
  <2>3. \A i \in DOMAIN t : i + 1 \in DOMAIN q /\ t[i] = q[i + 1] /\ i + 1 # 1
    BY <1>1, <2>1, <2>2
  <2>4. 1 \in DOMAIN q /\ \A i, j \in DOMAIN t : i + 1 = j + 1 => i = j
    BY <1>1, <2>2
  <2> HIDE DEF t
  <2>5. OneEach(t)
    BY <2>3, <2>4 DEF OneEach
  <2>6. \A s \in Sockets : QueuedOf(s, t) \subseteq QueuedOf(s, q)
    BY <2>3 DEF QueuedOf
  <2>7. ASSUME NEW s \in Sockets, NEW o \in Olps, Head(q) = <<s, o>>
        PROVE  o \in QueuedOf(s, q) /\ o \notin QueuedOf(s, t)
    <3>1. q[1] = <<s, o>> /\ <<s, o>> # Wake
      BY <2>1, <2>7, Bounds DEF Wake
    <3>2. o \in QueuedOf(s, q)
      BY <2>4, <3>1 DEF QueuedOf
    <3>3. \A i \in DOMAIN t : t[i] # <<s, o>>
      BY <2>3, <2>4, <3>1 DEF OneEach
    <3> QED BY <3>2, <3>3 DEF QueuedOf
  <2> QED BY <2>5, <2>6, <2>7 DEF t
<1> QED BY <1>2, <1>3

\* The notes cover what is under way with the packets q.
Covers(q) ==
  \A s \in Sockets : UnderWay(s, q) \subseteq noted[s] /\ posted[s] \cap QueuedOf(s, q) = {}

\* A call or a handler that starts from notes n that cover s keeps them covering.
LEMMA PostCovers ==
  ASSUME KernelOK, NEW s \in Sockets, NEW n \in SUBSET Olps, NEW q, MayPost(s, n, q),
         UnderWay(s, q) \subseteq n, posted[s] \cap QueuedOf(s, q) = {},
         \A x \in Sockets \ {s} : UnderWay(x, q) \subseteq noted[x] /\ posted[x] \cap QueuedOf(x, q) = {}
  PROVE  \A x \in Sockets :
           posted'[x] \cup QueuedOf(x, q) \subseteq noted'[x] /\ posted'[x] \cap QueuedOf(x, q) = {}
<1>1. /\ \A x \in Sockets \ {s} : noted'[x] = noted[x] /\ posted'[x] = posted[x]
      /\ n \subseteq noted'[s]
      /\ \E taken \in SUBSET noted'[s] :
           posted'[s] = posted[s] \cup taken /\ taken \cap UnderWay(s, q) = {}
  BY PostFacts
<1> QED BY <1>1 DEF UnderWay

NotesInv == BooksInv /\ Noted

LEMMA NotesStep ==
  ASSUME NotesInv, [Next]_vars
  PROVE  Noted'
<1> SUFFICES ASSUME iocp' PROVE Covers(port)' /\ OneEach(port)'
  BY DEF Noted, Covers
<1>1. iocp
  BY DEF vars, Next, Socket, Use, Ctl, Close, Complete, Accept, Free, Wakeup, Wait, WaitListed,
         WaitPort, Take, TakeWakeup, TakePacket, Timeout, Fault, Tick, Calls
<1>2. Covers(port) /\ OneEach(port) /\ KernelOK /\ ObjectsOK
  BY <1>1 DEF NotesInv, BooksInv, Noted, Covers
<1>3. port \in Seq(Packets) /\ adpList \subseteq Sockets
  BY <1>2 DEF KernelOK, ObjectsOK
<1>4. CASE UNCHANGED kernel
  BY <1>2, <1>4 DEF kernel, Covers, UnderWay, QueuedOf, OneEach
<1>5. CASE \E s \in Sockets : port' = port /\ MayPost(s, noted[s], port)
  <2>1. PICK s \in Sockets : port' = port /\ MayPost(s, noted[s], port)
    BY <1>5
  <2>2. noted[s] \in SUBSET Olps
    BY <1>2 DEF KernelOK
  <2>3. \A x \in Sockets :
          posted'[x] \cup QueuedOf(x, port) \subseteq noted'[x] /\ posted'[x] \cap QueuedOf(x, port) = {}
    BY <1>2, <2>1, <2>2, PostCovers DEF Covers
  <2> QED BY <1>2, <2>1, <2>3 DEF Covers, UnderWay, OneEach, QueuedOf
<1>6. CASE Wakeup
  <2>1. port' = Append(port, Wake) /\ UNCHANGED <<noted, posted>> /\ Wake \in Packets
    BY <1>6 DEF Wakeup, Packets
  <2>2. \A s \in Sockets, o \in Olps : <<s, o>> # Wake
    BY Bounds DEF Wake
  <2>3. OneEach(port') /\ \A s \in Sockets : QueuedOf(s, port') = QueuedOf(s, port)
    <3>1. /\ OneEach(port')
          /\ \A s \in Sockets : QueuedOf(s, port') = QueuedOf(s, port) \cup {o \in Olps : <<s, o>> = Wake}
      BY <1>2, <1>3, <2>1, QueueMoves
    <3> QED BY <2>2, <3>1
  <2> QED BY <1>2, <2>1, <2>3 DEF Covers, UnderWay, OneEach, QueuedOf
<1>7. CASE TakeWakeup
  <2>1. port # <<>> /\ port' = Tail(port) /\ UNCHANGED <<noted, posted>>
    BY <1>7 DEF TakeWakeup
  <2>2. OneEach(port') /\ \A s \in Sockets : QueuedOf(s, port') \subseteq QueuedOf(s, port)
    BY <1>2, <1>3, <2>1, QueueMoves
  <2> QED BY <1>2, <2>1, <2>2 DEF Covers, UnderWay, OneEach, QueuedOf
<1>8. CASE \E s \in Sockets, o \in Olps : TakePacket(s, o)
  <2>1. PICK s \in Sockets, o \in Olps : TakePacket(s, o)
    BY <1>8
  <2> DEFINE q == Tail(port)
  <2>2. /\ port # <<>> /\ Head(port) = <<s, o>> /\ port' = q
        /\ \/ MayPost(s, noted[s] \ {o}, q)
           \/ noted' = [noted EXCEPT ![s] = @ \ {o}] /\ UNCHANGED posted
    BY <2>1 DEF TakePacket
  <2>3. /\ OneEach(q) /\ \A x \in Sockets : QueuedOf(x, q) \subseteq QueuedOf(x, port)
        /\ o \in QueuedOf(s, port) /\ o \notin QueuedOf(s, q)
    BY <1>2, <1>3, <2>2, QueueMoves
  <2> HIDE DEF q
  <2>4. /\ UnderWay(s, q) \subseteq noted[s] \ {o} /\ posted[s] \cap QueuedOf(s, q) = {}
        /\ \A x \in Sockets \ {s} : UnderWay(x, q) \subseteq noted[x] /\ posted[x] \cap QueuedOf(x, q) = {}
    BY <1>2, <2>3 DEF Covers, UnderWay
  <2>5. noted[s] \ {o} \in SUBSET Olps
    BY <1>2 DEF KernelOK
  <2>6. \A x \in Sockets :
          posted'[x] \cup QueuedOf(x, q) \subseteq noted'[x] /\ posted'[x] \cap QueuedOf(x, q) = {}
    <3>1. CASE MayPost(s, noted[s] \ {o}, q)
      BY <1>2, <2>4, <2>5, <3>1, PostCovers
    <3>2. CASE noted' = [noted EXCEPT ![s] = @ \ {o}] /\ UNCHANGED posted
      BY <1>2, <2>4, <3>2 DEF KernelOK, UnderWay
    <3> QED BY <2>2, <3>1, <3>2
  <2> QED BY <2>2, <2>3, <2>6 DEF Covers, UnderWay, OneEach, QueuedOf
<1>9. CASE \E s \in Sockets, o \in Olps : Complete(s, o)
  <2>1. PICK s \in Sockets, o \in Olps : Complete(s, o)
    BY <1>9
  <2>2. /\ o \in posted[s] /\ posted' = [posted EXCEPT ![s] = @ \ {o}] /\ noted' = noted
        /\ port' = Append(port, <<s, o>>) /\ <<s, o>> \in Packets
    BY <1>1, <2>1 DEF Complete, Packets
  <2>3. \A i \in DOMAIN port : port[i] # <<s, o>>
    BY <1>2, <2>2 DEF Covers, QueuedOf
  <2>4. /\ OneEach(port')
        /\ \A x \in Sockets : QueuedOf(x, port') = QueuedOf(x, port) \cup {p \in Olps : <<x, p>> = <<s, o>>}
    BY <1>2, <1>3, <2>2, <2>3, QueueMoves
  <2>5. QueuedOf(s, port') = QueuedOf(s, port) \cup {o} /\ posted'[s] = posted[s] \ {o}
    BY <1>2, <2>2, <2>4 DEF KernelOK
  <2>6. \A x \in Sockets \ {s} : QueuedOf(x, port') = QueuedOf(x, port) /\ posted'[x] = posted[x]
    BY <1>2, <2>2, <2>4 DEF KernelOK
  <2>7. \A x \in Sockets :
          posted'[x] \cup QueuedOf(x, port') \subseteq noted[x] /\ posted'[x] \cap QueuedOf(x, port') = {}
    BY <1>2, <2>2, <2>5, <2>6 DEF Covers, UnderWay
  <2> QED BY <2>2, <2>4, <2>7 DEF Covers, UnderWay, OneEach, QueuedOf
<1>10. CASE \E s \in Sockets : Socket(s) \/ Use(s) \/ Ctl(s) \/ Close(s)
  BY <1>4, <1>5, <1>10 DEF Socket, Use, Ctl, Close
<1>11. CASE \E l \in Listeners, s \in Sockets : Accept(l, s)
  <2>1. PICK l \in Listeners, s \in Sockets : Accept(l, s)
    BY <1>11
  <2>2. l \in Sockets /\ port' = port /\ MayPost(l, noted[l], port)
    BY <2>1, Bounds DEF Accept
  <2> QED BY <1>5, <2>2
<1>12. CASE Free \/ Wait \/ Timeout \/ Fault \/ Tick \/ UNCHANGED vars
  <2>1. ~Free
    BY DEF Free
  <2> QED BY <1>4, <1>12, <2>1 DEF Wait, WaitListed, WaitPort, Timeout, Fault, Tick, vars
<1> QED BY <1>6, <1>7, <1>8, <1>9, <1>10, <1>11, <1>12 DEF Next, Take

LEMMA NotesInvariant == Spec => []NotesInv
<1>1. Init => Noted
  <2>1. DOMAIN <<>> = {}
    BY EmptySeq, LenProperties
  <2> QED BY <2>1 DEF Init, Noted, UnderWay, QueuedOf, OneEach
<1>2. NotesInv /\ [Next]_vars => Noted'
  BY NotesStep
<1> QED BY <1>1, <1>2, BooksInvariant, PTL DEF Spec, NotesInv

\* The notes that busy() and so close() go by tell the truth: whatever the kernel holds and
\* whatever packet waits in the port, its socket has noted the structure, and no structure is
\* under way twice.
THEOREM NotesCorrect == Spec => []Noted
<1>1. NotesInv => Noted
  BY DEF NotesInv
<1> QED BY <1>1, NotesInvariant, PTL

\* close() never deletes a socket that the kernel or the port still refers to, whatever order
\* the application calls it in and whatever handlers and the kernel do in between.
THEOREM CloseCorrect == Spec => CloseDeletesIdle
<1>1. NotesInv /\ [Next]_vars => [DeletesIdle]_vars
  <2> SUFFICES ASSUME NotesInv, Next, iocp', NEW s \in adpList \ adpList'
               PROVE  UnderWay(s, port) = {}
    BY DEF DeletesIdle
  <2>1. s \in Sockets
    BY DEF NotesInv, BooksInv, ObjectsOK
  <2>2. Close(s)
    BY DEF Next, Socket, Use, Ctl, Close, Complete, Accept, Free, Wakeup, Wait, WaitListed, books,
           WaitPort, Take, TakeWakeup, TakePacket, Timeout, Fault, Tick
  <2>3. iocp /\ noted[s] = {}
    BY <2>2 DEF Close, Calls, Busy
  <2> QED BY <2>1, <2>3 DEF NotesInv, Noted
<1> QED BY <1>1, NotesInvariant, PTL DEF Spec, CloseDeletesIdle

=============================================================================
