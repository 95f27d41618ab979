-------------------------- MODULE IoListenerProofs --------------------------
(***************************************************************************)
(* A listening socket, for every number of clients and accepted sockets and *)
(* every set of event masks: its safety, what it makes known, and that it   *)
(* implements the queue of clients of ClientQueue.                          *)
(***************************************************************************)
EXTENDS IoListener, FiniteSetTheorems, SequenceTheorems, TLAPS

\* The bounds are natural numbers.
LEMMA Bounds == MaxClients \in Nat /\ MaxAccepts \in Nat
BY ListenerAssumption DEF ListenerAssumption

\* The number of sockets accept() has handed over grows by one for a socket only.
LEMMA CountAppend ==
  ASSUME taken \in Seq(NoSock..MaxClients)
  PROVE  /\ Cardinality(Handed) \in Nat
         /\ \A c \in NoSock..MaxClients : taken' = Append(taken, c) =>
              Cardinality(Handed') = Cardinality(Handed) + IF c = NoSock THEN 0 ELSE 1
<1>1. Len(taken) \in Nat /\ DOMAIN taken = 1..Len(taken)
  BY LenProperties
<1>2. IsFiniteSet(1..Len(taken))
  BY <1>1, FS_Interval
<1>3. Handed \subseteq 1..Len(taken)
  BY <1>1 DEF Handed
<1>4. IsFiniteSet(Handed)
  BY <1>2, <1>3, FS_Subset
<1>5. Cardinality(Handed) \in Nat
  BY <1>4, FS_CardinalityType
<1>6. ASSUME NEW c \in NoSock..MaxClients, taken' = Append(taken, c)
      PROVE  Cardinality(Handed') = Cardinality(Handed) + IF c = NoSock THEN 0 ELSE 1
  <2>1. /\ DOMAIN taken' = 1..(Len(taken) + 1)
        /\ taken'[Len(taken) + 1] = c
        /\ \A i \in 1..Len(taken) : taken'[i] = taken[i]
    BY <1>1, <1>6, AppendProperties
  <2>2. CASE c = NoSock
    <3>1. Handed' = Handed
      BY <1>1, <2>1, <2>2 DEF Handed
    <3> QED BY <1>5, <2>2, <3>1
  <2>3. CASE c # NoSock
    <3>1. Handed' = Handed \cup {Len(taken) + 1}
      BY <1>1, <2>1, <2>3 DEF Handed
    <3>2. Len(taken) + 1 \notin Handed
      BY <1>1, <1>3
    <3>3. Cardinality(Handed') = Cardinality(Handed) + 1
      BY <1>4, <3>1, <3>2, FS_AddElement
    <3> QED BY <2>3, <3>3
  <2> QED BY <2>2, <2>3
<1> QED BY <1>5, <1>6

\* postAccept(): either it does nothing, or it makes a socket of its own for an AcceptEx that
\* is under way, has failed, or has reported the next client as gone.
LEMMA PostShape ==
  ASSUME NEW s, NEW pr, PostAccept(s, pr)
  PROVE  \/ /\ newSock' = s /\ (opp # "NONE" \/ s # NoSock)
            /\ UNCHANGED <<opp, io, arrived, dequeued, refused, made>>
         \/ /\ s = NoSock /\ opp = "NONE" /\ newSock' = Fresh /\ made' = made + 1
            /\ opp' = "ACCEPT" /\ arrived' = arrived
            /\ \/ io' \in {io, "flight"} /\ dequeued' = dequeued /\ refused' = refused
               \/ /\ io' = io /\ dequeued < arrived
                  /\ dequeued' = dequeued + 1 /\ refused' = refused \cup {dequeued + 1}
<1>1. CASE Occupied(s)
  BY <1>1 DEF PostAccept, Occupied, kernel
<1>2. CASE ~Occupied(s)
  BY <1>2 DEF PostAccept, Occupied, kernel
<1> QED BY <1>1, <1>2

\* Masks and events stay among the defined ones.
LEMMA MaskTypes ==
  ASSUME TypeOK, NEW raw, raw \subseteq Events, MaskEvent(raw)
  PROVE  evMask' \subseteq Events \cup Flags /\ ev' \subseteq Events
BY DEF MaskEvent, TypeOK

-----------------------------------------------------------------------------
(* Every step preserves the inductive invariant.                            *)

\* A step that leaves the connections where they are.
LEMMA HeldStep ==
  ASSUME ListenerInv, UNCHANGED <<newSock, dequeued, taken, refused, made, shut>>,
         alive' => alive
  PROVE  /\ NumbersUsed' /\ AcceptedInOrder' /\ NoClientLost' /\ NoSocketLeaked'
BY DEF ListenerInv, NumbersUsed, AcceptedInOrder, NoClientLost, NoSocketLeaked, HeldSocket,
       Handed, TakenClients

LEMMA ListenStep ==
  ASSUME TypeOK, ListenerInv, Listen
  PROVE  ListenerInv'
<1>1. UNCHANGED <<opp, newSock, kernel, made>> \/ \E pr \in PostResults : PostAccept(newSock, pr)
  BY DEF Listen
<1>2. UNCHANGED <<open, alive, listed, taken, shut>> /\ alive
  BY DEF Listen, Calls, waitVar
<1>3. CASE /\ newSock' = newSock
           /\ UNCHANGED <<opp, io, arrived, dequeued, refused, made>>
  <2>1. NumbersUsed' /\ AcceptedInOrder' /\ NoClientLost' /\ NoSocketLeaked'
    BY <1>2, <1>3, HeldStep
  <2>2. AcceptPhase' /\ DeadIsBare'
    BY <1>2, <1>3 DEF ListenerInv, AcceptPhase, DeadIsBare, Busy
  <2> QED BY <2>1, <2>2 DEF ListenerInv
<1>4. CASE /\ newSock = NoSock /\ opp = "NONE" /\ newSock' = Fresh /\ made' = made + 1
           /\ opp' = "ACCEPT" /\ arrived' = arrived
           /\ \/ io' \in {io, "flight"} /\ dequeued' = dequeued /\ refused' = refused
              \/ /\ io' = io /\ dequeued < arrived
                 /\ dequeued' = dequeued + 1 /\ refused' = refused \cup {dequeued + 1}
  <2>1. AcceptPhase'
    BY <1>4 DEF ListenerInv, AcceptPhase, Fresh
  <2>2. NumbersUsed'
    <3>1. dequeued \in Nat /\ dequeued' \in Nat /\ dequeued <= dequeued'
      BY <1>4 DEF TypeOK
    <3>2. \A i \in DOMAIN taken : taken[i] <= dequeued /\ taken[i] \in NoSock..MaxClients
      BY LenProperties, ElementOfSeq DEF ListenerInv, NumbersUsed, TypeOK
    <3>3. \A i \in DOMAIN taken : taken[i] <= dequeued'
      BY <3>1, <3>2, Bounds
    <3>4. newSock' <= dequeued'
      BY <1>4, <3>1 DEF Fresh
    <3> QED BY <1>2, <3>3, <3>4 DEF NumbersUsed
  <2>3. DeadIsBare'
    BY <1>2 DEF DeadIsBare
  <2>4. AcceptedInOrder'
    BY <1>2, <1>4 DEF ListenerInv, AcceptedInOrder, Fresh
  <2>5. NoClientLost'
    BY <1>2, <1>4 DEF ListenerInv, NoClientLost, TakenClients, TypeOK, Fresh, NoSock
  <2>6. NoSocketLeaked'
    <3>1. HeldSocket = 0 /\ HeldSocket' = 1
      BY <1>4 DEF HeldSocket, Fresh, NoSock
    <3>2. Cardinality(Handed)' = Cardinality(Handed) /\ Cardinality(Handed) \in Nat
      BY <1>2, CountAppend DEF Handed, TypeOK
    <3> QED BY <1>2, <1>4, <3>1, <3>2 DEF ListenerInv, NoSocketLeaked, TypeOK
  <2> QED BY <2>1, <2>2, <2>3, <2>4, <2>5, <2>6 DEF ListenerInv
<1> QED BY <1>1, <1>3, <1>4, PostShape DEF kernel

LEMMA AcceptStep ==
  ASSUME TypeOK, ListenerInv, Accept
  PROVE  ListenerInv'
<1>1. CASE Busy
  <2>1. UNCHANGED <<open, alive, listed, newSock, kernel, opp, taken, made, shut>>
    BY <1>1 DEF Accept
  <2>2. NumbersUsed' /\ AcceptedInOrder' /\ NoClientLost' /\ NoSocketLeaked'
    BY <2>1, HeldStep DEF kernel
  <2>3. AcceptPhase' /\ DeadIsBare'
    BY <2>1 DEF ListenerInv, AcceptPhase, DeadIsBare, Busy, kernel
  <2> QED BY <2>2, <2>3 DEF ListenerInv
<1>2. CASE ~Busy
  <2> DEFINE c == newSock
  <2>1. /\ UNCHANGED <<open, alive, listed, shut>> /\ alive /\ opp = "NONE"
        /\ taken' = Append(taken, c)
    BY <1>2 DEF Accept, Calls, Busy
  <2>2. PICK pr \in PostResults : PostAccept(NoSock, pr)
    BY <1>2 DEF Accept, HandedOver
  <2>3. /\ newSock' = Fresh /\ made' = made + 1 /\ opp' = "ACCEPT" /\ arrived' = arrived
        /\ \/ io' \in {io, "flight"} /\ dequeued' = dequeued /\ refused' = refused
           \/ /\ io' = io /\ dequeued < arrived
              /\ dequeued' = dequeued + 1 /\ refused' = refused \cup {dequeued + 1}
    BY <2>1, <2>2, PostShape
  <2>5. c \in NoSock..MaxClients /\ c = newSock
    BY DEF TypeOK
  <2> HIDE DEF c
  <2>6. /\ Len(taken) \in Nat /\ DOMAIN taken = 1..Len(taken)
        /\ DOMAIN taken' = 1..(Len(taken) + 1) /\ taken'[Len(taken) + 1] = c
        /\ \A i \in 1..Len(taken) : taken'[i] = taken[i] /\ taken[i] \in NoSock..MaxClients
    <3>1. taken \in Seq(NoSock..MaxClients)
      BY DEF TypeOK
    <3>2. Len(taken) \in Nat /\ DOMAIN taken = 1..Len(taken)
      BY <3>1, LenProperties
    <3>3. \A i \in 1..Len(taken) : taken[i] \in NoSock..MaxClients
      BY <3>1, ElementOfSeq
    <3>4. /\ DOMAIN taken' = 1..(Len(taken) + 1) /\ taken'[Len(taken) + 1] = c
          /\ \A i \in 1..Len(taken) : taken'[i] = taken[i]
      BY <2>1, <2>5, <3>1, <3>2, AppendProperties
    <3> QED BY <3>2, <3>3, <3>4
  <2>7. AcceptPhase'
    BY <2>1, <2>3 DEF ListenerInv, AcceptPhase, Fresh
  <2>8. NumbersUsed'
    <3>1. c <= dequeued /\ dequeued <= dequeued' /\ dequeued' \in Nat /\ dequeued \in Nat
      BY <2>3, <2>5 DEF ListenerInv, NumbersUsed, TypeOK, Fresh
    <3>2. \A i \in 1..Len(taken) : taken[i] <= dequeued
      BY <2>6 DEF ListenerInv, NumbersUsed
    <3> QED BY <2>3, <2>5, <2>6, <3>1, <3>2 DEF NumbersUsed, Fresh
  <2>9. DeadIsBare'
    BY <2>1 DEF DeadIsBare
  <2>10. AcceptedInOrder'
    <3>1. \A i \in 1..Len(taken) : c > 0 => taken[i] < c
      BY <2>5, <2>6 DEF ListenerInv, AcceptedInOrder
    <3>2. \A i, j \in 1..Len(taken) : i < j /\ taken[j] > 0 => taken[i] < taken[j]
      BY <2>6 DEF ListenerInv, AcceptedInOrder
    <3> QED BY <2>3, <2>6, <3>1, <3>2 DEF AcceptedInOrder, Fresh
  <2>11. NoClientLost'
    <3>1. TakenClients \subseteq TakenClients' /\ (c > 0 => c \in TakenClients')
      BY <2>5, <2>6, Bounds DEF TakenClients, NoSock, Fresh
    <3>2. \A k \in 1..dequeued : k \in TakenClients \cup refused \cup {c}
      BY <2>1, <2>5 DEF ListenerInv, NoClientLost, NoSock
    <3> QED BY <2>3, <2>5, <3>1, <3>2 DEF NoClientLost, TypeOK, Fresh
  <2>12. NoSocketLeaked'
    <3>1. HeldSocket' = 1 /\ HeldSocket = IF c = NoSock THEN 0 ELSE 1
      BY <2>3, <2>5 DEF HeldSocket, Fresh, NoSock
    <3>2. /\ Cardinality(Handed) \in Nat
          /\ Cardinality(Handed') = Cardinality(Handed) + IF c = NoSock THEN 0 ELSE 1
      BY <2>1, <2>5, CountAppend DEF TypeOK
    <3> QED BY <2>1, <2>3, <3>1, <3>2 DEF ListenerInv, NoSocketLeaked, TypeOK
  <2> QED BY <2>7, <2>8, <2>9, <2>10, <2>11, <2>12 DEF ListenerInv
<1> QED BY <1>1, <1>2

LEMMA CtlStep ==
  ASSUME TypeOK, ListenerInv, NEW mask, Ctl(mask)
  PROVE  ListenerInv'
<1>1. UNCHANGED <<open, newSock, kernel, alive, taken, made, shut>> /\ alive
  BY DEF Ctl, Calls
<1>2. opp' = opp \/ (opp = "NONE" /\ opp' = "RECV")
  BY DEF Ctl, Busy
<1>3. NumbersUsed' /\ AcceptedInOrder' /\ NoClientLost' /\ NoSocketLeaked'
  BY <1>1, HeldStep DEF kernel
<1>4. AcceptPhase' /\ DeadIsBare'
  BY <1>1, <1>2 DEF ListenerInv, AcceptPhase, DeadIsBare, kernel
<1> QED BY <1>3, <1>4 DEF ListenerInv

LEMMA CloseStep ==
  ASSUME TypeOK, ListenerInv, Close
  PROVE  ListenerInv'
<1>1. UNCHANGED <<opp, kernel, taken, made>> /\ open' = FALSE /\ alive
  BY DEF Close
<1>2. CASE Busy
  <2>1. UNCHANGED <<listed, alive, newSock, shut>>
    BY <1>2 DEF Close
  <2>2. NumbersUsed' /\ AcceptedInOrder' /\ NoClientLost' /\ NoSocketLeaked'
    BY <1>1, <2>1, HeldStep DEF kernel
  <2>3. AcceptPhase' /\ DeadIsBare'
    BY <1>1, <2>1 DEF ListenerInv, AcceptPhase, DeadIsBare, kernel
  <2> QED BY <2>2, <2>3 DEF ListenerInv
<1>3. CASE ~Busy
  <2>1. /\ listed' = FALSE /\ alive' = FALSE /\ newSock' = NoSock
        /\ shut' = shut + HeldSocket /\ opp = "NONE"
    BY <1>3 DEF Close, Busy
  <2>2. io = "idle"
    BY <2>1 DEF ListenerInv, AcceptPhase
  <2>3. AcceptPhase'
    BY <1>1, <2>1, <2>2 DEF AcceptPhase, kernel, NoSock
  <2>4. NumbersUsed'
    BY <1>1, <2>1 DEF ListenerInv, NumbersUsed, TypeOK, kernel, NoSock
  <2>5. DeadIsBare' /\ NoClientLost'
    BY <1>1, <2>1 DEF DeadIsBare, NoClientLost, Busy
  <2>6. AcceptedInOrder'
    BY <1>1, <2>1 DEF ListenerInv, AcceptedInOrder, NoSock
  <2>7. NoSocketLeaked'
    <3>1. HeldSocket' = 0 /\ HeldSocket \in Nat
      BY <2>1 DEF HeldSocket
    <3>2. Cardinality(Handed)' = Cardinality(Handed) /\ Cardinality(Handed) \in Nat
      BY <1>1, CountAppend DEF Handed, TypeOK
    <3> QED BY <1>1, <2>1, <3>1, <3>2 DEF ListenerInv, NoSocketLeaked, TypeOK
  <2> QED BY <2>3, <2>4, <2>5, <2>6, <2>7 DEF ListenerInv
<1> QED BY <1>2, <1>3

LEMMA WaitStep ==
  ASSUME ListenerInv, Wait
  PROVE  ListenerInv'
<1>1. UNCHANGED <<open, opp, newSock, kernel, alive, taken, made, shut>> /\ alive
  BY DEF Wait, object
<1>2. NumbersUsed' /\ AcceptedInOrder' /\ NoClientLost' /\ NoSocketLeaked'
  BY <1>1, HeldStep DEF kernel
<1>3. AcceptPhase' /\ DeadIsBare'
  BY <1>1 DEF ListenerInv, AcceptPhase, DeadIsBare, kernel
<1> QED BY <1>2, <1>3 DEF ListenerInv

\* A deleted listener has no packet: whatever the kernel reports, the listener is there.
LEMMA PacketAlive ==
  ASSUME ListenerInv, io # "idle"
  PROVE  alive /\ opp = "ACCEPT"
BY DEF ListenerInv, AcceptPhase, DeadIsBare, Busy

LEMMA OnAcceptStep ==
  ASSUME TypeOK, ListenerInv, OnAccept
  PROVE  ListenerInv'
<1>1. /\ UNCHANGED <<open, dequeued, refused, listed, alive, taken, made>>
      /\ io' = "idle" /\ opp' = "NONE" /\ alive /\ open /\ io \in {"ok", "reset", "error"}
  BY PacketAlive DEF OnAccept, Cleared
<1>2. CASE io = "ok"
  <2>1. UNCHANGED <<newSock, shut>>
    BY <1>2 DEF OnAccept
  <2>2. NumbersUsed' /\ AcceptedInOrder' /\ NoClientLost' /\ NoSocketLeaked'
    BY <1>1, <2>1, HeldStep
  <2>3. AcceptPhase' /\ DeadIsBare'
    BY <1>1, <1>2, <2>1 DEF ListenerInv, AcceptPhase, DeadIsBare, Fresh
  <2> QED BY <2>2, <2>3 DEF ListenerInv
<1>3. CASE io # "ok"
  <2>1. newSock' = NoSock /\ shut' = shut + HeldSocket /\ newSock = Fresh
    BY <1>1, <1>3 DEF OnAccept, ListenerInv, AcceptPhase
  <2>2. AcceptPhase'
    BY <1>1, <2>1 DEF AcceptPhase, Fresh, NoSock
  <2>3. NumbersUsed'
    BY <1>1, <2>1 DEF ListenerInv, NumbersUsed, TypeOK, NoSock
  <2>4. DeadIsBare'
    BY <1>1 DEF DeadIsBare
  <2>5. AcceptedInOrder'
    BY <1>1, <2>1 DEF ListenerInv, AcceptedInOrder, NoSock
  <2>6. NoClientLost'
    BY <1>1, <2>1 DEF ListenerInv, NoClientLost, TakenClients, TypeOK, Fresh
  <2>7. NoSocketLeaked'
    <3>1. HeldSocket' = 0 /\ HeldSocket = 1
      BY <2>1 DEF HeldSocket, NoSock, Fresh
    <3>2. Cardinality(Handed)' = Cardinality(Handed) /\ Cardinality(Handed) \in Nat
      BY <1>1, CountAppend DEF Handed, TypeOK
    <3> QED BY <1>1, <2>1, <3>1, <3>2 DEF ListenerInv, NoSocketLeaked, TypeOK
  <2> QED BY <2>2, <2>3, <2>4, <2>5, <2>6, <2>7 DEF ListenerInv
<1> QED BY <1>2, <1>3

LEMMA OnClosedStep ==
  ASSUME ListenerInv, OnClosed
  PROVE  ListenerInv'
<1>1. /\ UNCHANGED <<open, newSock, dequeued, refused, listed, alive, taken, made, shut>>
      /\ io' = "idle" /\ opp' = "NONE" /\ alive /\ ~open
  BY PacketAlive DEF OnClosed, Cleared, object
<1>2. NumbersUsed' /\ AcceptedInOrder' /\ NoClientLost' /\ NoSocketLeaked'
  BY <1>1, HeldStep
<1>3. AcceptPhase' /\ DeadIsBare'
  BY <1>1 DEF AcceptPhase, DeadIsBare
<1> QED BY <1>2, <1>3 DEF ListenerInv

LEMMA ConnectStep ==
  ASSUME ListenerInv, ClientConnects
  PROVE  ListenerInv'
<1>1. UNCHANGED <<open, opp, io, newSock, dequeued, refused, listed, alive, taken, made, shut>>
  BY DEF ClientConnects, object, waitVar
<1>2. NumbersUsed' /\ AcceptedInOrder' /\ NoClientLost' /\ NoSocketLeaked'
  BY <1>1, HeldStep
<1>3. AcceptPhase' /\ DeadIsBare'
  BY <1>1 DEF ListenerInv, AcceptPhase, DeadIsBare, Busy
<1> QED BY <1>2, <1>3 DEF ListenerInv

LEMMA KAcceptStep ==
  ASSUME TypeOK, ListenerInv, KAccept
  PROVE  ListenerInv'
<1>1. /\ UNCHANGED <<open, opp, listed, alive, taken, made, shut>>
      /\ dequeued' = dequeued + 1 /\ newSock = Fresh /\ alive /\ opp = "ACCEPT"
      /\ dequeued \in Nat
  BY PacketAlive DEF KAccept, object, waitVar, ListenerInv, AcceptPhase, TypeOK
<1>2. \/ io' = "ok" /\ newSock' = dequeued + 1 /\ refused' = refused
      \/ io' = "reset" /\ newSock' = newSock /\ refused' = refused \cup {dequeued + 1}
  BY <1>1 DEF KAccept
<1>3. \A i \in DOMAIN taken : taken[i] <= dequeued /\ taken[i] \in NoSock..MaxClients
  BY LenProperties, ElementOfSeq DEF ListenerInv, NumbersUsed, TypeOK
<1>4. AcceptPhase'
  BY <1>1, <1>2 DEF AcceptPhase, Fresh
<1>5. NumbersUsed'
  BY <1>1, <1>2, <1>3 DEF NumbersUsed, Fresh
<1>6. DeadIsBare'
  BY <1>1 DEF DeadIsBare
<1>7. AcceptedInOrder'
  BY <1>1, <1>2, <1>3 DEF ListenerInv, AcceptedInOrder, Fresh
<1>8. NoClientLost'
  BY <1>1, <1>2 DEF ListenerInv, NoClientLost, TakenClients, Fresh
<1>9. NoSocketLeaked'
  BY <1>1, <1>2 DEF ListenerInv, NoSocketLeaked, HeldSocket, Handed, Fresh, NoSock
<1> QED BY <1>4, <1>5, <1>6, <1>7, <1>8, <1>9 DEF ListenerInv

LEMMA KAbortStep ==
  ASSUME ListenerInv, KAbort
  PROVE  ListenerInv'
<1>1. /\ UNCHANGED <<open, opp, newSock, dequeued, refused, listed, alive, taken, made, shut>>
      /\ io = "flight" /\ io' = "error"
  BY DEF KAbort, object, waitVar
<1>2. NumbersUsed' /\ AcceptedInOrder' /\ NoClientLost' /\ NoSocketLeaked'
  BY <1>1, HeldStep
<1>3. AcceptPhase' /\ DeadIsBare'
  BY <1>1 DEF ListenerInv, AcceptPhase, DeadIsBare, Busy
<1> QED BY <1>2, <1>3 DEF ListenerInv

LEMMA InvStep ==
  ASSUME TypeOK, ListenerInv, [Next]_vars
  PROVE  ListenerInv'
<1>1. CASE UNCHANGED vars
  BY <1>1 DEF vars, object, kernel, waitVar, ListenerInv, AcceptPhase, NumbersUsed, DeadIsBare,
     AcceptedInOrder, NoClientLost, NoSocketLeaked, HeldSocket, Handed, TakenClients, Busy
<1>2. CASE Next
  BY <1>2, ListenStep, AcceptStep, CtlStep, CloseStep, WaitStep, OnAcceptStep, OnClosedStep,
     ConnectStep, KAcceptStep, KAbortStep DEF Next
<1> QED BY <1>1, <1>2

-----------------------------------------------------------------------------
(* Every step preserves the types; some need the invariant, which says what *)
(* newSock holds when a client is accepted.                                 *)

\* The socket accept() returns is a client that has connected, or a fresh one.
LEMMA TakenTypes ==
  ASSUME TypeOK, ListenerInv, Accept
  PROVE  taken' \in Seq(NoSock..MaxClients)
<1>1. CASE Busy
  BY <1>1 DEF Accept, TypeOK
<1>2. CASE ~Busy
  <2> DEFINE c == newSock
  <2>1. c \in NoSock..MaxClients
    BY DEF TypeOK
  <2>2. taken' = Append(taken, c)
    BY <1>2 DEF Accept
  <2> HIDE DEF c
  <2>3. taken \in Seq(NoSock..MaxClients)
    BY DEF TypeOK
  <2> QED BY <2>1, <2>2, <2>3, AppendProperties
<1> QED BY <1>1, <1>2

\* What postAccept() changes has its types.
LEMMA PostTypes ==
  ASSUME TypeOK, NEW s \in NoSock..MaxClients, NEW pr, PostAccept(s, pr)
  PROVE  /\ opp' \in {"NONE", "ACCEPT", "RECV"}
         /\ io' \in {"idle", "flight", "ok", "reset", "error"}
         /\ arrived' \in 0..MaxClients /\ dequeued' \in 0..arrived'
         /\ newSock' \in NoSock..MaxClients /\ refused' \subseteq 1..MaxClients
         /\ made' \in Nat /\ made <= made'
<1>1. CASE newSock' = s /\ UNCHANGED <<opp, io, arrived, dequeued, refused, made>>
  BY <1>1 DEF TypeOK
<1>2. CASE /\ newSock' = Fresh /\ made' = made + 1 /\ opp' = "ACCEPT" /\ arrived' = arrived
           /\ \/ io' \in {io, "flight"} /\ dequeued' = dequeued /\ refused' = refused
              \/ /\ io' = io /\ dequeued < arrived
                 /\ dequeued' = dequeued + 1 /\ refused' = refused \cup {dequeued + 1}
  <2>1. opp' \in {"NONE", "ACCEPT", "RECV"} /\ io' \in {"idle", "flight", "ok", "reset", "error"}
    BY <1>2 DEF TypeOK
  <2>2. arrived' = arrived /\ arrived \in 0..MaxClients /\ dequeued \in 0..arrived
    BY <1>2 DEF TypeOK
  <2>3. dequeued' \in 0..arrived'
    BY <1>2, <2>2, Bounds
  <2>4. refused' \subseteq 1..MaxClients
    <3>1. CASE refused' = refused
      BY <3>1 DEF TypeOK
    <3>2. CASE dequeued < arrived /\ refused' = refused \cup {dequeued + 1}
      <4>1. dequeued + 1 \in 1..MaxClients
        BY <2>2, <3>2, Bounds
      <4> QED BY <3>2, <4>1 DEF TypeOK
    <3> QED BY <1>2, <3>1, <3>2
  <2>5. newSock' \in NoSock..MaxClients
    BY <1>2, Bounds DEF Fresh, NoSock
  <2>6. made' \in Nat /\ made <= made'
    BY <1>2 DEF TypeOK
  <2> QED BY <2>1, <2>2, <2>3, <2>4, <2>5, <2>6
<1> QED BY <1>1, <1>2, PostShape

LEMMA TypeStep ==
  ASSUME TypeOK, ListenerInv, [Next]_vars
  PROVE  TypeOK'
<1>1. CASE UNCHANGED vars
  BY <1>1 DEF vars, object, kernel, waitVar, TypeOK
<1>2. CASE Listen /\ open
  <2>1. PICK pr \in PostResults :
          /\ PostAccept(newSock, pr)
          /\ IF pr = "FAILED" THEN status' = "BROKEN" /\ lastError' = pr
                              ELSE status' = "LISTENING" /\ UNCHANGED lastError
    BY <1>2 DEF Listen
  <2>2. UNCHANGED <<open, evMask, listed, pc, ev, alive, taken, shut>>
    BY <1>2 DEF Listen, waitVar
  <2>3. newSock \in NoSock..MaxClients
    BY DEF TypeOK
  <2>4. shut \in 0..made'
    BY <2>1, <2>3, PostTypes DEF TypeOK
  <2> QED BY <2>1, <2>2, <2>3, <2>4, PostTypes DEF TypeOK
<1>3. CASE Accept
  <2>1. CASE Busy
    BY <1>3, <2>1 DEF Accept, kernel, TypeOK
  <2>2. CASE ~Busy
    <3>1. PICK pr \in PostResults : PostAccept(NoSock, pr) /\ BreakIfFailed(pr)
      BY <1>3, <2>2 DEF Accept, HandedOver
    <3>2. UNCHANGED <<open, evMask, listed, pc, alive, shut>> /\ ev' = ev \ {"IN"}
      BY <1>3 DEF Accept
    <3>3. NoSock \in NoSock..MaxClients
      BY Bounds DEF NoSock
    <3>4. shut \in 0..made'
      BY <3>1, <3>3, PostTypes DEF TypeOK
    <3>5. status' \in {status, "BROKEN"} /\ lastError' \in {lastError, "FAILED"}
      BY <3>1 DEF BreakIfFailed
    <3> QED BY <1>3, <3>1, <3>2, <3>3, <3>4, <3>5, PostTypes, TakenTypes DEF TypeOK
  <2> QED BY <2>1, <2>2
<1>4. CASE Close
  <2>1. shut' \in 0..made'
    <3>1. CASE Busy
      BY <1>4, <3>1 DEF Close, TypeOK
    <3>2. CASE ~Busy
      \* Closing again a socket that is still held cannot exceed the sockets that were made.
      <4>1. Cardinality(Handed) \in Nat
        BY CountAppend DEF TypeOK
      <4> QED BY <1>4, <3>2, <4>1 DEF Close, TypeOK, ListenerInv, NoSocketLeaked, HeldSocket
    <3> QED BY <3>1, <3>2
  <2>2. newSock' \in NoSock..MaxClients
    <3>1. newSock' = newSock \/ newSock' = NoSock
      BY <1>4 DEF Close
    <3>2. NoSock \in NoSock..MaxClients /\ newSock \in NoSock..MaxClients
      BY Bounds DEF TypeOK, NoSock
    <3> QED BY <3>1, <3>2
  <2> QED BY <1>4, <2>1, <2>2 DEF Close, TypeOK, kernel
<1>5. CASE Wait
  <2>1. Detected \subseteq Events
    BY DEF Detected, Events
  <2>2. evMask' \subseteq Events \cup Flags /\ ev' \subseteq Events
    <3>1. CASE listed
      BY <1>5, <2>1, <3>1, MaskTypes DEF Wait
    <3>2. CASE ~listed
      BY <1>5, <3>2 DEF Wait, TypeOK
    <3> QED BY <3>1, <3>2
  <2>3. /\ UNCHANGED <<open, status, lastError, opp, newSock, io, arrived, dequeued, refused,
                      alive, taken, made, shut>>
        /\ listed' = FALSE /\ pc' \in {"user", "wait"}
    BY <1>5 DEF Wait, object, kernel
  <2> QED BY <2>2, <2>3 DEF TypeOK
<1>6. ASSUME NEW mask \in CtlMasks, Ctl(mask)
      PROVE  TypeOK'
  <2>1. evMask' \subseteq Events \cup Flags
    BY <1>6, ListenerAssumption DEF Ctl, ListenerAssumption, Events
  <2> QED BY <1>6, <2>1 DEF Ctl, TypeOK, kernel
<1>7. CASE OnAccept
  <2>1. shut' \in 0..made'
    <3>1. Cardinality(Handed) \in Nat
      BY CountAppend DEF TypeOK
    <3> QED BY <1>7, <3>1 DEF OnAccept, TypeOK, ListenerInv, NoSocketLeaked, HeldSocket
  <2>2. newSock' \in NoSock..MaxClients
    <3>1. newSock' = newSock \/ newSock' = NoSock
      BY <1>7 DEF OnAccept
    <3>2. NoSock \in NoSock..MaxClients /\ newSock \in NoSock..MaxClients
      BY Bounds DEF TypeOK, NoSock
    <3> QED BY <3>1, <3>2
  <2>3. evMask' \subseteq Events \cup Flags /\ ev' \subseteq Events
    BY <1>7, MaskTypes DEF OnAccept, Resume, Events
  <2>4. pc' \in {"user", "wait"}
    BY <1>7 DEF OnAccept, Resume
  <2> QED BY <1>7, <2>1, <2>2, <2>3, <2>4 DEF OnAccept, Cleared, TypeOK
<1>8. CASE OnClosed
  <2>1. evMask' \subseteq Events \cup Flags /\ ev' \subseteq Events /\ pc' \in {"user", "wait"}
    BY <1>8, MaskTypes DEF OnClosed, Resume
  <2> QED BY <1>8, <2>1 DEF OnClosed, Cleared, TypeOK, object
<1>9. CASE ClientConnects
  BY <1>9, Bounds DEF ClientConnects, TypeOK, object, waitVar
<1>10. CASE KAccept
  <2>1. /\ dequeued' \in 0..arrived' /\ dequeued' \in 1..MaxClients /\ arrived' = arrived
        /\ dequeued' = dequeued + 1
    BY <1>10, Bounds DEF KAccept, TypeOK
  <2>2. newSock' \in NoSock..MaxClients
    BY <1>10, <2>1, Bounds DEF KAccept, TypeOK, NoSock
  <2> QED BY <1>10, <2>1, <2>2 DEF KAccept, TypeOK, object, waitVar
<1>11. CASE KAbort
  BY <1>11 DEF KAbort, TypeOK, object, waitVar
<1>12. CASE Listen /\ ~open
  BY <1>12 DEF Listen, waitVar, kernel, TypeOK
<1> QED BY <1>1, <1>2, <1>3, <1>4, <1>5, <1>6, <1>7, <1>8, <1>9, <1>10, <1>11, <1>12 DEF Next

LEMMA InitInv == Init => TypeOK /\ ListenerInv
<1> SUFFICES ASSUME Init PROVE TypeOK /\ ListenerInv
  OBVIOUS
<1>1. <<>> \in Seq(NoSock..MaxClients) /\ DOMAIN <<>> = {}
  BY EmptySeq, LenProperties
<1>2. TypeOK
  <2>1. newSock \in NoSock..MaxClients
    BY Bounds DEF Init, NoSock
  <2>2. arrived \in 0..MaxClients /\ dequeued \in 0..arrived /\ made \in Nat /\ shut \in 0..made
    BY Bounds DEF Init
  <2> QED BY <1>1, <2>1, <2>2 DEF Init, TypeOK
<1>3. Handed = {} /\ Cardinality({}) = 0
  BY <1>1, FS_EmptySet DEF Init, Handed
<1>4. NoSocketLeaked
  BY <1>3 DEF Init, NoSocketLeaked, HeldSocket
<1>5. AcceptPhase /\ NumbersUsed /\ DeadIsBare /\ AcceptedInOrder /\ NoClientLost
  BY <1>1 DEF Init, AcceptPhase, NumbersUsed, DeadIsBare, AcceptedInOrder, NoClientLost, NoSock,
     Fresh
<1> QED BY <1>2, <1>4, <1>5 DEF ListenerInv

-----------------------------------------------------------------------------
(* The theorems.                                                            *)

LEMMA Inductive == Spec => [](TypeOK /\ ListenerInv)
<1>1. TypeOK /\ ListenerInv /\ [Next]_vars => (TypeOK /\ ListenerInv)'
  BY InvStep, TypeStep
<1> QED BY InitInv, <1>1, PTL DEF Spec

\* Each variable keeps to its values; in particular postAccept(), onAccept() and the destructor
\* never close more sockets than postAccept() made.
THEOREM ListenerTypes == Spec => []TypeOK
BY Inductive, PTL

\* The inductive invariant: what _newSock may hold in each phase of an AcceptEx, what has been
\* returned of the backlog, and that a deleted listener has left nothing behind.
THEOREM ListenerCorrect == Spec => []ListenerInv
BY Inductive, PTL

\* accept() returns each client at most once and in the order the clients connected, whatever
\* the order of listen(), accept(), ctl() and close() and whichever AcceptEx fail.
THEOREM AcceptKeepsOrder == Spec => []AcceptedInOrder
<1>1. ListenerInv => AcceptedInOrder
  BY DEF ListenerInv
<1> QED BY Inductive, <1>1, PTL

\* No client taken off the backlog is lost: postAccept() never overwrites a connection that
\* _newSock holds.
THEOREM AcceptKeepsClients == Spec => []NoClientLost
<1>1. ListenerInv => NoClientLost
  BY DEF ListenerInv
<1> QED BY Inductive, <1>1, PTL

\* Every socket postAccept() makes is returned, closed, or still held.
THEOREM AcceptLeaksNothing == Spec => []NoSocketLeaked
<1>1. ListenerInv => NoSocketLeaked
  BY DEF ListenerInv
<1> QED BY Inductive, <1>1, PTL

\* close() deletes the listener only when no AcceptEx and no packet of one refers to it.
THEOREM ListenerDeletedIdle == Spec => []DeletedIsIdle
<1>1. ListenerInv => DeletedIsIdle
  BY DEF ListenerInv, DeadIsBare, AcceptPhase, DeletedIsIdle, Busy
<1> QED BY Inductive, <1>1, PTL

-----------------------------------------------------------------------------
(* An application that keeps to the order of calls.                         *)

\* An open listener has an AcceptEx under way, or its application has just been told to
\* call accept() and has not done so; it does not wait without asking for IO_EVENT_IN.
ArmedInv ==
  open => /\ status # "CLOSED"
          /\ status = "DISCONNECT" => pc = "user" /\ evMask = {} /\ (newSock = NoSock \/ Busy)
          /\ status = "LISTENING" => Busy \/ (pc = "user" /\ "IN" \in ev)
          /\ status = "BROKEN" => Busy \/ newSock = NoSock \/ (pc = "user" /\ "IN" \in ev)
          /\ pc = "wait" => "IN" \in evMask

\* Every step of such an application, of the kernel and of the clients keeps it so.
LEMMA ArmedStep ==
  ASSUME Armed, TypeOK, ListenerInv, ArmedInv, [Next]_vars
  PROVE  ArmedInv'
<1>1. CASE Listen
  <2>1. PICK pr \in PostResults : PostAccept(newSock, pr) /\ status' \in {"LISTENING", "BROKEN"}
    BY <1>1 DEF Listen, Calls
  <2>2. open /\ pc = "user" /\ UNCHANGED <<pc, ev>>
    BY <1>1 DEF Listen, Calls, waitVar
  <2>3. opp' = opp \/ opp' = "ACCEPT"
    BY <2>1, PostShape
  <2>4. newSock # NoSock \/ opp # "NONE" \/ opp' = "ACCEPT"
    BY <2>1, PostShape
  <2>5. newSock = NoSock \/ Busy \/ "IN" \in ev
    BY <2>2 DEF ArmedInv, TypeOK
  <2> QED BY <2>1, <2>2, <2>3, <2>4, <2>5 DEF ArmedInv, Busy
<1>2. CASE Accept
  <2>1. /\ open /\ pc = "user" /\ pc' = "user" /\ status # "CLOSED" /\ UNCHANGED evMask
        /\ status' \in {status, "BROKEN"}
    BY <1>2 DEF Accept, Calls, BreakIfFailed, ArmedInv
  <2>2. opp' # "NONE"
    <3>1. CASE Busy
      BY <1>2, <3>1 DEF Accept, Busy
    <3>2. CASE ~Busy
      <4>1. PICK pr \in PostResults : PostAccept(NoSock, pr)
        BY <1>2, <3>2 DEF Accept, HandedOver
      <4> QED BY <3>2, <4>1 DEF PostAccept, Occupied, Busy
    <3> QED BY <3>1, <3>2
  <2> QED BY <2>1, <2>2 DEF ArmedInv, Busy
<1>3. ASSUME NEW mask \in CtlMasks, Ctl(mask) PROVE ArmedInv'
  BY <1>3 DEF Ctl, Calls, Busy, ArmedInv
<1>4. CASE Close
  BY <1>4 DEF Close, ArmedInv
<1>5. CASE Wait
  <2> SUFFICES ASSUME open PROVE ArmedInv'
    BY <1>5 DEF Wait, object, ArmedInv
  <2>1. /\ "IN" \in evMask /\ "IN" \notin ev /\ UNCHANGED <<open, status, opp, newSock>>
        /\ IF listed THEN MaskEvent(Detected) ELSE ev' = {} /\ evMask' = evMask
        /\ pc' = IF ev' # {} THEN "user" ELSE "wait"
    BY <1>5 DEF Wait, object
  <2>2. pc' = "wait" => evMask' = evMask
    BY <2>1 DEF MaskEvent
  <2> QED BY <2>1, <2>2 DEF ArmedInv, Busy
<1>6. CASE OnAccept
  <2>1. /\ open /\ pc = "wait" /\ "IN" \in evMask /\ UNCHANGED open
        /\ status # "DISCONNECT" /\ status # "CLOSED"
    BY <1>6 DEF OnAccept, ArmedInv
  <2>2. CASE io = "error"
    <3>1. status' = "BROKEN" /\ newSock' = NoSock /\ Resume({"ERROR"})
      BY <1>6, <2>2 DEF OnAccept
    <3> QED BY <2>1, <3>1 DEF Resume, MaskEvent, ArmedInv
  <2>3. CASE io # "error"
    <3>1. status' = status /\ Resume({"IN"})
      BY <1>6, <2>3 DEF OnAccept
    <3> QED BY <2>1, <3>1 DEF Resume, MaskEvent, ArmedInv
  <2> QED BY <2>2, <2>3
<1>7. CASE OnClosed
  BY <1>7 DEF OnClosed, object, ArmedInv
<1>8. CASE ClientConnects \/ KAbort \/ UNCHANGED vars
  BY <1>8 DEF ClientConnects, KAbort, vars, object, waitVar, ArmedInv, Busy
<1>9. CASE KAccept
  <2>1. Busy /\ UNCHANGED <<open, status, opp, evMask, pc, ev>>
    BY <1>9 DEF KAccept, object, waitVar, ListenerInv, AcceptPhase, Busy
  <2> QED BY <2>1 DEF ArmedInv, Busy
<1> QED BY <1>1, <1>2, <1>3, <1>4, <1>5, <1>6, <1>7, <1>8, <1>9 DEF Next

\* The postRecv() that ctl() runs on a listener, which would read from a listening socket and
\* break it, is always shielded by an AcceptEx, if ctl() comes after listen() and accept()
\* answers every IO_EVENT_IN.
THEOREM CtlShielded == Armed => (Spec => NotBrokenByCtl)
<1> SUFFICES ASSUME Armed PROVE Spec => NotBrokenByCtl
  OBVIOUS
<1> DEFINE Shielded == \A mask \in CtlMasks : Ctl(mask) => status' = status
<1>1. Init => ArmedInv
  BY DEF Init, ArmedInv
<1>2. TypeOK /\ ListenerInv /\ ArmedInv /\ [Next]_vars => ArmedInv'
  BY ArmedStep
<1>3. TypeOK /\ ListenerInv /\ ArmedInv /\ [Next]_vars => [Shielded]_vars
  <2> SUFFICES ASSUME TypeOK, ArmedInv, NEW mask \in CtlMasks, Ctl(mask) PROVE status' = status
    OBVIOUS
  <2>1. open /\ "IN" \notin ev /\ status # "DISCONNECT"
    BY DEF Ctl, Calls
  <2>2. Busy \/ status = "BROKEN"
    BY <2>1 DEF ArmedInv, TypeOK
  <2> QED BY <2>2 DEF Ctl
<1> QED BY <1>1, <1>2, <1>3, Inductive, PTL DEF Spec, NotBrokenByCtl

-----------------------------------------------------------------------------
(* The listener implements the queue of clients of ClientQueue, for every   *)
(* number of clients and every order of calls.                              *)

\* The client held in _newSock is the last one taken off the backlog.
HeldIsLast == newSock > 0 => newSock = dequeued

\* postAccept() posts no AcceptEx while a client is held, so no later one leaves the backlog.
LEMMA HeldIsLastStep ==
  ASSUME TypeOK, ListenerInv, HeldIsLast, [Next]_vars
  PROVE  HeldIsLast'
<1>1. CASE Listen \/ Accept
  <2>1. \/ UNCHANGED <<newSock, dequeued>>
        \/ \E s \in {newSock, NoSock} : \E pr \in PostResults : PostAccept(s, pr)
    BY <1>1 DEF Listen, Accept, HandedOver, kernel
  <2> QED BY <2>1, PostShape DEF HeldIsLast, Fresh, NoSock
<1>2. CASE KAccept
  BY <1>2, Bounds DEF KAccept, ListenerInv, AcceptPhase, HeldIsLast, Fresh
<1>3. CASE Close \/ OnAccept
  BY <1>3 DEF Close, OnAccept, HeldIsLast, NoSock, kernel
<1>4. CASE Wait \/ OnClosed \/ ClientConnects \/ KAbort \/ UNCHANGED vars \/ \E mask \in CtlMasks : Ctl(mask)
  BY <1>4 DEF Wait, OnClosed, ClientConnects, KAbort, Ctl, HeldIsLast, vars, kernel
<1> QED BY <1>1, <1>2, <1>3, <1>4 DEF Next

\* The numbers behind the queue.
LEMMA QueueTypes ==
  ASSUME TypeOK
  PROVE  /\ dequeued \in Nat /\ arrived \in Nat /\ dequeued <= arrived
         /\ newSock \in Int /\ Settled \in Int
         /\ Settled = IF newSock > 0 THEN dequeued - 1 ELSE dequeued
BY Bounds DEF TypeOK, NoSock, Settled

\* A step that settles nobody.
LEMMA NobodySettled ==
  ASSUME UNCHANGED <<alive, arrived, dequeued, refused>>, TakenClients' = TakenClients,
         newSock' > 0 <=> newSock > 0
  PROVE  UNCHANGED Queue!queue
BY DEF Queue!queue, Settled

\* A step in which AcceptEx finds the next client gone.
LEMMA ClientGone ==
  ASSUME TypeOK, alive, UNCHANGED <<alive, arrived>>, TakenClients' = TakenClients,
         dequeued < arrived, dequeued' = dequeued + 1, refused' = refused \cup {dequeued + 1},
         ~(newSock > 0), ~(newSock' > 0)
  PROVE  Queue!Settle
<1>1. Settled = dequeued /\ Settled' = dequeued + 1 /\ dequeued \in Nat /\ arrived \in Nat
  BY QueueTypes DEF Settled
<1>2. (Settled + 1)..Settled' = {dequeued + 1} /\ Settled' \in (Settled + 1)..arrived
  BY <1>1
<1>3. /\ {} \in SUBSET ((Settled + 1)..Settled')
      /\ TakenClients' = TakenClients \cup {}
      /\ refused' = refused \cup (((Settled + 1)..Settled') \ {})
  BY <1>2
<1> QED BY <1>2, <1>3 DEF Queue!Settle

\* accept() with a client in _newSock serves it; the AcceptEx it posts may find the next gone.
LEMMA ClientServed ==
  ASSUME TypeOK, alive, UNCHANGED <<alive, arrived>>, newSock > 0, newSock = dequeued,
         ~(newSock' > 0), TakenClients' = TakenClients \cup {newSock},
         \/ dequeued' = dequeued /\ refused' = refused
         \/ /\ dequeued < arrived
            /\ dequeued' = dequeued + 1 /\ refused' = refused \cup {dequeued + 1}
  PROVE  Queue!Settle
<1>1. /\ Settled = dequeued - 1 /\ Settled' = dequeued'
      /\ dequeued \in Nat /\ arrived \in Nat /\ dequeued <= arrived
  BY QueueTypes DEF Settled
<1>2. Settled' \in (Settled + 1)..arrived /\ {dequeued} \in SUBSET ((Settled + 1)..Settled')
  BY <1>1
<1>3. refused' = refused \cup (((Settled + 1)..Settled') \ {dequeued})
  <2>1. CASE dequeued' = dequeued /\ refused' = refused
    <3>1. (Settled + 1)..Settled' = {dequeued}
      BY <1>1, <2>1
    <3> QED BY <2>1, <3>1
  <2>2. CASE dequeued' = dequeued + 1 /\ refused' = refused \cup {dequeued + 1}
    <3>1. ((Settled + 1)..Settled') \ {dequeued} = {dequeued + 1}
      BY <1>1, <2>2
    <3> QED BY <2>2, <3>1
  <2> QED BY <2>1, <2>2
<1> QED BY <1>2, <1>3 DEF Queue!Settle

\* What accept() adds to the clients returned.
LEMMA TakenGrows ==
  ASSUME TypeOK, NEW c \in NoSock..MaxClients, taken' = Append(taken, c)
  PROVE  TakenClients' = TakenClients \cup ({c} \ {NoSock, Fresh})
<1>1. taken \in Seq(NoSock..MaxClients)
  BY DEF TypeOK
<1>2. /\ Len(taken) \in Nat /\ DOMAIN taken = 1..Len(taken)
      /\ DOMAIN taken' = 1..(Len(taken) + 1) /\ taken'[Len(taken) + 1] = c
      /\ \A i \in 1..Len(taken) : taken'[i] = taken[i]
  BY <1>1, LenProperties, AppendProperties
<1>3. 1..(Len(taken) + 1) = 1..Len(taken) \cup {Len(taken) + 1}
  BY <1>2
<1>4. {taken'[i] : i \in DOMAIN taken'} = {taken[i] : i \in DOMAIN taken} \cup {c}
  <2>1. \A i \in DOMAIN taken' : taken'[i] = c \/ (i \in DOMAIN taken /\ taken'[i] = taken[i])
    BY <1>2, <1>3
  <2>2. \A i \in DOMAIN taken : i \in DOMAIN taken' /\ taken'[i] = taken[i]
    BY <1>2, <1>3
  <2>3. Len(taken) + 1 \in DOMAIN taken' /\ taken'[Len(taken) + 1] = c
    BY <1>2, <1>3
  <2> QED BY <2>1, <2>2, <2>3, Zenon
<1> QED BY <1>4 DEF TakenClients

\* A call of accept() settles the client it returns, and at most one more.
LEMMA AcceptSettles ==
  ASSUME TypeOK, ListenerInv, HeldIsLast, Accept
  PROVE  [Queue!Next]_Queue!queue
<1>1. CASE Busy
  <2>1. UNCHANGED <<alive, arrived, dequeued, refused, newSock, taken>>
    BY <1>1 DEF Accept, kernel
  <2> QED BY <2>1, NobodySettled DEF TakenClients
<1>2. CASE ~Busy
  <2> DEFINE c == newSock
  <2>1. alive /\ alive' = alive /\ taken' = Append(taken, c) /\ opp = "NONE"
    BY <1>2 DEF Accept, Calls, Busy
  <2>2. PICK pr \in PostResults : PostAccept(NoSock, pr)
    BY <1>2 DEF Accept, HandedOver
  <2>3. /\ newSock' = Fresh /\ arrived' = arrived
        /\ \/ dequeued' = dequeued /\ refused' = refused
           \/ /\ dequeued < arrived
              /\ dequeued' = dequeued + 1 /\ refused' = refused \cup {dequeued + 1}
    BY <2>1, <2>2, PostShape
  <2>4. newSock \in {NoSock, Fresh} \/ newSock > 0
    BY Bounds DEF TypeOK, Fresh, NoSock
  <2>5. c \in NoSock..MaxClients
    BY DEF TypeOK
  <2>6. TakenClients' = TakenClients \cup ({c} \ {NoSock, Fresh})
    <3> HIDE DEF c
    <3> QED BY <2>1, <2>5, TakenGrows
  <2>7. CASE newSock \in {NoSock, Fresh}
    <3>1. TakenClients' = TakenClients /\ ~(newSock > 0) /\ ~(newSock' > 0)
      BY <2>3, <2>6, <2>7 DEF NoSock, Fresh
    <3> QED BY <2>1, <2>3, <3>1, NobodySettled, ClientGone DEF Queue!Next
  <2>8. CASE newSock > 0
    <3>1. c = newSock /\ newSock \notin {NoSock, Fresh} /\ newSock = dequeued /\ ~(newSock' > 0)
      BY <2>3, <2>8 DEF NoSock, Fresh, HeldIsLast
    <3>2. TakenClients' = TakenClients \cup {newSock}
      BY <2>6, <3>1
    <3> QED BY <2>1, <2>3, <2>8, <3>1, <3>2, ClientServed DEF Queue!Next
  <2> QED BY <2>4, <2>7, <2>8
<1> QED BY <1>1, <1>2

\* A step of the listener is a step of the queue or leaves it alone.
LEMMA QueueStep ==
  ASSUME TypeOK, TypeOK', ListenerInv, HeldIsLast, [Next]_vars
  PROVE  [Queue!Next]_Queue!queue
<1>1. CASE Listen
  <2>1. UNCHANGED <<opp, newSock, kernel, made>> \/ \E pr \in PostResults : PostAccept(newSock, pr)
    BY <1>1 DEF Listen
  <2>2. alive /\ alive' = alive /\ TakenClients' = TakenClients
    BY <1>1 DEF Listen, Calls, TakenClients
  <2>3. \/ UNCHANGED <<newSock, arrived, dequeued, refused>>
        \/ /\ ~(newSock > 0) /\ ~(newSock' > 0) /\ arrived' = arrived
           /\ \/ dequeued' = dequeued /\ refused' = refused
              \/ /\ dequeued < arrived
                 /\ dequeued' = dequeued + 1 /\ refused' = refused \cup {dequeued + 1}
    BY <2>1, PostShape DEF NoSock, Fresh, kernel
  <2> QED BY <2>2, <2>3, NobodySettled, ClientGone DEF Queue!Next
<1>2. CASE Accept
  BY <1>2, AcceptSettles
<1>3. CASE Close
  <2>1. /\ UNCHANGED <<arrived, dequeued, refused>> /\ TakenClients' = TakenClients /\ alive
        /\ \/ UNCHANGED <<alive, newSock>>
           \/ alive' = FALSE /\ newSock' = NoSock
    BY <1>3 DEF Close, kernel, TakenClients
  <2>2. CASE alive' = FALSE /\ newSock' = NoSock
    <3>1. Settled' = dequeued /\ Settled' \in Settled..arrived
      BY <2>1, <2>2, QueueTypes DEF Settled, NoSock
    <3> QED BY <2>1, <2>2, <3>1 DEF Queue!Next, Queue!Stop
  <2> QED BY <2>1, <2>2, NobodySettled
<1>4. CASE KAccept
  <2>1. /\ UNCHANGED <<alive, arrived, taken>> /\ dequeued < arrived
        /\ dequeued' = dequeued + 1 /\ newSock = Fresh /\ alive
        /\ \/ newSock' = dequeued + 1 /\ refused' = refused
           \/ newSock' = newSock /\ refused' = refused \cup {dequeued + 1}
    BY <1>4, PacketAlive DEF KAccept, ListenerInv, AcceptPhase
  <2>2. TakenClients' = TakenClients
    BY <2>1 DEF TakenClients
  <2>3. CASE newSock' = dequeued + 1 /\ refused' = refused
    <3>1. Settled' = Settled
      BY <2>1, <2>3, QueueTypes DEF Settled, Fresh
    <3> QED BY <2>1, <2>2, <2>3, <3>1 DEF Queue!queue
  <2>4. CASE newSock' = newSock /\ refused' = refused \cup {dequeued + 1}
    BY <2>1, <2>2, <2>4, ClientGone DEF Queue!Next, Fresh
  <2> QED BY <2>1, <2>3, <2>4
<1>5. CASE ClientConnects
  <2>1. /\ UNCHANGED <<alive, newSock, dequeued, refused, taken>> /\ arrived' = arrived + 1 /\ alive
    BY <1>5 DEF ClientConnects, Hears, ListenerInv, DeadIsBare
  <2> QED BY <2>1 DEF Queue!Next, Queue!Arrive, Settled, TakenClients
<1>6. CASE OnAccept
  <2>1. /\ UNCHANGED <<alive, arrived, dequeued, refused, taken>>
        /\ newSock' = newSock \/ (newSock = Fresh /\ newSock' = NoSock)
    BY <1>6 DEF OnAccept, ListenerInv, AcceptPhase
  <2> QED BY <2>1, NobodySettled DEF TakenClients, Fresh, NoSock
<1>7. CASE Wait \/ OnClosed \/ KAbort \/ UNCHANGED vars \/ \E mask \in CtlMasks : Ctl(mask)
  <2>1. UNCHANGED <<alive, arrived, dequeued, refused, taken, newSock>>
    BY <1>7 DEF Wait, OnClosed, KAbort, Ctl, vars, kernel
  <2> QED BY <2>1, NobodySettled DEF TakenClients
<1> QED BY <1>1, <1>2, <1>3, <1>4, <1>5, <1>6, <1>7 DEF Next

\* A listener is a queue that settles its clients in the order they connect: each is served
\* once or has reset, whatever the application does and whichever AcceptEx fail.
THEOREM QueueCorrect == Spec => QueueImplemented
<1>1. Init => HeldIsLast /\ Queue!Init
  <2>1. DOMAIN <<>> = {}
    BY EmptySeq, LenProperties
  <2> QED BY <2>1 DEF Init, HeldIsLast, NoSock, Queue!Init, Settled, TakenClients
<1>2. (TypeOK /\ ListenerInv) /\ HeldIsLast /\ [Next]_vars => HeldIsLast'
  BY HeldIsLastStep
<1>3. (TypeOK /\ ListenerInv) /\ TypeOK' /\ HeldIsLast /\ [Next]_vars => [Queue!Next]_Queue!queue
  BY QueueStep
<1>4. TypeOK /\ ListenerInv => TypeOK
  OBVIOUS
<1> QED BY <1>1, <1>2, <1>3, <1>4, Inductive, PTL DEF Spec, QueueImplemented, Queue!Spec

=============================================================================
