----------------------------- MODULE IoListener -----------------------------
(***************************************************************************)
(* One listening IoSocketImpl: listen(), postAccept(), accept() through    *)
(* IoSelectorImpl::accept(), the part of IoSelectorImpl that serves it     *)
(* (ctl, wait, close), the AcceptEx operation in the kernel and the        *)
(* clients that connect.  As in IoSocketImpl the application and the       *)
(* handlers share one thread; the kernel and the clients do not.           *)
(*                                                                         *)
(* The k-th client to connect is the number k.                             *)
(***************************************************************************)
EXTENDS Integers, Sequences, FiniteSets

CONSTANTS
  MaxClients,    \* bound: clients that connect
  MaxAccepts,    \* bound: sockets accept() returns, and those made when listen() is called
  CtlMasks,      \* the event masks the application passes to ctl()
  ClientsReset,  \* a client may reset its connection before it is accepted
  SyncReset,     \* ... and AcceptEx may report it at once (no packet follows)
  PostMayFail,   \* AcceptEx may fail for a local reason
  AppRules       \* rules the application keeps: "arm" (see below)

\* "arm": ctl(IN) comes after listen() and before wait(), an IO_EVENT_IN is answered by accept()
\*        before the next ctl() or wait(), and a closed listener is left alone.

Events == {"IN", "OUT", "ERROR", "HANGUP"}
Flags  == {"ET", "ONESHOT"}
NoSock == -1     \* INVALID_SOCKET
Fresh  == 0      \* a socket without a connection

ASSUME ListenerAssumption ==
  /\ MaxClients \in Nat /\ MaxAccepts \in Nat
  /\ CtlMasks \subseteq SUBSET (Events \cup Flags)
  /\ ClientsReset \in BOOLEAN /\ SyncReset \in BOOLEAN /\ PostMayFail \in BOOLEAN
  /\ AppRules \subseteq {"arm"}

VARIABLES
  open, status, evMask, lastError,  \* of the IoSocketImpl object, as in IoSocketImpl.tla
  opp,       \* _recvOlp.oppType
  newSock,   \* _newSock: NoSock, Fresh, or the client it is connected to
  io,        \* the posted AcceptEx: "idle", "flight", or its queued packet "ok", "reset", "error"
  listed, alive,
  arrived,   \* clients 1..arrived have connected
  dequeued,  \* clients 1..dequeued have left the backlog
  refused,   \* those of them that reset
  pc, ev,
  taken,     \* what accept() took out of _newSock, call by call
  made, shut \* sockets postAccept() created, and those of them closed again unused

object == <<open, status, lastError>>
kernel == <<io, arrived, dequeued, refused>>
waitVar == <<evMask, listed, pc, ev>>
vars == <<object, opp, newSock, kernel, waitVar, alive, taken, made, shut>>

\* The values each variable may take.
TypeOK ==
  /\ open \in BOOLEAN /\ listed \in BOOLEAN /\ alive \in BOOLEAN
  /\ status \in {"DISCONNECT", "LISTENING", "BROKEN", "CLOSED"}
  /\ evMask \subseteq Events \cup Flags /\ ev \subseteq Events
  /\ lastError \in {"none", "EAGAIN", "FAILED"}
  /\ opp \in {"NONE", "ACCEPT", "RECV"}
  /\ io \in {"idle", "flight", "ok", "reset", "error"}
  /\ arrived \in 0..MaxClients /\ dequeued \in 0..arrived
  /\ newSock \in NoSock..MaxClients /\ taken \in Seq(NoSock..MaxClients)
  /\ refused \subseteq 1..MaxClients
  /\ pc \in {"user", "wait"}
  /\ made \in Nat /\ shut \in 0..made

Init ==
  /\ open = TRUE /\ status = "DISCONNECT" /\ evMask = {} /\ lastError = "none"
  /\ opp = "NONE" /\ newSock = NoSock /\ io = "idle"
  /\ listed = FALSE /\ alive = TRUE
  /\ arrived = 0 /\ dequeued = 0 /\ refused = {}
  /\ pc = "user" /\ ev = {} /\ taken = <<>> /\ made = 0 /\ shut = 0

-----------------------------------------------------------------------------
(* Faulty variants of the helpers below, to test the properties.            *)

KeptByAccept    == newSock
LeftOpenByClose == 0
ClosedTwice     == 1
StillPosted     == opp

-----------------------------------------------------------------------------
Armed == "arm" \in AppRules
Calls == pc = "user" /\ alive /\ (Armed => open)
Busy  == opp # "NONE"

\* What accept() leaves in _newSock; whether postAccept() must do nothing, with s in it.
HandedOver  == NoSock
Occupied(s) == opp # "NONE" \/ s # NoSock

\* How many sockets the destructor and onAccept() close for _newSock.
HeldSocket == IF newSock # NoSock THEN 1 ELSE 0

\* onUpdate() clears the operation type.
Cleared == "NONE"

\* postAccept(), called with s in _newSock.  "RESET": AcceptEx reports at once that the
\* next client is gone; only "POSTED" leads to a packet.  Of a closed handle AcceptEx fails.
PostAccept(s, pr) ==
  \/ /\ Occupied(s)
     /\ pr = "BUSY" /\ newSock' = s
     /\ UNCHANGED <<opp, kernel, made>>
  \/ /\ ~Occupied(s)
     /\ newSock' = Fresh /\ made' = made + 1 /\ opp' = "ACCEPT"
     /\ \/ pr = "POSTED" /\ open /\ io' = "flight" /\ UNCHANGED <<arrived, dequeued, refused>>
        \/ pr = "FAILED" /\ (PostMayFail \/ ~open) /\ UNCHANGED kernel
        \/ /\ pr = "RESET" /\ open /\ SyncReset /\ dequeued < arrived
           /\ dequeued' = dequeued + 1 /\ refused' = refused \cup {dequeued'}
           /\ UNCHANGED <<io, arrived>>

PostResults == {"BUSY", "POSTED", "FAILED", "RESET"}

BreakIfFailed(pr) ==
  IF pr = "FAILED" THEN status' = "BROKEN" /\ lastError' = pr ELSE UNCHANGED <<status, lastError>>

\* onDetectEvent() for a socket that never connects: an idle listener has a client ready.
Ready == opp = "NONE"
Detected ==
  IF ~open \/ status \in {"BROKEN", "CLOSED"} THEN {"ERROR"}
  ELSE IF status # "LISTENING" THEN {}
  ELSE {"OUT"} \cup (IF Ready THEN {"IN"} ELSE {})

MaskEvent(raw) ==
  /\ ev' = raw \cap evMask
  /\ evMask' = IF ev' # {} /\ "ONESHOT" \in evMask THEN {} ELSE evMask

Resume(raw) ==
  /\ MaskEvent(raw)
  /\ pc' = IF ev' # {} THEN "user" ELSE "wait"

-----------------------------------------------------------------------------
(* The application's calls.                                                 *)

\* listen(), which may be called again, of a broken listener too; the first AcceptEx is
\* posted at once.  A closed handle cannot listen.
Listen ==
  /\ Calls
  /\ \/ /\ ~open
        /\ lastError' = "FAILED"
        /\ UNCHANGED <<status, opp, newSock, kernel, made>>
     \/ /\ open /\ made <= MaxAccepts
        /\ \E pr \in PostResults :
             /\ PostAccept(newSock, pr)
             /\ IF pr = "FAILED" THEN status' = "BROKEN" /\ lastError' = pr
                                 ELSE status' = "LISTENING" /\ UNCHANGED lastError
  /\ UNCHANGED <<open, waitVar, alive, taken, shut>>

\* IoSelectorImpl::accept(): with no AcceptEx under way the socket in _newSock becomes a
\* new IoSocketImpl, whose constructor makes a socket of its own if there is none.  Before the
\* first AcceptEx the call is undefined: there is no buffer to take the addresses from.
Accept ==
  /\ Calls
  /\ \/ /\ Busy
        /\ lastError' = "EAGAIN"
        /\ UNCHANGED <<status, opp, newSock, kernel, taken, made>>
     \/ /\ ~Busy /\ made > 0 /\ Len(taken) < MaxAccepts
        /\ taken' = Append(taken, newSock)
        /\ \E pr \in PostResults : PostAccept(HandedOver, pr) /\ BreakIfFailed(pr)
  /\ ev' = ev \ {"IN"}
  /\ UNCHANGED <<open, evMask, listed, pc, alive, shut>>

\* ctl(): with IO_EVENT_IN it calls postRecv(), which knows nothing of listeners: without an
\* operation under way it reads from the listening socket, and WSARecv fails.
Ctl(mask) ==
  /\ Calls
  /\ Armed => "IN" \in mask /\ "IN" \notin ev /\ status # "DISCONNECT"
  /\ evMask' = mask \cup {"ERROR", "HANGUP"}
  /\ listed' = TRUE
  /\ IF "IN" \in mask /\ ~Busy
     THEN opp' = "RECV" /\ status' = "BROKEN" /\ lastError' = "FAILED"
     ELSE UNCHANGED <<opp, status, lastError>>
  /\ UNCHANGED <<open, newSock, kernel, pc, ev, alive, taken, made, shut>>

\* close(); the destructor closes _newSock.
Close ==
  /\ pc = "user" /\ alive
  /\ open' = FALSE
  /\ status' = IF open THEN "CLOSED" ELSE status
  /\ IF Busy
     THEN lastError' = "EAGAIN" /\ UNCHANGED <<listed, alive, newSock, shut>>
     ELSE /\ listed' = FALSE /\ alive' = FALSE /\ UNCHANGED lastError
          /\ newSock' = NoSock /\ shut' = shut + HeldSocket
  /\ UNCHANGED <<opp, kernel, evMask, pc, ev, taken, made>>

Wait ==
  /\ pc = "user" /\ alive
  /\ Armed /\ open => "IN" \in evMask /\ "IN" \notin ev
  /\ listed' = FALSE
  /\ IF listed THEN MaskEvent(Detected) ELSE ev' = {} /\ UNCHANGED evMask
  /\ pc' = IF ev' # {} THEN "user" ELSE "wait"
  /\ UNCHANGED <<object, opp, newSock, kernel, alive, taken, made, shut>>

-----------------------------------------------------------------------------
(* wait() takes the packet of the AcceptEx.                                 *)

\* onAccept(): a client that reset is reported as readable all the same.
OnAccept ==
  /\ pc = "wait" /\ open /\ io \in {"ok", "reset", "error"}
  /\ io' = "idle" /\ opp' = Cleared
  /\ IF io = "ok" THEN UNCHANGED <<newSock, shut>> ELSE newSock' = NoSock /\ shut' = shut + HeldSocket
  /\ IF io = "error" THEN status' = "BROKEN" /\ lastError' = "FAILED"
                     ELSE UNCHANGED <<status, lastError>>
  /\ Resume(IF io = "error" THEN {"ERROR"} ELSE {"IN"})
  /\ UNCHANGED <<open, arrived, dequeued, refused, listed, alive, taken, made>>

\* onUpdate() of a closed listener.
OnClosed ==
  /\ pc = "wait" /\ ~open /\ io \in {"ok", "reset", "error"}
  /\ io' = "idle" /\ opp' = Cleared
  /\ Resume({})
  /\ UNCHANGED <<object, newSock, arrived, dequeued, refused, listed, alive, taken, made, shut>>

-----------------------------------------------------------------------------
(* The kernel and the clients.                                              *)

\* A client connects to the backlog of a socket on which listen() has succeeded.
Hears == open /\ (status = "LISTENING" \/ made > 0)

ClientConnects ==
  /\ Hears /\ arrived < MaxClients
  /\ arrived' = arrived + 1
  /\ UNCHANGED <<object, opp, newSock, io, dequeued, refused, waitVar, alive, taken, made, shut>>

\* AcceptEx completes with the first client of the backlog, which may have reset.
KAccept ==
  /\ io = "flight" /\ open /\ dequeued < arrived
  /\ dequeued' = dequeued + 1
  /\ \/ io' = "ok" /\ newSock' = dequeued' /\ UNCHANGED refused
     \/ ClientsReset /\ io' = "reset" /\ refused' = refused \cup {dequeued'} /\ UNCHANGED newSock
  /\ UNCHANGED <<object, opp, arrived, waitVar, alive, taken, made, shut>>

\* AcceptEx fails: the listener was closed, or for a reason of its own.
KAbort ==
  /\ io = "flight" /\ (~open \/ PostMayFail)
  /\ io' = "error"
  /\ UNCHANGED <<object, opp, newSock, arrived, dequeued, refused, waitVar, alive, taken, made, shut>>

-----------------------------------------------------------------------------
Next ==
  \/ Listen \/ Accept \/ Close \/ Wait \/ \E mask \in CtlMasks : Ctl(mask)
  \/ OnAccept \/ OnClosed
  \/ ClientConnects \/ KAccept \/ KAbort

Spec == Init /\ [][Next]_vars

\* The application calls ctl() when its mask lacks IO_EVENT_IN, answers that event by
\* accept() and keeps calling wait(), not always right after a ctl(); wait() takes what is
\* queued; AcceptEx takes a waiting client.
Rearm == "IN" \notin evMask /\ \E mask \in CtlMasks : Ctl(mask)

Fairness ==
  /\ WF_vars(Wait) /\ SF_vars(Wait /\ ~listed) /\ WF_vars(Accept /\ "IN" \in ev)
  /\ WF_vars(Rearm)
  /\ WF_vars(OnAccept) /\ WF_vars(KAccept)

LiveSpec == Spec /\ Fairness

-----------------------------------------------------------------------------
(* Properties.                                                              *)

TakenClients == {taken[i] : i \in DOMAIN taken} \ {NoSock, Fresh}
Handed       == {i \in DOMAIN taken : taken[i] # NoSock}

\* accept() returns each client at most once, in the order they connected, also when the
\* connection in _newSock has waited across a second listen() or a failed post.
AcceptedInOrder ==
  /\ \A i, j \in DOMAIN taken : i < j /\ taken[j] > 0 => taken[i] < taken[j]
  /\ newSock > 0 => \A i \in DOMAIN taken : taken[i] < newSock

\* A client taken off the backlog has been returned by accept(), has reset, or is held in
\* _newSock for the next accept(): postAccept() never overwrites it.
NoClientLost ==
  alive => \A k \in 1..dequeued : k \in TakenClients \cup refused \cup {newSock}

\* Every socket postAccept() makes is returned by accept(), closed, or still in _newSock.
NoSocketLeaked == made = Cardinality(Handed) + shut + HeldSocket

\* The listener is only deleted when no AcceptEx, and no packet of one, refers to it.
DeletedIsIdle == ~alive => io = "idle" /\ newSock = NoSock /\ ~listed

\* The inductive invariant that the safety properties above follow from.
\* An AcceptEx under way fills a socket without a connection, and one that has succeeded has
\* left a client there; without one, an open listener holds a connection or nothing.
AcceptPhase ==
  /\ io # "idle" => opp = "ACCEPT"
  /\ io \in {"flight", "reset", "error"} => newSock = Fresh
  /\ io = "ok" => newSock > 0
  /\ open /\ opp # "ACCEPT" => newSock # Fresh

\* No client is held or returned before it has left the backlog.
NumbersUsed == newSock <= dequeued /\ \A i \in DOMAIN taken : taken[i] <= dequeued

\* A deleted listener has nothing left.
DeadIsBare == ~alive => ~open /\ ~Busy /\ newSock = NoSock /\ ~listed

ListenerInv ==
  AcceptPhase /\ NumbersUsed /\ DeadIsBare /\ AcceptedInOrder /\ NoClientLost /\ NoSocketLeaked

\* Told to accept, an application that keeps to the order of calls never breaks the
\* listener by ctl(): the AcceptEx that accept() posts shields it from postRecv().
NotBrokenByCtl == [][ \A mask \in CtlMasks : Ctl(mask) => status' = status ]_vars

\* A listener that answers every IO_EVENT_IN with accept() gets to every client.
EveryClientServed ==
  \A k \in 1..MaxClients : arrived >= k ~> k \in TakenClients \cup refused \/ ~open

-----------------------------------------------------------------------------
(* What a listener promises: a queue of clients settled in order.           *)

\* Clients leave the queue when accept() returns them or AcceptEx finds that they reset; the
\* one held in _newSock still waits, and deleting the listener closes it.
Settled == IF newSock > 0 THEN dequeued - 1 ELSE dequeued

Queue == INSTANCE ClientQueue WITH
  up <- alive, settled <- Settled, served <- TakenClients, gone <- refused

\* Whatever the order of listen(), accept(), ctl() and close() and whichever AcceptEx fail,
\* each client in turn is served once or has reset; none is passed over or served twice.
QueueImplemented == Queue!Spec

==============================================================================
