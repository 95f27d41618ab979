---------------------------- MODULE IoSelectorImpl ----------------------------
(***************************************************************************)
(* The selector with several sockets: the list of all sockets, the check   *)
(* list that ctl() fills, the completion port, the remaining time of       *)
(* wait(), wakeup(), close() and the destructor.                           *)
(*                                                                         *)
(* A socket is what the selector sees of it: whether its handle is open,   *)
(* whether detectEvent() would report something, and its two OVERLAPPED    *)
(* structures: the object's own note of an operation under way with each,  *)
(* which close() goes by, and what the kernel and the port really hold.    *)
(* IoSocketImpl.tla and IoListener.tla model what happens inside.  Here a  *)
(* handler may or may not raise an event and may or may not post again.    *)
(***************************************************************************)
EXTENDS Integers, Sequences, FiniteSets, Lists

CONSTANTS
  Sockets,      \* the sockets the application ever asks for
  Listeners,    \* those of them that listen
  Secure,       \* those of them that speak TLS
  Olps,         \* the structures a socket posts with: "recv", "send" (bound: may be one)
  Timeouts,     \* the arguments of wait(); a negative one means to wait for ever
  MaxWakeups,   \* bound: wakeups in the port at a time
  MaxTicks      \* bound: clock ticks counted during one wait()

\* A packet of the port names its socket and its structure; the one that
\* PostQueuedCompletionStatus(port, 0, NULL, NULL) queues names neither.
Wake    == <<"NULL", "NULL">>
Packets == (Sockets \X Olps) \cup {Wake}

ASSUME SelectorAssumption ==
  /\ Listeners \subseteq Sockets /\ Secure \subseteq Sockets
  /\ Olps \subseteq {"recv", "send"}
  /\ Timeouts \subseteq Int
  /\ MaxWakeups \in Nat /\ MaxTicks \in Nat
  /\ \A t \in Timeouts : t <= MaxTicks

VARIABLES
  iocp,        \* _iocpHandle is open: the selector exists
  adpList,     \* _adpList: the sockets that exist
  actAdpList,  \* _actAdpList: the check list
  used,        \* sockets made so far (an address is not used again)
  handles,     \* sockets whose handle is open
  ready,       \* sockets for which detectEvent() would return an event
  noted,       \* structures whose oppType is not IO_OPP_NONE, of each socket
  posted,      \* structures the kernel holds an operation with, of each socket
  port,        \* the packets queued in the completion port, in order
  pc,          \* "user", or "wait": blocked in GetQueuedCompletionStatus()
  timeo,       \* the argument of the present wait()
  left,        \* dwTimeout
  since,       \* ticks since startWaitTime was read
  total,       \* ticks since wait() began to wait
  ret          \* what the last wait() returned

books  == <<adpList, actAdpList, used, handles>>
kernel == <<noted, posted, port>>
clock  == <<timeo, left, since, total>>
vars   == <<iocp, books, ready, kernel, pc, clock, ret>>

\* The values each variable may take.
TypeOK ==
  /\ iocp \in BOOLEAN
  /\ adpList \subseteq used /\ handles \subseteq used /\ used \subseteq Sockets
  /\ actAdpList \in Seq(Sockets)
  /\ ready \subseteq Sockets
  /\ noted \in [Sockets -> SUBSET Olps] /\ posted \in [Sockets -> SUBSET Olps]
  /\ port \in Seq(Packets)
  /\ pc \in {"user", "wait"}
  /\ timeo \in Int /\ left \in Nat /\ since \in 0..MaxTicks /\ total \in 0..MaxTicks
  /\ ret \in {"none", "SUCESS", "TIMEOUT", "WAKEUP", "ERROR"}

Init ==
  /\ iocp = TRUE
  /\ adpList = {} /\ actAdpList = <<>> /\ used = {} /\ handles = {}
  /\ ready = {} /\ port = <<>>
  /\ noted = [s \in Sockets |-> {}] /\ posted = [s \in Sockets |-> {}]
  /\ pc = "user" /\ timeo = 0 /\ left = 0 /\ since = 0 /\ total = 0
  /\ ret = "none"

-----------------------------------------------------------------------------
(* Faulty variants of the helpers below, to test the properties.            *)

RelistedInFront(list, s)  == <<s>> \o Dropped(list, {s})
RelistedTwice(list, s)    == Append(list, s)
UsedUpNever(elapsed)      == FALSE
RemainingOfWhole(elapsed) == left - total
RemainingUnchanged(elapsed) == left

-----------------------------------------------------------------------------
Listed == {actAdpList[i] : i \in DOMAIN actAdpList}

\* The structures of s that packets of q name; those that are under way.
QueuedOf(s, q) == {o \in Olps : \E i \in DOMAIN q : q[i] = <<s, o>>}
UnderWay(s, q) == posted[s] \cup QueuedOf(s, q)

\* IoSocketImpl::busy() goes by the notes.
Busy(s) == noted[s] # {}

\* list.remove(s), and what ctl() does: list.remove(s), list.push_back(s).
Without(list, s)  == Dropped(list, {s})
Relisted(list, s) == Append(Without(list, s), s)

\* A call or a handler of s, whose notes are n and while the port holds q, notes operations
\* and asks the kernel for them.  Only connect() does so over an operation already noted, and
\* the kernel takes none of a closed handle.  Bound: no second operation with a structure
\* whose first is under way (IoSocketImpl!Connect).
MayPost(s, n, q) ==
  \E asked \in SUBSET {o \in Olps : o \notin n \/ o = "send"} :
    /\ noted' = [noted EXCEPT ![s] = n \cup asked]
    /\ IF s \in handles
       THEN \E taken \in SUBSET (asked \ UnderWay(s, q)) :
              posted' = [posted EXCEPT ![s] = @ \cup taken]
       ELSE UNCHANGED posted

\* ... and may change what detectEvent() would say.
MayChange(s) == ready' \in {ready \cup {s}, ready \ {s}}

-----------------------------------------------------------------------------
(* The application's calls.                                                 *)

Calls == pc = "user" /\ iocp

\* socket(t): a new object, bound to the port.
Socket(s) ==
  /\ Calls /\ s \in Sockets \ used
  /\ adpList' = adpList \cup {s} /\ used' = used \cup {s} /\ handles' = handles \cup {s}
  /\ UNCHANGED <<iocp, actAdpList, ready, kernel, pc, clock, ret>>

\* accept(l): a listener that waits for no AcceptEx gives a new object and posts the next
\* one; one that still waits gives none.
Accept(l, s) ==
  /\ Calls /\ l \in Listeners \cap adpList /\ "recv" \notin noted[l] /\ s \in Sockets \ used
  /\ adpList' = adpList \cup {s} /\ used' = used \cup {s} /\ handles' = handles \cup {s}
  /\ MayPost(l, noted[l], port)
  /\ UNCHANGED <<iocp, actAdpList, ready, port, pc, clock, ret>>

\* connect(), listen(), send(), recv() or shutdown() of a socket.
Use(s) ==
  /\ Calls /\ s \in adpList
  /\ MayPost(s, noted[s], port) /\ MayChange(s)
  /\ UNCHANGED <<iocp, books, port, pc, clock, ret>>

\* ctl(s, ev): s goes to the end of the check list, from wherever it was in it.
Ctl(s) ==
  /\ Calls /\ s \in adpList
  /\ MayPost(s, noted[s], port) /\ MayChange(s)
  /\ actAdpList' = Relisted(actAdpList, s)
  /\ UNCHANGED <<iocp, adpList, used, handles, port, pc, clock, ret>>

\* close(s): closes the handle; the object goes once it is not busy.  A closed socket that
\* stays has an error to report, if its mask still lets it through.
Close(s) ==
  /\ Calls /\ s \in adpList
  /\ handles' = handles \ {s}
  /\ MayChange(s)
  /\ IF Busy(s) THEN UNCHANGED <<adpList, actAdpList>>
     ELSE adpList' = adpList \ {s} /\ actAdpList' = Without(actAdpList, s)
  /\ UNCHANGED <<iocp, used, kernel, pc, clock, ret>>

\* FreeIoSelector(): the port is closed with what it holds, and every object deleted,
\* whatever the kernel still does with it.
Free ==
  /\ Calls
  /\ iocp' = FALSE /\ port' = <<>>
  /\ adpList' = {} /\ actAdpList' = <<>> /\ handles' = {} /\ ready' = {}
  /\ UNCHANGED <<used, noted, posted, pc, clock, ret>>

\* wakeup(), from any thread.
Wakeup ==
  /\ iocp
  /\ Cardinality({i \in DOMAIN port : port[i] = Wake}) < MaxWakeups
  /\ port' = Append(port, Wake)
  /\ UNCHANGED <<iocp, books, ready, noted, posted, pc, clock, ret>>

-----------------------------------------------------------------------------
(* wait().                                                                  *)

\* The check list after its first n entries have been looked at.
Rest(n) == SubSeq(actAdpList, n + 1, Len(actAdpList))

\* The first listed socket with an event is reported, which may clear its mask (ONESHOT);
\* those before it are dropped.
WaitListed(n) ==
  /\ Calls
  /\ actAdpList[n] \in ready /\ \A i \in 1..(n - 1) : actAdpList[i] \notin ready
  /\ actAdpList' = Rest(n)
  /\ ready' \in {ready, ready \ {actAdpList[n]}}
  /\ ret' = "SUCESS"
  /\ UNCHANGED <<iocp, adpList, used, handles, kernel, pc, clock>>

\* None has: the list is empty now and wait() turns to the port.
WaitPort(t) ==
  /\ Calls
  /\ Listed \cap ready = {}
  /\ actAdpList' = <<>>
  /\ pc' = "wait" /\ ret' = "none"
  /\ timeo' = t /\ left' = IF t >= 0 THEN t ELSE 0
  /\ since' = 0 /\ total' = 0
  /\ UNCHANGED <<iocp, adpList, used, handles, ready, kernel>>

Wait == (\E n \in DOMAIN actAdpList : WaitListed(n)) \/ \E t \in Timeouts : WaitPort(t)

\* The remaining time after a packet without an event, and whether none is left.
UsedUp(elapsed)    == elapsed >= left
Remaining(elapsed) == left - elapsed

\* wait() returns; its variables are gone.
Return(r) ==
  /\ pc' = "user" /\ ret' = r
  /\ timeo' = 0 /\ left' = 0 /\ since' = 0 /\ total' = 0

Later(n) == IF n < MaxTicks THEN n + 1 ELSE n

\* A packet without an event: the elapsed time is taken off and the loop goes round.  A
\* tick may fall between this reading of the clock and that of the next round.
GoOn ==
  \/ /\ timeo < 0
     /\ since' = 0 /\ total' \in {total, Later(total)}
     /\ UNCHANGED <<pc, timeo, left, ret>>
  \/ /\ timeo >= 0 /\ UsedUp(since)
     /\ Return("TIMEOUT")
  \/ /\ timeo >= 0 /\ ~UsedUp(since)
     /\ left' = Remaining(since)
     /\ since' = 0 /\ total' \in {total, Later(total)}
     /\ UNCHANGED <<pc, timeo, ret>>

\* The first packet of the port belongs to structure o of socket s.  update() takes back the
\* note, may raise an event and may post the next operation; of a closed handle it only takes
\* back the note, unless the TLS engine runs.
TakePacket(s, o) ==
  LET handled == s \in handles \cup Secure IN
  /\ pc = "wait" /\ port # <<>> /\ Head(port) = <<s, o>>
  /\ port' = Tail(port)
  /\ \/ /\ handled
        /\ MayPost(s, noted[s] \ {o}, Tail(port)) /\ MayChange(s)
     \/ /\ ~handled
        /\ noted' = [noted EXCEPT ![s] = @ \ {o}]
        /\ UNCHANGED <<posted, ready>>
  /\ \/ handled /\ Return("SUCESS")
     \/ GoOn
  /\ UNCHANGED <<iocp, books>>

\* The wakeup packet ends the wait; a wait() that took it for a packet without an event
\* would go on.
WakeupIgnored == GoOn
OnWakeup      == Return("WAKEUP")

TakeWakeup ==
  /\ pc = "wait" /\ port # <<>> /\ Head(port) = Wake
  /\ port' = Tail(port)
  /\ OnWakeup
  /\ UNCHANGED <<iocp, books, ready, noted, posted>>

Take == TakeWakeup \/ \E s \in Sockets, o \in Olps : TakePacket(s, o)

\* GetQueuedCompletionStatus() has found no packet for dwTimeout.
Timeout ==
  /\ pc = "wait" /\ timeo >= 0 /\ port = <<>> /\ since >= left
  /\ Return("TIMEOUT")
  /\ UNCHANGED <<iocp, books, ready, kernel>>

\* ... or has failed for another reason.
Fault ==
  /\ pc = "wait"
  /\ Return("ERROR")
  /\ UNCHANGED <<iocp, books, ready, kernel>>

-----------------------------------------------------------------------------
(* The kernel and the clock.                                                *)

\* An operation ends and its packet is queued, if there is still a port.
Complete(s, o) ==
  /\ o \in posted[s]
  /\ posted' = [posted EXCEPT ![s] = @ \ {o}]
  /\ port' = IF iocp THEN Append(port, <<s, o>>) ELSE port
  /\ UNCHANGED <<iocp, books, ready, noted, pc, clock, ret>>

Tick ==
  /\ pc = "wait"
  /\ since' = Later(since) /\ total' = Later(total)
  /\ UNCHANGED <<iocp, books, ready, kernel, pc, timeo, left, ret>>

-----------------------------------------------------------------------------
Next ==
  \/ \E s \in Sockets : Socket(s) \/ Use(s) \/ Ctl(s) \/ Close(s)
  \/ \E s \in Sockets, o \in Olps : Complete(s, o)
  \/ \E l \in Listeners, s \in Sockets : Accept(l, s)
  \/ Free \/ Wakeup \/ Wait \/ Take \/ Timeout \/ Fault \/ Tick

Spec == Init /\ [][Next]_vars

\* The event loop calls wait() again and again; a blocked wait() takes what is queued and
\* ends when its time is up; the clock runs.  Nothing is assumed of the peers.
LiveSpec == Spec /\ WF_vars(Wait) /\ WF_vars(Take) /\ WF_vars(Timeout) /\ WF_vars(Tick)

-----------------------------------------------------------------------------
(* Properties.                                                              *)

\* No structure is named by two packets of q.
OneEach(q) == \A i, j \in DOMAIN q : q[i] = q[j] /\ q[i] # Wake => i = j

\* While the selector exists, each operation that the kernel holds or that the port has a
\* packet of is noted in its socket, and no structure is under way twice.
Noted ==
  iocp =>
    /\ \A s \in Sockets :
         UnderWay(s, port) \subseteq noted[s] /\ posted[s] \cap QueuedOf(s, port) = {}
    /\ OneEach(port)

\* close() deletes a socket only when neither the kernel nor the port refers to it, as the
\* comment at IoSelectorImpl.cpp:163 demands: the notes it goes by tell the truth.
DeletesIdle      == iocp' => \A s \in adpList \ adpList' : UnderWay(s, port) = {}
CloseDeletesIdle == [][DeletesIdle]_vars

\* wait() asks only sockets that exist whether they have an event, and each of them once: the
\* check list is cleared of a socket before ctl() adds it again and before close() deletes it.
CheckListSound ==
  \A i \in DOMAIN actAdpList :
    /\ actAdpList[i] \in adpList
    /\ \A j \in DOMAIN actAdpList : actAdpList[i] = actAdpList[j] => i = j

\* A timed wait() never says TIMEOUT before the whole time has passed, however many packets
\* without an event it took meanwhile; an endless one never says it.
TimeoutIsDue ==
  [][ret' # ret /\ ret' = "TIMEOUT" => timeo >= 0 /\ total >= timeo]_vars

\* ... and it ends, even if packets without an event keep coming.
TimedWaitEnds == pc = "wait" /\ timeo >= 0 ~> pc = "user"

\* Every socket put on the check list is looked at, whatever is done with the others, unless
\* ctl() puts it back to the end of it for ever: the list is first in, first out.
ListedIsExamined ==
  \A s \in Sockets : (s \in Listed ~> s \notin Listed) \/ []<><<Ctl(s)>>_vars

\* wakeup() makes the wait() being called return (IoSelector.h:119), even if the packet
\* queues behind others.
WakeupEndsWait == (pc = "wait" /\ \E i \in DOMAIN port : port[i] = Wake) ~> pc = "user"

=============================================================================
