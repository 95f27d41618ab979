# IOCP_SSL_Demo in TLA+

`src/IOCP_SSL_Demo` wraps the Windows I/O completion ports in an interface like epoll's: an
`IoSelector` creates `IoSocket` objects, `ctl()` says which events the application wants and
`wait()` returns one ready socket at a time.  Underneath, every read, write, connect and accept
is an overlapped operation that the kernel performs on the object's own buffers while the
application goes on.  The difficulty is there: the same two buffers, four positions and two
operation types are changed by the application's calls, by the completion handlers that `wait()`
runs, and by the kernel, and the object may only be deleted when none of them needs it.

## 1. Inventory

| Component | State | Operations | Interacts with |
|---|---|---|---|
| `IoSocketImpl`, stream (IoSocketImpl.cpp) | `_s`, `_status`, `_evMask`, `_shutdownFlag`, `_lastError`, `_sendOlp`, `_recvOlp` (operation type, buffer, `ipos`, `upos`, `et`) | `connect`, `send`, `recv`, `shutdown`, `ctl`, `closesocket`; `onConnect`, `onSend`, `onRecv`, `onUpdate`; `onDetectEvent`, `maskEvent` | the kernel (posted operations), the selector (`update`, `detectEvent`), the application |
| `IoSocketImpl`, listener | the same and `_newSock`, `_acceptBuf` | `listen`, `accept`, `postAccept`, `onAccept` | the kernel (`AcceptEx`), the selector's `accept()` |
| `IoSelectorImpl` | the port, `_adpList` (all sockets), `_actAdpList` (the check list), `_sslCtx` | `socket`, `accept`, `close`, `ctl`, `wait`, `wakeup`, destructor | all sockets, the port |
| `IoSocketSSLImpl` | `_ssl`, `_handshaked`, `_sslShutdownFlag`, `_canRecv`, `_canSend` | `recv`, `send`, `shutdown`, `update`, `sslHandshake`, `sslShutdown`, the BIO callbacks | OpenSSL above, `IoSocketImpl::recv/send` below |
| `Url` | the parts of a URL | `_parse` (with `find`, `bisect`), assignment, `encode`, `decode` | none |
| `main()` | its loop | one download | all of the above |
| `IoSelector.cpp` | none | library start-up and clean-up | Winsock, OpenSSL |

Everything in the process runs in one thread ("单线程使用 selector", IoSelector.h:18), except `wakeup()`, so the
application's calls and the completion handlers never overlap.  The concurrency is with the
kernel and the peer, which act between any two calls and while the thread is blocked in `wait()`.

What is hard, and where, is listed line by line under `hazards` in PROJECT.json.  In short:

* a completion arrives between any two calls; the positions the handlers and the calls use must
  agree at each of these moments, also after a partial send;
* readiness has three sources (the check list that `ctl()` fills, the completion handlers, the
  edge flags) and must neither be lost nor invented;
* `closesocket()`, `shutdown()`, a broken connection and an error met by a call race with
  operations under way;
* a post that fails at once gives no packet;
* `wait()` serves several sockets from one list and one queue and must still end on time;
* a TLS call is many reads and writes of the socket below, of which any may have to wait, and the
  events of that socket are not those the application is to see;
* on a listener `_newSock` is both the socket `AcceptEx` will fill and the connection nobody has
  taken yet.

What makes each component correct: a stream delivers each direction's bytes exactly once and in
order, keeps away from the kernel's bytes, always has the operation under way that its progress
needs, and reports readiness; a listener hands out each client once and leaks no socket; the
selector reports what is ready, keeps every socket alive as long as it must and ends a wait on
time; the TLS layer completes its handshake whatever the sizes of the pieces that arrive.

## 2. Modules

| Module | Models | Notes |
|---|---|---|
| `IoSocketImpl` | one connection: the object, `IoSelectorImpl`'s `ctl`, `close` and `wait` as this socket sees them, the kernel, the peer, the application | starts unconnected, or connected as `accept()` makes it |
| `BytePipe` | what one direction of a connection promises: a bounded pipe of bytes that may break | abstract; `IoSocketImpl` implements it twice |
| `IoListener` | one listening socket: `listen`, `accept` with `IoSelectorImpl::accept()`, `ctl`, `close`, `wait`, `onAccept`, the backlog and the clients | |
| `ClientQueue` | what a listener promises: a queue that settles each client, served or gone, once and in order | abstract; `IoListener` implements it |
| `IoSelectorImpl` | the selector with several sockets: both lists, the port, the remaining time of `wait()`, `wakeup()`, `close()`, the destructor | a socket is reduced to its handle, its notes of operations, the operations themselves and whether it has an event |
| `IoSocketSSLImpl` | a TLS socket: the BIO callbacks over the socket below, the OpenSSL engine, the handshake that `update()` drives, the TLS shutdown | the byte contents are `IoSocketImpl`'s business: here fragments are counted |
| `Url` | `_parse()` turn by turn, the assignment of a string, `encode()` and `decode()` | sequential |
| `Demo` | `main()` from `connect()` to `FreeIoSelector()`, as the application of `IoSocketImpl` | extends it and uses its actions |
| `Lists` | removal from a list, for the selector's check list and the blanks of a URL | one operator, with a recursive function that the prover can look into |
| `*Proofs` | the theorems | section 5 |
| `MC*` | the masks, flights, texts and so on of the runs | |

### How the state and the actions correspond to the code

`sendOlp` and `recvOlp` are the two `IOCPOVERLAPPED` structures: `opp` is `oppType`, `ipos`, `upos`
and `et` keep their names; `sendBuf` and `recvBuf` are the memory they point to.  `sendIo` and
`recvIo` are what the kernel knows: no operation, one in flight, or one done whose packet (`ok`,
`n`) is still in the port.  `listed` is membership of `_actAdpList`, `alive` of `_adpList`.  `pc`
says whether the thread is in the application's code or blocked in `GetQueuedCompletionStatus`.

One action stands for one call or one handler with everything it calls: `Send` is `send()` with
its `postSend()`; `OnSend` is one turn of `wait()`'s loop from the packet to `maskEvent()` and the
decision to return (`Resume`).  The post functions are operators, `PostSend` and `PostRecv`, that
their callers apply to the structure they have just changed.  The `k`-th byte of each direction is
the number `k`: a byte lost, repeated, reordered or overwritten then shows in `wire` (what the
peer got) or `got` (what `recv()` returned).

Abstractions:

* the release build is modelled: an `assert` has no effect (several can fail, see section 4);
* error codes are classes ("EAGAIN", "ESHUTDOWN", "FAILED"); addresses are left out;
* in the modules of a single socket the port returns its packets in either order (it holds at most
  two), and a timed wait may end at any packet without events: `IoSelectorImpl` has the order and
  the time;
* `IO_EVENT_TIMEOUT`, `transfered` and the user pointer have no effect on anything modelled.

In `IoSelectorImpl`, `noted[s]` are the structures of `s` whose `oppType` is set, which is all that
`busy()`, and so `close()`, goes by; `posted[s]` are those the kernel really holds, and `port` the queue.
The two are kept apart because they differ in the code: a post that fails at once leaves its note, and
`connect()` may set one over an operation under way.  `ready` are the sockets whose `detectEvent()` would
return something; any call or handler may change what a socket is ready for, and may note and post
operations, which covers what the detailed modules do.  A closed handle raises an event only for the
sockets of `Secure`, whose engine runs for its packets too.  `wait()` may also fail (`Fault`).  An address
is not used again, and (a bound) the kernel is given no second operation with a structure whose first is
under way.  `since` is `GetTickCount64() - startWaitTime` and `total` the time since `wait()` was called;
a tick may fall between the two readings of the clock.

In `IoListener`, `listen()` may be called again, whatever the status; of a closed handle it fails and
leaves the status alone, as bind or listen of an invalid socket does.  `accept()` before the first
`AcceptEx` is left out: the address buffer it reads does not exist then.

In `IoSocketSSLImpl`, `Script` is the order in which OpenSSL writes ("w") and reads ("r") the records
of a handshake, and one step of the engine is one BIO call, so that the kernel acts in between.  The
function returns when it has what it was asked for or a BIO call says "retry".  What OpenSSL
answers - WANT_READ, WANT_WRITE, ZERO_RETURN after the peer's close_notify or after
`SSL_set_shutdown()`, a fatal error when a BIO call fails - is external, taken from how the code
treats it.  `canRecv`, `canSend`, `handshaked` and `sslShutdownFlag` keep their names.

In `Url` a text is a sequence of tokens, so that a scheme name is one element; positions are those of
the code.  One action is one turn of the loop in `_parse()`.

The kernel's answers come from what the code and its comments say of them: a synchronous failure
queues no packet, a send reports from one byte to all the bytes submitted, a closed handle ends
its operations with an error, a peer that closes ends a read with success and no byte.

The calls test no state that the code does not test: in `IoSocketImpl` and `IoListener` the application
may make any call at any time, on a socket that is unconnected, connecting, broken or closed.  The one
bound is that `connect()` is not called while the packet of a failed attempt is queued, which would put a
second packet of the same structure into the port.  `AppRules` restricts the application where a property needs
it, and a run or a theorem without a rule has none:

* `"connect"`: `connect()` is called on an unconnected socket, and not again before `wait()` has taken the
  result.  The code does not see to it (section 4), and what goes out depends on it;
* `"header"` (IoSocketImpl.h:44-52): an unconnected socket is only connected, a closed one left alone; the
  rule forbids `send()`, `recv()`, `shutdown()` and `ctl(IO_EVENT_IN)` before the connection, `ctl(IO_EVENT_IN)`
  after the receiving side is shut down, and `shutdown()` outside the usable states;
* `"drain"` is the loop at IOCP_SSL_Demo.cpp:125: read until empty before waiting again;
* `"arm"`, for a listener: the order listen, ctl, wait, accept;
* `"polite"`, for TLS, joins header and drain.

`IoSocketSSLImpl` differs: its application always calls `connect()` on an unconnected socket only, `recv()` and
`send()` only after that, and nothing but `close()` on a closed handle.  Those calls belong to the socket below, and
`IoSocketImpl` has them.

The definitions under "Faulty variants" are plausible mistakes in a helper; no action uses them.
They document which property notices which mistake.

## 3. Runs

State counts are distinct states.

| Run | Checks | Instance | Shows |
|---|---|---|---|
| `stream` (1.69 M) | `TypeOK`, `NoInboundLoss`, `NoOutboundLoss`, `DeletedIsIdle`, `KernelOwnsRegion`, `DrainReportIsTrue`, `InboundIsPipe`, `OutboundIsPipe` | rule connect and no other, 3 bytes each way, resets, failing posts, ET and ONESHOT masks | two lossless pipes and a safe object lifetime, also when `send()` comes before or during `connect()` and calls follow `close()`; the end of the data is reported only when everything is out |
| `usable` (0.72 M) | `NeverStranded`, `EmptiedIsReading`, `UnreadIsReported`, `NegativeIsFinal` | rules connect, header and drain, masks with and without ET and ONESHOT, a peer that closes or resets | the operation needed for progress is always under way, unread bytes are reported, a dead socket stays dead |
| `live` (0.15 M) | `FlushedEventually`, `RoomReported`, `DrainReported`, `CloseCompletes` | `LiveSpec`, ET mask, rules connect and header | progress and notifications |
| `listener` (0.16 M) | `TypeOK`, `AcceptedInOrder`, `NoSocketLeaked`, `QueueImplemented` | no rule, 3 clients, resets, both kinds of failing `AcceptEx`, calls on a closed or broken listener | a queue: every client once and in order, no socket leaked |
| `serving` (2.4 k) | `NotBrokenByCtl`, `EveryClientServed` | `LiveSpec` of the listener, rule arm | a disciplined server reaches every client |
| `selector` (35 k) | `TypeOK`, `CheckListSound`, `TimeoutIsDue`, `TimedWaitEnds`, `ListedIsExamined`, `WakeupEndsWait` | `LiveSpec`, no rule, a listener and a TLS socket, one structure each, endless and timed waits, a wakeup from outside | the check list holds a socket once, also one listed again while it is listed, and no deleted one; `wait()` ends on time and never early, examines every listed socket, and hears a wakeup |
| `ssl` (0.18 M) | `TypeOK`, `DeletedIsIdle`, `NoFragmentLost`, `HandshakeNeverStalls`, `HandshakeCompletes`, `DataDelivered` | `LiveSpec`, both roles, handshakes of three and of four records, data and close_notify after it, shutdown and close at any time, a peer that ends or resets | no fragment is lost or read twice on its way to the engine, the TLS layer always has under way what its engine waits for, the handshake completes, data arrives |
| `url` (0.12 M) | `TypeOK`, `BuiltIsParsed`, `LocateRejoins`, `EncodeDecodable` | every text of up to five tokens, every combination of parts and one assignment over another, byte strings up to four | the parser finds the parts, forgets the old ones and loses nothing; `encode()` is faithful |
| `demo` (2.1 k) | `DownloadEnds`, `ResponseRead` | a request of two strings, a response of three bytes, a buffer of main() smaller than the socket's | the download reads every byte that was delivered to the socket, and ends |
| `v_*` | one property each | smallest instance that shows it | section 4 |

Bounds.  Stream: buffers have two places, so that "empty", "partly full" and "full", partial
sends, moves of the rest and a second buffer full of data all occur with 2 or 3 bytes each way; the
theorems of section 5 hold for all sizes.  Selector: two sockets are enough for one to wait behind
another, and two ticks let a timeout of two be used up in pieces; `selector` gives a socket one structure,
since neither the check list nor the time of `wait()` depends on which structure a packet names; the
theorems have both.  TLS: a record has two fragments and a buffer three, so that a record arrives in
pieces, two records share a buffer, and the two records a server writes in a row do not fit the
send buffer.  Url: five tokens
place every delimiter at the start, in the middle and at the end; the parts contain one another's
delimiters as far as the form at Url.cpp:230 allows (`PartsOK`).

`InboundIsPipe`, `OutboundIsPipe` and `QueueImplemented` are refinements: `put` and `out` of a pipe are
`sent` and `wire` (or `inCount` and `got`), `up` is "the handle is open and the connection not reset"; the
queue's `settled` clients are those whose `AcceptEx` has been answered for.  Everything between -
positions, `memmove`, structures, packets - maps to stuttering steps.

Deadlock is not checked: an application may have nothing left to do (the object is deleted), or
wait without a timeout for a peer that stays silent; `Url` stops when the text is parsed.

`UnreadIsReported` leaves out the edge-triggered application before its first `recv()` (section 4), and
the run `usable` an application that follows `shutdown(SD_BOTH)` by `shutdown(SD_SEND)`: the flag is replaced
(IoSocketImpl.cpp:300), the receiving side counts as open again, and what came meanwhile is not
reported.

### Fairness

`LiveSpec` of `IoSocketImpl` assumes: the event loop keeps calling `wait()`, and infinitely often
with nothing on the check list (`wait()` serves the check list first and returns, so an
application that re-arms a ready socket before each `wait()` never reaches the port);
`wait()` takes a packet that is queued, which is what `GetQueuedCompletionStatus` does; the kernel
finishes connecting, sending, and the reads whose end is decided; data from the peer is not
assumed; an application told by `close()` that the socket is busy tries again and, until then,
waits with a timeout.  Timeouts are not fair while the handle is open, so the reports are
not owed to polling.  The strong fairness is needed where the action is disabled while the thread
is blocked.  For the listener: it keeps waiting, re-arms a mask without IO_EVENT_IN, and answers
that event by `accept()`.

The selector's `LiveSpec` assumes that the loop calls `wait()`, that a blocked wait takes what is
queued and notices that its time is up, and that the clock runs; nothing of peers or sockets.  TLS
assumes what `IoSocketImpl` does, that an OpenSSL function runs to its end, that the peer is a TLS peer
which sends what the handshake owes, and that an application told of an event, or whose last
`recv()` succeeded, reads again.  `Demo` assumes only that `main()` runs on, that `wait()` takes packets
and that the kernel finishes what it can without the server.

## 4. Where the code and its documents disagree

Three have a run: it states what a comment says, and TLC finds the code's counterexample.

* `v_safe_to_close` - after `shutdown()` and `ctl()` the check list says "all data sent" (the
  comment at IoSocketImpl.cpp:744) while the send is in flight, because `ipos == upos` also holds
  for data just submitted.
* `v_ssl_hangup` - a peer that closes during the handshake is not reported (IoSelector.h:80): the
  HANGUP is replaced by the event of the handshake, which is none, the engine's next read posts
  the next WSARecv, that ends the same way, and `wait()` goes round for ever.
* `v_url_decode` - `decode()` moves on by two before it reads the two digits (Url.cpp:473-477) and so
  converts the wrong bytes; what `encode()` escaped comes back only where these happen to spell the same
  (Url.h:56).

Others follow from a few lines of the code, and are described here instead.

* With IO_EVENT_ET the first arrival is not reported: `et` starts false and only `recv()` sets it
  (IoSocketImpl.cpp:868).  ReadMe.txt:106 says the `recv()` that used to follow `accept()` is no longer needed.
* After `send()` has failed locally the next `wait()` may block instead of returning the error
  (comment at IoSocketImpl.cpp:604).
* The comment at IoSocketImpl.cpp:408 announces a lock against a second `connect()`; there is none, nor a test.
  `connect()` during a send makes the operation a CONNECT (line 441): its packet goes to `onConnect()`, and what
  a partial send left is lost (hence the rule "connect").
* `close()` deletes an object only once it has no operation under way (IoSelectorImpl.cpp:163); the destructor
  of the selector deletes all of them (line 35), and `main()` reaches it with a socket that `close()` found busy.
* `send()` while `connect()` is under way only fills the buffer, and nothing posts these bytes when the
  connection is made, until the next `send()`; before `connect()` it fails and breaks the socket (the run
  `stream` includes both; `NeverStranded` needs the rule header).
* When the last operation of a closed socket comes back no event prompts the application (comment at
  IoSocketImpl.cpp:989): with an infinite timeout it waits for ever.
* A WSAECONNRESET that `AcceptEx` returns at once is taken for a success; no packet comes and the
  listener stays deaf (comment at IoSocketImpl.cpp:248).
* After a client that reset, `accept()` returns a fresh unconnected socket (comments at
  IoSocketImpl.cpp:728 and :784).
* Without the rule "header", `ctl(IO_EVENT_IN)` before the connection is made marks the socket BROKEN
  and `onConnect()` later sets it CONNECTED (IoSocketImpl.h:52 says a negative status is final).
* Without IO_EVENT_ET a socket whose buffer is left partly read is not reported again, unlike
  level-triggered epoll (hence "drain").
* `ctl(IO_EVENT_IN)` between the completion of an `AcceptEx` and the `accept()` that answers it posts a
  WSARecv on the listening socket and breaks it (hence "arm" and `NotBrokenByCtl`).
* A post that fails at once leaves the operation type set, so `close()` never deletes the object.  A
  TLS socket closed during its handshake gets there by itself: the packet that comes back drives the
  engine, whose read on the closed handle fails.
* The check list goes before the port, so an application that re-arms a ready socket before every
  `wait()` never takes a packet, nor a wakeup.  `wait(0)` returns IO_WAIT_TIMEOUT after one packet
  without an event, though more are queued.
* TLS: data that arrives with the last flight is not reported to an application that asks for
  IO_EVENT_IN alone (`DataDelivered` is about both events); after `shutdown(SD_SEND)` `recv()` says the
  peer has closed; a `recv()` before the handshake is over may finish it, and the assertion at
  IoSocketSSLImpl.cpp:329 fails at the next packet.
* Url: a text without "://" that ends in ":" or ":/" makes `find()` return 0 (Url.cpp:117) and is
  parsed as if its scheme ended there; `operator bool` is true for an unknown scheme only
  (Url.cpp:192, against Url.h:64); blanks inside the text go too, though the comment at Url.cpp:233
  speaks of both ends; a '?' in a fragment is taken for a query; `encode()` leaves '%' as it is;
  `locate()` is empty when the path is the default "/", and `main()` then asks for "GET  HTTP/1.1".
* `main()`: a WSARecv that fails at once inside `recv()`, or a `connect()` that fails at once, raises no
  event and leaves it in `wait()`; a request that does not fit the send buffer is cut; the selector is
  freed with the socket's operations under way if `close()` found it busy.  The response is printed by
  `std::cout << buf` (IOCP_SSL_Demo.cpp:135), which stops at a zero byte, into a file in text mode (line 76):
  `ResponseRead` is about what `recv()` returns, not about what is printed.

## 5. Theorems

Assumptions are only those of the ASSUMEs: positive buffer sizes, natural bounds, masks from the
defined events, texts over a set of tokens that has the delimiters, and for the parts a text is
written from the form at Url.cpp:230, with a delimiter only where it ends a part (`PartsAssumption`).
Rules are values of `AppRules` and are assumed only where a theorem says so.  Every invariant named
here was first checked by TLC on the instances of section 3.

### The stream socket (`IoSocketImplProofs`)

    TypeCorrect         Spec => []TypeOK
    SocketCorrect       Spec => []SocketInv
    ReadCorrect         Spec => []ReadInOrder
    InboundKept         Spec => []NoInboundLoss
    DeletionIsSafe      Spec => []DeletedIsIdle
    MarkCorrect         Spec => []OutstandingIsMarked
    KernelOwnership     Spec => KernelOwnsRegion
    InboundCorrect      Spec => InboundIsPipe
    WireCorrect         "connect":  Spec => []WireInOrder
    OutboundKept        "connect":  Spec => []NoOutboundLoss
    DrainReportCorrect  "connect":  Spec => DrainReportIsTrue
    OutboundCorrect     "connect":  Spec => OutboundIsPipe

The first eight hold of every application, one that calls `connect()` during a send or after `close()`
included.  The last four suppose the rule "connect" (`ConnectsOnce`): without it `connect()` during a partial
send loses bytes (section 4).

`WireInOrder` is not inductive: that the next byte on the wire is the right one depends on what
the buffer holds, which depends on `postSend()` having dropped exactly the bytes that went out.
`SocketInv` is `SendInv /\ RecvInv /\ LifeInv`, inductive together with `TypeOK`:

* `SendInv` - a structure with an operation in flight is marked, a packet counts no more than was
  submitted, a full buffer has armed the edge; and, with the rule "connect", place `i` of the send buffer holds
  accepted byte number "bytes on the wire, less those of a packet not taken yet, plus `i`" while the
  connection lives (`SendContent`);
* `RecvInv` - the same for unread and undelivered bytes, and a read under way implies both positions are 0;
* `LifeInv` - a closed handle is not DISCONNECT any more, a deleted object is closed, off the check list and has
  no operation type set; and, with the rule "connect", what an attempt to connect may be found in (`AttemptInv`).

The steps are split by component of the state: `SendStep`, `RecvStep`, `LifeStep` and `SockTypes` have
one case per action, and the post functions have lemmas of their own (`PostSendShape`,
`PostRecvShape`) that say in which of their outcomes they end.

`InboundCorrect` and `OutboundCorrect` are the refinements.  Each action that changes `sent`, `wire`, `inCount` or
`got` is a `Put` or a `Take` of one pipe, or its `Fail`; the invariant gives the two facts that need it, that the
bytes between `out` and `put` fit the buffer, and that those which move are the next ones.

### The stream socket in use (`IoSocketUsableProofs`)

    NegativeFinal    Header, "connect"  =>  (Spec => NegativeIsFinal)
    NothingStranded  Header, "connect"  =>  (Spec => []NeverStranded)
    EmptiedReads     Header, "connect"  =>  (Spec => []EmptiedIsReading)
    UnreadReported   Header, "connect", "drain", NeverReopened  =>  (Spec => []UnreadIsReported)

`Header` is the rule of IoSocketImpl.h:44-52; without it the first three are false (section 4).
`UsableInv` strengthens them, given `SocketInv`: `Untouched` (before the connection is made only ConnectEx
is under way, afterwards it is not, so no late completion revives the socket), `Sending` and
`Reading` (on a usable socket a marked structure really has its operation, since a post that fails
breaks the socket; what must be under way is marked).  The lemmas `PostSendUsable` and
`PostRecvUsable` say it of the post functions, which all paths go through.  `ReportInv` adds what a
report depends on: once `recv()` was called an emptied buffer has its edge armed (`EdgeArmed`), and
unread bytes the application wants are on the check list, in the event it was just told, or half
read (`Told`).  `NeverReopened` excludes the second `shutdown()` described in section 3.

### The download client (`DemoProofs`)

    MainKeepsRules     DemoSpec => [][Free \/ Ruled!Next]_demoVars
    MainServed         DemoSpec => [](NeverStranded /\ EmptiedIsReading /\ UnreadIsReported)
    MainNegativeFinal  DemoSpec => NegativeIsFinal
    MainInOrder        DemoSpec => [](WireInOrder /\ ReadInOrder)

The theorems of the section before assume an application that keeps rules; these show that the
repository's own application keeps them, whatever the strings, the response, the buffers and the
posts that fail at once.  `Ruled` is the same socket with the rules connect, header and drain, the masks of
`main()` and no `shutdown()`; it instantiates `IoSocketUsableProofs`, whose lemmas then serve as the guarantee.
The actions of both are the same formulas (`SameActions`); that the guards of the rules hold is the
invariant `MainInv` of the program's places:

* `Heard` - told of room or data, the socket has been connected, so ctl(IO_EVENT_IN) comes after the
  connection (header); told of room, it still asks for room, so the request is sent once;
* `Emptied` - it comes back to `wait()` with an empty buffer (drain): the last `recv()` returned 0;
* `OneGo` - while the request is being sent nothing leaves the buffer, so that what was accepted is what
  lies in it, and no more than SEND_BUF_LEN: this replaces the bound `MaxOut`, and says that a longer
  request is cut (section 4).  `SendByAccepted` and `RecvByHanded` show that lengths beyond the buffers
  make no difference, since `main()` passes any.

`MainInv` depends on the socket's invariant and the other way round: each step uses both before it, and
`DemoInv` joins them.  `FreeIoSelector()` ends the guarantee, for it deletes a socket with operations
under way; the order of the streams survives it.  `DemoInv` was checked by TLC on the instance of `demo`, on
one with failing posts and finite waits, and with strings that do not fit the buffer.

### The listener (`IoListenerProofs`)

    ListenerTypes        Spec => []TypeOK
    ListenerCorrect      Spec => []ListenerInv
    AcceptKeepsOrder     Spec => []AcceptedInOrder
    AcceptKeepsClients   Spec => []NoClientLost
    AcceptLeaksNothing   Spec => []NoSocketLeaked
    ListenerDeletedIdle  Spec => []DeletedIsIdle
    CtlShielded          "arm"  =>  (Spec => NotBrokenByCtl)
    QueueCorrect         Spec => QueueImplemented

That no client is lost depends on what `_newSock` holds when `AcceptEx` completes, and that on the
phase of the operation.  `ListenerInv` says both: `AcceptPhase` (an AcceptEx under way fills a
socket without a connection; an open listener without one holds a connection or nothing),
`NumbersUsed` (only clients that have left the backlog are held or returned, so the next one is
new) and `DeadIsBare` (a deleted listener has nothing left).  One lemma per action shows that it is
preserved; steps that leave `_newSock` and the backlog alone share `HeldStep`.  `TypeOK` needs it too:
that the sockets closed never outnumber those made follows from `NoSocketLeaked`.  `CtlShielded` needs
`ArmedInv`: an open listener has an AcceptEx under way unless its application has just been told to
call `accept()`, and never waits without having asked for IO_EVENT_IN.  `QueueCorrect` is the
refinement of `ClientQueue`: a completed AcceptEx settles the next client, everything else stutters.
`AcceptKeepsClients` (what `QueueImplemented` says of a client, put directly) and `ListenerDeletedIdle` are
parts of the invariant, and no run repeats them.

### The selector (`IoSelectorImplProofs`, `ListsProofs`)

    SelectorTypeCorrect  Spec => []TypeOK
    CheckListCorrect     Spec => []CheckListSound
    TimeoutCorrect       Spec => TimeoutIsDue
    NotesCorrect         Spec => []Noted
    CloseCorrect         Spec => CloseDeletesIdle
    DroppedFacts         what Dropped(list, S) has, for every list

`TimeoutIsDue` needs the invariant `ClockAdds`: while a timed `wait()` is blocked, at least
`(timeo - left) + since` ticks have passed, or as many as the clock of the model counts.  Each round's
subtraction keeps it, and a tick between two readings of the clock only adds to what has passed.
`CloseDeletesIdle` is what the comment at IoSelectorImpl.cpp:163 asks of `close()`.  `close()` does not know it: it
goes by the notes, so that it is right only if every operation the kernel holds and every packet of the port
has its note (`Noted`).  That survives a handler which takes its own note back only because no structure is
under way twice, the second half of `Noted`.  The destructor goes by nothing (section 4); after it `Noted` claims
nothing.

`CheckListSound` and the types are one invariant, `BooksInv`: a call removes a socket from the check list
before it adds it or deletes the object, and `wait()` cuts the list at the front.  What a removal
leaves is `DroppedFacts`.  Its proof is an induction over the list, written in first-order form: if the
claim failed for some beginning of the list, there would be a shortest such one (`LeastMember`, from
the well-foundedness of `<`), and the step to it from the one before is contradictory.  That the
recursion has a solution at all is shown in the same way (`KeptExists`).

### The TLS socket (`IoSocketSSLImplProofs`)

    TlsTypeCorrect       Spec => []TypeOK
    NothingLost          Spec => []NoFragmentLost
    TlsDeletionIsSafe    Spec => []DeletedIsIdle
    HandshakeCorrect     "polite", a server that reads first: Spec => []HandshakeNeverStalls

The engine may post operations on behalf of any packet, also one of a closed handle; the invariant
is that an operation the kernel or the port holds is marked in its structure, and that a deleted
object is closed, with both structures free and no engine call under way.

`HandshakeNeverStalls` speaks of the moments when `wait()` is blocked; `HandshakeInv` extends it to every
state, for every script of flights, record and buffer size:

* `Counts` - positions and fragments stay within the record and the buffers;
* `Unconnected` - before `ConnectEx` has succeeded nothing is read or written, which the rule "polite"
  ensures;
* `Posted` - on a usable socket a marked structure has an operation, since posting fails only without
  a connection, and fragments in the send buffer have a send under way;
* `Parked` - an engine that no SSL function works for wants to read from an empty buffer, for which
  `recv()` has posted the next read, or to write while a send is under way; only a server that was never
  asked for IO_EVENT_IN has no read yet.

The proof follows the packet: a completion that leaves the socket usable runs the handshake again
(`AfterUpdateLeaves`), and the engine stops only in a BIO call that moves nothing (`EngineHandshake`).
That the handshake then ends (`HandshakeCompletes`) is liveness, and checked in `ssl`.

`TlsTypeCorrect` and `NothingLost` hold of every application.  Their invariant `StreamInv` counts: each
fragment delivered is in a record the engine has read, in the buffer, or in the packet queued
(`Fragments`), which needs that a read is posted on an empty buffer only and that an operation in
flight has moved nothing (`RecvSide`), and bounds what the engine has read by what the peer sends
(`Progress`).

### Url (`UrlProofs`)

    UrlTypeCorrect  Spec => []TypeOK
    LocateCorrect   Spec => []LocateRejoins
    EncodeCorrect   Spec => []EncodeDecodable
    BuiltCorrect    Spec => []BuiltIsParsed

For texts, parts and byte strings of any length.  `ParserInv` follows the turns of `_parse()`: `LoopOK` says
where the loop is and that the query and the fragment start at the delimiter that ended what was
before (the assertions at Url.cpp:354 and :361 are part of `TypeOK`); `Located` says that after each turn
the locate is what has been found of it, with the delimiters, and what is left of the text
(`PathFound`, `QueryFound`, `AllFound`).  `FindOne` and `FindSep` say what `find()` returns for one character and
for "://", the premature 0 included.  For `encode()` the invariant is that the output so far means the input
read so far; `MeaningGrows` shows that one more escaped byte on the right adds this byte to the
meaning, although the meaning is read from the left: an induction over the text, in the
first-order form above.

`BuiltCorrect` is the converse of `LocateRejoins`: a text written from parts is taken apart into the
same parts, whatever the object held before.  The proof has three layers:

* where things stand: `Layout` gives each part as a span of the text (`Places`), and
  `DroppedAround` shows that dropping the blanks leaves exactly what was written between them;
* where `find()` stops: `FindsAt` at the first occurrence of a delimiter that a span is free of, and
  `SepFound` and `NoSepFound` for "://"; each part then has a lemma that its turn finds it (`SchemeFound`,
  `UserFound`, `HostFound`, `LocateFound`, `PathEnds`, `QueryEnds`);
* the invariant `Built`: after each turn the members found so far are the parts, the others are as
  cleared, and the next turn starts where the next part does (`Progress`).  The turns that the loop
  leaves out because the text has ended are accounted for in `Parsed`, with the defaults of the absent
  parts.

`PartsOK` is needed: in a text without a scheme whose query contains "://" all that is before it is taken
for the scheme.

### Model-checked only

* Liveness (`live`, `EveryClientServed` of `serving`, `TimedWaitEnds`, `ListedIsExamined` and `WakeupEndsWait`, the
  handshake's end and `DataDelivered`, `main()`): fairness and `ENABLED` are beyond the prover.
* The three runs of section 4, which are counterexamples.

## 6. Not modelled, and what could follow

Not modelled: `bind`, `getsockname`, `getpeername`, `getopt`, `setopt`, the user pointer and the accessors,
which only pass values through; the OpenSSL context and method table; `resolve()`, the output file and
the start-up of the libraries; copying and comparing `Url` objects; `send()`, `recv()` and `shutdown()` of
a listening socket.

1. `main()` over a TLS socket: `Demo` extends `IoSocketImpl`; the same loop over `IoSocketSSLImpl` would
   show what an IN-only application misses after the handshake.
2. A refinement from the lower part of `IoSocketSSLImpl` to `IoSocketImpl`, with the counts of
   fragments as the positions, in place of the present correspondence by reading.
3. A proof of the refinement of item 2.
