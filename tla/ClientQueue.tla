----------------------------- MODULE ClientQueue -----------------------------
(***************************************************************************)
(* What a listener promises its clients, whatever operations and sockets   *)
(* stand behind it: they are settled in the order they connect, each by    *)
(* being served once or because it has gone away.                          *)
(***************************************************************************)
EXTENDS Integers

VARIABLES
  up,       \* the listener exists
  arrived,  \* clients 1..arrived have connected
  settled,  \* clients 1..settled have been settled:
  served,   \* these by being served,
  gone      \* these because they went away first

queue == <<up, arrived, settled, served, gone>>

Init == up = TRUE /\ arrived = 0 /\ settled = 0 /\ served = {} /\ gone = {}

Arrive == up /\ arrived' = arrived + 1 /\ UNCHANGED <<up, settled, served, gone>>

\* The next clients are settled; no client is passed over, and none settled again.
Settle ==
  /\ up
  /\ settled' \in (settled + 1)..arrived
  /\ \E now \in SUBSET ((settled + 1)..settled') :
       /\ served' = served \cup now
       /\ gone' = gone \cup (((settled + 1)..settled') \ now)
  /\ UNCHANGED <<up, arrived>>

\* The listener is deleted, and whoever waits with it.
Stop == up /\ up' = FALSE /\ settled' \in settled..arrived /\ UNCHANGED <<arrived, served, gone>>

Next == Arrive \/ Settle \/ Stop

Spec == Init /\ [][Next]_queue

==============================================================================
