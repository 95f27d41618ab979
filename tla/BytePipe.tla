------------------------------ MODULE BytePipe ------------------------------
(***************************************************************************)
(* What one direction of a connection promises, whatever buffers,          *)
(* operations and handlers stand behind it: a bounded first-in first-out   *)
(* pipe of bytes.  The k-th byte put in is the number k.                   *)
(***************************************************************************)
EXTENDS Integers, Sequences

CONSTANT Capacity  \* bytes the pipe holds, at least one

VARIABLES
  up,   \* the pipe is connected; once down it stays so
  put,  \* bytes put in
  out   \* the bytes that came out

pipe == <<up, put, out>>

Bytes(k) == [i \in 1..k |-> i]

Init == up = TRUE /\ put = 0 /\ out = <<>>

\* Some bytes are accepted.  A pipe that is down keeps no promise about them.
Put ==
  /\ put' > put
  /\ up => put' - Len(out) <= Capacity
  /\ UNCHANGED <<up, out>>

\* The next bytes come out, in the order they were put in, each once.
Take ==
  /\ up
  /\ Len(out') \in (Len(out) + 1)..put
  /\ out' = Bytes(Len(out'))
  /\ UNCHANGED <<up, put>>

Fail == up /\ up' = FALSE /\ UNCHANGED <<put, out>>

Next == Put \/ Take \/ Fail

Spec == Init /\ [][Next]_pipe

=============================================================================
