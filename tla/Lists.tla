-------------------------------- MODULE Lists --------------------------------
(***************************************************************************)
(* Removal from a list, as std::list::remove and std::remove_if do it:     *)
(* whatever is in S goes, the rest stays in its order.  (SelectSeq is the  *)
(* same; this form is one the proof system can look into.)                 *)
(***************************************************************************)
EXTENDS Integers, Sequences

\* What is left of each beginning of the list.
Kept(list, S) ==
  LET d[i \in 0..Len(list)] ==
        IF i = 0 THEN <<>> ELSE IF list[i] \in S THEN d[i - 1] ELSE Append(d[i - 1], list[i])
  IN  d

Dropped(list, S) == Kept(list, S)[Len(list)]

=============================================================================
