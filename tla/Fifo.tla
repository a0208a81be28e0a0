-------------------------------- MODULE Fifo ---------------------------------
(***************************************************************************)
(* What a ring buffer promises to its two users: a bounded queue, whose    *)
(* operations take effect at once.                                         *)
(***************************************************************************)
EXTENDS Naturals, Sequences

CONSTANTS Data, Size
VARIABLES
  queue,      \* the bytes inserted and not yet removed
  removed     \* the byte the last removal returned

vars == <<queue, removed>>

Init == queue = <<>> /\ removed \in Data

Put ==
  /\ Len(queue) < Size
  /\ \E d \in Data : queue' = Append(queue, d)
  /\ UNCHANGED removed

Take ==
  /\ queue # <<>>
  /\ removed' = Head(queue) /\ queue' = Tail(queue)

Next == Put \/ Take

Spec == Init /\ [][Next]_vars
=============================================================================
