---------------------------- MODULE MCSuspend ----------------------------
(***************************************************************************)
(* Three threads beside the patching one: an ordinary one, one that the    *)
(* application holds suspended, and one that is created later.             *)
(***************************************************************************)
EXTENDS Suspend

CONSTANTS w1, w2, w3
MCWorker       == {w1, w2, w3}
MCLate         == {w3}
MCAppSuspended == {w2}
MCMisses       == [w \in Worker |-> IF w = w2 THEN 1 ELSE 0]
AllFailures    == {"snapshot", "malloc", "open", "suspend", "context", "protect"}

(* For the run on the comment: two threads, none late or suspended, and    *)
(* the allocation is the only call that can fail.                          *)
PlainWorker    == {w1, w2}
Nobody         == {}
OnlyMalloc     == {"malloc"}
NoMisses       == [w \in PlainWorker |-> 0]
==========================================================================
