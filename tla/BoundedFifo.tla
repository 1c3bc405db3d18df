----------------------------- MODULE BoundedFifo -----------------------------
(***************************************************************************)
(* What both queues of the program promise: a bounded first-in first-out   *)
(* channel that can be closed.  An item comes out once, in the order the   *)
(* items went in; a consumer is told that the channel has ended only when  *)
(* it is closed and empty.                                                 *)
(*                                                                         *)
(* LatePush says whether an item may still enter after the close.          *)
(***************************************************************************)
EXTENDS Naturals, Sequences

CONSTANTS Items, Capacity, LatePush

VARIABLES
    queue,        \* the items inside, oldest first
    closed,
    received,     \* history: the items that came out, oldest first
    ended         \* a consumer was told that nothing more will come

vars == <<queue, closed, received, ended>>

Init == queue = <<>> /\ closed = FALSE /\ received = <<>> /\ ended = FALSE

Push(x) ==
    /\ closed => LatePush
    /\ Len(queue) < Capacity
    /\ queue' = Append(queue, x)
    /\ UNCHANGED <<closed, received, ended>>

Pop ==
    /\ queue # <<>>
    /\ queue' = Tail(queue)
    /\ received' = Append(received, Head(queue))
    /\ UNCHANGED <<closed, ended>>

Close ==
    /\ closed' = TRUE
    /\ UNCHANGED <<queue, received, ended>>

End ==
    /\ closed
    /\ queue = <<>>
    /\ ended' = TRUE
    /\ UNCHANGED <<queue, closed, received>>

Next == Pop \/ Close \/ End \/ \E x \in Items : Push(x)

Spec == Init /\ [][Next]_vars
=============================================================================
