---------------------------- MODULE BoundedFifo ----------------------------
(* A queue of at most Capacity values: an insertion into a full queue and  *)
(* a removal from an empty one change nothing.                             *)
EXTENDS Naturals, Sequences

CONSTANTS Values, Capacity

VARIABLE queue

Init == queue = <<>>

Push(v) == Len(queue) < Capacity /\ queue' = Append(queue, v)
Pop == queue # <<>> /\ queue' = Tail(queue)

Next == (\E v \in Values : Push(v)) \/ Pop

Spec == Init /\ [][Next]_queue
=============================================================================
