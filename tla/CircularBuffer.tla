--------------------------- MODULE CircularBuffer ---------------------------
(***************************************************************************)
(* circular_buffer.c: a ring of size elements that keeps one slot free to  *)
(* tell full from empty.  circular_buffer_pop_back returns a pointer into  *)
(* the ring, which the caller reads after the call.                        *)
(***************************************************************************)
EXTENDS Naturals, Sequences

CONSTANTS
  size,      \* number of slots
  Values,    \* elements
  Garbage,   \* content of a slot fresh from malloc
  NULL       \* no pointer

ASSUME SizeAssumption == size \in Nat \ {0}
ASSUME ValuesAssumption == Garbage \notin Values

VARIABLES
  data, read_idx, write_idx,
  result    \* what the caller holds of the last pop: [slot, value] or NULL

vars == <<data, read_idx, write_idx, result>>

Slots == 0..size - 1
Popped == [slot : Slots, value : Values]

ASSUME NullAssumption == NULL \notin Popped

\* circular_buffer_create.
Init ==
  /\ data = [k \in Slots |-> Garbage]
  /\ read_idx = 0 /\ write_idx = 0
  /\ result = NULL

\* circular_buffer_inc_X_idx.
Inc(idx) == IF idx + 1 >= size THEN 0 ELSE idx + 1

IsEmpty == read_idx = write_idx

\* Variant: a push does not ask whether the buffer is full.
IsFull_Never == FALSE

IsFull == read_idx = Inc(write_idx)

\* Variant: the index moves before the slot is written.
PushFront_IndexFirst(v) ==
  /\ ~IsFull
  /\ write_idx' = Inc(write_idx)
  /\ data' = [data EXCEPT ![Inc(write_idx)] = v]
  /\ UNCHANGED <<read_idx, result>>

\* circular_buffer_push_front; on a full buffer it returns false and changes nothing.
PushFront(v) ==
  /\ ~IsFull
  /\ data' = [data EXCEPT ![write_idx] = v]
  /\ write_idx' = Inc(write_idx)
  /\ UNCHANGED <<read_idx, result>>

\* circular_buffer_pop_back; NULL from an empty buffer leaves an earlier pointer alone.
PopBack ==
  /\ ~IsEmpty
  /\ result' = [slot |-> read_idx, value |-> data[read_idx]]
  /\ read_idx' = Inc(read_idx)
  /\ UNCHANGED <<data, write_idx>>

Next == (\E v \in Values : PushFront(v)) \/ PopBack

Spec == Init /\ [][Next]_vars

----------------------------------------------------------------------------
(* Properties.                                                             *)

\* The number of elements, and the slot of the k-th oldest.
Count == IF write_idx >= read_idx THEN write_idx - read_idx ELSE write_idx + size - read_idx
At(k) == IF read_idx + k - 1 < size THEN read_idx + k - 1 ELSE read_idx + k - 1 - size

\* Types; the slots between the indices hold elements, and only elements are returned.
TypeOK ==
  /\ data \in [Slots -> Values \cup {Garbage}]
  /\ read_idx \in Slots /\ write_idx \in Slots
  /\ result \in Popped \cup {NULL}
  /\ \A k \in 1..Count : data[At(k)] \in Values

\* What the last pop returned stays readable through its pointer until the next pop,
\* however many elements are pushed in between: the slot kept free is the one just read.
ResultIntact ==
  result # NULL => /\ data[result.slot] = result.value
                   /\ read_idx = Inc(result.slot)

\* The ring implements a queue of at most size - 1 elements.
Fifo == INSTANCE BoundedFifo WITH
  Capacity <- size - 1,
  queue <- [k \in 1..Count |-> data[At(k)]]

ImplementsFifo == Fifo!Spec
=============================================================================
