------------------------ MODULE CircularBufferProofs ------------------------
(***************************************************************************)
(* The ring is a bounded queue for every size and every set of elements,   *)
(* and the pointer a pop returns is good until the next pop.               *)
(***************************************************************************)
EXTENDS CircularBuffer, TLAPS

LEMMA IncSlot ==
  ASSUME NEW idx \in Slots PROVE Inc(idx) \in Slots
BY SizeAssumption DEF Slots, Inc

\* Counting slots: a push makes the ring one longer at its end, a pop one shorter at
\* its front.
LEMMA CountBounds ==
  ASSUME read_idx \in Slots, write_idx \in Slots
  PROVE /\ Count \in 0..size - 1
        /\ IsEmpty <=> Count = 0
        /\ IsFull <=> Count = size - 1
        /\ \A k \in 1..Count : At(k) \in Slots /\ At(k) # write_idx
        /\ At(Count + 1) = write_idx
        /\ Count > 0 => At(1) = read_idx
BY SizeAssumption DEF Slots, Count, At, IsEmpty, IsFull, Inc

\* An inductive invariant: the types and the caller's pointer.
RingInv == TypeOK /\ ResultIntact

LEMMA InitRing == Init => RingInv
<1> SUFFICES ASSUME Init PROVE RingInv
  OBVIOUS
<1>1. 0 \in Slots
  BY SizeAssumption DEF Slots
<1>2. Count = 0
  BY DEF Init, Count
<1> QED
  BY <1>1, <1>2 DEF Init, RingInv, TypeOK, ResultIntact

LEMMA PushKeeps ==
  ASSUME RingInv, NEW v \in Values, PushFront(v)
  PROVE /\ RingInv'
        /\ Count' = Count + 1 /\ Count < size - 1
        /\ \A k \in 1..Count + 1 : data'[At(k)'] = IF k = Count + 1 THEN v ELSE data[At(k)]
<1> USE DEF PushFront
<1>1. read_idx \in Slots /\ write_idx \in Slots /\ write_idx' \in Slots /\ read_idx' = read_idx
  BY IncSlot DEF RingInv, TypeOK
<1>2. /\ Count \in 0..size - 1 /\ Count # size - 1
      /\ \A k \in 1..Count : At(k) \in Slots /\ At(k) # write_idx
      /\ At(Count + 1) = write_idx
  BY <1>1, CountBounds
<1>3. Count' = Count + 1 /\ Count < size - 1
  BY <1>1, <1>2, SizeAssumption DEF Count, Slots, IsFull, Inc
<1>4. \A k \in 1..Count + 1 : At(k)' = At(k)
  BY <1>1 DEF At
<1>5. data' \in [Slots -> Values \cup {Garbage}] /\ data'[write_idx] = v
      /\ \A s \in Slots : s # write_idx => data'[s] = data[s]
  BY <1>1 DEF RingInv, TypeOK
<1>6. \A k \in 1..Count + 1 : data'[At(k)'] = IF k = Count + 1 THEN v ELSE data[At(k)]
  <2> TAKE k \in 1..Count + 1
  <2>1. At(k)' = At(k)
    BY <1>4
  <2>2. CASE k = Count + 1
    BY <2>1, <2>2, <1>2, <1>5
  <2>3. CASE k # Count + 1
    <3>1. k \in 1..Count
      BY <1>2, <2>3
    <3>2. At(k) \in Slots /\ At(k) # write_idx
      BY <3>1, <1>2
    <3> QED
      BY <2>1, <2>3, <3>2, <1>5
  <2> QED
    BY <2>2, <2>3
<1>8. TypeOK'
  <2>1. ASSUME NEW k \in 1..Count + 1 PROVE data'[At(k)'] \in Values
    <3>1. k # Count + 1 => k \in 1..Count
      BY <1>2
    <3> QED
      BY <3>1, <1>6 DEF RingInv, TypeOK
  <2>2. \A k \in 1..Count' : data'[At(k)'] \in Values
    BY <1>3, <2>1
  <2> QED
    BY <1>1, <1>5, <2>2 DEF RingInv, TypeOK
<1>9. ResultIntact'
  <2> SUFFICES ASSUME result # NULL
               PROVE data'[result.slot] = result.value /\ read_idx' = Inc(result.slot)
    BY DEF ResultIntact
  <2>1. result \in Popped /\ data[result.slot] = result.value /\ read_idx = Inc(result.slot)
    BY DEF RingInv, TypeOK, ResultIntact
  <2>2. result.slot \in Slots
    BY <2>1 DEF Popped
  <2>3. result.slot # write_idx
    BY <2>1 DEF IsFull
  <2> QED
    BY <1>1, <1>5, <2>1, <2>2, <2>3
<1> QED
  BY <1>3, <1>6, <1>8, <1>9 DEF RingInv

LEMMA PopKeeps ==
  ASSUME RingInv, PopBack
  PROVE /\ RingInv'
        /\ Count' = Count - 1 /\ Count > 0
        /\ \A k \in 1..Count' : At(k)' = At(k + 1) /\ data'[At(k)'] = data[At(k + 1)]
<1> USE DEF PopBack
<1>1. read_idx \in Slots /\ write_idx \in Slots /\ read_idx' \in Slots /\ write_idx' = write_idx
  BY IncSlot DEF RingInv, TypeOK
<1>2. Count \in 0..size - 1 /\ Count > 0 /\ At(1) = read_idx
  BY <1>1, CountBounds, SizeAssumption
<1>3. Count' = Count - 1
  BY <1>1, <1>2, SizeAssumption DEF Count, Slots, IsEmpty, Inc
<1>4. \A k \in 1..Count' : At(k)' = At(k + 1)
  BY <1>1, <1>2, <1>3, SizeAssumption DEF At, Slots, Inc
<1>5. \A k \in 1..Count' : k + 1 \in 1..Count /\ data'[At(k)'] = data[At(k + 1)]
  BY <1>2, <1>3, <1>4
<1>6. result'.slot = read_idx /\ result'.value = data[read_idx] /\ data[read_idx] \in Values
  <2>1. 1 \in 1..Count
    BY <1>2
  <2> QED
    BY <1>2, <2>1 DEF RingInv, TypeOK
<1>7. TypeOK'
  <2>1. result' \in Popped
    BY <1>1, <1>6 DEF Popped
  <2>2. ASSUME NEW k \in 1..Count' PROVE data'[At(k)'] \in Values
    BY <1>5 DEF RingInv, TypeOK
  <2> QED
    BY <1>1, <2>1, <2>2 DEF RingInv, TypeOK
<1>8. ResultIntact'
  BY <1>6 DEF ResultIntact
<1> QED
  BY <1>2, <1>3, <1>4, <1>5, <1>7, <1>8 DEF RingInv

\* Every step keeps the invariant.
LEMMA NextRing == RingInv /\ [Next]_vars => RingInv'
<1> SUFFICES ASSUME RingInv, [Next]_vars PROVE RingInv'
  OBVIOUS
<1>1. ASSUME NEW v \in Values, PushFront(v) PROVE RingInv'
  BY <1>1, PushKeeps
<1>2. CASE PopBack
  BY <1>2, PopKeeps
<1>3. CASE UNCHANGED vars
  BY <1>3 DEF vars, RingInv, TypeOK, ResultIntact, Count, At
<1> QED
  BY <1>1, <1>2, <1>3 DEF Next

LEMMA RingAlways == Spec => []RingInv
BY InitRing, NextRing, PTL DEF Spec

\* The indices stay inside the ring and only elements that were pushed are returned.
THEOREM TypeCorrect == Spec => []TypeOK
<1>1. RingInv => TypeOK
  BY DEF RingInv
<1> QED
  BY <1>1, RingAlways, PTL

\* The pointer that circular_buffer_pop_back returned shows the same element until the
\* next pop, for a ring of any size.
THEOREM ResultIntactAlways == Spec => []ResultIntact
<1>1. RingInv => ResultIntact
  BY DEF RingInv
<1> QED
  BY <1>1, RingAlways, PTL

LEMMA InitFifo == Init => Fifo!Init
<1> SUFFICES ASSUME Init PROVE [k \in 1..Count |-> data[At(k)]] = <<>>
  BY DEF Fifo!Init
<1>1. Count = 0
  BY DEF Init, Count
<1> QED
  BY <1>1

LEMMA PushFifo ==
  ASSUME RingInv, NEW v \in Values, PushFront(v) PROVE Fifo!Push(v)
<1> DEFINE q == [k \in 1..Count |-> data[At(k)]]
<1>1. Count \in Nat /\ Count < size - 1 /\ Count' = Count + 1
  BY PushKeeps, CountBounds, SizeAssumption DEF RingInv, TypeOK
<1>2. q \in Seq(Values) /\ Len(q) = Count
  BY <1>1 DEF RingInv, TypeOK
<1>3. q' = [k \in 1..Count + 1 |-> data'[At(k)']]
  BY <1>1
<1>4. Append(q, v) = [k \in 1..Count + 1 |-> IF k = Count + 1 THEN v ELSE q[k]]
  BY <1>1, <1>2
<1>5. \A k \in 1..Count + 1 : data'[At(k)'] = IF k = Count + 1 THEN v ELSE q[k]
  <2> TAKE k \in 1..Count + 1
  <2>1. k # Count + 1 => k \in 1..Count
    BY <1>1
  <2> QED
    BY <2>1, PushKeeps
<1>6. q' = Append(q, v)
  BY <1>3, <1>4, <1>5
<1> QED
  BY <1>1, <1>2, <1>6 DEF Fifo!Push

LEMMA PopFifo ==
  ASSUME RingInv, PopBack PROVE Fifo!Pop
<1> DEFINE q == [k \in 1..Count |-> data[At(k)]]
<1>1. Count \in Nat /\ Count > 0 /\ Count' = Count - 1
  BY PopKeeps, CountBounds, SizeAssumption DEF RingInv, TypeOK
<1>2. q \in Seq(Values) /\ Len(q) = Count /\ q # <<>>
  BY <1>1 DEF RingInv, TypeOK
<1>3. q' = [k \in 1..Count - 1 |-> data'[At(k)']]
  BY <1>1
<1>4. Tail(q) = [k \in 1..Count - 1 |-> q[k + 1]]
  BY <1>1, <1>2
<1>5. \A k \in 1..Count - 1 : data'[At(k)'] = q[k + 1]
  BY <1>1, PopKeeps
<1>6. q' = Tail(q)
  BY <1>3, <1>4, <1>5
<1> QED
  BY <1>2, <1>6 DEF Fifo!Pop

\* The ring implements the queue: each push and pop of the ring is one of the queue.
THEOREM ImplementsFifoAlways == Spec => ImplementsFifo
<1>1. ASSUME RingInv, [Next]_vars
      PROVE [Fifo!Next]_([k \in 1..Count |-> data[At(k)]])
  <2>1. ASSUME NEW v \in Values, PushFront(v) PROVE Fifo!Next
    BY <1>1, <2>1, PushFifo DEF Fifo!Next
  <2>2. CASE PopBack
    BY <1>1, <2>2, PopFifo DEF Fifo!Next
  <2>3. CASE UNCHANGED vars
    BY <2>3 DEF vars, Count, At
  <2> QED
    BY <1>1, <2>1, <2>2, <2>3 DEF Next
<1> QED
  BY <1>1, InitFifo, RingAlways, PTL DEF Spec, ImplementsFifo, Fifo!Spec
=============================================================================
