------------------------ MODULE DescriptorPollProofs ------------------------
(***************************************************************************)
(* DescriptorPoll is correct for any number of slots and descriptors: the  *)
(* four facts together are inductive, so one lemma steps them all.         *)
(***************************************************************************)
EXTENDS DescriptorPoll, TLAPS

PollInv == TypeOK /\ ScanInTable /\ NoLostChange /\ CallsRegistered

LEMMA InitInv == Init => PollInv
<1> SUFFICES ASSUME Init PROVE PollInv
  OBVIOUS
<1>1. poll_data \in [Slots -> Fds \cup {None}]
  BY DEF Init
<1>2. abort_pipe \in 0..PipeSize /\ slot \in 0..SELECT_FD_NUM
  BY SlotsAssumption DEF Init
<1> QED
  BY <1>1, <1>2 DEF Init, PollInv, TypeOK, ScanInTable, NoLostChange, CallsRegistered

\* A write leaves at least one byte, whether or not the pipe was full.
LEMMA WriteWakes ==
  ASSUME TypeOK, WriteAbort
  PROVE  abort_pipe' \in 0..PipeSize /\ abort_pipe' > 0
BY SlotsAssumption DEF TypeOK, WriteAbort

\* What the callers do.
LEMMA ClientsInv ==
  ASSUME PollInv, Clients
  PROVE  PollInv'
<1>1. TypeOK /\ ScanInTable /\ NoLostChange /\ CallsRegistered
  BY DEF PollInv
<1>2. CASE Cleanup
  BY <1>1, <1>2, WriteWakes
  DEF Cleanup, PollInv, TypeOK, ScanInTable, NoLostChange, CallsRegistered, Registered
<1>3. ASSUME NEW fd \in Fds, Add(fd) PROVE PollInv'
  <2>1. PICK i \in Slots : poll_data[i] = None /\ poll_data' = [poll_data EXCEPT ![i] = fd]
    BY <1>3 DEF Add, IsFirst, SlotsWith
  <2>2. abort_pipe' \in 0..PipeSize /\ abort_pipe' > 0
    BY <1>1, <1>3, WriteWakes DEF Add
  <2>3. UNCHANGED <<ready, stop_thread, pc, read_set, aborted, slot, current, freed>>
    BY <1>3 DEF Add
  <2>4. TypeOK'
    BY <1>1, <2>1, <2>2, <2>3 DEF TypeOK
  <2>5. ScanInTable' /\ NoLostChange'
    BY <1>1, <2>2, <2>3 DEF ScanInTable, NoLostChange
  <2>6. CallsRegistered'
    <3> SUFFICES ASSUME pc = "unlocked", ~freed PROVE poll_data'[slot] = current /\ current \in read_set
      BY <2>3 DEF CallsRegistered
    <3>1. slot \in Slots /\ current \in Fds /\ poll_data[slot] = current /\ current \in read_set
      BY <1>1 DEF ScanInTable, CallsRegistered
    <3> QED BY <1>1, <2>1, <3>1, SlotsAssumption DEF TypeOK
  <2> QED BY <2>4, <2>5, <2>6 DEF PollInv
<1>4. ASSUME NEW fd \in Fds, Del(fd) PROVE PollInv'
  <2>1. PICK i \in Slots : /\ poll_data' = [poll_data EXCEPT ![i] = None]
                           /\ freed' = (freed \/ (pc = "unlocked" /\ slot = i))
    BY <1>4 DEF Del
  <2>2. abort_pipe' \in 0..PipeSize /\ abort_pipe' > 0
    BY <1>1, <1>4, WriteWakes DEF Del
  <2>3. UNCHANGED <<ready, stop_thread, pc, read_set, aborted, slot, current>>
    BY <1>4 DEF Del
  <2>4. TypeOK'
    <3>1. freed' \in BOOLEAN
      BY <2>1
    <3>2. poll_data' \in [Slots -> Fds \cup {None}]
      BY <1>1, <2>1 DEF TypeOK
    <3> QED BY <1>1, <2>2, <2>3, <3>1, <3>2 DEF TypeOK
  <2>5. ScanInTable' /\ NoLostChange'
    BY <1>1, <2>2, <2>3 DEF ScanInTable, NoLostChange
  <2>6. CallsRegistered'
    BY <1>1, <2>1, <2>3 DEF CallsRegistered, ScanInTable, TypeOK
  <2> QED BY <2>4, <2>5, <2>6 DEF PollInv
<1>5. ASSUME NEW fd \in Fds, Arrive(fd) PROVE PollInv'
  BY <1>1, <1>5
  DEF Arrive, PollInv, TypeOK, ScanInTable, NoLostChange, CallsRegistered, Registered
<1> QED BY <1>2, <1>3, <1>4, <1>5 DEF Clients

\* What the poll thread does.
LEMMA PollThreadInv ==
  ASSUME PollInv, Poll
  PROVE  PollInv'
<1>1. TypeOK /\ ScanInTable /\ NoLostChange /\ CallsRegistered
  BY DEF PollInv
<1>2. CASE End \/ SelectFails \/ Call
  BY <1>1, <1>2
  DEF End, SelectFails, Call, clients, PollInv, TypeOK, ScanInTable, NoLostChange, CallsRegistered
<1>3. CASE Snapshot
  <2>1. Registered \subseteq Fds
    BY <1>1 DEF Registered, TypeOK
  <2> QED
    BY <1>1, <1>3, <2>1
    DEF Snapshot, clients, PollInv, TypeOK, ScanInTable, NoLostChange, CallsRegistered, Registered
<1>4. CASE SelectReturns
  BY <1>1, <1>4, SlotsAssumption
  DEF SelectReturns, clients, PollInv, TypeOK, ScanInTable, NoLostChange, CallsRegistered
<1>5. CASE Dispatch
  <2>1. PICK i \in Slots : i \in Found /\ slot' = i /\ current' = poll_data[i]
    BY <1>5 DEF Dispatch, IsFirst
  <2>2. poll_data[i] \in read_set /\ read_set \subseteq Fds /\ i \in 0..SELECT_FD_NUM
    BY <1>1, <2>1, SlotsAssumption DEF Found, TypeOK, Slots
  <2> QED
    BY <1>1, <1>5, <2>1, <2>2
    DEF Dispatch, clients, PollInv, TypeOK, ScanInTable, NoLostChange, CallsRegistered
<1>6. CASE Return
  BY <1>1, <1>6, SlotsAssumption
  DEF Return, PollInv, TypeOK, ScanInTable, NoLostChange, CallsRegistered, Slots
<1>7. CASE Drain
  <2>1. abort_pipe' \in 0..PipeSize
    BY <1>1, <1>7, SlotsAssumption DEF Drain, TypeOK, ScanInTable
  <2> QED
    BY <1>1, <1>7, <2>1
    DEF Drain, PollInv, TypeOK, ScanInTable, NoLostChange, CallsRegistered
<1> QED BY <1>2, <1>3, <1>4, <1>5, <1>6, <1>7 DEF Poll, PollStep

LEMMA NextInv ==
  ASSUME PollInv, [Next]_vars
  PROVE  PollInv'
<1>1. CASE Next
  BY <1>1, ClientsInv, PollThreadInv DEF Next
<1>2. CASE UNCHANGED vars
  BY <1>2 DEF vars, PollInv, TypeOK, ScanInTable, NoLostChange, CallsRegistered, Registered
<1> QED BY <1>1, <1>2

\* The four facts hold in every state, for any table size and pipe capacity.
THEOREM PollCorrect == Spec => []PollInv
<1>1. PollInv /\ [Next]_vars => PollInv'
  BY NextInv
<1> QED BY InitInv, <1>1, PTL DEF Spec

\* Types: in particular the bytes of the abort pipe never go below zero.
THEOREM TypeCorrect == Spec => []TypeOK
<1>1. PollInv => TypeOK
  BY DEF PollInv
<1> QED BY <1>1, PollCorrect, PTL

\* No registration, removal or stop is missed by a select that copied the table earlier.
THEOREM NoLostChangeAlways == Spec => []NoLostChange
<1>1. PollInv => NoLostChange
  BY DEF PollInv
<1> QED BY <1>1, PollCorrect, PTL

\* The thread calls back only registrations that are in the table and were ready, but for
\* one freed while the lock is released.
THEOREM CallsRegisteredAlways == Spec => []CallsRegistered
<1>1. PollInv => CallsRegistered
  BY DEF PollInv
<1> QED BY <1>1, PollCorrect, PTL
=============================================================================
