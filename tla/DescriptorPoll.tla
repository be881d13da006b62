--------------------------- MODULE DescriptorPoll ---------------------------
(***************************************************************************)
(* descriptor_poll.c: one thread selects over the registered descriptors   *)
(* and calls back for those that are ready.  Any thread may register or    *)
(* unregister one, and so may a callback.                                  *)
(*                                                                         *)
(* poll_mutex makes the snapshot, a registration and the search for the    *)
(* next ready slot single actions; it is released around select and around *)
(* each callback, and there the other threads interleave.  A registration  *)
(* is the descriptor: its callback and user_data follow it, and adding a   *)
(* descriptor again replaces only these.                                   *)
(***************************************************************************)
EXTENDS Integers

CONSTANTS
  Fds,             \* descriptors of the readers
  SELECT_FD_NUM,   \* slots of the table (10)
  PipeSize,        \* bound: bytes poll_abort_pipe holds before a write fails
  None             \* a free slot

Slots == 0..SELECT_FD_NUM - 1

ASSUME SlotsAssumption == SELECT_FD_NUM \in Nat \ {0} /\ PipeSize \in Nat \ {0} /\ None \notin Fds

VARIABLES
  poll_data,       \* per slot, the descriptor registered
  abort_pipe,      \* bytes in poll_abort_pipe
  ready,           \* descriptors that have data to read
  stop_thread,
  pc,              \* where the poll thread is
  read_set,        \* its copy of the descriptors, then those select found ready
  aborted,         \* select found the abort pipe ready
  slot,            \* slot of its scan
  current,         \* the descriptor it calls back
  freed            \* that registration was freed before it is called

vars == <<poll_data, abort_pipe, ready, stop_thread, pc, read_set, aborted, slot, current, freed>>
clients == <<poll_data, abort_pipe, ready, stop_thread>>

Registered == {poll_data[i] : i \in Slots} \ {None}
SlotsWith(x) == {i \in Slots : poll_data[i] = x}
IsFirst(i, S) == i \in S /\ \A j \in S : i <= j

\* One byte into poll_abort_pipe, lost when the pipe is full.
WriteAbort == abort_pipe' = IF abort_pipe < PipeSize THEN abort_pipe + 1 ELSE abort_pipe

Init ==
  /\ poll_data = [i \in Slots |-> None]
  /\ abort_pipe = 0 /\ ready = {} /\ stop_thread = FALSE
  /\ pc = "snapshot" /\ read_set = {} /\ aborted = FALSE /\ slot = 0 /\ current = None /\ freed = FALSE

----------------------------------------------------------------------------
(* The callers: other threads, and the callback that is running.           *)

\* After desc_poll_cleanup only a callback still calls.
MayCall == ~stop_thread \/ pc = "callback"

\* Variant: the select is not aborted.
Add_NoAbort(fd) ==
  /\ MayCall
  /\ \E i \in Slots : /\ IsFirst(i, SlotsWith(None)) /\ \A j \in SlotsWith(fd) : i < j
                      /\ poll_data' = [poll_data EXCEPT ![i] = fd]
  /\ UNCHANGED <<abort_pipe, ready, stop_thread, pc, read_set, aborted, slot, current, freed>>

\* desc_poll_add where it changes the table: no slot before the first free one holds
\* fd.  A later slot may, and fd is then registered twice.
Add(fd) ==
  /\ MayCall
  /\ \E i \in Slots : /\ IsFirst(i, SlotsWith(None)) /\ \A j \in SlotsWith(fd) : i < j
                      /\ poll_data' = [poll_data EXCEPT ![i] = fd]
  /\ WriteAbort
  /\ UNCHANGED <<ready, stop_thread, pc, read_set, aborted, slot, current, freed>>

\* desc_poll_del: the first slot that holds fd.  From another thread it may free the
\* registration the poll thread has unlocked and is about to use.
Del(fd) ==
  /\ MayCall
  /\ \E i \in Slots : /\ IsFirst(i, SlotsWith(fd))
                      /\ poll_data' = [poll_data EXCEPT ![i] = None]
                      /\ freed' = (freed \/ (pc = "unlocked" /\ slot = i))
  /\ WriteAbort
  /\ UNCHANGED <<ready, stop_thread, pc, read_set, aborted, slot, current>>

\* Variant: the thread is told to stop and not woken.
Cleanup_NoAbort == ~stop_thread /\ stop_thread' = TRUE /\ UNCHANGED <<poll_data, abort_pipe, ready, pc, read_set, aborted, slot, current, freed>>

\* desc_poll_cleanup up to pthread_join.
Cleanup ==
  /\ ~stop_thread /\ stop_thread' = TRUE
  /\ WriteAbort
  /\ UNCHANGED <<poll_data, ready, pc, read_set, aborted, slot, current, freed>>

\* Data arrives on a descriptor.
Arrive(fd) == fd \notin ready /\ ready' = ready \cup {fd} /\ UNCHANGED <<poll_data, abort_pipe, stop_thread, pc, read_set, aborted, slot, current, freed>>

----------------------------------------------------------------------------
(* The poll thread: desc_poll_run and desc_poll_process_events.            *)

End == pc = "snapshot" /\ stop_thread /\ pc' = "ended" /\ UNCHANGED <<clients, read_set, aborted, slot, current, freed>>

\* The copy of the table; with no descriptor the thread sleeps and starts again.
Snapshot ==
  /\ pc = "snapshot" /\ ~stop_thread
  /\ read_set' = Registered
  /\ pc' = IF Registered = {} THEN "snapshot" ELSE "select"
  /\ UNCHANGED <<clients, aborted, slot, current, freed>>

\* select returns: some descriptor of the copy is ready, or the abort pipe is.
SelectReturns ==
  /\ pc = "select" /\ (read_set \cap ready # {} \/ abort_pipe > 0)
  /\ read_set' = read_set \cap ready
  /\ aborted' = (abort_pipe > 0)
  /\ pc' = "dispatch" /\ slot' = 0
  /\ UNCHANGED <<clients, current, freed>>

\* select returns -1: a signal.
SelectFails == pc = "select" /\ pc' = "snapshot" /\ UNCHANGED <<clients, read_set, aborted, slot, current, freed>>

\* Variant: free slots are not skipped.
Found_Free == {i \in Slots : i >= slot /\ poll_data[i] \in read_set \cup {None}}

\* Variant: the scan starts again after a callback.
Found_FromStart == {i \in Slots : poll_data[i] \in read_set}

\* The slots of the scan still to be called back.
Found == {i \in Slots : i >= slot /\ poll_data[i] \in read_set}

\* The lock is held up to the next ready slot, and released for its callback.
Dispatch ==
  /\ pc = "dispatch"
  /\ \E i \in Slots : IsFirst(i, Found) /\ slot' = i /\ current' = poll_data[i]
  /\ pc' = "unlocked" /\ freed' = FALSE
  /\ UNCHANGED <<clients, read_set, aborted>>

\* current_info->callback is read without the lock; freed memory may still hold it.
Call ==
  /\ pc = "unlocked"
  /\ \/ pc' = "callback"
     \/ freed /\ pc' = "fault"
  /\ UNCHANGED <<clients, read_set, aborted, slot, current, freed>>

\* The callback has read what its descriptor had, and returns.
Return ==
  /\ pc = "callback" /\ pc' = "dispatch"
  /\ ready' = ready \ {current} /\ slot' = slot + 1
  /\ UNCHANGED <<poll_data, abort_pipe, stop_thread, read_set, aborted, current, freed>>

\* The scan is over; one byte of the abort pipe is read if select saw it.
Drain ==
  /\ pc = "dispatch" /\ Found = {}
  /\ abort_pipe' = IF aborted THEN abort_pipe - 1 ELSE abort_pipe
  /\ pc' = "snapshot"
  /\ UNCHANGED <<poll_data, ready, stop_thread, read_set, aborted, slot, current, freed>>

----------------------------------------------------------------------------
Clients == Cleanup \/ \E fd \in Fds : Add(fd) \/ Del(fd) \/ Arrive(fd)
PollStep == End \/ Snapshot \/ Dispatch \/ Call \/ Return \/ Drain
Poll == PollStep \/ SelectReturns \/ SelectFails

Next == Clients \/ Poll

\* The kernel runs the thread; signals do not interrupt every select.
Fairness == WF_vars(PollStep) /\ SF_vars(SelectReturns)

Spec == Init /\ [][Next]_vars /\ Fairness

----------------------------------------------------------------------------
\* The types; the abort pipe is bounded because its writes do not block.
TypeOK ==
  /\ poll_data \in [Slots -> Fds \cup {None}]
  /\ abort_pipe \in 0..PipeSize /\ ready \subseteq Fds /\ stop_thread \in BOOLEAN
  /\ pc \in {"snapshot", "select", "dispatch", "unlocked", "callback", "fault", "ended"}
  /\ read_set \subseteq Fds /\ aborted \in BOOLEAN /\ slot \in 0..SELECT_FD_NUM
  /\ current \in Fds \cup {None} /\ freed \in BOOLEAN

\* While the scan runs it is inside the table, and a byte that select has seen is still
\* there to be read: no other thread reads the abort pipe.
ScanInTable ==
  /\ pc \in {"unlocked", "callback"} => slot \in Slots /\ current \in Fds
  /\ pc \in {"dispatch", "unlocked", "callback"} /\ aborted => abort_pipe > 0

\* No change is lost to a select that has already copied the table: while the thread
\* selects over descriptors that are no longer those registered, or has been told to
\* stop, the abort pipe holds a byte (desc_poll_add, _del, _cleanup; the thread reads
\* one byte for any number of changes, after the select that saw it).
NoLostChange == pc = "select" /\ (Registered # read_set \/ stop_thread) => abort_pipe > 0

\* What the thread calls back is registered in that slot and was ready at its last
\* select, whatever earlier callbacks and other threads did to the table since; the
\* one exception is a desc_poll_del in the window in which the lock is released.
CallsRegistered == pc = "unlocked" /\ ~freed => poll_data[slot] = current /\ current \in read_set

\* A registered descriptor with data is read, or unregistered, unless the thread has
\* been stopped or lost: no descriptor keeps the scan from another.
ReadyServed ==
  \A fd \in Fds : (fd \in ready \cap Registered) ~> (fd \notin ready \cap Registered \/ pc \in {"fault", "ended"})

\* pthread_join in desc_poll_cleanup returns.
StopEnds == stop_thread ~> (pc \in {"fault", "ended"})
=============================================================================
