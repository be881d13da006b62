---------------------------- MODULE CaptureProofs ----------------------------
(***************************************************************************)
(* Theorems about Capture for every set of frames, every size of the list, *)
(* of the pipes and of a read, and every number of captures: the parser    *)
(* stays paused, tshark is alone, errors are explained, calm use never     *)
(* meets a handle that is not live, the capture file and the duplicate     *)
(* filter are the functions of the past they should be, and every frame    *)
(* tshark prints is parsed in order and once.                              *)
(***************************************************************************)
EXTENDS Capture, TLAPS, FiniteSetTheorems, SequenceTheorems

\* What the proofs need of the types.
Typed ==
  /\ handle \in [Handles -> {"null", "live", "freed"}]
  /\ starts \in Nat /\ errors \in Nat
  /\ calm \in BOOLEAN

LEMMA TypedStep ==
  ASSUME Typed, [Next]_vars
  PROVE  Typed'
<1> USE DEF Typed
<1>1. CASE UNCHANGED vars
  BY <1>1 DEF vars, handleVars, boundVars, signalVars, historyVars
<1>2. CASE Start \/ Stop \/ Pause \/ Resume
  BY <1>2 DEF Start, Stop, CloseOut, Pause, Resume, SetPaused, Overlaps, handleVars, boundVars,
              signalVars, historyVars, Handles
<1>3. CASE ResetKill
  BY <1>3 DEF ResetKill, Cleared, boundVars, Handles
<1>4. CASE ResetClose
  BY <1>4 DEF ResetClose, boundVars, signalVars, historyVars
<1>5. CASE CreateOut
  BY <1>5 DEF CreateOut, boundVars, signalVars, historyVars, Handles
<1>6. \A new : Renewed(new) \in [Handles -> {"null", "live", "freed"}]
  BY DEF Renewed
<1>7. CASE ResetSpawn
  <2>1. starts' \in Nat /\ errors' \in Nat /\ calm' \in BOOLEAN
    <3>1. starts' = starts + 1 /\ errors' = 0 /\ calm' = calm
      BY <1>7 DEF ResetSpawn, ResetRest, Spawned
    <3> QED BY <3>1
  <2>2. handle' \in [Handles -> {"null", "live", "freed"}]
    BY <1>6, <1>7 DEF ResetSpawn
  <2> QED BY <2>1, <2>2
<1>8. CASE ResetFails
  <2>1. starts' \in Nat
    <3>1. starts' = starts \/ starts' = starts + 1
      BY <1>8 DEF ResetFails, Spawned
    <3> QED BY <3>1
  <2>3. errors' \in Nat
    BY <1>8 DEF ResetFails, ResetRest
  <2>4. calm' \in BOOLEAN
    BY <1>8 DEF ResetFails
  <2>2. handle' \in [Handles -> {"null", "live", "freed"}]
    BY <1>6, <1>8 DEF ResetFails
  <2> QED BY <2>1, <2>2, <2>3, <2>4
<1>9. CASE Interface
  <2>1. UNCHANGED <<handle, starts>>
    BY <1>9 DEF Interface, Hear, DumpTshark, TestOut, DumpOut, Flush, handleVars, boundVars
  <2>2. errors' \in Nat
    <3>1. errors' \in {errors, errors + 1}
      BY <1>9 DEF Interface, Hear, DumpTshark, DumpBroken, TestOut, DumpOut, Flush, signalVars
    <3> QED BY <3>1
  <2>3. calm' \in BOOLEAN
    BY <1>9 DEF Interface, Hear, DumpTshark, TestOut, DumpOut, Flush, historyVars
  <2> QED BY <2>1, <2>2, <2>3
<1>10. CASE Tshark
  BY <1>10 DEF Tshark, Dissect, Exit, handleVars, boundVars, signalVars, historyVars
<1>11. CASE Poll
  BY <1>11 DEF Poll, Call, Read, Lock, Locked, Parse, Overlaps, handleVars, boundVars, signalVars,
               historyVars
<1> QED
  BY <1>1, <1>2, <1>3, <1>4, <1>5, <1>7, <1>8, <1>9, <1>10, <1>11 DEF Next, Gui

-----------------------------------------------------------------------------
(* The pause.                                                              *)

PauseInv == /\ xml_parser_state = "paused" <=> gpc = "paused"
            /\ PauseHolds

\* rpldata_clear has the store to itself in every interleaving of the three threads, starts
\* and stops of captures and exits of tshark included.
THEOREM PauseHoldsAlways == Spec => []PauseHolds
<1>1. Init => PauseInv
  BY DEF Init, PauseInv, PauseHolds
<1>2. PauseInv /\ [Next]_vars => PauseInv'
  <2> SUFFICES ASSUME PauseInv, [Next]_vars PROVE PauseInv'
    OBVIOUS
  <2> USE DEF PauseInv, PauseHolds
  <2>1. CASE Gui
    BY <2>1 DEF Gui, Start, ResetKill, Cleared, ResetClose, ResetSpawn, ResetFails, ResetRest,
                CreateOut, Stop, CloseOut, Pause, Resume, SetPaused, guiVars, pollVars
  <2>2. CASE Interface
    BY <2>2 DEF Interface, Hear, DumpTshark, TestOut, DumpOut, Flush, guiVars, pollVars
  <2>3. CASE Tshark
    BY <2>3 DEF Tshark, Dissect, Exit, guiVars, pollVars
  <2>4. CASE Poll
    BY <2>4 DEF Poll, Call, Read, Lock, Locked, Parse, guiVars
  <2>5. CASE UNCHANGED vars
    BY <2>5 DEF vars, guiVars, pollVars
  <2> QED BY <2>1, <2>2, <2>3, <2>4, <2>5 DEF Next
<1>3. PauseInv => PauseHolds
  BY DEF PauseInv
<1> QED BY <1>1, <1>2, <1>3, PTL DEF Spec

-----------------------------------------------------------------------------
(* The processes.                                                          *)

\* The only process that may exist is the newest, and tshark_pid names it; a reset has
\* none between the kill and the spawn.
ProcessInv ==
  /\ Typed
  /\ running \subseteq {starts}
  /\ Alive => tshark_pid = starts /\ starts > 0
  /\ gpc \in {"closing", "spawning"} => running = {}

LEMMA ProcessStep ==
  ASSUME ProcessInv, [Next]_vars
  PROVE  ProcessInv'
<1>1. Typed /\ Typed'
  BY TypedStep DEF ProcessInv
<1>2. CASE UNCHANGED <<starts, running, tshark_pid>> /\ (gpc' = gpc \/ gpc' \notin {"closing", "spawning"})
  BY <1>1, <1>2 DEF ProcessInv, Alive
<1>3. CASE ResetKill
  BY <1>1, <1>3 DEF ProcessInv, Alive, ResetKill, Cleared, boundVars, Typed
<1>4. CASE ResetClose
  BY <1>1, <1>4 DEF ProcessInv, Alive, ResetClose, tsharkVars, boundVars
<1>5. CASE ResetSpawn
  <2>1. /\ starts \in Nat /\ running = {} /\ gpc' = "creating"
        /\ starts' = starts + 1 /\ running' = {starts + 1} /\ tshark_pid' = starts + 1
    BY <1>1, <1>5 DEF ProcessInv, ResetSpawn, ResetRest, Spawned, Typed
  <2> QED BY <1>1, <2>1 DEF ProcessInv, Alive
<1>6. CASE ResetFails
  BY <1>1, <1>6 DEF ProcessInv, Alive, ResetFails, ResetRest, Spawned, Typed
<1>7. CASE DumpTshark
  BY <1>1, <1>7 DEF ProcessInv, Alive, DumpTshark, DumpBroken, guiVars, boundVars
<1>8. CASE Exit
  BY <1>1, <1>8 DEF ProcessInv, Alive, Exit, guiVars, boundVars
<1>9. CASE Start \/ CreateOut \/ Stop \/ Pause \/ Resume
  BY <1>2, <1>9 DEF Start, CreateOut, Stop, CloseOut, Pause, Resume, SetPaused, guiVars, tsharkVars,
                    boundVars
<1>10. CASE (\E f \in Frames : Hear(f)) \/ TestOut \/ DumpOut \/ Flush \/ Dissect
  BY <1>2, <1>10 DEF Hear, TestOut, DumpOut, Flush, Dissect, guiVars, tsharkVars, boundVars
<1>11. CASE Poll
  BY <1>2, <1>11 DEF Poll, Call, Read, Lock, Locked, Parse, guiVars, tsharkVars, boundVars
<1>12. CASE UNCHANGED vars
  BY <1>2, <1>12 DEF vars, guiVars, tsharkVars, boundVars
<1> QED
  BY <1>3, <1>4, <1>5, <1>6, <1>7, <1>8, <1>9, <1>10, <1>11, <1>12 DEF Next, Gui, Interface, Tshark

THEOREM ProcessCorrect == Spec => []ProcessInv
<1>1. Init => ProcessInv
  BY DEF Init, ProcessInv, Typed, Alive
<1>2. ProcessInv /\ [Next]_vars => ProcessInv'
  BY ProcessStep
<1> QED BY <1>1, <1>2, PTL DEF Spec

\* A reset, a failed spawn and an exit between any two of its steps leave at most one process.
THEOREM OneTsharkAlways == Spec => []OneTshark
<1>1. ProcessInv => OneTshark
  <2> SUFFICES ASSUME ProcessInv PROVE OneTshark
    OBVIOUS
  <2>1. running = {} \/ running = {starts}
    BY DEF ProcessInv
  <2>2. Cardinality({}) = 0 /\ Cardinality({starts}) = 1
    BY FS_EmptySet, FS_Singleton
  <2>3. CASE running = {}
    BY <2>2, <2>3 DEF OneTshark
  <2>4. CASE running = {starts}
    BY <2>2, <2>4 DEF OneTshark
  <2> QED BY <2>1, <2>3, <2>4
<1> QED BY <1>1, ProcessCorrect, PTL

-----------------------------------------------------------------------------
(* The errors.                                                             *)

\* While the handler is installed nothing has been reported, and a process that
\* sniffer_parser_parse_data still writes to without a reader has exited by itself.
ErrorInv ==
  /\ ProcessInv
  /\ errors \in {0, 1}
  /\ sigpipe = "handler" => errors = 0
  /\ errors = 1 => starts \in crashed
  /\ sigpipe = "handler" /\ handle["pdumper"] = "live" /\ ~Alive => starts \in crashed

LEMMA ErrorStep ==
  ASSUME ErrorInv, [Next]_vars
  PROVE  ErrorInv'
<1>1. ProcessInv /\ ProcessInv' /\ Typed
  BY ProcessStep DEF ErrorInv, ProcessInv
<1>2. CASE /\ UNCHANGED <<starts, running, sigpipe, errors, crashed>>
           /\ handle'["pdumper"] = "live" => handle["pdumper"] = "live"
  BY <1>1, <1>2 DEF ErrorInv, Alive
<1>3. CASE ResetKill
  BY <1>1, <1>3 DEF ErrorInv, ProcessInv, Typed, Alive, ResetKill, Cleared, boundVars, Handles
<1>4. CASE ResetSpawn
  <2>1. errors' = 0 /\ Alive'
    BY <1>4 DEF ResetSpawn, ResetRest, Spawned, Alive
  <2> QED BY <1>1, <2>1 DEF ErrorInv
<1>5. CASE ResetFails
  <2>1. errors' = 0 /\ handle'["pdumper"] # "live"
    BY <1>5 DEF ResetFails, ResetRest, Renewed, Handles
  <2> QED BY <1>1, <2>1 DEF ErrorInv
<1>6. CASE DumpTshark
  <2>1. UNCHANGED <<starts, running, crashed, handle>>
    BY <1>6 DEF DumpTshark, boundVars, handleVars
  <2>2. CASE UNCHANGED signalVars
    BY <1>1, <2>1, <2>2 DEF ErrorInv, Alive, signalVars
  <2>3. CASE handle["pdumper"] = "live" /\ ~Alive /\ DumpBroken
    BY <1>1, <2>1, <2>3 DEF ErrorInv, Alive, DumpBroken
  <2> QED BY <1>6, <2>2, <2>3 DEF DumpTshark
<1>7. CASE Exit
  BY <1>1, <1>7 DEF ErrorInv, Alive, Exit, boundVars, signalVars, handleVars
<1>8. CASE Start \/ ResetClose \/ CreateOut \/ Stop \/ Pause \/ Resume
  BY <1>1, <1>2, <1>8 DEF Start, ResetClose, CreateOut, Stop, CloseOut, Pause, Resume, SetPaused,
                          tsharkVars, signalVars, boundVars, handleVars, Typed, Handles
<1>9. CASE (\E f \in Frames : Hear(f)) \/ TestOut \/ DumpOut \/ Flush \/ Dissect
  BY <1>2, <1>9 DEF Hear, TestOut, DumpOut, Flush, Dissect, tsharkVars, signalVars, boundVars, handleVars
<1>10. CASE Poll
  BY <1>2, <1>10 DEF Poll, Call, Read, Lock, Locked, Parse, tsharkVars, signalVars, boundVars, handleVars
<1>11. CASE UNCHANGED vars
  BY <1>2, <1>11 DEF vars, tsharkVars, signalVars, boundVars, handleVars
<1> QED
  BY <1>3, <1>4, <1>5, <1>6, <1>7, <1>8, <1>9, <1>10, <1>11 DEF Next, Gui, Interface, Tshark

\* tshark_exited reports once between two resets, and never a process the program killed.
THEOREM ErrorsExplainedAlways == Spec => []ErrorsExplained
<1>1. Init => ErrorInv
  BY DEF Init, ErrorInv, ProcessInv, Typed, Alive, Handles
<1>2. ErrorInv /\ [Next]_vars => ErrorInv'
  BY ErrorStep
<1>3. ErrorInv => ErrorsExplained
  BY DEF ErrorInv, ErrorsExplained
<1> QED BY <1>1, <1>2, <1>3, PTL DEF Spec

-----------------------------------------------------------------------------
(* The handles.                                                            *)

\* As long as nothing overlaps, a reset has the handles to itself, and between two resets
\* the threads that use them find them live.
CalmInv ==
  calm =>
    /\ ~fault
    /\ handle["pdumper_out"] # "freed"
    /\ gpc \in {"clearing", "closing", "spawning", "creating"} =>
         rpc = "idle" /\ ppc = "select" /\ handle["pdumper_out"] = "null"
    /\ gpc \in {"clearing", "closing"} => handle["parser"] # "freed"
    /\ gpc = "creating" => starts > 0
    /\ gpc \notin {"clearing", "closing", "spawning"} /\ starts > 0 =>
         \A h \in Handles \ {"pdumper_out"} : handle[h] = "live"
    /\ starts = 0 => handle["parser"] = "null" \/ gpc = "spawning"
    /\ rpc # "idle" \/ ppc # "select" \/ registered => starts > 0
    /\ rpc = "file" => handle["pdumper_out"] = "live"

HandleInv == Typed /\ CalmInv

LEMMA HandleStep ==
  ASSUME HandleInv, [Next]_vars
  PROVE  HandleInv'
<1>1. Typed /\ Typed'
  BY TypedStep DEF HandleInv
<1>2. SUFFICES ASSUME calm' = TRUE PROVE CalmInv'
  BY <1>1 DEF HandleInv, CalmInv, Typed
<1> USE DEF HandleInv, Handles
<1>3. CASE Start
  <2>1. calm /\ rpc = "idle" /\ ppc = "select" /\ handle["pdumper_out"] = "null"
    BY <1>1, <1>2, <1>3 DEF Start, Overlaps, Typed
  <2> QED
    BY <1>1, <1>3, <2>1 DEF Typed, CalmInv, Start, interfaceVars, pollVars, handleVars, boundVars
<1>4. CASE ResetKill
  <2>1. calm /\ gpc = "clearing" /\ gpc' = "closing" /\ registered' = FALSE
    BY <1>2, <1>4 DEF ResetKill, Cleared
  <2>2. UNCHANGED <<rpc, ppc, fault, starts>>
    BY <1>4 DEF ResetKill, Cleared, interfaceVars, pollVars, boundVars
  <2>3. \A h \in Handles \ {"pipe_tshark_stdout"} : handle'[h] = handle[h]
    BY <1>1, <1>4 DEF ResetKill, Cleared, Typed
  <2> QED BY <2>1, <2>2, <2>3 DEF CalmInv
<1>5. CASE ResetClose
  <2>1. calm /\ gpc = "closing" /\ gpc' = "spawning" /\ UNCHANGED <<registered, rpc, ppc, starts>>
    BY <1>2, <1>5 DEF ResetClose, handleVars, historyVars, interfaceVars, pollVars, boundVars
  <2>2. ~fault'
    BY <1>5, <2>1 DEF CalmInv, ResetClose
  <2>3. handle'["pdumper_out"] = "null"
    BY <1>1, <1>5, <2>1 DEF CalmInv, Typed, ResetClose
  <2> QED BY <1>1, <2>1, <2>2, <2>3 DEF CalmInv, Typed
<1>6. CASE ResetSpawn
  <2>1. /\ \A h \in Handles \ {"pdumper_out"} : handle'[h] = "live"
        /\ handle'["pdumper_out"] = handle["pdumper_out"]
    BY <1>6 DEF ResetSpawn, Renewed
  <2>2. gpc = "spawning" /\ gpc' = "creating" /\ starts' > 0
    BY <1>1, <1>6 DEF Typed, ResetSpawn, ResetRest, Spawned
  <2>3. calm /\ UNCHANGED <<fault, rpc, ppc>>
    BY <1>2, <1>6 DEF ResetSpawn, ResetRest, interfaceVars, pollVars
  <2> QED BY <1>1, <2>1, <2>2, <2>3 DEF CalmInv, Typed
<1>7. CASE ResetFails
  BY <1>2, <1>7 DEF ResetFails
<1>8. CASE CreateOut
  <2>1. calm /\ gpc = "creating" /\ gpc' = "idle" /\ UNCHANGED <<registered, rpc, ppc, starts>>
    BY <1>2, <1>8 DEF CreateOut, historyVars, interfaceVars, pollVars, boundVars
  <2>2. ~fault'
    BY <1>8, <2>1 DEF CalmInv, CreateOut, Uses
  <2>3. handle' = [handle EXCEPT !["pdumper_out"] = "live"]
    BY <1>8 DEF CreateOut
  <2> QED BY <1>1, <2>1, <2>2, <2>3 DEF CalmInv, Typed
<1>9. CASE Stop
  <2>1. calm /\ rpc = "idle" /\ handle' = [handle EXCEPT !["pdumper_out"] = "null"]
    BY <1>1, <1>2, <1>9 DEF Stop, CloseOut, Overlaps, Typed
  <2> QED
    BY <1>1, <1>9, <2>1 DEF CalmInv, Typed, Stop, CloseOut, guiVars, interfaceVars, pollVars, boundVars
<1>10. CASE Pause \/ Resume
  BY <1>1, <1>2, <1>10 DEF CalmInv, Pause, Resume, SetPaused, historyVars, interfaceVars, pollVars,
                           handleVars
<1>11. CASE Interface
  <2>1. UNCHANGED <<gpc, ppc, handle, registered, starts>> /\ calm
    BY <1>1, <1>2, <1>11 DEF Interface, Hear, DumpTshark, TestOut, DumpOut, Flush, guiVars, pollVars,
                             handleVars, boundVars, historyVars, Typed
  <2>2. CASE \E f \in Frames : Hear(f)
    <3>1. gpc \in {"idle", "paused"} /\ starts > 0 /\ rpc' # "file" /\ fault' = FALSE
      BY <1>1, <1>2, <2>2 DEF Hear, Typed, interfaceVars
    <3> QED BY <2>1, <3>1 DEF CalmInv
  <2>3. CASE DumpTshark
    <3>1. rpc = "tshark" /\ rpc' = "test"
      BY <2>3 DEF DumpTshark
    <3>2. ~fault'
      BY <1>1, <2>1, <2>3, <3>1 DEF CalmInv, DumpTshark, Uses, Typed
    <3> QED BY <2>1, <3>1, <3>2 DEF CalmInv
  <2>4. CASE TestOut
    BY <1>1, <2>1, <2>4 DEF CalmInv, TestOut, Typed
  <2>5. CASE DumpOut
    BY <1>1, <2>1, <2>5 DEF CalmInv, DumpOut, Uses
  <2>6. CASE Flush
    <3>1. rpc = "flush" /\ rpc' = "idle" BY <2>6 DEF Flush
    <3>2. ~fault' BY <1>1, <2>1, <2>6, <3>1 DEF CalmInv, Flush, Typed
    <3> QED BY <2>1, <3>1, <3>2 DEF CalmInv
  <2> QED BY <1>11, <2>2, <2>3, <2>4, <2>5, <2>6 DEF Interface
<1>12. CASE Tshark
  BY <1>1, <1>2, <1>12 DEF CalmInv, Tshark, Dissect, Exit, guiVars, interfaceVars, pollVars,
                           handleVars, boundVars, historyVars
<1>13. CASE Poll
  <2>1. UNCHANGED <<gpc, rpc, handle, registered, starts>> /\ calm
    BY <1>1, <1>2, <1>13 DEF Poll, Call, Read, Lock, Locked, Parse, Overlaps, guiVars, interfaceVars,
                             handleVars, boundVars, historyVars, Typed
  <2>2. CASE Call
    <3>1. gpc \in {"idle", "paused"} /\ registered /\ UNCHANGED fault
      BY <1>1, <1>2, <2>2 DEF Call, Overlaps, Typed
    <3> QED BY <2>1, <3>1 DEF CalmInv
  <2>3. CASE Read
    <3>1. ppc = "read" /\ ~fault'
      BY <1>1, <2>1, <2>3 DEF CalmInv, Read, Typed
    <3> QED BY <2>1, <3>1 DEF CalmInv
  <2>4. CASE Lock
    BY <1>1, <2>1, <2>4 DEF CalmInv, Lock, Locked
  <2>5. CASE Parse
    <3>1. ppc = "parse" /\ ~fault'
      BY <1>1, <2>1, <2>5 DEF CalmInv, Parse, Uses, Typed
    <3> QED BY <2>1, <3>1 DEF CalmInv
  <2> QED BY <1>13, <2>2, <2>3, <2>4, <2>5 DEF Poll
<1>14. CASE UNCHANGED vars
  BY <1>1, <1>2, <1>14 DEF CalmInv, vars, guiVars, interfaceVars, pollVars, handleVars, boundVars,
                           historyVars
<1> QED
  BY <1>3, <1>4, <1>5, <1>6, <1>7, <1>8, <1>9, <1>10, <1>11, <1>12, <1>13, <1>14 DEF Next, Gui

\* The only uses of a dangling or NULL handle are those of a start or a stop that overlaps
\* a frame, a callback or a running capture, or follows a failed spawn.
THEOREM NoFaultAlways == Spec => []NoFault
<1>1. Init => HandleInv
  BY DEF Init, HandleInv, CalmInv, Typed, Handles
<1>2. HandleInv /\ [Next]_vars => HandleInv'
  BY HandleStep
<1>3. HandleInv => NoFault
  BY DEF HandleInv, CalmInv, NoFault
<1> QED BY <1>1, <1>2, <1>3, PTL DEF Spec

-----------------------------------------------------------------------------
(* The capture file.                                                       *)

Pasts == [heard : Seq(Frames), passed : Seq(Frames), sent : Seq(Frames), parsed : Seq(Frames)]
Tags == [frame : Frames, end : BOOLEAN, by : Nat]

\* Types of what goes from hand to hand, and that a frame is in hand exactly while its
\* delivery goes on.
Carried ==
  /\ HandleInv
  /\ frame \in Frames \cup {None} /\ (rpc \in {"idle", "flush"} <=> frame = None)
  /\ file \in Seq(Frames) /\ stdin \in Seq(Frames)
  /\ chunk \in Seq(Tags) /\ stdout \in Seq(Tags) /\ (ppc \in {"lock", "parse"} => chunk # <<>>)
  /\ halfway \in BOOLEAN
  /\ past \in Pasts

LEMMA PastFields ==
  ASSUME NEW S, NEW q \in [heard : S, passed : S, sent : S, parsed : S], NEW v \in S
  PROVE  /\ [q EXCEPT !.heard = v] \in [heard : S, passed : S, sent : S, parsed : S]
         /\ [q EXCEPT !.passed = v] \in [heard : S, passed : S, sent : S, parsed : S]
         /\ [q EXCEPT !.sent = v] \in [heard : S, passed : S, sent : S, parsed : S]
         /\ [q EXCEPT !.parsed = v] \in [heard : S, passed : S, sent : S, parsed : S]
BY SMT

LEMMA PastUpdates ==
  ASSUME NEW q \in Pasts, NEW v \in Seq(Frames)
  PROVE  /\ [q EXCEPT !.heard = v] \in Pasts /\ [q EXCEPT !.passed = v] \in Pasts
         /\ [q EXCEPT !.sent = v] \in Pasts /\ [q EXCEPT !.parsed = v] \in Pasts
BY PastFields, Zenon DEF Pasts

\* No packet is given to a second hand before the first has it: the sequences are typed.
LEMMA CarriedStep ==
  ASSUME Carried, [Next]_vars
  PROVE  Carried'
<1>1. HandleInv' /\ Typed /\ calm \in BOOLEAN /\ calm' \in BOOLEAN
  BY HandleStep DEF Carried, HandleInv, Typed
<1>2. NoPast \in Pasts BY DEF NoPast, Pasts
<1>3. \A so : Overlaps(so) => past' \in Pasts BY <1>2 DEF Carried, Overlaps
<1>4. None \notin Frames /\ <<>> \in Seq(Frames) /\ <<>> \in Seq(Tags) BY FramesAssumption, EmptySeq
<1>5. CASE Start \/ Stop
  BY <1>1, <1>4, <1>3, <1>5 DEF Carried, Start, Stop, CloseOut, guiVars, interfaceVars, pollVars, tsharkVars, storeVars
<1>6. CASE ResetKill
  <2>1. past' = [past EXCEPT !.heard = <<>>, !.passed = <<>>] /\ past \in Pasts
    BY <1>6 DEF ResetKill, Cleared, Carried
  <2>2. [past EXCEPT !.heard = <<>>] \in Pasts BY <1>4, <2>1, PastUpdates
  <2>3. past' \in Pasts BY <1>4, <2>1, <2>2, PastUpdates
  <2> QED BY <1>1, <1>4, <1>6, <2>3 DEF Carried, ResetKill, Cleared, interfaceVars, pollVars
<1>7. CASE ResetClose \/ CreateOut \/ Pause \/ Resume
  BY <1>1, <1>4, <1>7 DEF Carried, ResetClose, CreateOut, Pause, Resume, SetPaused, interfaceVars, pollVars,
                    tsharkVars, storeVars, historyVars
<1>8. CASE ResetRest /\ HandleInv'
  <2>1. past' = [past EXCEPT !.sent = <<>>, !.parsed = <<>>] /\ past \in Pasts
    BY <1>8 DEF ResetRest, Carried
  <2>2. [past EXCEPT !.sent = <<>>] \in Pasts BY <1>4, <2>1, PastUpdates
  <2>3. past' \in Pasts BY <1>4, <2>1, <2>2, PastUpdates
  <2> QED BY <1>1, <1>4, <1>8, <2>3 DEF Carried, ResetRest, interfaceVars, pollVars, storeVars
<1>9. CASE \E f \in Frames : Hear(f)
  <2> PICK f \in Frames : Hear(f) BY <1>9
  <2>2. past' \in Pasts
    <3> DEFINE heard == Append(past.heard, f)
               passed == IF rpc' = "idle" THEN past.passed ELSE Append(past.passed, f)
    <3>1. past' \in {NoPast, [past EXCEPT !.heard = heard, !.passed = passed]} BY DEF Hear
    <3>2. heard \in Seq(Frames) /\ passed \in Seq(Frames) BY DEF Carried, Pasts
    <3> HIDE DEF heard, passed
    <3>3. [past EXCEPT !.heard = heard] \in Pasts BY <3>2, PastUpdates DEF Carried
    <3>4. [past EXCEPT !.heard = heard, !.passed = passed] \in Pasts BY <3>2, <3>3, PastUpdates
    <3> QED BY <1>2, <3>1, <3>4
  <2>3. frame' \in Frames \cup {None} /\ (rpc' \in {"idle", "flush"} <=> frame' = None)
    BY <1>4 DEF Hear, Carried, interfaceVars
  <2> QED BY <1>1, <1>4, <2>2, <2>3 DEF Hear, Carried, pollVars, tsharkVars, boundVars
<1>10. CASE DumpTshark
  <2>1. frame \in Frames BY <1>10 DEF DumpTshark, Carried
  <2>2. stdin' \in Seq(Frames)
    <3>1. Append(stdin, frame) \in Seq(Frames) BY <2>1, AppendProperties DEF Carried
    <3>2. stdin' \in {stdin, Append(stdin, frame)} BY <1>10 DEF DumpTshark
    <3> QED BY <3>1, <3>2 DEF Carried
  <2>3. past' \in Pasts
    <3> DEFINE sent == Append(past.sent, frame)
    <3>1. past' \in {past, [past EXCEPT !.sent = sent]} BY <1>10 DEF DumpTshark
    <3>2. sent \in Seq(Frames) BY <2>1 DEF Carried, Pasts
    <3> HIDE DEF sent
    <3> QED BY <3>1, <3>2, PastUpdates DEF Carried
  <2> QED BY <1>1, <1>4, <1>10, <2>1, <2>2, <2>3 DEF DumpTshark, Carried, guiVars, pollVars, storeVars
<1>11. CASE TestOut
  BY <1>1, <1>4, <1>11 DEF TestOut, Carried, guiVars, pollVars, tsharkVars, storeVars, historyVars
<1>17. CASE DumpOut
  <2>1. frame \in Frames BY <1>17 DEF DumpOut, Carried
  <2>2. Append(file, frame) \in Seq(Frames) BY <2>1, AppendProperties DEF Carried
  <2> QED BY <1>1, <1>4, <1>17, <2>2 DEF DumpOut, Carried, guiVars, pollVars, tsharkVars, historyVars
<1>18. CASE Flush
  BY <1>1, <1>4, <1>18 DEF Flush, Carried, guiVars, pollVars, tsharkVars, storeVars, historyVars
<1>12. CASE Tshark
  <2>1. CASE Dissect
    <3>1. Head(stdin) \in Frames /\ Tail(stdin) \in Seq(Frames) BY <2>1 DEF Dissect, Carried
    <3>2. [frame |-> Head(stdin), end |-> halfway, by |-> starts] \in Tags
      BY <1>1, <1>4, <3>1 DEF Carried, Tags, Typed
    <3>3. Append(stdout, [frame |-> Head(stdin), end |-> halfway, by |-> starts]) \in Seq(Tags)
      BY <3>2, AppendProperties DEF Carried
    <3>4. halfway' \in BOOLEAN BY <2>1 DEF Dissect, Carried
    <3>5. stdin' \in Seq(Frames) /\ stdout' \in Seq(Tags) BY <2>1, <3>1, <3>3 DEF Dissect, Carried
    <3> QED BY <1>1, <1>4, <2>1, <3>4, <3>5 DEF Dissect, Carried, interfaceVars, pollVars, storeVars, historyVars
  <2>2. CASE Exit
    BY <1>1, <1>4, <2>2 DEF Exit, Carried, interfaceVars, pollVars, storeVars, historyVars
  <2> QED BY <1>12, <2>1, <2>2 DEF Tshark
<1>13. CASE Call \/ Lock
  BY <1>1, <1>4, <1>3, <1>13 DEF Call, Lock, Locked, Carried, interfaceVars, tsharkVars, storeVars, historyVars
<1>14. CASE Read
  <2>1. chunk' \in Seq(Tags) /\ stdout' \in Seq(Tags) /\ (ppc' \in {"lock", "parse"} => chunk' # <<>>)
    <3>1. CASE UNCHANGED <<chunk, stdout>> /\ ppc' = "select" BY <3>1 DEF Carried
    <3>2. CASE \E n \in 1..ReadSize :
                 /\ n <= Len(stdout)
                 /\ chunk' = SubSeq(stdout, 1, n) /\ stdout' = SubSeq(stdout, n + 1, Len(stdout))
                 /\ ppc' = "lock"
      <4> PICK n \in 1..ReadSize :
                 /\ n <= Len(stdout)
                 /\ chunk' = SubSeq(stdout, 1, n) /\ stdout' = SubSeq(stdout, n + 1, Len(stdout))
        BY <3>2
      <4>1. stdout \in Seq(Tags) /\ n \in 1..Len(stdout) BY SizesAssumption DEF Carried
      <4>2. chunk' \in Seq(Tags) /\ Len(chunk') = n BY <4>1, SubSeqProperties
      <4>3. stdout' \in Seq(Tags) BY <4>1, SubSeqProperties
      <4> QED BY <4>1, <4>2, <4>3
    <3> QED BY <1>14, <3>1, <3>2 DEF Read
  <2> QED BY <1>1, <1>4, <1>14, <2>1 DEF Read, Carried, interfaceVars, storeVars, historyVars
<1>15. CASE Parse
  <2>1. chunk \in Seq(Tags) /\ chunk # <<>> BY <1>15 DEF Parse, Carried
  <2>2. Head(chunk) \in Tags /\ chunk' \in Seq(Tags) /\ (ppc' = "parse" => chunk' # <<>>)
    <3>1. Head(chunk) \in Tags /\ Tail(chunk) \in Seq(Tags) /\ Len(Tail(chunk)) = Len(chunk) - 1
      BY <2>1, HeadTailProperties
    <3>2. Len(chunk) # 1 => Tail(chunk) # <<>>
      <4>1. Len(<<>>) = 0 OBVIOUS
      <4>2. Tail(chunk) = <<>> => Len(chunk) - 1 = 0 BY <3>1, <4>1
      <4>3. Len(chunk) \in Nat BY <2>1
      <4> QED BY <4>2, <4>3
    <3> QED BY <1>15, <3>1, <3>2 DEF Parse
  <2>3. past' \in Pasts
    <3> DEFINE parsed == Append(past.parsed, Head(chunk).frame)
    <3>1. past' \in {past, [past EXCEPT !.parsed = parsed]} BY <1>15 DEF Parse
    <3>2. parsed \in Seq(Frames) BY <2>2 DEF Carried, Pasts, Tags
    <3> HIDE DEF parsed
    <3> QED BY <3>1, <3>2, PastUpdates DEF Carried
  <2> QED BY <1>1, <1>4, <1>15, <2>2, <2>3 DEF Parse, Carried, interfaceVars, tsharkVars, storeVars
<1>16. CASE UNCHANGED vars
  BY <1>1, <1>4, <1>16 DEF Carried, vars, guiVars, interfaceVars, pollVars, tsharkVars, storeVars, historyVars
<1> QED
  BY <1>1, <1>4, <1>5, <1>6, <1>7, <1>8, <1>9, <1>10, <1>11, <1>12, <1>13, <1>14, <1>15, <1>16, <1>17,
     <1>18 DEF Next, Gui, Interface, Poll, ResetSpawn, ResetFails


\* The frame in the hands of the interface thread, as a sequence.
InHand == IF frame = None THEN <<>> ELSE <<frame>>

\* A reset that nothing overlaps keeps the list of passed frames empty until the new file
\* is open; from then on the file lags behind the filter by the frame in hand.
FileInv ==
  /\ Carried
  /\ calm /\ gpc \in {"closing", "spawning", "creating"} => past.passed = <<>>
  /\ calm /\ handle["pdumper_out"] = "live" => file \o InHand = past.passed

LEMMA FileStep ==
  ASSUME FileInv, [Next]_vars
  PROVE  FileInv'
<1>1. Carried /\ Carried' BY CarriedStep DEF FileInv
<1>2. HandleInv /\ Typed /\ Typed' /\ CalmInv /\ CalmInv' /\ calm \in BOOLEAN /\ calm' \in BOOLEAN
  BY <1>1 DEF Carried, HandleInv, Typed
<1>3. SUFFICES ASSUME calm' = TRUE
      PROVE  /\ gpc' \in {"closing", "spawning", "creating"} => past'.passed = <<>>
             /\ handle'["pdumper_out"] = "live" => file' \o InHand' = past'.passed
  BY <1>1, <1>2 DEF FileInv
<1> DEFINE Same == /\ UNCHANGED <<gpc, frame, file>> /\ calm /\ past'.passed = past.passed
                   /\ handle'["pdumper_out"] = handle["pdumper_out"]
<1>4. CASE Same BY <1>4 DEF FileInv, InHand
<1>5. CASE Start
  <2>1. calm /\ gpc' = "clearing" /\ handle' = handle /\ handle["pdumper_out"] = "null"
    BY <1>2, <1>3, <1>5 DEF Start, Overlaps, handleVars
  <2> QED BY <2>1
<1>6. CASE ResetKill
  <2>1. calm /\ gpc = "clearing" /\ handle'["pdumper_out"] = handle["pdumper_out"]
    BY <1>2, <1>3, <1>6 DEF ResetKill, Cleared, Typed, Handles
  <2>2. past'.passed = <<>> BY <1>1, <1>6, SMT DEF ResetKill, Cleared, Carried, Pasts
  <2> QED BY <1>2, <2>1, <2>2 DEF CalmInv
<1>7. CASE ResetClose
  <2>1. calm /\ gpc = "closing" /\ gpc' = "spawning" /\ past' = past
    BY <1>3, <1>7 DEF ResetClose, historyVars
  <2> QED BY <1>2, <1>3, <2>1 DEF FileInv, CalmInv
<1>8. CASE ResetSpawn \/ ResetFails
  <2>1. gpc = "spawning" /\ gpc' = "creating" /\ calm
    BY <1>3, <1>8 DEF ResetSpawn, ResetFails, ResetRest
  <2>2. past'.passed = past.passed
    <3>1. past' = [past EXCEPT !.sent = <<>>, !.parsed = <<>>]
      BY <1>8 DEF ResetSpawn, ResetFails, ResetRest
    <3>2. past \in Pasts BY <1>1 DEF Carried
    <3> QED BY <3>1, <3>2, SMT DEF Pasts
  <2> QED BY <1>2, <1>3, <2>1, <2>2 DEF FileInv, CalmInv
<1>9. CASE CreateOut
  <2>1. gpc = "creating" /\ gpc' = "idle" /\ calm /\ past' = past /\ file' = <<>> /\ rpc' = rpc /\ frame' = frame
    BY <1>3, <1>9 DEF CreateOut, historyVars, interfaceVars
  <2>2. frame = None /\ past.passed = <<>> BY <1>1, <1>2, <2>1 DEF CalmInv, FileInv, Carried
  <2>3. <<>> \o <<>> = <<>> OBVIOUS
  <2> QED BY <2>1, <2>2, <2>3 DEF InHand
<1>10. CASE Stop
  <2>1. handle'["pdumper_out"] = "null" /\ gpc' = gpc /\ calm /\ past' = past
    BY <1>2, <1>3, <1>10 DEF Stop, CloseOut, Overlaps, guiVars, Typed, Handles
  <2> QED BY <2>1 DEF FileInv
<1>11. CASE Pause \/ Resume
  <2>1. gpc' \in {"idle", "paused"} /\ UNCHANGED <<frame, file, calm, past, handle>>
    BY <1>11 DEF Pause, Resume, SetPaused, interfaceVars, storeVars, historyVars, handleVars
  <2> QED BY <1>3, <2>1 DEF FileInv, InHand
<1>12. CASE \E f \in Frames : Hear(f)
  <2> PICK f \in Frames : Hear(f) BY <1>12
  <2>1. /\ calm /\ gpc' = gpc /\ gpc \in {"idle", "paused"} /\ frame = None /\ UNCHANGED <<file, handle>>
        /\ past.passed \in Seq(Frames) /\ file \in Seq(Frames)
    BY <1>1, <1>2, <1>3 DEF Hear, guiVars, handleVars, Carried, Pasts
  <2>2. CASE rpc' = "idle"
    <3>1. past'.passed = past.passed BY <1>1, <1>3, <2>2, SMT DEF Hear, Carried, Pasts
    <3>2. frame' = None BY <1>1, <2>2 DEF Carried
    <3> QED BY <2>1, <3>1, <3>2 DEF FileInv, InHand
  <2>3. CASE rpc' # "idle"
    <3>1. past'.passed = Append(past.passed, f) BY <1>1, <1>3, <2>3, SMT DEF Hear, Carried, Pasts
    <3>2. rpc = "idle" BY DEF Hear
    <3>3. frame' = f BY <2>3, <3>2 DEF Hear, interfaceVars
    <3>4. f # None BY FramesAssumption
    <3>5. file \o <<>> = file /\ file \o <<f>> = Append(file, f) BY <2>1, ConcatEmptySeq, AppendIsConcat
    <3> QED BY <2>1, <3>1, <3>3, <3>4, <3>5 DEF FileInv, InHand
  <2> QED BY <2>2, <2>3
<1>13. CASE DumpTshark
  <2>1. past'.passed = past.passed BY <1>1, <1>13, SMT DEF DumpTshark, Carried, Pasts
  <2>2. Same BY <1>3, <1>13, <2>1 DEF DumpTshark, guiVars, handleVars, storeVars
  <2> QED BY <1>4, <2>2
<1>14. CASE TestOut
  <2>1. UNCHANGED <<gpc, calm, past, handle, file>> BY <1>14 DEF TestOut, guiVars, historyVars, handleVars, storeVars
  <2>2. handle["pdumper_out"] # "null" => frame' = frame BY <1>14 DEF TestOut
  <2> QED BY <1>3, <2>1, <2>2 DEF FileInv, InHand
<1>15. CASE DumpOut
  <2>1. /\ UNCHANGED <<gpc, calm, past, handle>> /\ frame \in Frames /\ frame' = None
        /\ file' = Append(file, frame) /\ file \in Seq(Frames) /\ file' \in Seq(Frames)
    BY <1>1, <1>15 DEF DumpOut, Carried, guiVars, historyVars, handleVars
  <2>2. file \o <<frame>> = file' /\ file' \o <<>> = file'
    BY <2>1, AppendIsConcat, ConcatEmptySeq
  <2> QED BY <1>3, <2>1, <2>2, FramesAssumption DEF FileInv, InHand
<1>19. CASE Flush
  <2>1. Same BY <1>3, <1>19 DEF Flush, guiVars, handleVars, historyVars, storeVars
  <2> QED BY <1>4, <2>1
<1>16. CASE Tshark
  <2>1. Same BY <1>3, <1>16 DEF Tshark, Dissect, Exit, guiVars, handleVars, historyVars, interfaceVars, storeVars
  <2> QED BY <1>4, <2>1
<1>17. CASE Poll
  <2>1. past'.passed = past.passed /\ calm
    <3>1. CASE Call BY <1>2, <1>3, <3>1 DEF Call, Overlaps
    <3>2. CASE Read \/ Lock BY <1>3, <3>2 DEF Read, Lock, Locked, historyVars
    <3>3. CASE Parse BY <1>1, <1>3, <3>3, SMT DEF Parse, Carried, Pasts
    <3> QED BY <1>17, <3>1, <3>2, <3>3 DEF Poll
  <2>2. Same
    BY <1>17, <2>1 DEF Poll, Call, Read, Lock, Locked, Parse, guiVars, handleVars, interfaceVars, storeVars
  <2> QED BY <1>4, <2>2
<1>18. CASE UNCHANGED vars
  <2>1. Same BY <1>3, <1>18 DEF vars, guiVars, handleVars, historyVars, interfaceVars, storeVars
  <2> QED BY <1>4, <2>1
<1> QED
  BY <1>5, <1>6, <1>7, <1>8, <1>9, <1>10, <1>11, <1>12, <1>13, <1>14, <1>15, <1>16, <1>17, <1>18,
     <1>19 DEF Next, Gui, Interface

\* Whatever happens to tshark, the capture file written by sniffer_parser_parse_data is the
\* list of the frames that passed the filter since the file was opened.
THEOREM FileExactAlways == Spec => []FileExact
<1>1. Init => FileInv
  <2> SUFFICES ASSUME Init PROVE FileInv OBVIOUS
  <2>1. HandleInv BY DEF Init, HandleInv, CalmInv, Typed, Handles
  <2>2. NoPast \in Pasts /\ <<>> \in Seq(Frames) /\ <<>> \in Seq(Tags) BY EmptySeq DEF NoPast, Pasts
  <2>3. handle["pdumper_out"] = "null" /\ gpc = "idle" BY DEF Init, Handles
  <2> QED BY <2>1, <2>2, <2>3 DEF Init, FileInv, Carried
<1>2. FileInv /\ [Next]_vars => FileInv' BY FileStep
<1>3. FileInv => FileExact BY DEF FileInv, FileExact, InHand
<1> QED BY <1>1, <1>2, <1>3, PTL DEF Spec

-----------------------------------------------------------------------------
(* Sequences read at a set of positions.  A list enumerates the positions  *)
(* in order, so that counting them becomes a position in the list.         *)

\* e lists the n numbers of N in ascending order.
Lists(e, n, N) ==
  /\ n \in Nat /\ e \in [1..n -> Int] /\ N = {e[k] : k \in 1..n}
  /\ \A a, b \in 1..n : a < b => e[a] < e[b]

\* The elements of N up to i and from i on, and the values of e from lo to hi.
UpTo(N, i) == {j \in N : j <= i}
From(N, i) == {j \in N : j >= i}
Piece(e, lo, hi) == {e[i] : i \in lo..hi}

\* Positions and numbers have the same order.
LEMMA ListOrder ==
  ASSUME NEW n, NEW N, NEW e, Lists(e, n, N), NEW a \in 1..n, NEW b \in 1..n
  PROVE  e[a] \in Int /\ e[a] \in N /\ (e[a] <= e[b] <=> a <= b) /\ (e[a] = e[b] <=> a = b)
<1>1. e[a] \in Int /\ e[b] \in Int /\ a \in Int /\ b \in Int BY DEF Lists
<1>2. a < b \/ a = b \/ b < a BY <1>1
<1>3. a < b => e[a] < e[b] BY DEF Lists
<1>4. b < a => e[b] < e[a] BY DEF Lists
<1>5. e[a] \in N BY DEF Lists
<1> QED BY <1>1, <1>2, <1>3, <1>4, <1>5

\* A piece of the list has as many elements as positions.
LEMMA ListPiece ==
  ASSUME NEW n, NEW N, NEW e, Lists(e, n, N), NEW lo \in 1..n + 1, NEW hi \in 0..n
  PROVE  /\ IsFiniteSet(Piece(e, lo, hi))
         /\ Cardinality(Piece(e, lo, hi)) = IF lo > hi THEN 0 ELSE hi - lo + 1
<1> DEFINE T == Piece(e, lo, hi)
           g == [i \in lo..hi |-> e[i]]
<1>0. lo..hi \subseteq 1..n BY DEF Lists
<1>1. g \in [lo..hi -> T] BY DEF Piece
<1>2. \A a, b \in lo..hi : g[a] = g[b] => a = b BY <1>0, ListOrder
<1>3. \A t \in T : \E a \in lo..hi : g[a] = t BY DEF Piece
<1>4. g \in Bijection(lo..hi, T)
  <2> HIDE DEF g, T
  <2> QED BY <1>1, <1>2, <1>3 DEF Bijection, Injection, Surjection, IsInjective
<1>5. ExistsBijection(lo..hi, T) BY <1>4 DEF ExistsBijection
<1>6. IsFiniteSet(lo..hi) /\ Cardinality(lo..hi) = IF lo > hi THEN 0 ELSE hi - lo + 1 BY FS_Interval
<1> QED BY <1>5, <1>6, FS_Bijection

\* Positions count the elements on either side.
LEMMA ListCounts ==
  ASSUME NEW n, NEW N, NEW e, Lists(e, n, N)
  PROVE  /\ IsFiniteSet(N) /\ Cardinality(N) = n
         /\ \A k \in 1..n : /\ Cardinality(UpTo(N, e[k])) = k
                            /\ Cardinality(From(N, e[k])) = n - k + 1
<1>0. n \in Nat BY DEF Lists
<1>3. IsFiniteSet(N) /\ Cardinality(N) = n
  <2>1. N = Piece(e, 1, n) BY DEF Lists, Piece
  <2>2. IsFiniteSet(N) /\ Cardinality(N) = IF 1 > n THEN 0 ELSE n - 1 + 1
    <3>1. 1 \in 1..n + 1 /\ n \in 0..n BY <1>0
    <3> QED BY <2>1, <3>1, ListPiece
  <2> QED BY <1>0, <2>2
<1>4. ASSUME NEW k \in 1..n
      PROVE  Cardinality(UpTo(N, e[k])) = k /\ Cardinality(From(N, e[k])) = n - k + 1
  <2>0. N = {e[i] : i \in 1..n} BY DEF Lists
  <2>a. \A i \in 1..n : e[i] \in N /\ e[i] \in Int /\ (e[i] <= e[k] <=> i <= k) /\ (e[i] >= e[k] <=> i >= k)
    <3> TAKE i \in 1..n
    <3>1. e[i] \in N /\ e[i] \in Int /\ (e[i] <= e[k] <=> i <= k) BY ListOrder
    <3>2. e[k] \in Int /\ (e[k] <= e[i] <=> k <= i) BY ListOrder
    <3> QED BY <1>0, <3>1, <3>2
  <2>1. UpTo(N, e[k]) = Piece(e, 1, k) BY <1>0, <2>0, <2>a DEF UpTo, Piece
  <2>2. From(N, e[k]) = Piece(e, k, n) BY <1>0, <2>0, <2>a DEF From, Piece
  <2>4. 1 \in 1..n + 1 /\ k \in 1..n + 1 /\ k \in 0..n /\ n \in 0..n BY <1>0
  <2>5. Cardinality(UpTo(N, e[k])) = IF 1 > k THEN 0 ELSE k - 1 + 1 BY <2>1, <2>4, ListPiece
  <2>6. Cardinality(From(N, e[k])) = IF k > n THEN 0 ELSE n - k + 1 BY <2>2, <2>4, ListPiece
  <2> QED BY <1>0, <2>5, <2>6
<1> QED BY <1>3, <1>4

\* h read along the list e, and so what At is.
Via(h, e, n) == [k \in 1..n |-> h[e[k]]]

LEMMA AtLists ==
  ASSUME NEW n, NEW N, NEW e, Lists(e, n, N), NEW h
  PROVE  At(h, N) = Via(h, e, n)
<1>1. Cardinality(N) = n BY ListCounts
<1>2. ASSUME NEW k \in 1..n
      PROVE  (CHOOSE i \in N : Cardinality(UpTo(N, i)) = k) = e[k]
  <2>1. e[k] \in N /\ Cardinality(UpTo(N, e[k])) = k BY ListCounts, ListOrder
  <2>2. \A i \in N : Cardinality(UpTo(N, i)) = k => i = e[k]
    <3> TAKE i \in N
    <3> PICK m \in 1..n : e[m] = i BY DEF Lists
    <3>1. Cardinality(UpTo(N, e[m])) = m BY ListCounts
    <3> QED BY <3>1
  <2> QED BY <2>1, <2>2
<1>3. At(h, N) = [k \in 1..Cardinality(N) |-> h[CHOOSE i \in N : Cardinality(UpTo(N, i)) = k]] BY DEF At, UpTo
<1> QED BY <1>1, <1>2, <1>3 DEF Via

-----------------------------------------------------------------------------
(* The duplicate filter.                                                   *)

\* Of m positions, the ones too old for the filter; and what it keeps of h along e.
Skip(m) == IF m > LastPackets THEN m - LastPackets ELSE 0

Shown(h, e, m) == [k \in 1..m - Skip(m) |-> h[e[k + Skip(m)]]]

LEMMA RecentLists ==
  ASSUME NEW h, NEW n, NEW e, NEW m, Lists(e, m, LastOnes(h, n))
  PROVE  Recent(h, n) = Shown(h, e, m)
<1> DEFINE L == LastOnes(h, n)
           d == Skip(m)
           newest == {i \in L : Cardinality(From(L, i)) <= LastPackets}
           g == [k \in 1..m - d |-> e[k + d]]
<1>1. m \in Nat /\ d \in 0..m /\ m - d \in Nat /\ \A k \in 1..m : m - k + 1 <= LastPackets <=> k > d
  BY SizesAssumption DEF Lists, Skip
<1>2. Recent(h, n) = At(h, newest) BY DEF Recent, From
<1> HIDE DEF d
<1>3. Lists(g, m - d, newest)
  <2>1. \A k \in 1..m : e[k] \in L /\ Cardinality(From(L, e[k])) = m - k + 1 BY ListOrder, ListCounts
  <2>2. \A i \in L : \E k \in 1..m : e[k] = i BY DEF Lists
  <2>3. \A k \in 1..m - d : k + d \in 1..m /\ k + d > d /\ g[k] = e[k + d] BY <1>1
  <2>4. \A k \in 1..m - d : g[k] \in newest /\ g[k] \in Int BY <1>1, <2>1, <2>3, ListOrder
  <2>5. \A i \in newest : \E k \in 1..m - d : g[k] = i
    <3> TAKE i \in newest
    <3> PICK k \in 1..m : e[k] = i BY <2>2
    <3>1. k > d BY <1>1, <2>1
    <3>2. k - d \in 1..m - d /\ (k - d) + d = k BY <1>1, <3>1
    <3> QED BY <2>3, <3>2
  <2>6. \A a, b \in 1..m - d : a < b => g[a] < g[b]
    <3> TAKE a, b \in 1..m - d
    <3>1. a + d \in 1..m /\ b + d \in 1..m /\ (a < b => a + d < b + d) BY <1>1
    <3> QED BY <2>3, <3>1 DEF Lists
  <2>7. g \in [1..m - d -> Int] BY <2>3, <2>4
  <2> HIDE DEF g, newest
  <2>8. newest = {g[k] : k \in 1..m - d} BY <2>4, <2>5
  <2> QED BY <1>1, <2>6, <2>7, <2>8 DEF Lists
<1>4. At(h, newest) = [k \in 1..m - d |-> h[g[k]]]
  <2> HIDE DEF g, newest
  <2> QED BY <1>3, AtLists DEF Via
<1> QED BY <1>2, <1>4 DEF d, Shown

\* The last positions of different elements, and what one more element does to them.
LEMMA LastOnesAppend ==
  ASSUME NEW h \in Seq(Frames), NEW f \in Frames
  PROVE  LET g == Append(h, f)
             n == Len(h)
         IN  /\ \A k \in 0..n : LastOnes(g, k) = LastOnes(h, k)
             /\ \A k \in 0..n : LastOnes(h, k) \subseteq 1..k
             /\ \A k \in 0..n : \A i, j \in LastOnes(h, k) : h[i] = h[j] => i = j
             /\ LastOnes(g, n + 1) = {i \in LastOnes(h, n) : h[i] # f} \cup {n + 1}
<1> DEFINE g == Append(h, f)
           n == Len(h)
<1>1. n \in Nat /\ Len(g) = n + 1 /\ (\A i \in 1..n : g[i] = h[i]) /\ g[n + 1] = f BY AppendProperties
<1> HIDE DEF g, n
<1>2. \A k \in 0..n : LastOnes(g, k) = LastOnes(h, k) BY <1>1 DEF LastOnes
<1>3. \A k \in 0..n : LastOnes(h, k) \subseteq 1..k BY DEF LastOnes
<1>4. \A k \in 0..n : \A i, j \in LastOnes(h, k) : h[i] = h[j] => i = j
  <2> TAKE k \in 0..n
  <2> TAKE i, j \in LastOnes(h, k)
  <2>1. i \in 1..k /\ j \in 1..k /\ k \in Int BY <1>1 DEF LastOnes
  <2>2. i < j => j \in i + 1..k BY <2>1
  <2>3. j < i => i \in j + 1..k BY <2>1
  <2> QED BY <2>1, <2>2, <2>3 DEF LastOnes
<1>5. LastOnes(g, n + 1) = {i \in LastOnes(h, n) : h[i] # f} \cup {n + 1}
  <2>1. n + 1 \in LastOnes(g, n + 1) BY <1>1 DEF LastOnes
  <2>2. ASSUME NEW i \in 1..n PROVE i \in LastOnes(g, n + 1) <=> i \in LastOnes(h, n) /\ h[i] # f
    <3>1. i \in 1..n + 1 /\ i + 1..n + 1 = (i + 1..n) \cup {n + 1} /\ i + 1..n \subseteq 1..n BY <1>1
    <3> QED BY <1>1, <3>1 DEF LastOnes
  <2>3. 1..n + 1 = (1..n) \cup {n + 1} /\ LastOnes(g, n + 1) \subseteq 1..n + 1 /\ LastOnes(h, n) \subseteq 1..n
    BY <1>1 DEF LastOnes
  <2> QED BY <2>1, <2>2, <2>3
<1> QED BY <1>2, <1>3, <1>4, <1>5 DEF g, n

\* A list with one number more, and one where the number replaces another.
LEMMA ListAppend ==
  ASSUME NEW e, NEW m, NEW N, Lists(e, m, N), NEW n \in Int, \A i \in N : i < n
  PROVE  Lists([k \in 1..m + 1 |-> IF k <= m THEN e[k] ELSE n], m + 1, N \cup {n})
<1> DEFINE g == [k \in 1..m + 1 |-> IF k <= m THEN e[k] ELSE n]
<1>1. m \in Nat /\ \A k \in 1..m : e[k] \in Int /\ e[k] < n BY DEF Lists
<1>2. \A k \in 1..m : k \in 1..m + 1 /\ g[k] = e[k] BY <1>1
<1>3. m + 1 \in 1..m + 1 /\ g[m + 1] = n BY <1>1
<1>4. \A k \in 1..m + 1 : k \in 1..m \/ k = m + 1 BY <1>1
<1> HIDE DEF g
<1>5. g \in [1..m + 1 -> Int] BY <1>1 DEF g
<1>6. N \cup {n} = {g[k] : k \in 1..m + 1} BY <1>2, <1>3, <1>4 DEF Lists
<1>7. \A a, b \in 1..m + 1 : a < b => g[a] < g[b] BY <1>1, <1>2, <1>3, <1>4 DEF Lists
<1> QED BY <1>1, <1>5, <1>6, <1>7 DEF Lists, g

\* Every set of positions can be listed: the least bound for which one could not would
\* have a predecessor.
LEMMA EveryListed ==
  ASSUME NEW n \in Nat, NEW N \in SUBSET (1..n)
  PROVE  \E e, m : Lists(e, m, N)
<1> DEFINE Bad == {k \in Nat : \E M \in SUBSET (1..k) : ~ \E e, m : Lists(e, m, M)}
           R == OpToRel(<, Nat)
<1>1. SUFFICES ASSUME Bad # {} PROVE FALSE
  <2>1. n \notin Bad BY <1>1
  <2> QED BY <2>1
<1>2. \A i, j \in Nat : i < j => <<i, j>> \in R BY DEF OpToRel
<1>3. IsWellFoundedOn(R, Nat) BY NatLessThanWellFounded
<1> HIDE DEF R
<1>4. PICK k \in Bad : \A j \in Bad : <<j, k>> \notin R
  <2>1. Bad \subseteq Nat OBVIOUS
  <2> HIDE DEF Bad
  <2> QED BY <1>1, <1>3, <2>1, WFMin
<1>5. PICK M \in SUBSET (1..k) : ~ \E e, m : Lists(e, m, M) BY <1>4
<1>6. k \in Nat BY <1>4
<1>7. CASE k = 0
  <2> DEFINE none == [j \in 1..0 |-> 0]
  <2>1. M = {} BY <1>7
  <2>2. Lists(none, 0, {}) BY DEF Lists
  <2> QED BY <1>5, <2>1, <2>2
<1>8. CASE k # 0
  <2>1. k - 1 \in Nat /\ k - 1 < k /\ k \in Int BY <1>6, <1>8
  <2>2. k - 1 \notin Bad BY <1>2, <1>4, <1>6, <2>1
  <2>3. M \ {k} \in SUBSET (1..k - 1) BY <1>6
  <2>4. PICK e, m : Lists(e, m, M \ {k}) BY <2>1, <2>2, <2>3
  <2>5. CASE k \notin M
    <3>1. M \ {k} = M BY <2>5
    <3> QED BY <1>5, <2>4, <3>1
  <2>6. CASE k \in M
    <3>1. \A i \in M \ {k} : i < k BY <2>1, <2>3
    <3>2. (M \ {k}) \cup {k} = M BY <2>6
    <3> HIDE DEF Bad
    <3>3. \E d, l : Lists(d, l, (M \ {k}) \cup {k}) BY <2>1, <2>4, <3>1, ListAppend
    <3> QED BY <1>5, <3>2, <3>3
  <2> QED BY <2>5, <2>6
<1> QED BY <1>7, <1>8

LEMMA ListMove ==
  ASSUME NEW e, NEW m, NEW N, Lists(e, m, N), NEW n \in Int, \A i \in N : i < n, NEW p \in 1..m
  PROVE  Lists([k \in 1..m |-> IF k < p THEN e[k] ELSE IF k < m THEN e[k + 1] ELSE n], m, (N \ {e[p]}) \cup {n})
<1> DEFINE g == [k \in 1..m |-> IF k < p THEN e[k] ELSE IF k < m THEN e[k + 1] ELSE n]
<1>1. m \in Nat /\ \A k \in 1..m : e[k] \in Int /\ e[k] < n /\ e[k] \in N BY DEF Lists
<1>2. \A k \in 1..m : k < p => g[k] = e[k] BY <1>1
<1>3. \A k \in 1..m : k >= p /\ k < m => g[k] = e[k + 1] /\ k + 1 \in 1..m BY <1>1
<1>4. m \in 1..m /\ g[m] = n BY <1>1
<1>5. \A k \in 1..m : k < p \/ (k >= p /\ k < m) \/ k = m BY <1>1
<1>6. g \in [1..m -> Int] BY <1>1
<1> HIDE DEF g
<1>7. \A a, b \in 1..m : a < b => g[a] < g[b]
  <2> TAKE a, b \in 1..m
  <2> HAVE a < b
  <2>1. a # m /\ (b < p => a < p) BY <1>1
  <2>2. CASE b = m BY <1>1, <1>2, <1>3, <1>4, <1>5, <2>1, <2>2
  <2>3. CASE b < p BY <1>1, <1>2, <2>1, <2>3 DEF Lists
  <2>4. CASE b >= p /\ b < m
    <3>1. g[b] = e[b + 1] /\ b + 1 \in 1..m BY <1>3, <2>4
    <3>2. a < p => g[a] = e[a] /\ a < b + 1 BY <1>1, <1>2
    <3>3. a >= p => g[a] = e[a + 1] /\ a + 1 < b + 1 /\ a + 1 \in 1..m BY <1>1, <1>3, <2>4
    <3>4. \A x, y \in 1..m : x < y => e[x] < e[y] BY DEF Lists
    <3>5. CASE a < p BY <3>1, <3>2, <3>4, <3>5
    <3>6. CASE a >= p BY <3>1, <3>3, <3>4, <3>6
    <3> QED BY <1>1, <3>5, <3>6
  <2> QED BY <1>5, <2>2, <2>3, <2>4
<1>8. (N \ {e[p]}) \cup {n} = {g[k] : k \in 1..m}
  <2>1. ASSUME NEW k \in 1..m PROVE g[k] \in (N \ {e[p]}) \cup {n}
    <3>1. CASE k < p BY <1>1, <1>2, <3>1, ListOrder
    <3>2. CASE k >= p /\ k < m
      <4>1. g[k] = e[k + 1] /\ k + 1 \in 1..m /\ k + 1 # p BY <1>3, <1>1, <3>2
      <4> QED BY <1>1, <4>1, ListOrder
    <3> QED BY <1>4, <1>5, <3>1, <3>2
  <2>2. ASSUME NEW i \in N \ {e[p]} PROVE \E k \in 1..m : g[k] = i
    <3> PICK k \in 1..m : e[k] = i BY DEF Lists
    <3>1. CASE k < p BY <1>2, <3>1
    <3>2. CASE k > p
      <4>1. k - 1 \in 1..m /\ k - 1 >= p /\ k - 1 < m /\ (k - 1) + 1 = k BY <1>1, <3>2
      <4> QED BY <1>3, <4>1
    <3>3. k # p OBVIOUS
    <3> QED BY <1>1, <3>1, <3>2, <3>3
  <2> QED BY <1>4, <2>1, <2>2
<1> QED BY <1>1, <1>6, <1>7, <1>8 DEF Lists, g

\* RemoveAt, position by position; and a sequence that agrees with Append everywhere is it.
LEMMA RemoveAtProperties ==
  ASSUME NEW S, NEW s \in Seq(S), NEW p \in 1..Len(s)
  PROVE  /\ RemoveAt(s, p) \in Seq(S) /\ Len(RemoveAt(s, p)) = Len(s) - 1
         /\ \A k \in 1..Len(s) - 1 : RemoveAt(s, p)[k] = IF k < p THEN s[k] ELSE s[k + 1]
<1> DEFINE n == Len(s)
           a == SubSeq(s, 1, p - 1)
           b == SubSeq(s, p + 1, n)
<1>1. n \in Nat /\ p \in 1..n /\ \A i \in 1..n : s[i] \in S BY ElementOfSeq
<1> HIDE DEF n
<1>2. a \in Seq(S) /\ Len(a) = p - 1 /\ \A i \in 1..p - 1 : a[i] = s[i]
  <2>1. 1 \in Int /\ p - 1 \in Int /\ \A i \in 1..p - 1 : s[i] \in S BY <1>1
  <2>2. /\ a \in Seq(S) /\ Len(a) = IF 1 <= p - 1 THEN (p - 1) - 1 + 1 ELSE 0
        /\ \A i \in 1..(p - 1) - 1 + 1 : a[i] = s[1 + i - 1]
    BY <2>1, SubSeqProperties
  <2> QED BY <1>1, <2>2
<1>3. b \in Seq(S) /\ Len(b) = n - p /\ \A i \in 1..n - p : b[i] = s[p + i]
  <2>1. p + 1 \in Int /\ n \in Int /\ \A i \in p + 1..n : s[i] \in S BY <1>1
  <2>2. /\ b \in Seq(S) /\ Len(b) = IF p + 1 <= n THEN n - (p + 1) + 1 ELSE 0
        /\ \A i \in 1..n - (p + 1) + 1 : b[i] = s[(p + 1) + i - 1]
    BY <2>1, SubSeqProperties
  <2> QED BY <1>1, <2>2
<1> HIDE DEF a, b
<1>4. RemoveAt(s, p) = a \o b BY DEF RemoveAt, a, b, n
<1>5. /\ a \o b \in Seq(S) /\ Len(a \o b) = (p - 1) + (n - p)
      /\ \A k \in 1..(p - 1) + (n - p) : (a \o b)[k] = IF k <= p - 1 THEN a[k] ELSE b[k - (p - 1)]
  <2>1. /\ a \o b \in Seq(S) /\ Len(a \o b) = Len(a) + Len(b)
        /\ \A k \in 1..Len(a) + Len(b) : (a \o b)[k] = IF k <= Len(a) THEN a[k] ELSE b[k - Len(a)]
    BY <1>2, <1>3, ConcatProperties
  <2> QED BY <1>2, <1>3, <2>1
<1>6. Len(a \o b) = n - 1 BY <1>1, <1>5
<1>7. ASSUME NEW k \in 1..n - 1 PROVE (a \o b)[k] = IF k < p THEN s[k] ELSE s[k + 1]
  <2>1. k \in 1..(p - 1) + (n - p) BY <1>1
  <2>2. CASE k < p
    <3>1. k \in 1..p - 1 /\ k <= p - 1 BY <1>1, <2>2
    <3> QED BY <1>2, <1>5, <2>1, <2>2, <3>1
  <2>3. CASE ~(k < p)
    <3>1. ~(k <= p - 1) /\ k - (p - 1) \in 1..n - p /\ p + (k - (p - 1)) = k + 1 BY <1>1, <2>3
    <3> QED BY <1>3, <1>5, <2>1, <2>3, <3>1
  <2> QED BY <2>2, <2>3
<1> QED BY <1>4, <1>5, <1>6, <1>7 DEF n

LEMMA IsAppend ==
  ASSUME NEW S, NEW T \in Seq(S), NEW f \in S, NEW X,
         X \in [1..Len(T) + 1 -> S], \A k \in 1..Len(T) : X[k] = T[k], X[Len(T) + 1] = f
  PROVE  X = Append(T, f)
<1>1. Append(T, f) \in Seq(S) /\ Len(Append(T, f)) = Len(T) + 1
      /\ (\A k \in 1..Len(T) : Append(T, f)[k] = T[k]) /\ Append(T, f)[Len(T) + 1] = f
  BY AppendProperties
<1>2. Append(T, f) = [k \in 1..Len(T) + 1 |-> Append(T, f)[k]] BY <1>1, LenProperties
<1>3. Len(T) \in Nat OBVIOUS
<1>4. \A k \in 1..Len(T) + 1 : X[k] = Append(T, f)[k] BY <1>1, <1>3
<1>5. X = [k \in 1..Len(T) + 1 |-> X[k]] OBVIOUS
<1> QED BY <1>2, <1>4, <1>5

\* The list of the filter after one more frame.
After(s, f) ==
  Append(IF f \in Range(s) THEN RemoveAt(s, CHOOSE i \in DOMAIN s : s[i] = f)
         ELSE IF Len(s) >= LastPackets THEN Tail(s) ELSE s, f)

\* One more frame changes the frames heard last as it changes the filter's list: a frame of
\* the list moves to the end, another one is added and may push out the first.
LEMMA RecentAppend ==
  ASSUME NEW h \in Seq(Frames), NEW f \in Frames, NEW e, NEW m, Lists(e, m, LastOnes(h, Len(h)))
  PROVE  LET g == Append(h, f)
             n == Len(h)
         IN  Recent(g, n + 1) = After(Recent(h, n), f)
<1> DEFINE g == Append(h, f)
           n == Len(h)
           L == LastOnes(h, n)
           R == Recent(h, n)
           r == m - Skip(m)
<1>1. n \in Nat /\ (\A i \in 1..n : g[i] = h[i]) /\ g[n + 1] = f BY AppendProperties
<1>2. /\ L \subseteq 1..n
      /\ \A i, j \in L : h[i] = h[j] => i = j
      /\ LastOnes(g, n + 1) = {i \in L : h[i] # f} \cup {n + 1}
  <2>1. n \in 0..n BY <1>1
  <2> QED BY <2>1, LastOnesAppend
<1> HIDE DEF g, n
<1>3. /\ m \in Nat /\ Skip(m) \in 0..m /\ r \in Nat /\ (r >= LastPackets <=> m >= LastPackets)
      /\ (m >= LastPackets => Skip(m + 1) = Skip(m) + 1) /\ (m < LastPackets => Skip(m) = 0 /\ Skip(m + 1) = 0)
  BY SizesAssumption DEF Skip, Lists
<1>4. \A k \in 1..m : e[k] \in L /\ e[k] \in 1..n /\ h[e[k]] \in Frames /\ g[e[k]] = h[e[k]]
  <2> TAKE k \in 1..m
  <2>1. e[k] \in L BY ListOrder DEF n
  <2>2. e[k] \in 1..n BY <1>2, <2>1
  <2> QED BY <1>1, <2>1, <2>2, ElementOfSeq DEF n
<1>5. \A i \in L : \E k \in 1..m : e[k] = i BY DEF Lists, n
<1>6. R = [k \in 1..r |-> h[e[k + Skip(m)]]] BY RecentLists DEF n, Shown
<1>7. \A k \in 1..r : k + Skip(m) \in 1..m BY <1>3
<1>8. R \in Seq(Frames) /\ Len(R) = r /\ DOMAIN R = 1..r /\ \A k \in 1..r : R[k] = h[e[k + Skip(m)]]
  <2>1. R \in [1..r -> Frames] BY <1>4, <1>6, <1>7
  <2> HIDE DEF R, r
  <2>2. R \in Seq(Frames) BY <1>3, <2>1
  <2>3. DOMAIN R = 1..r /\ DOMAIN R = 1..Len(R) /\ Len(R) \in Nat BY <2>1, <2>2, LenProperties
  <2>4. Len(R) = r BY <1>3, <2>3
  <2> QED BY <1>6, <2>2, <2>3, <2>4
<1>9. n + 1 \in Int /\ \A i \in L : i < n + 1 BY <1>1, <1>2
<1>10. ASSUME \A k \in 1..m : h[e[k]] # f \/ k <= Skip(m) PROVE f \notin Range(R)
  <2>1. \A k \in 1..r : R[k] # f
    <3> TAKE k \in 1..r
    <3>1. k + Skip(m) \in 1..m /\ ~(k + Skip(m) <= Skip(m)) BY <1>3, <1>7
    <3> QED BY <1>8, <1>10, <3>1
  <2> QED BY <1>8, <2>1 DEF Range
<1>11. ASSUME NEW p \in 1..m, h[e[p]] = f
       PROVE  Recent(g, n + 1) = After(R, f)
  <2> DEFINE d == [k \in 1..m |-> IF k < p THEN e[k] ELSE IF k < m THEN e[k + 1] ELSE n + 1]
  <2>1. Lists(d, m, LastOnes(g, n + 1))
    <3>1. {i \in L : h[i] # f} = L \ {e[p]} BY <1>2, <1>4, <1>11
    <3>2. LastOnes(g, n + 1) = (L \ {e[p]}) \cup {n + 1} BY <1>2, <3>1
    <3>3. Lists(e, m, L) BY DEF n
    <3> HIDE DEF L
    <3>4. Lists(d, m, (L \ {e[p]}) \cup {n + 1}) BY <1>9, <3>3, ListMove
    <3> QED BY <3>2, <3>4
  <2>2. /\ \A k \in 1..m : k < p => d[k] = e[k]
        /\ \A k \in 1..m : k >= p /\ k < m => d[k] = e[k + 1]
        /\ m \in 1..m => d[m] = n + 1
    BY <1>3
  <2> HIDE DEF d
  <2>3. Recent(g, n + 1) = [k \in 1..r |-> g[d[k + Skip(m)]]]
    <3>1. Recent(g, n + 1) = Shown(g, d, m) BY <2>1, RecentLists
    <3> QED BY <3>1 DEF Shown
  <2> DEFINE X == Recent(g, n + 1)
  <2>4. X = [k \in 1..r |-> X[k]] /\ \A k \in 1..r : X[k] = g[d[k + Skip(m)]] BY <2>3
  <2> HIDE DEF X
  <2>5. CASE p > Skip(m)
    <3> DEFINE q == p - Skip(m)
               T == RemoveAt(R, q)
    <3>1. q \in 1..r /\ q + Skip(m) = p BY <1>3, <2>5
    <3>2. R[q] = f BY <1>8, <1>11, <3>1
    <3>3. \A i \in 1..r : R[i] = f => i = q
      <4> TAKE i \in 1..r
      <4> HAVE R[i] = f
      <4>1. h[e[i + Skip(m)]] = h[e[p]] BY <1>8, <1>11
      <4>2. e[i + Skip(m)] = e[p] BY <1>2, <1>4, <1>7, <4>1
      <4>3. i + Skip(m) = p BY <1>7, <4>2, ListOrder
      <4> QED BY <1>3, <4>3
    <3>4. (CHOOSE i \in DOMAIN R : R[i] = f) = q BY <1>8, <3>1, <3>2, <3>3
    <3>5. f \in Range(R) BY <1>8, <3>1, <3>2 DEF Range
    <3>6. After(R, f) = Append(T, f) BY <3>4, <3>5 DEF After
    <3>7. T \in Seq(Frames) /\ Len(T) = r - 1 /\ \A k \in 1..r - 1 : T[k] = IF k < q THEN R[k] ELSE R[k + 1]
      <4> HIDE DEF R, r, q
      <4> QED BY <1>8, <3>1, RemoveAtProperties
    <3>8. \A k \in 1..r - 1 : X[k] = T[k]
      <4> TAKE k \in 1..r - 1
      <4>1. k \in 1..r /\ k + 1 \in 1..r /\ k + Skip(m) \in 1..m /\ k + Skip(m) < m /\ k + 1 + Skip(m) = (k + Skip(m)) + 1
        BY <1>3
      <4>2. CASE k < q
        <5>1. k + Skip(m) < p BY <1>3, <2>5, <4>2
        <5>2. X[k] = g[e[k + Skip(m)]] BY <2>2, <2>4, <4>1, <5>1
        <5> QED BY <1>4, <1>8, <3>7, <4>1, <4>2, <5>2
      <4>3. CASE ~(k < q)
        <5>1. k + Skip(m) >= p BY <1>3, <2>5, <4>3
        <5>2. X[k] = g[e[(k + Skip(m)) + 1]] BY <2>2, <2>4, <4>1, <5>1
        <5>3. T[k] = h[e[(k + Skip(m)) + 1]] BY <1>8, <3>7, <4>1, <4>3
        <5>4. (k + Skip(m)) + 1 \in 1..m BY <1>3, <4>1
        <5> QED BY <1>4, <5>2, <5>3, <5>4
      <4> QED BY <4>2, <4>3
    <3>9. X[r] = f /\ (r - 1) + 1 = r
      <4>1. r \in 1..r /\ r + Skip(m) = m /\ m \in 1..m /\ (r - 1) + 1 = r BY <1>3, <3>1
      <4> QED BY <1>1, <2>2, <2>4, <4>1
    <3> HIDE DEF T, R, r
    <3>10. X = Append(T, f)
      <4>1. X \in [1..Len(T) + 1 -> Frames]
        <5>1. \A k \in 1..r : X[k] \in Frames BY <1>3, <3>7, <3>8, <3>9
        <5> QED BY <2>4, <3>7, <3>9, <5>1
      <4> QED BY <3>7, <3>8, <3>9, <4>1, IsAppend
    <3> QED BY <3>6, <3>10 DEF X
  <2>6. CASE ~(p > Skip(m))
    <3> DEFINE T == Tail(R)
    <3>1. f \notin Range(R)
      <4>1. \A k \in 1..m : h[e[k]] = f => k = p
        <5> TAKE k \in 1..m
        <5>1. h[e[k]] = f => e[k] = e[p] BY <1>2, <1>4, <1>11
        <5> QED BY <5>1, ListOrder
      <4>2. p <= Skip(m) BY <1>3, <2>6
      <4> HIDE DEF R, r
      <4> QED BY <1>10, <4>1, <4>2
    <3>2. m > LastPackets /\ r = LastPackets /\ r >= 1 BY <1>3, <2>6, SizesAssumption DEF Skip
    <3>3. After(R, f) = Append(T, f) BY <1>8, <3>1, <3>2, SizesAssumption DEF After
    <3>4. T \in Seq(Frames) /\ Len(T) = r - 1 /\ \A k \in 1..r - 1 : T[k] = R[k + 1]
      <4>1. R # <<>> BY <1>8, <3>2
      <4> HIDE DEF R, r
      <4> QED BY <1>8, <4>1, HeadTailProperties
    <3>5. \A k \in 1..r - 1 : X[k] = T[k]
      <4> TAKE k \in 1..r - 1
      <4>1. /\ k \in 1..r /\ k + 1 \in 1..r /\ k + Skip(m) \in 1..m /\ k + Skip(m) < m /\ k + Skip(m) >= p
            /\ k + 1 + Skip(m) = (k + Skip(m)) + 1 /\ (k + Skip(m)) + 1 \in 1..m
        BY <1>3, <2>6
      <4>2. X[k] = g[e[(k + Skip(m)) + 1]] BY <2>2, <2>4, <4>1
      <4>3. T[k] = h[e[(k + Skip(m)) + 1]] BY <1>8, <3>4, <4>1
      <4> QED BY <1>4, <4>1, <4>2, <4>3
    <3>6. X[r] = f /\ (r - 1) + 1 = r
      <4>1. r \in 1..r /\ r + Skip(m) = m /\ m \in 1..m /\ (r - 1) + 1 = r BY <1>3, <3>2
      <4> QED BY <1>1, <2>2, <2>4, <4>1
    <3> HIDE DEF T, R, r
    <3>7. X = Append(T, f)
      <4>1. X \in [1..Len(T) + 1 -> Frames]
        <5>1. \A k \in 1..r : X[k] \in Frames BY <1>3, <3>4, <3>5, <3>6, ElementOfSeq
        <5> QED BY <2>4, <3>4, <3>6, <5>1
      <4> QED BY <3>4, <3>5, <3>6, <4>1, IsAppend
    <3> QED BY <3>3, <3>7 DEF X
  <2> QED BY <2>5, <2>6
<1>12. ASSUME \A k \in 1..m : h[e[k]] # f
       PROVE  Recent(g, n + 1) = After(R, f)
  <2> DEFINE d == [k \in 1..m + 1 |-> IF k <= m THEN e[k] ELSE n + 1]
             T == IF m >= LastPackets THEN Tail(R) ELSE R
             s == (m + 1) - Skip(m + 1)
  <2>1. Lists(d, m + 1, LastOnes(g, n + 1))
    <3>1. {i \in L : h[i] # f} = L BY <1>5, <1>12
    <3>2. LastOnes(g, n + 1) = L \cup {n + 1} BY <1>2, <3>1
    <3>3. Lists(e, m, L) BY DEF n
    <3> HIDE DEF L
    <3>4. Lists(d, m + 1, L \cup {n + 1}) BY <1>9, <3>3, ListAppend
    <3> QED BY <3>2, <3>4
  <2>2. (\A k \in 1..m : d[k] = e[k]) /\ d[m + 1] = n + 1 BY <1>3
  <2> HIDE DEF d
  <2>3. Recent(g, n + 1) = [k \in 1..s |-> g[d[k + Skip(m + 1)]]]
    <3>1. Recent(g, n + 1) = Shown(g, d, m + 1) BY <2>1, RecentLists
    <3> QED BY <3>1 DEF Shown
  <2> DEFINE X == Recent(g, n + 1)
  <2>4. X = [k \in 1..s |-> X[k]] /\ \A k \in 1..s : X[k] = g[d[k + Skip(m + 1)]] BY <2>3
  <2> HIDE DEF X
  <2>5. f \notin Range(R)
    <3> HIDE DEF R, r
    <3> QED BY <1>10, <1>12
  <2>6. After(R, f) = Append(T, f) BY <1>3, <1>8, <2>5 DEF After
  <2>7. T \in Seq(Frames) /\ Len(T) + 1 = s /\ \A k \in 1..Len(T) : T[k] = h[e[k + Skip(m + 1)]] /\ k + Skip(m + 1) \in 1..m
    <3>1. CASE m >= LastPackets
      <4>1. r >= 1 /\ s = r BY <1>3, <3>1, SizesAssumption
      <4>2. R # <<>> BY <1>8, <4>1
      <4>3. Tail(R) \in Seq(Frames) /\ Len(Tail(R)) = r - 1 /\ \A k \in 1..r - 1 : Tail(R)[k] = R[k + 1]
        <5> HIDE DEF R, r
        <5> QED BY <1>8, <4>2, HeadTailProperties
      <4>4. \A k \in 1..r - 1 : k + 1 \in 1..r /\ k + 1 + Skip(m) = k + Skip(m + 1) BY <1>3, <3>1
      <4>5. \A k \in 1..r - 1 : Tail(R)[k] = h[e[k + Skip(m + 1)]] /\ k + Skip(m + 1) \in 1..m
        BY <1>7, <1>8, <4>3, <4>4
      <4> QED BY <1>3, <3>1, <4>1, <4>3, <4>5
    <3>2. CASE ~(m >= LastPackets)
      <4>1. Skip(m) = 0 /\ Skip(m + 1) = 0 /\ r = m /\ s = m + 1 BY <1>3, <3>2, SizesAssumption
      <4> QED BY <1>3, <1>7, <1>8, <3>2, <4>1
    <3> QED BY <3>1, <3>2
  <2>8. \A k \in 1..Len(T) : X[k] = T[k]
    <3> TAKE k \in 1..Len(T)
    <3>1. Len(T) \in Nat BY <2>7
    <3>2. k \in 1..s BY <2>7, <3>1
    <3> HIDE DEF T, s
    <3> QED BY <1>4, <2>2, <2>4, <2>7, <3>2
  <2>9. X[Len(T) + 1] = f
    <3>1. Len(T) + 1 \in 1..s BY <2>7
    <3>2. Skip(m + 1) \in Nat BY <1>3, SizesAssumption DEF Skip
    <3>3. s + Skip(m + 1) = m + 1 BY <1>3, <3>2
    <3>4. Len(T) + 1 + Skip(m + 1) = m + 1 BY <2>7, <3>3
    <3> HIDE DEF T, s
    <3> QED BY <1>1, <2>2, <2>4, <3>1, <3>4
  <2> HIDE DEF T, R, r, s
  <2>10. X = Append(T, f)
    <3>1. X \in [1..Len(T) + 1 -> Frames]
      <4>1. \A k \in 1..Len(T) + 1 : X[k] \in Frames BY <2>7, <2>8, <2>9, ElementOfSeq
      <4> QED BY <2>4, <2>7, <4>1
    <3> QED BY <2>7, <2>8, <2>9, <3>1, IsAppend
  <2> QED BY <2>6, <2>10 DEF X
<1> QED BY <1>11, <1>12 DEF g, n

\* What the filter's list and the passed frames are after the frames h.
Filtered(h, list, passed) ==
  /\ h \in Seq(Frames)
  /\ list = Recent(h, Len(h))
  /\ passed = At(h, Fresh(h))

\* The filter after a reset.
LEMMA FilteredNothing == Filtered(<<>>, <<>>, <<>>)
<1> DEFINE none == [k \in 1..0 |-> 0]
<1>1. Len(<<>>) = 0 /\ <<>> \in Seq(Frames) /\ DOMAIN <<>> = 1..0 OBVIOUS
<1>2. none = <<>> /\ Lists(none, 0, {}) BY DEF Lists
<1>3. LastOnes(<<>>, 0) = {} /\ Fresh(<<>>) = {} BY <1>1 DEF LastOnes, Fresh
<1>4. Skip(0) = 0 BY SizesAssumption DEF Skip
<1> HIDE DEF none
<1>5. Recent(<<>>, 0) = <<>>
  <2>1. Recent(<<>>, 0) = Shown(<<>>, none, 0) BY <1>2, <1>3, RecentLists
  <2> QED BY <1>4, <2>1 DEF Shown
<1>6. At(<<>>, {}) = <<>>
  <2>1. At(<<>>, {}) = Via(<<>>, none, 0) BY <1>2, AtLists
  <2> QED BY <2>1 DEF Via
<1> QED BY <1>1, <1>3, <1>5, <1>6 DEF Filtered

\* One more frame leaves the past alone.
LEMMA PastRecent ==
  ASSUME NEW h \in Seq(Frames), NEW f \in Frames, NEW k \in 0..Len(h)
  PROVE  Recent(Append(h, f), k) = Recent(h, k)
<1> DEFINE g == Append(h, f)
<1>1. PICK e, m : Lists(e, m, LastOnes(h, k))
  <2>1. k \in Nat /\ LastOnes(h, k) \in SUBSET (1..k) BY DEF LastOnes
  <2> QED BY <2>1, EveryListed
<1>2. LastOnes(g, k) = LastOnes(h, k) /\ LastOnes(h, k) \subseteq 1..k BY LastOnesAppend
<1>3. \A i \in 1..Len(h) : g[i] = h[i] BY AppendProperties
<1>4. 1..k \subseteq 1..Len(h) /\ m \in Nat /\ Skip(m) \in 0..m BY <1>1, SizesAssumption DEF Skip, Lists
<1> HIDE DEF g
<1>5. Recent(g, k) = Shown(g, e, m) BY <1>1, <1>2, RecentLists
<1>6. Recent(h, k) = Shown(h, e, m) BY <1>1, RecentLists
<1>7. ASSUME NEW j \in 1..m - Skip(m) PROVE g[e[j + Skip(m)]] = h[e[j + Skip(m)]]
  <2>1. j + Skip(m) \in 1..m BY <1>4
  <2>2. e[j + Skip(m)] \in LastOnes(h, k) BY <1>1, <2>1, ListOrder
  <2> QED BY <1>2, <1>3, <1>4, <2>2
<1> QED BY <1>5, <1>6, <1>7 DEF Shown, g

\* The filter after one more frame.
LEMMA FilteredAppend ==
  ASSUME NEW h, NEW list, NEW passed, Filtered(h, list, passed), NEW f \in Frames
  PROVE  Filtered(Append(h, f), After(list, f), IF f \in Range(list) THEN passed ELSE Append(passed, f))
<1> DEFINE g == Append(h, f)
           n == Len(h)
           F == Fresh(h)
<1>1. /\ h \in Seq(Frames) /\ g \in Seq(Frames) /\ n \in Nat /\ Len(g) = n + 1 /\ DOMAIN h = 1..n /\ DOMAIN g = 1..n + 1
      /\ (\A i \in 1..n : g[i] = h[i] /\ h[i] \in Frames) /\ g[n + 1] = f
  BY AppendProperties, ElementOfSeq, LenProperties DEF Filtered
<1>3. \A k \in 0..n : Recent(g, k) = Recent(h, k) BY <1>1, PastRecent
<1>4. n \in 0..n /\ (n + 1) - 1 = n BY <1>1
<1>5. Recent(g, n + 1) = After(list, f)
  <2>1. PICK e, m : Lists(e, m, LastOnes(h, n))
    <3>1. LastOnes(h, n) \in SUBSET (1..n) BY DEF LastOnes
    <3> QED BY <1>1, <3>1, EveryListed
  <2> QED BY <1>1, <2>1, RecentAppend DEF Filtered
<1>7. F \subseteq 1..n BY <1>1 DEF Fresh
<1>8. Fresh(g) = IF f \in Range(list) THEN F ELSE F \cup {n + 1}
  <2>1. ASSUME NEW i \in 1..n PROVE i \in Fresh(g) <=> i \in F
    <3>1. i - 1 \in 0..n /\ i \in 1..n + 1 BY <1>1
    <3> HIDE DEF g, n
    <3> QED BY <1>1, <1>3, <3>1 DEF Fresh
  <2>2. n + 1 \in Fresh(g) <=> f \notin Range(list)
    <3>1. Recent(g, (n + 1) - 1) = list BY <1>3, <1>4 DEF Filtered
    <3>2. n + 1 \in 1..n + 1 BY <1>1
    <3> HIDE DEF g, n
    <3> QED BY <1>1, <3>1, <3>2 DEF Fresh
  <2>3. Fresh(g) \subseteq 1..n + 1 /\ 1..n + 1 = (1..n) \cup {n + 1} BY <1>1 DEF Fresh
  <2> HIDE DEF g, n, F
  <2>4. CASE f \in Range(list)
    <3>1. \A i \in Fresh(g) : i \in F BY <2>1, <2>2, <2>3, <2>4
    <3>2. \A i \in F : i \in Fresh(g) BY <1>7, <2>1
    <3> QED BY <2>4, <3>1, <3>2
  <2>5. CASE f \notin Range(list)
    <3>1. \A i \in Fresh(g) : i \in F \/ i = n + 1 BY <2>1, <2>3
    <3>2. \A i \in F : i \in Fresh(g) BY <1>7, <2>1
    <3> QED BY <2>2, <2>5, <3>1, <3>2
  <2> QED BY <2>4, <2>5
<1>9. PICK e, m : Lists(e, m, F) BY <1>1, <1>7, EveryListed
<1>10. /\ m \in Nat /\ \A k \in 1..m : e[k] \in 1..n
       /\ passed = [k \in 1..m |-> h[e[k]]]
  <2>1. m \in Nat BY <1>9 DEF Lists
  <2>2. \A k \in 1..m : e[k] \in 1..n BY <1>7, <1>9, ListOrder
  <2>3. At(h, F) = Via(h, e, m) BY <1>9, AtLists
  <2> QED BY <2>1, <2>2, <2>3 DEF Filtered, Via
<1>11. CASE f \in Range(list)
  <2>1. Fresh(g) = F BY <1>8, <1>11
  <2>2. At(g, F) = Via(g, e, m) BY <1>9, AtLists
  <2>3. Via(g, e, m) = passed BY <1>1, <1>10 DEF Via
  <2> QED BY <1>1, <1>4, <1>5, <1>11, <2>1, <2>2, <2>3 DEF Filtered
<1>12. CASE f \notin Range(list)
  <2> DEFINE d == [k \in 1..m + 1 |-> IF k <= m THEN e[k] ELSE n + 1]
             X == Via(g, d, m + 1)
  <2>1. Fresh(g) = F \cup {n + 1} BY <1>8, <1>12
  <2>2. Lists(d, m + 1, F \cup {n + 1})
    <3>1. n + 1 \in Int /\ \A i \in F : i < n + 1 BY <1>1, <1>7
    <3> HIDE DEF F, n
    <3> QED BY <1>9, <3>1, ListAppend
  <2>3. (\A k \in 1..m : d[k] = e[k]) /\ d[m + 1] = n + 1 /\ m + 1 \in 1..m + 1 BY <1>10
  <2> HIDE DEF d
  <2>4. At(g, Fresh(g)) = X
    <3> HIDE DEF F, g, n, X
    <3> QED BY <2>1, <2>2, AtLists DEF X
  <2>5. passed \in Seq(Frames) /\ Len(passed) = m /\ \A k \in 1..m : passed[k] = h[e[k]]
    <3>1. passed \in [1..m -> Frames] BY <1>1, <1>10
    <3>2. passed \in Seq(Frames) BY <1>10, <3>1
    <3>3. DOMAIN passed = 1..m /\ DOMAIN passed = 1..Len(passed) /\ Len(passed) \in Nat BY <3>1, <3>2, LenProperties
    <3>4. Len(passed) = m BY <1>10, <3>3
    <3> QED BY <1>10, <3>2, <3>4
  <2>6. /\ \A k \in 1..m : X[k] = passed[k] /\ X[k] \in Frames
        /\ X[m + 1] = f
    <3>1. \A k \in 1..m + 1 : X[k] = g[d[k]] BY DEF Via
    <3>2. \A k \in 1..m : k \in 1..m + 1 BY <1>10
    <3> HIDE DEF X
    <3> QED BY <1>1, <1>10, <2>3, <2>5, <3>1, <3>2
  <2>7. X \in [1..m + 1 -> Frames]
    <3>1. \A k \in 1..m + 1 : X[k] \in Frames BY <1>10, <2>6
    <3>2. X = [k \in 1..m + 1 |-> X[k]] BY DEF Via
    <3> HIDE DEF X
    <3> QED BY <3>1, <3>2
  <2>8. X = Append(passed, f)
    <3> HIDE DEF X
    <3> QED BY <2>5, <2>6, <2>7, IsAppend
  <2> QED BY <1>1, <1>4, <1>5, <1>12, <2>4, <2>8 DEF Filtered
<1> QED BY <1>11, <1>12

\* While calm, the filter is the function of the past that Filtered says it is.
FilterInv ==
  /\ Carried
  /\ calm => Filtered(past.heard, last_packets, past.passed)

\* Hear and the reset are the only steps that change the filter while calm.
LEMMA FilterStep ==
  ASSUME FilterInv, [Next]_vars
  PROVE  FilterInv'
<1>1. Carried /\ Carried' BY CarriedStep DEF FilterInv
<1>2. HandleInv /\ Typed /\ Typed' /\ calm \in BOOLEAN /\ calm' \in BOOLEAN /\ past \in Pasts
  BY <1>1 DEF Carried, HandleInv, Typed
<1>3. SUFFICES ASSUME calm' = TRUE
      PROVE  Filtered(past'.heard, last_packets', past'.passed)
  BY <1>1, <1>2 DEF FilterInv
<1> DEFINE Same == /\ last_packets' = last_packets /\ calm
                   /\ past'.heard = past.heard /\ past'.passed = past.passed
<1>4. CASE Same BY <1>4 DEF FilterInv
<1>5. CASE ResetKill
  <2>1. past' = [past EXCEPT !.heard = <<>>, !.passed = <<>>] /\ last_packets' = <<>>
    BY <1>5 DEF ResetKill, Cleared
  <2>2. past'.heard = <<>> /\ past'.passed = <<>> BY <1>2, <2>1, SMT DEF Pasts
  <2> QED BY <2>1, <2>2, FilteredNothing
<1>6. CASE \E f \in Frames : Hear(f)
  <2> PICK f \in Frames : Hear(f) BY <1>6
  <2>1. calm /\ rpc = "idle" /\ last_packets' = After(last_packets, f)
    BY <1>2, <1>3 DEF Hear, Remembered, Others, Full, After
  <2>2. rpc' = "idle" <=> f \in Range(last_packets)
    BY <2>1 DEF Hear, interfaceVars
  <2>3. /\ past'.heard = Append(past.heard, f)
        /\ past'.passed = IF f \in Range(last_packets) THEN past.passed ELSE Append(past.passed, f)
    <3>1. past' = [past EXCEPT !.heard = Append(@, f), !.passed = IF rpc' = "idle" THEN @ ELSE Append(@, f)]
      BY <1>3 DEF Hear
    <3> QED BY <1>2, <2>2, <3>1, SMT DEF Pasts
  <2>4. Filtered(past.heard, last_packets, past.passed) BY <2>1 DEF FilterInv
  <2> QED BY <2>1, <2>3, <2>4, FilteredAppend
<1>7. CASE ResetSpawn \/ ResetFails
  <2>1. past' = [past EXCEPT !.sent = <<>>, !.parsed = <<>>] /\ last_packets' = last_packets /\ calm
    BY <1>3, <1>7 DEF ResetSpawn, ResetFails, ResetRest, storeVars
  <2>2. Same BY <1>2, <2>1, SMT DEF Pasts
  <2> QED BY <1>4, <2>2
<1>8. CASE Start \/ Stop \/ Call
  <2>1. Same BY <1>2, <1>3, <1>8 DEF Start, Stop, CloseOut, Call, Overlaps, storeVars
  <2> QED BY <1>4, <2>1
<1>9. CASE ResetClose \/ CreateOut \/ Pause \/ Resume \/ TestOut \/ DumpOut \/ Flush \/ Tshark \/ Read \/ Lock \/ UNCHANGED vars
  <2>1. Same
    BY <1>3, <1>9 DEF ResetClose, CreateOut, Pause, Resume, SetPaused, TestOut, DumpOut, Flush, Tshark, Dissect, Exit, Read,
                      Lock, Locked, vars, storeVars, historyVars
  <2> QED BY <1>4, <2>1
<1>10. CASE DumpTshark \/ Parse
  <2>1. past'.heard = past.heard /\ past'.passed = past.passed
    BY <1>2, <1>10, SMT DEF DumpTshark, Parse, Pasts
  <2>2. Same BY <1>3, <1>10, <2>1 DEF DumpTshark, Parse, storeVars
  <2> QED BY <1>4, <2>2
<1> QED BY <1>5, <1>6, <1>7, <1>8, <1>9, <1>10 DEF Next, Gui, Interface, Poll

\* check_duplicate_packet: for every number of remembered packets and every sequence of
\* frames, the list is the distinct frames heard last and what passes is what was not in it.
THEOREM FilterExactAlways == Spec => []FilterExact
<1>1. Init => FilterInv
  <2> SUFFICES ASSUME Init PROVE FilterInv OBVIOUS
  <2>1. HandleInv BY DEF Init, HandleInv, CalmInv, Typed, Handles
  <2>2. NoPast \in Pasts /\ <<>> \in Seq(Frames) /\ <<>> \in Seq(Tags) BY EmptySeq DEF NoPast, Pasts
  <2>3. Filtered(past.heard, last_packets, past.passed) BY FilteredNothing DEF Init, NoPast
  <2> QED BY <2>1, <2>2, <2>3 DEF Init, FilterInv, Carried
<1>2. FilterInv /\ [Next]_vars => FilterInv' BY FilterStep
<1>3. FilterInv => FilterExact BY DEF FilterInv, FilterExact, Filtered
<1> QED BY <1>1, <1>2, <1>3, PTL DEF Spec
-----------------------------------------------------------------------------
(* What tshark prints.                                                     *)

\* The positions N of a sequence of n elements and the positions M of what follows it.
Joined(n, N, M) == N \cup {n + j : j \in M}

LEMMA ListConcat ==
  ASSUME NEW n \in Nat, NEW e, NEW m, NEW N \in SUBSET (1..n), Lists(e, m, N),
         NEW d, NEW l, NEW M \in SUBSET (Nat \ {0}), Lists(d, l, M)
  PROVE  Lists([k \in 1..m + l |-> IF k <= m THEN e[k] ELSE n + d[k - m]], m + l, Joined(n, N, M))
<1> DEFINE g == [k \in 1..m + l |-> IF k <= m THEN e[k] ELSE n + d[k - m]]
           P == Joined(n, N, M)
<1>1. m \in Nat /\ l \in Nat /\ m + l \in Nat BY DEF Lists
<1>2. \A k \in 1..m : k \in 1..m + l /\ g[k] = e[k] /\ g[k] \in N /\ g[k] \in Int /\ g[k] <= n
  <2> TAKE k \in 1..m
  <2>1. k \in 1..m + l /\ g[k] = e[k] BY <1>1
  <2>2. e[k] \in N BY ListOrder
  <2>3. e[k] \in 1..n BY <2>2
  <2> QED BY <2>1, <2>2, <2>3
<1>3. \A k \in 1..m + l : k > m => /\ k - m \in 1..l /\ g[k] = n + d[k - m] /\ d[k - m] \in M
                                   /\ g[k] \in Int /\ g[k] > n
  <2> TAKE k \in 1..m + l
  <2> HAVE k > m
  <2>1. k - m \in 1..l /\ g[k] = n + d[k - m] BY <1>1
  <2>2. d[k - m] \in M BY <2>1, ListOrder
  <2>3. d[k - m] \in Nat \ {0} BY <2>2
  <2> QED BY <2>1, <2>2, <2>3
<1>4. \A k \in 1..m + l : k \in 1..m \/ k > m BY <1>1
<1> HIDE DEF g
<1>5. g \in [1..m + l -> Int]
  <2>1. \A k \in 1..m + l : g[k] \in Int BY <1>2, <1>3, <1>4
  <2> QED BY <2>1 DEF g
<1>6. P = {g[k] : k \in 1..m + l}
  <2>1. \A k \in 1..m + l : g[k] \in P BY <1>2, <1>3, <1>4 DEF Joined
  <2>2. \A i \in N : \E k \in 1..m + l : g[k] = i
    <3> TAKE i \in N
    <3> PICK k \in 1..m : e[k] = i BY DEF Lists
    <3> QED BY <1>2
  <2>3. \A j \in M : \E k \in 1..m + l : g[k] = n + j
    <3> TAKE j \in M
    <3> PICK k \in 1..l : d[k] = j BY DEF Lists
    <3>1. k + m \in 1..m + l /\ k + m > m /\ (k + m) - m = k BY <1>1
    <3> QED BY <1>3, <3>1
  <2> QED BY <2>1, <2>2, <2>3 DEF Joined
<1>7. \A a, b \in 1..m + l : a < b => g[a] < g[b]
  <2> TAKE a, b \in 1..m + l
  <2> HAVE a < b
  <2>1. CASE b \in 1..m
    <3>1. a \in 1..m BY <1>1, <2>1
    <3> QED BY <1>2, <2>1, <3>1 DEF Lists
  <2>2. CASE a \in 1..m /\ b > m BY <1>2, <1>3, <2>2
  <2>3. CASE a > m /\ b > m
    <3>1. a - m \in 1..l /\ b - m \in 1..l /\ a - m < b - m BY <1>1, <1>3, <2>3
    <3>2. d[a - m] \in Int /\ d[b - m] \in Int /\ d[a - m] < d[b - m] BY <3>1 DEF Lists
    <3> QED BY <1>3, <2>3, <3>2
  <2> QED BY <1>1, <1>4, <2>1, <2>2, <2>3
<1> QED BY <1>1, <1>5, <1>6, <1>7 DEF Lists, g

\* The chosen elements of a concatenation.
LEMMA AtTyped ==
  ASSUME NEW S, NEW s \in Seq(S), NEW N \in SUBSET (1..Len(s))
  PROVE  At(s, N) \in Seq(S)
<1>1. PICK e, m : Lists(e, m, N)
  <2>1. Len(s) \in Nat OBVIOUS
  <2> QED BY <2>1, EveryListed
<1>2. m \in Nat BY <1>1 DEF Lists
<1>3. At(s, N) = Via(s, e, m) BY <1>1, AtLists
<1>4. \A k \in 1..m : s[e[k]] \in S
  <2> TAKE k \in 1..m
  <2>1. e[k] \in 1..Len(s) BY <1>1, ListOrder
  <2> QED BY <2>1, ElementOfSeq
<1>5. Via(s, e, m) \in [1..m -> S] BY <1>4 DEF Via
<1> QED BY <1>2, <1>3, <1>5

LEMMA AtConcat ==
  ASSUME NEW S, NEW s \in Seq(S), NEW t \in Seq(S), NEW N \in SUBSET (1..Len(s)), NEW M \in SUBSET (1..Len(t))
  PROVE  At(s \o t, Joined(Len(s), N, M)) = At(s, N) \o At(t, M)
<1> DEFINE n == Len(s)
           P == Joined(n, N, M)
<1>1. /\ n \in Nat /\ Len(t) \in Nat /\ s \o t \in Seq(S) /\ Len(s \o t) = n + Len(t)
      /\ \A i \in 1..n + Len(t) : (s \o t)[i] = IF i <= n THEN s[i] ELSE t[i - n]
  BY ConcatProperties
<1>2. PICK e, m : Lists(e, m, N) BY <1>1, EveryListed
<1>3. PICK d, l : Lists(d, l, M) BY <1>1, EveryListed
<1>4. m \in Nat /\ l \in Nat BY <1>2, <1>3 DEF Lists
<1> DEFINE g == [k \in 1..m + l |-> IF k <= m THEN e[k] ELSE n + d[k - m]]
<1> HIDE DEF n
<1>5. Lists(g, m + l, P)
  <2>1. M \in SUBSET (Nat \ {0}) BY <1>1
  <2> QED BY <1>1, <1>2, <1>3, <2>1, ListConcat DEF n
<1>6. At(s, N) = Via(s, e, m) /\ At(t, M) = Via(t, d, l) BY <1>2, <1>3, AtLists
<1>7. At(s \o t, P) = Via(s \o t, g, m + l)
  <2> HIDE DEF g, P
  <2> QED BY <1>5, AtLists
<1>8. \A k \in 1..m : e[k] \in 1..n /\ s[e[k]] \in S
  <2> TAKE k \in 1..m
  <2>1. e[k] \in 1..n BY <1>2, ListOrder DEF n
  <2> QED BY <2>1, ElementOfSeq DEF n
<1>9. \A k \in 1..l : d[k] \in 1..Len(t) /\ t[d[k]] \in S
  <2> TAKE k \in 1..l
  <2>1. d[k] \in 1..Len(t) BY <1>3, ListOrder
  <2> QED BY <2>1, ElementOfSeq
<1> DEFINE A == Via(s, e, m)
           B == Via(t, d, l)
           X == Via(s \o t, g, m + l)
<1>10. A \in Seq(S) /\ Len(A) = m /\ \A k \in 1..m : A[k] = s[e[k]]
  <2>1. A \in [1..m -> S] /\ \A k \in 1..m : A[k] = s[e[k]] BY <1>8 DEF Via
  <2> HIDE DEF A
  <2>2. A \in Seq(S) BY <1>4, <2>1
  <2>3. DOMAIN A = 1..m /\ DOMAIN A = 1..Len(A) /\ Len(A) \in Nat BY <2>1, <2>2, LenProperties
  <2> QED BY <1>4, <2>1, <2>2, <2>3
<1>11. B \in Seq(S) /\ Len(B) = l /\ \A k \in 1..l : B[k] = t[d[k]]
  <2>1. B \in [1..l -> S] /\ \A k \in 1..l : B[k] = t[d[k]] BY <1>9 DEF Via
  <2> HIDE DEF B
  <2>2. B \in Seq(S) BY <1>4, <2>1
  <2>3. DOMAIN B = 1..l /\ DOMAIN B = 1..Len(B) /\ Len(B) \in Nat BY <2>1, <2>2, LenProperties
  <2> QED BY <1>4, <2>1, <2>2, <2>3
<1>12. X = A \o B
  <2>1. X = [k \in 1..m + l |-> (s \o t)[g[k]]] BY DEF Via
  <2>2. /\ A \o B \in Seq(S) /\ Len(A \o B) = Len(A) + Len(B)
        /\ \A k \in 1..Len(A) + Len(B) : (A \o B)[k] = IF k <= Len(A) THEN A[k] ELSE B[k - Len(A)]
    <3> HIDE DEF A, B
    <3> QED BY <1>10, <1>11, ConcatProperties
  <2> HIDE DEF X, A, B
  <2>3. A \o B = [k \in 1..m + l |-> (A \o B)[k]] BY <1>10, <1>11, <2>2, LenProperties
  <2>4. ASSUME NEW k \in 1..m + l PROVE (s \o t)[g[k]] = (A \o B)[k]
    <3>1. CASE k <= m
      <4>1. k \in 1..m /\ g[k] = e[k] BY <1>4, <3>1
      <4>2. e[k] \in 1..n /\ e[k] \in 1..n + Len(t) /\ e[k] <= n BY <1>1, <1>8, <4>1
      <4>3. (s \o t)[g[k]] = s[e[k]] BY <1>1, <4>1, <4>2
      <4> QED BY <1>10, <1>11, <2>2, <3>1, <4>1, <4>3
    <3>2. CASE ~(k <= m)
      <4>1. k - m \in 1..l /\ g[k] = n + d[k - m] BY <1>4, <3>2
      <4>2. d[k - m] \in 1..Len(t) BY <1>9, <4>1
      <4>3. n + d[k - m] \in 1..n + Len(t) /\ ~(n + d[k - m] <= n) /\ (n + d[k - m]) - n = d[k - m] BY <1>1, <4>2
      <4>4. (s \o t)[g[k]] = t[d[k - m]] BY <1>1, <4>1, <4>3
      <4> QED BY <1>10, <1>11, <2>2, <3>2, <4>1, <4>4
    <3> QED BY <3>1, <3>2
  <2> QED BY <2>1, <2>3, <2>4
<1> QED BY <1>6, <1>7, <1>10, <1>11, <1>12 DEF n
\* The elements for which a test holds: positions in two parts and in the whole.
LEMMA AtOne ==
  ASSUME NEW x
  PROVE  At(<<x>>, {1}) = <<x>> /\ At(<<x>>, {}) = <<>> /\ At(<<>>, {}) = <<>>
<1> DEFINE one == [k \in 1..1 |-> 1]
           none == [k \in 1..0 |-> 0]
<1>1. Lists(one, 1, {1}) BY DEF Lists
<1>2. Lists(none, 0, {}) BY DEF Lists
<1> HIDE DEF one, none
<1>3. At(<<x>>, {1}) = Via(<<x>>, one, 1) BY <1>1, AtLists
<1>4. At(<<x>>, {}) = Via(<<x>>, none, 0) /\ At(<<>>, {}) = Via(<<>>, none, 0) BY <1>2, AtLists
<1>5. Via(<<x>>, one, 1) = <<x>> BY DEF Via, one
<1>6. Via(<<x>>, none, 0) = <<>> /\ Via(<<>>, none, 0) = <<>> BY DEF Via
<1> QED BY <1>3, <1>4, <1>5, <1>6

\* The positions of the frames tshark prints.
Wanted(s) == {i \in DOMAIN s : s[i] \in Ipv6}

LEMMA PrintedConcat ==
  ASSUME NEW s \in Seq(Frames), NEW t \in Seq(Frames)
  PROVE  Printed(s) \in Seq(Frames) /\ Printed(s \o t) = Printed(s) \o Printed(t)
<1> DEFINE N == Wanted(s)
           M == Wanted(t)
           P == Wanted(s \o t)
<1>1. /\ Len(s) \in Nat /\ DOMAIN s = 1..Len(s) /\ Len(t) \in Nat /\ DOMAIN t = 1..Len(t)
      /\ s \o t \in Seq(Frames) /\ DOMAIN (s \o t) = 1..Len(s) + Len(t)
      /\ \A i \in 1..Len(s) + Len(t) : (s \o t)[i] = IF i <= Len(s) THEN s[i] ELSE t[i - Len(s)]
  BY ConcatProperties, LenProperties
<1>2. N \in SUBSET (1..Len(s)) /\ M \in SUBSET (1..Len(t)) BY <1>1 DEF Wanted
<1>3. P = Joined(Len(s), N, M)
  <2>1. \A i \in P : i \in N \/ (i - Len(s) \in M /\ i = Len(s) + (i - Len(s))) BY <1>1 DEF Wanted
  <2>2. \A i \in N : i \in P BY <1>1 DEF Wanted
  <2>3. \A j \in M : Len(s) + j \in P
    <3> TAKE j \in M
    <3>1. j \in 1..Len(t) /\ Len(s) + j \in 1..Len(s) + Len(t) /\ ~(Len(s) + j <= Len(s)) /\ (Len(s) + j) - Len(s) = j
      BY <1>1 DEF Wanted
    <3> QED BY <1>1, <3>1 DEF Wanted
  <2> HIDE DEF N, M, P
  <2> QED BY <2>1, <2>2, <2>3 DEF Joined
<1>4. Printed(s) = At(s, N) /\ Printed(t) = At(t, M) /\ Printed(s \o t) = At(s \o t, P) BY DEF Printed, Wanted
<1> HIDE DEF N, M, P
<1>5. At(s, N) \in Seq(Frames) /\ At(t, M) \in Seq(Frames) BY <1>2, AtTyped
<1>6. At(s \o t, Joined(Len(s), N, M)) = At(s, N) \o At(t, M) BY <1>1, <1>2, AtConcat
<1> QED BY <1>3, <1>4, <1>5, <1>6

LEMMA PrintedOne ==
  ASSUME NEW f
  PROVE  Printed(<<f>>) = (IF f \in Ipv6 THEN <<f>> ELSE <<>>) /\ Printed(<<>>) = <<>>
<1>1. DOMAIN <<f>> = {1} /\ <<f>>[1] = f /\ DOMAIN <<>> = {} OBVIOUS
<1>2. f \in Ipv6 => {i \in DOMAIN <<f>> : <<f>>[i] \in Ipv6} = {1} BY <1>1
<1>3. f \notin Ipv6 => {i \in DOMAIN <<f>> : <<f>>[i] \in Ipv6} = {} BY <1>1
<1>4. {i \in DOMAIN <<>> : <<>>[i] \in Ipv6} = {} BY <1>1
<1> QED BY <1>2, <1>3, <1>4, AtOne DEF Printed

\* The positions of the end tags, and the frames of the tags.
Closing(tags) == {i \in DOMAIN tags : tags[i].end}
FramesOf(tags) == [i \in DOMAIN tags |-> tags[i].frame]

LEMMA PrintedNothing == Printed(<<>>) = <<>> /\ Ends(<<>>) = <<>>
<1>1. DOMAIN <<>> = {} OBVIOUS
<1>2. Closing(<<>>) = {} /\ At(<<>>, {}) = <<>> BY <1>1, AtOne DEF Closing
<1>3. FramesOf(<<>>) = <<>> BY DEF FramesOf
<1>4. Ends(<<>>) = FramesOf(At(<<>>, Closing(<<>>))) BY DEF Ends, Closing, FramesOf
<1> QED BY <1>2, <1>3, <1>4, PrintedOne

\* The end tags of a concatenation, of one tag and of none.
LEMMA FramesOfConcat ==
  ASSUME NEW s \in Seq(Tags), NEW t \in Seq(Tags)
  PROVE  FramesOf(s) \in Seq(Frames) /\ FramesOf(s \o t) = FramesOf(s) \o FramesOf(t)
<1> DEFINE A == FramesOf(s)
           B == FramesOf(t)
           C == FramesOf(s \o t)
<1>1. /\ Len(s) \in Nat /\ DOMAIN s = 1..Len(s) /\ Len(t) \in Nat /\ DOMAIN t = 1..Len(t)
      /\ s \o t \in Seq(Tags) /\ DOMAIN (s \o t) = 1..Len(s) + Len(t)
      /\ \A i \in 1..Len(s) + Len(t) : (s \o t)[i] = IF i <= Len(s) THEN s[i] ELSE t[i - Len(s)]
  BY ConcatProperties, LenProperties
<1>2. \A x \in Seq(Tags) : /\ FramesOf(x) \in Seq(Frames) /\ Len(FramesOf(x)) = Len(x)
                           /\ \A i \in 1..Len(x) : FramesOf(x)[i] = x[i].frame
  <2> TAKE x \in Seq(Tags)
  <2>1. Len(x) \in Nat /\ DOMAIN x = 1..Len(x) /\ \A i \in 1..Len(x) : x[i] \in Tags BY LenProperties, ElementOfSeq
  <2>2. FramesOf(x) \in [1..Len(x) -> Frames] /\ \A i \in 1..Len(x) : FramesOf(x)[i] = x[i].frame
    BY <2>1 DEF FramesOf, Tags
  <2>3. FramesOf(x) \in Seq(Frames) BY <2>1, <2>2
  <2>4. DOMAIN FramesOf(x) = 1..Len(x) /\ DOMAIN FramesOf(x) = 1..Len(FramesOf(x)) /\ Len(FramesOf(x)) \in Nat
    BY <2>2, <2>3, LenProperties
  <2> QED BY <2>1, <2>2, <2>3, <2>4
<1>3. /\ A \o B \in Seq(Frames) /\ Len(A \o B) = Len(A) + Len(B)
      /\ \A i \in 1..Len(A) + Len(B) : (A \o B)[i] = IF i <= Len(A) THEN A[i] ELSE B[i - Len(A)]
  BY <1>2, ConcatProperties
<1>4. Len(A) = Len(s) /\ Len(B) = Len(t) /\ C \in Seq(Frames) /\ Len(C) = Len(s) + Len(t)
  <2>1. Len(s \o t) = Len(s) + Len(t) BY ConcatProperties
  <2> QED BY <1>1, <1>2, <2>1
<1>5. ASSUME NEW i \in 1..Len(s) + Len(t) PROVE C[i] = (A \o B)[i]
  <2>1. C[i] = (s \o t)[i].frame BY <1>1, <1>2, <1>4
  <2>2. CASE i <= Len(s)
    <3>1. i \in 1..Len(s) BY <1>1, <2>2
    <3>2. A[i] = s[i].frame BY <1>2, <3>1
    <3>3. (A \o B)[i] = A[i] BY <1>3, <1>4, <2>2
    <3> QED BY <1>1, <2>1, <2>2, <3>2, <3>3
  <2>3. CASE ~(i <= Len(s))
    <3>1. i - Len(s) \in 1..Len(t) BY <1>1, <2>3
    <3>2. B[i - Len(s)] = t[i - Len(s)].frame BY <1>2, <3>1
    <3>3. (A \o B)[i] = B[i - Len(s)] BY <1>3, <1>4, <2>3
    <3> QED BY <1>1, <2>1, <2>3, <3>2, <3>3
  <2> QED BY <2>2, <2>3
<1>6. C = A \o B
  <2> HIDE DEF A, B, C
  <2> QED BY <1>3, <1>4, <1>5, SeqEqual
<1> QED BY <1>2, <1>6

LEMMA EndsConcat ==
  ASSUME NEW s \in Seq(Tags), NEW t \in Seq(Tags)
  PROVE  Ends(s) \in Seq(Frames) /\ Ends(s \o t) = Ends(s) \o Ends(t)
<1> DEFINE N == Closing(s)
           M == Closing(t)
           P == Closing(s \o t)
<1>1. /\ Len(s) \in Nat /\ DOMAIN s = 1..Len(s) /\ Len(t) \in Nat /\ DOMAIN t = 1..Len(t)
      /\ s \o t \in Seq(Tags) /\ DOMAIN (s \o t) = 1..Len(s) + Len(t)
      /\ \A i \in 1..Len(s) + Len(t) : (s \o t)[i] = IF i <= Len(s) THEN s[i] ELSE t[i - Len(s)]
  BY ConcatProperties, LenProperties
<1>2. N \in SUBSET (1..Len(s)) /\ M \in SUBSET (1..Len(t)) BY <1>1 DEF Closing
<1>3. P = Joined(Len(s), N, M)
  <2>1. \A i \in P : i \in N \/ (i - Len(s) \in M /\ i = Len(s) + (i - Len(s))) BY <1>1 DEF Closing
  <2>2. \A i \in N : i \in P BY <1>1 DEF Closing
  <2>3. \A j \in M : Len(s) + j \in P
    <3> TAKE j \in M
    <3>1. j \in 1..Len(t) /\ Len(s) + j \in 1..Len(s) + Len(t) /\ ~(Len(s) + j <= Len(s)) /\ (Len(s) + j) - Len(s) = j
      BY <1>1 DEF Closing
    <3> QED BY <1>1, <3>1 DEF Closing
  <2> HIDE DEF N, M, P
  <2> QED BY <2>1, <2>2, <2>3 DEF Joined
<1>4. \A x : Ends(x) = FramesOf(At(x, Closing(x))) BY DEF Ends, Closing, FramesOf
<1> HIDE DEF N, M, P
<1>5. At(s, N) \in Seq(Tags) /\ At(t, M) \in Seq(Tags) /\ At(s \o t, P) = At(s, N) \o At(t, M)
  <2>1. At(s, N) \in Seq(Tags) /\ At(t, M) \in Seq(Tags) BY <1>2, AtTyped
  <2>2. At(s \o t, Joined(Len(s), N, M)) = At(s, N) \o At(t, M) BY <1>2, AtConcat
  <2> QED BY <1>3, <2>1, <2>2
<1>6. Ends(s) = FramesOf(At(s, N)) /\ Ends(t) = FramesOf(At(t, M)) /\ Ends(s \o t) = FramesOf(At(s \o t, P))
  BY <1>4 DEF N, M, P
<1> QED BY <1>5, <1>6, FramesOfConcat

LEMMA EndsOne ==
  ASSUME NEW t \in Tags
  PROVE  Ends(<<t>>) = (IF t.end THEN <<t.frame>> ELSE <<>>) /\ Ends(<<>>) = <<>>
<1>1. DOMAIN <<t>> = {1} /\ <<t>>[1] = t /\ DOMAIN <<>> = {} OBVIOUS
<1>2. t.end => Closing(<<t>>) = {1} BY <1>1 DEF Closing
<1>3. ~t.end => Closing(<<t>>) = {} BY <1>1 DEF Closing
<1>4. Closing(<<>>) = {} BY <1>1 DEF Closing
<1>5. \A x : Ends(x) = FramesOf(At(x, Closing(x))) BY DEF Ends, Closing, FramesOf
<1>6. FramesOf(<<t>>) = <<t.frame>> /\ FramesOf(<<>>) = <<>> BY <1>1 DEF FramesOf
<1>7. At(<<t>>, {1}) = <<t>> /\ At(<<t>>, {}) = <<>> /\ At(<<>>, {}) = <<>> BY AtOne
<1>8. t.end => Ends(<<t>>) = <<t.frame>> BY <1>2, <1>5, <1>6, <1>7
<1>9. ~t.end => Ends(<<t>>) = <<>> BY <1>3, <1>5, <1>6, <1>7
<1>10. Ends(<<>>) = <<>> BY <1>4, <1>5, <1>6, <1>7
<1> QED BY <1>8, <1>9, <1>10
\* What a tag leaves open, and what is open before the tag i of p, if o is open first.
Leaves(t) == IF t.end THEN None ELSE t.frame
OpenAt(o, p, i) == IF i = 0 THEN o ELSE Leaves(p[i])

\* The tags p are those of the process by, and each fits after the ones before it.
InTurn(o, p, by) ==
  \A i \in 1..Len(p) : p[i].by = by /\ OpenAt(o, p, i - 1) = IF p[i].end THEN p[i].frame ELSE None

\* Tags in turn stay so when the parser takes the first, and when tshark adds one that fits.
LEMMA InTurnTail ==
  ASSUME NEW o, NEW p \in Seq(Tags), p # <<>>, NEW by, InTurn(o, p, by)
  PROVE  /\ Head(p).by = by /\ o = (IF Head(p).end THEN Head(p).frame ELSE None)
         /\ InTurn(Leaves(Head(p)), Tail(p), by)
         /\ OpenAt(Leaves(Head(p)), Tail(p), Len(Tail(p))) = OpenAt(o, p, Len(p))
<1>1. /\ Len(p) \in Nat \ {0} /\ Len(Tail(p)) = Len(p) - 1 /\ Head(p) = p[1]
      /\ \A i \in 1..Len(p) - 1 : Tail(p)[i] = p[i + 1]
  BY HeadTailProperties, EmptySeq
<1>2. 1 \in 1..Len(p) /\ 1 - 1 = 0 BY <1>1
<1>3. Head(p).by = by /\ o = (IF Head(p).end THEN Head(p).frame ELSE None)
  BY <1>1, <1>2 DEF InTurn, OpenAt
<1>4. \A i \in 0..Len(p) - 1 : OpenAt(Leaves(Head(p)), Tail(p), i) = OpenAt(o, p, i + 1)
  <2> TAKE i \in 0..Len(p) - 1
  <2>1. CASE i = 0 BY <1>1, <2>1 DEF OpenAt
  <2>2. CASE i # 0
    <3>1. i \in 1..Len(p) - 1 /\ i + 1 # 0 BY <1>1, <2>2
    <3> QED BY <1>1, <2>2, <3>1 DEF OpenAt
  <2> QED BY <2>1, <2>2
<1>5. ASSUME NEW i \in 1..Len(Tail(p))
      PROVE  /\ Tail(p)[i].by = by
             /\ OpenAt(Leaves(Head(p)), Tail(p), i - 1) = IF Tail(p)[i].end THEN Tail(p)[i].frame ELSE None
  <2>1. i \in 1..Len(p) - 1 /\ i - 1 \in 0..Len(p) - 1 /\ i + 1 \in 1..Len(p) /\ (i - 1) + 1 = (i + 1) - 1 BY <1>1
  <2>2. Tail(p)[i] = p[i + 1] BY <1>1, <2>1
  <2>3. p[i + 1].by = by /\ OpenAt(o, p, (i + 1) - 1) = IF p[i + 1].end THEN p[i + 1].frame ELSE None
    BY <2>1 DEF InTurn
  <2>4. OpenAt(Leaves(Head(p)), Tail(p), i - 1) = OpenAt(o, p, (i - 1) + 1) BY <1>4, <2>1
  <2> QED BY <2>1, <2>2, <2>3, <2>4
<1>6. OpenAt(Leaves(Head(p)), Tail(p), Len(Tail(p))) = OpenAt(o, p, Len(p))
  <2>1. Len(p) - 1 \in 0..Len(p) - 1 /\ (Len(p) - 1) + 1 = Len(p) BY <1>1
  <2>2. OpenAt(Leaves(Head(p)), Tail(p), Len(p) - 1) = OpenAt(o, p, (Len(p) - 1) + 1) BY <1>4, <2>1
  <2> QED BY <1>1, <2>1, <2>2
<1> QED BY <1>3, <1>5, <1>6 DEF InTurn

LEMMA InTurnAppend ==
  ASSUME NEW o, NEW p \in Seq(Tags), NEW by, InTurn(o, p, by), NEW t \in Tags, t.by = by,
         OpenAt(o, p, Len(p)) = IF t.end THEN t.frame ELSE None
  PROVE  /\ InTurn(o, Append(p, t), by)
         /\ OpenAt(o, Append(p, t), Len(Append(p, t))) = Leaves(t)
<1> DEFINE q == Append(p, t)
<1>1. Len(p) \in Nat /\ Len(q) = Len(p) + 1 /\ q[Len(p) + 1] = t /\ \A i \in 1..Len(p) : q[i] = p[i]
  BY AppendProperties
<1> HIDE DEF q
<1>2. \A i \in 0..Len(p) : OpenAt(o, q, i) = OpenAt(o, p, i) BY <1>1 DEF OpenAt
<1>3. ASSUME NEW i \in 1..Len(q)
      PROVE  q[i].by = by /\ OpenAt(o, q, i - 1) = IF q[i].end THEN q[i].frame ELSE None
  <2>1. i - 1 \in 0..Len(p) BY <1>1
  <2>2. CASE i \in 1..Len(p) BY <1>1, <1>2, <2>1, <2>2 DEF InTurn
  <2>3. CASE i = Len(p) + 1
    <3>1. i - 1 = Len(p) BY <1>1, <2>3
    <3> QED BY <1>1, <1>2, <2>1, <2>3, <3>1
  <2> QED BY <1>1, <2>2, <2>3
<1>4. OpenAt(o, q, Len(q)) = Leaves(t) BY <1>1 DEF OpenAt
<1> QED BY <1>3, <1>4 DEF InTurn, q

\* From the spawn of a process on: what it was given is what the XML parser has ended, what
\* is on the way to it, and what the process has not printed yet or takes with it.
Flow ==
  /\ InTurn(open, chunk \o stdout, starts)
  /\ open \in Frames \cup {None}
  /\ Alive => /\ OpenAt(open, chunk \o stdout, Len(chunk \o stdout)) = IF halfway THEN Head(stdin) ELSE None
              /\ halfway => stdin # <<>> /\ Head(stdin) \in Ipv6
  /\ \E r \in Seq(Frames) : /\ Printed(past.sent) = (past.parsed \o Ends(chunk \o stdout)) \o r
                            /\ Alive => r = Printed(stdin)
  /\ packet_count = Len(past.parsed) + IF open = None THEN 0 ELSE 1
  /\ ~bad_xml

StreamInv ==
  /\ Carried
  /\ ppc \in {"select", "read"} => chunk = <<>>
  /\ calm /\ gpc \in {"idle", "paused", "creating"} => Flow

\* What Printed and Ends are at the end of a sequence, where frames and tags are added.
LEMMA PrintedAppend ==
  ASSUME NEW s \in Seq(Frames), NEW f \in Frames
  PROVE  Printed(Append(s, f)) = Printed(s) \o Printed(<<f>>) /\ Printed(<<f>>) \in Seq(Frames)
<1>1. <<f>> \in Seq(Frames) OBVIOUS
<1>2. Append(s, f) = s \o <<f>> BY AppendIsConcat
<1>3. Printed(s \o <<f>>) = Printed(s) \o Printed(<<f>>) BY <1>1, PrintedConcat
<1> QED BY <1>1, <1>2, <1>3, PrintedConcat

\* A step that touches nothing on the way leaves Flow.
LEMMA FlowSame ==
  ASSUME Flow, UNCHANGED <<open, chunk, stdout, starts, halfway, stdin, packet_count, bad_xml, running>>,
         past'.sent = past.sent, past'.parsed = past.parsed
  PROVE  Flow'
BY DEF Flow, Alive

\* What the poll thread has read is parsed before it reads again.
LEMMA ChunkStep ==
  ASSUME StreamInv, [Next]_vars
  PROVE  ppc' \in {"select", "read"} => chunk' = <<>>
<1>1. CASE Read
  <2>1. ppc = "read" /\ (chunk' = chunk \/ ppc' = "lock") BY <1>1 DEF Read
  <2> QED BY <2>1 DEF StreamInv
<1>2. CASE Parse
  <2>1. chunk \in Seq(Tags) /\ chunk # <<>> BY <1>2 DEF Parse, StreamInv, Carried
  <2>2. Tail(chunk) \in Seq(Tags) /\ Len(Tail(chunk)) = Len(chunk) - 1 BY <2>1, HeadTailProperties
  <2>3. Tail(chunk) # <<>> => Len(Tail(chunk)) \in Nat \ {0} BY <2>2, EmptySeq
  <2>4. Len(chunk) = 1 => Tail(chunk) = <<>> BY <2>2, <2>3
  <2> QED BY <1>2, <2>4 DEF Parse
<1>3. CASE Call \/ Lock BY <1>3 DEF Call, Lock, Locked, StreamInv
<1>4. CASE Gui \/ Interface \/ Tshark \/ UNCHANGED vars
  <2>1. UNCHANGED pollVars
    BY <1>4 DEF Gui, Interface, Tshark, Start, ResetKill, Cleared, ResetClose, ResetSpawn, ResetFails, ResetRest,
                CreateOut, Stop, CloseOut, Pause, Resume, SetPaused, Hear, DumpTshark, TestOut, DumpOut, Flush, Dissect,
                Exit, vars
  <2> QED BY <2>1 DEF pollVars, StreamInv
<1> QED BY <1>1, <1>2, <1>3, <1>4 DEF Next, Poll

\* A new process starts with nothing on the way.
LEMMA FlowSpawn ==
  ASSUME StreamInv, ResetSpawn, calm
  PROVE  Flow'
<1>1. gpc = "spawning" /\ past \in Pasts /\ Carried /\ None \notin Frames
  BY FramesAssumption DEF ResetSpawn, ResetRest, StreamInv, Carried
<1>2. ppc = "select" /\ chunk = <<>> BY <1>1 DEF StreamInv, Carried, HandleInv, CalmInv
<1>3. chunk' = <<>> /\ stdout' = <<>> /\ stdin' = <<>> /\ halfway' = FALSE /\ open' = None /\ packet_count' = 0 /\ bad_xml' = FALSE
  BY <1>2 DEF ResetSpawn, ResetRest, pollVars
<1>4. past'.sent = <<>> /\ past'.parsed = <<>>
  <2>1. past' = [past EXCEPT !.sent = <<>>, !.parsed = <<>>] BY DEF ResetSpawn, ResetRest
  <2> QED BY <1>1, <2>1, SMT DEF Pasts
<1>5. <<>> \in Seq(Frames) /\ Len(<<>>) = 0 BY EmptySeq
<1>6. Printed(<<>>) = <<>> /\ Ends(<<>>) = <<>> BY PrintedNothing
<1>7. <<>> \o <<>> = <<>> OBVIOUS
<1>8. InTurn(None, <<>>, starts') BY <1>5 DEF InTurn
<1>9. OpenAt(None, <<>>, 0) = None BY DEF OpenAt
<1>10. chunk' \o stdout' = <<>> BY <1>3, <1>7
<1>11. /\ InTurn(open', chunk' \o stdout', starts') /\ open' \in Frames \cup {None}
       /\ OpenAt(open', chunk' \o stdout', Len(chunk' \o stdout')) = IF halfway' THEN Head(stdin') ELSE None
       /\ halfway' => stdin' # <<>> /\ Head(stdin') \in Ipv6
       /\ packet_count' = Len(past'.parsed) + IF open' = None THEN 0 ELSE 1
       /\ ~bad_xml'
  BY <1>3, <1>4, <1>5, <1>8, <1>9, <1>10
<1>12. Printed(past'.sent) = (past'.parsed \o Ends(chunk' \o stdout')) \o Printed(stdin') /\ Printed(stdin') \in Seq(Frames)
  BY <1>3, <1>4, <1>5, <1>6, <1>7, <1>10
<1> QED BY <1>11, <1>12 DEF Flow

\* One more frame for tshark.
LEMMA FlowDump ==
  ASSUME Flow, Carried, calm, DumpTshark
  PROVE  Flow'
<1>1. past \in Pasts /\ frame \in Frames /\ stdin \in Seq(Frames) /\ past.sent \in Seq(Frames) /\ past.parsed \in Seq(Frames)
      /\ stdout \in Seq(Tags) /\ chunk \in Seq(Tags)
  BY DEF Carried, DumpTshark, Pasts
<1>2. UNCHANGED <<open, chunk, stdout, starts, halfway, packet_count, bad_xml, running>>
  BY DEF DumpTshark, pollVars, xmlVars, boundVars
<1>3. CASE UNCHANGED <<stdin, past>> BY <1>2, <1>3, FlowSame
<1>4. CASE Alive /\ stdin' = Append(stdin, frame) /\ past' = [past EXCEPT !.sent = Append(@, frame)]
  <2>1. past'.sent = Append(past.sent, frame) /\ past'.parsed = past.parsed BY <1>1, <1>4, SMT DEF Pasts
  <2>2. Printed(Append(past.sent, frame)) = Printed(past.sent) \o Printed(<<frame>>)
    BY <1>1, PrintedAppend
  <2>3. Printed(Append(stdin, frame)) = Printed(stdin) \o Printed(<<frame>>)
    BY <1>1, PrintedAppend
  <2> DEFINE out == past.parsed \o Ends(chunk \o stdout)
  <2>4. out \in Seq(Frames) /\ Printed(stdin) \in Seq(Frames) /\ Printed(<<frame>>) \in Seq(Frames)
    <3>1. chunk \o stdout \in Seq(Tags) BY <1>1, ConcatProperties
    <3>2. Ends(chunk \o stdout) \in Seq(Frames) BY <3>1, EndsConcat
    <3>3. out \in Seq(Frames) BY <1>1, <3>2, ConcatProperties
    <3> QED BY <1>1, <3>3, PrintedConcat, PrintedAppend
  <2>5. Printed(past.sent) = out \o Printed(stdin) BY <1>4 DEF Flow
  <2>6. Printed(past'.sent) = out \o Printed(stdin')
    <3> HIDE DEF out
    <3>1. (out \o Printed(stdin)) \o Printed(<<frame>>) = out \o (Printed(stdin) \o Printed(<<frame>>))
      BY <2>4, ConcatAssociative
    <3>2. Printed(past'.sent) = (out \o Printed(stdin)) \o Printed(<<frame>>) BY <2>1, <2>2, <2>5
    <3>3. Printed(stdin') = Printed(stdin) \o Printed(<<frame>>) BY <1>4, <2>3
    <3> QED BY <3>1, <3>2, <3>3
  <2>7. Printed(stdin') \in Seq(Frames)
    <3>1. stdin' \in Seq(Frames) BY <1>1, <1>4, AppendProperties
    <3> QED BY <3>1, PrintedConcat
  <2>8. stdin # <<>> => stdin' # <<>> /\ Head(stdin') = Head(stdin) BY <1>1, <1>4, HeadTailAppend, AppendProperties
  <2>9. Alive' BY <1>2, <1>4 DEF Alive
  <2>10. Flow /\ halfway => stdin # <<>> BY <1>4 DEF Flow
  <2>11. /\ InTurn(open', chunk' \o stdout', starts') /\ open' \in Frames \cup {None}
         /\ OpenAt(open', chunk' \o stdout', Len(chunk' \o stdout')) = IF halfway' THEN Head(stdin') ELSE None
         /\ halfway' => stdin' # <<>> /\ Head(stdin') \in Ipv6
         /\ packet_count' = Len(past'.parsed) + IF open' = None THEN 0 ELSE 1
         /\ ~bad_xml'
    BY <1>2, <1>4, <2>1, <2>8 DEF Flow
  <2>12. Printed(past'.sent) = (past'.parsed \o Ends(chunk' \o stdout')) \o Printed(stdin') BY <1>2, <2>1, <2>6
  <2> QED BY <2>7, <2>11, <2>12 DEF Flow
<1> QED BY <1>3, <1>4 DEF DumpTshark

\* The first element of a sequence, and what tshark does with it.
LEMMA HeadAndTail ==
  ASSUME NEW S, NEW s \in Seq(S), s # <<>>
  PROVE  Head(s) \in S /\ Tail(s) \in Seq(S) /\ <<Head(s)>> \in Seq(S) /\ s = <<Head(s)>> \o Tail(s)
<1>1. Head(s) \in S /\ Tail(s) \in Seq(S) /\ Len(Tail(s)) = Len(s) - 1 BY HeadTailProperties
<1>2. Len(s) \in Nat \ {0} BY EmptySeq
<1>3. 1 \in 1..Len(s) /\ Len(s) \in 1..Len(s) BY <1>2
<1>4. SubSeq(s, 1, Len(s)) = <<s[1]>> \o SubSeq(s, 1 + 1, Len(s)) BY <1>3, SubSeqRecursiveFirst
<1>5. Tail(s) = SubSeq(s, 2, Len(s)) BY TailIsSubSeq
<1>6. Head(s) = s[1] /\ 1 + 1 = 2 OBVIOUS
<1>7. SubSeq(s, 1, Len(s)) = s BY SubSeqFull
<1>8. <<Head(s)>> \in Seq(S) BY <1>1
<1> QED BY <1>1, <1>4, <1>5, <1>6, <1>7, <1>8

LEMMA PrintedHead ==
  ASSUME NEW s \in Seq(Frames), s # <<>>
  PROVE  /\ Printed(s) = IF Head(s) \in Ipv6 THEN <<Head(s)>> \o Printed(Tail(s)) ELSE Printed(Tail(s))
         /\ Printed(Tail(s)) \in Seq(Frames) /\ <<Head(s)>> \in Seq(Frames)
<1>1. Tail(s) \in Seq(Frames) /\ <<Head(s)>> \in Seq(Frames) /\ s = <<Head(s)>> \o Tail(s) BY HeadAndTail
<1>2. Printed(<<Head(s)>> \o Tail(s)) = Printed(<<Head(s)>>) \o Printed(Tail(s)) /\ Printed(Tail(s)) \in Seq(Frames)
  BY <1>1, PrintedConcat
<1>3. Printed(<<Head(s)>>) = IF Head(s) \in Ipv6 THEN <<Head(s)>> ELSE <<>> BY PrintedOne
<1>4. <<>> \o Printed(Tail(s)) = Printed(Tail(s)) BY <1>2, ConcatEmptySeq
<1> QED BY <1>1, <1>2, <1>3, <1>4

LEMMA EndsEitherSide ==
  ASSUME NEW p \in Seq(Tags), NEW t \in Tags
  PROVE  /\ Ends(p) \in Seq(Frames) /\ <<t.frame>> \in Seq(Frames)
         /\ Ends(Append(p, t)) = IF t.end THEN Ends(p) \o <<t.frame>> ELSE Ends(p)
         /\ Ends(<<t>> \o p) = IF t.end THEN <<t.frame>> \o Ends(p) ELSE Ends(p)
<1>1. <<t>> \in Seq(Tags) /\ Append(p, t) = p \o <<t>> /\ <<t.frame>> \in Seq(Frames) BY AppendIsConcat DEF Tags
<1>2. Ends(p \o <<t>>) = Ends(p) \o Ends(<<t>>) /\ Ends(<<t>> \o p) = Ends(<<t>>) \o Ends(p) /\ Ends(p) \in Seq(Frames)
  BY <1>1, EndsConcat
<1>3. Ends(<<t>>) = IF t.end THEN <<t.frame>> ELSE <<>> BY EndsOne
<1>4. <<>> \o Ends(p) = Ends(p) /\ Ends(p) \o <<>> = Ends(p) BY <1>2, ConcatEmptySeq
<1> QED BY <1>1, <1>2, <1>3, <1>4

\* tshark reads a frame it does not print, prints the beginning of one, or prints its end.
LEMMA FlowDissect ==
  ASSUME Flow, Carried, calm, Dissect
  PROVE  Flow'
<1> DEFINE p == chunk \o stdout
           tag == [frame |-> Head(stdin), end |-> halfway, by |-> starts]
           out == past.parsed \o Ends(p)
<1>1. /\ stdin \in Seq(Frames) /\ stdin # <<>> /\ stdout \in Seq(Tags) /\ chunk \in Seq(Tags) /\ p \in Seq(Tags)
      /\ halfway \in BOOLEAN /\ past.parsed \in Seq(Frames) /\ Head(stdin) \in Frames /\ starts \in Nat
  <2>1. chunk \in Seq(Tags) /\ stdout \in Seq(Tags) /\ stdin \in Seq(Frames) /\ stdin # <<>> BY DEF Carried, Dissect
  <2>2. p \in Seq(Tags) BY <2>1, ConcatProperties
  <2>3. Head(stdin) \in Frames BY <2>1, HeadAndTail
  <2> HIDE DEF p
  <2> QED BY <2>1, <2>2, <2>3 DEF Carried, Pasts, HandleInv, Typed
<1>2. UNCHANGED <<open, chunk, starts, packet_count, bad_xml, running, past>>
  BY DEF Dissect, pollVars, xmlVars, boundVars, historyVars
<1>3. Alive /\ Alive' BY <1>2 DEF Dissect, Alive
<1>4. /\ InTurn(open, p, starts) /\ open \in Frames \cup {None} /\ (halfway => Head(stdin) \in Ipv6)
      /\ OpenAt(open, p, Len(p)) = (IF halfway THEN Head(stdin) ELSE None)
      /\ Printed(past.sent) = out \o Printed(stdin)
      /\ packet_count = Len(past.parsed) + (IF open = None THEN 0 ELSE 1) /\ ~bad_xml
  BY <1>3 DEF Flow
<1>5. Ends(p) \in Seq(Frames) /\ out \in Seq(Frames)
  <2> HIDE DEF p
  <2>1. Ends(p) \in Seq(Frames) BY <1>1, EndsConcat
  <2> QED BY <1>1, <2>1, ConcatProperties
<1>6. /\ Printed(stdin) = IF Head(stdin) \in Ipv6 THEN <<Head(stdin)>> \o Printed(Tail(stdin)) ELSE Printed(Tail(stdin))
      /\ Printed(Tail(stdin)) \in Seq(Frames) /\ <<Head(stdin)>> \in Seq(Frames) /\ Printed(stdin) \in Seq(Frames)
  BY <1>1, PrintedHead, PrintedConcat
<1>7. CASE Head(stdin) \notin Ipv6
  <2>1. stdout' = stdout /\ halfway' = FALSE /\ halfway = FALSE /\ stdin' = Tail(stdin) BY <1>1, <1>4, <1>7 DEF Dissect
  <2>2. Printed(past.sent) = out \o Printed(stdin') BY <1>4, <1>6, <1>7, <2>1
  <2> HIDE DEF tag
  <2> QED BY <1>2, <1>3, <1>4, <1>6, <2>1, <2>2 DEF Flow
<1>8. CASE Head(stdin) \in Ipv6
  <2>1. stdout' = Append(stdout, tag) /\ halfway' = ~halfway /\ stdin' = IF halfway THEN Tail(stdin) ELSE stdin
    BY <1>1, <1>8 DEF Dissect
  <2>2. tag \in Tags /\ tag.by = starts /\ tag.end = halfway /\ tag.frame = Head(stdin) BY <1>1 DEF Tags
  <2> HIDE DEF tag
  <2>3. chunk \o Append(stdout, tag) = Append(p, tag)
    <3>1. Append(stdout, tag) = stdout \o <<tag>> BY <1>1, <2>2, AppendIsConcat
    <3>2. Append(p, tag) = p \o <<tag>> BY <1>1, <2>2, AppendIsConcat
    <3>3. <<tag>> \in Seq(Tags) BY <2>2
    <3>4. (chunk \o stdout) \o <<tag>> = chunk \o (stdout \o <<tag>>) BY <1>1, <3>3, ConcatAssociative
    <3> QED BY <3>1, <3>2, <3>4
  <2>4. chunk' \o stdout' = Append(p, tag) BY <1>2, <2>1, <2>3
  <2> HIDE DEF p
  <2>5. InTurn(open, Append(p, tag), starts) /\ OpenAt(open, Append(p, tag), Len(Append(p, tag))) = Leaves(tag)
    BY <1>1, <1>4, <2>2, InTurnAppend
  <2>6. Leaves(tag) = (IF halfway' THEN Head(stdin') ELSE None) /\ (halfway' => stdin' # <<>> /\ Head(stdin') \in Ipv6)
    BY <1>1, <1>8, <2>1, <2>2 DEF Leaves
  <2>7. Printed(past.sent) = (past.parsed \o Ends(Append(p, tag))) \o Printed(stdin') /\ Printed(stdin') \in Seq(Frames)
    <3>1. CASE ~halfway
      <4>1. Ends(Append(p, tag)) = Ends(p) BY <1>1, <2>2, <3>1, EndsEitherSide
      <4> QED BY <1>4, <1>6, <2>1, <3>1, <4>1
    <3>2. CASE halfway
      <4>1. Ends(Append(p, tag)) = Ends(p) \o <<Head(stdin)>> BY <1>1, <2>2, <3>2, EndsEitherSide
      <4>2. past.parsed \o (Ends(p) \o <<Head(stdin)>>) = out \o <<Head(stdin)>>
        <5> DEFINE x == past.parsed  y == Ends(p)  z == <<Head(stdin)>>
        <5>1. x \in Seq(Frames) /\ y \in Seq(Frames) /\ z \in Seq(Frames) BY <1>1, <1>5, <1>6
        <5> HIDE DEF x, y, z
        <5>2. (x \o y) \o z = x \o (y \o z) BY <5>1, ConcatAssociative
        <5> QED BY <5>2 DEF x, y, z
      <4>3. (out \o <<Head(stdin)>>) \o Printed(Tail(stdin)) = out \o (<<Head(stdin)>> \o Printed(Tail(stdin)))
        <5> HIDE DEF out
        <5> QED BY <1>5, <1>6, ConcatAssociative
      <4>4. Printed(past.sent) = out \o (<<Head(stdin)>> \o Printed(Tail(stdin))) BY <1>4, <1>6, <1>8
      <4>5. stdin' = Tail(stdin) BY <2>1, <3>2
      <4> HIDE DEF out
      <4> QED BY <1>6, <4>1, <4>2, <4>3, <4>4, <4>5
    <3> QED BY <1>1, <3>1, <3>2
  <2>8. InTurn(open', chunk' \o stdout', starts')
        /\ OpenAt(open', chunk' \o stdout', Len(chunk' \o stdout')) = IF halfway' THEN Head(stdin') ELSE None
    BY <1>2, <2>4, <2>5, <2>6
  <2>9. Printed(past'.sent) = (past'.parsed \o Ends(chunk' \o stdout')) \o Printed(stdin') BY <1>2, <2>4, <2>7
  <2>10. packet_count' = Len(past'.parsed) + (IF open' = None THEN 0 ELSE 1) /\ ~bad_xml' /\ open' \in Frames \cup {None}
    BY <1>2, <1>4
  <2> QED BY <2>6, <2>7, <2>8, <2>9, <2>10 DEF Flow
<1> QED BY <1>7, <1>8

\* The process takes with it what it has not printed.
LEMMA FlowExit ==
  ASSUME Flow, Exit
  PROVE  Flow'
<1>1. UNCHANGED <<open, chunk, stdout, starts, packet_count, bad_xml, past>> /\ ~Alive'
  BY DEF Exit, pollVars, xmlVars, boundVars, historyVars, Alive
<1> QED BY <1>1 DEF Flow

\* A read cuts the stream anywhere.
LEMMA FlowRead ==
  ASSUME StreamInv, Flow, Read
  PROVE  Flow'
<1>1. UNCHANGED <<open, starts, halfway, stdin, packet_count, bad_xml, past, running>>
  BY DEF Read, xmlVars, boundVars, historyVars
<1>2. chunk = <<>> /\ chunk \in Seq(Tags) /\ stdout \in Seq(Tags) BY DEF Read, StreamInv, Carried
<1>3. chunk' \o stdout' = chunk \o stdout
  <2>1. CASE UNCHANGED <<chunk, stdout>> BY <2>1
  <2>2. CASE \E n \in 1..ReadSize :
               n <= Len(stdout) /\ chunk' = SubSeq(stdout, 1, n) /\ stdout' = SubSeq(stdout, n + 1, Len(stdout))
    <3> PICK n \in 1..ReadSize :
               n <= Len(stdout) /\ chunk' = SubSeq(stdout, 1, n) /\ stdout' = SubSeq(stdout, n + 1, Len(stdout))
      BY <2>2
    <3>1. Len(stdout) \in Nat /\ n \in Nat /\ n >= 1 BY <1>2, SizesAssumption
    <3>2. 1 \in 1..Len(stdout) + 1 /\ n \in 1 - 1..Len(stdout) /\ Len(stdout) \in n..Len(stdout) BY <3>1
    <3>3. SubSeq(stdout, 1, n) \o SubSeq(stdout, n + 1, Len(stdout)) = SubSeq(stdout, 1, Len(stdout))
      BY <1>2, <3>2, ConcatAdjacentSubSeq
    <3>4. SubSeq(stdout, 1, Len(stdout)) = stdout BY <1>2, SubSeqFull
    <3>5. <<>> \o stdout = stdout BY <1>2, ConcatEmptySeq
    <3> QED BY <1>2, <3>3, <3>4, <3>5
  <2> QED BY <2>1, <2>2 DEF Read
<1>4. Alive' <=> Alive BY <1>1 DEF Alive
<1> QED BY <1>1, <1>3, <1>4 DEF Flow

\* The parser takes a tag, and counts and reports the frame it opens or ends.
LEMMA FlowParse ==
  ASSUME Flow, Carried, calm, Parse
  PROVE  Flow'
<1> DEFINE tag == Head(chunk)
           p == Tail(chunk) \o stdout
<1>1. /\ chunk \in Seq(Tags) /\ chunk # <<>> /\ stdout \in Seq(Tags) /\ tag \in Tags /\ Tail(chunk) \in Seq(Tags)
      /\ chunk = <<tag>> \o Tail(chunk) /\ past \in Pasts /\ past.parsed \in Seq(Frames)
  <2>1. chunk \in Seq(Tags) /\ chunk # <<>> BY DEF Carried, Parse
  <2> QED BY <2>1, HeadAndTail DEF Carried, Pasts
<1>2. UNCHANGED <<stdout, starts, halfway, stdin, running>> /\ chunk' = Tail(chunk)
  BY DEF Parse, tsharkVars, boundVars
<1>3. p \in Seq(Tags) /\ <<tag>> \in Seq(Tags) /\ chunk \o stdout = <<tag>> \o p
  <2>1. p \in Seq(Tags) /\ <<tag>> \in Seq(Tags) BY <1>1, ConcatProperties
  <2>2. (<<tag>> \o Tail(chunk)) \o stdout = <<tag>> \o (Tail(chunk) \o stdout) BY <1>1, <2>1, ConcatAssociative
  <2>3. chunk \o stdout = (<<tag>> \o Tail(chunk)) \o stdout BY <1>1
  <2> QED BY <2>1, <2>2, <2>3
<1> HIDE DEF tag, p
<1>4. <<tag>> \o p \in Seq(Tags) /\ <<tag>> \o p # <<>> /\ Head(<<tag>> \o p) = tag /\ Tail(<<tag>> \o p) = p
  <2>1. <<tag>> \o p \in Seq(Tags) /\ Len(<<tag>> \o p) = Len(<<tag>>) + Len(p) BY <1>3, ConcatProperties
  <2>2. Len(<<tag>>) = 1 /\ Len(p) \in Nat BY <1>3
  <2>3. (<<tag>> \o p)[1] = tag
    <3>1. \A i \in 1..Len(<<tag>>) + Len(p) : (<<tag>> \o p)[i] = IF i <= Len(<<tag>>) THEN <<tag>>[i] ELSE p[i - Len(<<tag>>)]
      BY <1>3, ConcatProperties
    <3> QED BY <2>2, <3>1
  <2>4. <<tag>> \o p # <<>> BY <2>1, <2>2, EmptySeq
  <2>5. Head(<<tag>> \o p) = tag BY <2>1, <2>3
  <2>6. <<tag>> \o p = <<tag>> \o Tail(<<tag>> \o p) /\ Tail(<<tag>> \o p) \in Seq(Tags) BY <2>1, <2>4, <2>5, HeadAndTail
  <2>7. Tail(<<tag>> \o p) = p BY <1>3, <2>6, ConcatSimplifications
  <2> QED BY <2>1, <2>4, <2>5, <2>7
<1>5. /\ InTurn(open, <<tag>> \o p, starts) /\ ~bad_xml
      /\ packet_count = Len(past.parsed) + IF open = None THEN 0 ELSE 1
  BY <1>3 DEF Flow
<1>6. /\ tag.by = starts /\ open = (IF tag.end THEN tag.frame ELSE None) /\ InTurn(Leaves(tag), p, starts)
      /\ OpenAt(Leaves(tag), p, Len(p)) = OpenAt(open, <<tag>> \o p, Len(<<tag>> \o p))
  <2> DEFINE q == <<tag>> \o p
  <2>1. q \in Seq(Tags) /\ q # <<>> /\ InTurn(open, q, starts) /\ Head(q) = tag /\ Tail(q) = p BY <1>4, <1>5
  <2> HIDE DEF q
  <2>2. /\ Head(q).by = starts /\ open = (IF Head(q).end THEN Head(q).frame ELSE None)
        /\ InTurn(Leaves(Head(q)), Tail(q), starts)
        /\ OpenAt(Leaves(Head(q)), Tail(q), Len(Tail(q))) = OpenAt(open, q, Len(q))
    BY <2>1, InTurnTail
  <2> QED BY <2>1, <2>2 DEF q
<1>7. tag.end \in BOOLEAN /\ tag.frame \in Frames /\ tag.frame # None BY <1>1, FramesAssumption DEF Tags
<1>8. /\ open' = Leaves(tag) /\ bad_xml' = FALSE
      /\ packet_count' = IF tag.end THEN packet_count ELSE packet_count + 1
      /\ past' = IF tag.end THEN [past EXCEPT !.parsed = Append(@, tag.frame)] ELSE past
  BY <1>5, <1>6 DEF Parse, Fits, Leaves, tag
<1>9. past'.sent = past.sent /\ past'.parsed = IF tag.end THEN Append(past.parsed, tag.frame) ELSE past.parsed
  <2>1. CASE ~tag.end BY <1>8, <2>1
  <2>2. CASE tag.end
    <3>1. past' = [past EXCEPT !.parsed = Append(@, tag.frame)] BY <1>8, <2>2
    <3>2. past'.sent = past.sent /\ past'.parsed = Append(past.parsed, tag.frame) BY <1>1, <3>1, SMT DEF Pasts
    <3> QED BY <2>2, <3>2
  <2> QED BY <2>1, <2>2
<1>10. past'.parsed \o Ends(p) = past.parsed \o Ends(<<tag>> \o p)
  <2>1. Ends(p) \in Seq(Frames) /\ <<tag.frame>> \in Seq(Frames) BY <1>1, <1>3, EndsEitherSide
  <2>2. CASE ~tag.end
    <3>1. Ends(<<tag>> \o p) = Ends(p) BY <1>1, <1>3, <2>2, EndsEitherSide
    <3> QED BY <1>9, <2>2, <3>1
  <2>3. CASE tag.end
    <3>1. Ends(<<tag>> \o p) = <<tag.frame>> \o Ends(p) BY <1>1, <1>3, <2>3, EndsEitherSide
    <3>2. Append(past.parsed, tag.frame) = past.parsed \o <<tag.frame>> BY <1>1, <1>7, AppendIsConcat
    <3>3. (past.parsed \o <<tag.frame>>) \o Ends(p) = past.parsed \o (<<tag.frame>> \o Ends(p))
      <4> DEFINE x == past.parsed  y == <<tag.frame>>  z == Ends(p)
      <4>1. x \in Seq(Frames) /\ y \in Seq(Frames) /\ z \in Seq(Frames) BY <1>1, <2>1
      <4> HIDE DEF x, y, z
      <4>2. (x \o y) \o z = x \o (y \o z) BY <4>1, ConcatAssociative
      <4> QED BY <4>2 DEF x, y, z
    <3> QED BY <1>9, <2>3, <3>1, <3>2, <3>3
  <2> QED BY <2>2, <2>3
<1>11. packet_count' = Len(past'.parsed) + (IF open' = None THEN 0 ELSE 1) /\ open' \in Frames \cup {None}
  <2>1. Len(past.parsed) \in Nat BY <1>1
  <2>2. tag.end => Len(past'.parsed) = Len(past.parsed) + 1 BY <1>1, <1>7, <1>9, AppendProperties
  <2>3. CASE tag.end
    <3>1. open = tag.frame /\ open' = None BY <1>6, <1>8, <2>3 DEF Leaves
    <3> QED BY <1>5, <1>7, <1>8, <2>1, <2>2, <2>3, <3>1
  <2>4. CASE ~tag.end
    <3>1. open = None /\ open' = tag.frame BY <1>6, <1>8, <2>4 DEF Leaves
    <3>2. past'.parsed = past.parsed BY <1>9, <2>4
    <3> QED BY <1>5, <1>7, <1>8, <2>1, <2>4, <3>1, <3>2
  <2> QED BY <2>3, <2>4
<1>12. chunk' \o stdout' = p BY <1>2 DEF p
<1>13. Alive' <=> Alive BY <1>2 DEF Alive
<1>14. PICK r \in Seq(Frames) : /\ Printed(past.sent) = (past.parsed \o Ends(<<tag>> \o p)) \o r
                                /\ Alive => r = Printed(stdin)
  BY <1>3 DEF Flow
<1>15. Printed(past'.sent) = (past'.parsed \o Ends(chunk' \o stdout')) \o r /\ (Alive' => r = Printed(stdin'))
  BY <1>2, <1>9, <1>10, <1>12, <1>13, <1>14
<1>16. Alive' => /\ OpenAt(open', chunk' \o stdout', Len(chunk' \o stdout')) = IF halfway' THEN Head(stdin') ELSE None
                 /\ halfway' => stdin' # <<>> /\ Head(stdin') \in Ipv6
  BY <1>2, <1>3, <1>6, <1>8, <1>12, <1>13 DEF Flow
<1>17. InTurn(open', chunk' \o stdout', starts') BY <1>2, <1>6, <1>8, <1>12
<1> QED BY <1>8, <1>11, <1>15, <1>16, <1>17 DEF Flow

\* The stream stays exact through every step of the three threads.
LEMMA StreamStep ==
  ASSUME StreamInv, [Next]_vars
  PROVE  StreamInv'
<1>1. Carried /\ Carried' BY CarriedStep DEF StreamInv
<1>2. HandleInv /\ Typed' /\ calm \in BOOLEAN /\ calm' \in BOOLEAN /\ past \in Pasts
  BY <1>1 DEF Carried, HandleInv, Typed
<1>3. SUFFICES ASSUME calm' = TRUE, gpc' \in {"idle", "paused", "creating"} PROVE Flow'
  BY <1>1, <1>2, ChunkStep DEF StreamInv
<1> DEFINE Same == /\ UNCHANGED <<open, chunk, stdout, starts, halfway, stdin, packet_count, bad_xml, running>>
                   /\ past'.sent = past.sent /\ past'.parsed = past.parsed
                   /\ calm /\ gpc \in {"idle", "paused", "creating"}
<1>4. CASE Same
  <2>1. Flow BY <1>4 DEF StreamInv
  <2> QED BY <1>4, <2>1, FlowSame
<1>5. CASE Start \/ ResetKill \/ ResetClose
  BY <1>3, <1>5 DEF Start, ResetKill, Cleared, ResetClose
<1>6. CASE ResetSpawn
  <2>1. calm BY <1>3, <1>6 DEF ResetSpawn
  <2> QED BY <1>6, <2>1, FlowSpawn
<1>7. CASE ResetFails BY <1>3, <1>7 DEF ResetFails
<1>8. CASE CreateOut \/ Pause \/ Resume \/ TestOut \/ DumpOut \/ Flush \/ Lock \/ UNCHANGED vars
  <2>1. calm /\ past' = past /\ gpc \in {"idle", "paused", "creating"}
    BY <1>3, <1>8 DEF CreateOut, Pause, Resume, SetPaused, TestOut, DumpOut, Flush, Lock, Locked, vars, guiVars, historyVars
  <2>2. UNCHANGED <<open, chunk, stdout, starts, halfway, stdin, packet_count, bad_xml, running>>
    BY <1>8 DEF CreateOut, Pause, Resume, SetPaused, TestOut, DumpOut, Flush, Lock, Locked, vars, pollVars, tsharkVars,
                xmlVars, boundVars
  <2> QED BY <1>4, <2>1, <2>2
<1>9. CASE Stop \/ Call
  <2>1. calm /\ past' = past BY <1>2, <1>3, <1>9 DEF Stop, CloseOut, Call, Overlaps
  <2>2. gpc' = gpc BY <1>9 DEF Stop, CloseOut, Call, guiVars
  <2>3. UNCHANGED <<open, chunk, stdout, starts, halfway, stdin, packet_count, bad_xml, running>>
    BY <1>9 DEF Stop, CloseOut, Call, pollVars, tsharkVars, xmlVars, boundVars
  <2> QED BY <1>3, <1>4, <2>1, <2>2, <2>3
<1>10. CASE \E f \in Frames : Hear(f)
  <2> PICK f \in Frames : Hear(f) BY <1>10
  <2>1. calm /\ gpc' = gpc BY <1>2, <1>3 DEF Hear, guiVars
  <2>2. UNCHANGED <<open, chunk, stdout, starts, halfway, stdin, packet_count, bad_xml, running>>
    BY DEF Hear, pollVars, tsharkVars, xmlVars
  <2>3. past'.sent = past.sent /\ past'.parsed = past.parsed
    <3>1. past' = [past EXCEPT !.heard = Append(@, f), !.passed = IF rpc' = "idle" THEN @ ELSE Append(@, f)]
      BY <1>3 DEF Hear
    <3> QED BY <1>2, <3>1, SMT DEF Pasts
  <2> QED BY <1>3, <1>4, <2>1, <2>2, <2>3
<1>11. CASE DumpTshark
  <2>1. calm /\ gpc' = gpc BY <1>3, <1>11 DEF DumpTshark, guiVars
  <2>2. Flow BY <1>3, <2>1 DEF StreamInv
  <2> QED BY <1>1, <1>11, <2>1, <2>2, FlowDump
<1>12. CASE Tshark
  <2>1. calm /\ gpc' = gpc BY <1>3, <1>12 DEF Tshark, Dissect, Exit, guiVars, historyVars
  <2>2. Flow BY <1>3, <2>1 DEF StreamInv
  <2> QED BY <1>1, <1>12, <2>1, <2>2, FlowDissect, FlowExit DEF Tshark
<1>13. CASE Read \/ Parse
  <2>1. calm /\ gpc' = gpc BY <1>3, <1>13 DEF Read, Parse, guiVars, historyVars
  <2>2. Flow BY <1>3, <2>1 DEF StreamInv
  <2> QED BY <1>1, <1>13, <2>1, <2>2, FlowRead, FlowParse
<1> QED BY <1>5, <1>6, <1>7, <1>8, <1>9, <1>10, <1>11, <1>12, <1>13 DEF Next, Gui, Interface, Poll

\* A sequence is a prefix of its extensions.
LEMMA PrefixOfConcat ==
  ASSUME NEW s \in Seq(Frames), NEW r \in Seq(Frames)
  PROVE  IsPrefix(s, s \o r)
<1>1. Len(s) \in Nat /\ Len(r) \in Nat /\ Len(s \o r) = Len(s) + Len(r) BY ConcatProperties
<1>2. CASE Len(s) = 0
  <2>1. SubSeq(s, 1, Len(s)) = <<>> /\ SubSeq(s \o r, 1, Len(s)) = <<>> BY <1>2, SubSeqEmpty
  <2> QED BY <1>1, <2>1 DEF IsPrefix
<1>3. CASE Len(s) # 0
  <2>1. 1 \in 1..Len(s) /\ Len(s) \in 1..Len(s) BY <1>1, <1>3
  <2>2. SubSeq(s \o r, 1, Len(s)) = SubSeq(s, 1, Len(s)) BY <2>1, SubSeqOfConcat1
  <2> QED BY <1>1, <2>2 DEF IsPrefix
<1> QED BY <1>2, <1>3

\* The pipes, the reads, the pause and the XML parser: every frame tshark prints is parsed in
\* order and once, for every size of the pipes and of a read.
THEOREM StreamExactAlways == Spec => []StreamExact
<1>1. Init => StreamInv
  <2> SUFFICES ASSUME Init PROVE StreamInv OBVIOUS
  <2>1. HandleInv BY DEF Init, HandleInv, CalmInv, Typed, Handles
  <2>2. NoPast \in Pasts /\ <<>> \in Seq(Frames) /\ <<>> \in Seq(Tags) BY EmptySeq DEF NoPast, Pasts
  <2>3. Carried BY <2>1, <2>2 DEF Init, Carried
  <2>4. Flow
    <3>1. ~Alive /\ past.sent = <<>> /\ past.parsed = <<>> BY DEF Init, Alive, NoPast
    <3>2. <<>> \o <<>> = <<>> /\ Len(<<>>) = 0 OBVIOUS
    <3>3. InTurn(open, chunk \o stdout, starts) BY <3>2 DEF Init, InTurn
    <3>4. Printed(<<>>) = <<>> /\ Ends(<<>>) = <<>> BY PrintedNothing
    <3>5. Printed(past.sent) = (past.parsed \o Ends(chunk \o stdout)) \o <<>> BY <3>1, <3>2, <3>4 DEF Init
    <3>6. \E r \in Seq(Frames) : /\ Printed(past.sent) = (past.parsed \o Ends(chunk \o stdout)) \o r
                                 /\ Alive => r = Printed(stdin)
      <4> WITNESS <<>> \in Seq(Frames)
      <4> QED BY <3>1, <3>5
    <3>7. open \in Frames \cup {None} /\ ~bad_xml /\ packet_count = Len(past.parsed) + IF open = None THEN 0 ELSE 1
      BY <3>1, <3>2 DEF Init
    <3> QED BY <3>1, <3>3, <3>6, <3>7 DEF Flow
  <2> QED BY <2>3, <2>4 DEF Init, StreamInv
<1>2. StreamInv /\ [Next]_vars => StreamInv' BY StreamStep
<1>3. StreamInv => StreamExact
  <2> SUFFICES ASSUME StreamInv, calm, gpc \in {"idle", "paused"} PROVE
        LET out == past.parsed \o Ends(chunk) \o Ends(stdout) IN
        /\ IF Alive THEN Printed(past.sent) = out \o Printed(stdin) ELSE IsPrefix(out, Printed(past.sent))
        /\ packet_count = Len(past.parsed) + IF open = None THEN 0 ELSE 1
        /\ ~bad_xml
    BY DEF StreamExact
  <2>1. Flow /\ Carried BY DEF StreamInv
  <2>2. chunk \in Seq(Tags) /\ stdout \in Seq(Tags) /\ past.parsed \in Seq(Frames) BY <2>1 DEF Carried, Pasts
  <2>3. Ends(chunk \o stdout) = Ends(chunk) \o Ends(stdout) /\ Ends(chunk) \in Seq(Frames) /\ Ends(stdout) \in Seq(Frames)
    BY <2>2, EndsConcat
  <2> DEFINE out == past.parsed \o Ends(chunk) \o Ends(stdout)
  <2>4. past.parsed \o Ends(chunk \o stdout) = out
    <3>1. (past.parsed \o Ends(chunk)) \o Ends(stdout) = past.parsed \o (Ends(chunk) \o Ends(stdout))
      <4> DEFINE x == past.parsed  y == Ends(chunk)  z == Ends(stdout)
      <4>1. x \in Seq(Frames) /\ y \in Seq(Frames) /\ z \in Seq(Frames) BY <2>2, <2>3
      <4> HIDE DEF x, y, z
      <4>2. (x \o y) \o z = x \o (y \o z) BY <4>1, ConcatAssociative
      <4> QED BY <4>2 DEF x, y, z
    <3> QED BY <2>3, <3>1
  <2>5. out \in Seq(Frames)
    <3>1. past.parsed \o Ends(chunk) \in Seq(Frames) BY <2>2, <2>3, ConcatProperties
    <3> QED BY <2>3, <3>1, ConcatProperties
  <2> HIDE DEF out
  <2>6. PICK r \in Seq(Frames) : Printed(past.sent) = out \o r /\ (Alive => r = Printed(stdin))
    BY <2>1, <2>4 DEF Flow
  <2>7. IsPrefix(out, out \o r) BY <2>5, PrefixOfConcat
  <2>8. IF Alive THEN Printed(past.sent) = out \o Printed(stdin) ELSE IsPrefix(out, Printed(past.sent))
    BY <2>6, <2>7
  <2> QED BY <2>1, <2>8 DEF Flow, out
<1> QED BY <1>1, <1>2, <1>3, PTL DEF Spec
=============================================================================
