-------------------------------- MODULE Capture --------------------------------
(***************************************************************************)
(* The way of a frame through sniffer_packet_parser.c: the duplicate       *)
(* filter, the tshark process behind two pipes, the capture file, and the  *)
(* XML parser that reads what tshark prints.                               *)
(*                                                                         *)
(* Three threads meet here.  The thread of an interface delivers a frame   *)
(* (sniffer_parser_parse_data, under new_packet_mutex).  The poll thread   *)
(* reads tshark's output in process_events and holds state_lock during     *)
(* XML_Parse.  The GUI thread starts and stops captures                    *)
(* (rpl_tool_start_capture, rpl_tool_stop_capture) and pauses the parser   *)
(* around rpldata_clear.  Starting a capture replaces every handle the two *)
(* other threads use and takes neither lock.  tshark may exit at any time. *)
(***************************************************************************)
EXTENDS Integers, Sequences, FiniteSets, SequencesExt

CONSTANTS
  Frames,        \* contents of frames
  Ipv6,          \* those tshark prints: it is started with -R ipv6
  None,          \* no packet element is open
  LastPackets,   \* LAST_PACKET_NUMBER (100)
  PipeSize,      \* frames that fit into a pipe
  ReadSize,      \* tags that one read of 512 bytes may return
  MaxStarts,     \* bound: captures started
  MaxHeard,      \* bound: frames heard
  MaxUneasy,     \* bound: frames heard once a start or a stop has overlapped something
  MaxPauses      \* bound: calls of rpldata_clear

\* pcap_output is the stream of pdumper, made for it and closed by pcap_dump_close.
Handles == {"pdumper", "pd_out", "pdumper_out", "pipe_tshark_stdout", "parser"}

ASSUME FramesAssumption == Ipv6 \subseteq Frames /\ None \notin Frames
ASSUME SizesAssumption == /\ LastPackets \in Nat \ {0} /\ PipeSize \in Nat \ {0}
                          /\ ReadSize \in Nat \ {0}
ASSUME BoundsAssumption == /\ MaxStarts \in Nat /\ MaxHeard \in Nat
                           /\ MaxUneasy \in 0..MaxHeard /\ MaxPauses \in Nat

VARIABLES
  gpc,               \* where the GUI thread is
  rpc, frame,        \* the interface thread, and the frame in its hands
  ppc, chunk,        \* the poll thread, and the tags it has read and not yet parsed
  handle,            \* each global handle: "null", "live", or "freed" and dangling
  registered,        \* process_events is registered for pipe_tshark_stdout
  xml_parser_state,  \* XPS_Run or XPS_Paused
  sigpipe,           \* disposition of SIGPIPE: "default", "handler" or "ignored"
  tshark_pid,        \* 0, or the number of the spawn
  running,           \* the tshark processes that exist
  stdin, stdout,     \* the two pipes of the newest process
  halfway,           \* it has printed the beginning of a packet and not the end
  open,              \* the packet element dissected_packet_parser is inside of
  bad_xml,           \* dissected_packet_parser has met an error and parses no more
  packet_count,
  last_packets,      \* the filter's list, oldest first
  file,              \* what has been written to out.pcap
  fault,             \* a freed or NULL handle has been used, or fd 0 has been read
  starts, pauses, frames, \* counters of the bounds; starts numbers the spawns
  errors,            \* errors reported to the GUI since the last reset
  crashed,           \* history: the processes that have exited by themselves
  past,              \* history: frames heard and passed since the list was cleared, frames
                     \* sent to the newest tshark, packets its XML parser has ended
  calm               \* history: no start or stop has overlapped a frame, a callback or a
                     \* running capture, and no spawn has failed; past is kept while calm

guiVars == <<gpc, xml_parser_state>>
interfaceVars == <<rpc, frame>>
pollVars == <<ppc, chunk>>
handleVars == <<handle, registered>>
tsharkVars == <<tshark_pid, running, stdin, stdout, halfway>>
signalVars == <<sigpipe, errors>>
xmlVars == <<open, bad_xml, packet_count>>
storeVars == <<last_packets, file>>
boundVars == <<starts, pauses, frames>>
historyVars == <<past, calm>>
vars == <<guiVars, interfaceVars, pollVars, handleVars, tsharkVars, signalVars, xmlVars, storeVars,
          boundVars, fault, crashed, historyVars>>

NoPast == [heard |-> <<>>, passed |-> <<>>, sent |-> <<>>, parsed |-> <<>>]

Init ==
  /\ gpc = "idle" /\ xml_parser_state = "run"
  /\ rpc = "idle" /\ frame = None
  /\ ppc = "select" /\ chunk = <<>>
  /\ handle = [h \in Handles |-> "null"] /\ registered = FALSE
  /\ tshark_pid = 0 /\ running = {} /\ stdin = <<>> /\ stdout = <<>> /\ halfway = FALSE
  /\ sigpipe = "default" /\ errors = 0
  /\ open = None /\ bad_xml = FALSE /\ packet_count = 0
  /\ last_packets = <<>> /\ file = <<>>
  /\ starts = 0 /\ pauses = 0 /\ frames = 0
  /\ fault = FALSE /\ crashed = {} /\ past = NoPast /\ calm = TRUE

\* The newest tshark still runs: nobody else writes to the pipes it reads and fills.
Alive == starts \in running

\* A step that overlaps what it should not ends the calm.
Overlaps(so) ==
  /\ calm' = (calm /\ ~so)
  /\ past' = IF calm' THEN past ELSE NoPast

\* The program goes on until a handle is misused; what follows is undefined.
Uses(h) == fault' = (handle[h] # "live")

-----------------------------------------------------------------------------
(* The GUI thread.                                                         *)

\* rpl_tool_start_capture enters sniffer_parser_reset, and hash_clear the list.
Start ==
  /\ gpc = "idle" /\ starts < MaxStarts
  /\ gpc' = "clearing"
  /\ Overlaps(rpc # "idle" \/ ppc # "select" \/ handle["pdumper_out"] # "null")
  /\ UNCHANGED <<xml_parser_state, interfaceVars, pollVars, handleVars, tsharkVars, signalVars,
                 xmlVars, storeVars, boundVars, fault, crashed>>

Cleared == /\ gpc = "clearing" /\ gpc' = "closing"
           /\ last_packets' = <<>> /\ past' = [past EXCEPT !.heard = <<>>, !.passed = <<>>]
           /\ handle' = [handle EXCEPT !["pipe_tshark_stdout"] = IF @ = "live" THEN "freed" ELSE @]
           /\ registered' = FALSE /\ stdout' = <<>> /\ stdin' = <<>> /\ halfway' = FALSE
           /\ UNCHANGED <<xml_parser_state, interfaceVars, pollVars, tshark_pid, errors, xmlVars,
                          file, boundVars, fault, crashed, calm>>

\* Variants: the old process lives on; SIGPIPE keeps its handler while it dies.
ResetKill_Spares == Cleared /\ sigpipe' = "ignored" /\ UNCHANGED running
ResetKill_Handled == Cleared /\ running' = running \ {tshark_pid} /\ UNCHANGED sigpipe

\* The list is empty; the old tshark is killed with SIGPIPE ignored, and its output
\* taken from the poll table and closed.
ResetKill ==
  /\ Cleared
  /\ IF tshark_pid = 0 THEN UNCHANGED <<sigpipe, running>>
     ELSE sigpipe' = "ignored" /\ running' = running \ {tshark_pid}

\* pd, pdumper, pd_out and the XML parser are released.  An open capture file is
\* closed and opened again on pd_out, which is closed already.
ResetClose ==
  /\ gpc = "closing" /\ gpc' = "spawning"
  /\ fault' = (handle["pdumper_out"] # "null" \/ handle["parser"] = "freed")
  /\ handle' = [h \in Handles |-> IF h \in {"pdumper", "pd_out", "parser"} /\ handle[h] = "live"
                                  THEN "freed" ELSE handle[h]]
  /\ UNCHANGED <<xml_parser_state, interfaceVars, pollVars, registered, tsharkVars, signalVars,
                 xmlVars, storeVars, boundVars, crashed, historyVars>>

\* All pointers but the XML parser's are NULL before the process is spawned.
Renewed(new) ==
  [h \in Handles |-> IF h \in new THEN "live"
                     ELSE IF h \in {"pdumper", "pd_out", "pipe_tshark_stdout"} THEN "null"
                     ELSE handle[h]]

\* SIGPIPE gets its handler and the count of packets is 0.
ResetRest ==
  /\ gpc = "spawning" /\ gpc' = "creating"
  /\ sigpipe' = "handler" /\ packet_count' = 0 /\ errors' = 0
  /\ stdin' = <<>> /\ stdout' = <<>> /\ halfway' = FALSE
  /\ past' = [past EXCEPT !.sent = <<>>, !.parsed = <<>>]
  /\ UNCHANGED <<xml_parser_state, interfaceVars, pollVars, storeVars, pauses, frames, fault, crashed>>

Spawned == /\ tshark_pid' = starts + 1 /\ starts' = starts + 1
           /\ running' = running \cup {starts + 1}

\* Variant: the XML parser of the old process is kept.
ResetSpawn_OldParser ==
  /\ ResetRest /\ Spawned
  /\ handle' = Renewed(Handles \ {"pdumper_out"}) /\ registered' = TRUE
  /\ UNCHANGED <<open, bad_xml, calm>>

\* The process, its pipes and files, a new XML parser and its place in the poll table.
ResetSpawn ==
  /\ ResetRest /\ Spawned
  /\ handle' = Renewed(Handles \ {"pdumper_out"}) /\ registered' = TRUE
  /\ open' = None /\ bad_xml' = FALSE /\ UNCHANGED calm

\* pipe, fork or fdopen fails: the reset returns with no more handles than it has got.
ResetFails ==
  /\ ResetRest
  /\ \/ tshark_pid' = 0 /\ UNCHANGED <<running, starts>> /\ handle' = Renewed({})
     \/ Spawned /\ handle' = Renewed({"pipe_tshark_stdout"})
  /\ calm' = FALSE
  /\ UNCHANGED <<registered, open, bad_xml>>

\* sniffer_parser_create_out: the old file, if open, is closed; the new one is
\* opened on pd_out.
CreateOut ==
  /\ gpc = "creating" /\ gpc' = "idle"
  /\ Uses("pd_out")
  /\ handle' = [handle EXCEPT !["pdumper_out"] = "live"]
  /\ file' = <<>>
  /\ UNCHANGED <<xml_parser_state, interfaceVars, pollVars, registered, tsharkVars, signalVars,
                 xmlVars, last_packets, boundVars, crashed, historyVars>>

CloseOut(left) ==
  /\ gpc = "idle" /\ handle["pdumper_out"] # "null"
  /\ handle' = [handle EXCEPT !["pdumper_out"] = left]
  /\ Overlaps(rpc # "idle")
  /\ UNCHANGED <<guiVars, interfaceVars, pollVars, registered, tsharkVars, signalVars, xmlVars,
                 storeVars, boundVars, fault, crashed>>

\* Variant: the pointer is left dangling.
Stop_Dangling == CloseOut("freed")

\* rpl_tool_stop_capture: sniffer_parser_close_out.
Stop == CloseOut("null")

\* sniffer_parser_pause_parser takes state_lock, which the poll thread holds while it parses.
SetPaused(from, to, state) ==
  /\ gpc = from /\ gpc' = to /\ ppc # "parse" /\ xml_parser_state' = state
  /\ UNCHANGED <<interfaceVars, pollVars, handleVars, tsharkVars, signalVars, xmlVars, storeVars,
                 starts, frames, fault, crashed, historyVars>>

Pause == pauses < MaxPauses /\ pauses' = pauses + 1 /\ SetPaused("idle", "paused", "paused")
Resume == UNCHANGED pauses /\ SetPaused("paused", "idle", "run")

-----------------------------------------------------------------------------
(* The thread of an interface: sniffer_parser_parse_data.                  *)

Full == Len(last_packets) >= LastPackets
Others(f) ==
  RemoveAt(last_packets, CHOOSE i \in DOMAIN last_packets : last_packets[i] = f)

\* Variant: a frame heard again keeps its place.
Remembered_InPlace(f) ==
  IF f \in Range(last_packets) THEN last_packets
  ELSE Append(IF Full THEN Tail(last_packets) ELSE last_packets, f)

\* check_duplicate_packet: a frame heard again moves to the end of the list, and a
\* full list loses its first.
Remembered(f) ==
  Append(IF f \in Range(last_packets) THEN Others(f)
         ELSE IF Full THEN Tail(last_packets) ELSE last_packets, f)

\* The interfaces are started after the first capture.  hash_clear and the filter change
\* the same list without a common lock.
Hear(f) ==
  /\ rpc = "idle" /\ starts > 0 /\ frames < (IF calm THEN MaxHeard ELSE MaxUneasy)
  /\ frames' = frames + 1
  /\ fault' = (gpc = "clearing")
  /\ calm' = (calm /\ gpc \in {"idle", "paused"})
  /\ last_packets' = Remembered(f)
  /\ IF f \in Range(last_packets) THEN UNCHANGED interfaceVars ELSE rpc' = "tshark" /\ frame' = f
  /\ past' = IF calm' THEN [past EXCEPT !.heard = Append(@, f),
                                        !.passed = IF rpc' = "idle" THEN @ ELSE Append(@, f)]
             ELSE NoPast
  /\ UNCHANGED <<guiVars, pollVars, handleVars, tsharkVars, signalVars, xmlVars, file, starts, pauses,
                 crashed>>

\* SIGPIPE.  The handler, tshark_exited, forgets the process and reports once.
DumpBroken ==
  IF sigpipe = "handler"
  THEN sigpipe' = "ignored" /\ tshark_pid' = 0 /\ errors' = errors + 1
  ELSE UNCHANGED <<sigpipe, tshark_pid, errors>>

\* pcap_dump to tshark: blocks while the pipe is full, and raises SIGPIPE when nobody
\* reads it.
DumpTshark ==
  /\ rpc = "tshark" /\ rpc' = "test" /\ Uses("pdumper")
  /\ \/ handle["pdumper"] # "live" /\ UNCHANGED <<tshark_pid, signalVars, stdin, past>>
     \/ /\ handle["pdumper"] = "live" /\ Alive /\ Len(stdin) < PipeSize
        /\ stdin' = Append(stdin, frame)
        /\ past' = IF calm THEN [past EXCEPT !.sent = Append(@, frame)] ELSE past
        /\ UNCHANGED <<tshark_pid, signalVars>>
     \/ /\ handle["pdumper"] = "live" /\ ~Alive
        /\ DumpBroken
        /\ UNCHANGED <<stdin, past>>
  /\ UNCHANGED <<guiVars, frame, pollVars, handleVars, running, stdout, halfway, xmlVars, storeVars, boundVars,
                 crashed, calm>>

\* Variant: nothing is recorded once tshark is gone.
TestOut_OnlyAlive ==
  /\ rpc = "test"
  /\ IF ~Alive \/ handle["pdumper_out"] = "null" THEN rpc' = "flush" /\ frame' = None
     ELSE rpc' = "file" /\ UNCHANGED frame
  /\ UNCHANGED <<guiVars, pollVars, handleVars, tsharkVars, signalVars, xmlVars, storeVars, boundVars,
                 fault, crashed, historyVars>>

\* if(pdumper_out) ...
TestOut ==
  /\ rpc = "test"
  /\ IF handle["pdumper_out"] = "null" THEN rpc' = "flush" /\ frame' = None
     ELSE rpc' = "file" /\ UNCHANGED frame
  /\ UNCHANGED <<guiVars, pollVars, handleVars, tsharkVars, signalVars, xmlVars, storeVars, boundVars,
                 fault, crashed, historyVars>>

\* ... pcap_dump to the capture file.
DumpOut ==
  /\ rpc = "file" /\ rpc' = "flush" /\ frame' = None
  /\ Uses("pdumper_out")
  /\ file' = Append(file, frame)
  /\ UNCHANGED <<guiVars, pollVars, handleVars, tsharkVars, signalVars, xmlVars, last_packets,
                 boundVars, crashed, historyVars>>

\* fflush(pcap_output): pcap_dump_flush has left nothing to write, and NULL means all
\* streams.
Flush ==
  /\ rpc = "flush" /\ rpc' = "idle" /\ fault' = (handle["pdumper"] = "freed")
  /\ UNCHANGED <<guiVars, frame, pollVars, handleVars, tsharkVars, signalVars, xmlVars, storeVars,
                 boundVars, crashed, historyVars>>

-----------------------------------------------------------------------------
(* tshark.                                                                 *)

\* It reads a frame and, if it is IPv6, prints a packet element, in two pieces at least.
Dissect ==
  /\ Alive /\ stdin # <<>> /\ Len(stdout) < 2 * PipeSize
  /\ IF Head(stdin) \in Ipv6
     THEN /\ stdout' = Append(stdout, [frame |-> Head(stdin), end |-> halfway, by |-> starts])
          /\ halfway' = ~halfway
     ELSE UNCHANGED <<stdout, halfway>>
  /\ stdin' = IF halfway' THEN stdin ELSE Tail(stdin)
  /\ UNCHANGED <<guiVars, interfaceVars, pollVars, handleVars, tshark_pid, running, signalVars,
                 xmlVars, storeVars, boundVars, fault, crashed, historyVars>>

\* It exits, or has never started because execvp failed; what it printed can be read.
Exit ==
  /\ Alive
  /\ running' = running \ {starts} /\ crashed' = crashed \cup {starts}
  /\ stdin' = <<>> /\ halfway' = FALSE
  /\ UNCHANGED <<guiVars, interfaceVars, pollVars, handleVars, tshark_pid, stdout, signalVars,
                 xmlVars, storeVars, boundVars, fault, historyVars>>

-----------------------------------------------------------------------------
(* The poll thread: process_events.                                        *)

\* select finds output, or the end of it, and the callback is called.
Call ==
  /\ ppc = "select" /\ registered /\ (stdout # <<>> \/ ~Alive)
  /\ ppc' = "read"
  /\ Overlaps(gpc \notin {"idle", "paused"})
  /\ UNCHANGED <<guiVars, interfaceVars, chunk, handleVars, tsharkVars, signalVars, xmlVars,
                 storeVars, boundVars, fault, crashed>>

\* read: a closed descriptor, no output yet and the end of the output all end the loop.
\* pipe_tshark_stdout = 0 is the standard input of the program.
Read ==
  /\ ppc = "read" /\ fault' = (handle["pipe_tshark_stdout"] = "null")
  /\ IF stdout = <<>> \/ handle["pipe_tshark_stdout"] # "live"
     THEN ppc' = "select" /\ UNCHANGED <<chunk, stdout>>
     ELSE \E n \in 1..ReadSize :
            /\ n <= Len(stdout)
            /\ chunk' = SubSeq(stdout, 1, n) /\ stdout' = SubSeq(stdout, n + 1, Len(stdout))
            /\ ppc' = "lock"
  /\ UNCHANGED <<guiVars, interfaceVars, handleVars, tshark_pid, running, stdin, halfway, signalVars,
                 xmlVars, storeVars, boundVars, crashed, historyVars>>

Locked == /\ ppc = "lock" /\ ppc' = "parse"
          /\ UNCHANGED <<guiVars, interfaceVars, chunk, handleVars, tsharkVars, signalVars, xmlVars,
                         storeVars, boundVars, fault, crashed, historyVars>>

\* Variants: the flag is not tested; what was read while paused is dropped.
Lock_Unchecked == Locked
Lock_Drops ==
  \/ xml_parser_state = "run" /\ Locked
  \/ /\ ppc = "lock" /\ xml_parser_state = "paused" /\ ppc' = "read" /\ chunk' = <<>>
     /\ UNCHANGED <<guiVars, interfaceVars, handleVars, tsharkVars, signalVars, xmlVars, storeVars,
                    boundVars, fault, crashed, historyVars>>

\* state_lock is taken, and given back for a while as long as the parser is paused.
Lock == xml_parser_state # "paused" /\ Locked

\* A start tag outside of packets, or the end tag of the packet that is open.
Fits(tag) == open = IF tag.end THEN tag.frame ELSE None

\* XML_Parse calls back for one tag after the other.  A document that begins with what an
\* older process printed is in error when the new one begins its own.
Parse ==
  /\ ppc = "parse" /\ Uses("parser")
  /\ LET tag == Head(chunk) IN
       /\ IF bad_xml \/ ~Fits(tag)
          THEN UNCHANGED <<open, packet_count, past>>
          ELSE /\ open' = IF tag.end THEN None ELSE tag.frame
               /\ packet_count' = IF tag.end THEN packet_count ELSE packet_count + 1
               /\ past' = IF calm /\ tag.end THEN [past EXCEPT !.parsed = Append(@, tag.frame)] ELSE past
       /\ bad_xml' = (bad_xml \/ ~Fits(tag) \/ (tag.by # starts /\ Len(chunk) = 1))
  /\ chunk' = Tail(chunk)
  /\ ppc' = IF Len(chunk) = 1 THEN "read" ELSE "parse"
  /\ UNCHANGED <<guiVars, interfaceVars, handleVars, tsharkVars, signalVars, storeVars, boundVars,
                 crashed, calm>>

-----------------------------------------------------------------------------
Gui == \/ Start \/ ResetKill \/ ResetClose \/ ResetSpawn \/ ResetFails \/ CreateOut
       \/ Stop \/ Pause \/ Resume
Interface == (\E f \in Frames : Hear(f)) \/ DumpTshark \/ TestOut \/ DumpOut \/ Flush
Tshark == Dissect \/ Exit
Poll == Call \/ Read \/ Lock \/ Parse

Next == ~fault /\ (Gui \/ Interface \/ Tshark \/ Poll)

Spec == Init /\ [][Next]_vars

\* The three threads run, tshark reads and prints, and rpldata_clear ends.
Fairness == /\ WF_vars(~fault /\ (DumpTshark \/ TestOut \/ DumpOut \/ Flush))
            /\ WF_vars(~fault /\ Dissect)
            /\ WF_vars(~fault /\ Poll)
            /\ WF_vars(~fault /\ Resume)
FairSpec == Spec /\ Fairness

-----------------------------------------------------------------------------
(* Properties.                                                             *)

\* No thread uses a handle that another one has released or not yet made, unless a start
\* or a stop has overlapped a frame, a callback or a running capture, or a spawn has failed.
NoFault == fault => ~calm

\* From the return of sniffer_parser_pause_parser(true) to the call that resumes, no tag is
\* parsed: rpldata_clear has the store to itself, whatever else happens.
PauseHolds == gpc = "paused" => ppc # "parse" /\ xml_parser_state = "paused"

\* The elements of h at the positions in N, in the order of the positions.
At(h, N) ==
  [k \in 1..Cardinality(N) |-> h[CHOOSE i \in N : Cardinality({j \in N : j <= i}) = k]]

\* The positions among the first n of h whose element does not come again.
LastOnes(h, n) == {i \in 1..n : \A j \in i + 1..n : h[j] # h[i]}

\* The LastPackets distinct frames heard last among the first n of h.
Recent(h, n) ==
  At(h, {i \in LastOnes(h, n) : Cardinality({j \in LastOnes(h, n) : j >= i}) <= LastPackets})

\* The positions in h of the frames that were not recent when they were heard.
Fresh(h) == {i \in DOMAIN h : h[i] \notin Range(Recent(h, i - 1))}

\* The filter remembers the LastPackets distinct frames heard last, and exactly the frames
\* that were not among them when they were heard have passed.
FilterExact ==
  calm => /\ last_packets = Recent(past.heard, Len(past.heard))
          /\ past.passed = At(past.heard, Fresh(past.heard))

Ends(tags) ==
  LET ends == At(tags, {i \in DOMAIN tags : tags[i].end}) IN [i \in DOMAIN ends |-> ends[i].frame]
Printed(s) == At(s, {i \in DOMAIN s : s[i] \in Ipv6})

\* What tshark was given comes out of the XML parser in order, once, whatever the reads cut
\* and the pauses delay; nothing is missing while the process lives.  The packets counted
\* are those, and the one that is open.
StreamExact ==
  calm /\ gpc \in {"idle", "paused"} =>
    LET out == past.parsed \o Ends(chunk) \o Ends(stdout) IN
    /\ IF Alive THEN Printed(past.sent) = out \o Printed(stdin) ELSE IsPrefix(out, Printed(past.sent))
    /\ packet_count = Len(past.parsed) + IF open = None THEN 0 ELSE 1
    /\ ~bad_xml

\* The capture file holds exactly the frames that passed the filter since it was opened,
\* whether tshark was there to see them or not.
FileExact ==
  calm /\ handle["pdumper_out"] = "live" /\ gpc \in {"idle", "paused"} =>
    file \o (IF frame = None THEN <<>> ELSE <<frame>>) = past.passed

\* "Kill old tshark process to avoid multiple spawned processes at the same time".
OneTshark == Cardinality(running) <= 1

\* The user is told once, and only of a process that has exited by itself: neither the
\* kill of a reset nor the frames that follow the exit raise another error.
ErrorsExplained == errors <= 1 /\ (errors = 1 => starts \in crashed)

\* A frame given to tshark is parsed, unless the process exits or another capture starts.
Delivered ==
  (calm /\ Alive /\ gpc = "idle" /\ Len(past.parsed) < Len(Printed(past.sent)))
    ~> (Len(past.parsed) = Len(Printed(past.sent)) \/ ~Alive \/ ~calm \/ gpc \notin {"idle", "paused"})
=============================================================================
