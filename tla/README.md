# Verification of the Foren6 analyser

TLA+ models of the analyser library in `src/src`, TLC runs that check them on small
instances, and TLAPS proofs of the properties that matter most. The reference for every
definition is the C code; `PROJECT.json` maps each definition to the lines it stands for.

## The system

Foren6 shows an RPL network (a routing tree for wireless sensors) from packets overheard by
one or more sniffers. Frames flow through these parts:

1. **Interfaces** (`interface_reader/interfaces_mgr.c`). Reader threads deliver what their
   sniffer heard. Frames heard by two sniffers synchronise the clocks of both and are parsed
   once.
2. **Capture** (`sniffer_packet_parser.c`). A frame is written to a tshark process, whose XML
   output is read back by the poll thread.
3. **Descriptor poll** (`descriptor_poll.c`). The poll thread: `select` over a table of ten
   descriptors, callbacks with the table unlocked.
4. **Packet parser** (`packet_parsers/`). XML elements are folded, field by field, into one
   static packet; its end calls the collector and commits.
5. **Collector** (`data_collector/rpl_collector.c`). A DIO, DAO, DIS or data packet updates
   nodes, DODAGs, RPL instances and links (`data_info/`).
6. **Versioned store** (`data_info/rpl_data.c`, `data_collector/rpl_event_callbacks.c`). Setters
   mark objects changed and queue events; the commit makes a new version of each type that
   changed, records a WSN version (one version per type), and tells the GUI.

The GUI calls from its own thread: it reads versions, clears errors, purges deprecated links,
clears everything, starts and stops captures. Nearly all state lives in two containers of the
program's own, a hash with insertion order (`hash_container.c`) and a ring (`circular_buffer.c`).

### Inventory

| Component | State | Operations | What is hard | What makes it correct |
|---|---|---|---|---|
| Versioned store | working containers (version 0), version containers per type, `wsn_versions`, event list | get-or-create, `X_set_changed`, `X_update_old_field`, delete, commit, deliver, clear | two threads of which only one locks; copies shared by versions; events that outlive their objects; flag and queue that must agree | an event's object is found; an unmarked object is already published; a version is the network as it was |
| Collector | nodes, DODAGs, instances, links | four handlers, three GUI calls | both sides of each relation, flags derived from two objects, silent changes | membership agrees on both sides, flags are current, one parent |
| Time sync | forest of handles, offsets, remembered frames | open, close, process a packet | merging trees in place; any delivery order | a forest; one clock per tree; parsed once |
| Circular buffer | array, two indices | push, pop, full, empty | full against empty; the pointer popped | a bounded queue; the popped element stays intact |
| Descriptor poll | table, abort pipe, stop flag | add, remove, stop, poll | unlocked windows; a change while in `select` | no lost change; nobody starves; it stops |
| Packet parser | `current_packet` with a union, protocol depth | begin, field, end, reset | the member written depends on the type known so far; packets quoted or cut short | handler, options and content are those of the packet's own fields |
| Capture | tshark's process and pipes, capture file, duplicate filter, pause flag, XML parser | start, stop, reset, parse data, pause, read | reset from another thread without a lock; a process that dies; restart without stop; failed spawn; the pause | handles are live; one process; frames arrive in order, once, in both outputs; the user is told once |
| Hash container | a hash with a spin lock, iterators outside it | add, find, delete, iterate | iterators that survive a deletion; links read after the unlock | a map in order of insertion; a loop sees each element once |
| Interface plug-ins, metrics, pcap reader, SHA-1, uthash, utlist | | | pure I/O, constants or vendored | not modelled |

The hazards that the models are for are listed with their lines in `PROJECT.json`.

## Modules

| Module | Models | Abstract specification | Proofs |
|---|---|---|---|
| `RplStore` | the store, its events and both threads | `SnapshotStore` | `RplStoreProofs` |
| `Collector` | the handlers and the setters | | `CollectorProofs` |
| `TimeSync` | `interfaces_mgr.c` | `Timebases` | `TimeSyncProofs` |
| `CircularBuffer` | `circular_buffer.c` | `BoundedFifo` | `CircularBufferProofs` |
| `DescriptorPoll` | `descriptor_poll.c` | | `DescriptorPollProofs` |
| `PacketParser` | the XML callbacks and `rpl_parser.c` | | `PacketParserProofs` |
| `Capture` | `sniffer_packet_parser.c` and tshark | | `CaptureProofs` |
| `HashContainer` | `hash_container.c` | `OrderedMap` | `HashContainerProofs` |

`MCRplStore`, `MCCollector`, `MCTimeSync` and `MCPacketParser` give the constants their values
for TLC; `MCContainers` checks the two containers, one at a time, in one run. A definition with an underscore and a suffix (`AddVersion_NoReset`) is a variant that
specifications never use: it is a plausible bug, with which a run must find its property
violated.

### RplStore

`working` is version 0, `snap[t]` the numbered containers of a type, `wsn_versions` the array of
WSN versions, `events` the list `head`. An object is a value (what `X_set_changed` announces), a
counter (what `X_update_old_field` patches into the published copy) and the flag. `born` in a
published copy is its identity: versions with the same `born` share one C object, so a patch
shows in all of them. The poll thread goes `idle` - `collect` - `scan` - `create` - `process`, one action
per primitive of the collector, per event scanned and per event delivered. A commit delivers in two passes
of `rpl_event_process_events`: one inside `rpldata_wsn_create_version` (`create`), if a version is made, and
one of its own (`process`), which finds an event only if the GUI has queued it meanwhile; `cursor` is the
loop's position in the list, 0 for NULL. `unlinked` holds the links that the GUI has purged while the
handler of a packet may still hold their pointer; what a setter or a count does through it are the
actions `ChangeUnlinked` and `CountUnlinked`. The GUI thread goes through the loops of `nodes_clear_all_errors` and `links_clear_all_deprecated`, and through the four
steps of `rpldata_clear`. Two constants are the environment: `GuiInterleaves` lets GUI calls
overlap a packet, `CleanClear` has `rpldata_clear` called only with no event queued.
`ppc = "fault"` is a NULL dereference, after which nothing happens. The order of the two threads' calls is
modelled; two changes of the list `head` at the very same time, for which the code has no lock, are not.

Setters that flip something without announcing it are not in `RplStore`; they are the subject of
`Collector`, whose `PublishedAgrees` leaves the silent fields out by name.

### Collector

`db` holds the four working containers and, beside each, its newest version. The setters are
operators from one database to the next, a handler is their composition in the order of the
calls, and an action is a handler followed by the commit: all of it runs on one thread under one
lock. `Databases` says what the containers hold, `PacketAssumption` what a packet may carry. Option contents, prefixes and addresses are model values; an address is a pair of a prefix
and the node whose identifier it carries. The GUI calls fall between packets.

### TimeSync

`sync` is the forest (`parent`, `delta_to_parent`, `number_of_timebase`). A frame is its number, sent
at that instant; a sniffer's clock adds its own offset, so the model can state what the code tries
to establish: within one tree, all clocks agree. A call of `interfacemgr_process_packet` is one
action because `packet_reception_mutex` is held throughout; `Walk` is its loop over the other handles, newest
first, each step of which may change the trees that the next one finds. Handles are numbered as they are
opened, so the list is a set and its order that of the numbers. Closing an interface that is another's
parent is excluded: the code would read freed memory.

### CircularBuffer

`result` is the pointer the last `pop_back` returned, with the value it had. The refinement maps the
slots between the indices to a queue.

### DescriptorPoll

`pc` is where the poll thread is; each region under `poll_mutex` is one action. Callers act between any two of
them: other threads, and the callback that is running, which may change the table. `freed` marks
the window in which the thread has unlocked and still uses a registration that another thread
removes; the C code then reads freed memory, and the model ends in `fault`.

### PacketParser

`rest` is what tshark has still to print, taken from the constant `Shapes`; any optional field may be
missing, protocols open and close, and a packet quoted in another appears deeper. `cell` holds the
first nine bytes of the union, at the offsets the C structures have on a 64-bit build, where the
four members overlap; the options of a DIO or a DAO lie above and are kept by name in `has`.
`said` is auxiliary: the packet's own fields. What `end_packet` passes on is compared with what is
computed from `said` as a whole. A reset may cut a packet short anywhere.

The parser decides by the type known so far, so it depends on the order in which tshark prints. What
it needs of that order is stated once, as `ShapesAssumption`: the IPv6 headers with their hop-by-hop
option come before the ICMPv6 type, the type before the code, the code before the message, the D flag of a
solicitation before its DODAG, only options are repeated, and the frame number is always printed.
Fields outside these layers (link addresses, the checksum's verdict) may come anywhere. TLC evaluates the
assumption for the packets of the run; the proofs use nothing else about packets.

### Capture

Three threads and a process. `gpc` takes the GUI thread through a start: `Start`, then the steps of
`sniffer_parser_reset` in the order of the code (`ResetKill`, `ResetClose`, `ResetSpawn` or
`ResetFails`), then `CreateOut`; `Stop`, `Pause` and `Resume` are single actions. `rpc` takes an interface's
thread through `sniffer_parser_parse_data` (`Hear`, `DumpTshark`, `TestOut`, `DumpOut`, `Flush`), `ppc` the poll
thread through `process_events` (`Call`, `Read`, `Lock`, `Parse`, one tag per step). `handle` says of every global
handle whether it is NULL, live, or released and dangling; `pcap_output` is the stream of `pdumper` and has its state. tshark (external) reads its input, prints an
element in two pieces for an IPv6 frame, and may exit at any time: the frames in its pipe are lost, what
it has printed can still be read. A write to a dead process raises SIGPIPE according to `sigpipe`.

`fault` is the use of a handle that is not live. The reset takes neither of the locks that the other
two threads hold, so the code can fault; `calm` is the history that says under which use it
cannot: no start or stop has overlapped a frame, a callback or an open capture, and no spawn has failed.
`past` records, while `calm`, what was heard, what passed the filter, what tshark was given and what
came out of the XML parser. After the calm has ended the run goes on with fewer frames (`MaxUneasy`).
Interfaces deliver frames only after the first start, as the GUI starts them then, and
`sniffer_parser_reset_requested` is never set in the code, so that branch is not taken.

### HashContainer

`element` holds every element ever allocated, `linked` those in the list, whose numbers are the order of the
list because elements are linked at its tail. An iterator caches its element and the next one.
Each iterator stands for one thread, the parser's or the GUI's, with one loop or lookup at a time;
`finding` is the window between the lookup and the reading of the element's links, which is
outside the lock. `adding` is the window in `hash_value` and `rpldata_get_object` between the lookup that
finds nothing and the addition, which checks nothing: others may delete and iterate there, and one thread
at a time adds. That holds of every container: the poll thread adds to those of the store, and
`rpldata_clear` only while it is paused; those of the filter and of an interface are under a mutex.
`hash_dup` is a loop of `Begin`, `Take` and `ItInc` that adds to a container nobody else knows; only a DODAG's
nodes and an instance's DODAGs are copied, by the poll thread, which alone changes them. `fault` names the iterator through which a freed element was used, after which the run
ends. `past` says what a loop has seen, what it must have seen in the end (`due`), and whether
another thread has freed the element it stands on or the one it has cached (`hit`): only
then may it fail. Setters and handlers in `RplStore`, `Collector`, `TimeSync` and `Capture` use functions
and sequences in the container's place, which `ImplementsMap` justifies.

## Runs

| Run | Question | Bounds |
|---|---|---|
| `RplStore_core` | Is the store consistent when GUI calls fall between packets and clears find no event queued? Does a commit deliver everything? | a node and a link, 3 WSN versions, counters to 2, 4 events, array of 2 |
| `RplStore_overlap` | What remains when GUI calls overlap packets? Does the pause end? | the same objects, 2 versions, counters to 1, 4 events |
| `RplStore_late` | Is every change of the GUI seen by a commit when its calls overlap packets? **No** | as overlap, 3 events |
| `RplStore_stale` | Is an event's object found whenever clears come? **No** | 6 events |
| `RplStore_frozen` | Are older versions immutable? **No** | as core |
| `Collector_core` | DODAGs, versions, options, addresses, instances; parents, routes, errors | 4 packets of 2 nodes, 1 DODAG in 2 versions, 2 instances, 2 configurations, 2 prefixes; 6 packets of 3 nodes, 2 DODAGs |
| `Collector_mismatch` | Does a mismatch mean that something was advertised? **No** | as core, 3 packets |
| `TimeSync` | forest, time, parsing | 4 interfaces, 3 frames, 2 remembered, 1 closed |
| `Containers` | Are the containers a bounded queue and an ordered map, and their pointers and iterators good? | ring of 4, 3 values; 3 keys, 2 contents, 2 iterators, 4 elements ever allocated |
| `DescriptorPoll` | lost changes, callbacks, service, stop | 3 descriptors, 2 slots, pipe of 2 bytes |
| `PacketParser` | handler, options, content | 10 messages with and without hop-by-hop option, bytes of 4 values |
| `Capture` | handles, filter, both outputs, pause, one process, one error; is a frame delivered? | 3 frames of which 2 IPv6, filter of 2, pipe of 1 frame, reads of 2 tags, 2 starts, 3 frames heard (2 once uneasy), 1 pause |

Why the bounds are enough. In the store, objects interact only through the type they share and the
common event list: one of each kind of life (a node, which is never deleted and is patched; a link,
which is deleted) gives every event, three versions give one that shares a copy with its
predecessor and is itself followed, and the array of two grows. In `Collector` a behaviour draws its packets from one of two
alphabets (`traffic`), which together would leave too few packets for either. It needs two nodes for a
root and a member, two versions for a move, two options for a difference; a third node and two
DODAGs appear where parents compete. Four interfaces are the fewest with two trees of
depth two to join, and the offsets differ pairwise so that a wrong sum cannot cancel. A table
smaller than the number of descriptors makes slots be reused; a pipe of two bytes fills. Bytes of
four values make a rank spill into its second byte. In `Capture` two starts give one that replaces a live
capture, a dead one and a failed one; three frames overflow a filter of two and bring one back; a pipe of one
frame makes the interface wait for tshark and tshark for the poll thread; a read of two tags
cuts packets everywhere. In `Containers` four allocations let a loop meet an insertion behind it, a deletion
of its element, of its next and of another, and an addition a deletion after its lookup; keys are alike, and so are the two
threads, so both are symmetric (the run checks safety only).

Deadlock is checked where the system cannot stop (`RplStore_core`, `RplStore_frozen`,
`PacketParser`). Elsewhere a run ends when its bound of packets, versions or elements is reached, when a
fault stops the process, or when the poll thread has ended.

### What was found

- **Events outlive the store** (`RplStore_stale`). `rpldata_clear` does not empty the event list. A packet
  makes a link and deprecates it, *purge deprecated links* deletes it and queues its Deleted event, *clear*
  follows. The commit of the next packet looks the link up in the version before the first, which is the
  working set, and dereferences NULL. `rpl_event_callbacks.h:68` promises a version and a boolean.
- **Changes are forgotten** (`RplStore_late`). *Clear errors* takes no lock. When it marks a node after a commit
  has scanned the event list, the second pass of the commit delivers and deletes the Updated event: no
  version shows the change, the node stays marked, and `node_set_changed` queues nothing for a marked node.
  Commits pass over its changes, until another node has an event. The same line of the header says that
  a version is made if one is needed.
- **Old versions change** (`RplStore_frozen`). `node_update_old_field` patches the copy held by the newest
  WSN version; older ones that share it change too. `rpl_data.h:43` says they should not.
- **Mismatch without advertisement** (`Collector_mismatch`). A node that never sent a configuration is
  compared by its zeroed structure, against `rpl_def.h:285`.

Read in the code and left to no run: `node_add_dodag_version_error` has no caller, so the counter that
`rpl_def.h:283` describes stays zero; and the comment at `sniffer_packet_parser.c:409` says that tshark is
restarted when it exits, while the line that would request it is commented out, so `Delivered` excepts a
process that has exited.

Two weaker facts are part of the properties that hold: `OptionsExact` and `ContentExplained` state
that bytes of a hop-by-hop option show through the union in a DIS, DIO or DAO, and
`ContentExplained` excepts the predicate flag of a DIS over which its DODAG's address is written.

## Fairness

- `RplStore_core`, `RplStore_overlap`: weak fairness of the commit and of the steps of a clear. Both are straight
  code that holds or awaits nothing: the poll thread already has `state_lock`, and the GUI thread
  takes it only to set a flag. No fairness is assumed of packets or of GUI calls.
- `DescriptorPoll`: weak fairness of the poll thread's own steps (callbacks return: those of the
  library read until the pipe is empty), strong fairness of a `select` that returns with
  something ready, since a signal may interrupt it but not every time. None of the callers.
- `Capture`: weak fairness of the steps that follow a frame heard, of tshark reading and printing,
  of the poll thread, and of the end of a pause, each while no fault has happened. Each is a thread of the
  operating system in straight code, blocked only by a full pipe, an empty one, or the pause, which
  `rpldata_clear` ends without waiting for anything else. None of frames, exits, starts or
  stops.
- Other runs check safety only.

## Proofs

TLAPS proves these for every value of the constants, from the assumptions named in the modules.

**RplStore.** `TypeCorrect`, `ClearExclusiveAlways` and `ArrayInBoundsAlways` hold in every environment;
the latter two by invariants of a few conjuncts (the pause flag and the position of both threads; the
size of the array is positive and at least doubles). `NoFaultSerial`, `ChangedIffQueuedSerial` and
`UnchangedIsPublishedSerial` assume `CleanClear` and `~GuiInterleaves`, and rest on the
inductive invariant `SerialInv`. None of the three is inductive alone. That an event's object is
found (`NoFault`) needs `DeletedFound` and `ProcessState`, which say where it is; that the
newest version has it needs `ScanState`, by which the scan clears the flag of exactly
the types it has versioned and at its end has versioned every type with an event; that a new
version can share an unmarked object's copy needs `UnchangedIsPublished`; and a patch through the newest
WSN version reaches the newest version of the type because of `VersionsCurrent`. `SerialStep` has
one lemma per action. Without `CleanClear` the theorem is false, as `RplStore_stale` shows.

**CircularBuffer.** `RingInv` (indices in range, the popped slot just behind the read index, or no
pop yet) gives `ResultIntactAlways`; `ImplementsFifoAlways` maps push and pop to the queue's for
every size, by the arithmetic of wrapped indices.

**DescriptorPoll.** `PollInv` adds to the three properties that the scan is inside the table and
that a byte that `select` saw is still in the pipe, since only the poll thread reads it
(`ScanInTable`). `NoLostChangeAlways` is then the case where the copy just made is the table.

**Capture.** `PauseHoldsAlways`, `OneTsharkAlways` and `ErrorsExplainedAlways` hold in every
interleaving of the threads, faults and failed spawns included. `PauseInv` ties the flag to the
position of the GUI thread, and a pause cannot begin while the poll thread holds `state_lock`.
`ProcessInv`: the only process that may exist is the newest, `tshark_pid` names it while it lives, and
between kill and spawn there is none; so a kill by `tshark_pid` cannot miss. `ErrorInv` adds that the
handler of SIGPIPE is installed only when no error has been reported since the reset and that it can
run only for a process that has crashed: the kill of a reset ignores the signal first. `NoFaultAlways` rests on
`HandleInv`: while calm, a reset has the handles to itself, with the capture file closed, and
outside of a reset every handle that a thread may use is live. It holds for every set of frames and every size.

The capture file: `FileExactAlways` adds to this that a frame is in hand exactly while its delivery goes on, and
that while calm the file is the part of what passed the filter since it was opened, up to the frame in hand.

The filter: `FilterExact` speaks of the last occurrences of frames, ordered by counting. `Lists(e, m, N)` says that `e`
enumerates the positions `N` in order, so that counts become positions (`ListCounts`); every set of
positions has such a list (`EveryListed`, by a minimal counterexample). `RecentAppend` is then the
algorithm of `check_duplicate_packet`: moving a frame of the list to the end, or dropping the
first for a new one, is what one more frame does to the frames heard last. With the types, the
property is inductive (`FilterInv`).

The stream: `StreamExactAlways` rests on `Flow`, which holds from the spawn on. The tags in the pipe and in what the
poll thread has read are all of the newest process and each fits after the one before (`InTurn`), so the parser
never meets a tag it does not expect; and what tshark was given is what was parsed, the ends among those
tags, and what tshark has not read yet, or has taken with it. Every step moves one frame or one tag from
one of these parts to the next (`FlowDump`, `FlowDissect`, `FlowRead`, `FlowParse`, `FlowExit`). A read may
cut the stream anywhere, and a pause or a reset may come between the read and the parse.

**RplStore and its readers**, from the same two assumptions. `ReaderInv` strengthens
`SerialInv` by four facts: where the store and what the GUI was told differ, an event that says so is still
queued (`EventsTell`, `MirrorTold`), and clearing leaves nothing of what the newest version held
(`ClearedEmpty`, `GoneFromNewest`). With nothing queued, `MirrorAgreesSerial` follows. For
`StoreImplementsSnapshots` each step is mapped: only the end of a scan publishes a snapshot, and it is the network as the
setters left it; all other steps leave every version as it was. A patch writes only counters, which are not among
what a snapshot shows (`RplStore_frozen` is about those); the clear empties both.

**Collector.** A handler composes up to ten setters, and in its middle the invariant does not hold: a root's new options
make its members' flags stale until `dodag_set_nodes_changed` has gone through them. The inductive
invariant is therefore a predicate `Good(s, X)` of a database, not of a state: `X` holds the DODAG in that
condition. Each setter has a lemma that takes `Good` to `Good`, a handler is a chain of them that ends with
`X` empty, and the commit takes `Good(s, {})` to the next state. `Good` joins types, both sides of membership
(`MembersAgree`), the instances' lists, links and routes between existing objects, flags and addresses per
node, and, for `PublishedAgrees`, that an object not marked changed agrees with its published copy. `AddressOk` is stronger
than `AddressDerived`: an address not seen is unset or derived from the node, or else the custom flag
would not follow.

**TimeSync.** `Root` and the sums along parents are recursive over the parents, so the proofs start from the fact that
recursion along acyclic parents has a solution (`RecursionExists`). `Good(s, H)` says of the trees over
the handles `H` that they are acyclic, that every link is the difference of the two clocks, and that
`number_of_timebase` counts the roots; `SumIsSkew` sums the links by a minimal counterexample.
`JoinUnder` and `JoinTurned` are the two ways in which `interfacemgr_sync_time` joins trees: the second turns the
tree of the other interface over, which is right because both interfaces have just been rebased and are
one step from their roots (`Flat`). Each also makes the division into trees `Coarser`, and `WalkGood` carries
both through the whole loop. This gives `ParentsFormForest`, `TimesAgreeAlways` and the refinement
`ForestImplementsTimebases`. `ParsedOnceAlways` needs the account of packets (`Accounted`): what was parsed is still
remembered by an open handle or has been evicted. The proofs hold for any number of interfaces and frames, any
clocks and any `LAST_PACKET_NUMBER` above zero.

**HashContainer.** `HashInv` says of each iterator that its next element is the successor of its current one in
the list, unless the run has recorded that another thread freed one of them, and that what it has seen and
what is ahead of it make up what it must see (`due`). `IterationIsExact` follows for any number of threads
and elements. `ContainerImplementsMap` compares enumerations: the entries in the order of the list determine the
abstract sequence, and linking, unlinking and overwriting change it as `OrderedMap` says. That an addition
without a check adds a new key is `MissInv`: a key looked up in vain stays missing until it is added.

**PacketParser.** The properties speak of a packet that has ended; `ParserInv` says of every moment before it what
the fields so far have made of the packet: `TypeTold`, `NameTold`, `OptionsTold` and `ContentTold`, unless the checksum
was bad, and that what is still to come may follow what has come (`RestFollows`). Each part survives any field
(`TypeStep`, `NameStep`, `OptionsStep`, `ContentStep`). The hard case is the code, which selects a member of the union
after other fields were written as data: by the order of the fields no field of a message has come yet, and no
field of a header comes any more (`TypeStays`), so no field changes the member it belongs to. Inside a
member two fields agree on the bytes they share (`WritesShared`), but for the D flag and the DODAG of a DIS. Quoted fields
change nothing because the depth the parser counts is the depth of the XML. The theorems hold for every set of packets in this
order, any width of a byte and any nesting.

### Only model-checked

- Liveness (`CommitDelivers`, `PauseEnds`, `ReadyServed`, `StopEnds`, `Delivered`): out of the prover's reach.
- The four runs that expect a violation.
- `UnchangedIsPublished` when GUI calls overlap packets (`RplStore_overlap`); its theorem assumes that they do not.

## Not modelled

Timestamps, counts and intervals of packets, metrics, user data and the deltas between versions,
whose values nothing else depends on; reads by the GUI; formatting and logging; plug-in loading
and baud rates; the capture file reader; vendored code. SHA-1 is taken to be injective on the frames.
`hash_it_dec` and the `prev` links are not used by the program; the order in which the hash would be walked
backwards is left out with them. Undefined behaviour after a NULL dereference or the use of
something freed ends a behaviour (`fault`).

## Plan

The deltas between versions (`rpl_def.c`, `6lowpan_def.c`), of which the sum of the error counters is
the hard part, and prefixes (`address.c`) as operators checked against reference definitions.
