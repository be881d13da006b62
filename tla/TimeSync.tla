------------------------------ MODULE TimeSync ------------------------------
(***************************************************************************)
(* interface_reader/interfaces_mgr.c: the list of open capture interfaces, *)
(* the forest of time bases over them, and the detection of packets that   *)
(* several sniffers have captured.                                         *)
(*                                                                         *)
(* Each reader thread calls interfacemgr_process_packet for what its own   *)
(* sniffer hears; packet_reception_mutex makes a call one action.  The     *)
(* frames on the air and the clocks of the sniffers are the environment.   *)
(***************************************************************************)
EXTENDS Integers, Sequences, FiniteSets, SequencesExt

CONSTANTS
  MaxIfaces,        \* bound: interfaces opened, numbered in that order
  Skew,             \* a sniffer's clock shows instant t as t + Skew[i]
  MaxFrames,        \* bound: frames sent; frame k is sent at instant k, no two are alike
  MaxClosed,        \* bound: handles destroyed
  LastPackets,      \* LAST_PACKET_NUMBER (100)
  None              \* no parent

Ifaces == 1..MaxIfaces
Frames == 1..MaxFrames

ASSUME SkewAssumption == Skew \in [Ifaces -> Int]
ASSUME BoundsAssumption == MaxIfaces \in Nat /\ MaxFrames \in Nat /\ MaxClosed \in Nat /\ LastPackets \in Nat \ {0}
ASSUME NoneAssumption == None \notin Ifaces

VARIABLES
  interface_handles,   \* the open handles, numbered in the order they were created
  closed,              \* handles destroyed; each open is a new handle
  sync,                \* [parent, delta_to_parent, number_of_timebase]
  first_packet,        \* per interface, no packet processed yet
  last_packets,        \* per interface, the packets remembered, oldest first
  heard,               \* per interface, the last frame it has delivered
  parsed,              \* per frame, how often sniffer_parser_parse_data was called
  evicted              \* frames some interface has forgotten to make room

vars == <<interface_handles, closed, sync, first_packet, last_packets, heard, parsed, evicted>>

Clock(i, k) == k + Skew[i]

Init ==
  /\ interface_handles = {} /\ closed = {}
  /\ sync = [parent |-> [i \in Ifaces |-> None], delta |-> [i \in Ifaces |-> 0], timebases |-> 0]
  /\ first_packet = [i \in Ifaces |-> TRUE]
  /\ last_packets = [i \in Ifaces |-> <<>>]
  /\ heard = [i \in Ifaces |-> 0]
  /\ parsed = [k \in Frames |-> 0] /\ evicted = {}

----------------------------------------------------------------------------
(* The forest.                                                             *)

\* The walk of interfacemgr_get_root, and the sum of the deltas on its way.
Roots(s) == LET up[x \in Ifaces] == IF s.parent[x] = None THEN x ELSE up[s.parent[x]] IN up
Sums(s) ==
  LET sum[x \in Ifaces] == IF s.parent[x] = None THEN 0 ELSE s.delta[x] + sum[s.parent[x]] IN sum

Root(s, i) == Roots(s)[i]
ToRoot(s, i) == Sums(s)[i]

Attach(s, i, parent, delta) ==
  [parent |-> [s.parent EXCEPT ![i] = parent],
   delta |-> [s.delta EXCEPT ![i] = delta],
   timebases |-> s.timebases]

\* interfacemgr_rebase_parent: the root becomes the parent.
Rebase(s, i) == IF Root(s, i) = i THEN s ELSE Attach(s, i, Root(s, i), ToRoot(s, i))

\* Variants: interfaces of one tree are joined again; the link to the old root keeps its
\* sign; the old root is left behind.
SyncTime_NoRootTest(s, i, t, j, u) ==
  [Attach(s, i, j, u - t) EXCEPT !.timebases = @ - 1]
SyncTime_KeepsSign(s, i, t, j, u) ==
  LET r == Rebase(Rebase(s, i), j)
      counted == [r EXCEPT !.timebases = @ - 1]
  IN IF Root(r, i) = Root(r, j) THEN r
     ELSE IF r.parent[i] = None THEN Attach(counted, i, j, u - t)
     ELSE IF r.parent[j] = None THEN Attach(counted, j, i, t - u)
     ELSE Attach(Attach(counted, Root(r, j), j, r.delta[j]), j, i, t - u)
SyncTime_LeavesRoot(s, i, t, j, u) ==
  LET r == Rebase(Rebase(s, i), j)
      counted == [r EXCEPT !.timebases = @ - 1]
  IN IF Root(r, i) = Root(r, j) THEN r
     ELSE IF r.parent[i] = None THEN Attach(counted, i, j, u - t)
     ELSE Attach(counted, j, i, t - u)

\* interfacemgr_sync_time.  Both interfaces are at most one step from their roots once
\* these have been looked up, so the loop that turns the second tree over has two
\* steps: the interface, then its old root.
SyncTime(s, i, t, j, u) ==
  LET r == Rebase(Rebase(s, i), j)
      counted == [r EXCEPT !.timebases = @ - 1]
  IN IF Root(r, i) = Root(r, j) THEN r
     ELSE IF r.parent[i] = None THEN Attach(counted, i, j, u - t)
     ELSE IF r.parent[j] = None THEN Attach(counted, j, i, t - u)
     ELSE Attach(Attach(counted, Root(r, j), j, -r.delta[j]), j, i, t - u)

----------------------------------------------------------------------------
(* The packets an interface remembers.                                     *)

Remembered(i, k) == {n \in DOMAIN last_packets[i] : last_packets[i][n].frame = k}
Remembers(i, k) == Remembered(i, k) # {}
TimeOf(i, k) == last_packets[i][CHOOSE n \in Remembered(i, k) : TRUE].timestamp

\* interfacemgr_check_duplicate_packet: the packet moves to the end; a new one pushes
\* the oldest out of a full list.
Remember(i, k) ==
  LET full == Len(last_packets[i]) >= LastPackets
      kept == IF Remembers(i, k) THEN RemoveAt(last_packets[i], CHOOSE n \in Remembered(i, k) : TRUE)
              ELSE IF full THEN Tail(last_packets[i]) ELSE last_packets[i]
  IN /\ last_packets' = [last_packets EXCEPT ![i] = Append(kept, [frame |-> k, timestamp |-> Clock(i, k)])]
     /\ evicted' = IF ~Remembers(i, k) /\ full THEN evicted \cup {Head(last_packets[i]).frame} ELSE evicted

----------------------------------------------------------------------------
(* Actions.                                                                *)

\* interfacemgr_create_handle.
Create(i) ==
  /\ i = Cardinality(interface_handles \cup closed) + 1
  /\ interface_handles' = interface_handles \cup {i}
  /\ sync' = [sync EXCEPT !.timebases = @ + 1]
  /\ UNCHANGED <<closed, first_packet, last_packets, heard, parsed, evicted>>

\* interfacemgr_destroy_handle.  Environment: the caller closes no interface that
\* another one still names as its parent; the code would keep the freed parent.
Destroy(i) ==
  /\ i \in interface_handles /\ \A j \in interface_handles : sync.parent[j] # i
  /\ Cardinality(closed) < MaxClosed
  /\ interface_handles' = interface_handles \ {i}
  /\ sync' = [Attach(sync, i, None, 0) EXCEPT !.timebases = IF sync.parent[i] = None THEN @ - 1 ELSE @]
  /\ last_packets' = [last_packets EXCEPT ![i] = <<>>]
  /\ evicted' = evicted \cup {last_packets[i][n].frame : n \in DOMAIN last_packets[i]}
  /\ closed' = closed \cup {i}
  /\ UNCHANGED <<first_packet, heard, parsed>>

\* A duplicate within one interface: process_packet returns.
Duplicate(i, k) ==
  /\ Remembers(i, k)
  /\ Remember(i, k)
  /\ UNCHANGED <<sync, first_packet, parsed>>

\* Variant: the walk over the interfaces does not skip the one that has just
\* remembered the packet.
Fresh_FindsItself(i, k) ==
  /\ ~Remembers(i, k) /\ Remember(i, k)
  /\ UNCHANGED <<sync, first_packet, parsed>>

\* The walk over the list of handles, newest first: the trees after the handles from j on.
Walk(s, i, k, others) ==
  LET after[j \in 1..MaxIfaces + 1] ==
        IF j = MaxIfaces + 1 THEN s
        ELSE IF j \in others THEN SyncTime(after[j + 1], i, Clock(i, k), j, TimeOf(j, k))
        ELSE after[j + 1]
  IN after

\* The rest of process_packet: the first packet sets the origin of a time base, each
\* other interface that remembers the packet is synchronised with this one, and the
\* packet is parsed if none does.
Fresh(i, k) ==
  LET others == {j \in interface_handles : j # i /\ Remembers(j, k)}
      starts == first_packet[i] /\ sync.parent[i] = None
      started == IF starts THEN Attach(sync, i, None, -Clock(i, k)) ELSE sync
  IN /\ ~Remembers(i, k)
     /\ Remember(i, k)
     /\ first_packet' = [first_packet EXCEPT ![i] = @ /\ ~starts]
     /\ sync' = Walk(started, i, k, others)[1]
     /\ parsed' = IF others = {} THEN [parsed EXCEPT ![k] = @ + 1] ELSE parsed

\* interfacemgr_process_packet: a reader delivers what it hears in order, some frames not
\* at all, some twice, and however late.
ProcessPacket(i, k) ==
  /\ i \in interface_handles /\ k >= heard[i]
  /\ Duplicate(i, k) \/ Fresh(i, k)
  /\ heard' = [heard EXCEPT ![i] = k]
  /\ UNCHANGED <<interface_handles, closed>>

Next ==
  \/ \E i \in Ifaces : Create(i) \/ Destroy(i)
  \/ \E i \in Ifaces : \E k \in Frames : ProcessPacket(i, k)

Spec == Init /\ [][Next]_vars

----------------------------------------------------------------------------
(* Properties.                                                             *)

\* Parents are open interfaces and no walk to a root goes round in a circle:
\* interfacemgr_get_root and the sums over parents end.  number_of_timebase, which is
\* shown as the number of roots, is that number.
Forest ==
  /\ \A i \in interface_handles : sync.parent[i] \in interface_handles \cup {None}
  /\ \A S \in SUBSET interface_handles : S # {} => \E i \in S : sync.parent[i] \notin S
  /\ sync.timebases = Cardinality({i \in interface_handles : sync.parent[i] = None})

\* Two interfaces of one time base give an instant the same absolute time, whatever
\* their clocks show and whichever packets have joined their trees.
TimesAgree ==
  \A i, j \in interface_handles : Root(sync, i) = Root(sync, j) =>
    ToRoot(sync, i) + Skew[i] = ToRoot(sync, j) + Skew[j]

\* A frame that an interface remembers has been parsed, no two sniffers leaving it to each
\* other, and once, whatever the order in which they deliver it, unless one of them has
\* forgotten it because LAST_PACKET_NUMBER newer frames came in between.
ParsedOnce ==
  /\ \A i \in interface_handles : \A n \in DOMAIN last_packets[i] : parsed[last_packets[i][n].frame] > 0
  /\ \A k \in Frames : parsed[k] > 1 => k \in evicted

\* The forest implements the abstract division into time bases: synchronising joins whole
\* groups and never takes an interface out of its group.
Groups ==
  INSTANCE Timebases WITH
    groups <- {{j \in interface_handles : Root(sync, j) = r} : r \in {i \in interface_handles : sync.parent[i] = None}}

ImplementsTimebases == Groups!Spec
=============================================================================
