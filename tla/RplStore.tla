------------------------------ MODULE RplStore ------------------------------
(***************************************************************************)
(* The versioned object store of the analyser: data_info/rpl_data.c, the   *)
(* event list of data_collector/rpl_event_callbacks.c and the has_changed  *)
(* life cycle every object type (node, dodag, rpl_instance, link) shares.  *)
(*                                                                         *)
(* Two threads use it.  The poll thread holds state_lock while XML_Parse   *)
(* runs rpl_parser_end_packet: it queues the packet event, calls the       *)
(* collector, whose primitives (rpldata_get_object, X_set_changed,         *)
(* X_update_old_field, rpldata_del_link) are actions here, and commits.    *)
(* The GUI thread calls nodes_clear_all_errors, links_clear_all_deprecated *)
(* and rpldata_clear.  What an object holds is abstract: a value of Vals   *)
(* (what X_set_changed announces) and a counter (what X_update_old_field   *)
(* patches into the published copy without an announcement).               *)
(***************************************************************************)
EXTENDS Integers, Sequences, FiniteSets

CONSTANTS
  Refs,            \* keys of objects, of all types
  TypeOf,          \* the type of the object a key names
  Vals,            \* abstract contents of an object
  Clean,           \* content of a fresh object, and of a node without errors
  Deprecated,      \* content of a link whose deprecated flag is set
  Absent,          \* a lookup that returns NULL
  Packet,          \* reference carried by the ROT_Packet event
  InitialSize,     \* wsn_version_array_size after the first init (256)
  MaxWsn,          \* bound: versions per capture
  MaxCount,        \* bound: patched counters
  MaxEvents,       \* bound: length of the event list
  CleanClear,      \* environment: rpldata_clear only called with no event queued
  GuiInterleaves   \* environment: GUI calls may overlap the handling of a packet

Types == {"node", "dodag", "rpl_instance", "link"}
Obj == [val : Vals, count : Nat, changed : BOOLEAN]
Pub == [val : Vals, count : Nat, born : Nat]
Snapshot == [Refs -> Pub \cup {Absent}]
EventTypes == {"Created", "Updated", "Deleted"}
Event == [type : EventTypes, ref : Refs \cup {Packet}]

ASSUME RefsAssumption == TypeOf \in [Refs -> Types] /\ Packet \notin Refs
ASSUME ValsAssumption == {Clean, Deprecated} \subseteq Vals
ASSUME AbsentAssumption == /\ Absent \notin Obj
                           /\ Absent \notin Pub
                           /\ Absent \notin Vals
ASSUME BoundsAssumption == /\ InitialSize \in Nat \ {0}
                           /\ MaxWsn \in Nat /\ MaxCount \in Nat /\ MaxEvents \in Nat
                           /\ CleanClear \in BOOLEAN /\ GuiInterleaves \in BOOLEAN

VARIABLES
  working,          \* the version 0 containers: key -> object or Absent
  snap,             \* per type, the numbered version containers
  wsn_versions,     \* per WSN version, the version of each type (0 is the C code's -1)
  wsn_array_size,   \* wsn_version_array_size
  events,           \* the event list "head"
  ppc, cursor, versioned,  \* poll thread: where it is, DL_FOREACH position, the booleans of commit
  unlinked,         \* links deleted by the GUI while a packet handler may hold their pointer
  gpc, todo,        \* GUI thread: where it is, nodes its loop has still to visit
  xml_parser_state, \* XPS_Run or XPS_Paused
  mirror            \* what the callbacks have told the GUI

storeVars == <<working, snap, wsn_versions, wsn_array_size, events>>
parserVars == <<ppc, cursor, versioned, unlinked>>
guiVars == <<gpc, todo, xml_parser_state>>
vars == <<storeVars, parserVars, guiVars, mirror>>

OfType(t) == {r \in Refs : TypeOf[r] = t}
Live == {r \in Refs : working[r] # Absent}
NoObjects == [r \in Refs |-> Absent]
LastVersion(t) == Len(snap[t])
WsnLast == Len(wsn_versions)

----------------------------------------------------------------------------
(* rpldata_init leaves every version counter at 0 and the array at least   *)
(* InitialSize long.                                                       *)
Init ==
  /\ working = NoObjects
  /\ snap = [t \in Types |-> <<>>]
  /\ wsn_versions = <<>>
  /\ wsn_array_size = InitialSize
  /\ events = <<>>
  /\ ppc = "idle" /\ cursor = 1 /\ versioned = {} /\ unlinked = NoObjects
  /\ gpc = "idle" /\ todo = {}
  /\ xml_parser_state = "run"
  /\ mirror = NoObjects

Queue(type, r) == events' = Append(events, [type |-> type, ref |-> r])

\* X_set_changed: an Updated event unless one is already on its way.
SetChanged(r, v) ==
  /\ working' = [working EXCEPT ![r].val = v, ![r].changed = TRUE]
  /\ IF working[r].changed THEN UNCHANGED events ELSE Queue("Updated", r)

\* Variant: the published copy is not patched.
Patched_Skipped(r, c) == snap

\* A write through the pointer that the latest WSN version holds for r: every
\* older version that shares the copy sees it.
Patched(r, c) ==
  LET t == TypeOf[r]
      i == IF wsn_versions = <<>> THEN 0 ELSE wsn_versions[WsnLast][t]
  IN IF i = 0 \/ snap[t][i][r] = Absent
     THEN snap
     ELSE [snap EXCEPT ![t] =
            [j \in DOMAIN snap[t] |->
               IF snap[t][j][r] # Absent /\ snap[t][j][r].born = snap[t][i][r].born
               THEN [snap[t][j] EXCEPT ![r].count = c]
               ELSE snap[t][j]]]

----------------------------------------------------------------------------
(* The poll thread.                                                        *)

ParserMayRun == GuiInterleaves \/ gpc = "idle"

\* Variant: the pause flag is not looked at.
BeginPacket_NoPause ==
  /\ ppc = "idle" /\ ParserMayRun /\ WsnLast < MaxWsn
  /\ Queue("Created", Packet) /\ ppc' = "collect"
  /\ UNCHANGED <<working, snap, wsn_versions, wsn_array_size, cursor, versioned, unlinked,
                 guiVars, mirror>>

\* rpl_parser_end_packet entered under state_lock: process_events waits there
\* while the parser is paused.
BeginPacket ==
  /\ ppc = "idle" /\ xml_parser_state = "run" /\ ParserMayRun
  /\ WsnLast < MaxWsn
  /\ Queue("Created", Packet)
  /\ ppc' = "collect"
  /\ UNCHANGED <<working, snap, wsn_versions, wsn_array_size, cursor, versioned, unlinked,
                 guiVars, mirror>>

\* rpldata_get_object with HVM_CreateIfNonExistant on a missing key: calloc, and
\* X_init marks the object changed and queues its Created event.
GetObject(r) ==
  /\ ppc = "collect" /\ working[r] = Absent /\ Len(events) < MaxEvents
  /\ working' = [working EXCEPT ![r] = [val |-> Clean, count |-> 0, changed |-> TRUE]]
  /\ Queue("Created", r)
  /\ UNCHANGED <<snap, wsn_versions, wsn_array_size, parserVars, guiVars, mirror>>

\* A setter of a node, dodag, instance or link.
Change(r, v) ==
  /\ ppc = "collect" /\ working[r] # Absent /\ Len(events) < MaxEvents
  /\ SetChanged(r, v)
  /\ UNCHANGED <<snap, wsn_versions, wsn_array_size, parserVars, guiVars, mirror>>

\* node_add_packet_count and link_update: count, then patch the published copy.
Count(r) ==
  /\ ppc = "collect" /\ working[r] # Absent /\ TypeOf[r] \in {"node", "link"}
  /\ working[r].count < MaxCount
  /\ working' = [working EXCEPT ![r].count = @ + 1]
  /\ snap' = Patched(r, working[r].count + 1)
  /\ UNCHANGED <<wsn_versions, wsn_array_size, events, parserVars, guiVars, mirror>>

\* rpldata_del_link and the Deleted event of a No-Path DAO.  The branch of
\* rpl_collector_parse_dao that deletes a link is the alternative of the one that
\* creates, deprecates or updates links, so the link has no other event queued.
DelLink(r) ==
  /\ ppc = "collect" /\ working[r] # Absent /\ TypeOf[r] = "link"
  /\ ~working[r].changed
  /\ Len(events) < MaxEvents
  /\ working' = [working EXCEPT ![r] = Absent]
  /\ Queue("Deleted", r)
  /\ UNCHANGED <<snap, wsn_versions, wsn_array_size, parserVars, guiVars, mirror>>

\* A setter and a count through the pointer of a link that links_clear_all_deprecated
\* has deleted since the handler looked it up.  The object is still allocated, and its
\* event is queued; nobody reads what the setter wrote.
ChangeUnlinked(r) ==
  /\ ppc = "collect" /\ unlinked[r] # Absent /\ ~unlinked[r].changed
  /\ Len(events) < MaxEvents
  /\ unlinked' = [unlinked EXCEPT ![r].changed = TRUE]
  /\ Queue("Updated", r)
  /\ UNCHANGED <<working, snap, wsn_versions, wsn_array_size, ppc, cursor, versioned, guiVars, mirror>>

CountUnlinked(r) ==
  /\ ppc = "collect" /\ unlinked[r] # Absent /\ unlinked[r].count < MaxCount
  /\ unlinked' = [unlinked EXCEPT ![r].count = @ + 1]
  /\ snap' = Patched(r, unlinked[r].count + 1)
  /\ UNCHANGED <<working, wsn_versions, wsn_array_size, events, ppc, cursor, versioned, guiVars, mirror>>

\* rpl_event_commit_changed_objects: start of the walk over the event list.  Every
\* rpl_collector_parse_X has got the node that sent the packet by then.
BeginCommit ==
  /\ ppc = "collect" /\ OfType("node") \cap Live # {}
  /\ ppc' = "scan" /\ cursor' = 1 /\ versioned' = {} /\ unlinked' = NoObjects
  /\ UNCHANGED <<storeVars, guiVars, mirror>>

\* rpldata_add_X_version finds an object that is not changed and that the
\* previous version lacks: the C code dereferences NULL or publishes NULL.
LacksPrevious(t) ==
  \E r \in OfType(t) \cap Live :
    /\ ~working[r].changed
    /\ LastVersion(t) = 0 \/ snap[t][LastVersion(t)][r] = Absent

\* rpldata_add_X_version: a changed object is duplicated, any other is shared
\* with the previous version.
NewVersion(t) ==
  LET new == LastVersion(t) + 1
  IN [r \in Refs |->
        IF r \notin OfType(t) \cap Live THEN Absent
        ELSE IF working[r].changed
             THEN [val |-> working[r].val, count |-> working[r].count, born |-> new]
             ELSE snap[t][LastVersion(t)][r]]

\* Variant: X_reset_changed forgotten.
AddVersion_NoReset(t) ==
  /\ snap' = [snap EXCEPT ![t] = Append(@, NewVersion(t))]
  /\ versioned' = versioned \cup {t}
  /\ cursor' = cursor + 1 /\ UNCHANGED working

AddVersion(t) ==
  /\ working' = [r \in Refs |-> IF r \in OfType(t) \cap Live
                                THEN [working[r] EXCEPT !.changed = FALSE]
                                ELSE working[r]]
  /\ snap' = [snap EXCEPT ![t] = Append(@, NewVersion(t))]
  /\ versioned' = versioned \cup {t}
  /\ cursor' = cursor + 1

\* One step of the first DL_FOREACH: the first event of a type makes a version.
ScanEvent ==
  /\ ppc = "scan" /\ cursor \in DOMAIN events
  /\ LET r == events[cursor].ref IN
       IF r = Packet \/ TypeOf[r] \in versioned
       THEN /\ cursor' = cursor + 1
            /\ UNCHANGED <<working, snap, ppc, versioned>>
       ELSE IF LacksPrevious(TypeOf[r])
            THEN /\ ppc' = "fault"
                 /\ UNCHANGED <<working, snap, cursor, versioned>>
            ELSE AddVersion(TypeOf[r]) /\ UNCHANGED ppc
  /\ UNCHANGED <<wsn_versions, wsn_array_size, events, unlinked, guiVars, mirror>>

\* Variants: types without a new version recorded as -1; growth one version late.
VersionsNow_OnlyNew == [t \in Types |-> IF t \in versioned THEN LastVersion(t) ELSE 0]
ArrayGrown_Late == IF wsn_array_size < WsnLast + 1 THEN 2 * wsn_array_size ELSE wsn_array_size

\* The record rpldata_wsn_create_version writes, and the array it first doubles.
VersionsNow == [t \in Types |-> LastVersion(t)]
ArrayGrown == IF wsn_array_size <= WsnLast + 1 THEN 2 * wsn_array_size ELSE wsn_array_size

\* rpl_event_process_events runs: first at the end of rpldata_wsn_create_version, then
\* from the commit itself.  cursor is the position of its DL_FOREACH_SAFE, 0 is NULL.
Delivering == ppc \in {"create", "process"}
AtHead == IF events = <<>> THEN 0 ELSE 1

\* End of the walk: rpldata_wsn_create_version if some type got a version.
EndScan ==
  /\ ppc = "scan" /\ cursor > Len(events)
  /\ IF versioned = {}
     THEN ppc' = "process" /\ UNCHANGED <<wsn_versions, wsn_array_size>>
     ELSE /\ ppc' = "create"
          /\ wsn_versions' = Append(wsn_versions, VersionsNow)
          /\ wsn_array_size' = ArrayGrown
  /\ cursor' = AtHead
  /\ UNCHANGED <<working, snap, events, versioned, unlinked, guiVars, mirror>>

\* hash_value on the container of WSN version v; version 0 is the working set.
Lookup(v, r) ==
  IF v = 0
  THEN IF working[r] = Absent THEN Absent
       ELSE [val |-> working[r].val, count |-> working[r].count, born |-> 0]
  ELSE LET i == wsn_versions[v][TypeOf[r]]
       IN IF i = 0 THEN Absent ELSE snap[TypeOf[r]][i][r]

\* Variant: a deleted object looked up where it is no longer.
EventVersion_Latest(e) == WsnLast

\* A Deleted event is looked up in the previous version.
EventVersion(e) == IF e.type = "Deleted" THEN WsnLast - 1 ELSE WsnLast

\* Variant: DL_DELETE moved into the branches of the switch, and forgotten in the one
\* of the packet.
Consumed_PacketKept ==
  LET kept == events[cursor].ref = Packet
      next == IF kept THEN cursor + 1 ELSE cursor
  IN /\ events' = IF kept THEN events
                  ELSE SubSeq(events, 1, cursor - 1) \o SubSeq(events, cursor + 1, Len(events))
     /\ cursor' = IF cursor = Len(events) THEN 0 ELSE next

\* DL_DELETE of the event at hand.  DL_FOREACH_SAFE has read the next one before the
\* callback: behind the last event the pass is over, whatever is queued meanwhile.
Consumed ==
  /\ events' = SubSeq(events, 1, cursor - 1) \o SubSeq(events, cursor + 1, Len(events))
  /\ cursor' = IF cursor = Len(events) THEN 0 ELSE cursor

\* One step of rpl_event_process_events: a missing object is a NULL dereference.
ProcessEvent ==
  /\ Delivering /\ cursor \in DOMAIN events
  /\ LET e == events[cursor]
         v == EventVersion(e)
     IN IF e.ref = Packet
        THEN Consumed /\ UNCHANGED <<mirror, ppc>>
        ELSE IF v < 0 \/ Lookup(v, e.ref) = Absent
             THEN ppc' = "fault" /\ UNCHANGED <<mirror, events, cursor>>
             ELSE /\ mirror' = [mirror EXCEPT ![e.ref] =
                                  IF e.type = "Deleted" THEN Absent
                                  ELSE Lookup(v, e.ref).val]
                  /\ Consumed
                  /\ UNCHANGED ppc
  /\ UNCHANGED <<working, snap, wsn_versions, wsn_array_size, versioned, unlinked, guiVars>>

\* rpldata_wsn_create_version returns, and the commit delivers what was queued since.
EndCreate ==
  /\ ppc = "create" /\ cursor = 0
  /\ ppc' = "process" /\ cursor' = AtHead
  /\ UNCHANGED <<storeVars, versioned, unlinked, guiVars, mirror>>

EndPacket ==
  /\ ppc = "process" /\ cursor = 0
  /\ ppc' = "idle" /\ versioned' = {}
  /\ UNCHANGED <<storeVars, cursor, unlinked, guiVars, mirror>>

----------------------------------------------------------------------------
(* The GUI thread.                                                         *)

GuiMayRun == GuiInterleaves \/ ppc = "idle"

\* Bounds: no GUI edit is started that no later packet of the run would commit.
GuiRoom == Len(events) < MaxEvents /\ WsnLast < MaxWsn

\* Variant: the walk takes every object for a node.
BeginClearErrors_All ==
  /\ gpc = "idle" /\ GuiMayRun /\ GuiRoom /\ Live # {}
  /\ gpc' = "errors" /\ todo' = Live
  /\ UNCHANGED <<storeVars, parserVars, xml_parser_state, mirror>>

\* nodes_clear_all_errors: one iteration per node of the working set.
BeginClearErrors ==
  /\ gpc = "idle" /\ GuiMayRun /\ OfType("node") \cap Live # {}
  /\ GuiRoom
  /\ gpc' = "errors" /\ todo' = OfType("node") \cap Live
  /\ UNCHANGED <<storeVars, parserVars, xml_parser_state, mirror>>

ClearNodeErrors(r) ==
  /\ gpc = "errors" /\ r \in todo
  /\ SetChanged(r, Clean)
  /\ todo' = todo \ {r}
  /\ gpc' = IF todo' = {} THEN "idle" ELSE gpc
  /\ UNCHANGED <<snap, wsn_versions, wsn_array_size, parserVars, xml_parser_state, mirror>>

DeprecatedLinks == {r \in OfType("link") \cap Live : working[r].val = Deprecated}

\* links_clear_all_deprecated: delete one deprecated link and walk again.  A packet
\* handler that is running may have got its pointer before.
ClearDeprecated(r) ==
  /\ \/ gpc = "idle" /\ GuiMayRun /\ GuiRoom
     \/ gpc = "purge"
  /\ r \in DeprecatedLinks
  /\ working' = [working EXCEPT ![r] = Absent]
  /\ Queue("Deleted", r)
  /\ unlinked' = IF ppc = "collect" THEN [unlinked EXCEPT ![r] = working[r]] ELSE unlinked
  /\ gpc' = "purge"
  /\ UNCHANGED <<snap, wsn_versions, wsn_array_size, ppc, cursor, versioned, todo, xml_parser_state, mirror>>

\* The walk that finds no deprecated link ends the call.
EndPurge ==
  /\ gpc = "purge" /\ DeprecatedLinks = {}
  /\ gpc' = "idle"
  /\ UNCHANGED <<storeVars, parserVars, todo, xml_parser_state, mirror>>

\* rpldata_clear, sniffer_parser_pause_parser(true): waits for state_lock, which
\* the poll thread holds during a packet.
ClearPause ==
  /\ gpc = "idle" /\ ppc = "idle"
  /\ CleanClear => events = <<>>
  /\ gpc' = "paused" /\ xml_parser_state' = "paused"
  /\ UNCHANGED <<storeVars, parserVars, todo, mirror>>

\* rpldata_clear: destroy objects and containers, rpldata_init.  The event list
\* is left as it is.
ClearStore ==
  /\ gpc = "paused"
  /\ working' = NoObjects
  /\ snap' = [t \in Types |-> <<>>]
  /\ wsn_versions' = <<>>
  /\ wsn_array_size' = IF wsn_array_size < InitialSize THEN InitialSize ELSE wsn_array_size
  /\ gpc' = "cleared"
  /\ UNCHANGED <<events, parserVars, todo, xml_parser_state, mirror>>

\* Variant: onClearEvent not called.
ClearNotify_Silent ==
  /\ gpc = "cleared" /\ gpc' = "notified"
  /\ UNCHANGED <<storeVars, parserVars, todo, xml_parser_state, mirror>>

\* rpl_event_clear calls onClearEvent.
ClearNotify ==
  /\ gpc = "cleared"
  /\ mirror' = NoObjects
  /\ gpc' = "notified"
  /\ UNCHANGED <<storeVars, parserVars, todo, xml_parser_state>>

\* Variant: the flag stays XPS_Paused.
ClearResume_StillPaused ==
  /\ gpc = "notified" /\ ppc = "idle" /\ gpc' = "idle"
  /\ UNCHANGED <<storeVars, parserVars, todo, xml_parser_state, mirror>>

\* sniffer_parser_pause_parser(false).
ClearResume ==
  /\ gpc = "notified" /\ ppc = "idle"
  /\ xml_parser_state' = "run" /\ gpc' = "idle"
  /\ UNCHANGED <<storeVars, parserVars, todo, mirror>>

----------------------------------------------------------------------------
Collect == \E r \in Refs :
  \/ GetObject(r)
  \/ \E v \in Vals : Change(r, v)
  \/ Count(r)
  \/ DelLink(r)
  \/ ChangeUnlinked(r)
  \/ CountUnlinked(r)

Commit == BeginCommit \/ ScanEvent \/ EndScan \/ ProcessEvent \/ EndCreate \/ EndPacket

GuiEdit ==
  \/ BeginClearErrors
  \/ \E r \in Refs : ClearNodeErrors(r) \/ ClearDeprecated(r)
  \/ EndPurge

ClearRun == ClearStore \/ ClearNotify \/ ClearResume

Next == BeginPacket \/ Collect \/ Commit \/ GuiEdit \/ ClearPause \/ ClearRun

Spec == Init /\ [][Next]_vars

\* The handlers are straight-line code on running threads, and nothing in the
\* loops of the GUI calls blocks.
Fairness == WF_vars(Commit) /\ WF_vars(ClearRun)
FairSpec == Spec /\ Fairness

----------------------------------------------------------------------------
(* Properties.                                                             *)

\* Types of the variables.
TypeOK ==
  /\ working \in [Refs -> Obj \cup {Absent}]
  /\ snap \in [Types -> Seq(Snapshot)]
  /\ wsn_versions \in Seq([Types -> Nat])
  /\ wsn_array_size \in Nat
  /\ events \in Seq(Event)
  /\ ppc \in {"idle", "collect", "scan", "create", "process", "fault"}
  /\ cursor \in Nat /\ versioned \subseteq Types
  /\ unlinked \in [Refs -> Obj \cup {Absent}]
  /\ gpc \in {"idle", "errors", "purge", "paused", "cleared", "notified"}
  /\ todo \subseteq OfType("node")
  /\ xml_parser_state \in {"run", "paused"}
  /\ mirror \in [Refs -> Vals \cup {Absent}]

\* Every container a WSN version names exists, and the loop of
\* nodes_clear_all_errors only meets nodes that are there.
VersionsExist == \A v \in 1..WsnLast : \A t \in Types : wsn_versions[v][t] <= LastVersion(t)
TodoLive == gpc = "errors" => todo \subseteq Live

\* An object of the working set that is not marked changed is in the newest
\* version of its type, with the same content and the same patched counter: what
\* lets rpldata_add_X_version share the old copy, and readers of the newest
\* version see current data although X_update_old_field writes past the versions.
UnchangedIsPublished ==
  \A r \in Live : ~working[r].changed =>
    LET t == TypeOf[r] IN
      /\ LastVersion(t) > 0
      /\ snap[t][LastVersion(t)][r] # Absent
      /\ snap[t][LastVersion(t)][r].val = working[r].val
      /\ snap[t][LastVersion(t)][r].count = working[r].count

QueuedChange(r) ==
  \E i \in DOMAIN events : events[i].ref = r /\ events[i].type # "Deleted"

\* Outside a commit an object is marked changed exactly when a Created or Updated
\* event for it waits in the list: X_set_changed relies on the flag to decide
\* whether the commit will see the object.
ChangedIffQueued ==
  ppc \in {"idle", "collect"} =>
    \A r \in Refs : QueuedChange(r) <=> working[r] # Absent /\ working[r].changed

\* No commit dereferences NULL: every object an event names is found in the WSN
\* version rpl_event_process_events looks in, and every unchanged object in the
\* version before.
NoFault == ppc # "fault"

\* The strengthening of ChangedIffQueued and NoFault that every action keeps when
\* calls do not overlap and clears find no event queued.
GuiSerial == /\ gpc # "idle" => ppc = "idle"
             /\ unlinked = NoObjects
             /\ gpc \in {"paused", "cleared", "notified"} => events = <<>>

\* Between packets only the GUI has queued events.
IdleEvents ==
  ppc = "idle" => \A i \in DOMAIN events :
    /\ events[i].ref \in Refs
    /\ \/ events[i].type = "Updated" /\ TypeOf[events[i].ref] = "node"
       \/ events[i].type = "Deleted" /\ TypeOf[events[i].ref] = "link"

\* The newest WSN version names the newest version of every type, but for the types
\* the running commit has just versioned.
VersionsCurrent ==
  \A t \in Types : (ppc = "scan" /\ t \in versioned)
                  \/ LastVersion(t) = IF WsnLast = 0 THEN 0 ELSE wsn_versions[WsnLast][t]

\* A deleted object is still in the version its event is looked up in.
DeletedFound ==
  \A i \in DOMAIN events : events[i].type = "Deleted" =>
    LET v == IF Delivering THEN WsnLast - 1 ELSE WsnLast
    IN events[i].ref \in Refs /\ v >= 1 /\ Lookup(v, events[i].ref) # Absent

\* During the walk of a commit.
ScanState ==
  ppc = "scan" =>
    /\ cursor >= 1
    /\ \A r \in Refs : QueuedChange(r) => working[r] # Absent
    /\ \A r \in Live : IF TypeOf[r] \in versioned THEN ~working[r].changed
                        ELSE working[r].changed <=> QueuedChange(r)
    /\ \A i \in DOMAIN events :
         i < cursor => events[i].ref = Packet \/ TypeOf[events[i].ref] \in versioned

\* While the callbacks are called: a pass stands at the head of the list until the list
\* is empty.
ProcessState ==
  Delivering =>
    /\ cursor = AtHead
    /\ \A r \in Live : ~working[r].changed
    /\ \A i \in DOMAIN events : events[i].ref # Packet /\ events[i].type # "Deleted" =>
         WsnLast >= 1 /\ Lookup(WsnLast, events[i].ref) # Absent

SerialInv ==
  /\ TypeOK /\ VersionsExist /\ TodoLive /\ GuiSerial
  /\ UnchangedIsPublished /\ ChangedIffQueued /\ IdleEvents /\ VersionsCurrent
  /\ DeletedFound /\ ScanState /\ ProcessState /\ NoFault

\* With no event waiting, the callbacks have told the GUI exactly the objects of
\* the working set and their contents.
MirrorAgrees ==
  ppc = "idle" /\ events = <<>> /\ gpc # "cleared" =>
    mirror = [r \in Refs |-> IF working[r] = Absent THEN Absent ELSE working[r].val]

\* The content of r that WSN version v shows.
Shown(v, r) ==
  LET t == TypeOf[r]
      i == wsn_versions[v][t]
  IN IF i = 0 THEN Absent
     ELSE IF snap[t][i][r] = Absent THEN Absent
     ELSE snap[t][i][r].val

\* The same with the patched counter.
ShownEntry(v, r) ==
  LET i == wsn_versions[v][TypeOf[r]]
  IN IF i = 0 THEN Absent ELSE snap[TypeOf[r]][i][r]

\* The store implements the abstract history of pictures: a WSN version is the
\* working set as it was when the version was made, types without a new version
\* included, and it never changes until rpldata_clear drops them all.
Snapshots == INSTANCE SnapshotStore WITH
  current <- [r \in Refs |-> IF working[r] = Absent THEN Absent ELSE working[r].val],
  history <- [v \in 1..WsnLast |-> [r \in Refs |-> Shown(v, r)]]

ImplementsSnapshots == Snapshots!Spec

\* rpl_data.h: the accessors use version 0, modification of other versions should
\* not be allowed.  The newest version is left out: its counters follow the packets
\* received since it was made.
HistoryFrozen ==
  [][ \/ wsn_versions' = <<>>
      \/ \A v \in 1..WsnLast - 1 : \A r \in Refs : ShownEntry(v, r)' = ShownEntry(v, r) ]_vars

\* wsn_versions[wsn_last_version] is inside the array after every growth.
ArrayInBounds == WsnLast < wsn_array_size

\* The poll thread handles no packet while rpldata_clear frees the store.
ClearExclusive == gpc \in {"paused", "cleared", "notified"} => ppc \in {"idle", "fault"}

\* A commit ends without a fault and leaves no event behind: the callbacks have had
\* the packet and every change of it, in one of the two passes.
CommitDelivers == (ppc = "scan") ~> (ppc = "idle" /\ events = <<>>)

\* rpl_event_callbacks.h: a commit makes a version if one is needed.  Between packets no
\* object is marked changed without an event that makes the next commit see it.
NoChangeForgotten ==
  ppc = "idle" => \A r \in Live : working[r].changed => QueuedChange(r)

\* The parser does not stay paused.
PauseEnds == (xml_parser_state = "paused") ~> (xml_parser_state = "run")
=============================================================================
