--------------------------- MODULE RplStoreProofs ---------------------------
(* Proofs about RplStore, for every set of objects and every bound.           *)
EXTENDS RplStore, SequenceTheorems, TLAPS

(* Type correctness, one step per action.                                     *)

USE RefsAssumption, ValsAssumption, AbsentAssumption, BoundsAssumption

\* A patch through a published pointer leaves the versions well formed.
LEMMA PatchedType ==
  ASSUME TypeOK, NEW r \in Refs, NEW c \in Nat
  PROVE  Patched(r, c) \in [Types -> Seq(Snapshot)]
<1> DEFINE t == TypeOf[r]
<1> DEFINE i == IF wsn_versions = <<>> THEN 0 ELSE wsn_versions[WsnLast][t]
<1> DEFINE entry(j) == IF snap[t][j][r] # Absent /\ snap[t][j][r].born = snap[t][i][r].born
                       THEN [snap[t][j] EXCEPT ![r].count = c]
                       ELSE snap[t][j]
<1> DEFINE seq == [j \in DOMAIN snap[t] |-> entry(j)]
<1>1. t \in Types /\ snap[t] \in Seq(Snapshot) /\ snap \in [Types -> Seq(Snapshot)]
  BY DEF TypeOK
<1>2. ASSUME NEW j \in DOMAIN snap[t] PROVE entry(j) \in Snapshot
  <2>1. snap[t][j] \in Snapshot
    BY <1>1
  <2>2. CASE snap[t][j][r] = Absent
    BY <2>1, <2>2
  <2>3. CASE snap[t][j][r] # Absent
    <3>1. snap[t][j][r] \in Pub
      BY <2>1, <2>3 DEF Snapshot
    <3>2. [snap[t][j][r] EXCEPT !.count = c] \in Pub
      BY <3>1 DEF Pub
    <3>3. [snap[t][j] EXCEPT ![r].count = c] \in Snapshot
      BY <2>1, <3>2 DEF Snapshot
    <3> QED BY <2>1, <3>3
  <2> QED BY <2>2, <2>3
<1>3. seq \in Seq(Snapshot)
  <2>1. Len(snap[t]) \in Nat /\ DOMAIN snap[t] = 1..Len(snap[t])
    BY <1>1
  <2>2. seq \in [1..Len(snap[t]) -> Snapshot]
    BY <1>2, <2>1
  <2>3. Seq(Snapshot) = UNION {[1..n -> Snapshot] : n \in Nat}
    BY SeqDef, Zenon
  <2> HIDE DEF seq
  <2> QED BY <2>1, <2>2, <2>3, Zenon
<1>4. [snap EXCEPT ![t] = seq] \in [Types -> Seq(Snapshot)]
  BY <1>1, <1>3
<1> QED BY <1>1, <1>4 DEF Patched

\* A version built for a type is a snapshot when no unchanged object is missing
\* from the version before.
LEMMA NewVersionType ==
  ASSUME TypeOK, NEW t \in Types, ~LacksPrevious(t)
  PROVE  NewVersion(t) \in Snapshot
<1>1. snap[t] \in Seq(Snapshot) /\ LastVersion(t) \in Nat
  BY DEF TypeOK, LastVersion
<1>2. ASSUME NEW r \in OfType(t) \cap Live, working[r].changed
      PROVE  [val |-> working[r].val, count |-> working[r].count,
              born |-> LastVersion(t) + 1] \in Pub
  BY <1>1, <1>2 DEF TypeOK, Live, OfType, Obj, Pub
<1>3. ASSUME NEW r \in OfType(t) \cap Live, ~working[r].changed
      PROVE  snap[t][LastVersion(t)][r] \in Pub \cup {Absent}
  <2>1. LastVersion(t) # 0
    BY <1>3 DEF LacksPrevious
  <2>2. snap[t][LastVersion(t)] \in Snapshot
    BY <1>1, <2>1 DEF LastVersion
  <2> QED BY <2>2, <1>3 DEF Snapshot, OfType
<1> QED BY <1>2, <1>3 DEF NewVersion, Snapshot

\* Fields of an object after a setter and after a count.
LEMMA SetChangedType ==
  ASSUME TypeOK, NEW r \in Refs, working[r] # Absent, NEW v \in Vals, SetChanged(r, v)
  PROVE  working' \in [Refs -> Obj \cup {Absent}] /\ events' \in Seq(Event)
<1>1. working[r] \in Obj
  BY DEF TypeOK
<1>2. [working[r] EXCEPT !.val = v, !.changed = TRUE] \in Obj
  BY <1>1 DEF Obj
<1>3. [type |-> "Updated", ref |-> r] \in Event
  BY DEF Event, EventTypes
<1>4. working' = [working EXCEPT ![r] = [working[r] EXCEPT !.val = v, !.changed = TRUE]]
  BY DEF SetChanged, TypeOK
<1>5. working' \in [Refs -> Obj \cup {Absent}]
  BY <1>2, <1>4 DEF TypeOK
<1>6. events' = events \/ events' = Append(events, [type |-> "Updated", ref |-> r])
  BY Zenon DEF SetChanged, Queue
<1>7. events \in Seq(Event)
  BY DEF TypeOK
<1>8. events' \in Seq(Event)
  BY <1>3, <1>6, <1>7
<1> QED BY <1>5, <1>8

\* What the operations on the working set do to each object.
LEMMA SetChangedShape ==
  ASSUME TypeOK, NEW r \in Refs, working[r] # Absent, NEW v \in Vals, SetChanged(r, v)
  PROVE  /\ working'[r] \in Obj /\ working'[r] # Absent /\ working'[r].changed
         /\ \A q \in Refs : q # r => working'[q] = working[q]
         /\ \A q \in Refs : working'[q] = Absent <=> working[q] = Absent
<1>1. working[r] \in Obj
  BY DEF TypeOK
<1>2. working' = [working EXCEPT ![r] = [working[r] EXCEPT !.val = v, !.changed = TRUE]]
  BY DEF SetChanged, TypeOK
<1>3. /\ [working[r] EXCEPT !.val = v, !.changed = TRUE] \in Obj
      /\ [working[r] EXCEPT !.val = v, !.changed = TRUE].changed
  BY <1>1 DEF Obj
<1>4. working'[r] = [working[r] EXCEPT !.val = v, !.changed = TRUE]
  BY <1>2 DEF TypeOK
<1> QED BY <1>2, <1>3, <1>4 DEF TypeOK

LEMMA CountShape ==
  ASSUME TypeOK, NEW r \in Refs, Count(r)
  PROVE  /\ working'[r] # Absent /\ working'[r].val = working[r].val
         /\ working'[r].changed = working[r].changed
         /\ working[r].count + 1 \in Nat /\ working'[r].count = working[r].count + 1
         /\ \A q \in Refs : q # r => working'[q] = working[q]
         /\ \A q \in Refs : working'[q] = Absent <=> working[q] = Absent
<1>1. working[r] \in Obj /\ working[r] # Absent
  BY DEF Count, TypeOK
<1> DEFINE new == [working[r] EXCEPT !.count = working[r].count + 1]
<1>2. working' = [working EXCEPT ![r] = new]
  BY DEF Count, TypeOK
<1>3. /\ new \in Obj /\ new.val = working[r].val /\ new.changed = working[r].changed
      /\ working[r].count + 1 \in Nat /\ new.count = working[r].count + 1
  BY <1>1 DEF Obj
<1>4. working'[r] = new
  BY <1>2 DEF TypeOK
<1>5. new # Absent
  BY <1>3
<1> HIDE DEF new
<1> QED BY <1>1, <1>2, <1>3, <1>4, <1>5 DEF TypeOK

LEMMA AddVersionShape ==
  ASSUME TypeOK, NEW t, AddVersion(t)
  PROVE  \A q \in Refs :
           /\ working'[q] = Absent <=> working[q] = Absent
           /\ q \notin OfType(t) => working'[q] = working[q]
           /\ q \in OfType(t) \cap Live => /\ ~working'[q].changed
                                         /\ working'[q].val = working[q].val
                                         /\ working'[q].count = working[q].count
<1>1. ASSUME NEW q \in OfType(t) \cap Live
      PROVE  /\ working'[q] \in Obj /\ ~working'[q].changed
             /\ working'[q].val = working[q].val /\ working'[q].count = working[q].count
  <2>1. working[q] \in Obj
    BY <1>1 DEF OfType, Live, TypeOK
  <2>2. working'[q] = [working[q] EXCEPT !.changed = FALSE]
    BY <1>1 DEF AddVersion, OfType
  <2> QED BY <2>1, <2>2 DEF Obj
<1>2. ASSUME NEW q \in Refs, q \notin OfType(t) \cap Live PROVE working'[q] = working[q]
  BY <1>2 DEF AddVersion
<1> QED BY <1>1, <1>2 DEF Live

LEMMA QueueType ==
  ASSUME TypeOK, NEW r \in Refs \cup {Packet}, NEW e \in EventTypes, Queue(e, r)
  PROVE  events' \in Seq(Event)
<1>1. [type |-> e, ref |-> r] \in Event
  BY DEF Event
<1> QED BY <1>1 DEF Queue, TypeOK

\* An event taken out of the list leaves a list of events.
LEMMA ConsumedType ==
  ASSUME TypeOK, cursor \in DOMAIN events, Consumed
  PROVE  events' \in Seq(Event) /\ cursor' \in Nat
<1>1. events \in Seq(Event) /\ cursor \in 1..Len(events) /\ Len(events) \in Nat
  BY DEF TypeOK
<1>2. SubSeq(events, 1, cursor - 1) \in Seq(Event) /\ SubSeq(events, cursor + 1, Len(events)) \in Seq(Event)
  BY <1>1, SubSeqProperties
<1>3. SubSeq(events, 1, cursor - 1) \o SubSeq(events, cursor + 1, Len(events)) \in Seq(Event)
  BY <1>2, ConcatProperties
<1> QED BY <1>1, <1>3 DEF Consumed

\* The event at the head is taken out: what follows moves up, and the pass is over when
\* nothing follows.
LEMMA ConsumedHead ==
  ASSUME TypeOK, events # <<>>, cursor = 1, Consumed
  PROVE  events' = Tail(events) /\ cursor' = AtHead'
<1>1. events \in Seq(Event) /\ Len(events) \in Nat /\ Len(events) >= 1
  BY DEF TypeOK
<1>2. events' = SubSeq(events, 1, 0) \o SubSeq(events, 2, Len(events))
  BY DEF Consumed
<1>3. SubSeq(events, 1, 0) = <<>>
  BY SubSeqEmpty
<1>4. SubSeq(events, 2, Len(events)) = Tail(events) /\ Tail(events) \in Seq(Event)
      /\ Len(Tail(events)) = Len(events) - 1
  BY <1>1, TailIsSubSeq, HeadTailProperties
<1>5. events' = Tail(events)
  BY <1>2, <1>3, <1>4, ConcatEmptySeq
<1>6. Tail(events) = <<>> <=> Len(events) = 1
  BY <1>1, <1>4, EmptySeq
<1> QED BY <1>5, <1>6 DEF Consumed, AtHead

\* Every action keeps the types.
LEMMA TypeStep ==
  ASSUME TypeOK, VersionsExist, TodoLive, [Next]_vars
  PROVE  TypeOK'
<1>1. CASE BeginPacket
  BY <1>1, QueueType DEF BeginPacket, TypeOK, guiVars, EventTypes
<1>2. ASSUME NEW r \in Refs, GetObject(r) PROVE TypeOK'
  <2>1. [val |-> Clean, count |-> 0, changed |-> TRUE] \in Obj
    BY DEF Obj
  <2> QED BY <1>2, <2>1, QueueType DEF GetObject, TypeOK, guiVars, parserVars, EventTypes
<1>3. ASSUME NEW r \in Refs, NEW v \in Vals, Change(r, v) PROVE TypeOK'
  BY <1>3, SetChangedType DEF Change, TypeOK, guiVars, parserVars
<1>4. ASSUME NEW r \in Refs, Count(r) PROVE TypeOK'
  <2>1. working[r] \in Obj
    BY <1>4 DEF Count, TypeOK
  <2>2. [working[r] EXCEPT !.count = working[r].count + 1] \in Obj /\ working[r].count + 1 \in Nat
    BY <2>1 DEF Obj
  <2>3. working' = [working EXCEPT ![r] = [working[r] EXCEPT !.count = working[r].count + 1]]
    BY <1>4 DEF Count, TypeOK
  <2>4. working' \in [Refs -> Obj \cup {Absent}]
    BY <2>2, <2>3 DEF TypeOK
  <2>5. snap' \in [Types -> Seq(Snapshot)]
    <3>1. snap' = Patched(r, working[r].count + 1)
      BY <1>4 DEF Count
    <3> QED BY <2>2, <3>1, PatchedType
  <2> QED BY <1>4, <2>4, <2>5 DEF Count, TypeOK, guiVars, parserVars
<1>5. ASSUME NEW r \in Refs, DelLink(r) PROVE TypeOK'
  BY <1>5, QueueType DEF DelLink, TypeOK, guiVars, parserVars, EventTypes
<1>6. CASE BeginCommit
  BY <1>6 DEF BeginCommit, TypeOK, NoObjects, storeVars, guiVars
<1>7. CASE ScanEvent
  <2>0. events[cursor] \in Event
    BY <1>7 DEF ScanEvent, TypeOK
  <2>1. PICK r \in Refs \cup {Packet} : r = events[cursor].ref
    BY <2>0 DEF Event
  <2>2. CASE r = Packet \/ TypeOf[r] \in versioned
    BY <1>7, <2>1, <2>2 DEF ScanEvent, TypeOK, guiVars
  <2>3. CASE ~(r = Packet \/ TypeOf[r] \in versioned) /\ LacksPrevious(TypeOf[r])
    BY <1>7, <2>1, <2>3 DEF ScanEvent, TypeOK, guiVars
  <2>4. CASE ~(r = Packet \/ TypeOf[r] \in versioned) /\ ~LacksPrevious(TypeOf[r])
    <3> DEFINE t == TypeOf[r]
    <3>1. AddVersion(t) /\ t \in Types /\ ~LacksPrevious(t)
      BY <1>7, <2>1, <2>4 DEF ScanEvent
    <3>2. NewVersion(t) \in Snapshot
      BY <3>1, NewVersionType
    <3>3. snap' \in [Types -> Seq(Snapshot)]
      BY <3>1, <3>2 DEF AddVersion, TypeOK
    <3>4. ASSUME NEW q \in OfType(t) \cap Live
          PROVE  [working[q] EXCEPT !.changed = FALSE] \in Obj
      <4>1. working[q] \in Obj
        BY <3>4 DEF TypeOK, Live, OfType
      <4> QED BY <4>1 DEF Obj
    <3>5. working' \in [Refs -> Obj \cup {Absent}]
      BY <3>1, <3>4 DEF AddVersion, TypeOK
    <3>6. cursor' \in Nat /\ versioned' \subseteq Types
      BY <3>1 DEF AddVersion, TypeOK
    <3>7. UNCHANGED <<wsn_versions, wsn_array_size, events, ppc, unlinked, guiVars, mirror>>
      BY <1>7, <2>1, <2>4 DEF ScanEvent
    <3> QED BY <3>3, <3>5, <3>6, <3>7 DEF TypeOK, guiVars
  <2> QED BY <2>2, <2>3, <2>4
<1>8. CASE EndScan
  <2>1. VersionsNow \in [Types -> Nat] /\ ArrayGrown \in Nat
    BY DEF VersionsNow, ArrayGrown, LastVersion, WsnLast, TypeOK
  <2>2. wsn_versions \in Seq([Types -> Nat]) /\ wsn_array_size \in Nat
    BY DEF TypeOK
  <2>3. Append(wsn_versions, VersionsNow) \in Seq([Types -> Nat])
    BY <2>1, <2>2
  <2>4. wsn_versions' \in Seq([Types -> Nat]) /\ wsn_array_size' \in Nat
    BY <1>8, <2>1, <2>2, <2>3 DEF EndScan
  <2>5. cursor' \in Nat /\ ppc' \in {"create", "process"}
    BY <1>8 DEF EndScan, AtHead
  <2> QED BY <1>8, <2>4, <2>5 DEF EndScan, TypeOK, guiVars
<1>9. CASE ProcessEvent
  <2> DEFINE e == events[cursor]
  <2> DEFINE v == EventVersion(e)
  <2>1. e \in Event /\ cursor \in DOMAIN events
    BY <1>9 DEF ProcessEvent, TypeOK
  <2>2. mirror' \in [Refs -> Vals \cup {Absent}]
    <3>1. CASE e.ref = Packet \/ v < 0 \/ Lookup(v, e.ref) = Absent
      BY <1>9, <3>1 DEF ProcessEvent, TypeOK
    <3>2. CASE ~(e.ref = Packet \/ v < 0 \/ Lookup(v, e.ref) = Absent)
      <4>1. e.ref \in Refs /\ v \in Nat /\ v <= WsnLast
        BY <2>1, <3>2 DEF Event, EventVersion, WsnLast, TypeOK
      <4>2. Lookup(v, e.ref).val \in Vals
        <5>1. CASE v = 0
          BY <3>2, <4>1, <5>1 DEF Lookup, TypeOK, Obj
        <5>2. CASE v # 0
          <6> DEFINE t == TypeOf[e.ref]
          <6> DEFINE i == wsn_versions[v][t]
          <6>1. i # 0 /\ Lookup(v, e.ref) = snap[t][i][e.ref]
            BY <3>2, <5>2 DEF Lookup
          <6>2. wsn_versions[v] \in [Types -> Nat] /\ t \in Types
            BY <4>1, <5>2 DEF TypeOK, WsnLast
          <6>3. i \in 1..LastVersion(t)
            BY <4>1, <5>2, <6>1, <6>2 DEF VersionsExist, TypeOK, LastVersion
          <6>4. snap[t][i] \in Snapshot
            BY <6>2, <6>3 DEF TypeOK, LastVersion
          <6>5. snap[t][i][e.ref] \in Pub
            BY <3>2, <4>1, <6>1, <6>4 DEF Snapshot
          <6> QED BY <6>1, <6>5 DEF Pub
        <5> QED BY <5>1, <5>2
      <4> QED BY <1>9, <3>2, <4>1, <4>2 DEF ProcessEvent, TypeOK
    <3> QED BY <3>1, <3>2
  <2>3. events' \in Seq(Event) /\ cursor' \in Nat
    <3>1. CASE Consumed
      BY <2>1, <3>1, ConsumedType
    <3>2. CASE UNCHANGED <<events, cursor>>
      BY <3>2 DEF TypeOK
    <3> QED BY <1>9, <3>1, <3>2 DEF ProcessEvent
  <2>4. ppc' \in {"create", "process", "fault"}
    BY <1>9 DEF ProcessEvent, Delivering
  <2> QED BY <1>9, <2>2, <2>3, <2>4 DEF ProcessEvent, TypeOK, guiVars
<1>10. CASE EndPacket
  BY <1>10 DEF EndPacket, TypeOK, storeVars, guiVars
<1>11. CASE BeginClearErrors
  BY <1>11 DEF BeginClearErrors, TypeOK, storeVars, parserVars
<1>12. ASSUME NEW r \in Refs, ClearNodeErrors(r) PROVE TypeOK'
  <2>1. working[r] # Absent /\ Clean \in Vals
    BY <1>12 DEF ClearNodeErrors, TodoLive, Live
  <2>2. working' \in [Refs -> Obj \cup {Absent}] /\ events' \in Seq(Event)
    BY <1>12, <2>1, SetChangedType DEF ClearNodeErrors
  <2> QED BY <1>12, <2>2 DEF ClearNodeErrors, TypeOK, parserVars
<1>13. ASSUME NEW r \in Refs, ClearDeprecated(r) PROVE TypeOK'
  <2>1. working[r] \in Obj \cup {Absent} /\ events' \in Seq(Event)
    BY <1>13, QueueType DEF ClearDeprecated, TypeOK, EventTypes
  <2> QED BY <1>13, <2>1 DEF ClearDeprecated, TypeOK
<1>14. CASE EndPurge
  BY <1>14 DEF EndPurge, TypeOK, storeVars, parserVars
<1>15. CASE ClearPause
  BY <1>15 DEF ClearPause, TypeOK, storeVars, parserVars
<1>16. CASE ClearStore
  BY <1>16 DEF ClearStore, TypeOK, NoObjects, parserVars
<1>17. CASE ClearNotify
  BY <1>17 DEF ClearNotify, TypeOK, NoObjects, storeVars, parserVars
<1>18. CASE ClearResume
  BY <1>18 DEF ClearResume, TypeOK, storeVars, parserVars
<1>19. CASE UNCHANGED vars
  BY <1>19 DEF TypeOK, vars, storeVars, parserVars, guiVars
<1>20. ASSUME NEW r \in Refs, ChangeUnlinked(r) PROVE TypeOK'
  <2>1. unlinked[r] \in Obj /\ events' \in Seq(Event)
    BY <1>20, QueueType DEF ChangeUnlinked, TypeOK, EventTypes
  <2>2. [unlinked[r] EXCEPT !.changed = TRUE] \in Obj
    BY <2>1 DEF Obj
  <2>3. unlinked' = [unlinked EXCEPT ![r] = [unlinked[r] EXCEPT !.changed = TRUE]]
    BY <1>20 DEF ChangeUnlinked, TypeOK
  <2>4. unlinked' \in [Refs -> Obj \cup {Absent}]
    BY <2>2, <2>3 DEF TypeOK
  <2> QED BY <1>20, <2>1, <2>4 DEF ChangeUnlinked, TypeOK, guiVars
<1>21. ASSUME NEW r \in Refs, CountUnlinked(r) PROVE TypeOK'
  <2>1. unlinked[r] \in Obj
    BY <1>21 DEF CountUnlinked, TypeOK
  <2>2. [unlinked[r] EXCEPT !.count = unlinked[r].count + 1] \in Obj /\ unlinked[r].count + 1 \in Nat
    BY <2>1 DEF Obj
  <2>3. unlinked' = [unlinked EXCEPT ![r] = [unlinked[r] EXCEPT !.count = unlinked[r].count + 1]]
    BY <1>21 DEF CountUnlinked, TypeOK
  <2>4. unlinked' \in [Refs -> Obj \cup {Absent}]
    BY <2>2, <2>3 DEF TypeOK
  <2>5. snap' \in [Types -> Seq(Snapshot)]
    BY <1>21, <2>2, PatchedType DEF CountUnlinked
  <2> QED BY <1>21, <2>4, <2>5 DEF CountUnlinked, TypeOK, guiVars
<1>22. CASE EndCreate
  BY <1>22 DEF EndCreate, AtHead, TypeOK, storeVars, guiVars
<1> QED
  BY <1>1, <1>2, <1>3, <1>4, <1>5, <1>6, <1>7, <1>8, <1>9, <1>10, <1>11, <1>12,
     <1>13, <1>14, <1>15, <1>16, <1>17, <1>18, <1>19, <1>20, <1>21, <1>22
  DEF Next, Collect, Commit, GuiEdit, ClearRun

\* What a patch leaves alone: which objects a version holds, their contents, and
\* the entries of every other object.
LEMMA PatchedShape ==
  ASSUME TypeOK, NEW r \in Refs, NEW c \in Nat, NEW t \in Types
  PROVE  /\ Len(Patched(r, c)[t]) = Len(snap[t])
         /\ \A j \in 1..Len(snap[t]) : \A q \in Refs :
              /\ q # r => Patched(r, c)[t][j][q] = snap[t][j][q]
              /\ Patched(r, c)[t][j][q] = Absent <=> snap[t][j][q] = Absent
              /\ snap[t][j][q] # Absent => Patched(r, c)[t][j][q].val = snap[t][j][q].val
<1> DEFINE u == TypeOf[r]
<1> DEFINE i == IF wsn_versions = <<>> THEN 0 ELSE wsn_versions[WsnLast][u]
<1> DEFINE hit(j) == snap[u][j][r] # Absent /\ snap[u][j][r].born = snap[u][i][r].born
<1> DEFINE seq == [j \in DOMAIN snap[u] |->
                     IF hit(j) THEN [snap[u][j] EXCEPT ![r].count = c] ELSE snap[u][j]]
<1>1. u \in Types /\ snap \in [Types -> Seq(Snapshot)]
  BY DEF TypeOK
<1>2. \A s \in Types : snap[s] \in Seq(Snapshot) /\ Len(snap[s]) \in Nat
                       /\ DOMAIN snap[s] = 1..Len(snap[s])
  BY <1>1
<1>3. CASE Patched(r, c) = snap
  BY <1>3
<1>4. CASE Patched(r, c) # snap
  <2>1. Patched(r, c) = [snap EXCEPT ![u] = seq]
    BY <1>4 DEF Patched
  <2>2. CASE t # u
    BY <1>1, <2>1, <2>2
  <2>3. CASE t = u
    <3>1. Patched(r, c)[t] = seq
      BY <1>1, <2>1, <2>3
    <3>2. Len(seq) = Len(snap[u])
      BY <1>1, <1>2
    <3>3. ASSUME NEW j \in 1..Len(snap[u]), NEW q \in Refs
          PROVE  /\ q # r => seq[j][q] = snap[u][j][q]
                 /\ seq[j][q] = Absent <=> snap[u][j][q] = Absent
                 /\ snap[u][j][q] # Absent => seq[j][q].val = snap[u][j][q].val
      <4>1. snap[u][j] \in Snapshot /\ j \in DOMAIN snap[u]
        BY <1>1, <1>2
      <4>2. CASE ~hit(j)
        <5>1. seq[j] = snap[u][j]
          BY <4>1, <4>2
        <5> QED BY <5>1
      <4>3. CASE hit(j)
        <5>1. seq[j] = [snap[u][j] EXCEPT ![r] = [snap[u][j][r] EXCEPT !.count = c]]
          BY <4>1, <4>3 DEF Snapshot
        <5>2. snap[u][j][r] \in Pub
          BY <4>1, <4>3 DEF Snapshot
        <5>3. /\ [snap[u][j][r] EXCEPT !.count = c] \in Pub
              /\ [snap[u][j][r] EXCEPT !.count = c].val = snap[u][j][r].val
          BY <5>2 DEF Pub
        <5>4. q # r => seq[j][q] = snap[u][j][q]
          BY <4>1, <5>1 DEF Snapshot
        <5>5. seq[j][r] = [snap[u][j][r] EXCEPT !.count = c]
          BY <4>1, <5>1 DEF Snapshot
        <5> HIDE DEF seq
        <5> QED BY <4>3, <5>3, <5>4, <5>5
      <4> QED BY <4>2, <4>3
    <3> HIDE DEF seq
    <3> QED BY <2>3, <3>1, <3>2, <3>3
  <2> QED BY <2>2, <2>3
<1> QED BY <1>3, <1>4

\* Containers are only added, and a WSN version only names containers there are.
LEMMA VersionsStep ==
  ASSUME TypeOK, VersionsExist, [Next]_vars
  PROVE  VersionsExist'
<1>1. CASE UNCHANGED <<snap, wsn_versions>>
  BY <1>1 DEF VersionsExist, WsnLast, LastVersion
<1>2. ASSUME NEW r \in Refs, Count(r) PROVE VersionsExist'
  <2>1. working[r].count + 1 \in Nat
    BY <1>2 DEF Count, TypeOK, Obj
  <2>2. \A t \in Types : Len(snap'[t]) = Len(snap[t])
    BY <1>2, <2>1, PatchedShape DEF Count
  <2> QED BY <1>2, <2>2 DEF Count, VersionsExist, WsnLast, LastVersion
<1>3. CASE ScanEvent
  <2>1. CASE UNCHANGED snap
    BY <1>3, <2>1, <1>1 DEF ScanEvent
  <2>2. ASSUME NEW t, AddVersion(t) PROVE VersionsExist'
    <3>1. \A s \in Types : Len(snap'[s]) \in Nat /\ Len(snap'[s]) >= Len(snap[s])
      BY <2>2 DEF AddVersion, TypeOK
    <3>2. \A v \in 1..WsnLast : wsn_versions[v] \in [Types -> Nat]
      BY DEF TypeOK, WsnLast
    <3>3. \A s \in Types : Len(snap[s]) \in Nat
      BY DEF TypeOK
    <3> QED BY <1>3, <3>1, <3>2, <3>3 DEF ScanEvent, VersionsExist, WsnLast, LastVersion
  <2> QED BY <1>3, <2>1, <2>2 DEF ScanEvent
<1>4. CASE EndScan
  <2>1. CASE UNCHANGED wsn_versions
    BY <1>4, <2>1, <1>1 DEF EndScan
  <2>2. CASE wsn_versions' = Append(wsn_versions, VersionsNow)
    <3>1. VersionsNow \in [Types -> Nat] /\ \A t \in Types : VersionsNow[t] = LastVersion(t)
      BY DEF VersionsNow, LastVersion, TypeOK
    <3>2. \A t \in Types : LastVersion(t)' = LastVersion(t) /\ LastVersion(t) \in Nat
      BY <1>4 DEF EndScan, LastVersion, TypeOK
    <3>3. WsnLast' = WsnLast + 1 /\ WsnLast \in Nat
      BY <2>2 DEF WsnLast, TypeOK
    <3>4. \A v \in 1..WsnLast' :
            wsn_versions'[v] = IF v = WsnLast + 1 THEN VersionsNow ELSE wsn_versions[v]
      BY <2>2, <3>3 DEF WsnLast, TypeOK
    <3> QED BY <3>1, <3>2, <3>3, <3>4 DEF VersionsExist
  <2> QED BY <1>4, <2>1, <2>2 DEF EndScan
<1>5. CASE ClearStore
  BY <1>5 DEF ClearStore, VersionsExist, WsnLast
<1>6. ASSUME NEW r \in Refs, CountUnlinked(r) PROVE VersionsExist'
  <2>1. unlinked[r].count + 1 \in Nat
    BY <1>6 DEF CountUnlinked, TypeOK, Obj
  <2>2. \A t \in Types : Len(snap'[t]) = Len(snap[t])
    BY <1>6, <2>1, PatchedShape DEF CountUnlinked
  <2> QED BY <1>6, <2>2 DEF CountUnlinked, VersionsExist, WsnLast, LastVersion
<1> QED
  BY <1>1, <1>2, <1>3, <1>4, <1>5, <1>6
  DEF Next, Collect, Commit, GuiEdit, ClearRun, vars, storeVars, BeginPacket, GetObject,
      Change, DelLink, ChangeUnlinked, BeginCommit, ProcessEvent, EndCreate, EndPacket, BeginClearErrors,
      ClearNodeErrors, ClearDeprecated, EndPurge, ClearPause, ClearNotify, ClearResume

\* No action takes a node away while nodes_clear_all_errors runs.
LEMMA TodoStep ==
  ASSUME TypeOK, TodoLive, [Next]_vars
  PROVE  TodoLive'
<1> DEFINE Kept == \A r \in OfType("node") : working[r] # Absent => working'[r] # Absent
<1>1. ASSUME Kept, todo' \subseteq todo, gpc' = "errors" => gpc = "errors"
      PROVE  TodoLive'
  BY <1>1 DEF TodoLive, Live, TypeOK, OfType
<1>2. ASSUME NEW r \in Refs, GetObject(r) PROVE TodoLive'
  <2>1. \A q \in Refs : working[q] # Absent => working'[q] = working[q]
    BY <1>2 DEF GetObject, TypeOK
  <2> QED BY <1>1, <1>2, <2>1 DEF GetObject, guiVars, OfType
<1>3. ASSUME NEW r \in Refs, NEW v \in Vals, SetChanged(r, v), working[r] # Absent PROVE Kept
  BY <1>3, SetChangedShape DEF OfType
<1>4. ASSUME NEW r \in Refs, NEW v \in Vals, Change(r, v) PROVE TodoLive'
  BY <1>1, <1>3, <1>4 DEF Change, guiVars
<1>5. ASSUME NEW r \in Refs, Count(r) PROVE TodoLive'
  BY <1>1, <1>5, CountShape DEF Count, guiVars, OfType
<1>6. ASSUME NEW r \in Refs, DelLink(r) PROVE TodoLive'
  BY <1>1, <1>6 DEF DelLink, guiVars, OfType, TypeOK
<1>7. CASE ScanEvent
  <2>1. CASE UNCHANGED working
    BY <1>1, <1>7, <2>1 DEF ScanEvent, guiVars
  <2>2. ASSUME NEW t, AddVersion(t) PROVE TodoLive'
    BY <1>1, <1>7, <2>2, AddVersionShape DEF ScanEvent, guiVars, OfType
  <2> QED BY <1>7, <2>1, <2>2 DEF ScanEvent
<1>8. CASE BeginClearErrors
  BY <1>8 DEF BeginClearErrors, TodoLive, Live, storeVars
<1>9. ASSUME NEW r \in Refs, ClearNodeErrors(r) PROVE TodoLive'
  <2>1. working[r] # Absent
    BY <1>9 DEF ClearNodeErrors, TodoLive, Live
  <2> QED BY <1>1, <1>3, <1>9, <2>1 DEF ClearNodeErrors
<1>10. ASSUME NEW r \in Refs, ClearDeprecated(r) PROVE TodoLive'
  BY <1>1, <1>10 DEF ClearDeprecated, DeprecatedLinks, OfType, TypeOK
<1>11. ASSUME ClearStore \/ ClearPause \/ ClearNotify \/ ClearResume \/ EndPurge PROVE TodoLive'
  BY <1>11 DEF ClearStore, ClearPause, ClearNotify, ClearResume, EndPurge, TodoLive
<1>12. CASE UNCHANGED <<working, guiVars>>
  BY <1>1, <1>12 DEF guiVars
<1> QED
  BY <1>2, <1>4, <1>5, <1>6, <1>7, <1>8, <1>9, <1>10, <1>11, <1>12
  DEF Next, Collect, Commit, GuiEdit, ClearRun, vars, storeVars, BeginPacket,
      ChangeUnlinked, CountUnlinked, BeginCommit, EndScan, ProcessEvent, EndCreate, EndPacket

THEOREM TypeCorrect == Spec => []TypeOK
<1>1. Init => TypeOK /\ VersionsExist /\ TodoLive
  BY DEF Init, TypeOK, VersionsExist, TodoLive, WsnLast, NoObjects, Types, OfType
<1>2. TypeOK /\ VersionsExist /\ TodoLive /\ [Next]_vars => (TypeOK /\ VersionsExist /\ TodoLive)'
  BY TypeStep, VersionsStep, TodoStep
<1> QED BY <1>1, <1>2, PTL DEF Spec

-----------------------------------------------------------------------------
(* The commit never dereferences NULL when GUI calls do not overlap packets    *)
(* and clears find no event queued.                                            *)

\* What an appended event adds to the list.
LEMMA QueueShape ==
  ASSUME TypeOK, NEW r \in Refs \cup {Packet}, NEW e \in EventTypes, Queue(e, r)
  PROVE  /\ Len(events) \in Nat /\ DOMAIN events = 1..Len(events)
         /\ Len(events') = Len(events) + 1 /\ DOMAIN events' = 1..(Len(events) + 1)
         /\ \A i \in 1..Len(events) : events'[i] = events[i]
         /\ events'[Len(events) + 1].type = e /\ events'[Len(events) + 1].ref = r
         /\ \A q \in Refs : QueuedChange(q)' <=> QueuedChange(q) \/ (q = r /\ e # "Deleted")
<1>1. events \in Seq(Event) /\ [type |-> e, ref |-> r] \in Event
  BY DEF TypeOK, Event
<1>2. events' = Append(events, [type |-> e, ref |-> r])
  BY DEF Queue
<1>3. /\ Len(events) \in Nat /\ DOMAIN events = 1..Len(events)
      /\ Len(events') = Len(events) + 1 /\ DOMAIN events' = 1..(Len(events) + 1)
      /\ \A i \in 1..Len(events) : events'[i] = events[i]
      /\ events'[Len(events) + 1] = [type |-> e, ref |-> r]
  BY <1>1, <1>2
<1>4. ASSUME NEW q \in Refs
      PROVE  QueuedChange(q)' <=> QueuedChange(q) \/ (q = r /\ e # "Deleted")
  BY <1>3 DEF QueuedChange
<1> QED BY <1>3, <1>4

\* A lookup in a WSN version depends on the versions only.
LEMMA LookupStable ==
  ASSUME NEW v \in Nat, v >= 1, NEW r, UNCHANGED <<snap, wsn_versions>>
  PROVE  Lookup(v, r)' = Lookup(v, r)
BY DEF Lookup

\* An unchanged object of a type the running commit has not versioned is found
\* in the newest WSN version.
LEMMA PublishedFound ==
  ASSUME SerialInv, NEW r \in Live, ~working[r].changed, ~(ppc = "scan" /\ TypeOf[r] \in versioned)
  PROVE  WsnLast >= 1 /\ Lookup(WsnLast, r) # Absent
<1> DEFINE t == TypeOf[r]
<1>1. r \in Refs /\ t \in Types
  BY DEF Live
<1>2. LastVersion(t) > 0 /\ snap[t][LastVersion(t)][r] # Absent
  BY DEF SerialInv, UnchangedIsPublished
<1>3. LastVersion(t) = IF WsnLast = 0 THEN 0 ELSE wsn_versions[WsnLast][t]
  BY <1>1 DEF SerialInv, VersionsCurrent
<1>4. WsnLast \in Nat
  BY DEF SerialInv, TypeOK, WsnLast
<1>5. WsnLast >= 1 /\ wsn_versions[WsnLast][t] = LastVersion(t)
  BY <1>2, <1>3, <1>4
<1> QED BY <1>2, <1>4, <1>5 DEF Lookup

\* The parts of SerialInv a step must re-establish beside the type invariant.
LEMMA SerialParts ==
  ASSUME SerialInv, [Next]_vars,
         GuiSerial', UnchangedIsPublished', ChangedIffQueued', IdleEvents',
         VersionsCurrent', DeletedFound', ScanState', ProcessState', NoFault'
  PROVE  SerialInv'
BY TypeStep, VersionsStep, TodoStep DEF SerialInv

\* No link is unlinked under the hands of a handler.
LEMMA NoneUnlinked ==
  ASSUME SerialInv, NEW r \in Refs
  PROVE  ~ChangeUnlinked(r) /\ ~CountUnlinked(r)
BY DEF SerialInv, GuiSerial, NoObjects, ChangeUnlinked, CountUnlinked

\* A step outside a commit that makes no version: what the flags, the events
\* and the lookups must still satisfy.
LEMMA EditParts ==
  ASSUME SerialInv, [Next]_vars, UNCHANGED <<snap, wsn_versions>>,
         ppc \in {"idle", "collect"}, ppc' \in {"idle", "collect"},
         \A r \in Refs : working'[r] # Absent /\ ~working'[r].changed => working'[r] = working[r],
         \A i \in DOMAIN events' : events'[i].type = "Deleted" =>
           \/ \E j \in DOMAIN events : events[j] = events'[i]
           \/ /\ events'[i].ref \in Live /\ ~working[events'[i].ref].changed,
         GuiSerial', ChangedIffQueued', IdleEvents'
  PROVE  SerialInv'
<1>1. TypeOK /\ UnchangedIsPublished /\ VersionsCurrent /\ DeletedFound
  BY DEF SerialInv
<1>2. UnchangedIsPublished'
  BY <1>1 DEF UnchangedIsPublished, Live, LastVersion
<1>3. VersionsCurrent'
  BY <1>1 DEF VersionsCurrent, LastVersion, WsnLast
<1>4. DeletedFound'
  <2>1. ASSUME NEW i \in DOMAIN events', events'[i].type = "Deleted"
        PROVE  events'[i].ref \in Refs /\ WsnLast >= 1 /\ Lookup(WsnLast, events'[i].ref) # Absent
    <3>1. CASE \E j \in DOMAIN events : events[j] = events'[i]
      BY <1>1, <2>1, <3>1 DEF DeletedFound, Delivering
    <3>2. CASE events'[i].ref \in Live /\ ~working[events'[i].ref].changed
      BY <3>2, PublishedFound DEF Live
    <3> QED BY <2>1, <3>1, <3>2
  <2>2. WsnLast \in Nat
    BY <1>1 DEF TypeOK, WsnLast
  <2> QED BY <2>1, <2>2 DEF DeletedFound, Delivering, Lookup, WsnLast
<1>5. ScanState' /\ ProcessState' /\ NoFault'
  BY DEF ScanState, ProcessState, Delivering, NoFault
<1> QED BY <1>2, <1>3, <1>4, <1>5, SerialParts

LEMMA BeginPacketSerial ==
  ASSUME SerialInv, ~GuiInterleaves, BeginPacket
  PROVE  SerialInv'
<1>1. [Next]_vars /\ TypeOK
  BY DEF Next, SerialInv
<1>2. Queue("Created", Packet) /\ UNCHANGED <<working, snap, wsn_versions, gpc, unlinked>>
      /\ ppc = "idle" /\ ppc' = "collect" /\ gpc = "idle"
  BY DEF BeginPacket, guiVars, ParserMayRun
<1>3. GuiSerial' /\ IdleEvents'
  BY <1>2 DEF SerialInv, GuiSerial, IdleEvents
<1>4. ChangedIffQueued'
  BY <1>1, <1>2, QueueShape DEF SerialInv, ChangedIffQueued, EventTypes
<1>5. \A i \in DOMAIN events' : events'[i].type = "Deleted" => \E j \in DOMAIN events : events[j] = events'[i]
  BY <1>1, <1>2, QueueShape DEF EventTypes
<1> QED BY <1>1, <1>2, <1>3, <1>4, <1>5, EditParts

\* The primitives of the collector.
LEMMA GetObjectSerial ==
  ASSUME SerialInv, NEW r \in Refs, GetObject(r)
  PROVE  SerialInv'
<1>1. [Next]_vars /\ TypeOK /\ ChangedIffQueued
  BY DEF Next, Collect, SerialInv
<1>2. /\ Queue("Created", r) /\ UNCHANGED <<snap, wsn_versions, gpc, ppc, unlinked>> /\ ppc = "collect"
      /\ working[r] = Absent
      /\ working' = [working EXCEPT ![r] = [val |-> Clean, count |-> 0, changed |-> TRUE]]
  BY DEF GetObject, guiVars, parserVars
<1>3. [val |-> Clean, count |-> 0, changed |-> TRUE] \in Obj
  BY DEF Obj
<1>4. /\ working'[r] # Absent /\ working'[r].changed
      /\ \A q \in Refs : q # r => working'[q] = working[q]
  BY <1>1, <1>2, <1>3 DEF TypeOK
<1>5. GuiSerial' /\ IdleEvents'
  BY <1>2 DEF SerialInv, GuiSerial, IdleEvents
<1>6. ChangedIffQueued'
  BY <1>1, <1>2, <1>4, QueueShape DEF ChangedIffQueued, EventTypes
<1>7. \A i \in DOMAIN events' : events'[i].type = "Deleted" => \E j \in DOMAIN events : events[j] = events'[i]
  BY <1>1, <1>2, QueueShape DEF EventTypes
<1> QED BY <1>1, <1>2, <1>4, <1>5, <1>6, <1>7, EditParts

\* X_set_changed keeps the flags in step with the events.
LEMMA SetChangedSerial ==
  ASSUME SerialInv, NEW r \in Refs, working[r] # Absent, NEW v \in Vals, SetChanged(r, v),
         ppc \in {"idle", "collect"}, UNCHANGED ppc
  PROVE  /\ ChangedIffQueued'
         /\ \A i \in DOMAIN events' : \/ \E j \in DOMAIN events : events[j] = events'[i]
                                      \/ events'[i].type = "Updated" /\ events'[i].ref = r
<1>1. TypeOK /\ ChangedIffQueued
  BY DEF SerialInv
<1>2. CASE working[r].changed
  <2>1. UNCHANGED events
    BY <1>2 DEF SetChanged
  <2>2. \A q \in Refs : QueuedChange(q)' <=> QueuedChange(q)
    BY <2>1 DEF QueuedChange
  <2>3. ChangedIffQueued'
    BY <1>1, <1>2, <2>2, SetChangedShape DEF ChangedIffQueued
  <2> QED BY <2>1, <2>3
<1>3. CASE ~working[r].changed
  <2>1. Queue("Updated", r)
    BY <1>3 DEF SetChanged
  <2>2. ChangedIffQueued'
    BY <1>1, <2>1, SetChangedShape, QueueShape DEF ChangedIffQueued, EventTypes
  <2>3. \A i \in DOMAIN events' : \/ \E j \in DOMAIN events : events[j] = events'[i]
                                  \/ events'[i].type = "Updated" /\ events'[i].ref = r
    BY <1>1, <2>1, QueueShape DEF EventTypes
  <2> QED BY <2>2, <2>3
<1> QED BY <1>2, <1>3

LEMMA ChangeSerial ==
  ASSUME SerialInv, NEW r \in Refs, NEW v \in Vals, Change(r, v)
  PROVE  SerialInv'
<1>1. [Next]_vars /\ TypeOK
  BY DEF Next, Collect, SerialInv
<1>2. /\ SetChanged(r, v) /\ UNCHANGED <<snap, wsn_versions, gpc, ppc, unlinked>> /\ ppc = "collect"
      /\ working[r] # Absent
  BY DEF Change, guiVars, parserVars
<1>3. GuiSerial' /\ IdleEvents'
  BY <1>2 DEF SerialInv, GuiSerial, IdleEvents
<1>4. \A q \in Refs : working'[q] # Absent /\ ~working'[q].changed => working'[q] = working[q]
  BY <1>1, <1>2, SetChangedShape
<1> QED BY <1>1, <1>2, <1>3, <1>4, SetChangedSerial, EditParts

LEMMA DelLinkSerial ==
  ASSUME SerialInv, NEW r \in Refs, DelLink(r)
  PROVE  SerialInv'
<1>1. [Next]_vars /\ TypeOK /\ ChangedIffQueued
  BY DEF Next, Collect, SerialInv
<1>2. /\ Queue("Deleted", r) /\ UNCHANGED <<snap, wsn_versions, gpc, ppc, unlinked>> /\ ppc = "collect"
      /\ working[r] # Absent /\ ~working[r].changed
      /\ working' = [working EXCEPT ![r] = Absent]
  BY DEF DelLink, guiVars, parserVars
<1>3. working'[r] = Absent /\ \A q \in Refs : q # r => working'[q] = working[q]
  BY <1>1, <1>2 DEF TypeOK
<1>4. GuiSerial' /\ IdleEvents'
  BY <1>2 DEF SerialInv, GuiSerial, IdleEvents
<1>5. ChangedIffQueued'
  BY <1>1, <1>2, <1>3, QueueShape DEF ChangedIffQueued, EventTypes
<1>6. \A i \in DOMAIN events' : events'[i].type = "Deleted" =>
        (\E j \in DOMAIN events : events[j] = events'[i]) \/ events'[i].ref = r
  BY <1>1, <1>2, QueueShape DEF EventTypes
<1> QED BY <1>1, <1>2, <1>3, <1>4, <1>5, <1>6, EditParts DEF Live

\* The patch reaches the newest version, the one rpl_event readers look at.
LEMMA PatchedNewest ==
  ASSUME SerialInv, ppc # "scan", NEW r \in Refs, NEW c \in Nat,
         LastVersion(TypeOf[r]) > 0,
         snap[TypeOf[r]][LastVersion(TypeOf[r])][r] # Absent
  PROVE  Patched(r, c)[TypeOf[r]][LastVersion(TypeOf[r])][r].count = c
<1> DEFINE u == TypeOf[r]
<1> DEFINE last == LastVersion(u)
<1> DEFINE i == IF wsn_versions = <<>> THEN 0 ELSE wsn_versions[WsnLast][u]
<1>1. u \in Types /\ snap \in [Types -> Seq(Snapshot)] /\ wsn_versions \in Seq([Types -> Nat])
  BY DEF SerialInv, TypeOK
<1>2. i = last
  BY <1>1 DEF SerialInv, VersionsCurrent, WsnLast
<1>3. last \in DOMAIN snap[u] /\ snap[u][last] \in Snapshot
  BY <1>1 DEF LastVersion
<1>4. snap[u][last][r] \in Pub
  BY <1>3 DEF Snapshot
<1> DEFINE seq == [j \in DOMAIN snap[u] |->
                     IF snap[u][j][r] # Absent /\ snap[u][j][r].born = snap[u][i][r].born
                     THEN [snap[u][j] EXCEPT ![r].count = c]
                     ELSE snap[u][j]]
<1>5. Patched(r, c)[u] = seq
  <2>1. i # 0 /\ ~(snap[u][i][r] = Absent)
    BY <1>2, <1>1 DEF LastVersion
  <2>2. Patched(r, c) = [snap EXCEPT ![u] = seq]
    BY <2>1, Zenon DEF Patched
  <2> QED BY <1>1, <2>2
<1>6. Patched(r, c)[u][last] = [snap[u][last] EXCEPT ![r] = [snap[u][last][r] EXCEPT !.count = c]]
  BY <1>2, <1>3, <1>5 DEF Snapshot
<1> HIDE DEF last, u, i, seq
<1>7. Patched(r, c)[u][last][r] = [snap[u][last][r] EXCEPT !.count = c]
  BY <1>3, <1>6 DEF Snapshot
<1>8. [snap[u][last][r] EXCEPT !.count = c].count = c
  BY <1>4 DEF Pub
<1> QED BY <1>7, <1>8 DEF last, u

LEMMA CountSerial ==
  ASSUME SerialInv, NEW r \in Refs, Count(r)
  PROVE  SerialInv'
<1> DEFINE c == working[r].count + 1
<1>1. [Next]_vars /\ TypeOK /\ ChangedIffQueued /\ UnchangedIsPublished /\ VersionsCurrent /\ DeletedFound
  BY DEF Next, Collect, SerialInv
<1>2. /\ UNCHANGED <<wsn_versions, events, gpc, ppc, unlinked>> /\ ppc = "collect"
      /\ working[r] # Absent /\ snap' = Patched(r, c)
  BY DEF Count, guiVars, parserVars
<1>3. c \in Nat
  BY <1>1, CountShape
<1> HIDE DEF c
<1>4. \A t \in Types :
        /\ Len(snap'[t]) = Len(snap[t]) /\ LastVersion(t)' = LastVersion(t)
        /\ \A j \in 1..Len(snap[t]) : \A q \in Refs :
             /\ q # r => snap'[t][j][q] = snap[t][j][q]
             /\ snap'[t][j][q] = Absent <=> snap[t][j][q] = Absent
             /\ snap[t][j][q] # Absent => snap'[t][j][q].val = snap[t][j][q].val
  BY <1>1, <1>2, <1>3, PatchedShape DEF LastVersion
<1>5. GuiSerial' /\ IdleEvents' /\ ScanState' /\ ProcessState' /\ NoFault'
  BY <1>2 DEF SerialInv, GuiSerial, IdleEvents, ScanState, ProcessState, Delivering, NoFault
<1>6. ChangedIffQueued'
  BY <1>1, <1>2, CountShape DEF ChangedIffQueued, QueuedChange
<1>7. VersionsCurrent'
  BY <1>1, <1>2, <1>4 DEF VersionsCurrent, WsnLast
<1>8. UnchangedIsPublished'
  <2> SUFFICES ASSUME NEW q \in Refs, working'[q] # Absent, ~working'[q].changed
               PROVE  LET t == TypeOf[q] IN
                        /\ LastVersion(t)' > 0
                        /\ snap'[t][LastVersion(t)'][q] # Absent
                        /\ snap'[t][LastVersion(t)'][q].val = working'[q].val
                        /\ snap'[t][LastVersion(t)'][q].count = working'[q].count
    BY DEF UnchangedIsPublished, Live, LastVersion
  <2> DEFINE t == TypeOf[q]
  <2>1. t \in Types /\ LastVersion(t)' = LastVersion(t) /\ LastVersion(t) \in Nat
    BY <1>1, <1>4 DEF LastVersion, TypeOK
  <2>2. working[q] # Absent /\ ~working[q].changed /\ working'[q].val = working[q].val
    BY <1>1, CountShape
  <2>3. /\ LastVersion(t) > 0 /\ snap[t][LastVersion(t)][q] # Absent
        /\ snap[t][LastVersion(t)][q].val = working[q].val
        /\ snap[t][LastVersion(t)][q].count = working[q].count
    BY <1>1, <2>2 DEF UnchangedIsPublished, Live
  <2>4. LastVersion(t) \in 1..Len(snap[t])
    BY <2>1, <2>3 DEF LastVersion
  <2>5. CASE q # r
    BY <1>1, <1>4, <2>1, <2>2, <2>3, <2>4, <2>5, CountShape
  <2>6. CASE q = r
    <3>1. snap'[t][LastVersion(t)][q].count = c
      BY <1>2, <1>3, <2>3, <2>6, PatchedNewest
    <3>2. working'[q].count = c
      BY <1>1, <2>6, CountShape DEF c
    <3> QED BY <1>4, <2>1, <2>2, <2>3, <2>4, <3>1, <3>2
  <2> QED BY <2>5, <2>6
<1>9. DeletedFound'
  <2> SUFFICES ASSUME NEW i \in DOMAIN events, events[i].type = "Deleted"
               PROVE  LET q == events[i].ref
                          k == wsn_versions[WsnLast][TypeOf[q]]
                      IN /\ q \in Refs /\ WsnLast >= 1 /\ k # 0
                         /\ snap'[TypeOf[q]][k][q] # Absent
    <3>1. WsnLast \in Nat
      BY <1>1 DEF TypeOK, WsnLast
    <3> QED BY <1>2, <3>1 DEF DeletedFound, Delivering, Lookup, WsnLast
  <2> DEFINE q == events[i].ref
  <2> DEFINE k == wsn_versions[WsnLast][TypeOf[q]]
  <2>1. WsnLast \in Nat
    BY <1>1 DEF TypeOK, WsnLast
  <2>2. q \in Refs /\ WsnLast >= 1 /\ k # 0 /\ snap[TypeOf[q]][k][q] # Absent
    BY <1>1, <1>2, <2>1 DEF DeletedFound, Delivering, Lookup
  <2>3. TypeOf[q] \in Types /\ wsn_versions[WsnLast] \in [Types -> Nat]
    BY <1>1, <2>1, <2>2 DEF TypeOK, WsnLast
  <2>4. k \in 1..Len(snap[TypeOf[q]])
    BY <2>1, <2>2, <2>3 DEF SerialInv, VersionsExist, LastVersion
  <2> QED BY <1>4, <2>2, <2>3, <2>4
<1> QED BY <1>1, <1>5, <1>6, <1>7, <1>8, <1>9, SerialParts

\* The commit, step by step.
LEMMA BeginCommitSerial ==
  ASSUME SerialInv, BeginCommit
  PROVE  SerialInv'
<1>1. [Next]_vars /\ TypeOK /\ ChangedIffQueued /\ UnchangedIsPublished /\ VersionsCurrent /\ DeletedFound
  BY DEF Next, Commit, SerialInv
<1>2. /\ UNCHANGED <<working, snap, wsn_versions, events, gpc>> /\ ppc = "collect" /\ ppc' = "scan"
      /\ cursor' = 1 /\ versioned' = {} /\ unlinked' = NoObjects
  BY DEF BeginCommit, storeVars, guiVars
<1>3. GuiSerial' /\ ChangedIffQueued' /\ IdleEvents' /\ ProcessState' /\ NoFault'
  BY <1>2 DEF SerialInv, GuiSerial, ChangedIffQueued, IdleEvents, ProcessState, Delivering, NoFault
<1>4. UnchangedIsPublished' /\ VersionsCurrent'
  BY <1>1, <1>2 DEF UnchangedIsPublished, VersionsCurrent, Live, LastVersion, WsnLast
<1>5. DeletedFound'
  BY <1>1, <1>2 DEF DeletedFound, Delivering, Lookup, WsnLast
<1>6. ScanState'
  <2>1. \A r \in Refs : QueuedChange(r)' <=> working[r] # Absent /\ working[r].changed
    BY <1>1, <1>2 DEF ChangedIffQueued, QueuedChange
  <2>2. DOMAIN events = 1..Len(events)
    BY <1>1 DEF TypeOK
  <2> QED BY <1>2, <2>1, <2>2 DEF ScanState, Live
<1> QED BY <1>1, <1>3, <1>4, <1>5, <1>6, SerialParts

\* An unchanged object always has a previous version to share.
LEMMA HasPrevious ==
  ASSUME SerialInv, NEW t \in Types
  PROVE  ~LacksPrevious(t)
<1>1. \A r \in OfType(t) \cap Live : ~working[r].changed =>
         LastVersion(t) > 0 /\ snap[t][LastVersion(t)][r] # Absent
  BY DEF SerialInv, UnchangedIsPublished, OfType
<1>2. LastVersion(t) > 0 => LastVersion(t) # 0
  OBVIOUS
<1> QED BY <1>1, <1>2, Zenon DEF LacksPrevious

\* What is already in the containers stays when a version is appended.
LEMMA AppendedVersion ==
  ASSUME TypeOK, NEW t \in Types, NEW n \in Snapshot, snap' = [snap EXCEPT ![t] = Append(@, n)]
  PROVE  /\ \A s \in Types : \A j \in 1..Len(snap[s]) : snap'[s][j] = snap[s][j]
         /\ LastVersion(t)' = LastVersion(t) + 1 /\ snap'[t][LastVersion(t) + 1] = n
         /\ \A s \in Types : s # t => snap'[s] = snap[s] /\ LastVersion(s)' = LastVersion(s)
BY DEF TypeOK, LastVersion

LEMMA AddVersionSerial ==
  ASSUME SerialInv, ScanEvent, NEW t \in Types, t \notin versioned, AddVersion(t),
         t = TypeOf[events[cursor].ref], events[cursor].ref # Packet, UNCHANGED ppc
  PROVE  SerialInv'
<1> DEFINE new == LastVersion(t) + 1
<1>1. [Next]_vars /\ TypeOK /\ UnchangedIsPublished /\ VersionsCurrent /\ DeletedFound /\ ScanState
      /\ VersionsExist
  BY DEF Next, Commit, SerialInv
<1>2. /\ UNCHANGED <<wsn_versions, events, gpc, ppc, unlinked>> /\ ppc = "scan"
      /\ cursor' = cursor + 1 /\ versioned' = versioned \cup {t}
      /\ snap' = [snap EXCEPT ![t] = Append(@, NewVersion(t))]
      /\ NewVersion(t) \in Snapshot
  BY <1>1, HasPrevious, NewVersionType DEF ScanEvent, AddVersion, guiVars
<1>3. GuiSerial' /\ ChangedIffQueued' /\ IdleEvents' /\ ProcessState' /\ NoFault'
  BY <1>2 DEF SerialInv, GuiSerial, ChangedIffQueued, IdleEvents, ProcessState, Delivering, NoFault
<1>4. VersionsCurrent'
  BY <1>1, <1>2, AppendedVersion DEF VersionsCurrent, WsnLast, LastVersion
<1>5. UnchangedIsPublished'
  <2> SUFFICES ASSUME NEW q \in Refs, working'[q] # Absent, ~working'[q].changed
               PROVE  LET s == TypeOf[q] IN
                        /\ LastVersion(s)' > 0
                        /\ snap'[s][LastVersion(s)'][q] # Absent
                        /\ snap'[s][LastVersion(s)'][q].val = working'[q].val
                        /\ snap'[s][LastVersion(s)'][q].count = working'[q].count
    BY DEF UnchangedIsPublished, Live, LastVersion
  <2>1. LastVersion(t) \in Nat /\ new > 0
    BY <1>1 DEF TypeOK, LastVersion
  <2>2. CASE TypeOf[q] = t
    <3>1. q \in OfType(t) \cap Live /\ working'[q].val = working[q].val /\ working'[q].count = working[q].count
      BY <1>1, <2>2, AddVersionShape DEF OfType, Live
    <3>2. LastVersion(t)' = new /\ snap'[t][new] = NewVersion(t)
      BY <1>1, <1>2 DEF LastVersion, TypeOK
    <3>3. CASE working[q].changed
      <4>1. NewVersion(t)[q] = [val |-> working[q].val, count |-> working[q].count, born |-> new]
        BY <3>1, <3>3 DEF NewVersion, OfType
      <4>2. NewVersion(t)[q] \in Pub
        BY <1>1, <2>1, <3>1, <4>1 DEF Pub, TypeOK, Obj, Live
      <4> QED BY <2>1, <2>2, <3>1, <3>2, <4>1, <4>2
    <3>4. CASE ~working[q].changed
      <4>1. NewVersion(t)[q] = snap[t][LastVersion(t)][q]
        BY <3>1, <3>4 DEF NewVersion, OfType
      <4>2. /\ snap[t][LastVersion(t)][q] # Absent
            /\ snap[t][LastVersion(t)][q].val = working[q].val
            /\ snap[t][LastVersion(t)][q].count = working[q].count
        BY <1>1, <2>2, <3>1, <3>4 DEF UnchangedIsPublished
      <4> QED BY <2>1, <2>2, <3>1, <3>2, <4>1, <4>2
    <3> QED BY <3>3, <3>4
  <2>3. CASE TypeOf[q] # t
    <3>1. working'[q] = working[q]
      BY <1>1, <2>3, AddVersionShape DEF OfType
    <3>2. snap'[TypeOf[q]] = snap[TypeOf[q]] /\ LastVersion(TypeOf[q])' = LastVersion(TypeOf[q])
      BY <1>1, <1>2, <2>3, AppendedVersion
    <3> QED BY <1>1, <3>1, <3>2 DEF UnchangedIsPublished, Live
  <2> QED BY <2>2, <2>3
<1>6. DeletedFound'
  <2> SUFFICES ASSUME NEW i \in DOMAIN events, events[i].type = "Deleted"
               PROVE  LET q == events[i].ref
                          k == wsn_versions[WsnLast][TypeOf[q]]
                      IN /\ q \in Refs /\ WsnLast >= 1 /\ k # 0
                         /\ snap'[TypeOf[q]][k][q] # Absent
    <3>1. WsnLast \in Nat
      BY <1>1 DEF TypeOK, WsnLast
    <3>2. UNCHANGED <<events, wsn_versions>> /\ ppc' = "scan"
      BY <1>2
    <3> QED BY <3>1, <3>2 DEF DeletedFound, Delivering, Lookup, WsnLast
  <2> DEFINE q == events[i].ref
  <2> DEFINE k == wsn_versions[WsnLast][TypeOf[q]]
  <2>1. WsnLast \in Nat
    BY <1>1 DEF TypeOK, WsnLast
  <2>2. q \in Refs /\ WsnLast >= 1 /\ k # 0 /\ snap[TypeOf[q]][k][q] # Absent
    BY <1>1, <1>2, <2>1 DEF DeletedFound, Delivering, Lookup
  <2>3. TypeOf[q] \in Types /\ wsn_versions[WsnLast] \in [Types -> Nat]
    BY <1>1, <2>1, <2>2 DEF TypeOK, WsnLast
  <2>4. k \in 1..Len(snap[TypeOf[q]])
    BY <1>1, <2>1, <2>2, <2>3 DEF VersionsExist, LastVersion
  <2>5. snap'[TypeOf[q]][k] = snap[TypeOf[q]][k]
    <3>1. \A s \in Types : \A j \in 1..Len(snap[s]) : snap'[s][j] = snap[s][j]
      BY <1>1, <1>2, AppendedVersion
    <3> QED BY <2>3, <2>4, <3>1
  <2> QED BY <2>2, <2>5
<1>7. ScanState'
  <2>1. \A r \in Refs : QueuedChange(r)' <=> QueuedChange(r)
    BY <1>2 DEF QueuedChange
  <2>2. \A r \in Refs : QueuedChange(r) => working[r] # Absent
    BY <1>1, <1>2 DEF ScanState
  <2>3. \A r \in Refs : working[r] # Absent =>
           IF TypeOf[r] \in versioned THEN ~working[r].changed ELSE working[r].changed <=> QueuedChange(r)
    BY <1>1, <1>2 DEF ScanState, Live
  <2>4. \A r \in Refs : working'[r] # Absent =>
           IF TypeOf[r] \in versioned' THEN ~working'[r].changed
           ELSE working'[r].changed <=> QueuedChange(r)
    BY <1>1, <1>2, <2>3, AddVersionShape DEF OfType, Live
  <2>5. \A i \in DOMAIN events : i < cursor + 1 => events[i].ref = Packet \/ TypeOf[events[i].ref] \in versioned'
    <3>1. cursor \in Nat /\ DOMAIN events = 1..Len(events) /\ Len(events) \in Nat
      BY <1>1 DEF TypeOK
    <3>2. \A i \in DOMAIN events : i < cursor + 1 => i < cursor \/ i = cursor
      BY <3>1
    <3> QED BY <1>1, <1>2, <3>2 DEF ScanState
  <2>6. cursor' >= 1
    BY <1>1, <1>2 DEF ScanState, TypeOK
  <2> QED BY <1>1, <1>2, <2>1, <2>2, <2>4, <2>5, <2>6, AddVersionShape DEF ScanState, Live
<1> QED BY <1>1, <1>3, <1>4, <1>5, <1>6, <1>7, SerialParts

LEMMA ScanEventSerial ==
  ASSUME SerialInv, ScanEvent
  PROVE  SerialInv'
<1>1. [Next]_vars /\ TypeOK /\ ppc = "scan"
  BY DEF Next, Commit, SerialInv, ScanEvent
<1>2. events[cursor] \in Event /\ cursor \in Nat /\ DOMAIN events = 1..Len(events)
  BY <1>1 DEF ScanEvent, TypeOK
<1>3. CASE events[cursor].ref = Packet \/ TypeOf[events[cursor].ref] \in versioned
  <2>1. /\ UNCHANGED <<working, snap, wsn_versions, events, gpc, ppc, versioned, unlinked>>
        /\ cursor' = cursor + 1
    BY <1>3 DEF ScanEvent, guiVars
  <2>2. /\ GuiSerial' /\ ChangedIffQueued' /\ IdleEvents' /\ ProcessState' /\ NoFault'
    BY <1>1, <2>1 DEF SerialInv, GuiSerial, ChangedIffQueued, IdleEvents, ProcessState, Delivering, NoFault
  <2>3. UnchangedIsPublished' /\ VersionsCurrent'
    BY <2>1 DEF SerialInv, UnchangedIsPublished, VersionsCurrent, Live, LastVersion, WsnLast
  <2>4. DeletedFound'
    BY <2>1 DEF SerialInv, DeletedFound, Delivering, Lookup, WsnLast
  <2>5. \A i \in DOMAIN events : i < cursor + 1 => i < cursor \/ i = cursor
    BY <1>2, <1>1 DEF TypeOK
  <2>6. ScanState'
    BY <1>1, <1>2, <1>3, <2>1, <2>5 DEF SerialInv, ScanState, Live, QueuedChange
  <2> QED BY <1>1, <2>2, <2>3, <2>4, <2>6, SerialParts
<1>4. CASE ~(events[cursor].ref = Packet \/ TypeOf[events[cursor].ref] \in versioned)
  <2> DEFINE t == TypeOf[events[cursor].ref]
  <2>1. t \in Types
    BY <1>2, <1>4 DEF Event
  <2>2. AddVersion(t) /\ UNCHANGED ppc
    BY <1>4, <2>1, HasPrevious DEF ScanEvent
  <2> QED BY <1>4, <2>1, <2>2, AddVersionSerial
<1> QED BY <1>3, <1>4

\* When the walk is over, no live object is marked changed any more.
LEMMA ScanClears ==
  ASSUME SerialInv, ppc = "scan", cursor > Len(events)
  PROVE  /\ \A r \in Live : ~working[r].changed
         /\ \A i \in DOMAIN events : events[i].ref = Packet \/ TypeOf[events[i].ref] \in versioned
<1>1. TypeOK /\ ScanState
  BY DEF SerialInv
<1>2. \A i \in DOMAIN events : events[i].ref = Packet \/ TypeOf[events[i].ref] \in versioned
  <2>1. DOMAIN events = 1..Len(events) /\ Len(events) \in Nat /\ cursor \in Nat
    BY <1>1 DEF TypeOK
  <2>2. \A i \in DOMAIN events : i < cursor
    BY <2>1
  <2> QED BY <1>1, <2>2 DEF ScanState
<1>3. ASSUME NEW r \in Live PROVE ~working[r].changed
  <2>1. r \in Refs /\ r # Packet
    BY DEF Live
  <2>2. QueuedChange(r) => TypeOf[r] \in versioned
    BY <1>2, <2>1 DEF QueuedChange
  <2> QED BY <1>1, <2>1, <2>2 DEF ScanState
<1> QED BY <1>2, <1>3

LEMMA EndScanSerial ==
  ASSUME SerialInv, EndScan
  PROVE  SerialInv'
<1>1. [Next]_vars /\ TypeOK /\ UnchangedIsPublished /\ VersionsCurrent /\ DeletedFound /\ ScanState
      /\ VersionsExist
  BY DEF Next, Commit, SerialInv
<1>2. /\ UNCHANGED <<working, snap, events, gpc, versioned, unlinked>>
      /\ ppc = "scan" /\ ppc' \in {"create", "process"} /\ cursor > Len(events)
      /\ cursor' = AtHead'
  BY DEF EndScan, AtHead, guiVars
<1>3. GuiSerial' /\ ChangedIffQueued' /\ IdleEvents' /\ ScanState' /\ NoFault'
  BY <1>2 DEF SerialInv, GuiSerial, ChangedIffQueued, IdleEvents, ScanState, NoFault
<1>4. UnchangedIsPublished'
  BY <1>1, <1>2 DEF UnchangedIsPublished, Live, LastVersion
<1>5. /\ \A r \in Live : ~working[r].changed
      /\ \A i \in DOMAIN events : events[i].ref = Packet \/ TypeOf[events[i].ref] \in versioned
  BY <1>2, ScanClears
<1>6. WsnLast \in Nat /\ snap \in [Types -> Seq(Snapshot)] /\ wsn_versions \in Seq([Types -> Nat])
  BY <1>1 DEF TypeOK, WsnLast
<1>7. Delivering' /\ ~Delivering
  BY <1>2 DEF Delivering
<1>8. CASE versioned = {}
  <2>1. UNCHANGED wsn_versions /\ \A i \in DOMAIN events : events[i].ref = Packet
    BY <1>5, <1>8 DEF EndScan
  <2>2. \A i \in DOMAIN events : events[i].type # "Deleted"
    BY <1>1, <2>1 DEF DeletedFound
  <2>3. DeletedFound'
    BY <1>2, <2>2 DEF DeletedFound
  <2>4. ProcessState'
    BY <1>2, <1>5, <2>1 DEF ProcessState, Live
  <2>5. VersionsCurrent'
    BY <1>1, <1>2, <1>8, <2>1 DEF VersionsCurrent, LastVersion, WsnLast
  <2> QED BY <1>1, <1>3, <1>4, <2>3, <2>4, <2>5, SerialParts
<1>9. CASE versioned # {}
  <2>1. wsn_versions' = Append(wsn_versions, VersionsNow)
    BY <1>9 DEF EndScan
  <2>2. VersionsNow \in [Types -> Nat] /\ \A t \in Types : VersionsNow[t] = LastVersion(t)
    BY <1>6 DEF VersionsNow, LastVersion
  <2>3. /\ WsnLast' = WsnLast + 1 /\ wsn_versions'[WsnLast + 1] = VersionsNow
        /\ \A v \in 1..WsnLast : wsn_versions'[v] = wsn_versions[v]
    BY <1>6, <2>1, <2>2 DEF WsnLast
  <2>4. VersionsCurrent'
    BY <1>2, <1>6, <2>2, <2>3 DEF VersionsCurrent, LastVersion
  <2>5. DeletedFound'
    <3> SUFFICES ASSUME NEW i \in DOMAIN events, events[i].type = "Deleted"
                 PROVE  LET q == events[i].ref
                            k == wsn_versions'[WsnLast][TypeOf[q]]
                        IN q \in Refs /\ WsnLast >= 1 /\ k # 0 /\ snap[TypeOf[q]][k][q] # Absent
      <4>1. UNCHANGED <<events, snap>> /\ Delivering' /\ WsnLast' - 1 = WsnLast
        BY <1>2, <1>6, <1>7, <2>3
      <4> QED BY <1>6, <4>1 DEF DeletedFound, Lookup
    <3>1. LET q == events[i].ref
              k == wsn_versions[WsnLast][TypeOf[q]]
          IN q \in Refs /\ WsnLast >= 1 /\ k # 0 /\ snap[TypeOf[q]][k][q] # Absent
      BY <1>1, <1>2, <1>6, <1>7 DEF DeletedFound, Lookup
    <3> QED BY <1>6, <2>3, <3>1
  <2>6. ProcessState'
    <3> SUFFICES ASSUME NEW i \in DOMAIN events, events[i].ref # Packet, events[i].type # "Deleted"
                 PROVE  LET q == events[i].ref
                            k == wsn_versions'[WsnLast + 1][TypeOf[q]]
                        IN k # 0 /\ snap[TypeOf[q]][k][q] # Absent
      BY <1>2, <1>5, <1>6, <2>3 DEF ProcessState, Lookup, Live
    <3> DEFINE q == events[i].ref
    <3>1. q \in Refs /\ TypeOf[q] \in Types
      <4>1. events[i] \in Event
        BY <1>1 DEF TypeOK
      <4> QED BY <4>1 DEF Event
    <3>2. q \in Live /\ ~working[q].changed
      BY <1>1, <1>2, <1>5, <3>1 DEF ScanState, QueuedChange, Live
    <3>3. LastVersion(TypeOf[q]) > 0 /\ snap[TypeOf[q]][LastVersion(TypeOf[q])][q] # Absent
      BY <1>1, <3>2 DEF UnchangedIsPublished
    <3>4. wsn_versions'[WsnLast + 1][TypeOf[q]] = LastVersion(TypeOf[q])
      BY <2>2, <2>3, <3>1
    <3> QED BY <3>3, <3>4
  <2> QED BY <1>1, <1>3, <1>4, <2>4, <2>5, <2>6, SerialParts
<1> QED BY <1>8, <1>9

LEMMA ProcessEventSerial ==
  ASSUME SerialInv, ProcessEvent
  PROVE  SerialInv'
<1> DEFINE e == Head(events)
<1>1. [Next]_vars /\ TypeOK /\ UnchangedIsPublished /\ VersionsCurrent /\ DeletedFound /\ ProcessState
  BY DEF Next, Commit, SerialInv
<1>2. /\ UNCHANGED <<working, snap, wsn_versions, gpc, versioned, unlinked>> /\ Delivering
      /\ ppc \in {"create", "process"} /\ cursor = 1 /\ events # <<>> /\ e = events[cursor]
  BY <1>1 DEF ProcessEvent, Delivering, ProcessState, AtHead, TypeOK, guiVars
<1>3. /\ e = events[1] /\ 1 \in DOMAIN events /\ e \in Event
      /\ Tail(events) \in Seq(Event)
      /\ \A i \in DOMAIN Tail(events) : i + 1 \in DOMAIN events /\ Tail(events)[i] = events[i + 1]
  BY <1>1, <1>2 DEF TypeOK
<1>4. WsnLast \in Nat
  BY <1>1 DEF TypeOK, WsnLast
<1>5. e.ref # Packet => ~(EventVersion(e) < 0 \/ Lookup(EventVersion(e), e.ref) = Absent)
  <2>1. CASE e.type = "Deleted"
    BY <1>1, <1>2, <1>3, <1>4, <2>1 DEF DeletedFound, EventVersion
  <2>2. CASE e.type # "Deleted"
    BY <1>1, <1>2, <1>3, <1>4, <2>2 DEF ProcessState, EventVersion
  <2> QED BY <2>1, <2>2
<1>6. Consumed /\ UNCHANGED ppc
  BY <1>2, <1>5 DEF ProcessEvent
<1>7. events' = Tail(events) /\ cursor' = AtHead' /\ Delivering'
  BY <1>1, <1>2, <1>6, ConsumedHead DEF Delivering
<1>8. GuiSerial' /\ ChangedIffQueued' /\ IdleEvents' /\ ScanState' /\ NoFault'
  BY <1>2, <1>6 DEF SerialInv, GuiSerial, ChangedIffQueued, IdleEvents, ScanState, NoFault
<1>9. UnchangedIsPublished' /\ VersionsCurrent'
  BY <1>1, <1>2, <1>6 DEF UnchangedIsPublished, VersionsCurrent, Live, LastVersion, WsnLast
<1>10. \A i \in DOMAIN events' : \E j \in DOMAIN events : events'[i] = events[j]
  BY <1>3, <1>7
<1>11. DeletedFound'
  <2>1. UNCHANGED <<snap, wsn_versions, ppc>>
    BY <1>2, <1>6
  <2>2. \A i \in DOMAIN events' : events'[i].type = "Deleted" =>
          /\ events'[i].ref \in Refs /\ WsnLast - 1 >= 1
          /\ Lookup(WsnLast - 1, events'[i].ref) # Absent
    BY <1>1, <1>2, <1>10 DEF DeletedFound
  <2> QED BY <1>2, <1>4, <1>7, <2>1, <2>2 DEF DeletedFound, Lookup, WsnLast
<1>12. ProcessState'
  <2>1. UNCHANGED <<working, snap, wsn_versions, ppc>>
    BY <1>2, <1>6
  <2> QED BY <1>1, <1>2, <1>4, <1>10, <1>7, <2>1 DEF ProcessState, Lookup, WsnLast, Live
<1> QED BY <1>1, <1>8, <1>9, <1>11, <1>12, SerialParts

LEMMA EndCreateSerial ==
  ASSUME SerialInv, EndCreate
  PROVE  SerialInv'
<1>1. [Next]_vars /\ UnchangedIsPublished /\ VersionsCurrent /\ DeletedFound /\ ProcessState
  BY DEF Next, Commit, SerialInv
<1>2. /\ UNCHANGED <<working, snap, wsn_versions, events, gpc, unlinked>>
      /\ ppc = "create" /\ ppc' = "process" /\ cursor' = AtHead' /\ Delivering /\ Delivering'
  BY DEF EndCreate, AtHead, Delivering, storeVars, guiVars
<1>3. GuiSerial' /\ ChangedIffQueued' /\ IdleEvents' /\ ScanState' /\ NoFault'
  BY <1>2 DEF SerialInv, GuiSerial, ChangedIffQueued, IdleEvents, ScanState, NoFault
<1>4. UnchangedIsPublished' /\ VersionsCurrent'
  BY <1>1, <1>2 DEF UnchangedIsPublished, VersionsCurrent, Live, LastVersion, WsnLast
<1>5. DeletedFound'
  BY <1>1, <1>2 DEF DeletedFound, Lookup, WsnLast
<1>6. ProcessState'
  BY <1>1, <1>2 DEF ProcessState, Lookup, Live, WsnLast
<1> QED BY <1>1, <1>3, <1>4, <1>5, <1>6, SerialParts

LEMMA EndPacketSerial ==
  ASSUME SerialInv, EndPacket
  PROVE  SerialInv'
<1>1. [Next]_vars /\ TypeOK /\ UnchangedIsPublished /\ VersionsCurrent /\ ProcessState
  BY DEF Next, Commit, SerialInv
<1>2. /\ UNCHANGED <<working, snap, wsn_versions, events, gpc, unlinked>> /\ events = <<>>
      /\ ppc = "process" /\ ppc' = "idle" /\ Delivering
  BY <1>1 DEF EndPacket, ProcessState, Delivering, AtHead, storeVars, guiVars
<1>3. /\ GuiSerial' /\ IdleEvents' /\ DeletedFound' /\ ScanState' /\ ProcessState' /\ NoFault'
  BY <1>2 DEF SerialInv, GuiSerial, IdleEvents, DeletedFound, ScanState, ProcessState, Delivering, NoFault
<1>4. UnchangedIsPublished' /\ VersionsCurrent'
  BY <1>1, <1>2 DEF UnchangedIsPublished, VersionsCurrent, Live, LastVersion, WsnLast
<1>5. ChangedIffQueued'
  BY <1>1, <1>2 DEF ProcessState, ChangedIffQueued, QueuedChange, Live
<1> QED BY <1>1, <1>3, <1>4, <1>5, SerialParts

\* The calls of the GUI.
LEMMA ClearNodeErrorsSerial ==
  ASSUME SerialInv, NEW r \in Refs, ClearNodeErrors(r)
  PROVE  SerialInv'
<1>1. [Next]_vars /\ TypeOK /\ TodoLive /\ GuiSerial /\ IdleEvents
  BY DEF Next, GuiEdit, SerialInv
<1>2. /\ SetChanged(r, Clean) /\ UNCHANGED <<snap, wsn_versions, ppc, unlinked>> /\ gpc = "errors"
      /\ r \in todo /\ gpc' \in {"idle", "errors"}
  BY DEF ClearNodeErrors, parserVars
<1>3. ppc = "idle" /\ working[r] # Absent /\ TypeOf[r] = "node"
  BY <1>1, <1>2 DEF GuiSerial, TodoLive, Live, TypeOK, OfType
<1>4. /\ ChangedIffQueued'
      /\ \A i \in DOMAIN events' : \/ \E j \in DOMAIN events : events[j] = events'[i]
                                   \/ events'[i].type = "Updated" /\ events'[i].ref = r
  BY <1>2, <1>3, SetChangedSerial
<1>5. IdleEvents'
  BY <1>1, <1>3, <1>4 DEF IdleEvents
<1>6. GuiSerial'
  BY <1>1, <1>2, <1>3 DEF GuiSerial
<1>7. \A q \in Refs : working'[q] # Absent /\ ~working'[q].changed => working'[q] = working[q]
  BY <1>1, <1>2, <1>3, SetChangedShape
<1> QED BY <1>1, <1>2, <1>3, <1>4, <1>5, <1>6, <1>7, EditParts

LEMMA ClearDeprecatedSerial ==
  ASSUME SerialInv, ~GuiInterleaves, NEW r \in Refs, ClearDeprecated(r)
  PROVE  SerialInv'
<1>1. [Next]_vars /\ TypeOK /\ GuiSerial /\ IdleEvents /\ ChangedIffQueued
  BY DEF Next, GuiEdit, SerialInv
<1>2. /\ Queue("Deleted", r) /\ UNCHANGED <<snap, wsn_versions, ppc>> /\ gpc' = "purge"
      /\ working[r] # Absent /\ TypeOf[r] = "link"
      /\ working' = [working EXCEPT ![r] = Absent]
  BY DEF ClearDeprecated, DeprecatedLinks, OfType, Live
<1>3. ppc = "idle" /\ UNCHANGED unlinked
  BY <1>1 DEF ClearDeprecated, GuiMayRun, GuiSerial
<1>4. working'[r] = Absent /\ \A q \in Refs : q # r => working'[q] = working[q]
  BY <1>1, <1>2 DEF TypeOK
<1>5. ~QueuedChange(r)
  BY <1>1, <1>2, <1>3 DEF QueuedChange, IdleEvents
<1>6. ~working[r].changed
  BY <1>1, <1>2, <1>3, <1>5 DEF ChangedIffQueued
<1>7. ChangedIffQueued'
  BY <1>1, <1>2, <1>3, <1>4, <1>5, QueueShape DEF ChangedIffQueued, EventTypes
<1>8. \A i \in DOMAIN events' : \/ \E j \in DOMAIN events : events[j] = events'[i]
                                \/ events'[i].type = "Deleted" /\ events'[i].ref = r
  BY <1>1, <1>2, QueueShape DEF EventTypes
<1>9. IdleEvents'
  BY <1>1, <1>2, <1>3, <1>8 DEF IdleEvents
<1>10. GuiSerial'
  BY <1>1, <1>2, <1>3 DEF GuiSerial
<1> QED BY <1>1, <1>2, <1>3, <1>4, <1>6, <1>7, <1>8, <1>9, <1>10, EditParts DEF Live

LEMMA ClearStoreSerial ==
  ASSUME SerialInv, ClearStore
  PROVE  SerialInv'
<1>1. [Next]_vars /\ GuiSerial
  BY DEF Next, ClearRun, SerialInv
<1>2. /\ ppc = "idle" /\ UNCHANGED <<ppc, events, unlinked>> /\ events = <<>> /\ gpc' = "cleared"
      /\ \A r \in Refs : working'[r] = Absent
      /\ wsn_versions' = <<>> /\ \A t \in Types : snap'[t] = <<>>
  BY <1>1 DEF ClearStore, GuiSerial, NoObjects, parserVars
<1>3. GuiSerial' /\ UnchangedIsPublished' /\ IdleEvents'
  BY <1>1, <1>2 DEF GuiSerial, UnchangedIsPublished, IdleEvents, Live
<1>4. ChangedIffQueued'
  <2>1. events' = <<>>
    BY <1>2
  <2>2. \A r \in Refs : ~QueuedChange(r)'
    BY <2>1 DEF QueuedChange
  <2> QED BY <1>2, <2>2 DEF ChangedIffQueued
<1>5. VersionsCurrent'
  <2>1. WsnLast' = 0
    BY <1>2 DEF WsnLast
  <2>2. \A t \in Types : Len(snap'[t]) = 0
    BY <1>2
  <2> QED BY <2>1, <2>2 DEF VersionsCurrent, LastVersion
<1>6. DeletedFound' /\ ScanState' /\ ProcessState' /\ NoFault'
  BY <1>2 DEF DeletedFound, ScanState, ProcessState, Delivering, NoFault
<1> QED BY <1>1, <1>3, <1>4, <1>5, <1>6, SerialParts

\* Steps that leave the objects, their versions and the events alone.
LEMMA IdleStepSerial ==
  ASSUME SerialInv, [Next]_vars, UNCHANGED <<working, snap, wsn_versions, events, ppc>>,
         ppc \in {"idle", "collect"}, GuiSerial'
  PROVE  SerialInv'
<1>1. ChangedIffQueued' /\ IdleEvents'
  BY DEF SerialInv, ChangedIffQueued, IdleEvents, QueuedChange
<1> QED BY <1>1, EditParts

LEMMA StutterSerial ==
  ASSUME SerialInv, UNCHANGED vars
  PROVE  SerialInv'
<1>1. /\ UNCHANGED <<working, snap, wsn_versions, events, ppc, cursor, versioned, unlinked, gpc>>
      /\ [Next]_vars
  BY DEF vars, storeVars, parserVars, guiVars
<1>2. GuiSerial'
  BY <1>1 DEF SerialInv, GuiSerial
<1>3. UnchangedIsPublished'
  BY <1>1 DEF SerialInv, UnchangedIsPublished, Live, LastVersion
<1>4. ChangedIffQueued'
  BY <1>1 DEF SerialInv, ChangedIffQueued, QueuedChange
<1>5. IdleEvents'
  BY <1>1 DEF SerialInv, IdleEvents
<1>6. VersionsCurrent'
  BY <1>1 DEF SerialInv, VersionsCurrent, LastVersion, WsnLast
<1>7. DeletedFound'
  BY <1>1 DEF SerialInv, DeletedFound, Delivering, Lookup, WsnLast
<1>8. ScanState'
  BY <1>1 DEF SerialInv, ScanState, QueuedChange, Live
<1>9. ProcessState'
  BY <1>1 DEF SerialInv, ProcessState, Delivering, AtHead, Live, WsnLast, Lookup
<1>10. NoFault'
  BY <1>1 DEF SerialInv, NoFault
<1> QED
  BY <1>1, <1>2, <1>3, <1>4, <1>5, <1>6, <1>7, <1>8, <1>9, <1>10, SerialParts

LEMMA SerialStep ==
  ASSUME SerialInv, CleanClear, ~GuiInterleaves, [Next]_vars
  PROVE  SerialInv'
<1>1. CASE BeginClearErrors
  <2>1. UNCHANGED <<working, snap, wsn_versions, events, ppc, unlinked>> /\ ppc = "idle" /\ gpc' = "errors"
    BY <1>1 DEF BeginClearErrors, GuiMayRun, storeVars, parserVars
  <2> QED BY <2>1, IdleStepSerial DEF SerialInv, GuiSerial
<1>2. CASE EndPurge
  <2>1. UNCHANGED <<working, snap, wsn_versions, events, ppc, unlinked>> /\ ppc = "idle" /\ gpc' = "idle"
    BY <1>2 DEF EndPurge, storeVars, parserVars, SerialInv, GuiSerial
  <2> QED BY <2>1, IdleStepSerial DEF SerialInv, GuiSerial
<1>3. CASE ClearPause
  <2>1. UNCHANGED <<working, snap, wsn_versions, events, ppc, unlinked>> /\ ppc = "idle" /\ gpc' = "paused"
        /\ events = <<>>
    BY <1>3 DEF ClearPause, storeVars, parserVars
  <2> QED BY <2>1, IdleStepSerial DEF SerialInv, GuiSerial
<1>4. ASSUME ClearNotify \/ ClearResume PROVE SerialInv'
  <2>1. UNCHANGED <<working, snap, wsn_versions, events, ppc, unlinked>> /\ gpc \in {"cleared", "notified"}
    BY <1>4 DEF ClearNotify, ClearResume, storeVars, parserVars
  <2>2. ppc = "idle" /\ events = <<>>
    BY <2>1 DEF SerialInv, GuiSerial
  <2> QED BY <2>1, <2>2, IdleStepSerial DEF SerialInv, GuiSerial
<1> QED
  BY <1>1, <1>2, <1>3, <1>4, BeginPacketSerial, GetObjectSerial, ChangeSerial, CountSerial,
     DelLinkSerial, BeginCommitSerial, ScanEventSerial, EndScanSerial, ProcessEventSerial,
     EndCreateSerial, EndPacketSerial, NoneUnlinked, ClearNodeErrorsSerial, ClearDeprecatedSerial, ClearStoreSerial, StutterSerial
  DEF Next, Collect, Commit, GuiEdit, ClearRun

\* The strengthening is an invariant of the serial system: no GUI call overlaps the
\* handling of a packet and no clear finds an event queued.
THEOREM SerialCorrect ==
  ASSUME CleanClear, ~GuiInterleaves
  PROVE  Spec => []SerialInv
<1>1. Init => SerialInv
  BY DEF Init, SerialInv, TypeOK, VersionsExist, TodoLive, GuiSerial, UnchangedIsPublished,
         ChangedIffQueued, IdleEvents, VersionsCurrent, DeletedFound, ScanState, ProcessState, Delivering,
         NoFault, Live, LastVersion, WsnLast, QueuedChange, NoObjects, Types, OfType
<1>2. SerialInv /\ [Next]_vars => SerialInv'
  BY SerialStep
<1> QED BY <1>1, <1>2, PTL DEF Spec

\* A commit never dereferences NULL, for any number of objects of any types.
THEOREM NoFaultSerial ==
  ASSUME CleanClear, ~GuiInterleaves
  PROVE  Spec => []NoFault
<1>1. SerialInv => NoFault
  BY DEF SerialInv
<1> QED BY <1>1, SerialCorrect, PTL

\* X_set_changed may trust the flag: an object is marked exactly when its event waits.
THEOREM ChangedIffQueuedSerial ==
  ASSUME CleanClear, ~GuiInterleaves
  PROVE  Spec => []ChangedIffQueued
<1>1. SerialInv => ChangedIffQueued
  BY DEF SerialInv
<1> QED BY <1>1, SerialCorrect, PTL

\* An object that is not marked changed is in the newest version, up to date.
THEOREM UnchangedIsPublishedSerial ==
  ASSUME CleanClear, ~GuiInterleaves
  PROVE  Spec => []UnchangedIsPublished
<1>1. SerialInv => UnchangedIsPublished
  BY DEF SerialInv
<1> QED BY <1>1, SerialCorrect, PTL

-----------------------------------------------------------------------------
(* Theorems that hold whatever the GUI does.                                   *)

\* The parser is paused exactly while rpldata_clear runs, and then handles no packet.
PausedWhileClearing ==
  /\ gpc \in {"paused", "cleared", "notified"} <=> xml_parser_state = "paused"
  /\ ClearExclusive

\* rpldata_clear never frees the store under the hands of the poll thread.
THEOREM ClearExclusiveAlways == Spec => []ClearExclusive
<1>1. Init => PausedWhileClearing
  BY DEF Init, PausedWhileClearing, ClearExclusive
<1>2. PausedWhileClearing /\ [Next]_vars => PausedWhileClearing'
  <2> SUFFICES ASSUME PausedWhileClearing, [Next]_vars PROVE PausedWhileClearing'
    OBVIOUS
  <2> USE DEF PausedWhileClearing, ClearExclusive
  <2>1. CASE BeginPacket
    BY <2>1 DEF BeginPacket, guiVars
  <2>2. CASE Collect
    BY <2>2 DEF Collect, GetObject, Change, Count, DelLink, ChangeUnlinked, CountUnlinked, guiVars, parserVars
  <2>3. CASE Commit
    BY <2>3 DEF Commit, BeginCommit, ScanEvent, EndScan, ProcessEvent, Delivering, EndCreate, EndPacket, guiVars
  <2>4. CASE GuiEdit
    BY <2>4 DEF GuiEdit, BeginClearErrors, ClearNodeErrors, ClearDeprecated, EndPurge, parserVars
  <2>5. CASE ClearPause
    BY <2>5 DEF ClearPause, parserVars
  <2>6. CASE ClearRun
    BY <2>6 DEF ClearRun, ClearStore, ClearNotify, ClearResume, parserVars
  <2>7. CASE UNCHANGED vars
    BY <2>7 DEF vars, parserVars, guiVars
  <2> QED BY <2>1, <2>2, <2>3, <2>4, <2>5, <2>6, <2>7 DEF Next
<1>3. PausedWhileClearing => ClearExclusive
  BY DEF PausedWhileClearing
<1> QED BY <1>1, <1>2, <1>3, PTL DEF Spec

\* wsn_versions is long enough for the record rpldata_wsn_create_version writes.
THEOREM ArrayInBoundsAlways == Spec => []ArrayInBounds
<1> DEFINE ArrayInv == wsn_array_size \in Nat /\ wsn_versions \in Seq([Types -> Nat]) /\ ArrayInBounds
<1>1. Init => ArrayInv
  BY DEF Init, ArrayInBounds, WsnLast
<1>2. TypeOK /\ ArrayInv /\ [Next]_vars => ArrayInv'
  <2> SUFFICES ASSUME TypeOK, ArrayInv, [Next]_vars PROVE ArrayInv'
    OBVIOUS
  <2>1. CASE UNCHANGED <<wsn_versions, wsn_array_size>>
    BY <2>1 DEF ArrayInBounds, WsnLast
  <2>2. CASE EndScan
    <3>1. VersionsNow \in [Types -> Nat]
      BY DEF VersionsNow, LastVersion, TypeOK
    <3>2. WsnLast \in Nat /\ wsn_array_size \in Nat /\ WsnLast < wsn_array_size
      BY DEF ArrayInBounds, WsnLast
    <3>3. CASE wsn_versions' = Append(wsn_versions, VersionsNow) /\ wsn_array_size' = ArrayGrown
      <4>1. Len(wsn_versions') = WsnLast + 1 /\ wsn_versions' \in Seq([Types -> Nat])
        BY <3>1, <3>3 DEF WsnLast
      <4>2. ArrayGrown \in Nat /\ WsnLast + 1 < ArrayGrown
        BY <3>2 DEF ArrayGrown
      <4> QED BY <3>3, <4>1, <4>2 DEF ArrayInBounds, WsnLast
    <3> QED BY <2>1, <2>2, <3>3 DEF EndScan
  <2>3. CASE ClearStore
    BY <2>3 DEF ClearStore, ArrayInBounds, WsnLast
  <2> QED
    BY <2>1, <2>2, <2>3
    DEF Next, Collect, Commit, GuiEdit, ClearRun, vars, storeVars, BeginPacket, GetObject, Change,
        Count, DelLink, ChangeUnlinked, CountUnlinked, BeginCommit, ScanEvent, ProcessEvent, EndCreate,
        EndPacket, BeginClearErrors,
        ClearNodeErrors, ClearDeprecated, EndPurge, ClearPause, ClearNotify, ClearResume
<1>3. ArrayInv => ArrayInBounds
  OBVIOUS
<1> QED BY <1>1, <1>2, <1>3, TypeCorrect, PTL DEF Spec

-----------------------------------------------------------------------------
(* What readers of the store see: the callbacks keep the GUI's picture in step *)
(* with the working set, and the store implements the history of pictures of   *)
(* SnapshotStore.  As in SerialCorrect, no GUI call overlaps a packet and no   *)
(* clear finds an event queued.                                                *)

(* The invariant, on top of SerialInv.                                         *)

Content(r) == IF working[r] = Absent THEN Absent ELSE working[r].val
EventsOf(r) == {i \in DOMAIN events : events[i].ref = r}

\* The last event of an object says whether it is still there.
EventsTell ==
  \A r \in Refs : \A i \in EventsOf(r) :
    (\A j \in EventsOf(r) : j <= i) => (events[i].type = "Deleted" <=> working[r] = Absent)

\* The GUI knows every object for which no event waits.
MirrorTold == gpc # "cleared" => \A r \in Refs : EventsOf(r) = {} => mirror[r] = Content(r)

ClearedEmpty == gpc = "cleared" => \A r \in Refs : working[r] = Absent

\* An object that is gone is not in the newest version of its type, once a commit has
\* seen its event.
Settled(r) == Delivering \/ (ppc = "scan" /\ TypeOf[r] \in versioned) \/ EventsOf(r) = {}
NewestLacks(r) ==
  LET t == TypeOf[r] IN LastVersion(t) = 0 \/ snap[t][LastVersion(t)][r] = Absent
GoneFromNewest == \A r \in Refs : working[r] = Absent /\ Settled(r) => NewestLacks(r)

ReaderInv == EventsTell /\ MirrorTold /\ ClearedEmpty /\ GoneFromNewest

-----------------------------------------------------------------------------
(* Steps by what they do to the event list.                                    *)

LEMMA ContentIs ==
  ASSUME TypeOK, NEW r \in Refs
  PROVE  /\ Content(r) = Absent <=> working[r] = Absent
         /\ Content(r) \in Vals \cup {Absent}
         /\ working[r] # Absent => Content(r) = working[r].val /\ working[r].val # Absent
<1>1. working[r] \in Obj \cup {Absent}
  BY DEF TypeOK
<1> QED BY <1>1 DEF Content, Obj

LEMMA SameEvents ==
  ASSUME UNCHANGED events
  PROVE  \A q \in Refs : EventsOf(q)' = EventsOf(q)
BY DEF EventsOf

LEMMA SameTells ==
  ASSUME EventsTell, UNCHANGED events, \A q \in Refs : working'[q] = Absent <=> working[q] = Absent
  PROVE  EventsTell'
BY DEF EventsTell, EventsOf

\* An appended event is the last of its object.
LEMMA QueueEvents ==
  ASSUME TypeOK, NEW r \in Refs \cup {Packet}, NEW e \in EventTypes, Queue(e, r)
  PROVE  \A q \in Refs : EventsOf(q)' = IF q = r THEN EventsOf(q) \cup {Len(events) + 1} ELSE EventsOf(q)
<1>1. /\ Len(events) \in Nat /\ DOMAIN events = 1..Len(events)
      /\ DOMAIN events' = 1..(Len(events) + 1)
      /\ \A i \in 1..Len(events) : events'[i] = events[i]
      /\ events'[Len(events) + 1].ref = r
  BY QueueShape
<1> QED BY <1>1 DEF EventsOf

LEMMA QueueFills ==
  ASSUME TypeOK, NEW r \in Refs \cup {Packet}, NEW e \in EventTypes, Queue(e, r), NEW q \in Refs,
         EventsOf(q)' = {}
  PROVE  q # r /\ EventsOf(q) = {}
<1>1. EventsOf(q)' = IF q = r THEN EventsOf(q) \cup {Len(events) + 1} ELSE EventsOf(q)
  BY QueueEvents
<1> HIDE DEF EventsOf
<1> QED BY <1>1

LEMMA QueueTells ==
  ASSUME TypeOK, EventsTell, NEW r \in Refs \cup {Packet}, NEW e \in EventTypes, Queue(e, r),
         \A q \in Refs : q # r => (working'[q] = Absent <=> working[q] = Absent),
         r \in Refs => (e = "Deleted" <=> working'[r] = Absent)
  PROVE  EventsTell'
<1> DEFINE N == Len(events)
<1>1. /\ N \in Nat /\ DOMAIN events = 1..N
      /\ \A i \in 1..N : events'[i] = events[i]
      /\ events'[N + 1].type = e
  BY QueueShape
<1>2. \A q \in Refs : EventsOf(q)' = IF q = r THEN EventsOf(q) \cup {N + 1} ELSE EventsOf(q)
  BY QueueEvents
<1>3. \A q \in Refs : \A i \in EventsOf(q) : i \in 1..N
  BY <1>1 DEF EventsOf
<1> HIDE DEF N
<1>4. ASSUME NEW q \in Refs, NEW i \in EventsOf(q)', \A j \in EventsOf(q)' : j <= i
      PROVE  events'[i].type = "Deleted" <=> working'[q] = Absent
  <2>1. CASE q = r
    <3>1. N + 1 <= i
      BY <1>2, <1>4, <2>1
    <3>2. i = N + 1
      BY <1>1, <1>2, <1>3, <1>4, <2>1, <3>1
    <3> QED BY <1>1, <2>1, <3>2
  <2>2. CASE q # r
    <3>1. i \in EventsOf(q) /\ (\A j \in EventsOf(q) : j <= i) /\ events'[i] = events[i]
      BY <1>1, <1>2, <1>3, <1>4, <2>2
    <3> QED BY <2>2, <3>1 DEF EventsTell
  <2> QED BY <2>1, <2>2
<1> QED BY <1>4 DEF EventsTell

\* What is left to show of a step that tells the GUI nothing.
LEMMA Keeps ==
  ASSUME ReaderInv, UNCHANGED mirror, EventsTell', ClearedEmpty',
         gpc' # "cleared" => gpc # "cleared",
         \A q \in Refs : EventsOf(q)' = {} => EventsOf(q) = {} /\ Content(q)' = Content(q),
         \A q \in Refs : Settled(q)' /\ working'[q] = Absent => NewestLacks(q)'
  PROVE  ReaderInv'
<1>1. MirrorTold'
  BY DEF ReaderInv, MirrorTold
<1>2. GoneFromNewest'
  BY DEF GoneFromNewest
<1> QED BY <1>1, <1>2 DEF ReaderInv

\* The same outside a commit, when no version is touched.
LEMMA KeepsVersions ==
  ASSUME ReaderInv, TypeOK, UNCHANGED <<mirror, snap>>, EventsTell', ClearedEmpty', TypeOK',
         gpc' # "cleared" => gpc # "cleared", ppc' \in {"idle", "collect"},
         \A q \in Refs : EventsOf(q)' = {} => EventsOf(q) = {} /\ Content(q)' = Content(q)
  PROVE  ReaderInv'
<1>1. ASSUME NEW q \in Refs, Settled(q)', working'[q] = Absent PROVE NewestLacks(q)'
  <2>1. EventsOf(q)' = {}
    BY <1>1 DEF Settled, Delivering
  <2>2. Content(q)' = Absent
    BY <1>1 DEF Content
  <2>3. Settled(q) /\ working[q] = Absent
    BY <2>1, <2>2, ContentIs DEF Settled
  <2>4. NewestLacks(q)
    BY <2>3 DEF ReaderInv, GoneFromNewest
  <2> QED BY <2>4 DEF NewestLacks, LastVersion
<1> QED BY <1>1, Keeps

-----------------------------------------------------------------------------
(* The collector and the GUI.                                                  *)

LEMMA BeginPacketReaders ==
  ASSUME SerialInv, ReaderInv, TypeOK', BeginPacket
  PROVE  ReaderInv'
<1>1. /\ Queue("Created", Packet) /\ UNCHANGED <<working, snap, mirror, gpc>>
      /\ ppc' = "collect" /\ TypeOK
  BY DEF BeginPacket, guiVars, SerialInv
<1>2. EventsTell'
  BY <1>1, QueueTells DEF ReaderInv, EventTypes
<1>3. \A q \in Refs : EventsOf(q)' = EventsOf(q) /\ Content(q)' = Content(q)
  BY <1>1, QueueEvents DEF EventTypes, Content
<1>4. ClearedEmpty'
  BY <1>1 DEF ReaderInv, ClearedEmpty
<1> QED BY <1>1, <1>2, <1>3, <1>4, KeepsVersions

LEMMA GetObjectReaders ==
  ASSUME SerialInv, ReaderInv, TypeOK', NEW r \in Refs, GetObject(r)
  PROVE  ReaderInv'
<1>1. /\ Queue("Created", r) /\ UNCHANGED <<snap, mirror, gpc, ppc>>
      /\ ppc = "collect" /\ TypeOK
      /\ working' = [working EXCEPT ![r] = [val |-> Clean, count |-> 0, changed |-> TRUE]]
  BY DEF GetObject, guiVars, parserVars, SerialInv
<1>2. [val |-> Clean, count |-> 0, changed |-> TRUE] \in Obj
  BY DEF Obj
<1>3. working'[r] # Absent /\ \A q \in Refs : q # r => working'[q] = working[q]
  BY <1>1, <1>2 DEF TypeOK
<1>4. EventsTell'
  BY <1>1, <1>3, QueueTells DEF ReaderInv, EventTypes
<1>5. \A q \in Refs : EventsOf(q)' = {} => EventsOf(q) = {} /\ Content(q)' = Content(q)
  BY <1>1, <1>3, QueueFills DEF EventTypes, Content
<1>6. gpc # "cleared"
  BY <1>1 DEF SerialInv, GuiSerial
<1> QED BY <1>1, <1>4, <1>5, <1>6, KeepsVersions DEF ClearedEmpty

\* X_set_changed: an event is on its way, before or now.
LEMMA SetChangedReaders ==
  ASSUME SerialInv, ReaderInv, TypeOK', NEW r \in Refs, working[r] # Absent, NEW v \in Vals,
         SetChanged(r, v), UNCHANGED <<snap, mirror, ppc>>, ppc \in {"idle", "collect"},
         gpc # "cleared", gpc' # "cleared"
  PROVE  ReaderInv'
<1>1. TypeOK /\ ChangedIffQueued
  BY DEF SerialInv
<1>2. /\ \A q \in Refs : q # r => working'[q] = working[q]
      /\ \A q \in Refs : working'[q] = Absent <=> working[q] = Absent
  BY <1>1, SetChangedShape
<1>3. ClearedEmpty'
  BY DEF ClearedEmpty
<1>4. CASE working[r].changed
  <2>1. UNCHANGED events
    BY <1>4 DEF SetChanged
  <2>2. EventsTell'
    BY <1>2, <2>1, SameTells DEF ReaderInv
  <2>3. QueuedChange(r)
    BY <1>1, <1>4 DEF ChangedIffQueued
  <2>4. EventsOf(r) # {}
    BY <2>3 DEF QueuedChange, EventsOf
  <2>5. \A q \in Refs : EventsOf(q)' = {} => EventsOf(q) = {} /\ Content(q)' = Content(q)
    BY <1>2, <2>1, <2>4, SameEvents DEF Content
  <2> QED BY <1>1, <1>3, <2>2, <2>5, KeepsVersions
<1>5. CASE ~working[r].changed
  <2>1. Queue("Updated", r)
    BY <1>5 DEF SetChanged
  <2>2. EventsTell'
    BY <1>1, <1>2, <2>1, QueueTells DEF ReaderInv, EventTypes
  <2>3. \A q \in Refs : EventsOf(q)' = {} => EventsOf(q) = {} /\ Content(q)' = Content(q)
    BY <1>1, <1>2, <2>1, QueueFills DEF EventTypes, Content
  <2> QED BY <1>1, <1>3, <2>2, <2>3, KeepsVersions
<1> QED BY <1>4, <1>5

LEMMA ChangeReaders ==
  ASSUME SerialInv, ReaderInv, TypeOK', NEW r \in Refs, NEW v \in Vals, Change(r, v)
  PROVE  ReaderInv'
<1>1. /\ SetChanged(r, v) /\ UNCHANGED <<snap, mirror, gpc, ppc>> /\ ppc = "collect"
      /\ working[r] # Absent
  BY DEF Change, guiVars, parserVars
<1>2. gpc # "cleared"
  BY <1>1 DEF SerialInv, GuiSerial
<1> QED BY <1>1, <1>2, SetChangedReaders

LEMMA ClearNodeErrorsReaders ==
  ASSUME SerialInv, ReaderInv, TypeOK', NEW r \in Refs, ClearNodeErrors(r)
  PROVE  ReaderInv'
<1>1. /\ SetChanged(r, Clean) /\ UNCHANGED <<snap, mirror, ppc>> /\ gpc = "errors"
      /\ r \in todo /\ gpc' \in {"idle", "errors"}
  BY DEF ClearNodeErrors, parserVars
<1>2. ppc = "idle" /\ working[r] # Absent
  BY <1>1 DEF SerialInv, GuiSerial, TodoLive, Live
<1> QED BY <1>1, <1>2, SetChangedReaders

\* rpldata_del_link and a step of links_clear_all_deprecated.
LEMMA DeletedReaders ==
  ASSUME SerialInv, ReaderInv, TypeOK', NEW r \in Refs, Queue("Deleted", r),
         working' = [working EXCEPT ![r] = Absent], UNCHANGED <<snap, mirror, ppc>>,
         ppc \in {"idle", "collect"}, gpc # "cleared", gpc' # "cleared"
  PROVE  ReaderInv'
<1>1. TypeOK
  BY DEF SerialInv
<1>2. working'[r] = Absent /\ \A q \in Refs : q # r => working'[q] = working[q]
  BY <1>1 DEF TypeOK
<1>3. EventsTell'
  BY <1>1, <1>2, QueueTells DEF ReaderInv, EventTypes
<1>4. \A q \in Refs : EventsOf(q)' = {} => EventsOf(q) = {} /\ Content(q)' = Content(q)
  BY <1>1, <1>2, QueueFills DEF EventTypes, Content
<1>5. ClearedEmpty'
  BY DEF ClearedEmpty
<1> QED BY <1>1, <1>3, <1>4, <1>5, KeepsVersions

LEMMA DelLinkReaders ==
  ASSUME SerialInv, ReaderInv, TypeOK', NEW r \in Refs, DelLink(r) \/ ClearDeprecated(r), ~GuiInterleaves
  PROVE  ReaderInv'
<1>1. /\ Queue("Deleted", r) /\ working' = [working EXCEPT ![r] = Absent]
      /\ UNCHANGED <<snap, mirror, ppc>>
  BY DEF DelLink, ClearDeprecated, parserVars
<1>2. /\ ppc \in {"idle", "collect"} /\ gpc # "cleared" /\ gpc' # "cleared"
  BY DEF DelLink, ClearDeprecated, guiVars, SerialInv, GuiSerial, GuiMayRun
<1> QED BY <1>1, <1>2, DeletedReaders

\* X_update_old_field patches counters alone.
LEMMA CountReaders ==
  ASSUME SerialInv, ReaderInv, TypeOK', NEW r \in Refs, Count(r)
  PROVE  ReaderInv'
<1>1. /\ TypeOK /\ ppc = "collect" /\ UNCHANGED <<events, mirror, gpc, ppc>>
      /\ snap' = Patched(r, working[r].count + 1) /\ working[r].count + 1 \in Nat
  BY CountShape DEF Count, SerialInv, guiVars, parserVars
<1>2. /\ working'[r] # Absent /\ working'[r].val = working[r].val
      /\ \A q \in Refs : q # r => working'[q] = working[q]
      /\ \A q \in Refs : working'[q] = Absent <=> working[q] = Absent
  BY <1>1, CountShape
<1>3. EventsTell'
  BY <1>1, <1>2, SameTells DEF ReaderInv
<1>4. \A q \in Refs : EventsOf(q)' = EventsOf(q) /\ Content(q)' = Content(q)
  BY <1>1, <1>2, SameEvents DEF Content
<1>5. gpc # "cleared" /\ ClearedEmpty'
  BY <1>1 DEF SerialInv, GuiSerial, ClearedEmpty
<1>6. ASSUME NEW q \in Refs, Settled(q)', working'[q] = Absent PROVE NewestLacks(q)'
  <2> DEFINE t == TypeOf[q]
  <2>1. Settled(q) /\ working[q] = Absent
    BY <1>1, <1>2, <1>4, <1>6 DEF Settled, Delivering
  <2>2. NewestLacks(q)
    BY <2>1 DEF ReaderInv, GoneFromNewest
  <2>3. t \in Types /\ LastVersion(t) \in Nat
    BY <1>1 DEF TypeOK, LastVersion
  <2>4. /\ LastVersion(t)' = LastVersion(t)
        /\ \A j \in 1..LastVersion(t) : snap'[t][j][q] = Absent <=> snap[t][j][q] = Absent
    <3> DEFINE c == working[r].count + 1
    <3>1. /\ Len(Patched(r, c)[t]) = Len(snap[t])
          /\ \A j \in 1..Len(snap[t]) : Patched(r, c)[t][j][q] = Absent <=> snap[t][j][q] = Absent
      BY <1>1, <2>3, PatchedShape
    <3> QED BY <1>1, <3>1 DEF LastVersion
  <2> QED BY <2>2, <2>3, <2>4 DEF NewestLacks
<1> QED BY <1>1, <1>3, <1>4, <1>5, <1>6, Keeps

\* GUI steps that change no object and no event.
LEMMA IdleReaders ==
  ASSUME SerialInv, ReaderInv, TypeOK', UNCHANGED <<working, snap, events, mirror, ppc>>,
         ppc = "idle", gpc' # "cleared", gpc # "cleared"
  PROVE  ReaderInv'
<1>1. EventsTell' /\ TypeOK
  BY SameTells DEF ReaderInv, SerialInv
<1>2. \A q \in Refs : EventsOf(q)' = EventsOf(q) /\ Content(q)' = Content(q)
  BY SameEvents DEF Content
<1>3. ClearedEmpty'
  BY DEF ClearedEmpty
<1> QED BY <1>1, <1>2, <1>3, KeepsVersions

\* rpldata_clear empties the store, then tells the GUI.
LEMMA ClearStoreReaders ==
  ASSUME SerialInv, ReaderInv, ClearStore
  PROVE  ReaderInv'
<1>1. /\ events = <<>> /\ events' = <<>> /\ gpc' = "cleared"
      /\ \A r \in Refs : working'[r] = Absent
      /\ \A t \in Types : snap'[t] = <<>>
  BY DEF ClearStore, SerialInv, GuiSerial, NoObjects
<1>2. EventsTell'
  BY <1>1 DEF EventsTell, EventsOf
<1>3. GoneFromNewest'
  BY <1>1 DEF GoneFromNewest, NewestLacks, LastVersion
<1> QED BY <1>1, <1>2, <1>3 DEF ReaderInv, MirrorTold, ClearedEmpty

LEMMA ClearNotifyReaders ==
  ASSUME SerialInv, ReaderInv, TypeOK', ClearNotify
  PROVE  ReaderInv'
<1>1. /\ UNCHANGED <<working, snap, events, ppc>> /\ gpc = "cleared" /\ gpc' = "notified"
      /\ mirror' = NoObjects /\ ppc = "idle"
  BY DEF ClearNotify, storeVars, parserVars, SerialInv, GuiSerial
<1>2. \A r \in Refs : working'[r] = Absent /\ mirror'[r] = Absent
  BY <1>1 DEF ReaderInv, ClearedEmpty, NoObjects
<1>3. MirrorTold'
  BY <1>2 DEF MirrorTold, Content
<1>4. EventsTell'
  BY <1>1, SameTells DEF ReaderInv
<1>5. GoneFromNewest'
  BY <1>1, SameEvents DEF ReaderInv, GoneFromNewest, Settled, Delivering, NewestLacks, LastVersion
<1> QED BY <1>1, <1>3, <1>4, <1>5 DEF ReaderInv, ClearedEmpty
-----------------------------------------------------------------------------
(* The commit.                                                                 *)

LEMMA BeginCommitReaders ==
  ASSUME SerialInv, ReaderInv, BeginCommit
  PROVE  ReaderInv'
<1>1. /\ UNCHANGED <<working, snap, events, mirror, gpc>>
      /\ ppc' = "scan" /\ versioned' = {} /\ TypeOK
  BY DEF BeginCommit, storeVars, guiVars, SerialInv
<1>2. EventsTell' /\ ClearedEmpty'
  BY <1>1, SameTells DEF ReaderInv, ClearedEmpty
<1>3. \A q \in Refs : EventsOf(q)' = EventsOf(q) /\ Content(q)' = Content(q)
  BY <1>1, SameEvents DEF Content
<1>4. ASSUME NEW q \in Refs, Settled(q)', working'[q] = Absent PROVE NewestLacks(q)'
  <2>1. Settled(q) /\ working[q] = Absent
    BY <1>1, <1>3, <1>4 DEF Settled, Delivering
  <2>2. NewestLacks(q)
    BY <2>1 DEF ReaderInv, GoneFromNewest
  <2> QED BY <1>1, <2>2 DEF NewestLacks, LastVersion
<1> QED BY <1>1, <1>2, <1>3, <1>4, Keeps

\* A new version holds the objects of the working set alone.
LEMMA AddVersionReaders ==
  ASSUME SerialInv, ReaderInv, NEW t \in Types, AddVersion(t), ppc = "scan",
         UNCHANGED <<events, mirror, gpc, ppc>>
  PROVE  ReaderInv'
<1>1. TypeOK /\ ~LacksPrevious(t)
  BY HasPrevious DEF SerialInv
<1>2. NewVersion(t) \in Snapshot /\ snap' = [snap EXCEPT ![t] = Append(@, NewVersion(t))]
      /\ versioned' = versioned \cup {t}
  BY <1>1, NewVersionType DEF AddVersion
<1>3. /\ LastVersion(t)' = LastVersion(t) + 1 /\ snap'[t][LastVersion(t) + 1] = NewVersion(t)
      /\ \A s \in Types : s # t => snap'[s] = snap[s] /\ LastVersion(s)' = LastVersion(s)
  BY <1>1, <1>2, AppendedVersion
<1>4. /\ \A q \in Refs : working'[q] = Absent <=> working[q] = Absent
      /\ \A q \in Refs : working[q] # Absent => working'[q].val = working[q].val
  BY <1>1, AddVersionShape DEF Live
<1>5. EventsTell'
  BY <1>4, SameTells DEF ReaderInv
<1>6. \A q \in Refs : EventsOf(q)' = EventsOf(q) /\ Content(q)' = Content(q)
  BY <1>4, SameEvents DEF Content
<1>7. ClearedEmpty'
  BY <1>4 DEF ReaderInv, ClearedEmpty
<1>8. ASSUME NEW q \in Refs, Settled(q)', working'[q] = Absent PROVE NewestLacks(q)'
  <2>1. CASE TypeOf[q] = t
    <3>1. NewVersion(t)[q] = Absent
      BY <1>4, <1>8 DEF NewVersion, Live
    <3> QED BY <1>3, <2>1, <3>1 DEF NewestLacks
  <2>2. CASE TypeOf[q] # t
    <3>1. Settled(q) /\ working[q] = Absent
      BY <1>2, <1>4, <1>6, <1>8, <2>2 DEF Settled, Delivering
    <3>2. NewestLacks(q)
      BY <3>1 DEF ReaderInv, GoneFromNewest
    <3> QED BY <1>3, <2>2, <3>2 DEF NewestLacks
  <2> QED BY <2>1, <2>2
<1> QED BY <1>5, <1>6, <1>7, <1>8, Keeps

LEMMA ScanEventReaders ==
  ASSUME SerialInv, ReaderInv, ScanEvent
  PROVE  ReaderInv'
<1> DEFINE r == events[cursor].ref
<1>1. /\ ppc = "scan" /\ UNCHANGED <<events, mirror, gpc>> /\ TypeOK
  BY DEF ScanEvent, guiVars, SerialInv
<1>2. events[cursor] \in Event
  BY <1>1 DEF ScanEvent, TypeOK
<1>3. CASE r = Packet \/ TypeOf[r] \in versioned
  <2>1. UNCHANGED <<working, snap, ppc, versioned>>
    BY <1>3 DEF ScanEvent
  <2>2. EventsTell' /\ ClearedEmpty'
    BY <1>1, <2>1, SameTells DEF ReaderInv, ClearedEmpty
  <2>3. \A q \in Refs : EventsOf(q)' = EventsOf(q) /\ Content(q)' = Content(q)
    BY <1>1, <2>1, SameEvents DEF Content
  <2>4. ASSUME NEW q \in Refs, Settled(q)', working'[q] = Absent PROVE NewestLacks(q)'
    <3>1. NewestLacks(q)
      BY <2>1, <2>3, <2>4 DEF Settled, Delivering, ReaderInv, GoneFromNewest
    <3> QED BY <2>1, <3>1 DEF NewestLacks, LastVersion
  <2> QED BY <1>1, <2>2, <2>3, <2>4, Keeps
<1>4. CASE ~(r = Packet \/ TypeOf[r] \in versioned)
  <2>1. r \in Refs /\ TypeOf[r] \in Types
    BY <1>2, <1>4 DEF Event
  <2>2. ~LacksPrevious(TypeOf[r])
    BY <2>1, HasPrevious
  <2>3. AddVersion(TypeOf[r]) /\ UNCHANGED ppc
    BY <1>4, <2>2 DEF ScanEvent
  <2> QED BY <1>1, <2>1, <2>3, AddVersionReaders
<1> QED BY <1>3, <1>4

\* At the end of the walk every object with an event is of a type with a new version.
LEMMA ScanSettles ==
  ASSUME SerialInv, ppc = "scan", cursor > Len(events), NEW q \in Refs
  PROVE  Settled(q)
<1>1. \A i \in DOMAIN events : events[i].ref = Packet \/ TypeOf[events[i].ref] \in versioned
  BY ScanClears
<1> QED BY <1>1 DEF Settled, EventsOf

LEMMA EndScanReaders ==
  ASSUME SerialInv, ReaderInv, EndScan
  PROVE  ReaderInv'
<1>1. /\ UNCHANGED <<working, snap, events, mirror, gpc>> /\ ppc = "scan" /\ cursor > Len(events)
  BY DEF EndScan, guiVars
<1>2. EventsTell' /\ ClearedEmpty'
  BY <1>1, SameTells DEF ReaderInv, ClearedEmpty
<1>3. \A q \in Refs : EventsOf(q)' = EventsOf(q) /\ Content(q)' = Content(q)
  BY <1>1, SameEvents DEF Content
<1>4. ASSUME NEW q \in Refs, working'[q] = Absent PROVE NewestLacks(q)'
  <2>1. NewestLacks(q)
    BY <1>1, <1>4, ScanSettles DEF ReaderInv, GoneFromNewest
  <2> QED BY <1>1, <2>1 DEF NewestLacks, LastVersion
<1> QED BY <1>1, <1>2, <1>3, <1>4, Keeps

\* The callback of an event that waits finds the object it names.
LEMMA EventFound ==
  ASSUME SerialInv, Delivering, events # <<>>, Head(events).ref # Packet
  PROVE  ~(EventVersion(Head(events)) < 0 \/ Lookup(EventVersion(Head(events)), Head(events).ref) = Absent)
<1>1. TypeOK /\ DeletedFound /\ ProcessState
  BY DEF SerialInv
<1>2. Head(events) = events[1] /\ 1 \in DOMAIN events /\ WsnLast \in Nat
  BY <1>1 DEF TypeOK, WsnLast
<1>3. CASE Head(events).type = "Deleted"
  BY <1>1, <1>2, <1>3 DEF DeletedFound, EventVersion
<1>4. CASE Head(events).type # "Deleted"
  BY <1>1, <1>2, <1>4 DEF ProcessState, EventVersion
<1> QED BY <1>3, <1>4

LEMMA PopEvents ==
  ASSUME TypeOK, events # <<>>, events' = Tail(events)
  PROVE  /\ \A q \in Refs : \A i \in EventsOf(q)' : i \in Nat /\ i + 1 \in EventsOf(q)
                                                   /\ events'[i] = events[i + 1]
         /\ \A q \in Refs : \A j \in EventsOf(q) : j \in Nat /\ (j # 1 => j - 1 \in EventsOf(q)')
<1>1. /\ Len(events) \in Nat /\ DOMAIN events = 1..Len(events)
      /\ DOMAIN events' = 1..(Len(events) - 1)
      /\ \A i \in 1..(Len(events) - 1) : events'[i] = events[i + 1]
  BY DEF TypeOK
<1>2. ASSUME NEW q \in Refs, NEW i \in EventsOf(q)'
      PROVE  i \in Nat /\ i + 1 \in EventsOf(q) /\ events'[i] = events[i + 1]
  BY <1>1, <1>2 DEF EventsOf
<1>3. ASSUME NEW q \in Refs, NEW j \in EventsOf(q), j # 1
      PROVE  j - 1 \in EventsOf(q)'
  <2>1. j \in 1..Len(events) /\ events[j].ref = q /\ j - 1 \in 1..(Len(events) - 1)
    BY <1>1, <1>3 DEF EventsOf
  <2>2. events'[j - 1] = events[(j - 1) + 1] /\ (j - 1) + 1 = j
    BY <1>1, <2>1
  <2> QED BY <1>1, <2>1, <2>2 DEF EventsOf
<1>4. \A q \in Refs : \A j \in EventsOf(q) : j \in Nat
  BY <1>1 DEF EventsOf
<1> HIDE DEF EventsOf
<1> QED BY <1>2, <1>3, <1>4

\* An object that is there is shown to the callback as it is in the working set.
LEMMA NewestIsCurrent ==
  ASSUME SerialInv, Delivering, NEW r \in Live
  PROVE  WsnLast >= 1 /\ Lookup(WsnLast, r) # Absent /\ Lookup(WsnLast, r).val = working[r].val
<1> DEFINE t == TypeOf[r]
<1>1. r \in Refs /\ t \in Types /\ ~working[r].changed /\ WsnLast \in Nat
  BY DEF Live, SerialInv, ProcessState, TypeOK, WsnLast
<1>2. WsnLast >= 1 /\ Lookup(WsnLast, r) # Absent
  BY <1>1, PublishedFound DEF Delivering
<1>3. /\ snap[t][LastVersion(t)][r].val = working[r].val
      /\ LastVersion(t) = wsn_versions[WsnLast][t] /\ LastVersion(t) > 0
  BY <1>1, <1>2 DEF SerialInv, UnchangedIsPublished, VersionsCurrent, Delivering
<1> QED BY <1>1, <1>2, <1>3 DEF Lookup

LEMMA ProcessEventReaders ==
  ASSUME SerialInv, ReaderInv, ProcessEvent
  PROVE  ReaderInv'
<1> DEFINE e == Head(events)
<1>1. /\ UNCHANGED <<working, snap, gpc>> /\ Delivering /\ events # <<>> /\ TypeOK
      /\ cursor = 1 /\ e = events[cursor]
  BY DEF ProcessEvent, guiVars, SerialInv, ProcessState, AtHead, TypeOK
<1>2. e = events[1] /\ 1 \in DOMAIN events /\ e \in Event
  BY <1>1 DEF TypeOK
<1>3. events' = Tail(events) /\ UNCHANGED ppc
  <2>1. Consumed /\ UNCHANGED ppc
    BY <1>1, EventFound DEF ProcessEvent
  <2> QED BY <1>1, <2>1, ConsumedHead
<1>4. /\ \A q \in Refs : \A i \in EventsOf(q)' : i \in Nat /\ i + 1 \in EventsOf(q)
                                                /\ events'[i] = events[i + 1]
      /\ \A q \in Refs : \A j \in EventsOf(q) : j \in Nat /\ (j # 1 => j - 1 \in EventsOf(q)')
  BY <1>1, <1>3, PopEvents
<1>5. EventsTell'
  <2> SUFFICES ASSUME NEW q \in Refs, NEW i \in EventsOf(q)', \A j \in EventsOf(q)' : j <= i
               PROVE  events'[i].type = "Deleted" <=> working[q] = Absent
    BY <1>1 DEF EventsTell
  <2>1. i \in Nat /\ i + 1 \in EventsOf(q) /\ events'[i] = events[i + 1]
    BY <1>4
  <2>2. ASSUME NEW j \in EventsOf(q) PROVE j <= i + 1
    BY <1>4, <2>1
  <2> QED BY <2>1, <2>2 DEF ReaderInv, EventsTell
<1>6. MirrorTold'
  <2> SUFFICES ASSUME gpc # "cleared", NEW q \in Refs, EventsOf(q)' = {}
               PROVE  mirror'[q] = Content(q)
    BY <1>1 DEF MirrorTold, Content
  <2>1. \A j \in EventsOf(q) : j = 1
    BY <1>4
  <2>2. CASE q # e.ref
    <3>1. EventsOf(q) = {}
      BY <1>2, <2>1, <2>2 DEF EventsOf
    <3>2. mirror'[q] = mirror[q]
      BY <1>1, <2>2 DEF ProcessEvent, TypeOK
    <3> QED BY <3>1, <3>2 DEF ReaderInv, MirrorTold
  <2>3. CASE q = e.ref
    <3>1. 1 \in EventsOf(q) /\ \A j \in EventsOf(q) : j <= 1
      BY <1>2, <2>1, <2>3 DEF EventsOf
    <3>2. e.type = "Deleted" <=> working[q] = Absent
      BY <1>2, <3>1 DEF ReaderInv, EventsTell
    <3>3. e.ref # Packet /\ mirror'[q] = IF e.type = "Deleted" THEN Absent
                                         ELSE Lookup(EventVersion(e), q).val
      BY <1>1, <2>3, EventFound DEF ProcessEvent, TypeOK
    <3>4. CASE working[q] = Absent
      BY <3>2, <3>3, <3>4 DEF Content
    <3>5. CASE working[q] # Absent
      <4>1. EventVersion(e) = WsnLast
        BY <3>2, <3>5 DEF EventVersion
      <4>2. Lookup(WsnLast, q).val = working[q].val
        BY <1>1, <3>5, NewestIsCurrent DEF Live
      <4> QED BY <3>2, <3>3, <3>5, <4>1, <4>2 DEF Content
    <3> QED BY <3>4, <3>5
  <2> QED BY <2>2, <2>3
<1>7. GoneFromNewest'
  BY <1>1, <1>3 DEF ReaderInv, GoneFromNewest, Settled, Delivering, NewestLacks, LastVersion
<1>8. ClearedEmpty'
  BY <1>1 DEF ReaderInv, ClearedEmpty
<1> QED BY <1>5, <1>6, <1>7, <1>8 DEF ReaderInv

LEMMA EndPassReaders ==
  ASSUME SerialInv, ReaderInv, EndCreate \/ EndPacket
  PROVE  ReaderInv'
<1>1. /\ UNCHANGED <<working, snap, events, mirror, gpc>> /\ Delivering
  BY DEF EndCreate, EndPacket, Delivering, storeVars, guiVars
<1>2. EventsTell' /\ ClearedEmpty'
  BY <1>1, SameTells DEF ReaderInv, ClearedEmpty
<1>3. \A q \in Refs : EventsOf(q)' = EventsOf(q) /\ Content(q)' = Content(q)
  BY <1>1, SameEvents DEF Content
<1>4. ASSUME NEW q \in Refs, working'[q] = Absent PROVE NewestLacks(q)'
  <2>1. NewestLacks(q)
    BY <1>1, <1>4 DEF ReaderInv, GoneFromNewest, Settled
  <2> QED BY <1>1, <2>1 DEF NewestLacks, LastVersion
<1> QED BY <1>1, <1>2, <1>3, <1>4, Keeps
-----------------------------------------------------------------------------
(* Every step.                                                                 *)

LEMMA ReadersStep ==
  ASSUME SerialInv, ReaderInv, CleanClear, ~GuiInterleaves, [Next]_vars
  PROVE  ReaderInv'
<1>1. TypeOK'
  BY SerialStep DEF SerialInv
<1>2. CASE BeginClearErrors
  <2>1. UNCHANGED <<working, snap, events, mirror, ppc>> /\ ppc = "idle" /\ gpc = "idle" /\ gpc' = "errors"
    BY <1>2 DEF BeginClearErrors, GuiMayRun, storeVars, parserVars
  <2> QED BY <1>1, <2>1, IdleReaders
<1>3. ASSUME EndPurge \/ ClearPause \/ ClearResume PROVE ReaderInv'
  <2>1. UNCHANGED <<working, snap, events, mirror, ppc>> /\ gpc # "cleared" /\ gpc' # "cleared"
    BY <1>3 DEF EndPurge, ClearPause, ClearResume, storeVars, parserVars
  <2>2. ppc = "idle"
    BY <1>3 DEF EndPurge, ClearPause, ClearResume, SerialInv, GuiSerial
  <2> QED BY <1>1, <2>1, <2>2, IdleReaders
<1>4. CASE UNCHANGED vars
  BY <1>4 DEF vars, storeVars, parserVars, guiVars, ReaderInv, EventsTell, EventsOf, MirrorTold, Content,
              ClearedEmpty, GoneFromNewest, Settled, Delivering, NewestLacks, LastVersion
<1> QED
  BY <1>1, <1>2, <1>3, <1>4, BeginPacketReaders, GetObjectReaders, ChangeReaders, CountReaders,
     DelLinkReaders, BeginCommitReaders, ScanEventReaders, EndScanReaders, ProcessEventReaders,
     EndPassReaders, NoneUnlinked, ClearNodeErrorsReaders, ClearStoreReaders, ClearNotifyReaders
  DEF Next, Collect, Commit, GuiEdit, ClearRun

LEMMA ReadersInit == Init => ReaderInv
BY DEF Init, ReaderInv, EventsTell, EventsOf, MirrorTold, Content, ClearedEmpty, GoneFromNewest,
       Settled, Delivering, NewestLacks, LastVersion, NoObjects

\* The strengthening is an invariant of the serial system.
THEOREM ReadersCorrect ==
  ASSUME CleanClear, ~GuiInterleaves
  PROVE  Spec => []ReaderInv
<1>1. SerialInv /\ ReaderInv /\ [Next]_vars => ReaderInv'
  BY ReadersStep
<1> QED BY <1>1, ReadersInit, SerialCorrect, PTL DEF Spec

\* With no event waiting, onNodeEvent, onDodagEvent, onRplInstanceEvent and onLinkEvent
\* have told the GUI exactly the working set, for any number of objects.
THEOREM MirrorAgreesSerial ==
  ASSUME CleanClear, ~GuiInterleaves
  PROVE  Spec => []MirrorAgrees
<1>1. ASSUME SerialInv, ReaderInv PROVE MirrorAgrees
  <2> SUFFICES ASSUME events = <<>>, gpc # "cleared"
               PROVE  mirror = [r \in Refs |-> IF working[r] = Absent THEN Absent ELSE working[r].val]
    BY DEF MirrorAgrees
  <2>1. \A r \in Refs : EventsOf(r) = {}
    BY DEF EventsOf
  <2>2. \A r \in Refs : mirror[r] = Content(r)
    BY <1>1, <2>1 DEF ReaderInv, MirrorTold
  <2>3. mirror \in [Refs -> Vals \cup {Absent}]
    BY <1>1 DEF SerialInv, TypeOK
  <2> QED BY <2>2, <2>3 DEF Content
<1> QED BY <1>1, SerialCorrect, ReadersCorrect, PTL
-----------------------------------------------------------------------------
(* The history of pictures.                                                    *)

Current == [r \in Refs |-> Content(r)]
Picture(v) == [r \in Refs |-> Shown(v, r)]
History == [v \in 1..WsnLast |-> Picture(v)]

LEMMA CurrentIsPicture == ASSUME TypeOK PROVE Current \in Snapshots!Picture
BY ContentIs DEF Current, Snapshots!Picture

\* A WSN version shows contents.
LEMMA ShownType ==
  ASSUME TypeOK, VersionsExist, NEW v \in 1..WsnLast, NEW r \in Refs
  PROVE  Shown(v, r) \in Vals \cup {Absent}
<1> DEFINE t == TypeOf[r]
<1> DEFINE i == wsn_versions[v][t]
<1>1. t \in Types /\ i \in Nat /\ i <= LastVersion(t)
  BY DEF TypeOK, VersionsExist, WsnLast
<1>2. CASE i = 0
  BY <1>2 DEF Shown
<1>3. CASE i # 0
  <2>1. i \in 1..Len(snap[t]) /\ snap[t] \in Seq(Snapshot)
    BY <1>1, <1>3 DEF TypeOK, LastVersion
  <2>2. snap[t][i] \in Snapshot
    BY <2>1
  <2>3. snap[t][i][r] \in Pub \cup {Absent}
    BY <2>2 DEF Snapshot
  <2> QED BY <1>3, <2>3 DEF Shown, Pub
<1> QED BY <1>2, <1>3

LEMMA HistoryType ==
  ASSUME TypeOK, VersionsExist
  PROVE  History \in Seq(Snapshots!Picture) /\ Len(History) = WsnLast
<1>1. WsnLast \in Nat
  BY DEF TypeOK, WsnLast
<1>2. \A v \in 1..WsnLast : Picture(v) \in Snapshots!Picture
  BY ShownType DEF Picture, Snapshots!Picture
<1> HIDE DEF Picture
<1> QED BY <1>1, <1>2 DEF History

\* What a step must leave alone for the pictures that are there to stay.
VersionsStay ==
  \A t \in Types : \A j \in 1..Len(snap[t]) : \A q \in Refs :
    /\ snap'[t][j][q] = Absent <=> snap[t][j][q] = Absent
    /\ snap[t][j][q] # Absent => snap'[t][j][q].val = snap[t][j][q].val

LEMMA ShownStays ==
  ASSUME TypeOK, VersionsExist, VersionsStay, NEW v \in 1..WsnLast, wsn_versions'[v] = wsn_versions[v],
         NEW r \in Refs
  PROVE  Shown(v, r)' = Shown(v, r)
<1> DEFINE t == TypeOf[r]
<1> DEFINE i == wsn_versions[v][t]
<1>1. t \in Types /\ i \in Nat /\ i <= LastVersion(t)
  BY DEF TypeOK, VersionsExist, WsnLast
<1>2. i # 0 => i \in 1..Len(snap[t])
  BY <1>1 DEF TypeOK, LastVersion
<1> QED BY <1>1, <1>2 DEF Shown, VersionsStay

LEMMA HistoryStays ==
  ASSUME TypeOK, VersionsExist, VersionsStay, UNCHANGED wsn_versions
  PROVE  History' = History
<1>1. WsnLast' = WsnLast
  BY DEF WsnLast
<1>2. \A v \in 1..WsnLast : Picture(v)' = Picture(v)
  BY ShownStays DEF Picture
<1> HIDE DEF Picture
<1> QED BY <1>1, <1>2 DEF History

\* The versions stay in every step but rpldata_clear.
LEMMA StayUnchanged == ASSUME UNCHANGED snap PROVE VersionsStay
BY DEF VersionsStay

LEMMA StayPatched ==
  ASSUME TypeOK, NEW r \in Refs, Count(r)
  PROVE  VersionsStay
<1> DEFINE c == working[r].count + 1
<1>1. snap' = Patched(r, c) /\ c \in Nat
  BY CountShape DEF Count
<1> HIDE DEF c
<1>2. \A t \in Types : \A j \in 1..Len(snap[t]) : \A q \in Refs :
        /\ Patched(r, c)[t][j][q] = Absent <=> snap[t][j][q] = Absent
        /\ snap[t][j][q] # Absent => Patched(r, c)[t][j][q].val = snap[t][j][q].val
  BY <1>1, PatchedShape
<1> QED BY <1>1, <1>2 DEF VersionsStay

LEMMA StayScanned ==
  ASSUME SerialInv, ScanEvent
  PROVE  VersionsStay
<1> DEFINE r == events[cursor].ref
<1>1. TypeOK /\ (UNCHANGED snap \/ (r # Packet /\ ~LacksPrevious(TypeOf[r]) /\ AddVersion(TypeOf[r])))
  BY DEF ScanEvent, SerialInv
<1>2. CASE UNCHANGED snap
  BY <1>2, StayUnchanged
<1>3. CASE r # Packet /\ ~LacksPrevious(TypeOf[r]) /\ AddVersion(TypeOf[r])
  <2> DEFINE t == TypeOf[r]
  <2>1. events[cursor] \in Event
    BY <1>1 DEF ScanEvent, TypeOK
  <2>2. t \in Types
    BY <1>3, <2>1 DEF Event
  <2>3. NewVersion(t) \in Snapshot /\ snap' = [snap EXCEPT ![t] = Append(@, NewVersion(t))]
    BY <1>1, <1>3, <2>2, NewVersionType DEF AddVersion
  <2>4. \A s \in Types : \A j \in 1..Len(snap[s]) : snap'[s][j] = snap[s][j]
    BY <1>1, <2>2, <2>3, AppendedVersion
  <2> QED BY <2>4 DEF VersionsStay
<1> QED BY <1>1, <1>2, <1>3

\* rpldata_wsn_create_version publishes the working set, types without a new version
\* included.
LEMMA NewestShowsCurrent ==
  ASSUME SerialInv, ReaderInv, EndScan, versioned # {}, NEW r \in Refs,
         NEW n, n = WsnLast + 1
  PROVE  Shown(n, r)' = Content(r)
<1> DEFINE t == TypeOf[r]
<1>1. TypeOK /\ ppc = "scan" /\ cursor > Len(events) /\ UNCHANGED <<working, snap>>
      /\ wsn_versions' = Append(wsn_versions, VersionsNow)
  BY DEF EndScan, SerialInv
<1>2. /\ t \in Types /\ LastVersion(t) \in Nat
      /\ wsn_versions \in Seq([Types -> Nat]) /\ VersionsNow \in [Types -> Nat]
      /\ VersionsNow[t] = LastVersion(t)
  BY <1>1 DEF TypeOK, LastVersion, VersionsNow
<1>3. wsn_versions'[n] = VersionsNow
  BY <1>1, <1>2, AppendProperties DEF WsnLast
<1>4. Shown(n, r)' =
        IF LastVersion(t) = 0 THEN Absent
        ELSE IF snap[t][LastVersion(t)][r] = Absent THEN Absent
        ELSE snap[t][LastVersion(t)][r].val
  <2>1. (wsn_versions'[n])[t] = LastVersion(t)
    BY <1>2, <1>3
  <2> QED BY <1>1, <2>1 DEF Shown
<1>5. CASE working[r] = Absent
  <2>1. NewestLacks(r)
    BY <1>1, <1>5, ScanSettles DEF ReaderInv, GoneFromNewest
  <2> QED BY <1>4, <1>5, <2>1 DEF NewestLacks, Content
<1>6. CASE working[r] # Absent
  <2>1. ~working[r].changed
    BY <1>1, <1>6, ScanClears DEF Live
  <2>2. /\ LastVersion(t) > 0 /\ snap[t][LastVersion(t)][r] # Absent
        /\ snap[t][LastVersion(t)][r].val = working[r].val
    BY <1>6, <2>1 DEF SerialInv, UnchangedIsPublished, Live
  <2> QED BY <1>2, <1>4, <1>6, <2>2 DEF Content
<1> QED BY <1>5, <1>6
\* At the end of the walk the store publishes, or has nothing to publish.
LEMMA EndScanPublishes ==
  ASSUME SerialInv, ReaderInv, EndScan
  PROVE  UNCHANGED <<Current, History>> \/ (History' = Append(History, Current) /\ UNCHANGED Current)
<1>1. UNCHANGED <<working, snap>> /\ TypeOK /\ VersionsExist
  BY DEF EndScan, SerialInv
<1>2. Current' = Current
  BY <1>1 DEF Current, Content
<1>3. VersionsStay
  BY <1>1, StayUnchanged
<1>4. CASE versioned = {}
  <2>1. UNCHANGED wsn_versions
    BY <1>4 DEF EndScan
  <2> QED BY <1>1, <1>2, <1>3, <2>1, HistoryStays
<1>5. CASE versioned # {}
  <2> DEFINE n == WsnLast
  <2>1. wsn_versions' = Append(wsn_versions, VersionsNow)
    BY <1>5 DEF EndScan
  <2>2. n \in Nat /\ wsn_versions \in Seq([Types -> Nat]) /\ VersionsNow \in [Types -> Nat]
    BY <1>1 DEF TypeOK, VersionsNow, LastVersion, WsnLast
  <2>3. WsnLast' = n + 1 /\ \A v \in 1..n : wsn_versions'[v] = wsn_versions[v]
    BY <2>1, <2>2, AppendProperties DEF WsnLast
  <2>4. ASSUME NEW v \in 1..n PROVE Picture(v)' = History[v]
    <3>1. \A r \in Refs : Shown(v, r)' = Shown(v, r)
      BY <1>1, <1>3, <2>3, ShownStays
    <3> QED BY <3>1 DEF Picture, History
  <2>5. ASSUME NEW v, v = n + 1 PROVE Picture(v)' = Current
    <3>1. \A r \in Refs : Shown(v, r)' = Content(r)
      BY <1>5, <2>5, NewestShowsCurrent
    <3> QED BY <3>1 DEF Picture, Current
  <2>6. History' = [v \in 1..(n + 1) |-> Picture(v)']
    BY <2>3 DEF History
  <2>7. /\ History \in Seq(Snapshots!Picture) /\ Len(History) = n
        /\ Current \in Snapshots!Picture
    BY <1>1, HistoryType, CurrentIsPicture
  <2> HIDE DEF n, Picture, History, Current
  <2>8. /\ Append(History, Current) \in Seq(Snapshots!Picture)
        /\ Len(Append(History, Current)) = n + 1
        /\ \A v \in 1..n : Append(History, Current)[v] = History[v]
        /\ Append(History, Current)[n + 1] = Current
    BY <2>7, AppendProperties
  <2>9. \A v \in 1..(n + 1) : Picture(v)' = Append(History, Current)[v]
    BY <2>2, <2>4, <2>5, <2>8
  <2>10. Append(History, Current) = [v \in 1..(n + 1) |-> Append(History, Current)[v]]
    <3> DEFINE A == Append(History, Current)
    <3>1. A \in Seq(Snapshots!Picture) /\ Len(A) = n + 1
      BY <2>8
    <3> HIDE DEF A
    <3>2. A = [v \in 1..(n + 1) |-> A[v]]
      BY <2>2, <3>1
    <3> QED BY <3>2 DEF A
  <2>11. History' = Append(History, Current)
    BY <2>6, <2>9, <2>10
  <2> QED BY <1>2, <2>11
<1> QED BY <1>4, <1>5

LEMMA ClearStoreClears ==
  ASSUME ClearStore
  PROVE  Current' = Snapshots!Empty /\ History' = <<>>
<1>1. working' = NoObjects /\ wsn_versions' = <<>>
  BY DEF ClearStore
<1>2. WsnLast' = 0
  BY <1>1 DEF WsnLast
<1>3. Current' = Snapshots!Empty
  BY <1>1 DEF Current, Content, NoObjects, Snapshots!Empty
<1> QED BY <1>2, <1>3 DEF History

LEMMA SnapshotsInit == Init => Snapshots!Init
<1> SUFFICES ASSUME Init PROVE Snapshots!Init
  OBVIOUS
<1>1. Current = Snapshots!Empty
  BY DEF Init, Current, Content, NoObjects, Snapshots!Empty
<1>2. WsnLast = 0
  BY DEF Init, WsnLast
<1>3. History = <<>>
  BY <1>2 DEF History
<1> QED BY <1>1, <1>3 DEF Snapshots!Init, Current, Content, History, Picture

LEMMA SnapshotsStep ==
  ASSUME SerialInv, ReaderInv, CleanClear, ~GuiInterleaves, [Next]_vars
  PROVE  Snapshots!Next \/ UNCHANGED <<Current, History>>
<1>1. TypeOK /\ VersionsExist /\ Current' \in Snapshots!Picture
  <2>1. TypeOK'
    BY SerialStep DEF SerialInv
  <2>2. Current' \in Snapshots!Picture
    <3>1. \A r \in Refs : working'[r] \in Obj \cup {Absent}
      BY <2>1 DEF TypeOK
    <3>2. \A r \in Refs : Content(r)' \in Vals \cup {Absent}
      BY <3>1 DEF Content, Obj
    <3> QED BY <3>2 DEF Current, Snapshots!Picture
  <2> QED BY <2>2 DEF SerialInv
<1>2. ASSUME VersionsStay, UNCHANGED wsn_versions PROVE Snapshots!Next
  <2>1. History' = History
    BY <1>1, <1>2, HistoryStays
  <2>2. Snapshots!Edit
    BY <1>1, <2>1 DEF Snapshots!Edit, Current, Content, History, Picture
  <2> QED BY <2>2 DEF Snapshots!Next
<1>3. ASSUME NEW r \in Refs, Count(r) PROVE Snapshots!Next
  BY <1>1, <1>2, <1>3, StayPatched DEF Count
<1>4. CASE ScanEvent
  BY <1>2, <1>4, StayScanned DEF ScanEvent
<1>5. CASE EndScan
  <2>1. CASE UNCHANGED <<Current, History>>
    BY <2>1
  <2>2. CASE History' = Append(History, Current) /\ UNCHANGED Current
    <3>1. Snapshots!Publish
      BY <2>2 DEF Snapshots!Publish, Current, Content, History, Picture
    <3> QED BY <3>1 DEF Snapshots!Next
  <2> QED BY <1>5, <2>1, <2>2, EndScanPublishes
<1>6. CASE ClearStore
  <2>1. Snapshots!Clear
    BY <1>6, ClearStoreClears DEF Snapshots!Clear, Current, Content, History, Picture
  <2> QED BY <2>1 DEF Snapshots!Next
<1>7. CASE UNCHANGED <<snap, wsn_versions>>
  BY <1>2, <1>7, StayUnchanged
<1> QED
  BY <1>3, <1>4, <1>5, <1>6, <1>7, NoneUnlinked
  DEF Next, Collect, Commit, GuiEdit, ClearRun, vars, storeVars, BeginPacket, GetObject, Change,
      DelLink, BeginCommit, ProcessEvent, EndCreate, EndPacket, BeginClearErrors, ClearNodeErrors,
      ClearDeprecated, EndPurge, ClearPause, ClearNotify, ClearResume

\* A WSN version is the working set as it was when rpldata_wsn_create_version made it, for
\* every type, and shows the same contents until rpldata_clear drops all of them.
THEOREM StoreImplementsSnapshots ==
  ASSUME CleanClear, ~GuiInterleaves
  PROVE  Spec => ImplementsSnapshots
<1>1. SerialInv /\ ReaderInv /\ [Next]_vars
        => [Snapshots!Next]_<<[r \in Refs |-> IF working[r] = Absent THEN Absent ELSE working[r].val],
                             [v \in 1..WsnLast |-> [r \in Refs |-> Shown(v, r)]]>>
  BY SnapshotsStep DEF Current, Content, History, Picture
<1> QED BY SnapshotsInit, <1>1, SerialCorrect, ReadersCorrect, PTL DEF Spec, ImplementsSnapshots, Snapshots!Spec
=============================================================================
