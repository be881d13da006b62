---------------------------- MODULE HashContainer ----------------------------
(***************************************************************************)
(* hash_container.c: elements found by key and linked in the order of      *)
(* their insertion, and iterators that cache the neighbours of theirs.     *)
(* Each iterator stands for a thread with one loop or lookup at a time:    *)
(* the parser, which adds to the working containers, and the GUI, which    *)
(* deletes links from them.  The lock protects the changes alone:          *)
(* hash_find reads the links of the element it has found, and hash_begin   *)
(* those of the head, without it.  One thread at a time adds: the parser,  *)
(* or whoever holds the mutex of the container.  hash_it_dec, which        *)
(* nothing calls, and the prev field, which only hash_it_dec reads, are    *)
(* left out.  hash_dup is a loop (Begin, Take, ItInc) that adds to a       *)
(* container of its own.                                                   *)
(***************************************************************************)
EXTENDS Integers, Sequences, FiniteSets, FiniteSetsExt, SequencesExt

CONSTANTS
  Keys, Data,
  NoKey,         \* no key, and what may be left of one that has been freed
  Constructed,   \* what data_constructor makes of calloc's zeroes
  Iterators,
  MaxElements    \* bound: elements ever allocated

ASSUME ContainerAssumption == /\ NoKey \notin Keys /\ Constructed \in Data
                              /\ MaxElements \in Nat

VARIABLES
  element,   \* every hash_container_el_t in the order of allocation
  linked,    \* those in the table; HASH_ADD_KEYPTR links at the tail, so their numbers
             \* are the order of the list
  it,        \* struct hash_iterator: current_data and next, 0 for NULL
  adding,    \* the key that has been looked up in vain and is to be added, or NoKey
  finding,   \* what hash_find or hash_begin has found and not yet looked at
  fault,     \* the iterators through which a freed element has been used
  past       \* history of each iterator:
             \*   loop  it comes from hash_begin and has only gone forwards,
             \*   seen  what it has pointed at since, and due, what it shall have in the end,
             \*   hit   somebody else has freed its element or the next one

hashVars == <<element, linked, adding, it, finding, fault, past>>

\* The list.
Least(S) == IF S = {} THEN 0 ELSE Min(S)
After(e) == IF e = 0 THEN 0 ELSE Least({f \in linked : f > e})
Order(L) == [n \in 1..Cardinality(L) |-> CHOOSE e \in L : Cardinality({f \in L : f <= e}) = n]
InOrder == Order(linked)
Pointing(e) == [current |-> e, next |-> After(e)]

\* HASH_FIND: NULL, or the element with the key.
Found(k) == Least({e \in linked : element[e].key = k})

NoLoop == [loop |-> FALSE, seen |-> <<>>, due |-> {}, hit |-> FALSE]
Started(e) == [loop |-> TRUE, seen |-> <<e>>, due |-> linked, hit |-> FALSE]
Arrived(p, e) == [p EXCEPT !.seen = IF e = 0 THEN @ ELSE Append(@, e)]
Nothing == [el |-> 0, loop |-> FALSE]

HashInit ==
  /\ element = <<>> /\ linked = {} /\ adding = NoKey /\ fault = {}
  /\ it = [i \in Iterators |-> Pointing(0)] /\ finding = [i \in Iterators |-> Nothing]
  /\ past = [i \in Iterators |-> NoLoop]

-----------------------------------------------------------------------------
(* Changes.                                                                *)

Freed == [key |-> NoKey, data |-> Constructed]

\* A loop that has an element ahead will get to the new one.
Link(k, d) ==
  /\ Len(element) < MaxElements
  /\ element' = Append(element, [key |-> k, data |-> d])
  /\ linked' = linked \cup {Len(element) + 1}
  /\ past' = [i \in Iterators |-> [past[i] EXCEPT
                !.due = IF it[i].next = 0 THEN @ ELSE @ \cup {Len(element) + 1}]]
  /\ UNCHANGED <<it, finding, fault>>

\* hash_add with HAM_FailIfExists, or with HAM_NoCheck by a caller that knows the key is
\* new.
Add(k, d) == adding = NoKey /\ Found(k) = 0 /\ Link(k, d) /\ UNCHANGED adding

\* Variant: the lookup is left out.
Miss_Unchecked(k) ==
  /\ adding = NoKey /\ adding' = k
  /\ UNCHANGED <<element, linked, it, finding, fault, past>>

\* hash_value with HVM_CreateIfNonExistant, and rpldata_get_object: hash_find finds nothing
\* and gives the lock back; hash_add then takes it again and checks nothing.
Miss(k) ==
  /\ adding = NoKey /\ Found(k) = 0 /\ adding' = k
  /\ UNCHANGED <<element, linked, it, finding, fault, past>>
AddMissed(d) == adding # NoKey /\ Link(adding, d) /\ adding' = NoKey

\* hash_add with HAM_OverwriteIfExists.
Overwrite(k, d) ==
  /\ adding = NoKey /\ UNCHANGED adding
  /\ IF Found(k) = 0 THEN Link(k, d)
     ELSE /\ element' = [element EXCEPT ![Found(k)].data = d]
          /\ UNCHANGED <<linked, it, finding, fault, past>>

\* What becomes of an iterator when somebody else frees the elements of S.
Bereft(i, S) ==
  IF {it[i].current, it[i].next, finding[i].el} \cap S # {} THEN [NoLoop EXCEPT !.hit = TRUE]
  ELSE [past[i] EXCEPT !.due = @ \ (S \ Range(past[i].seen))]
Unlink(S) == /\ linked' = linked \ S
             /\ element' = [e \in DOMAIN element |-> IF e \in S THEN Freed ELSE element[e]]
Free(S) == Unlink(S) /\ past' = [i \in Iterators |-> Bereft(i, S)]
           /\ UNCHANGED <<adding, it, finding, fault>>

\* hash_delete and hash_clear.
Delete(k) == Found(k) # 0 /\ Free({Found(k)})
Clear == linked # {} /\ Free(linked)

-----------------------------------------------------------------------------
(* Iterators.                                                              *)

Moves(i, to, p) == it' = [it EXCEPT ![i] = to] /\ past' = [past EXCEPT ![i] = p]
Fails(i) == fault' = {i} /\ UNCHANGED <<element, linked, adding, it, finding, past>>

\* HASH_FIND under the lock, or the head without it.
Look(i, e, loop) ==
  /\ finding[i].el = 0
  /\ finding' = [finding EXCEPT ![i] = [el |-> e, loop |-> loop /\ e # 0]]
  /\ Moves(i, Pointing(0), NoLoop)
  /\ UNCHANGED <<element, linked, adding, fault>>
Find(i, k) == Look(i, Found(k), FALSE)
Begin(i) == Look(i, Least(linked), TRUE)

\* The neighbours are read.
Take(i) ==
  LET e == finding[i].el IN
  /\ e # 0
  /\ IF e \notin linked THEN Fails(i)
     ELSE /\ Moves(i, Pointing(e), IF finding[i].loop THEN Started(e) ELSE NoLoop)
          /\ finding' = [finding EXCEPT ![i] = Nothing]
          /\ UNCHANGED <<element, linked, adding, fault>>

\* hash_it_value and hash_it_key.
Deref(i) == it[i].current \notin linked \cup {0} /\ Fails(i)

\* hash_it_inc: the cached next element becomes the current one.
ItInc(i) ==
  /\ finding[i].el = 0 /\ it[i].current # 0
  /\ IF it[i].next \notin linked \cup {0} THEN Fails(i)
     ELSE /\ Moves(i, Pointing(it[i].next), Arrived(past[i], it[i].next))
          /\ UNCHANGED <<element, linked, adding, finding, fault>>

Unlinked(i, to) ==
  LET e == it[i].current IN
  /\ finding[i].el = 0 /\ e # 0
  /\ IF e \notin linked \/ it[i].next \notin linked \cup {0} THEN Fails(i)
     ELSE /\ Unlink({e})
          /\ it' = [it EXCEPT ![i] = to]
          /\ past' = [j \in Iterators |-> IF j # i THEN Bereft(j, {e})
                                         ELSE Arrived(past[i], it[i].next)]
          /\ UNCHANGED <<adding, finding, fault>>

\* Variant: the iterator stays on the freed element.
ItDelete_Stays(i) == Unlinked(i, it[i])

\* hash_it_delete_value and hash_it_remove_ref: the iterator moves on by hash_it_inc before
\* its element is freed.
ItDelete(i) == Unlinked(i, Pointing(it[i].next))

-----------------------------------------------------------------------------
HashNext ==
  /\ fault = {}
  /\ \/ \E k \in Keys : Miss(k) \/ Delete(k) \/ \E d \in Data : Add(k, d) \/ Overwrite(k, d)
     \/ \E d \in Data : AddMissed(d)
     \/ Clear
     \/ \E i \in Iterators : \/ Begin(i) \/ Take(i) \/ Deref(i) \/ ItInc(i) \/ ItDelete(i)
                             \/ \E k \in Keys : Find(i, k)

HashSpec == HashInit /\ [][HashNext]_hashVars

-----------------------------------------------------------------------------
(* Properties.                                                             *)

\* An iterator fails only if another thread frees its element or the next one, whatever else
\* changes and whatever it deletes itself.  A loop that is not hit sees each element that was
\* there at its begin, or was added while another one was still ahead, once and in the order
\* of the list; what it has not seen is ahead of it or has been deleted by others.
IterationExact ==
  /\ \A i \in fault : past[i].hit
  /\ \A i \in Iterators : past[i].loop /\ ~past[i].hit =>
       LET ahead == IF it[i].next = 0 THEN {} ELSE {e \in linked : e >= it[i].next} IN
       /\ Range(past[i].seen) \cup ahead = past[i].due
       /\ \A m, n \in DOMAIN past[i].seen : m < n => past[i].seen[m] < past[i].seen[n]

\* The container is the map it promises, in the order of insertion, whatever iterators
\* delete, and whoever deletes between the lookup of a new key and its addition.
Map == INSTANCE OrderedMap WITH
         entries <- [n \in DOMAIN InOrder |-> element[InOrder[n]]]
ImplementsMap == Map!Spec
=============================================================================
