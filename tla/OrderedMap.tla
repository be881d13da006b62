------------------------------ MODULE OrderedMap ------------------------------
(* What hash_container.c promises its users: a map whose keys keep the order  *)
(* of their insertion.  Overwriting leaves a key in its place.                *)
EXTENDS Integers, Sequences, SequencesExt

CONSTANTS Keys, Data
VARIABLE entries

Entry == [key : Keys, data : Data]
Has(k) == \E i \in DOMAIN entries : entries[i].key = k

Init == entries = <<>>
Insert(e) == ~Has(e.key) /\ entries' = Append(entries, e)
Replace(e) == \E i \in DOMAIN entries :
                entries[i].key = e.key /\ entries' = [entries EXCEPT ![i] = e]
Drop == \E i \in DOMAIN entries : entries' = RemoveAt(entries, i)
Clear == entries' = <<>>

Next == (\E e \in Entry : Insert(e) \/ Replace(e)) \/ Drop \/ Clear
Spec == Init /\ [][Next]_entries
=============================================================================
