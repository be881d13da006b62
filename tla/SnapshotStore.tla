---------------------------- MODULE SnapshotStore ----------------------------
(***************************************************************************)
(* What the versioned store promises to its readers: a current picture of  *)
(* the network that the parser and the GUI edit, and a history of pictures *)
(* to which a commit appends the current one.  A picture in the history    *)
(* never changes; only a clear removes pictures, and it removes them all.  *)
(***************************************************************************)
EXTENDS Sequences

CONSTANTS Refs, Vals, Absent

VARIABLES current, history

Picture == [Refs -> Vals \cup {Absent}]
Empty == [r \in Refs |-> Absent]

Init == current = Empty /\ history = <<>>

Edit == current' \in Picture /\ UNCHANGED history

Publish == history' = Append(history, current) /\ UNCHANGED current

Clear == current' = Empty /\ history' = <<>>

Next == Edit \/ Publish \/ Clear

Spec == Init /\ [][Next]_<<current, history>>
=============================================================================
