----------------------------- MODULE Timebases -----------------------------
(***************************************************************************)
(* What the time synchronisation of capture interfaces promises: open      *)
(* interfaces are divided into groups that share a time base.  A captured  *)
(* packet may join groups; nothing but closing an interface takes it out   *)
(* of its group.                                                           *)
(***************************************************************************)
CONSTANT Ifaces

VARIABLE groups

Init == groups = {}

Open(i) == i \notin UNION groups /\ groups' = groups \cup {{i}}

Close(i) == groups' = {g \ {i} : g \in groups} \ {{}}

\* Every group is inside one of the new groups, which divide the same interfaces.
Join ==
  /\ \A g \in groups : \E h \in groups' : g \subseteq h
  /\ UNION groups' = UNION groups
  /\ \A g, h \in groups' : g # h => g \cap h = {}
  /\ {} \notin groups'

Next == (\E i \in Ifaces : Open(i) \/ Close(i)) \/ Join

Spec == Init /\ [][Next]_groups
=============================================================================
