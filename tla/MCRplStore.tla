----------------------------- MODULE MCRplStore -----------------------------
(* Model values for RplStore: one node, one dodag and one link are enough for *)
(* every kind of event and for versions that share copies.                    *)
EXTENDS RplStore, TLC

CONSTANTS n1, d1, l1

MCTypeOf == (n1 :> "node") @@ (d1 :> "dodag") @@ (l1 :> "link")
MCTypeOfTwo == (n1 :> "node") @@ (l1 :> "link")
=============================================================================
