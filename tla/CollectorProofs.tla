-------------------------- MODULE CollectorProofs --------------------------
(***************************************************************************)
(* The invariants of the collector, for every capture and every number of  *)
(* nodes.  A handler is a chain of setters, so the inductive invariant is  *)
(* a predicate Good(s, X) of a database s that each setter preserves; X    *)
(* holds the DODAG whose root has just changed its options, from           *)
(* dodag_update_from_dio to dodag_set_nodes_changed, while the mismatch    *)
(* flags of its members are not those of the new options.                  *)
(***************************************************************************)
EXTENDS Collector, TLAPS

----------------------------------------------------------------------------
(* The inductive invariant.                                                *)

\* AddressDerived for one node, and what SetIp needs of an address that has not been
\* seen: that it would not be taken for one that is not autoconfigured.
AddressOk(n, o) ==
  /\ o.hasPrefix /\ ~o.seenGlobal => o.global = <<o.prefix, n>>
  /\ o.customGlobal <=> (o.seenGlobal /\ o.global # Unset /\ o.global[2] # n)
  /\ o.seenGlobal \/ o.global = Unset \/ o.global[2] = n

\* DeltasExact for one node and its DODAG.
DeltaOk(o, dodag) ==
  /\ o.hasConfig /\ dodag.hasConfig => (o.configDelta <=> o.config # dodag.config)
  /\ o.hasPrefix /\ dodag.hasPrefix => (o.prefixDelta <=> o.prefix # dodag.prefix)

\* PublishedAgrees for one node and for one DODAG, field by field.
NodeAgrees(x, y) ==
  /\ x.changed = y.changed /\ x.dodag = y.dodag /\ x.hasRank = y.hasRank /\ x.rank = y.rank
  /\ x.hasConfig = y.hasConfig /\ x.config = y.config /\ x.hasPrefix = y.hasPrefix /\ x.prefix = y.prefix
  /\ x.local = y.local /\ x.routes = y.routes /\ x.errors = y.errors
NodePublished(o, pub) == ~o.changed => pub # None /\ NodeAgrees(pub, o)

DodagAgrees(x, y) ==
  /\ x.changed = y.changed /\ x.nodes = y.nodes /\ x.instance = y.instance /\ x.dio = y.dio
  /\ x.config = y.config /\ x.prefix = y.prefix
DodagPublished(o, pub) == ~o.changed => pub # None /\ DodagAgrees(pub, o)

NodeOk(n, o, pub, dodag, exact) ==
  /\ o \in NodeObjects
  /\ AddressOk(n, o)
  /\ NodePublished(o, pub)
  /\ exact => DeltaOk(o, dodag)

NodesOk(s, X) ==
  \A n \in Nodes : s.node[n] # None =>
    LET o == s.node[n] IN
      /\ NodeOk(n, o, s.pubNode[n], s.dodag[o.dodag], o.dodag \notin X \cup {None})
      /\ \A r \in o.routes : s.node[r.via] # None

MembersOk(s) ==
  \A n \in Nodes, d \in DodagRefs :
    (s.dodag[d] # None /\ n \in s.dodag[d].nodes) <=> (s.node[n] # None /\ s.node[n].dodag = d)

InstancesOk(s) ==
  /\ \A d \in DodagRefs : s.dodag[d] # None /\ s.dodag[d].instance # None =>
       s.instance[s.dodag[d].instance] # None /\ d \in s.instance[s.dodag[d].instance].dodags
  /\ \A i \in Instances : s.instance[i] # None =>
       \A d \in s.instance[i].dodags : s.dodag[d] # None

LinksOk(s) ==
  /\ OnePreferredParent =>
       \A l, k \in LinkRefs :
         /\ s.link[l] # None /\ s.link[k] # None /\ l[1] = k[1]
         /\ ~s.link[l].deprecated /\ ~s.link[k].deprecated
         => l = k
  /\ \A l \in LinkRefs : s.link[l] # None => s.node[l[1]] # None /\ s.node[l[2]] # None

OthersPublished(s) ==
  /\ \A d \in DodagRefs : s.dodag[d] # None => DodagPublished(s.dodag[d], s.pubDodag[d])
  /\ \A i \in Instances : s.instance[i] # None /\ ~s.instance[i].changed => s.pubInstance[i] = s.instance[i]
  /\ \A l \in LinkRefs : s.link[l] # None /\ ~s.link[l].changed => s.pubLink[l] = s.link[l]

Good(s, X) ==
  /\ s \in Databases
  /\ NodesOk(s, X)
  /\ MembersOk(s)
  /\ InstancesOk(s)
  /\ LinksOk(s)
  /\ OthersPublished(s)

\* What a setter other than those of membership leaves as it was.
Kept(s, t) ==
  /\ \A n \in Nodes : s.node[n] # None => t.node[n] # None /\ t.node[n].dodag = s.node[n].dodag
  /\ \A d \in DodagRefs : s.dodag[d] # None => t.dodag[d] # None
  /\ \A i \in Instances : s.instance[i] # None => t.instance[i] # None

Inv == Good(db, {}) /\ packets \in Nat

----------------------------------------------------------------------------
(* Objects of nodes.                                                       *)

LEMMA NodeFields ==
  ASSUME NEW o \in NodeObjects
  PROVE  /\ \A v \in BOOLEAN :
              /\ [o EXCEPT !.changed = v] \in NodeObjects
              /\ [o EXCEPT !.hasRank = v] \in NodeObjects
              /\ [o EXCEPT !.hasConfig = v] \in NodeObjects
              /\ [o EXCEPT !.configDelta = v] \in NodeObjects
              /\ [o EXCEPT !.hasPrefix = v] \in NodeObjects
              /\ [o EXCEPT !.prefixDelta = v] \in NodeObjects
              /\ [o EXCEPT !.seenGlobal = v] \in NodeObjects
              /\ [o EXCEPT !.customGlobal = v] \in NodeObjects
         /\ \A d \in OrNone(DodagRefs) : [o EXCEPT !.dodag = d] \in NodeObjects
         /\ \A k \in Nat : [o EXCEPT !.rank = k] \in NodeObjects
         /\ \A c \in Configs : [o EXCEPT !.config = c] \in NodeObjects
         /\ \A p \in Prefixes : [o EXCEPT !.prefix = p] \in NodeObjects
         /\ \A ip \in Ips : [o EXCEPT !.local = ip] \in NodeObjects /\ [o EXCEPT !.global = ip] \in NodeObjects
         /\ \A R \in SUBSET [target : Ips, via : Nodes] : [o EXCEPT !.routes = R] \in NodeObjects
         /\ \A f \in [RplErrors -> Nat] : [o EXCEPT !.errors = f] \in NodeObjects
<1>1. \A v \in BOOLEAN : /\ [o EXCEPT !.changed = v] \in NodeObjects
                         /\ [o EXCEPT !.hasRank = v] \in NodeObjects
                         /\ [o EXCEPT !.hasConfig = v] \in NodeObjects
                         /\ [o EXCEPT !.configDelta = v] \in NodeObjects
  BY SMT DEF NodeObjects
<1>2. \A v \in BOOLEAN : /\ [o EXCEPT !.hasPrefix = v] \in NodeObjects
                         /\ [o EXCEPT !.prefixDelta = v] \in NodeObjects
                         /\ [o EXCEPT !.seenGlobal = v] \in NodeObjects
                         /\ [o EXCEPT !.customGlobal = v] \in NodeObjects
  BY SMT DEF NodeObjects
<1>3. \A d \in OrNone(DodagRefs) : [o EXCEPT !.dodag = d] \in NodeObjects
  BY SMT DEF NodeObjects
<1>4. \A k \in Nat : [o EXCEPT !.rank = k] \in NodeObjects
  BY SMT DEF NodeObjects
<1>5. \A c \in Configs : [o EXCEPT !.config = c] \in NodeObjects
  BY SMT DEF NodeObjects
<1>6. \A p \in Prefixes : [o EXCEPT !.prefix = p] \in NodeObjects
  BY SMT DEF NodeObjects
<1>7. \A ip \in Ips : [o EXCEPT !.local = ip] \in NodeObjects /\ [o EXCEPT !.global = ip] \in NodeObjects
  BY SMT DEF NodeObjects
<1>8. \A R \in SUBSET [target : Ips, via : Nodes] : [o EXCEPT !.routes = R] \in NodeObjects
  BY SMT DEF NodeObjects
<1>9. \A f \in [RplErrors -> Nat] : [o EXCEPT !.errors = f] \in NodeObjects
  BY SMT DEF NodeObjects
<1>10. QED
  BY <1>1, <1>2, <1>3, <1>4, <1>5, <1>6, <1>7, <1>8, <1>9, Zenon

LEMMA ChargedOk ==
  ASSUME NEW o \in NodeObjects, NEW e \in RplErrors
  PROVE  Charged(o, e) \in NodeObjects
<1>1. o.errors \in [RplErrors -> Nat] BY DEF NodeObjects
<1>2. [o.errors EXCEPT ![e] = o.errors[e] + 1] \in [RplErrors -> Nat] BY <1>1
<1>3. QED BY <1>2, NodeFields DEF Charged

LEMMA MovedOk ==
  ASSUME NEW o \in NodeObjects, NEW d \in OrNone(DodagRefs)
  PROVE  Moved(o, d) \in NodeObjects
<1> DEFINE o1 == [o EXCEPT !.dodag = d]
           o2 == [o1 EXCEPT !.hasRank = FALSE]
           o3 == [o2 EXCEPT !.hasConfig = FALSE]
           o4 == [o3 EXCEPT !.hasPrefix = FALSE]
           o5 == [o4 EXCEPT !.global = IF o.customGlobal THEN @ ELSE Unset]
           o6 == [o5 EXCEPT !.seenGlobal = o.customGlobal /\ @]
           o7 == [o6 EXCEPT !.changed = TRUE]
<1>1. o1 \in NodeObjects BY NodeFields
<1>2. o2 \in NodeObjects BY <1>1, NodeFields
<1>3. o3 \in NodeObjects BY <1>2, NodeFields
<1>4. o4 \in NodeObjects BY <1>3, NodeFields
<1>5. o5 \in NodeObjects
  <2>1. o4.global \in Ips /\ Unset \in Ips BY <1>4 DEF NodeObjects, Ips, Unset, Multicast
  <2>2. QED BY <2>1, <1>4, NodeFields
<1>6. o6 \in NodeObjects BY <1>5, NodeFields
<1>7. o7 \in NodeObjects BY <1>6, NodeFields
<1>8. QED BY <1>7 DEF Moved

\* A node object that replaces another of the same DODAG and routes.
Replaces(x, o) == x.dodag = o.dodag /\ x.routes = o.routes

LEMMA AnnouncedOk ==
  ASSUME NEW o \in NodeObjects, NEW n, NEW pub, NEW D, NEW exact, NodeOk(n, o, pub, D, exact)
  PROVE  LET x == [o EXCEPT !.changed = TRUE] IN NodeOk(n, x, pub, D, exact) /\ Replaces(x, o)
<1> DEFINE x == [o EXCEPT !.changed = TRUE]
<1>1. x \in NodeObjects BY NodeFields
<1>2. x.changed /\ AddressOk(n, x) /\ (exact => DeltaOk(x, D)) /\ Replaces(x, o)
  BY SMT DEF NodeOk, AddressOk, DeltaOk, Replaces, NodeObjects
<1>3. QED BY <1>1, <1>2, Zenon DEF NodeOk, NodePublished

LEMMA ChargedFields ==
  ASSUME NEW o \in NodeObjects, NEW n, NEW pub, NEW D, NEW exact, NodeOk(n, o, pub, D, exact), NEW e
  PROVE  LET x == Charged(o, e) IN
           AddressOk(n, x) /\ (exact => DeltaOk(x, D)) /\ Replaces(x, o) /\ x.changed = o.changed
BY SMT DEF NodeOk, AddressOk, DeltaOk, Charged, Replaces, NodeObjects

LEMMA ErrorOk ==
  ASSUME NEW o \in NodeObjects, NEW n, NEW pub, NEW D, NEW exact, NodeOk(n, o, pub, D, exact),
         NEW e \in RplErrors
  PROVE  LET x == [Charged(o, e) EXCEPT !.changed = TRUE] IN
           NodeOk(n, x, pub, D, exact) /\ Replaces(x, o)
<1> DEFINE x == [Charged(o, e) EXCEPT !.changed = TRUE]
<1>1. x \in NodeObjects BY NodeFields, ChargedOk
<1>2. x.changed /\ AddressOk(n, x) /\ (exact => DeltaOk(x, D)) /\ Replaces(x, o)
  BY SMT DEF NodeOk, AddressOk, DeltaOk, Charged, Replaces, NodeObjects
<1>3. QED BY <1>1, <1>2, Zenon DEF NodeOk, NodePublished

\* The published copy is patched with the counter.
LEMMA PatchedOk ==
  ASSUME NEW o \in NodeObjects, NEW n, NEW pub \in NodeObjects, NEW D, NEW exact, NodeOk(n, o, pub, D, exact),
         NEW e \in RplErrors
  PROVE  LET x == Charged(o, e)
             y == [pub EXCEPT !.errors[e] = x.errors[e]]
         IN NodeOk(n, x, y, D, exact) /\ Replaces(x, o) /\ y \in NodeObjects
<1> DEFINE x == Charged(o, e)
           y == [pub EXCEPT !.errors[e] = x.errors[e]]
<1>1. x \in NodeObjects BY ChargedOk
<1>2. y \in NodeObjects
  <2>1. x.errors \in [RplErrors -> Nat] /\ pub.errors \in [RplErrors -> Nat] BY <1>1 DEF NodeObjects
  <2>2. [pub.errors EXCEPT ![e] = x.errors[e]] \in [RplErrors -> Nat] BY <2>1
  <2>3. QED BY <2>2, NodeFields
<1>3. AddressOk(n, x) /\ (exact => DeltaOk(x, D)) /\ Replaces(x, o)
  BY ChargedFields, Zenon
<1>4. NodePublished(x, y)
  <2> SUFFICES ASSUME ~x.changed PROVE y # None /\ NodeAgrees(y, x)
    BY DEF NodePublished
  <2>1. ~o.changed BY SMT DEF Charged, NodeObjects
  <2>2. NodeAgrees(pub, o) BY <2>1 DEF NodeOk, NodePublished
  <2>3. y.errors = x.errors
    <3>1. pub.errors = o.errors BY <2>2 DEF NodeAgrees
    <3>2. x.errors = [o.errors EXCEPT ![e] = o.errors[e] + 1] BY SMT DEF Charged, NodeObjects
    <3>3. y.errors = [pub.errors EXCEPT ![e] = x.errors[e]] BY SMT DEF NodeObjects
    <3>4. o.errors \in [RplErrors -> Nat] BY DEF NodeObjects
    <3>5. QED BY <3>1, <3>2, <3>3, <3>4
  <2>4. NodeAgrees(y, x) BY <2>2, <2>3, SMT DEF NodeAgrees, Charged, NodeObjects
  <2>5. QED BY <2>4, <1>2, NoneAssumption
<1>5. QED BY <1>1, <1>2, <1>3, <1>4, Zenon DEF NodeOk

\* With no published copy there is nothing to patch.
LEMMA UnpublishedOk ==
  ASSUME NEW o \in NodeObjects, NEW n, NEW D, NEW exact, NodeOk(n, o, None, D, exact), NEW e \in RplErrors
  PROVE  NodeOk(n, Charged(o, e), None, D, exact) /\ Replaces(Charged(o, e), o)
<1> DEFINE x == Charged(o, e)
<1>1. x \in NodeObjects BY ChargedOk
<1>2. AddressOk(n, x) /\ (exact => DeltaOk(x, D)) /\ Replaces(x, o) /\ x.changed = o.changed
  BY ChargedFields, Zenon
<1>3. QED BY <1>1, <1>2, Zenon DEF NodeOk, NodePublished

LEMMA CustomChargedOk ==
  ASSUME NEW o \in NodeObjects, NEW n, NEW pub, NEW D, NEW exact, NodeOk(n, o, pub, D, exact), o.changed, NEW ip
  PROVE  LET x == CustomCharged(o, n, ip) IN NodeOk(n, x, pub, D, exact) /\ Replaces(x, o)
<1>1. CASE ~HasHostOf(ip, n) /\ AutoconfOnly
  <2> DEFINE x == Charged(o, "invalid_ip")
  <2>1. x \in NodeObjects BY ChargedOk DEF RplErrors
  <2>2. AddressOk(n, x) /\ (exact => DeltaOk(x, D)) /\ Replaces(x, o) /\ x.changed = o.changed
    BY ChargedFields, Zenon
  <2>3. NodeOk(n, x, pub, D, exact) BY <2>1, <2>2, Zenon DEF NodeOk, NodePublished
  <2>4. QED BY <1>1, <2>2, <2>3, Zenon DEF CustomCharged
<1>2. CASE ~(~HasHostOf(ip, n) /\ AutoconfOnly)
  BY <1>2, Zenon DEF CustomCharged, Replaces
<1>3. QED BY <1>1, <1>2

LEMMA LocalHeardOk ==
  ASSUME NEW o \in NodeObjects, NEW n, NEW pub, NEW D, NEW exact, NodeOk(n, o, pub, D, exact), NEW ip \in Ips
  PROVE  LET x == LocalHeard(o, n, ip) IN NodeOk(n, x, pub, D, exact) /\ Replaces(x, o)
<1>1. CASE ip = o.local BY <1>1, Zenon DEF LocalHeard, Replaces
<1>2. CASE ip # o.local
  <2> DEFINE y == [o EXCEPT !.local = ip, !.changed = TRUE]
  <2>1. y \in NodeObjects BY NodeFields
  <2>2. y.changed /\ AddressOk(n, y) /\ (exact => DeltaOk(y, D)) /\ Replaces(y, o)
    BY SMT DEF NodeOk, AddressOk, DeltaOk, Replaces, NodeObjects
  <2>3. NodeOk(n, y, pub, D, exact) BY <2>1, <2>2, Zenon DEF NodeOk, NodePublished
  <2>4. LocalHeard(o, n, ip) = CustomCharged(y, n, ip) BY <1>2, Zenon DEF LocalHeard
  <2> HIDE DEF y
  <2>5. QED BY <2>1, <2>2, <2>3, <2>4, CustomChargedOk DEF Replaces
<1>3. QED BY <1>1, <1>2

LEMMA GlobalHeardOk ==
  ASSUME NEW o \in NodeObjects, NEW n, NEW pub, NEW D, NEW exact, NodeOk(n, o, pub, D, exact),
         NEW ip \in Ips, ip # Unset
  PROVE  LET x == GlobalHeard(o, n, ip) IN NodeOk(n, x, pub, D, exact) /\ Replaces(x, o)
<1>1. CASE ip = o.global
  <2> DEFINE x == [o EXCEPT !.seenGlobal = TRUE]
  <2>1. x \in NodeObjects BY NodeFields
  <2>2. (exact => DeltaOk(x, D)) /\ Replaces(x, o)
    BY SMT DEF NodeOk, DeltaOk, Replaces, NodeObjects
  <2>3. AddressOk(n, x)
    BY <1>1, SMT DEF NodeOk, AddressOk, NodeObjects
  <2>4. NodePublished(x, pub) BY SMT DEF NodeOk, NodePublished, NodeAgrees, NodeObjects
  <2>5. QED BY <1>1, <2>1, <2>2, <2>3, <2>4, Zenon DEF GlobalHeard, NodeOk
<1>2. CASE ip # o.global
  <2> DEFINE y == [o EXCEPT !.global = ip, !.seenGlobal = TRUE, !.customGlobal = ~HasHostOf(ip, n),
                            !.changed = TRUE]
  <2>1. y \in NodeObjects
    <3>1. (~HasHostOf(ip, n)) \in BOOLEAN BY DEF HasHostOf
    <3>2. [o EXCEPT !.global = ip, !.seenGlobal = TRUE] \in NodeObjects BY NodeFields
    <3>3. QED BY <3>1, <3>2, NodeFields
  <2>2. /\ y.changed /\ (exact => DeltaOk(y, D)) /\ Replaces(y, o)
        /\ y.global = ip /\ y.seenGlobal = TRUE /\ y.customGlobal = ~HasHostOf(ip, n)
    BY SMT DEF NodeOk, DeltaOk, Replaces, NodeObjects
  <2>3. NodeOk(n, y, pub, D, exact)
    <3> HIDE DEF y
    <3>1. AddressOk(n, y) BY <2>2, Zenon DEF AddressOk, HasHostOf
    <3>2. QED BY <3>1, <2>1, <2>2, Zenon DEF NodeOk, NodePublished
  <2>4. GlobalHeard(o, n, ip) = CustomCharged(y, n, ip) BY <1>2, Zenon DEF GlobalHeard
  <2> HIDE DEF y
  <2>5. QED BY <2>1, <2>2, <2>3, <2>4, CustomChargedOk DEF Replaces
<1>3. QED BY <1>1, <1>2

LEMMA RankedOk ==
  ASSUME NEW o \in NodeObjects, NEW n, NEW pub, NEW D, NEW exact, NodeOk(n, o, pub, D, exact), NEW rank \in Nat
  PROVE  LET x == [o EXCEPT !.hasRank = TRUE, !.rank = rank, !.changed = TRUE] IN
           NodeOk(n, x, pub, D, exact) /\ Replaces(x, o)
<1> DEFINE x == [o EXCEPT !.hasRank = TRUE, !.rank = rank, !.changed = TRUE]
<1>1. x \in NodeObjects
  <2>1. [o EXCEPT !.hasRank = TRUE, !.rank = rank] \in NodeObjects BY NodeFields
  <2>2. QED BY <2>1, NodeFields
<1>2. x.changed /\ AddressOk(n, x) /\ (exact => DeltaOk(x, D)) /\ Replaces(x, o)
  BY SMT DEF NodeOk, AddressOk, DeltaOk, Replaces, NodeObjects
<1>3. QED BY <1>1, <1>2, Zenon DEF NodeOk, NodePublished

\* The flag of an option is recomputed, whatever it was.
LEMMA ConfigAdvertisedOk ==
  ASSUME NEW o \in NodeObjects, NEW n, NEW pub, NEW D, NEW exact, NodeOk(n, o, pub, D, exact),
         NEW config \in OrNone(Configs)
  PROVE  LET x == ConfigAdvertised(o, config, D) IN NodeOk(n, x, pub, D, exact) /\ Replaces(x, o)
<1> DEFINE stored == IF config = None THEN [o EXCEPT !.hasConfig = FALSE, !.changed = TRUE]
                     ELSE [o EXCEPT !.hasConfig = TRUE, !.config = config, !.changed = TRUE]
           delta == stored.config # D.config
           ResultOk(x) == /\ x \in NodeObjects /\ x.changed /\ AddressOk(n, x) /\ Replaces(x, o)
                          /\ x.hasPrefix = o.hasPrefix /\ x.prefix = o.prefix /\ x.prefixDelta = o.prefixDelta
                          /\ x.hasConfig = stored.hasConfig /\ x.config = stored.config
                          /\ D.hasConfig /\ x.hasConfig => (x.configDelta <=> delta)
<1>1. /\ stored \in NodeObjects /\ stored.changed /\ AddressOk(n, stored) /\ Replaces(stored, o)
      /\ stored.hasPrefix = o.hasPrefix /\ stored.prefix = o.prefix /\ stored.prefixDelta = o.prefixDelta
  <2>1. CASE config = None
    <3> DEFINE y == [o EXCEPT !.hasConfig = FALSE, !.changed = TRUE]
    <3>1. y \in NodeObjects BY NodeFields
    <3>2. /\ y.changed /\ AddressOk(n, y) /\ Replaces(y, o)
          /\ y.hasPrefix = o.hasPrefix /\ y.prefix = o.prefix /\ y.prefixDelta = o.prefixDelta
      BY SMT DEF NodeOk, AddressOk, Replaces, NodeObjects
    <3>3. QED BY <2>1, <3>1, <3>2, Zenon
  <2>2. CASE config # None
    <3> DEFINE y == [o EXCEPT !.hasConfig = TRUE, !.config = config, !.changed = TRUE]
    <3>1. y \in NodeObjects
      <4>1. [o EXCEPT !.hasConfig = TRUE, !.config = config] \in NodeObjects BY <2>2, NodeFields DEF OrNone
      <4>2. QED BY <4>1, NodeFields
    <3>2. /\ y.changed /\ AddressOk(n, y) /\ Replaces(y, o)
          /\ y.hasPrefix = o.hasPrefix /\ y.prefix = o.prefix /\ y.prefixDelta = o.prefixDelta
      BY SMT DEF NodeOk, AddressOk, Replaces, NodeObjects
    <3>3. QED BY <2>2, <3>1, <3>2, Zenon
  <2>3. QED BY <2>1, <2>2
<1> HIDE DEF stored
<1>2. CASE ~D.hasConfig
  <2>1. ConfigAdvertised(o, config, D) = stored BY <1>2, Zenon DEF ConfigAdvertised, stored
  <2>2. ResultOk(stored) BY <1>1, <1>2, Zenon
  <2>3. QED BY <2>1, <2>2, Zenon DEF NodeOk, NodePublished, DeltaOk
<1>3. CASE D.hasConfig /\ delta
  <2> DEFINE x == Charged([stored EXCEPT !.configDelta = TRUE], "config_mismatch")
  <2>1. ConfigAdvertised(o, config, D) = x BY <1>3, Zenon DEF ConfigAdvertised, stored, ConfigDelta
  <2>2. x \in NodeObjects BY <1>1, NodeFields, ChargedOk DEF RplErrors
  <2>3. ResultOk(x) BY <1>1, <1>3, <2>2, SMT DEF AddressOk, Replaces, Charged, NodeObjects
  <2> HIDE DEF x
  <2>4. QED BY <2>1, <2>3, Zenon DEF NodeOk, NodePublished, DeltaOk
<1>4. CASE D.hasConfig /\ ~delta
  <2> DEFINE x == [stored EXCEPT !.configDelta = FALSE]
  <2>1. ConfigAdvertised(o, config, D) = x BY <1>4, Zenon DEF ConfigAdvertised, stored, ConfigDelta
  <2>2. x \in NodeObjects BY <1>1, NodeFields
  <2>3. ResultOk(x) BY <1>1, <1>4, <2>2, SMT DEF AddressOk, Replaces, NodeObjects
  <2> HIDE DEF x
  <2>4. QED BY <2>1, <2>3, Zenon DEF NodeOk, NodePublished, DeltaOk
<1>5. QED BY <1>2, <1>3, <1>4

LEMMA PrefixAdvertisedOk ==
  ASSUME NEW o \in NodeObjects, NEW n \in Nodes, NEW pub, NEW D, NEW exact, NodeOk(n, o, pub, D, exact),
         NEW prefix \in OrNone(Prefixes)
  PROVE  LET x == PrefixAdvertised(o, n, prefix, D) IN NodeOk(n, x, pub, D, exact) /\ Replaces(x, o)
<1> DEFINE stored == IF prefix = None THEN [o EXCEPT !.hasPrefix = FALSE, !.changed = TRUE]
                     ELSE [o EXCEPT !.hasPrefix = TRUE, !.prefix = prefix, !.changed = TRUE,
                                    !.global = IF o.seenGlobal THEN @ ELSE GlobalIp(prefix, n),
                                    !.customGlobal = o.seenGlobal /\ @]
           delta == stored.prefix # D.prefix
           ResultOk(x) == /\ x \in NodeObjects /\ x.changed /\ AddressOk(n, x) /\ Replaces(x, o)
                          /\ x.hasConfig = o.hasConfig /\ x.config = o.config /\ x.configDelta = o.configDelta
                          /\ x.hasPrefix = stored.hasPrefix /\ x.prefix = stored.prefix
                          /\ D.hasPrefix /\ x.hasPrefix => (x.prefixDelta <=> delta)
<1>1. /\ stored \in NodeObjects /\ stored.changed /\ AddressOk(n, stored) /\ Replaces(stored, o)
      /\ stored.hasConfig = o.hasConfig /\ stored.config = o.config /\ stored.configDelta = o.configDelta
  <2>1. CASE prefix = None
    <3> DEFINE y == [o EXCEPT !.hasPrefix = FALSE, !.changed = TRUE]
    <3>1. y \in NodeObjects BY NodeFields
    <3>2. /\ y.changed /\ AddressOk(n, y) /\ Replaces(y, o)
          /\ y.hasConfig = o.hasConfig /\ y.config = o.config /\ y.configDelta = o.configDelta
      BY SMT DEF NodeOk, AddressOk, Replaces, NodeObjects
    <3>3. QED BY <2>1, <3>1, <3>2, Zenon
  <2>2. CASE prefix # None
    <3> DEFINE ip == IF o.seenGlobal THEN o.global ELSE GlobalIp(prefix, n)
               c == o.seenGlobal /\ o.customGlobal
               y == [o EXCEPT !.hasPrefix = TRUE, !.prefix = prefix, !.changed = TRUE,
                              !.global = ip, !.customGlobal = c]
    <3>1. ip \in Ips /\ c \in BOOLEAN BY <2>2 DEF NodeObjects, Ips, OrNone, GlobalIp
    <3>2. stored = y BY <2>2, Zenon
    <3>3. y \in NodeObjects
      <4>1. [o EXCEPT !.hasPrefix = TRUE, !.prefix = prefix] \in NodeObjects BY <2>2, NodeFields DEF OrNone
      <4>2. [o EXCEPT !.hasPrefix = TRUE, !.prefix = prefix, !.changed = TRUE] \in NodeObjects BY <4>1, NodeFields
      <4>3. [o EXCEPT !.hasPrefix = TRUE, !.prefix = prefix, !.changed = TRUE, !.global = ip] \in NodeObjects
        <5> HIDE DEF ip
        <5>1. QED BY <4>2, <3>1, NodeFields
      <4> HIDE DEF ip, c
      <4>4. QED BY <4>3, <3>1, NodeFields
    <3>4. /\ y.changed /\ Replaces(y, o) /\ y.hasPrefix /\ y.prefix = prefix
          /\ y.hasConfig = o.hasConfig /\ y.config = o.config /\ y.configDelta = o.configDelta
          /\ y.global = ip /\ y.customGlobal = c /\ y.seenGlobal = o.seenGlobal
      <4> HIDE DEF ip, c
      <4>1. QED BY SMT DEF Replaces, NodeObjects
    <3>5. AddressOk(n, y)
      <4>1. CASE o.seenGlobal
        <5>1. ip = o.global /\ (c <=> o.customGlobal) BY <4>1
        <5> HIDE DEF y, ip, c
        <5>2. QED BY <3>4, <4>1, <5>1, Zenon DEF NodeOk, AddressOk
      <4>2. CASE ~o.seenGlobal
        <5>1. ip = <<prefix, n>> /\ ~c BY <4>2 DEF GlobalIp
        <5>2. ip[2] = n BY <5>1
        <5> HIDE DEF y, ip, c
        <5>3. QED BY <3>4, <4>2, <5>1, <5>2, Zenon DEF AddressOk
      <4>3. QED BY <4>1, <4>2
    <3>6. QED BY <3>2, <3>3, <3>4, <3>5, Zenon
  <2>3. QED BY <2>1, <2>2
<1> HIDE DEF stored
<1>2. CASE ~D.hasPrefix
  <2>1. PrefixAdvertised(o, n, prefix, D) = stored BY <1>2, Zenon DEF PrefixAdvertised, stored
  <2>2. ResultOk(stored) BY <1>1, <1>2, Zenon
  <2>3. QED BY <2>1, <2>2, Zenon DEF NodeOk, NodePublished, DeltaOk
<1>3. CASE D.hasPrefix /\ delta
  <2> DEFINE x == Charged([stored EXCEPT !.prefixDelta = TRUE], "config_mismatch")
  <2>1. PrefixAdvertised(o, n, prefix, D) = x BY <1>3, Zenon DEF PrefixAdvertised, stored, PrefixDelta
  <2>2. x \in NodeObjects BY <1>1, NodeFields, ChargedOk DEF RplErrors
  <2>3. ResultOk(x) BY <1>1, <1>3, <2>2, SMT DEF AddressOk, Replaces, Charged, NodeObjects
  <2> HIDE DEF x
  <2>4. QED BY <2>1, <2>3, Zenon DEF NodeOk, NodePublished, DeltaOk
<1>4. CASE D.hasPrefix /\ ~delta
  <2> DEFINE x == [stored EXCEPT !.prefixDelta = FALSE]
  <2>1. PrefixAdvertised(o, n, prefix, D) = x BY <1>4, Zenon DEF PrefixAdvertised, stored, PrefixDelta
  <2>2. x \in NodeObjects BY <1>1, NodeFields
  <2>3. ResultOk(x) BY <1>1, <1>4, <2>2, SMT DEF AddressOk, Replaces, NodeObjects
  <2> HIDE DEF x
  <2>4. QED BY <2>1, <2>3, Zenon DEF NodeOk, NodePublished, DeltaOk
<1>5. QED BY <1>2, <1>3, <1>4

\* A member of the DODAG whose root has changed its options: only now are its flags
\* those of the new options.
LEMMA FromDodagOk ==
  ASSUME NEW o \in NodeObjects, NEW n \in Nodes, NEW pub, NEW D \in DodagObjects, NodeOk(n, o, pub, D, FALSE)
  PROVE  LET x == FromDodag(o, n, D) IN NodeOk(n, x, pub, D, TRUE) /\ Replaces(x, o)
<1> DEFINE configDelta == IF o.hasConfig THEN ~D.hasConfig \/ ConfigDelta(o.config, D.config) ELSE o.configDelta
           prefixDelta == IF o.hasPrefix THEN ~D.hasPrefix \/ PrefixDelta(o.prefix, D.prefix) ELSE o.prefixDelta
           derives == D.hasPrefix /\ ~o.hasPrefix /\ ~o.seenGlobal
           ip == IF derives THEN GlobalIp(D.prefix, n) ELSE o.global
           c == ~derives /\ o.customGlobal
           silent == [o EXCEPT !.configDelta = configDelta, !.prefixDelta = prefixDelta,
                               !.global = ip, !.customGlobal = c]
           loud == [Charged(silent, "config_mismatch") EXCEPT !.changed = TRUE]
<1>1. configDelta \in BOOLEAN /\ prefixDelta \in BOOLEAN /\ c \in BOOLEAN /\ ip \in Ips
  <2>1. configDelta \in BOOLEAN /\ prefixDelta \in BOOLEAN BY DEF NodeObjects
  <2>2. c \in BOOLEAN OBVIOUS
  <2>3. ip \in Ips BY DEF NodeObjects, DodagObjects, Ips, GlobalIp
  <2>4. QED BY <2>1, <2>2, <2>3
<1>2. /\ o.hasConfig /\ D.hasConfig => (configDelta <=> o.config # D.config)
      /\ o.hasPrefix /\ D.hasPrefix => (prefixDelta <=> o.prefix # D.prefix)
  BY DEF ConfigDelta, PrefixDelta
<1>3. /\ ~derives => (ip = o.global /\ (c <=> o.customGlobal))
      /\ derives => ~o.hasPrefix /\ ~o.seenGlobal /\ ip[2] = n /\ ~c
  BY DEF GlobalIp
<1>4. FromDodag(o, n, D) = IF configDelta \/ prefixDelta THEN loud ELSE silent
  BY Zenon DEF FromDodag
<1> HIDE DEF configDelta, prefixDelta, derives, ip, c
<1>5. silent \in NodeObjects
  <2>1. [o EXCEPT !.configDelta = configDelta] \in NodeObjects BY <1>1, NodeFields
  <2>2. [o EXCEPT !.configDelta = configDelta, !.prefixDelta = prefixDelta] \in NodeObjects BY <1>1, <2>1, NodeFields
  <2>3. [o EXCEPT !.configDelta = configDelta, !.prefixDelta = prefixDelta, !.global = ip] \in NodeObjects
    BY <1>1, <2>2, NodeFields
  <2>4. QED BY <1>1, <2>3, NodeFields
<1>6. /\ Replaces(silent, o) /\ silent.changed = o.changed
      /\ silent.hasConfig = o.hasConfig /\ silent.config = o.config /\ silent.configDelta = configDelta
      /\ silent.hasPrefix = o.hasPrefix /\ silent.prefix = o.prefix /\ silent.prefixDelta = prefixDelta
      /\ silent.global = ip /\ silent.customGlobal = c /\ silent.seenGlobal = o.seenGlobal
  BY SMT DEF Replaces, NodeObjects
<1>7. NodePublished(silent, pub) BY SMT DEF NodeOk, NodePublished, NodeAgrees, NodeObjects
<1> HIDE DEF silent
<1>8. AddressOk(n, silent)
  <2>1. CASE derives BY <2>1, <1>3, <1>6, Zenon DEF AddressOk
  <2>2. CASE ~derives BY <2>2, <1>3, <1>6, Zenon DEF AddressOk, NodeOk
  <2>3. QED BY <2>1, <2>2
<1>9. DeltaOk(silent, D) BY <1>2, <1>6, Zenon DEF DeltaOk
<1>10. NodeOk(n, silent, pub, D, TRUE) BY <1>5, <1>7, <1>8, <1>9, Zenon DEF NodeOk
<1>11. NodeOk(n, loud, pub, D, TRUE) /\ Replaces(loud, silent)
  BY <1>5, <1>10, ErrorOk DEF RplErrors
<1>12. QED BY <1>4, <1>6, <1>10, <1>11, Zenon DEF Replaces

\* A node whose routing table changes.
LEMMA RoutesOk ==
  ASSUME NEW o \in NodeObjects, NEW n, NEW pub, NEW D, NEW exact, NodeOk(n, o, pub, D, exact),
         NEW R \in SUBSET [target : Ips, via : Nodes]
  PROVE  LET x == [o EXCEPT !.routes = R, !.changed = TRUE] IN
           NodeOk(n, x, pub, D, exact) /\ x.dodag = o.dodag /\ x.routes = R
<1> DEFINE x == [o EXCEPT !.routes = R, !.changed = TRUE]
<1>1. x \in NodeObjects BY NodeFields
<1>2. x.changed /\ AddressOk(n, x) /\ (exact => DeltaOk(x, D)) /\ x.dodag = o.dodag /\ x.routes = R
  BY SMT DEF NodeOk, AddressOk, DeltaOk, NodeObjects
<1>3. QED BY <1>1, <1>2, Zenon DEF NodeOk, NodePublished

\* A node that joins or leaves a DODAG advertises nothing any more, so that there is
\* nothing its flags could misjudge.
LEMMA MovedNodeOk ==
  ASSUME NEW o \in NodeObjects, NEW n, NEW pub, NEW D, NEW exact, NodeOk(n, o, pub, D, exact),
         NEW d \in OrNone(DodagRefs), NEW E
  PROVE  LET x == Moved(o, d) IN NodeOk(n, x, pub, E, TRUE) /\ x.dodag = d /\ x.routes = o.routes
<1> DEFINE x == Moved(o, d)
<1>1. x \in NodeObjects BY MovedOk
<1>2. /\ x.dodag = d /\ ~x.hasConfig /\ ~x.hasPrefix /\ x.changed /\ x.routes = o.routes
      /\ x.global = IF o.customGlobal THEN o.global ELSE Unset
      /\ x.seenGlobal = (o.customGlobal /\ o.seenGlobal)
      /\ x.customGlobal = o.customGlobal
  BY SMT DEF NodeObjects, Moved
<1> HIDE DEF x
<1>3. AddressOk(n, x)
  <2>1. CASE o.customGlobal
    BY <2>1, <1>2, Zenon DEF NodeOk, AddressOk
  <2>2. CASE ~o.customGlobal
    BY <2>2, <1>2, Zenon DEF AddressOk
  <2>3. QED BY <2>1, <2>2
<1>4. QED BY <1>1, <1>2, <1>3, Zenon DEF NodeOk, NodePublished, DeltaOk, x

LEMMA NewNodeOk ==
  ASSUME NEW n \in Nodes, NEW pub, NEW D, NEW exact
  PROVE  /\ NodeOk(n, NewNode(n), pub, D, exact)
         /\ NewNode(n).dodag = None /\ NewNode(n).routes = {}
<1> DEFINE x == NewNode(n)
<1>1. x \in NodeObjects
  BY SMT DEF NewNode, NodeObjects, OrNone, Ips, LocalIp, Local, Unset, Zero, Multicast, RplErrors
<1>2. /\ x.changed = TRUE /\ x.dodag = None /\ x.routes = {} /\ x.hasConfig = FALSE /\ x.hasPrefix = FALSE
      /\ x.customGlobal = FALSE /\ x.seenGlobal = FALSE /\ x.global = Unset
  BY DEF NewNode
<1> HIDE DEF x
<1>3. QED BY <1>1, <1>2, Zenon DEF NodeOk, NodePublished, AddressOk, DeltaOk, x

----------------------------------------------------------------------------
(* Databases: the setters of nodes.                                        *)

LEMMA NodeTypes ==
  ASSUME NEW s \in Databases, NEW n \in Nodes, s.node[n] # None
  PROVE  s.node[n] \in NodeObjects /\ s.node[n].dodag \in OrNone(DodagRefs)
         /\ s.node[n].routes \in SUBSET [target : Ips, via : Nodes]
<1>1. s.node[n] \in NodeObjects BY DEF Databases, OrNone
<1>2. QED BY <1>1 DEF NodeObjects

\* Nothing but nodes and their published copies differs between s and t.
OnlyNodes(s, t) ==
  /\ t.dodag = s.dodag /\ t.instance = s.instance /\ t.link = s.link
  /\ t.pubDodag = s.pubDodag /\ t.pubInstance = s.pubInstance /\ t.pubLink = s.pubLink

\* A database one node of which is replaced.
OneNode(s, t, n, x) ==
  t.node[n] = x /\ t.pubNode = s.pubNode /\ \A m \in Nodes \ {n} : t.node[m] = s.node[m]

LEMMA NodeReplaced ==
  ASSUME NEW s \in Databases, NEW n \in Nodes, NEW x \in NodeObjects
  PROVE  LET t == [s EXCEPT !.node[n] = x] IN t \in Databases /\ OneNode(s, t, n, x) /\ OnlyNodes(s, t)
<1> DEFINE t == [s EXCEPT !.node[n] = x]
<1>1. t \in Databases BY SMT DEF Databases, OrNone
<1>2. s.node \in [Nodes -> OrNone(NodeObjects)] BY DEF Databases
<1>3. t.node = [s.node EXCEPT ![n] = x] /\ t.pubNode = s.pubNode BY SMT DEF Databases
<1>4. OnlyNodes(s, t) BY SMT DEF Databases, OnlyNodes
<1> HIDE DEF t
<1>5. OneNode(s, t, n, x) BY <1>2, <1>3 DEF OneNode
<1>6. QED BY <1>1, <1>4, <1>5, Zenon DEF t

\* Nodes of s stay known in t, in their DODAG; the nodes that are new are in none.
NodesStay(s, t) ==
  /\ \A m \in Nodes : s.node[m] # None => t.node[m] # None /\ t.node[m].dodag = s.node[m].dodag
  /\ \A m \in Nodes : s.node[m] = None /\ t.node[m] # None => t.node[m].dodag = None

\* The general step of a setter of nodes.
LEMMA NodesStep ==
  ASSUME NEW s, NEW X, NEW Y, Good(s, X), NEW t \in Databases, OnlyNodes(s, t), NodesStay(s, t), NodesOk(t, Y)
  PROVE  Good(t, Y) /\ Kept(s, t)
<1>1. MembersOk(t)
  <2> SUFFICES ASSUME NEW m \in Nodes, NEW d \in DodagRefs
               PROVE  (t.dodag[d] # None /\ m \in t.dodag[d].nodes) <=> (t.node[m] # None /\ t.node[m].dodag = d)
    BY DEF MembersOk
  <2>1. (s.dodag[d] # None /\ m \in s.dodag[d].nodes) <=> (s.node[m] # None /\ s.node[m].dodag = d)
    BY DEF Good, MembersOk
  <2>2. d # None BY NoneAssumption
  <2>3. QED BY <2>1, <2>2, Zenon DEF OnlyNodes, NodesStay
<1>2. InstancesOk(t) BY Zenon DEF Good, InstancesOk, OnlyNodes
<1>3. LinksOk(t)
  <2>1. \A l \in LinkRefs : l[1] \in Nodes /\ l[2] \in Nodes BY DEF LinkRefs
  <2>2. ASSUME NEW l \in LinkRefs, t.link[l] # None PROVE t.node[l[1]] # None /\ t.node[l[2]] # None
    <3>1. s.link[l] # None BY <2>2 DEF OnlyNodes
    <3>2. s.node[l[1]] # None /\ s.node[l[2]] # None BY <3>1, Zenon DEF Good, LinksOk
    <3>3. QED BY <2>1, <3>2, Zenon DEF NodesStay
  <2>3. LinksOk(s) /\ t.link = s.link BY DEF Good, OnlyNodes
  <2>4. QED BY <2>2, <2>3, Zenon DEF LinksOk
<1>4. OthersPublished(t) BY Zenon DEF Good, OthersPublished, OnlyNodes
<1>5. Kept(s, t) BY Zenon DEF Kept, OnlyNodes, NodesStay
<1>6. QED BY <1>1, <1>2, <1>3, <1>4, <1>5, Zenon DEF Good

\* What Good says of one node.
LEMMA NodeIsOk ==
  ASSUME NEW s, NEW X, Good(s, X), NEW n \in Nodes, s.node[n] # None
  PROVE  LET o == s.node[n] IN
         /\ s \in Databases /\ o \in NodeObjects /\ o.routes \in SUBSET [target : Ips, via : Nodes]
         /\ o.dodag \in OrNone(DodagRefs)
         /\ NodeOk(n, o, s.pubNode[n], s.dodag[o.dodag], o.dodag \notin X \cup {None})
         /\ \A r \in o.routes : s.node[r.via] # None
BY NodeTypes, Zenon DEF Good, NodesOk

\* One node is replaced by an object of the same DODAG.
LEMMA NodeStep ==
  ASSUME NEW s, NEW X, Good(s, X), NEW n \in Nodes, s.node[n] # None, NEW x,
         NodeOk(n, x, s.pubNode[n], s.dodag[s.node[n].dodag], s.node[n].dodag \notin X \cup {None}),
         x.dodag = s.node[n].dodag,
         \A r \in x.routes : s.node[r.via] # None
  PROVE  LET t == [s EXCEPT !.node[n] = x] IN
         Good(t, X) /\ Kept(s, t) /\ OnlyNodes(s, t) /\ OneNode(s, t, n, x)
<1> DEFINE t == [s EXCEPT !.node[n] = x]
<1>1. x \in NodeObjects /\ x # None /\ s \in Databases BY NoneAssumption DEF NodeOk, Good
<1>2. t \in Databases /\ OnlyNodes(s, t) /\ OneNode(s, t, n, x) BY <1>1, NodeReplaced
<1> HIDE DEF t
<1>3. NodesStay(s, t) BY <1>1, <1>2, Zenon DEF NodesStay, OneNode
<1>4. NodesOk(t, X)
  <2> SUFFICES ASSUME NEW m \in Nodes, t.node[m] # None
               PROVE  /\ NodeOk(m, t.node[m], t.pubNode[m], t.dodag[t.node[m].dodag], t.node[m].dodag \notin X \cup {None})
                      /\ \A r \in t.node[m].routes : t.node[r.via] # None
    BY Zenon DEF NodesOk
  <2>1. \A r \in t.node[m].routes : r.via \in Nodes BY <1>2, NodeTypes
  <2>2. CASE m = n BY <2>1, <2>2, <1>2, <1>3, Zenon DEF OnlyNodes, OneNode, NodesStay
  <2>3. CASE m # n
    <3>1. t.node[m] = s.node[m] BY <1>2, <2>3 DEF OneNode
    <3>2. /\ NodeOk(m, s.node[m], s.pubNode[m], s.dodag[s.node[m].dodag], s.node[m].dodag \notin X \cup {None})
          /\ \A r \in s.node[m].routes : s.node[r.via] # None
      BY <3>1, NodeIsOk
    <3>3. NodeOk(m, t.node[m], t.pubNode[m], t.dodag[t.node[m].dodag], t.node[m].dodag \notin X \cup {None})
      BY <3>1, <3>2, <1>2, Zenon DEF OnlyNodes, OneNode
    <3>4. QED BY <2>1, <3>1, <3>2, <3>3, <1>3, Zenon DEF NodesStay
  <2>4. QED BY <2>2, <2>3
<1>5. Good(t, X) /\ Kept(s, t) BY <1>2, <1>3, <1>4, NodesStep
<1>6. QED BY <1>2, <1>5, Zenon DEF t

LEMMA NodeSetChangedOk ==
  ASSUME NEW s, NEW X, Good(s, X), NEW n \in Nodes, s.node[n] # None
  PROVE  LET t == NodeSetChanged(s, n) IN Good(t, X) /\ Kept(s, t)
<1> DEFINE x == [s.node[n] EXCEPT !.changed = TRUE]
<1>1. NodeOk(n, x, s.pubNode[n], s.dodag[s.node[n].dodag], s.node[n].dodag \notin X \cup {None}) /\ Replaces(x, s.node[n])
  BY NodeIsOk, AnnouncedOk
<1>2. \A r \in x.routes : s.node[r.via] # None BY <1>1, NodeIsOk DEF Replaces
<1>3. NodeSetChanged(s, n) = [s EXCEPT !.node[n] = x] BY DEF NodeSetChanged
<1> HIDE DEF x
<1>4. QED BY <1>1, <1>2, <1>3, NodeStep DEF Replaces

LEMMA AddErrorOk ==
  ASSUME NEW s, NEW X, Good(s, X), NEW n \in Nodes, s.node[n] # None, NEW e \in RplErrors
  PROVE  LET t == AddError(s, n, e) IN Good(t, X) /\ Kept(s, t)
<1> DEFINE x == [Charged(s.node[n], e) EXCEPT !.changed = TRUE]
<1>1. NodeOk(n, x, s.pubNode[n], s.dodag[s.node[n].dodag], s.node[n].dodag \notin X \cup {None}) /\ Replaces(x, s.node[n])
  BY NodeIsOk, ErrorOk
<1>2. \A r \in x.routes : s.node[r.via] # None BY <1>1, NodeIsOk DEF Replaces
<1>3. AddError(s, n, e) = [s EXCEPT !.node[n] = x] BY DEF AddError
<1> HIDE DEF x
<1>4. QED BY <1>1, <1>2, <1>3, NodeStep DEF Replaces

LEMMA PubReplaced ==
  ASSUME NEW s \in Databases, NEW n \in Nodes, NEW y \in NodeObjects
  PROVE  LET t == [s EXCEPT !.pubNode[n] = y] IN
         /\ t \in Databases /\ OnlyNodes(s, t) /\ t.node = s.node
         /\ t.pubNode[n] = y /\ \A m \in Nodes \ {n} : t.pubNode[m] = s.pubNode[m]
<1> DEFINE t == [s EXCEPT !.pubNode[n] = y]
<1>1. t \in Databases BY SMT DEF Databases, OrNone
<1>2. s.pubNode \in [Nodes -> OrNone(NodeObjects)] BY DEF Databases
<1>3. t.pubNode = [s.pubNode EXCEPT ![n] = y] /\ t.node = s.node BY SMT DEF Databases
<1>4. OnlyNodes(s, t) BY SMT DEF Databases, OnlyNodes
<1> HIDE DEF t
<1>5. t.pubNode[n] = y /\ \A m \in Nodes \ {n} : t.pubNode[m] = s.pubNode[m] BY <1>2, <1>3
<1>6. QED BY <1>1, <1>3, <1>4, <1>5, Zenon DEF t

LEMMA AddPatchedErrorOk ==
  ASSUME NEW s, NEW X, Good(s, X), NEW n \in Nodes, s.node[n] # None, NEW e \in RplErrors
  PROVE  LET t == AddPatchedError(s, n, e) IN Good(t, X) /\ Kept(s, t)
<1> DEFINE x == Charged(s.node[n], e)
           counted == [s EXCEPT !.node[n] = x]
           exact == s.node[n].dodag \notin X \cup {None}
           D == s.dodag[s.node[n].dodag]
<1>1. /\ s.node[n] \in NodeObjects /\ s \in Databases
      /\ NodeOk(n, s.node[n], s.pubNode[n], D, exact)
      /\ \A r \in s.node[n].routes : s.node[r.via] # None
  BY NodeIsOk
<1>2. CASE s.pubNode[n] = None
  <2>1. NodeOk(n, x, s.pubNode[n], D, exact) /\ Replaces(x, s.node[n]) BY <1>1, <1>2, UnpublishedOk
  <2>2. AddPatchedError(s, n, e) = counted BY <1>2, Zenon DEF AddPatchedError
  <2>3. \A r \in x.routes : s.node[r.via] # None BY <1>1, <2>1, Zenon DEF Replaces
  <2> HIDE DEF x
  <2>4. QED BY <2>1, <2>2, <2>3, NodeStep DEF Replaces
<1>3. CASE s.pubNode[n] # None
  <2> DEFINE y == [s.pubNode[n] EXCEPT !.errors[e] = x.errors[e]]
             t == [counted EXCEPT !.pubNode[n] = y]
  <2>1. s.pubNode[n] \in NodeObjects BY <1>1, <1>3 DEF Databases, OrNone
  <2>2. NodeOk(n, x, y, D, exact) /\ Replaces(x, s.node[n]) /\ y \in NodeObjects BY <1>1, <2>1, PatchedOk
  <2>3. x \in NodeObjects /\ x # None BY <2>2, NoneAssumption DEF NodeOk
  <2> HIDE DEF x
  <2>4. counted \in Databases /\ OneNode(s, counted, n, x) /\ OnlyNodes(s, counted) BY <1>1, <2>3, NodeReplaced
  <2>5. AddPatchedError(s, n, e) = t
    <3>1. counted.node[n] = x /\ counted.pubNode = s.pubNode BY <2>4 DEF OneNode
    <3>2. AddPatchedError(s, n, e) = [counted EXCEPT !.pubNode[n].errors[e] = counted.node[n].errors[e]]
      BY <1>3, Zenon DEF AddPatchedError, x
    <3> HIDE DEF counted
    <3>3. QED BY <3>1, <3>2
  <2> HIDE DEF counted
  <2>6. /\ t \in Databases /\ OnlyNodes(counted, t) /\ t.node = counted.node
        /\ t.pubNode[n] = y /\ \A m \in Nodes \ {n} : t.pubNode[m] = counted.pubNode[m]
    BY <2>2, <2>4, PubReplaced
  <2> HIDE DEF t
  <2>7. OnlyNodes(s, t) /\ t.node[n] = x /\ t.pubNode[n] = y
    BY <2>4, <2>6, Zenon DEF OnlyNodes, OneNode
  <2>8. \A m \in Nodes \ {n} : t.node[m] = s.node[m] /\ t.pubNode[m] = s.pubNode[m]
    BY <2>4, <2>6, Zenon DEF OneNode
  <2>9. NodesStay(s, t) BY <2>2, <2>3, <2>7, <2>8, Zenon DEF NodesStay, Replaces
  <2>10. NodesOk(t, X)
    <3> SUFFICES ASSUME NEW m \in Nodes, t.node[m] # None
                 PROVE  /\ NodeOk(m, t.node[m], t.pubNode[m], t.dodag[t.node[m].dodag], t.node[m].dodag \notin X \cup {None})
                        /\ \A r \in t.node[m].routes : t.node[r.via] # None
      BY Zenon DEF NodesOk
    <3>1. \A r \in t.node[m].routes : r.via \in Nodes BY <2>6, NodeTypes
    <3>2. CASE m = n
      <4>1. NodeOk(n, x, y, t.dodag[x.dodag], x.dodag \notin X \cup {None}) BY <2>2, <2>7, Zenon DEF Replaces, OnlyNodes
      <4>2. \A r \in x.routes : s.node[r.via] # None BY <1>1, <2>2, Zenon DEF Replaces
      <4>3. QED BY <3>1, <3>2, <4>1, <4>2, <2>7, <2>9, Zenon DEF NodesStay
    <3>3. CASE m # n
      <4>1. t.node[m] = s.node[m] /\ t.pubNode[m] = s.pubNode[m] BY <2>8, <3>3
      <4>2. /\ NodeOk(m, s.node[m], s.pubNode[m], s.dodag[s.node[m].dodag], s.node[m].dodag \notin X \cup {None})
            /\ \A r \in s.node[m].routes : s.node[r.via] # None
        BY <4>1, NodeIsOk
      <4>3. NodeOk(m, t.node[m], t.pubNode[m], t.dodag[t.node[m].dodag], t.node[m].dodag \notin X \cup {None})
        BY <4>1, <4>2, <2>7, Zenon DEF OnlyNodes
      <4>4. QED BY <3>1, <4>1, <4>2, <4>3, <2>9, Zenon DEF NodesStay
    <3>4. QED BY <3>2, <3>3
  <2>11. QED BY <2>5, <2>6, <2>7, <2>9, <2>10, NodesStep
<1>4. QED BY <1>2, <1>3

LEMMA SetIpOk ==
  ASSUME NEW s, NEW X, Good(s, X), NEW n \in Nodes, s.node[n] # None, NEW ip \in Addresses \ {Unset}
  PROVE  LET t == SetIp(s, n, ip) IN Good(t, X) /\ Kept(s, t)
<1> DEFINE o == s.node[n]
           x == IF IsLocal(ip) THEN LocalHeard(o, n, ip) ELSE GlobalHeard(o, n, ip)
           heard == [s EXCEPT !.node[n] = x]
           exact == o.dodag \notin X \cup {None}
           D == s.dodag[o.dodag]
<1>1. ip \in Ips /\ ip # Unset BY DEF Addresses, Ips, Unset, Multicast
<1>2. NodeOk(n, x, s.pubNode[n], D, exact) /\ Replaces(x, o)
  <2>1. o \in NodeObjects /\ NodeOk(n, o, s.pubNode[n], D, exact) BY NodeIsOk
  <2> HIDE DEF o, D, exact
  <2>2. CASE IsLocal(ip) BY <1>1, <2>1, <2>2, LocalHeardOk
  <2>3. CASE ~IsLocal(ip) BY <1>1, <2>1, <2>3, GlobalHeardOk
  <2>4. QED BY <2>2, <2>3
<1>3. \A r \in x.routes : s.node[r.via] # None BY <1>2, NodeIsOk, Zenon DEF Replaces
<1>4. Good(heard, X) /\ Kept(s, heard)
  <2> HIDE DEF x
  <2>1. QED BY <1>2, <1>3, NodeStep DEF Replaces
<1>5. SetIp(s, n, ip) \in {heard, AddPatchedError(s, n, "invalid_ip"), AddPatchedError(heard, n, "invalid_prefix")}
  BY Zenon DEF SetIp
<1> HIDE DEF heard
<1>6. Good(AddPatchedError(s, n, "invalid_ip"), X) /\ Kept(s, AddPatchedError(s, n, "invalid_ip"))
  BY AddPatchedErrorOk DEF RplErrors
<1>7. LET t == AddPatchedError(heard, n, "invalid_prefix") IN Good(t, X) /\ Kept(s, t)
  <2>1. heard.node[n] # None BY <1>4 DEF Kept
  <2>2. LET t == AddPatchedError(heard, n, "invalid_prefix") IN Good(t, X) /\ Kept(heard, t)
    BY <1>4, <2>1, AddPatchedErrorOk DEF RplErrors
  <2>3. QED BY <1>4, <2>2, Zenon DEF Kept
<1>8. QED BY <1>4, <1>5, <1>6, <1>7, Zenon

LEMMA NodeFromDioOk ==
  ASSUME NEW s, NEW X, Good(s, X), NEW n \in Nodes, s.node[n] # None, NEW rank \in Nat
  PROVE  LET t == NodeFromDio(s, n, rank) IN Good(t, X) /\ Kept(s, t)
<1> DEFINE x == [s.node[n] EXCEPT !.hasRank = TRUE, !.rank = rank, !.changed = TRUE]
<1>1. NodeOk(n, x, s.pubNode[n], s.dodag[s.node[n].dodag], s.node[n].dodag \notin X \cup {None}) /\ Replaces(x, s.node[n])
  BY NodeIsOk, RankedOk
<1>2. \A r \in x.routes : s.node[r.via] # None BY <1>1, NodeIsOk DEF Replaces
<1>3. NodeFromDio(s, n, rank) = [s EXCEPT !.node[n] = x] BY DEF NodeFromDio
<1> HIDE DEF x
<1>4. QED BY <1>1, <1>2, <1>3, NodeStep DEF Replaces

LEMMA KeptRefl ==
  ASSUME NEW s
  PROVE  Kept(s, s)
BY DEF Kept

LEMMA KeptTrans ==
  ASSUME NEW s, NEW t, NEW u, Kept(s, t), Kept(t, u)
  PROVE  Kept(s, u)
BY Zenon DEF Kept

LEMMA NodeFromHopByHopOk ==
  ASSUME NEW s, NEW X, Good(s, X), NEW n \in Nodes, s.node[n] # None, NEW rank \in Nat
  PROVE  LET t == NodeFromHopByHop(s, n, rank) IN Good(t, X) /\ Kept(s, t)
BY NodeFromDioOk, KeptRefl, Zenon DEF NodeFromHopByHop

LEMMA NodeConfigOk ==
  ASSUME NEW s, NEW X, Good(s, X), NEW n \in Nodes, s.node[n] # None, NEW config \in OrNone(Configs),
         NEW d \in DodagRefs, s.node[n].dodag = d
  PROVE  LET t == NodeConfig(s, n, config, d) IN Good(t, X) /\ Kept(s, t)
<1> DEFINE x == ConfigAdvertised(s.node[n], config, s.dodag[d])
<1>1. NodeOk(n, x, s.pubNode[n], s.dodag[s.node[n].dodag], s.node[n].dodag \notin X \cup {None}) /\ Replaces(x, s.node[n])
  BY NodeIsOk, ConfigAdvertisedOk
<1>2. \A r \in x.routes : s.node[r.via] # None BY <1>1, NodeIsOk DEF Replaces
<1>3. NodeConfig(s, n, config, d) = [s EXCEPT !.node[n] = x] BY DEF NodeConfig
<1> HIDE DEF x
<1>4. QED BY <1>1, <1>2, <1>3, NodeStep DEF Replaces

LEMMA NodePrefixOk ==
  ASSUME NEW s, NEW X, Good(s, X), NEW n \in Nodes, s.node[n] # None, NEW prefix \in OrNone(Prefixes),
         NEW d \in DodagRefs, s.node[n].dodag = d
  PROVE  LET t == NodePrefix(s, n, prefix, d) IN Good(t, X) /\ Kept(s, t)
<1> DEFINE x == PrefixAdvertised(s.node[n], n, prefix, s.dodag[d])
<1>1. NodeOk(n, x, s.pubNode[n], s.dodag[s.node[n].dodag], s.node[n].dodag \notin X \cup {None}) /\ Replaces(x, s.node[n])
  BY NodeIsOk, PrefixAdvertisedOk
<1>2. \A r \in x.routes : s.node[r.via] # None BY <1>1, NodeIsOk DEF Replaces
<1>3. NodePrefix(s, n, prefix, d) = [s EXCEPT !.node[n] = x] BY DEF NodePrefix
<1> HIDE DEF x
<1>4. QED BY <1>1, <1>2, <1>3, NodeStep DEF Replaces

LEMMA AddRouteOk ==
  ASSUME NEW s, NEW X, Good(s, X), NEW n \in Nodes, s.node[n] # None, NEW target \in Ips,
         NEW via \in Nodes, s.node[via] # None
  PROVE  LET t == AddRoute(s, n, target, via) IN Good(t, X) /\ Kept(s, t)
<1> DEFINE route == [target |-> target, via |-> via]
           o == s.node[n]
           R == {r \in o.routes : r.target # target} \cup {route}
           x == [o EXCEPT !.routes = R, !.changed = TRUE]
<1>1. /\ o \in NodeObjects /\ o.routes \in SUBSET [target : Ips, via : Nodes]
      /\ NodeOk(n, o, s.pubNode[n], s.dodag[o.dodag], o.dodag \notin X \cup {None})
      /\ \A r \in o.routes : s.node[r.via] # None
  BY NodeIsOk
<1>2. R \in SUBSET [target : Ips, via : Nodes] BY <1>1
<1>3. \A r \in R : s.node[r.via] # None BY <1>1
<1> HIDE DEF R
<1>4. NodeOk(n, x, s.pubNode[n], s.dodag[o.dodag], o.dodag \notin X \cup {None}) /\ x.dodag = o.dodag /\ x.routes = R
  <2> HIDE DEF o
  <2>1. QED BY <1>1, <1>2, RoutesOk, ZenonT(40)
<1>5. AddRoute(s, n, target, via) = IF route \in o.routes THEN s ELSE [s EXCEPT !.node[n] = x]
  BY DEF AddRoute, R
<1> HIDE DEF x
<1>6. LET t == [s EXCEPT !.node[n] = x] IN Good(t, X) /\ Kept(s, t)
  BY <1>3, <1>4, NodeStep
<1>7. QED BY <1>5, <1>6, KeptRefl, Zenon

LEMMA DelRouteOk ==
  ASSUME NEW s, NEW X, Good(s, X), NEW n \in Nodes, s.node[n] # None, NEW target, NEW via
  PROVE  LET t == DelRoute(s, n, target, via) IN Good(t, X) /\ Kept(s, t)
<1> DEFINE route == [target |-> target, via |-> via]
           o == s.node[n]
           R == o.routes \ {route}
           x == [o EXCEPT !.routes = R, !.changed = TRUE]
<1>1. /\ o \in NodeObjects /\ o.routes \in SUBSET [target : Ips, via : Nodes]
      /\ NodeOk(n, o, s.pubNode[n], s.dodag[o.dodag], o.dodag \notin X \cup {None})
      /\ \A r \in o.routes : s.node[r.via] # None
  BY NodeIsOk
<1>2. R \in SUBSET [target : Ips, via : Nodes] BY <1>1
<1>3. \A r \in R : s.node[r.via] # None BY <1>1
<1> HIDE DEF R
<1>4. NodeOk(n, x, s.pubNode[n], s.dodag[o.dodag], o.dodag \notin X \cup {None}) /\ x.dodag = o.dodag /\ x.routes = R
  <2> HIDE DEF o
  <2>1. QED BY <1>1, <1>2, RoutesOk, ZenonT(40)
<1>5. DelRoute(s, n, target, via) = IF route \notin o.routes THEN s ELSE [s EXCEPT !.node[n] = x]
  BY DEF DelRoute, R
<1> HIDE DEF x
<1>6. LET t == [s EXCEPT !.node[n] = x] IN Good(t, X) /\ Kept(s, t)
  BY <1>3, <1>4, NodeStep
<1>7. QED BY <1>5, <1>6, KeptRefl, Zenon

LEMMA CheckLoopOk ==
  ASSUME NEW s, NEW X, Good(s, X), NEW n \in Nodes, s.node[n] # None, NEW parent
  PROVE  LET t == CheckLoop(s, n, parent) IN Good(t, X) /\ Kept(s, t)
<1>1. LET t == AddError(s, n, "route_loop") IN Good(t, X) /\ Kept(s, t) BY AddErrorOk DEF RplErrors
<1>2. QED BY <1>1, KeptRefl, Zenon DEF CheckLoop

LEMMA GetNodeOk ==
  ASSUME NEW s, NEW X, Good(s, X), NEW n \in Nodes
  PROVE  LET t == GetNode(s, n) IN Good(t, X) /\ Kept(s, t) /\ t.node[n] # None
<1>1. CASE s.node[n] # None BY <1>1, KeptRefl, Zenon DEF GetNode
<1>2. CASE s.node[n] = None
  <2> DEFINE x == NewNode(n)
             t == [s EXCEPT !.node[n] = x]
  <2>1. /\ x.dodag = None /\ x.routes = {}
        /\ \A pub, D, exact : NodeOk(n, x, pub, D, exact)
    BY NewNodeOk
  <2>2. x \in NodeObjects /\ x # None /\ s \in Databases BY <2>1, NoneAssumption DEF NodeOk, Good
  <2>3. GetNode(s, n) = t BY <1>2 DEF GetNode
  <2> HIDE DEF x
  <2>4. t \in Databases /\ OnlyNodes(s, t) /\ OneNode(s, t, n, x) BY <2>2, NodeReplaced
  <2> HIDE DEF t
  <2>5. NodesStay(s, t) BY <1>2, <2>1, <2>4, Zenon DEF NodesStay, OneNode
  <2>6. NodesOk(t, X)
    <3> SUFFICES ASSUME NEW m \in Nodes, t.node[m] # None
                 PROVE  /\ NodeOk(m, t.node[m], t.pubNode[m], t.dodag[t.node[m].dodag], t.node[m].dodag \notin X \cup {None})
                        /\ \A r \in t.node[m].routes : t.node[r.via] # None
      BY Zenon DEF NodesOk
    <3>1. \A r \in t.node[m].routes : r.via \in Nodes BY <2>4, NodeTypes
    <3>2. CASE m = n BY <2>1, <2>4, <3>2 DEF OneNode
    <3>3. CASE m # n
      <4>1. t.node[m] = s.node[m] /\ t.pubNode[m] = s.pubNode[m] BY <2>4, <3>3 DEF OneNode
      <4>2. /\ NodeOk(m, s.node[m], s.pubNode[m], s.dodag[s.node[m].dodag], s.node[m].dodag \notin X \cup {None})
            /\ \A r \in s.node[m].routes : s.node[r.via] # None
        BY <4>1, NodeIsOk
      <4>3. NodeOk(m, t.node[m], t.pubNode[m], t.dodag[t.node[m].dodag], t.node[m].dodag \notin X \cup {None})
        BY <4>1, <4>2, <2>4, Zenon DEF OnlyNodes
      <4>4. QED BY <3>1, <4>1, <4>2, <4>3, <2>5, Zenon DEF NodesStay
    <3>4. QED BY <3>2, <3>3
  <2>7. Good(t, X) /\ Kept(s, t) BY <2>4, <2>5, <2>6, NodesStep
  <2>8. QED BY <2>2, <2>3, <2>4, <2>7, Zenon DEF OneNode
<1>3. QED BY <1>1, <1>2

----------------------------------------------------------------------------
(* Databases: the setters of DODAGs and of RPL instances.                  *)

LEMMA DodagFields ==
  ASSUME NEW o \in DodagObjects
  PROVE  /\ \A v \in BOOLEAN : /\ [o EXCEPT !.changed = v] \in DodagObjects
                               /\ [o EXCEPT !.hasConfig = v] \in DodagObjects
                               /\ [o EXCEPT !.hasPrefix = v] \in DodagObjects
         /\ \A M \in SUBSET Nodes : [o EXCEPT !.nodes = M] \in DodagObjects
         /\ \A i \in Instances : [o EXCEPT !.instance = i] \in DodagObjects
         /\ \A dio \in Instances \X Nat : [o EXCEPT !.dio = dio] \in DodagObjects
         /\ \A c \in Configs \cup {Zero} : [o EXCEPT !.config = c] \in DodagObjects
         /\ \A p \in Prefixes \cup {Zero} : [o EXCEPT !.prefix = p] \in DodagObjects
<1>1. \A v \in BOOLEAN : /\ [o EXCEPT !.changed = v] \in DodagObjects
                         /\ [o EXCEPT !.hasConfig = v] \in DodagObjects
                         /\ [o EXCEPT !.hasPrefix = v] \in DodagObjects
  BY SMT DEF DodagObjects
<1>2. \A M \in SUBSET Nodes : [o EXCEPT !.nodes = M] \in DodagObjects BY SMT DEF DodagObjects
<1>3. \A i \in Instances : [o EXCEPT !.instance = i] \in DodagObjects BY SMT DEF DodagObjects, OrNone
<1>4. \A dio \in Instances \X Nat : [o EXCEPT !.dio = dio] \in DodagObjects
  <2>1. SUFFICES ASSUME NEW dio \in OrNone(Instances \X Nat) PROVE [o EXCEPT !.dio = dio] \in DodagObjects
    BY Zenon DEF OrNone
  <2>2. QED BY SMT DEF DodagObjects
<1>5. \A c \in Configs \cup {Zero} : [o EXCEPT !.config = c] \in DodagObjects BY SMT DEF DodagObjects
<1>6. \A p \in Prefixes \cup {Zero} : [o EXCEPT !.prefix = p] \in DodagObjects BY SMT DEF DodagObjects
<1>7. QED BY <1>1, <1>2, <1>3, <1>4, <1>5, <1>6, Zenon

\* What differs between s and t besides the DODAGs and the instances: nothing.
OnlyDodags(s, t) ==
  /\ t.node = s.node /\ t.pubNode = s.pubNode /\ t.link = s.link
  /\ t.pubDodag = s.pubDodag /\ t.pubInstance = s.pubInstance /\ t.pubLink = s.pubLink

LEMMA DodagReplaced ==
  ASSUME NEW s \in Databases, NEW d \in DodagRefs, NEW x \in DodagObjects
  PROVE  LET t == [s EXCEPT !.dodag[d] = x] IN
         /\ t \in Databases /\ OnlyDodags(s, t) /\ t.instance = s.instance
         /\ t.dodag[d] = x /\ \A e \in DodagRefs \ {d} : t.dodag[e] = s.dodag[e]
<1> DEFINE t == [s EXCEPT !.dodag[d] = x]
<1>1. t \in Databases BY SMT DEF Databases, OrNone
<1>2. s.dodag \in [DodagRefs -> OrNone(DodagObjects)] BY DEF Databases
<1>3. t.dodag = [s.dodag EXCEPT ![d] = x] /\ t.instance = s.instance BY SMT DEF Databases
<1>4. OnlyDodags(s, t) BY SMT DEF Databases, OnlyDodags
<1> HIDE DEF t
<1>5. t.dodag[d] = x /\ \A e \in DodagRefs \ {d} : t.dodag[e] = s.dodag[e] BY <1>2, <1>3
<1>6. QED BY <1>1, <1>3, <1>4, <1>5, Zenon DEF t

LEMMA InstanceReplaced ==
  ASSUME NEW s \in Databases, NEW i \in Instances, NEW x \in InstanceObjects
  PROVE  LET t == [s EXCEPT !.instance[i] = x] IN
         /\ t \in Databases /\ OnlyDodags(s, t) /\ t.dodag = s.dodag
         /\ t.instance[i] = x /\ \A j \in Instances \ {i} : t.instance[j] = s.instance[j]
<1> DEFINE t == [s EXCEPT !.instance[i] = x]
<1>1. t \in Databases BY SMT DEF Databases, OrNone
<1>2. s.instance \in [Instances -> OrNone(InstanceObjects)] BY DEF Databases
<1>3. t.instance = [s.instance EXCEPT ![i] = x] /\ t.dodag = s.dodag BY SMT DEF Databases
<1>4. OnlyDodags(s, t) BY SMT DEF Databases, OnlyDodags
<1> HIDE DEF t
<1>5. t.instance[i] = x /\ \A j \in Instances \ {i} : t.instance[j] = s.instance[j] BY <1>2, <1>3
<1>6. QED BY <1>1, <1>3, <1>4, <1>5, Zenon DEF t

LEMMA DodagTypes ==
  ASSUME NEW s \in Databases, NEW d \in DodagRefs, s.dodag[d] # None
  PROVE  s.dodag[d] \in DodagObjects /\ s.dodag[d].nodes \in SUBSET Nodes
         /\ s.dodag[d].instance \in OrNone(Instances)
<1>1. s.dodag[d] \in DodagObjects BY DEF Databases, OrNone
<1>2. QED BY <1>1 DEF DodagObjects

LEMMA InstanceTypes ==
  ASSUME NEW s \in Databases, NEW i \in Instances, s.instance[i] # None
  PROVE  s.instance[i] \in InstanceObjects /\ s.instance[i].dodags \in SUBSET DodagRefs
<1>1. s.instance[i] \in InstanceObjects BY DEF Databases, OrNone
<1>2. QED BY <1>1 DEF InstanceObjects

\* The mismatch flags depend on the options of a DODAG only.
SameOptions(D, E) ==
  D.hasConfig = E.hasConfig /\ D.config = E.config /\ D.hasPrefix = E.hasPrefix /\ D.prefix = E.prefix

LEMMA OptionsKept ==
  ASSUME NEW n, NEW o, NEW pub, NEW D, NEW E, NEW exact, NodeOk(n, o, pub, D, exact), exact => SameOptions(D, E)
  PROVE  NodeOk(n, o, pub, E, exact)
BY Zenon DEF NodeOk, DeltaOk, SameOptions

\* A node is in the DODAG it names, which is then known.
LEMMA NamedDodag ==
  ASSUME NEW s, NEW X, Good(s, X), NEW n \in Nodes, s.node[n] # None, s.node[n].dodag # None
  PROVE  s.node[n].dodag \in DodagRefs /\ s.dodag[s.node[n].dodag] # None /\ n \in s.dodag[s.node[n].dodag].nodes
<1>1. s.node[n].dodag \in DodagRefs BY NodeIsOk DEF OrNone
<1>2. QED BY <1>1 DEF Good, MembersOk

\* Nodes stand still while the DODAGs outside Y keep their options.
LEMMA NodesOkKept ==
  ASSUME NEW s, NEW X, NEW Y, Good(s, X), X \subseteq Y, NEW t, OnlyDodags(s, t),
         \A d \in DodagRefs \ Y : s.dodag[d] # None => SameOptions(s.dodag[d], t.dodag[d])
  PROVE  NodesOk(t, Y)
<1> SUFFICES ASSUME NEW m \in Nodes, t.node[m] # None
             PROVE  /\ NodeOk(m, t.node[m], t.pubNode[m], t.dodag[t.node[m].dodag], t.node[m].dodag \notin Y \cup {None})
                    /\ \A r \in t.node[m].routes : t.node[r.via] # None
  BY Zenon DEF NodesOk
<1> DEFINE o == s.node[m]
<1>1. t.node[m] = o /\ o # None /\ t.pubNode[m] = s.pubNode[m] /\ t.node = s.node BY DEF OnlyDodags
<1>2. /\ NodeOk(m, o, s.pubNode[m], s.dodag[o.dodag], o.dodag \notin X \cup {None})
      /\ \A r \in o.routes : s.node[r.via] # None
  BY <1>1, NodeIsOk
<1>3. NodeOk(m, o, s.pubNode[m], s.dodag[o.dodag], o.dodag \notin Y \cup {None})
  BY <1>2 DEF NodeOk
<1>4. o.dodag \notin Y \cup {None} => SameOptions(s.dodag[o.dodag], t.dodag[o.dodag])
  BY <1>1, NamedDodag
<1>5. NodeOk(m, o, s.pubNode[m], t.dodag[o.dodag], o.dodag \notin Y \cup {None})
  BY <1>3, <1>4, OptionsKept
<1>6. QED BY <1>1, <1>2, <1>5, Zenon

LEMMA GetDodagOk ==
  ASSUME NEW s, NEW X, Good(s, X), NEW d \in DodagRefs
  PROVE  LET t == GetDodag(s, d) IN Good(t, X) /\ Kept(s, t) /\ t.dodag[d] # None
<1>1. CASE s.dodag[d] # None BY <1>1, KeptRefl, Zenon DEF GetDodag
<1>2. CASE s.dodag[d] = None
  <2> DEFINE x == NewDodag
             t == [s EXCEPT !.dodag[d] = x]
  <2>1. /\ x \in DodagObjects /\ x.nodes = {} /\ x.instance = None /\ x.changed = TRUE
    BY SMT DEF NewDodag, DodagObjects, OrNone
  <2>2. x # None /\ s \in Databases BY <2>1, NoneAssumption DEF Good
  <2>3. GetDodag(s, d) = t BY <1>2 DEF GetDodag
  <2> HIDE DEF x
  <2>4. /\ t \in Databases /\ OnlyDodags(s, t) /\ t.instance = s.instance
        /\ t.dodag[d] = x /\ \A e \in DodagRefs \ {d} : t.dodag[e] = s.dodag[e]
    BY <2>1, <2>2, DodagReplaced
  <2> HIDE DEF t
  <2>5. NodesOk(t, X)
    <3>1. \A e \in DodagRefs \ X : s.dodag[e] # None => SameOptions(s.dodag[e], t.dodag[e])
      BY <1>2, <2>4, Zenon DEF SameOptions
    <3>2. QED BY <2>4, <3>1, NodesOkKept
  <2>6. MembersOk(t)
    <3> SUFFICES ASSUME NEW m \in Nodes, NEW e \in DodagRefs
                 PROVE  (t.dodag[e] # None /\ m \in t.dodag[e].nodes) <=> (t.node[m] # None /\ t.node[m].dodag = e)
      BY DEF MembersOk
    <3>1. (s.dodag[e] # None /\ m \in s.dodag[e].nodes) <=> (s.node[m] # None /\ s.node[m].dodag = e)
      BY DEF Good, MembersOk
    <3>2. CASE e = d BY <1>2, <2>1, <2>4, <3>1, <3>2 DEF OnlyDodags
    <3>3. CASE e # d BY <2>4, <3>1, <3>3 DEF OnlyDodags
    <3>4. QED BY <3>2, <3>3
  <2>7. Kept(s, t) BY <2>2, <2>4, Zenon DEF Kept, OnlyDodags
  <2>8. InstancesOk(t)
    <3>1. \A e \in DodagRefs : t.dodag[e] # None /\ t.dodag[e].instance # None =>
            t.instance[t.dodag[e].instance] # None /\ e \in t.instance[t.dodag[e].instance].dodags
      BY <2>1, <2>4, Zenon DEF Good, InstancesOk
    <3>2. \A i \in Instances : t.instance[i] # None => \A e \in t.instance[i].dodags : t.dodag[e] # None
      <4> SUFFICES ASSUME NEW i \in Instances, t.instance[i] # None, NEW e \in t.instance[i].dodags
                   PROVE  t.dodag[e] # None
        OBVIOUS
      <4>1. e \in DodagRefs BY <2>4, InstanceTypes
      <4>2. s.dodag[e] # None BY <2>4, Zenon DEF Good, InstancesOk
      <4>3. QED BY <4>1, <4>2, <2>7 DEF Kept
    <3>3. QED BY <3>1, <3>2 DEF InstancesOk
  <2>9. LinksOk(t)
    <3>1. LinksOk(s) /\ t.node = s.node /\ t.link = s.link BY <2>4 DEF Good, OnlyDodags
    <3>2. QED BY <3>1, Zenon DEF LinksOk
  <2>10. OthersPublished(t)
    <3>1. ASSUME NEW e \in DodagRefs, t.dodag[e] # None PROVE DodagPublished(t.dodag[e], t.pubDodag[e])
      <4>1. CASE e = d BY <2>1, <2>4, <4>1 DEF DodagPublished
      <4>2. CASE e # d
        <5>1. t.dodag[e] = s.dodag[e] /\ t.pubDodag = s.pubDodag BY <2>4, <4>2 DEF OnlyDodags
        <5>2. QED BY <3>1, <5>1, Zenon DEF Good, OthersPublished
      <4>3. QED BY <4>1, <4>2
    <3>2. QED BY <2>4, <3>1, Zenon DEF Good, OthersPublished, OnlyDodags
  <2>11. Good(t, X) BY <2>4, <2>5, <2>6, <2>8, <2>9, <2>10, Zenon DEF Good
  <2>12. QED BY <2>2, <2>3, <2>4, <2>7, <2>11, Zenon
<1>3. QED BY <1>1, <1>2

\* One instance is replaced by one that lists no fewer DODAGs, all of them known.
LEMMA InstanceStep ==
  ASSUME NEW s, NEW X, Good(s, X), NEW i \in Instances, NEW x \in InstanceObjects, x.changed,
         s.instance[i] # None => s.instance[i].dodags \subseteq x.dodags,
         \A d \in x.dodags : s.dodag[d] # None
  PROVE  LET t == [s EXCEPT !.instance[i] = x] IN
         Good(t, X) /\ Kept(s, t) /\ t.instance[i] = x /\ t.dodag = s.dodag /\ t.node = s.node
<1> DEFINE t == [s EXCEPT !.instance[i] = x]
<1>1. s \in Databases /\ x # None BY NoneAssumption DEF Good
<1>2. /\ t \in Databases /\ OnlyDodags(s, t) /\ t.dodag = s.dodag
      /\ t.instance[i] = x /\ \A j \in Instances \ {i} : t.instance[j] = s.instance[j]
  BY <1>1, InstanceReplaced
<1> HIDE DEF t
<1>3. NodesOk(t, X)
  <2>1. \A d \in DodagRefs \ X : s.dodag[d] # None => SameOptions(s.dodag[d], t.dodag[d])
    BY <1>2, Zenon DEF SameOptions
  <2>2. QED BY <1>2, <2>1, NodesOkKept
<1>4. MembersOk(t)
  <2>1. t.node = s.node /\ t.dodag = s.dodag /\ MembersOk(s) BY <1>2 DEF Good, OnlyDodags
  <2>2. QED BY <2>1 DEF MembersOk
<1>5. InstancesOk(t)
  <2>1. \A d \in DodagRefs : t.dodag[d] # None /\ t.dodag[d].instance # None =>
          t.instance[t.dodag[d].instance] # None /\ d \in t.instance[t.dodag[d].instance].dodags
    <3> SUFFICES ASSUME NEW d \in DodagRefs, s.dodag[d] # None, s.dodag[d].instance # None
                 PROVE  t.instance[s.dodag[d].instance] # None /\ d \in t.instance[s.dodag[d].instance].dodags
      BY <1>2
    <3>1. s.dodag[d].instance \in Instances BY <1>1, DodagTypes DEF OrNone
    <3>2. s.instance[s.dodag[d].instance] # None /\ d \in s.instance[s.dodag[d].instance].dodags
      BY DEF Good, InstancesOk
    <3>3. QED BY <1>1, <1>2, <3>1, <3>2
  <2>2. \A j \in Instances : t.instance[j] # None => \A d \in t.instance[j].dodags : t.dodag[d] # None
    BY <1>2, Zenon DEF Good, InstancesOk
  <2>3. QED BY <2>1, <2>2 DEF InstancesOk
<1>6. LinksOk(t)
  <2>1. t.node = s.node /\ t.link = s.link /\ LinksOk(s) BY <1>2 DEF Good, OnlyDodags
  <2>2. QED BY <2>1 DEF LinksOk
<1>7. OthersPublished(t) BY <1>2, Zenon DEF Good, OthersPublished, OnlyDodags
<1>8. Kept(s, t) BY <1>1, <1>2, Zenon DEF Kept, OnlyDodags
<1>9. Good(t, X) BY <1>2, <1>3, <1>4, <1>5, <1>6, <1>7 DEF Good
<1>10. QED BY <1>2, <1>8, <1>9, Zenon DEF t, OnlyDodags

LEMMA GetInstanceOk ==
  ASSUME NEW s, NEW X, Good(s, X), NEW i \in Instances
  PROVE  LET t == GetInstance(s, i) IN Good(t, X) /\ Kept(s, t) /\ t.instance[i] # None
<1>1. CASE s.instance[i] # None BY <1>1, KeptRefl, Zenon DEF GetInstance
<1>2. CASE s.instance[i] = None
  <2> DEFINE x == NewInstance
  <2>1. x \in InstanceObjects /\ x.changed /\ x.dodags = {} BY SMT DEF NewInstance, InstanceObjects
  <2>2. x # None BY <2>1, NoneAssumption
  <2>3. GetInstance(s, i) = [s EXCEPT !.instance[i] = x] BY <1>2 DEF GetInstance
  <2> HIDE DEF x
  <2>4. LET t == [s EXCEPT !.instance[i] = x] IN Good(t, X) /\ Kept(s, t) /\ t.instance[i] = x
    BY <1>2, <2>1, InstanceStep
  <2>5. QED BY <2>2, <2>3, <2>4, Zenon
<1>3. QED BY <1>1, <1>2

LEMMA SetMopOk ==
  ASSUME NEW s, NEW X, Good(s, X), NEW i \in Instances, s.instance[i] # None, NEW mop \in Nat
  PROVE  LET t == SetMop(s, i, mop) IN Good(t, X) /\ Kept(s, t)
<1> DEFINE x == [s.instance[i] EXCEPT !.mop = mop, !.changed = TRUE]
<1>1. s \in Databases /\ s.instance[i] \in InstanceObjects BY InstanceTypes DEF Good
<1>2. x \in InstanceObjects /\ x.changed /\ x.dodags = s.instance[i].dodags
  <2>1. [s.instance[i] EXCEPT !.mop = mop] \in InstanceObjects BY <1>1, SMT DEF InstanceObjects
  <2>2. ASSUME NEW o \in InstanceObjects, NEW v \in BOOLEAN PROVE [o EXCEPT !.changed = v] \in InstanceObjects
    BY SMT DEF InstanceObjects
  <2>3. x \in InstanceObjects BY <2>1, <2>2
  <2>4. QED BY <1>1, <2>3, SMT DEF InstanceObjects
<1>3. \A d \in x.dodags : s.dodag[d] # None BY <1>2, Zenon DEF Good, InstancesOk
<1>4. SetMop(s, i, mop) = IF s.instance[i].mop = mop THEN s ELSE [s EXCEPT !.instance[i] = x]
  BY DEF SetMop
<1> HIDE DEF x
<1>5. LET t == [s EXCEPT !.instance[i] = x] IN Good(t, X) /\ Kept(s, t)
  BY <1>2, <1>3, InstanceStep
<1>6. QED BY <1>4, <1>5, KeptRefl, Zenon

\* One DODAG is replaced by one with the same members.
LEMMA DodagStep ==
  ASSUME NEW s, NEW X, NEW Y, Good(s, X), X \subseteq Y, NEW d \in DodagRefs, s.dodag[d] # None,
         NEW x \in DodagObjects, x.nodes = s.dodag[d].nodes,
         d \notin Y => SameOptions(s.dodag[d], x),
         x.instance # None => s.instance[x.instance] # None /\ d \in s.instance[x.instance].dodags,
         DodagPublished(x, s.pubDodag[d])
  PROVE  LET t == [s EXCEPT !.dodag[d] = x] IN Good(t, Y) /\ Kept(s, t)
<1> DEFINE t == [s EXCEPT !.dodag[d] = x]
<1>1. s \in Databases /\ x # None BY NoneAssumption DEF Good
<1>2. /\ t \in Databases /\ OnlyDodags(s, t) /\ t.instance = s.instance
      /\ t.dodag[d] = x /\ \A e \in DodagRefs \ {d} : t.dodag[e] = s.dodag[e]
  BY <1>1, DodagReplaced
<1> HIDE DEF t
<1>3. \A e \in DodagRefs : t.dodag[e] # None <=> s.dodag[e] # None BY <1>1, <1>2
<1>4. Kept(s, t) BY <1>2, <1>3, Zenon DEF Kept, OnlyDodags
<1>5. NodesOk(t, Y)
  <2>1. \A e \in DodagRefs \ Y : s.dodag[e] # None => SameOptions(s.dodag[e], t.dodag[e])
    BY <1>2, Zenon DEF SameOptions
  <2>2. QED BY <1>2, <2>1, NodesOkKept
<1>6. MembersOk(t)
  <2>1. t.node = s.node /\ MembersOk(s) BY <1>2 DEF Good, OnlyDodags
  <2>2. \A e \in DodagRefs : s.dodag[e] # None => t.dodag[e].nodes = s.dodag[e].nodes BY <1>2
  <2> SUFFICES ASSUME NEW m \in Nodes, NEW e \in DodagRefs
               PROVE  (t.dodag[e] # None /\ m \in t.dodag[e].nodes) <=> (t.node[m] # None /\ t.node[m].dodag = e)
    BY DEF MembersOk
  <2>3. (s.dodag[e] # None /\ m \in s.dodag[e].nodes) <=> (s.node[m] # None /\ s.node[m].dodag = e)
    BY <2>1 DEF MembersOk
  <2>4. QED BY <1>3, <2>1, <2>2, <2>3
<1>7. InstancesOk(t)
  <2>1. \A e \in DodagRefs : t.dodag[e] # None /\ t.dodag[e].instance # None =>
          t.instance[t.dodag[e].instance] # None /\ e \in t.instance[t.dodag[e].instance].dodags
    BY <1>2, Zenon DEF Good, InstancesOk
  <2>2. \A i \in Instances : t.instance[i] # None => \A e \in t.instance[i].dodags : t.dodag[e] # None
    <3> SUFFICES ASSUME NEW i \in Instances, s.instance[i] # None, NEW e \in s.instance[i].dodags
                 PROVE  t.dodag[e] # None
      BY <1>2
    <3>1. e \in DodagRefs BY <1>1, InstanceTypes
    <3>2. QED BY <1>3, <3>1, Zenon DEF Good, InstancesOk
  <2>3. QED BY <2>1, <2>2 DEF InstancesOk
<1>8. LinksOk(t)
  <2>1. t.node = s.node /\ t.link = s.link /\ LinksOk(s) BY <1>2 DEF Good, OnlyDodags
  <2>2. QED BY <2>1 DEF LinksOk
<1>9. OthersPublished(t)
  <2>1. \A e \in DodagRefs : t.dodag[e] # None => DodagPublished(t.dodag[e], t.pubDodag[e])
    BY <1>2, <1>3, Zenon DEF Good, OthersPublished, OnlyDodags
  <2>2. QED BY <1>2, <2>1, Zenon DEF Good, OthersPublished, OnlyDodags
<1>10. Good(t, Y) BY <1>2, <1>5, <1>6, <1>7, <1>8, <1>9 DEF Good
<1>11. QED BY <1>4, <1>10, Zenon DEF t

LEMMA InstanceAddDodagOk ==
  ASSUME NEW s, NEW X, Good(s, X), NEW i \in Instances, s.instance[i] # None,
         NEW d \in DodagRefs, s.dodag[d] # None
  PROVE  LET t == InstanceAddDodag(s, i, d) IN Good(t, X) /\ Kept(s, t)
<1> DEFINE o == s.instance[i]
           x == [o EXCEPT !.dodags = o.dodags \cup {d}, !.changed = TRUE]
           listed == [s EXCEPT !.instance[i] = x]
           D == s.dodag[d]
           c == D.changed \/ D.instance # i
           y == [D EXCEPT !.instance = i, !.changed = c]
           t == [listed EXCEPT !.dodag[d] = y]
<1>1. s \in Databases /\ o \in InstanceObjects /\ D \in DodagObjects BY InstanceTypes, DodagTypes DEF Good
<1>2. x \in InstanceObjects /\ x.changed /\ x.dodags = o.dodags \cup {d}
  <2>1. o.dodags \cup {d} \in SUBSET DodagRefs BY InstanceTypes DEF Good
  <2>2. [o EXCEPT !.dodags = o.dodags \cup {d}] \in InstanceObjects BY <1>1, <2>1, SMT DEF InstanceObjects
  <2>3. ASSUME NEW z \in InstanceObjects, NEW v \in BOOLEAN PROVE [z EXCEPT !.changed = v] \in InstanceObjects
    BY SMT DEF InstanceObjects
  <2>4. x \in InstanceObjects BY <2>2, <2>3
  <2>5. QED BY <1>1, <2>4, SMT DEF InstanceObjects
<1>3. \A e \in x.dodags : s.dodag[e] # None BY <1>2, Zenon DEF Good, InstancesOk
<1>4. InstanceAddDodag(s, i, d) = IF d \in o.dodags THEN s ELSE t BY DEF InstanceAddDodag
<1> HIDE DEF x
<1>5. Good(listed, X) /\ Kept(s, listed) /\ listed.instance[i] = x /\ listed.dodag = s.dodag
  BY <1>2, <1>3, InstanceStep
<1>6. y \in DodagObjects /\ y.nodes = D.nodes /\ SameOptions(D, y) /\ y.instance = i
      /\ DodagPublished(y, listed.pubDodag[d])
  <2>1. c \in BOOLEAN OBVIOUS
  <2>2. ~c => ~D.changed /\ D.instance = i OBVIOUS
  <2> HIDE DEF c
  <2>3. y \in DodagObjects
    <3>1. [D EXCEPT !.instance = i] \in DodagObjects BY <1>1, DodagFields
    <3>2. QED BY <2>1, <3>1, DodagFields
  <2>4. /\ y.nodes = D.nodes /\ SameOptions(D, y) /\ y.instance = i /\ y.changed = c /\ y.dio = D.dio
    BY <1>1, SMT DEF SameOptions, DodagObjects
  <2>5. listed.dodag = s.dodag /\ Good(listed, X) BY <1>5
  <2> HIDE DEF y, listed
  <2>6. DodagPublished(D, listed.pubDodag[d]) BY <2>5, Zenon DEF Good, OthersPublished
  <2>7. D.changed \in BOOLEAN BY <1>1 DEF DodagObjects
  <2>8. DodagPublished(y, listed.pubDodag[d])
    BY <2>1, <2>2, <2>4, <2>6, <2>7 DEF DodagPublished, DodagAgrees, SameOptions
  <2>9. QED BY <2>3, <2>4, <2>8
<1>7. Good(t, X) /\ Kept(listed, t)
  <2> HIDE DEF y, listed
  <2>1. listed.dodag[d] = D /\ listed.instance[i] = x /\ x # None
    BY <1>2, <1>5, NoneAssumption
  <2>2. d \in x.dodags BY <1>2
  <2>3. y.instance # None => listed.instance[y.instance] # None /\ d \in listed.instance[y.instance].dodags
    BY <1>6, <2>1, <2>2
  <2>4. y \in DodagObjects /\ y.nodes = listed.dodag[d].nodes /\ SameOptions(listed.dodag[d], y)
        /\ DodagPublished(y, listed.pubDodag[d]) /\ listed.dodag[d] # None
    BY <1>6, <2>1
  <2>5. Good(listed, X) /\ X \subseteq X BY <1>5
  <2>6. QED BY <2>3, <2>4, <2>5, DodagStep
<1> HIDE DEF listed, t
<1>8. Kept(s, t) BY <1>5, <1>7, KeptTrans
<1>9. QED BY <1>4, <1>7, <1>8, KeptRefl, Zenon

\* The root's DIO: the flags of the members are those of the former options, until
\* SetNodesChanged.
LEMMA DodagFromRootOk ==
  ASSUME NEW s, Good(s, {}), NEW d \in DodagRefs, s.dodag[d] # None, NEW p \in Dios
  PROVE  LET t == DodagFromRoot(s, d, p) IN Good(t, {d}) /\ Kept(s, t)
<1> DEFINE D == s.dodag[d]
           dio == <<p.instance, p.mop>>
           config == IF p.config = None THEN D.config ELSE p.config
           prefix == IF p.prefix = None THEN D.prefix ELSE p.prefix
           hasConfig == p.config # None
           hasPrefix == p.prefix # None
           c == \/ D.changed
                \/ D.dio # dio
                \/ IF p.config = None THEN D.hasConfig ELSE ConfigDelta(D.config, p.config)
                \/ IF p.prefix = None THEN D.hasPrefix ELSE PrefixDelta(D.prefix, p.prefix)
           y == [D EXCEPT !.dio = dio, !.hasConfig = hasConfig, !.config = config,
                          !.hasPrefix = hasPrefix, !.prefix = prefix, !.changed = c]
<1>1. D \in DodagObjects BY DodagTypes DEF Good
<1>2. /\ dio \in Instances \X Nat /\ config \in Configs \cup {Zero} /\ prefix \in Prefixes \cup {Zero}
      /\ hasConfig \in BOOLEAN /\ hasPrefix \in BOOLEAN /\ c \in BOOLEAN
  <2>1. dio \in Instances \X Nat BY PacketAssumption
  <2>2. D.config \in Configs \cup {Zero} /\ D.prefix \in Prefixes \cup {Zero} BY <1>1 DEF DodagObjects
  <2>3. p.config \in Configs \cup {None} /\ p.prefix \in Prefixes \cup {None} BY PacketAssumption DEF OrNone
  <2>4. config \in Configs \cup {Zero} /\ prefix \in Prefixes \cup {Zero} BY <2>2, <2>3
  <2>5. hasConfig \in BOOLEAN /\ hasPrefix \in BOOLEAN /\ c \in BOOLEAN OBVIOUS
  <2>6. QED BY <2>1, <2>4, <2>5
<1>3. ~c => ~D.changed /\ D.dio = dio /\ D.config = config /\ D.prefix = prefix
  BY DEF ConfigDelta, PrefixDelta
<1>4. DodagFromRoot(s, d, p) = [s EXCEPT !.dodag[d] = y] BY DEF DodagFromRoot, Advertised
<1> HIDE DEF dio, config, prefix, hasConfig, hasPrefix, c
<1>5. y \in DodagObjects
  <2> DEFINE y1 == [D EXCEPT !.dio = dio]
             y2 == [y1 EXCEPT !.hasConfig = hasConfig]
             y3 == [y2 EXCEPT !.config = config]
             y4 == [y3 EXCEPT !.hasPrefix = hasPrefix]
             y5 == [y4 EXCEPT !.prefix = prefix]
  <2>1. y1 \in DodagObjects BY <1>1, <1>2, DodagFields
  <2>2. y2 \in DodagObjects BY <2>1, <1>2, DodagFields
  <2>3. y3 \in DodagObjects BY <2>2, <1>2, DodagFields
  <2>4. y4 \in DodagObjects BY <2>3, <1>2, DodagFields
  <2>5. y5 \in DodagObjects BY <2>4, <1>2, DodagFields
  <2>6. QED BY <2>5, <1>2, DodagFields
<1>6. /\ y.nodes = D.nodes /\ y.instance = D.instance /\ y.changed = c /\ y.dio = dio
      /\ y.config = config /\ y.prefix = prefix
  BY <1>1, SMT DEF DodagObjects
<1>7. DodagPublished(D, s.pubDodag[d]) BY DEF Good, OthersPublished
<1> HIDE DEF y
<1>8. DodagPublished(y, s.pubDodag[d])
  <2>1. D.changed \in BOOLEAN BY <1>1 DEF DodagObjects
  <2>2. QED BY <2>1, <1>2, <1>3, <1>6, <1>7 DEF DodagPublished, DodagAgrees
<1>9. y.instance # None => s.instance[y.instance] # None /\ d \in s.instance[y.instance].dodags
  BY <1>6, Zenon DEF Good, InstancesOk
<1>10. LET t == [s EXCEPT !.dodag[d] = y] IN Good(t, {d}) /\ Kept(s, t)
  <2>1. {} \subseteq {d} /\ d \in {d} OBVIOUS
  <2>2. QED BY <1>5, <1>6, <1>8, <1>9, <2>1, DodagStep
<1>11. QED BY <1>4, <1>10

\* dodag_set_nodes_changed repairs the flags of the members.
LEMMA SetNodesChangedOk ==
  ASSUME NEW s, NEW d \in DodagRefs, Good(s, {d}), s.dodag[d] # None
  PROVE  LET t == SetNodesChanged(s, d) IN Good(t, {}) /\ Kept(s, t)
<1> DEFINE D == s.dodag[d]
           t == SetNodesChanged(s, d)
           F(m) == IF m \in D.nodes THEN FromDodag(s.node[m], m, D) ELSE s.node[m]
<1>1. s \in Databases /\ D \in DodagObjects BY DodagTypes DEF Good
<1>2. \A m \in Nodes : m \in D.nodes => s.node[m] # None /\ s.node[m].dodag = d
  BY DEF Good, MembersOk
<1>3. \A m \in Nodes : s.node[m] # None /\ s.node[m].dodag = d => m \in D.nodes
  BY DEF Good, MembersOk
<1>4. ASSUME NEW m \in Nodes, m \in D.nodes
      PROVE  /\ NodeOk(m, F(m), s.pubNode[m], D, TRUE) /\ Replaces(F(m), s.node[m])
             /\ F(m) \in NodeObjects /\ F(m) # None
  <2>1. /\ s.node[m] # None /\ s.node[m].dodag = d /\ s.node[m] \in NodeObjects
        /\ NodeOk(m, s.node[m], s.pubNode[m], D, FALSE)
    BY <1>2, <1>4, NodeIsOk DEF NodeOk
  <2>2. NodeOk(m, F(m), s.pubNode[m], D, TRUE) /\ Replaces(F(m), s.node[m])
    BY <1>1, <1>4, <2>1, FromDodagOk
  <2> HIDE DEF F
  <2>3. QED BY <2>2, NoneAssumption DEF NodeOk
<1>5. \A m \in Nodes : F(m) \in OrNone(NodeObjects)
  <2>1. \A m \in Nodes : s.node[m] \in OrNone(NodeObjects) BY <1>1 DEF Databases
  <2>2. QED BY <1>4, <2>1 DEF OrNone
<1>6. t = [s EXCEPT !.node = [m \in Nodes |-> F(m)]] BY DEF SetNodesChanged
<1> HIDE DEF F, t
<1>7. t \in Databases /\ t.node = [m \in Nodes |-> F(m)] /\ t.pubNode = s.pubNode /\ OnlyNodes(s, t)
  <2> DEFINE f == [m \in Nodes |-> F(m)]
  <2>1. f \in [Nodes -> OrNone(NodeObjects)] BY <1>5
  <2> HIDE DEF f
  <2>2. [s EXCEPT !.node = f] \in Databases BY <1>1, <2>1, SMT DEF Databases
  <2>3. [s EXCEPT !.node = f].node = f /\ [s EXCEPT !.node = f].pubNode = s.pubNode /\ OnlyNodes(s, [s EXCEPT !.node = f])
    BY <1>1, SMT DEF Databases, OnlyNodes
  <2>4. QED BY <1>6, <2>2, <2>3, Zenon DEF f
<1>8. \A m \in Nodes : m \in D.nodes => t.node[m] = F(m) BY <1>7
<1>9. \A m \in Nodes : m \notin D.nodes => t.node[m] = s.node[m] BY <1>7 DEF F
<1>10. NodesStay(s, t) BY <1>2, <1>4, <1>8, <1>9, Zenon DEF NodesStay, Replaces
<1>11. NodesOk(t, {})
  <2> SUFFICES ASSUME NEW m \in Nodes, t.node[m] # None
               PROVE  /\ NodeOk(m, t.node[m], t.pubNode[m], t.dodag[t.node[m].dodag], t.node[m].dodag \notin {} \cup {None})
                      /\ \A r \in t.node[m].routes : t.node[r.via] # None
    BY Zenon DEF NodesOk
  <2>1. \A r \in t.node[m].routes : r.via \in Nodes BY <1>7, NodeTypes
  <2>2. CASE m \in D.nodes
    <3>1. NodeOk(m, t.node[m], t.pubNode[m], D, TRUE) /\ Replaces(t.node[m], s.node[m]) /\ t.node[m].dodag = d
      BY <1>2, <1>4, <1>7, <1>8, <2>2 DEF Replaces
    <3>2. t.dodag[t.node[m].dodag] = D BY <1>7, <3>1 DEF OnlyNodes
    <3>3. \A r \in t.node[m].routes : s.node[r.via] # None
      BY <1>2, <2>2, <3>1, NodeIsOk DEF Replaces
    <3>4. QED BY <1>10, <2>1, <3>1, <3>2, <3>3, Zenon DEF NodeOk, NodesStay
  <2>3. CASE m \notin D.nodes
    <3>1. t.node[m] = s.node[m] /\ t.pubNode[m] = s.pubNode[m] BY <1>7, <1>9, <2>3
    <3>2. s.node[m].dodag # d BY <1>3, <2>3, <3>1
    <3>3. /\ NodeOk(m, s.node[m], s.pubNode[m], s.dodag[s.node[m].dodag], s.node[m].dodag \notin {d} \cup {None})
          /\ \A r \in s.node[m].routes : s.node[r.via] # None
      BY <3>1, NodeIsOk
    <3>4. NodeOk(m, t.node[m], t.pubNode[m], t.dodag[t.node[m].dodag], t.node[m].dodag \notin {} \cup {None})
      BY <1>7, <3>1, <3>2, <3>3 DEF OnlyNodes, NodeOk
    <3>5. QED BY <1>10, <2>1, <3>1, <3>3, <3>4, Zenon DEF NodesStay
  <2>4. QED BY <2>2, <2>3
<1>12. QED BY <1>7, <1>10, <1>11, NodesStep DEF t

\* A node leaves its DODAG or joins one: reference and member table change together.
LEMMA MoveStep ==
  ASSUME NEW s, NEW X, Good(s, X), NEW n \in Nodes, s.node[n] # None, NEW d \in DodagRefs, s.dodag[d] # None,
         NEW e, NEW M,
         \/ s.node[n].dodag = d /\ e = None /\ M = s.dodag[d].nodes \ {n}
         \/ s.node[n].dodag = None /\ e = d /\ M = s.dodag[d].nodes \cup {n}
  PROVE  LET t == SetMembers([s EXCEPT !.node[n] = Moved(s.node[n], e)], d, M) IN
         /\ Good(t, X) /\ t.instance = s.instance
         /\ t.node[n] # None /\ t.node[n].dodag = e
         /\ \A c \in DodagRefs : s.dodag[c] # None => t.dodag[c] # None
<1> DEFINE o == s.node[n]
           x == Moved(o, e)
           moved == [s EXCEPT !.node[n] = x]
           D == s.dodag[d]
           y == [D EXCEPT !.nodes = M, !.changed = TRUE]
           t == [moved EXCEPT !.dodag[d] = y]
<1>1. /\ s \in Databases /\ D \in DodagObjects /\ o \in NodeObjects /\ D.nodes \in SUBSET Nodes
      /\ NodeOk(n, o, s.pubNode[n], s.dodag[o.dodag], o.dodag \notin X \cup {None})
      /\ \A r \in o.routes : s.node[r.via] # None
  BY NodeIsOk, DodagTypes
<1>2. e \in OrNone(DodagRefs) /\ d # None /\ M \in SUBSET Nodes BY <1>1, NoneAssumption DEF OrNone
<1>3. /\ \A E : NodeOk(n, x, s.pubNode[n], E, TRUE)
      /\ x.dodag = e /\ x.routes = o.routes
  <2> HIDE DEF o
  <2>1. QED BY <1>1, <1>2, MovedNodeOk
<1>4. x \in NodeObjects /\ x # None BY <1>3, NoneAssumption DEF NodeOk
<1> HIDE DEF x
<1>5. moved \in Databases /\ OnlyNodes(s, moved) /\ OneNode(s, moved, n, x) BY <1>1, <1>4, NodeReplaced
<1>6. y \in DodagObjects /\ y.nodes = M /\ SameOptions(D, y) /\ y.instance = D.instance /\ y.changed /\ y # None
  <2>1. [D EXCEPT !.nodes = M] \in DodagObjects BY <1>1, <1>2, DodagFields
  <2>2. y \in DodagObjects BY <2>1, DodagFields
  <2>3. y.nodes = M /\ SameOptions(D, y) /\ y.instance = D.instance /\ y.changed
    BY <1>1, SMT DEF SameOptions, DodagObjects
  <2>4. QED BY <2>2, <2>3, NoneAssumption
<1>7. SetMembers(moved, d, M) = t
  <2>1. moved.dodag[d] = D BY <1>5 DEF OnlyNodes
  <2> HIDE DEF moved
  <2>2. QED BY <2>1 DEF SetMembers
<1> HIDE DEF moved, y
<1>8. /\ t \in Databases /\ OnlyDodags(moved, t) /\ t.instance = moved.instance
      /\ t.dodag[d] = y /\ \A c \in DodagRefs \ {d} : t.dodag[c] = moved.dodag[c]
  BY <1>5, <1>6, DodagReplaced
<1> HIDE DEF t
<1>9. /\ t.node[n] = x /\ \A m \in Nodes \ {n} : t.node[m] = s.node[m]
      /\ t.pubNode = s.pubNode /\ t.instance = s.instance /\ t.link = s.link
      /\ t.pubDodag = s.pubDodag /\ t.pubInstance = s.pubInstance /\ t.pubLink = s.pubLink
      /\ t.dodag[d] = y /\ \A c \in DodagRefs \ {d} : t.dodag[c] = s.dodag[c]
  BY <1>5, <1>8 DEF OnlyNodes, OneNode, OnlyDodags
<1>10. \A m \in Nodes : t.node[m] # None <=> s.node[m] # None BY <1>4, <1>9
<1>11. \A c \in DodagRefs : t.dodag[c] # None <=> s.dodag[c] # None BY <1>6, <1>9
<1>12. NodesOk(t, X)
  <2> SUFFICES ASSUME NEW m \in Nodes, t.node[m] # None
               PROVE  /\ NodeOk(m, t.node[m], t.pubNode[m], t.dodag[t.node[m].dodag], t.node[m].dodag \notin X \cup {None})
                      /\ \A r \in t.node[m].routes : t.node[r.via] # None
    BY Zenon DEF NodesOk
  <2>1. \A r \in t.node[m].routes : r.via \in Nodes BY <1>8, NodeTypes
  <2>2. CASE m = n
    <3>1. \A E : NodeOk(n, t.node[n], t.pubNode[n], E, TRUE) BY <1>3, <1>9
    <3>2. \A r \in t.node[n].routes : s.node[r.via] # None BY <1>1, <1>3, <1>9
    <3>3. QED BY <1>10, <2>1, <2>2, <3>1, <3>2 DEF NodeOk
  <2>3. CASE m # n
    <3>1. t.node[m] = s.node[m] /\ t.pubNode[m] = s.pubNode[m] BY <1>9, <2>3
    <3>2. /\ NodeOk(m, s.node[m], s.pubNode[m], s.dodag[s.node[m].dodag], s.node[m].dodag \notin X \cup {None})
          /\ \A r \in s.node[m].routes : s.node[r.via] # None
      BY <3>1, NodeIsOk
    <3>3. s.node[m].dodag \notin X \cup {None} => SameOptions(s.dodag[s.node[m].dodag], t.dodag[s.node[m].dodag])
      <4> SUFFICES ASSUME s.node[m].dodag # None PROVE SameOptions(s.dodag[s.node[m].dodag], t.dodag[s.node[m].dodag])
        OBVIOUS
      <4>1. s.node[m].dodag \in DodagRefs BY <3>1, NamedDodag
      <4>2. CASE s.node[m].dodag = d BY <1>6, <1>9, <4>2
      <4>3. CASE s.node[m].dodag # d BY <1>9, <4>1, <4>3 DEF SameOptions
      <4>4. QED BY <4>2, <4>3
    <3>4. NodeOk(m, t.node[m], t.pubNode[m], t.dodag[t.node[m].dodag], t.node[m].dodag \notin X \cup {None})
      BY <3>1, <3>2, <3>3, OptionsKept
    <3>5. QED BY <1>10, <2>1, <3>1, <3>2, <3>4
  <2>4. QED BY <2>2, <2>3
<1>13. MembersOk(t)
  <2> SUFFICES ASSUME NEW m \in Nodes, NEW c \in DodagRefs
               PROVE  (t.dodag[c] # None /\ m \in t.dodag[c].nodes) <=> (t.node[m] # None /\ t.node[m].dodag = c)
    BY DEF MembersOk
  <2>1. (s.dodag[c] # None /\ m \in s.dodag[c].nodes) <=> (s.node[m] # None /\ s.node[m].dodag = c)
    BY DEF Good, MembersOk
  <2>2. c # None BY NoneAssumption
  <2>3. CASE m = n BY <1>2, <1>3, <1>6, <1>9, <1>10, <1>11, <2>1, <2>2, <2>3
  <2>4. CASE m # n
    <3>1. t.node[m] = s.node[m] BY <1>9, <2>4
    <3>2. m \in M <=> m \in D.nodes BY <2>4
    <3>3. t.dodag[c] # None => (m \in t.dodag[c].nodes <=> m \in s.dodag[c].nodes)
      BY <1>6, <1>9, <3>2
    <3>4. QED BY <1>11, <2>1, <3>1, <3>3
  <2>5. QED BY <2>3, <2>4
<1>14. InstancesOk(t)
  <2>1. \A c \in DodagRefs : s.dodag[c] # None => t.dodag[c].instance = s.dodag[c].instance BY <1>6, <1>9
  <2>2. \A c \in DodagRefs : t.dodag[c] # None /\ t.dodag[c].instance # None =>
          t.instance[t.dodag[c].instance] # None /\ c \in t.instance[t.dodag[c].instance].dodags
    BY <1>9, <1>11, <2>1, Zenon DEF Good, InstancesOk
  <2>3. \A i \in Instances : t.instance[i] # None => \A c \in t.instance[i].dodags : t.dodag[c] # None
    <3> SUFFICES ASSUME NEW i \in Instances, s.instance[i] # None, NEW c \in s.instance[i].dodags
                 PROVE  t.dodag[c] # None
      BY <1>9
    <3>1. c \in DodagRefs BY <1>1, InstanceTypes
    <3>2. QED BY <1>11, <3>1, Zenon DEF Good, InstancesOk
  <2>4. QED BY <2>2, <2>3 DEF InstancesOk
<1>15. LinksOk(t)
  <2>1. \A l \in LinkRefs : l[1] \in Nodes /\ l[2] \in Nodes BY DEF LinkRefs
  <2>2. \A l \in LinkRefs : t.link[l] # None => t.node[l[1]] # None /\ t.node[l[2]] # None
    BY <1>9, <1>10, <2>1 DEF Good, LinksOk
  <2>3. t.link = s.link /\ LinksOk(s) BY <1>9 DEF Good
  <2>4. QED BY <2>2, <2>3 DEF LinksOk
<1>16. OthersPublished(t)
  <2>1. \A c \in DodagRefs : t.dodag[c] # None => DodagPublished(t.dodag[c], t.pubDodag[c])
    BY <1>6, <1>9, Zenon DEF Good, OthersPublished, DodagPublished
  <2>2. QED BY <1>9, <2>1, Zenon DEF Good, OthersPublished
<1>17. Good(t, X) BY <1>8, <1>12, <1>13, <1>14, <1>15, <1>16 DEF Good
<1>18. /\ Good(t, X) /\ t.instance = s.instance
       /\ t.node[n] # None /\ t.node[n].dodag = e
       /\ \A c \in DodagRefs : s.dodag[c] # None => t.dodag[c] # None
  BY <1>3, <1>4, <1>9, <1>11, <1>17
<1>19. QED BY <1>7, <1>18, Zenon DEF moved, x

LEMMA DodagDelNodeOk ==
  ASSUME NEW s, NEW X, Good(s, X), NEW n \in Nodes, s.node[n] # None, NEW d \in DodagRefs, s.node[n].dodag = d
  PROVE  LET t == DodagDelNode(s, d, n) IN
         /\ Good(t, X) /\ t.instance = s.instance
         /\ t.node[n] # None /\ t.node[n].dodag = None
         /\ \A c \in DodagRefs : s.dodag[c] # None => t.dodag[c] # None
<1>1. d # None BY NoneAssumption
<1>2. s.dodag[d] # None /\ n \in s.dodag[d].nodes BY <1>1, NamedDodag
<1>3. DodagDelNode(s, d, n) = SetMembers([s EXCEPT !.node[n] = Moved(s.node[n], None)], d, s.dodag[d].nodes \ {n})
  BY <1>1, <1>2 DEF DodagDelNode, NodeSetDodag
<1>4. QED BY <1>2, <1>3, MoveStep

LEMMA DodagAddNodeOk ==
  ASSUME NEW s, NEW X, Good(s, X), NEW n \in Nodes, s.node[n] # None, NEW d \in DodagRefs, s.dodag[d] # None
  PROVE  LET t == DodagAddNode(s, d, n) IN
         /\ Good(t, X) /\ t.instance = s.instance
         /\ t.node[n] # None /\ t.node[n].dodag = d
         /\ t.dodag[d] # None
<1> DEFINE previous == s.node[n].dodag
           left == IF previous \in {None, d} \/ s.dodag[previous] = None THEN s ELSE DodagDelNode(s, previous, n)
           joined == SetMembers(NodeSetDodag(left, n, d), d, left.dodag[d].nodes \cup {n})
<1>1. DodagAddNode(s, d, n) = IF n \in left.dodag[d].nodes THEN left ELSE joined
  BY DEF DodagAddNode
<1>2. d # None BY NoneAssumption
<1>3. previous # None => previous \in DodagRefs /\ s.dodag[previous] # None /\ n \in s.dodag[previous].nodes
  BY NamedDodag
<1>4. CASE previous = d BY <1>1, <1>2, <1>3, <1>4
<1>5. CASE previous # d
  <2>1. /\ Good(left, X) /\ left.instance = s.instance
        /\ left.node[n] # None /\ left.node[n].dodag = None /\ left.dodag[d] # None
    <3>1. CASE previous = None BY <3>1
    <3>2. CASE previous # None
      <4>1. left = DodagDelNode(s, previous, n) BY <1>3, <1>5, <3>2
      <4> HIDE DEF left
      <4>2. QED BY <1>3, <3>2, <4>1, DodagDelNodeOk
    <3>3. QED BY <3>1, <3>2
  <2> HIDE DEF left
  <2>2. n \notin left.dodag[d].nodes BY <1>2, <2>1 DEF Good, MembersOk
  <2>3. NodeSetDodag(left, n, d) = [left EXCEPT !.node[n] = Moved(left.node[n], d)]
    BY <1>2, <2>1 DEF NodeSetDodag
  <2>4. /\ Good(joined, X) /\ joined.instance = left.instance
        /\ joined.node[n] # None /\ joined.node[n].dodag = d
        /\ joined.dodag[d] # None
    BY <2>1, <2>3, MoveStep
  <2> HIDE DEF joined
  <2>5. QED BY <1>1, <2>1, <2>2, <2>4
<1>6. QED BY <1>4, <1>5

----------------------------------------------------------------------------
(* Databases: links.                                                       *)

LEMMA LinksStep ==
  ASSUME NEW s, NEW X, Good(s, X), NEW f \in [LinkRefs -> OrNone(LinkObjects)],
         \A l \in LinkRefs : f[l] # None =>
           /\ s.node[l[1]] # None /\ s.node[l[2]] # None
           /\ ~f[l].changed => s.pubLink[l] = f[l],
         OnePreferredParent => \A l, k \in LinkRefs :
           f[l] # None /\ f[k] # None /\ l[1] = k[1] /\ ~f[l].deprecated /\ ~f[k].deprecated => l = k
  PROVE  LET t == [s EXCEPT !.link = f] IN Good(t, X) /\ Kept(s, t)
<1> DEFINE t == [s EXCEPT !.link = f]
<1>1. s \in Databases BY DEF Good
<1>2. t \in Databases BY <1>1, SMT DEF Databases
<1>3. /\ t.node = s.node /\ t.pubNode = s.pubNode /\ t.dodag = s.dodag /\ t.instance = s.instance
      /\ t.pubDodag = s.pubDodag /\ t.pubInstance = s.pubInstance /\ t.pubLink = s.pubLink /\ t.link = f
  BY <1>1, SMT DEF Databases
<1> HIDE DEF t
<1>4. NodesOk(t, X)
  <2>1. NodesOk(s, X) BY DEF Good
  <2>2. QED BY <1>3, <2>1 DEF NodesOk
<1>5. MembersOk(t)
  <2>1. t.node = s.node /\ t.dodag = s.dodag /\ MembersOk(s) BY <1>3 DEF Good
  <2>2. QED BY <2>1 DEF MembersOk
<1>6. InstancesOk(t)
  <2>1. InstancesOk(s) BY DEF Good
  <2>2. QED BY <1>3, <2>1, Zenon DEF InstancesOk
<1>7. LinksOk(t) BY <1>3 DEF LinksOk
<1>8. OthersPublished(t) BY <1>3, Zenon DEF Good, OthersPublished
<1>9. Kept(s, t) BY <1>3, Zenon DEF Kept
<1>10. QED BY <1>2, <1>4, <1>5, <1>6, <1>7, <1>8, <1>9 DEF Good, t

LEMMA LinkBuilt ==
  ASSUME NEW b \in BOOLEAN, NEW c \in BOOLEAN
  PROVE  LET x == [deprecated |-> b, changed |-> c] IN
         /\ x \in LinkObjects /\ x.deprecated = b /\ x.changed = c
         /\ \A y \in LinkObjects : y.deprecated = b /\ y.changed = c => y = x
BY SMT DEF LinkObjects

\* A link is created and updated: with one_preferred_parent the others of the child
\* are deprecated before the new one counts.
LEMMA TouchLinkOk ==
  ASSUME NEW s, NEW X, Good(s, X), NEW a \in Nodes, NEW b \in Nodes, s.node[a] # None, s.node[b] # None
  PROVE  LET t == TouchLink(GetLink(s, <<a, b>>), <<a, b>>) IN Good(t, X) /\ Kept(s, t)
<1> DEFINE l == <<a, b>>
           g == GetLink(s, l)
           F(k) == CASE g.link[k] = None -> None
                     [] g.link[k] # None /\ k = l ->
                          [deprecated |-> FALSE, changed |-> g.link[k].changed \/ g.link[k].deprecated]
                     [] g.link[k] # None /\ k # l ->
                          IF OnePreferredParent /\ k[1] = l[1]
                          THEN [deprecated |-> TRUE, changed |-> TRUE] ELSE g.link[k]
           f == [k \in LinkRefs |-> F(k)]
<1>1. s \in Databases /\ l \in LinkRefs /\ l[1] = a /\ l[2] = b BY DEF Good, LinkRefs
<1>2. s.link \in [LinkRefs -> OrNone(LinkObjects)] BY <1>1 DEF Databases
<1>3. NewLink \in LinkObjects /\ NewLink # None /\ NewLink.changed = TRUE
  <2>1. NewLink \in LinkObjects /\ NewLink.changed = TRUE BY SMT DEF NewLink, LinkObjects
  <2>2. QED BY <2>1, NoneAssumption
<1>4. /\ g.link \in [LinkRefs -> OrNone(LinkObjects)]
      /\ g.link[l] # None /\ (g.link[l] = s.link[l] \/ g.link[l].changed)
      /\ \A k \in LinkRefs \ {l} : g.link[k] = s.link[k]
      /\ s.link[l] # None => g.link[l] = s.link[l]
  <2>1. CASE s.link[l] # None BY <1>2, <2>1 DEF GetLink
  <2>2. CASE s.link[l] = None
    <3>1. g = [s EXCEPT !.link[l] = NewLink] BY <2>2 DEF GetLink
    <3> HIDE DEF g, l
    <3>2. g.link = [s.link EXCEPT ![l] = NewLink] BY <1>1, <3>1, SMT DEF Databases
    <3>3. QED BY <1>1, <1>2, <1>3, <2>2, <3>2 DEF OrNone
  <2>3. QED BY <2>1, <2>2
<1>5. TouchLink(g, l) = [s EXCEPT !.link = f]
  <2>1. TouchLink(g, l) = [g EXCEPT !.link = f] BY Zenon DEF TouchLink
  <2> HIDE DEF f
  <2>2. [g EXCEPT !.link = f] = [s EXCEPT !.link = f]
    <3>1. CASE s.link[l] # None BY <3>1 DEF GetLink
    <3>2. CASE s.link[l] = None
      <4>1. g = [s EXCEPT !.link[l] = NewLink] BY <3>2 DEF GetLink
      <4> HIDE DEF l
      <4>2. QED BY <1>1, <4>1 DEF Databases
    <3>3. QED BY <3>1, <3>2
  <2>3. QED BY <2>1, <2>2
<1> HIDE DEF g
<1>6. ASSUME NEW k \in LinkRefs
      PROVE  /\ F(k) \in OrNone(LinkObjects)
             /\ F(k) # None => g.link[k] # None
             /\ F(k) # None /\ ~F(k).changed => g.link[k] = F(k) /\ ~g.link[k].changed
             /\ OnePreferredParent /\ F(k) # None /\ k[1] = a /\ ~F(k).deprecated => k = l
             /\ k[1] # a => F(k) = s.link[k]
  <2>1. g.link[k] \in OrNone(LinkObjects) BY <1>4
  <2>2. CASE g.link[k] = None
    <3>1. F(k) = None BY <2>2
    <3>2. k # l BY <1>4, <2>2
    <3>3. QED BY <1>4, <2>1, <2>2, <3>1, <3>2 DEF OrNone
  <2>3. CASE g.link[k] # None /\ k = l
    <3> DEFINE x == [deprecated |-> FALSE, changed |-> g.link[k].changed \/ g.link[k].deprecated]
    <3>1. F(k) = x BY <2>3
    <3>2. g.link[k] \in LinkObjects BY <2>1, <2>3 DEF OrNone
    <3>3. x \in LinkObjects /\ (~x.changed => g.link[k] = x /\ ~g.link[k].changed)
      <4> DEFINE c == g.link[k].changed \/ g.link[k].deprecated
      <4>1. c \in BOOLEAN /\ FALSE \in BOOLEAN OBVIOUS
      <4>2. ~c => g.link[k].changed = FALSE /\ g.link[k].deprecated = FALSE BY <3>2 DEF LinkObjects
      <4> HIDE DEF c
      <4>3. x = [deprecated |-> FALSE, changed |-> c] BY DEF c
      <4> HIDE DEF x
      <4>4. /\ x \in LinkObjects /\ x.changed = c
            /\ \A y \in LinkObjects : y.deprecated = FALSE /\ y.changed = c => y = x
        BY <4>1, <4>3, LinkBuilt
      <4>5. QED BY <3>2, <4>1, <4>2, <4>4
    <3> HIDE DEF F, x
    <3>4. QED BY <1>1, <2>3, <3>1, <3>3 DEF OrNone
  <2>4. CASE g.link[k] # None /\ k # l /\ OnePreferredParent /\ k[1] = l[1]
    <3>1. F(k) = [deprecated |-> TRUE, changed |-> TRUE] BY <2>4
    <3> HIDE DEF F
    <3>2. F(k) \in LinkObjects /\ F(k).deprecated /\ F(k).changed BY <3>1, LinkBuilt
    <3>3. QED BY <1>1, <2>4, <3>2 DEF OrNone
  <2>5. CASE g.link[k] # None /\ k # l /\ ~(OnePreferredParent /\ k[1] = l[1])
    <3>1. F(k) = g.link[k] BY <2>5
    <3> HIDE DEF F
    <3>2. QED BY <1>1, <1>4, <2>1, <2>5, <3>1
  <2>6. QED BY <2>2, <2>3, <2>4, <2>5
<1> HIDE DEF F, l
<1>7. f \in [LinkRefs -> OrNone(LinkObjects)] BY <1>6
<1>8. \A k \in LinkRefs : f[k] = F(k) OBVIOUS
<1> HIDE DEF f
<1>9. ASSUME NEW k \in LinkRefs, f[k] # None
      PROVE  /\ s.node[k[1]] # None /\ s.node[k[2]] # None
             /\ ~f[k].changed => s.pubLink[k] = f[k]
  <2>1. g.link[k] # None BY <1>6, <1>8, <1>9
  <2>2. s.node[k[1]] # None /\ s.node[k[2]] # None
    <3>1. CASE k = l BY <1>1, <3>1
    <3>2. CASE k # l BY <1>4, <2>1, <3>2 DEF Good, LinksOk
    <3>3. QED BY <3>1, <3>2
  <2>3. ASSUME ~f[k].changed PROVE s.pubLink[k] = f[k]
    <3>1. g.link[k] = f[k] /\ ~g.link[k].changed BY <1>6, <1>8, <1>9, <2>3
    <3>2. g.link[k] = s.link[k] BY <1>4, <3>1
    <3>3. QED BY <1>9, <3>1, <3>2 DEF Good, OthersPublished
  <2>4. QED BY <2>2, <2>3
<1>10. ASSUME OnePreferredParent, NEW j \in LinkRefs, NEW k \in LinkRefs, f[j] # None, f[k] # None, j[1] = k[1],
              ~f[j].deprecated, ~f[k].deprecated
       PROVE  j = k
  <2>1. CASE j[1] = a BY <1>6, <1>8, <1>10, <2>1
  <2>2. CASE j[1] # a
    <3>1. f[j] = s.link[j] /\ f[k] = s.link[k] BY <1>6, <1>8, <1>10, <2>2
    <3>2. QED BY <1>10, <3>1 DEF Good, LinksOk
  <2>3. QED BY <2>1, <2>2
<1>11. LET t == [s EXCEPT !.link = f] IN Good(t, X) /\ Kept(s, t)
  BY <1>7, <1>9, <1>10, LinksStep
<1>12. QED BY <1>5, <1>11 DEF g, l

LEMMA DropLinkOk ==
  ASSUME NEW s, NEW X, Good(s, X), NEW l \in LinkRefs
  PROVE  LET t == [s EXCEPT !.link[l] = None] IN Good(t, X) /\ Kept(s, t)
<1> DEFINE f == [s.link EXCEPT ![l] = None]
<1>1. s.link \in [LinkRefs -> OrNone(LinkObjects)] BY DEF Good, Databases
<1>2. f \in [LinkRefs -> OrNone(LinkObjects)] BY <1>1 DEF OrNone
<1>3. \A k \in LinkRefs : f[k] # None => f[k] = s.link[k] BY <1>1
<1>4. [s EXCEPT !.link[l] = None] = [s EXCEPT !.link = f] OBVIOUS
<1> HIDE DEF f
<1>5. \A k \in LinkRefs : f[k] # None =>
           /\ s.node[k[1]] # None /\ s.node[k[2]] # None
           /\ ~f[k].changed => s.pubLink[k] = f[k]
  BY <1>3, Zenon DEF Good, LinksOk, OthersPublished
<1>6. OnePreferredParent => \A j, k \in LinkRefs :
           f[j] # None /\ f[k] # None /\ j[1] = k[1] /\ ~f[j].deprecated /\ ~f[k].deprecated => j = k
  BY <1>3, Zenon DEF Good, LinksOk
<1>7. QED BY <1>2, <1>4, <1>5, <1>6, LinksStep

----------------------------------------------------------------------------
(* The commit.                                                             *)

LEMMA CommittedNode ==
  ASSUME NEW n, NEW o \in NodeObjects, NEW pub \in OrNone(NodeObjects), NEW D, NEW exact, NodeOk(n, o, pub, D, exact)
  PROVE  LET x == [o EXCEPT !.changed = FALSE]
             y == IF o.changed THEN x ELSE pub
         IN NodeOk(n, x, y, D, exact) /\ Replaces(x, o) /\ y \in OrNone(NodeObjects)
<1> DEFINE x == [o EXCEPT !.changed = FALSE]
           y == IF o.changed THEN x ELSE pub
<1>1. x \in NodeObjects /\ x # None /\ y \in OrNone(NodeObjects)
  <2>1. FALSE \in BOOLEAN OBVIOUS
  <2>2. x \in NodeObjects BY <2>1, NodeFields
  <2> HIDE DEF x
  <2>3. QED BY <2>2, NoneAssumption DEF OrNone
<1>2. AddressOk(n, x) /\ (exact => DeltaOk(x, D)) /\ Replaces(x, o)
  BY SMT DEF NodeOk, AddressOk, DeltaOk, Replaces, NodeObjects
<1>3. NodePublished(x, y)
  <2>1. CASE o.changed
    <3>1. y = x BY <2>1
    <3> HIDE DEF x, y
    <3>2. QED BY <1>1, <3>1 DEF NodePublished, NodeAgrees
  <2>2. CASE ~o.changed
    <3>1. pub # None /\ NodeAgrees(pub, o) BY <2>2 DEF NodeOk, NodePublished
    <3>2. y = pub BY <2>2
    <3>3. o.changed = FALSE BY <2>2 DEF NodeObjects
    <3>4. /\ x.changed = FALSE /\ x.dodag = o.dodag /\ x.hasRank = o.hasRank /\ x.rank = o.rank
          /\ x.hasConfig = o.hasConfig /\ x.config = o.config /\ x.hasPrefix = o.hasPrefix /\ x.prefix = o.prefix
          /\ x.local = o.local /\ x.routes = o.routes /\ x.errors = o.errors
      BY SMT DEF NodeObjects
    <3> HIDE DEF x, y
    <3>5. NodeAgrees(pub, x) BY <3>1, <3>3, <3>4, Zenon DEF NodeAgrees
    <3>6. QED BY <3>1, <3>2, <3>5 DEF NodePublished
  <2>3. QED BY <2>1, <2>2
<1>4. QED BY <1>1, <1>2, <1>3, Zenon DEF NodeOk

LEMMA CommittedDodag ==
  ASSUME NEW o \in DodagObjects, NEW pub \in OrNone(DodagObjects), DodagPublished(o, pub)
  PROVE  LET x == [o EXCEPT !.changed = FALSE]
             y == IF o.changed THEN x ELSE pub
         IN /\ x \in DodagObjects /\ x # None /\ y \in OrNone(DodagObjects)
            /\ x.nodes = o.nodes /\ x.instance = o.instance /\ SameOptions(o, x)
            /\ DodagPublished(x, y)
<1> DEFINE x == [o EXCEPT !.changed = FALSE]
           y == IF o.changed THEN x ELSE pub
<1>1. x \in DodagObjects /\ x # None /\ y \in OrNone(DodagObjects)
  <2>1. FALSE \in BOOLEAN OBVIOUS
  <2>2. x \in DodagObjects BY <2>1, DodagFields
  <2> HIDE DEF x
  <2>3. QED BY <2>2, NoneAssumption DEF OrNone
<1>2. x.nodes = o.nodes /\ x.instance = o.instance /\ SameOptions(o, x)
  BY SMT DEF SameOptions, DodagObjects
<1>3. DodagPublished(x, y)
  <2>1. CASE o.changed
    <3>1. y = x BY <2>1
    <3> HIDE DEF x, y
    <3>2. QED BY <1>1, <3>1 DEF DodagPublished, DodagAgrees
  <2>2. CASE ~o.changed
    <3>1. pub # None /\ DodagAgrees(pub, o) BY <2>2 DEF DodagPublished
    <3>2. y = pub BY <2>2
    <3>3. o.changed = FALSE BY <2>2 DEF DodagObjects
    <3>4. /\ x.changed = FALSE /\ x.nodes = o.nodes /\ x.instance = o.instance /\ x.dio = o.dio
          /\ x.config = o.config /\ x.prefix = o.prefix
      BY SMT DEF DodagObjects
    <3> HIDE DEF x, y
    <3>5. DodagAgrees(pub, x) BY <3>1, <3>3, <3>4, Zenon DEF DodagAgrees
    <3>6. QED BY <3>1, <3>2, <3>5 DEF DodagPublished
  <2>3. QED BY <2>1, <2>2
<1>4. QED BY <1>1, <1>2, <1>3

LEMMA CommittedInstance ==
  ASSUME NEW o \in InstanceObjects, NEW pub \in OrNone(InstanceObjects), ~o.changed => pub = o
  PROVE  LET x == [o EXCEPT !.changed = FALSE]
             y == IF o.changed THEN x ELSE pub
         IN x \in InstanceObjects /\ x # None /\ x.dodags = o.dodags /\ y = x
<1> DEFINE x == [o EXCEPT !.changed = FALSE]
<1>1. ASSUME NEW v \in BOOLEAN PROVE [o EXCEPT !.changed = v] \in InstanceObjects BY SMT DEF InstanceObjects
<1>2. x \in InstanceObjects /\ x # None BY <1>1, NoneAssumption
<1>3. x.dodags = o.dodags BY SMT DEF InstanceObjects
<1>4. ~o.changed => x = o
  <2> SUFFICES ASSUME ~o.changed PROVE x = o OBVIOUS
  <2>1. o.changed = FALSE BY DEF InstanceObjects
  <2>2. QED BY <2>1, SMT DEF InstanceObjects
<1> HIDE DEF x
<1>5. (IF o.changed THEN x ELSE pub) = x BY <1>4
<1>6. QED BY <1>2, <1>3, <1>5, Zenon DEF x

LEMMA CommittedLink ==
  ASSUME NEW o \in LinkObjects, NEW pub \in OrNone(LinkObjects), ~o.changed => pub = o
  PROVE  LET x == [o EXCEPT !.changed = FALSE]
             y == IF o.changed THEN x ELSE pub
         IN x \in LinkObjects /\ x # None /\ x.deprecated = o.deprecated /\ y = x
<1> DEFINE x == [o EXCEPT !.changed = FALSE]
<1>1. ASSUME NEW v \in BOOLEAN PROVE [o EXCEPT !.changed = v] \in LinkObjects BY SMT DEF LinkObjects
<1>2. x \in LinkObjects /\ x # None BY <1>1, NoneAssumption
<1>3. x.deprecated = o.deprecated BY SMT DEF LinkObjects
<1>4. ~o.changed => x = o
  <2> SUFFICES ASSUME ~o.changed PROVE x = o OBVIOUS
  <2>1. o.changed = FALSE BY DEF LinkObjects
  <2>2. QED BY <2>1, SMT DEF LinkObjects
<1> HIDE DEF x
<1>5. (IF o.changed THEN x ELSE pub) = x BY <1>4
<1>6. QED BY <1>2, <1>3, <1>5, Zenon DEF x

LEMMA CommitOk ==
  ASSUME NEW s, NEW X, Good(s, X)
  PROVE  Good(Commit(s), X)
<1> DEFINE t == Commit(s)
<1>1. s \in Databases BY DEF Good
<1>2. /\ s.node \in [Nodes -> OrNone(NodeObjects)] /\ s.pubNode \in [Nodes -> OrNone(NodeObjects)]
      /\ s.dodag \in [DodagRefs -> OrNone(DodagObjects)] /\ s.pubDodag \in [DodagRefs -> OrNone(DodagObjects)]
      /\ s.instance \in [Instances -> OrNone(InstanceObjects)] /\ s.pubInstance \in [Instances -> OrNone(InstanceObjects)]
      /\ s.link \in [LinkRefs -> OrNone(LinkObjects)] /\ s.pubLink \in [LinkRefs -> OrNone(LinkObjects)]
  BY <1>1 DEF Databases
<1>3. /\ t.node = Reset(s.node) /\ t.pubNode = Published(s.node, s.pubNode)
      /\ t.dodag = Reset(s.dodag) /\ t.pubDodag = Published(s.dodag, s.pubDodag)
      /\ t.instance = Reset(s.instance) /\ t.pubInstance = Published(s.instance, s.pubInstance)
      /\ t.link = Reset(s.link) /\ t.pubLink = Published(s.link, s.pubLink)
  BY DEF Commit
<1>4. ASSUME NEW n \in Nodes
      PROVE  /\ s.node[n] = None => t.node[n] = None /\ t.pubNode[n] = None
             /\ s.node[n] # None =>
                  /\ t.node[n] = [s.node[n] EXCEPT !.changed = FALSE]
                  /\ t.pubNode[n] = IF s.node[n].changed THEN t.node[n] ELSE s.pubNode[n]
  BY <1>2, <1>3 DEF Reset, Published
<1>5. ASSUME NEW d \in DodagRefs
      PROVE  /\ s.dodag[d] = None => t.dodag[d] = None /\ t.pubDodag[d] = None
             /\ s.dodag[d] # None =>
                  /\ t.dodag[d] = [s.dodag[d] EXCEPT !.changed = FALSE]
                  /\ t.pubDodag[d] = IF s.dodag[d].changed THEN t.dodag[d] ELSE s.pubDodag[d]
  BY <1>2, <1>3 DEF Reset, Published
<1>6. ASSUME NEW i \in Instances
      PROVE  /\ s.instance[i] = None => t.instance[i] = None /\ t.pubInstance[i] = None
             /\ s.instance[i] # None =>
                  /\ t.instance[i] = [s.instance[i] EXCEPT !.changed = FALSE]
                  /\ t.pubInstance[i] = IF s.instance[i].changed THEN t.instance[i] ELSE s.pubInstance[i]
  BY <1>2, <1>3 DEF Reset, Published
<1>7. ASSUME NEW l \in LinkRefs
      PROVE  /\ s.link[l] = None => t.link[l] = None /\ t.pubLink[l] = None
             /\ s.link[l] # None =>
                  /\ t.link[l] = [s.link[l] EXCEPT !.changed = FALSE]
                  /\ t.pubLink[l] = IF s.link[l].changed THEN t.link[l] ELSE s.pubLink[l]
  BY <1>2, <1>3 DEF Reset, Published
<1> HIDE DEF t
<1>8. ASSUME NEW d \in DodagRefs, s.dodag[d] # None
      PROVE  /\ t.dodag[d] \in DodagObjects /\ t.dodag[d] # None /\ t.pubDodag[d] \in OrNone(DodagObjects)
             /\ t.dodag[d].nodes = s.dodag[d].nodes /\ t.dodag[d].instance = s.dodag[d].instance
             /\ SameOptions(s.dodag[d], t.dodag[d]) /\ DodagPublished(t.dodag[d], t.pubDodag[d])
  <2>1. s.dodag[d] \in DodagObjects /\ s.pubDodag[d] \in OrNone(DodagObjects) BY <1>2, <1>8 DEF OrNone
  <2>2. DodagPublished(s.dodag[d], s.pubDodag[d]) BY <1>8 DEF Good, OthersPublished
  <2> DEFINE x == [s.dodag[d] EXCEPT !.changed = FALSE]
             y == IF s.dodag[d].changed THEN x ELSE s.pubDodag[d]
  <2>3. /\ x \in DodagObjects /\ x # None /\ y \in OrNone(DodagObjects)
        /\ x.nodes = s.dodag[d].nodes /\ x.instance = s.dodag[d].instance /\ SameOptions(s.dodag[d], x)
        /\ DodagPublished(x, y)
    BY <2>1, <2>2, CommittedDodag
  <2>4. t.dodag[d] = x /\ t.pubDodag[d] = y BY <1>5, <1>8
  <2> HIDE DEF x, y
  <2>5. QED BY <2>3, <2>4
<1>9. ASSUME NEW n \in Nodes, s.node[n] # None
      PROVE  /\ t.node[n] \in NodeObjects /\ t.node[n] # None /\ t.pubNode[n] \in OrNone(NodeObjects)
             /\ Replaces(t.node[n], s.node[n])
             /\ NodeOk(n, t.node[n], t.pubNode[n], s.dodag[s.node[n].dodag], s.node[n].dodag \notin X \cup {None})
             /\ s.node[n].routes \in SUBSET [target : Ips, via : Nodes]
             /\ \A r \in s.node[n].routes : s.node[r.via] # None
  <2>1. s.node[n] \in NodeObjects /\ s.pubNode[n] \in OrNone(NodeObjects) BY <1>2, <1>9 DEF OrNone
  <2>2. /\ NodeOk(n, s.node[n], s.pubNode[n], s.dodag[s.node[n].dodag], s.node[n].dodag \notin X \cup {None})
        /\ s.node[n].routes \in SUBSET [target : Ips, via : Nodes]
        /\ \A r \in s.node[n].routes : s.node[r.via] # None
    BY <1>9, NodeIsOk
  <2> DEFINE x == [s.node[n] EXCEPT !.changed = FALSE]
             y == IF s.node[n].changed THEN x ELSE s.pubNode[n]
  <2>3. /\ NodeOk(n, x, y, s.dodag[s.node[n].dodag], s.node[n].dodag \notin X \cup {None})
        /\ Replaces(x, s.node[n]) /\ y \in OrNone(NodeObjects)
    BY <2>1, <2>2, CommittedNode
  <2>4. t.node[n] = x /\ t.pubNode[n] = y BY <1>4, <1>9
  <2> HIDE DEF x, y
  <2>5. QED BY <2>2, <2>3, <2>4, NoneAssumption DEF NodeOk
<1>10. ASSUME NEW i \in Instances, s.instance[i] # None
       PROVE  /\ t.instance[i] \in InstanceObjects /\ t.instance[i] # None
              /\ t.instance[i].dodags = s.instance[i].dodags /\ t.pubInstance[i] = t.instance[i]
  <2>1. s.instance[i] \in InstanceObjects /\ s.pubInstance[i] \in OrNone(InstanceObjects) BY <1>2, <1>10 DEF OrNone
  <2>2. ~s.instance[i].changed => s.pubInstance[i] = s.instance[i] BY <1>10 DEF Good, OthersPublished
  <2>3. QED BY <1>6, <1>10, <2>1, <2>2, CommittedInstance
<1>11. ASSUME NEW l \in LinkRefs, s.link[l] # None
       PROVE  /\ t.link[l] \in LinkObjects /\ t.link[l] # None
              /\ t.link[l].deprecated = s.link[l].deprecated /\ t.pubLink[l] = t.link[l]
  <2>1. s.link[l] \in LinkObjects /\ s.pubLink[l] \in OrNone(LinkObjects) BY <1>2, <1>11 DEF OrNone
  <2>2. ~s.link[l].changed => s.pubLink[l] = s.link[l] BY <1>11 DEF Good, OthersPublished
  <2>3. QED BY <1>7, <1>11, <2>1, <2>2, CommittedLink
<1>12. t \in Databases
  <2>1. t.node \in [Nodes -> OrNone(NodeObjects)] /\ t.pubNode \in [Nodes -> OrNone(NodeObjects)]
    <3>1. \A n \in Nodes : t.node[n] \in OrNone(NodeObjects) /\ t.pubNode[n] \in OrNone(NodeObjects)
      BY <1>4, <1>9 DEF OrNone
    <3>2. /\ t.node = [n \in Nodes |-> t.node[n]] /\ t.pubNode = [n \in Nodes |-> t.pubNode[n]]
      BY <1>2, <1>3 DEF Reset, Published
    <3>3. QED BY <3>1, <3>2
  <2>2. t.dodag \in [DodagRefs -> OrNone(DodagObjects)] /\ t.pubDodag \in [DodagRefs -> OrNone(DodagObjects)]
    <3>1. \A d \in DodagRefs : t.dodag[d] \in OrNone(DodagObjects) /\ t.pubDodag[d] \in OrNone(DodagObjects)
      BY <1>5, <1>8 DEF OrNone
    <3>2. t.dodag = [d \in DodagRefs |-> t.dodag[d]] /\ t.pubDodag = [d \in DodagRefs |-> t.pubDodag[d]]
      BY <1>2, <1>3 DEF Reset, Published
    <3>3. QED BY <3>1, <3>2
  <2>3. /\ t.instance \in [Instances -> OrNone(InstanceObjects)]
        /\ t.pubInstance \in [Instances -> OrNone(InstanceObjects)]
    <3>1. \A i \in Instances : t.instance[i] \in OrNone(InstanceObjects) /\ t.pubInstance[i] \in OrNone(InstanceObjects)
      BY <1>6, <1>10 DEF OrNone
    <3>2. t.instance = [i \in Instances |-> t.instance[i]] /\ t.pubInstance = [i \in Instances |-> t.pubInstance[i]]
      BY <1>2, <1>3 DEF Reset, Published
    <3>3. QED BY <3>1, <3>2
  <2>4. t.link \in [LinkRefs -> OrNone(LinkObjects)] /\ t.pubLink \in [LinkRefs -> OrNone(LinkObjects)]
    <3>1. \A l \in LinkRefs : t.link[l] \in OrNone(LinkObjects) /\ t.pubLink[l] \in OrNone(LinkObjects)
      BY <1>7, <1>11 DEF OrNone
    <3>2. t.link = [l \in LinkRefs |-> t.link[l]] /\ t.pubLink = [l \in LinkRefs |-> t.pubLink[l]]
      BY <1>2, <1>3 DEF Reset, Published
    <3>3. QED BY <3>1, <3>2
  <2>5. t = [node |-> t.node, pubNode |-> t.pubNode, dodag |-> t.dodag, pubDodag |-> t.pubDodag,
             instance |-> t.instance, pubInstance |-> t.pubInstance, link |-> t.link, pubLink |-> t.pubLink]
    BY DEF t, Commit
  <2>6. QED BY <2>1, <2>2, <2>3, <2>4, <2>5 DEF Databases
<1>13. NodesOk(t, X)
  <2> SUFFICES ASSUME NEW m \in Nodes, t.node[m] # None
               PROVE  /\ NodeOk(m, t.node[m], t.pubNode[m], t.dodag[t.node[m].dodag], t.node[m].dodag \notin X \cup {None})
                      /\ \A r \in t.node[m].routes : t.node[r.via] # None
    BY Zenon DEF NodesOk
  <2>1. s.node[m] # None BY <1>4
  <2>2. s.node[m].dodag # None => SameOptions(s.dodag[s.node[m].dodag], t.dodag[s.node[m].dodag])
    BY <1>8, <2>1, NamedDodag
  <2>3. NodeOk(m, t.node[m], t.pubNode[m], t.dodag[s.node[m].dodag], s.node[m].dodag \notin X \cup {None})
    BY <1>9, <2>1, <2>2, OptionsKept
  <2>4. \A r \in s.node[m].routes : r.via \in Nodes BY <1>9, <2>1
  <2>5. \A r \in t.node[m].routes : t.node[r.via] # None BY <1>9, <2>1, <2>4 DEF Replaces
  <2>6. QED BY <1>9, <2>1, <2>3, <2>5 DEF Replaces
<1>14. MembersOk(t)
  <2> SUFFICES ASSUME NEW m \in Nodes, NEW d \in DodagRefs
               PROVE  (t.dodag[d] # None /\ m \in t.dodag[d].nodes) <=> (t.node[m] # None /\ t.node[m].dodag = d)
    BY DEF MembersOk
  <2>1. (s.dodag[d] # None /\ m \in s.dodag[d].nodes) <=> (s.node[m] # None /\ s.node[m].dodag = d)
    BY DEF Good, MembersOk
  <2>2. t.dodag[d] # None <=> s.dodag[d] # None BY <1>5, <1>8
  <2>3. t.node[m] # None <=> s.node[m] # None BY <1>4, <1>9
  <2>4. QED BY <1>8, <1>9, <2>1, <2>2, <2>3 DEF Replaces
<1>15. InstancesOk(t)
  <2>1. \A d \in DodagRefs : t.dodag[d] # None /\ t.dodag[d].instance # None =>
          t.instance[t.dodag[d].instance] # None /\ d \in t.instance[t.dodag[d].instance].dodags
    <3> SUFFICES ASSUME NEW d \in DodagRefs, t.dodag[d] # None, t.dodag[d].instance # None
                 PROVE  t.instance[t.dodag[d].instance] # None /\ d \in t.instance[t.dodag[d].instance].dodags
      OBVIOUS
    <3>1. s.dodag[d] # None BY <1>5
    <3>2. t.dodag[d].instance = s.dodag[d].instance /\ s.dodag[d].instance \in Instances
      BY <1>1, <1>8, <3>1, DodagTypes DEF OrNone
    <3>3. s.instance[s.dodag[d].instance] # None /\ d \in s.instance[s.dodag[d].instance].dodags
      BY <3>1, <3>2 DEF Good, InstancesOk
    <3>4. QED BY <1>10, <3>2, <3>3
  <2>2. \A i \in Instances : t.instance[i] # None => \A d \in t.instance[i].dodags : t.dodag[d] # None
    <3> SUFFICES ASSUME NEW i \in Instances, t.instance[i] # None, NEW d \in t.instance[i].dodags
                 PROVE  t.dodag[d] # None
      OBVIOUS
    <3>1. s.instance[i] # None BY <1>6
    <3>2. d \in s.instance[i].dodags BY <1>10, <3>1
    <3>3. d \in DodagRefs BY <1>1, <3>1, <3>2, InstanceTypes
    <3>4. s.dodag[d] # None BY <3>1, <3>2 DEF Good, InstancesOk
    <3>5. QED BY <1>8, <3>3, <3>4
  <2>3. QED BY <2>1, <2>2 DEF InstancesOk
<1>16. LinksOk(t)
  <2>1. \A l \in LinkRefs : l[1] \in Nodes /\ l[2] \in Nodes BY DEF LinkRefs
  <2>2. ASSUME NEW l \in LinkRefs, t.link[l] # None PROVE t.node[l[1]] # None /\ t.node[l[2]] # None
    <3>1. s.link[l] # None BY <1>7, <2>2
    <3>2. s.node[l[1]] # None /\ s.node[l[2]] # None BY <3>1 DEF Good, LinksOk
    <3>3. QED BY <1>9, <2>1, <3>2
  <2>3. ASSUME OnePreferredParent, NEW l \in LinkRefs, NEW k \in LinkRefs, t.link[l] # None, t.link[k] # None,
               l[1] = k[1], ~t.link[l].deprecated, ~t.link[k].deprecated
        PROVE  l = k
    <3>1. s.link[l] # None /\ s.link[k] # None BY <1>7, <2>3
    <3>2. ~s.link[l].deprecated /\ ~s.link[k].deprecated BY <1>11, <2>3, <3>1
    <3>3. QED BY <2>3, <3>1, <3>2 DEF Good, LinksOk
  <2>4. QED BY <2>2, <2>3 DEF LinksOk
<1>17. OthersPublished(t) BY <1>5, <1>6, <1>7, <1>8, <1>10, <1>11 DEF OthersPublished
<1>18. QED BY <1>12, <1>13, <1>14, <1>15, <1>16, <1>17 DEF Good, t

----------------------------------------------------------------------------
(* The four handlers.                                                      *)

LEMMA DioOk ==
  ASSUME NEW s, Good(s, {}), NEW p \in Dios
  PROVE  Good(Dio(s, p), {})
<1> DEFINE n == p.src
           i == p.instance
           d == <<p.dodagid, p.version>>
           root == p.rank \in RootRanks
           found1 == GetInstance(s, i)
           found2 == GetDodag(found1, d)
           found == GetNode(found2, n)
           joined == DodagAddNode(found, d, n)
           rooted1 == InstanceAddDodag(joined, i, d)
           rooted2 == SetMop(rooted1, i, p.mop)
           rooted3 == DodagFromRoot(rooted2, d, p)
           rooted == IF root THEN rooted3 ELSE joined
           heard1 == NodeSetChanged(rooted, n)
           heard2 == SetIp(heard1, n, p.srcIp)
           heard == NodeFromDio(heard2, n, p.rank)
           advertised1 == NodeConfig(heard, n, p.config, d)
           advertised == NodePrefix(advertised1, n, p.prefix, d)
           Ready(t) == /\ t.node[n] # None /\ t.node[n].dodag = d
                       /\ t.dodag[d] # None /\ t.instance[i] # None
           X == IF root THEN {d} ELSE {}
<1>1. /\ n \in Nodes /\ i \in Instances /\ d \in DodagRefs /\ p.rank \in Nat /\ p.mop \in Nat
      /\ p.config \in OrNone(Configs) /\ p.prefix \in OrNone(Prefixes) /\ p.srcIp \in Addresses \ {Unset}
  BY PacketAssumption
<1>2. Dio(s, p) = IF root THEN SetNodesChanged(advertised, d) ELSE advertised
  BY Zenon DEF Dio
<1> HIDE DEF n, d, i, root, found1, found2, found, joined, rooted1, rooted2, rooted3, rooted,
             heard1, heard2, heard, advertised1, advertised, X
<1>3. ASSUME NEW t, NEW u, Ready(t), Kept(t, u) PROVE Ready(u)
  BY <1>1, <1>3, Zenon DEF Kept
<1>4. Good(found1, {}) /\ found1.instance[i] # None BY <1>1, GetInstanceOk DEF found1
<1>5. Good(found2, {}) /\ found2.instance[i] # None /\ found2.dodag[d] # None
  BY <1>1, <1>4, GetDodagOk DEF found2, Kept
<1>6. Good(found, {}) /\ found.instance[i] # None /\ found.dodag[d] # None /\ found.node[n] # None
  BY <1>1, <1>5, GetNodeOk DEF found, Kept
<1>7. Good(joined, {}) /\ Ready(joined) BY <1>1, <1>6, DodagAddNodeOk DEF joined
<1>8. Good(rooted1, {}) /\ Ready(rooted1)
  <2>1. Good(rooted1, {}) /\ Kept(joined, rooted1) BY <1>1, <1>7, InstanceAddDodagOk DEF rooted1
  <2>2. QED BY <1>3, <1>7, <2>1
<1>9. Good(rooted2, {}) /\ Ready(rooted2)
  <2>1. Good(rooted2, {}) /\ Kept(rooted1, rooted2) BY <1>1, <1>8, SetMopOk DEF rooted2
  <2>2. QED BY <1>3, <1>8, <2>1
<1>10. Good(rooted3, {d}) /\ Ready(rooted3)
  <2>1. Good(rooted3, {d}) /\ Kept(rooted2, rooted3) BY <1>1, <1>9, DodagFromRootOk DEF rooted3
  <2>2. QED BY <1>3, <1>9, <2>1
<1>11. Good(rooted, X) /\ Ready(rooted) BY <1>7, <1>10, Zenon DEF rooted, X
<1>12. Good(heard1, X) /\ Ready(heard1)
  <2>1. Good(heard1, X) /\ Kept(rooted, heard1) BY <1>1, <1>11, NodeSetChangedOk DEF heard1
  <2>2. QED BY <1>3, <1>11, <2>1
<1>13. Good(heard2, X) /\ Ready(heard2)
  <2>1. Good(heard2, X) /\ Kept(heard1, heard2) BY <1>1, <1>12, SetIpOk DEF heard2
  <2>2. QED BY <1>3, <1>12, <2>1
<1>14. Good(heard, X) /\ Ready(heard)
  <2>1. Good(heard, X) /\ Kept(heard2, heard) BY <1>1, <1>13, NodeFromDioOk DEF heard
  <2>2. QED BY <1>3, <1>13, <2>1
<1>15. Good(advertised1, X) /\ Ready(advertised1)
  <2>1. Good(advertised1, X) /\ Kept(heard, advertised1) BY <1>1, <1>14, NodeConfigOk DEF advertised1
  <2>2. QED BY <1>3, <1>14, <2>1
<1>16. Good(advertised, X) /\ Ready(advertised)
  <2>1. Good(advertised, X) /\ Kept(advertised1, advertised) BY <1>1, <1>15, NodePrefixOk DEF advertised
  <2>2. QED BY <1>3, <1>15, <2>1
<1>17. CASE root
  <2>1. Good(advertised, {d}) BY <1>16, <1>17, Zenon DEF X
  <2>2. Good(SetNodesChanged(advertised, d), {}) BY <1>1, <1>16, <2>1, SetNodesChangedOk
  <2>3. QED BY <1>2, <1>17, <2>2
<1>18. CASE ~root
  <2>1. Good(advertised, {}) BY <1>16, <1>18, Zenon DEF X
  <2>2. QED BY <1>2, <1>18, <2>1
<1>19. QED BY <1>17, <1>18

LEMMA DaoOk ==
  ASSUME NEW s, Good(s, {}), NEW p \in Daos
  PROVE  Good(Dao(s, p), {})
<1> DEFINE child == p.src
           parent == p.dst
           l == <<child, parent>>
           found1 == GetNode(s, child)
           found2 == SetIp(found1, child, p.srcIp)
           found3 == GetNode(found2, parent)
           found == GetInstance(found3, p.instance)
           located == IF found.node[parent].local # p.dstIp THEN AddError(found, child, "ip_mismatch") ELSE found
           parentDodag == located.node[parent].dodag
           placed == IF /\ p.dodagid # None /\ located.node[child].dodag # None
                        /\ parentDodag # None /\ parentDodag[1] # p.dodagid
                     THEN AddError(located, child, "dodag_mismatch") ELSE located
           global == placed.node[child].global
           touched == TouchLink(GetLink(placed, l), l)
           looped == CheckLoop(touched, child, parent)
           dropped == [placed EXCEPT !.link[l] = None]
           linked == CASE p.lifetime = None -> placed
                       [] p.lifetime = 0 -> IF p.target # None /\ p.target = global THEN dropped ELSE placed
                       [] OTHER -> looped
           routed == IF p.lifetime = 0 THEN DelRoute(linked, parent, p.target, child)
                     ELSE AddRoute(linked, parent, p.target, child)
           Ready(t) == t.node[child] # None /\ t.node[parent] # None
<1>1. /\ child \in Nodes /\ parent \in Nodes /\ l \in LinkRefs /\ p.instance \in Instances
      /\ p.target \in OrNone(Ips) /\ p.srcIp \in Addresses \ {Unset}
  BY PacketAssumption DEF LinkRefs
<1>2. Dao(s, p) = IF p.target = None \/ p.lifetime = None THEN linked
                  ELSE IF p.target = global THEN NodeSetChanged(routed, child)
                  ELSE routed
  BY Zenon DEF Dao
<1>3. l = <<child, parent>> OBVIOUS
<1>4. linked \in {placed, dropped, looped} BY Zenon
<1> HIDE DEF child, parent, l, found1, found2, found3, found, located, placed, touched, looped, dropped, linked, routed
<1>5. ASSUME NEW t, NEW u, Ready(t), Kept(t, u) PROVE Ready(u)
  BY <1>1, <1>5, Zenon DEF Kept
<1>6. Good(found1, {}) /\ found1.node[child] # None BY <1>1, GetNodeOk DEF found1
<1>7. Good(found2, {}) /\ found2.node[child] # None BY <1>1, <1>6, SetIpOk DEF found2, Kept
<1>8. Good(found3, {}) /\ Ready(found3) BY <1>1, <1>7, GetNodeOk DEF found3, Kept
<1>9. Good(found, {}) /\ Ready(found)
  <2>1. Good(found, {}) /\ Kept(found3, found) BY <1>1, <1>8, GetInstanceOk DEF found
  <2>2. QED BY <1>5, <1>8, <2>1
<1>10. Good(located, {}) /\ Ready(located)
  <2> DEFINE erred == AddError(found, child, "ip_mismatch")
  <2>1. Good(erred, {}) /\ Kept(found, erred) BY <1>1, <1>9, AddErrorOk DEF RplErrors
  <2>2. Ready(erred) BY <1>5, <1>9, <2>1
  <2> HIDE DEF erred
  <2>3. located = erred \/ located = found BY DEF located, erred
  <2>4. QED BY <1>9, <2>1, <2>2, <2>3
<1>11. Good(placed, {}) /\ Ready(placed)
  <2> DEFINE erred == AddError(located, child, "dodag_mismatch")
  <2>1. Good(erred, {}) /\ Kept(located, erred) BY <1>1, <1>10, AddErrorOk DEF RplErrors
  <2>2. Ready(erred) BY <1>5, <1>10, <2>1
  <2> HIDE DEF erred
  <2>3. placed = erred \/ placed = located BY DEF placed, erred
  <2>4. QED BY <1>10, <2>1, <2>2, <2>3
<1>12. Good(dropped, {}) /\ Ready(dropped)
  <2>1. Good(dropped, {}) /\ Kept(placed, dropped) BY <1>1, <1>11, DropLinkOk DEF dropped
  <2>2. QED BY <1>5, <1>11, <2>1
<1>13. Good(touched, {}) /\ Ready(touched)
  <2>1. Good(touched, {}) /\ Kept(placed, touched) BY <1>1, <1>3, <1>11, TouchLinkOk DEF touched
  <2>2. QED BY <1>5, <1>11, <2>1
<1>14. Good(looped, {}) /\ Ready(looped)
  <2>1. Good(looped, {}) /\ Kept(touched, looped) BY <1>1, <1>13, CheckLoopOk DEF looped
  <2>2. QED BY <1>5, <1>13, <2>1
<1>15. Good(linked, {}) /\ Ready(linked) BY <1>4, <1>11, <1>12, <1>14
<1>16. p.target # None => Good(routed, {}) /\ Ready(routed)
  <2> SUFFICES ASSUME p.target # None PROVE Good(routed, {}) /\ Ready(routed) OBVIOUS
  <2>1. p.target \in Ips BY <1>1 DEF OrNone
  <2>2. CASE p.lifetime = 0
    <3>1. routed = DelRoute(linked, parent, p.target, child) BY <2>2 DEF routed
    <3>2. Good(routed, {}) /\ Kept(linked, routed) BY <1>1, <1>15, <3>1, DelRouteOk
    <3>3. QED BY <1>5, <1>15, <3>2
  <2>3. CASE p.lifetime # 0
    <3>1. routed = AddRoute(linked, parent, p.target, child) BY <2>3 DEF routed
    <3>2. Good(routed, {}) /\ Kept(linked, routed) BY <1>1, <1>15, <2>1, <3>1, AddRouteOk
    <3>3. QED BY <1>5, <1>15, <3>2
  <2>4. QED BY <2>2, <2>3
<1>17. p.target # None => Good(NodeSetChanged(routed, child), {}) BY <1>1, <1>16, NodeSetChangedOk
<1>18. QED BY <1>2, <1>15, <1>16, <1>17

LEMMA DisOk ==
  ASSUME NEW s, Good(s, {}), NEW p \in Diss
  PROVE  Good(Dis(s, p), {})
<1> DEFINE found == GetNode(s, p.src)
           heard == SetIp(found, p.src, p.srcIp)
<1>1. p.src \in Nodes /\ p.srcIp \in Addresses \ {Unset} BY PacketAssumption
<1>2. Good(found, {}) /\ found.node[p.src] # None BY <1>1, GetNodeOk
<1> HIDE DEF found
<1>3. Good(heard, {}) /\ heard.node[p.src] # None BY <1>1, <1>2, SetIpOk DEF Kept
<1>4. Dis(s, p) = NodeSetChanged(heard, p.src) BY DEF Dis, found
<1> HIDE DEF heard
<1>5. QED BY <1>1, <1>3, <1>4, NodeSetChangedOk

LEMMA DataOk ==
  ASSUME NEW s, Good(s, {}), NEW p \in Datas
  PROVE  Good(Data(s, p), {})
<1> DEFINE src == p.src
           dst == p.dst
           l == <<src, dst>>
           known == GetNode(s, src)
           heard == IF p.hopLimit = 64 THEN SetIp(known, src, p.srcIp) ELSE known
           ranked == IF p.hbh = None THEN heard ELSE NodeFromHopByHop(heard, src, p.hbh.senderRank)
           found == GetNode(ranked, dst)
           flagged == IF p.hbh.rankError THEN AddError(found, src, "rank") ELSE found
           failed == IF p.hbh.forwardError THEN AddError(flagged, src, "forward") ELSE flagged
           touched == TouchLink(GetLink(failed, l), l)
           routed == AddRoute(touched, dst, p.srcIp, src)
           up == CheckLoop(routed, src, dst)
           down == AddRoute(failed, src, p.dstIp, dst)
           upward == AddError(up, src, "upward")
           downward == AddError(down, src, "downward")
           Ready(t) == t.node[src] # None /\ t.node[dst] # None
<1>1. /\ src \in Nodes /\ dst \in OrNone(Nodes) /\ p.srcIp \in Addresses \ {Unset} /\ p.dstIp \in Ips
      /\ p.hbh # None => p.hbh.senderRank \in Nat
  BY PacketAssumption
<1>2. p.srcIp \in Ips BY <1>1 DEF Addresses, Ips, Unset, Multicast
<1>3. l = <<src, dst>> OBVIOUS
<1>4. /\ dst = None => Data(s, p) = ranked
      /\ dst # None => Data(s, p) \in {found, up, upward, down, downward}
  BY Zenon DEF Data
<1> HIDE DEF src, dst, l, known, heard, ranked, found, flagged, failed, touched, routed, up, down, upward, downward
<1>5. Good(known, {}) /\ known.node[src] # None BY <1>1, GetNodeOk DEF known
<1>6. Good(heard, {}) /\ heard.node[src] # None
  <2>1. LET t == SetIp(known, src, p.srcIp) IN Good(t, {}) /\ t.node[src] # None BY <1>1, <1>5, SetIpOk DEF Kept
  <2>2. QED BY <1>5, <2>1, Zenon DEF heard
<1>7. Good(ranked, {}) /\ ranked.node[src] # None
  <2>1. CASE p.hbh = None BY <1>6, <2>1 DEF ranked
  <2>2. CASE p.hbh # None
    <3>1. ranked = NodeFromHopByHop(heard, src, p.hbh.senderRank) BY <2>2 DEF ranked
    <3>2. QED BY <1>1, <1>6, <2>2, <3>1, NodeFromHopByHopOk DEF Kept
  <2>3. QED BY <2>1, <2>2
<1>8. CASE dst = None BY <1>4, <1>7, <1>8
<1>9. CASE dst # None
  <2>1. dst \in Nodes BY <1>1, <1>9 DEF OrNone
  <2>2. ASSUME NEW t, NEW u, Ready(t), Kept(t, u) PROVE Ready(u)
    BY <1>1, <2>1, <2>2, Zenon DEF Kept
  <2>3. Good(found, {}) /\ Ready(found) BY <1>1, <1>7, <2>1, GetNodeOk DEF found, Kept
  <2>4. ASSUME NEW t, NEW e \in RplErrors, Good(t, {}), Ready(t)
        PROVE  Good(AddError(t, src, e), {}) /\ Ready(AddError(t, src, e))
    <3>1. Good(AddError(t, src, e), {}) /\ Kept(t, AddError(t, src, e)) BY <1>1, <2>4, AddErrorOk
    <3>2. QED BY <2>2, <2>4, <3>1
  <2>5. /\ "rank" \in RplErrors /\ "forward" \in RplErrors /\ "upward" \in RplErrors /\ "downward" \in RplErrors
    BY DEF RplErrors
  <2>6. Good(flagged, {}) /\ Ready(flagged) BY <2>3, <2>4, <2>5, Zenon DEF flagged
  <2>7. Good(failed, {}) /\ Ready(failed) BY <2>4, <2>5, <2>6, Zenon DEF failed
  <2>8. Good(touched, {}) /\ Ready(touched)
    <3>1. Good(touched, {}) /\ Kept(failed, touched) BY <1>1, <1>3, <2>1, <2>7, TouchLinkOk DEF touched
    <3>2. QED BY <2>2, <2>7, <3>1
  <2>9. Good(routed, {}) /\ Ready(routed)
    <3>1. Good(routed, {}) /\ Kept(touched, routed) BY <1>1, <1>2, <2>1, <2>8, AddRouteOk DEF routed
    <3>2. QED BY <2>2, <2>8, <3>1
  <2>10. Good(up, {}) /\ Ready(up)
    <3>1. Good(up, {}) /\ Kept(routed, up) BY <1>1, <2>9, CheckLoopOk DEF up
    <3>2. QED BY <2>2, <2>9, <3>1
  <2>11. Good(down, {}) /\ Ready(down)
    <3>1. Good(down, {}) /\ Kept(failed, down) BY <1>1, <2>1, <2>7, AddRouteOk DEF down
    <3>2. QED BY <2>2, <2>7, <3>1
  <2>12. Good(upward, {}) BY <2>4, <2>5, <2>10 DEF upward
  <2>13. Good(downward, {}) BY <2>4, <2>5, <2>11 DEF downward
  <2>14. QED BY <1>4, <1>9, <2>3, <2>10, <2>11, <2>12, <2>13
<1>10. QED BY <1>8, <1>9

----------------------------------------------------------------------------
(* The calls of the GUI, and the invariant.                                *)

LEMMA ClearedOk ==
  ASSUME NEW o \in NodeObjects, NEW n, NEW pub, NEW D, NEW exact, NodeOk(n, o, pub, D, exact)
  PROVE  LET x == [o EXCEPT !.errors = [e \in RplErrors |-> 0], !.changed = TRUE] IN
           NodeOk(n, x, pub, D, exact) /\ Replaces(x, o)
<1> DEFINE zeros == [e \in RplErrors |-> 0]
           x == [o EXCEPT !.errors = zeros, !.changed = TRUE]
<1>1. zeros \in [RplErrors -> Nat] OBVIOUS
<1> HIDE DEF zeros
<1>2. x \in NodeObjects
  <2>1. [o EXCEPT !.errors = zeros] \in NodeObjects BY <1>1, NodeFields
  <2>2. QED BY <2>1, NodeFields
<1>3. x.changed /\ AddressOk(n, x) /\ (exact => DeltaOk(x, D)) /\ Replaces(x, o)
  BY SMT DEF NodeOk, AddressOk, DeltaOk, Replaces, NodeObjects
<1>4. NodeOk(n, x, pub, D, exact) /\ Replaces(x, o) BY <1>2, <1>3, Zenon DEF NodeOk, NodePublished
<1>5. QED BY <1>4 DEF zeros

LEMMA ClearErrorsOk ==
  ASSUME NEW s, Good(s, {})
  PROVE  LET t == [s EXCEPT !.node = [n \in Nodes |->
                     IF s.node[n] = None THEN None
                     ELSE [s.node[n] EXCEPT !.errors = [e \in RplErrors |-> 0], !.changed = TRUE]]]
         IN Good(t, {})
<1> DEFINE Cleared(n) == [s.node[n] EXCEPT !.errors = [e \in RplErrors |-> 0], !.changed = TRUE]
           F(n) == IF s.node[n] = None THEN None ELSE Cleared(n)
           t == [s EXCEPT !.node = [n \in Nodes |-> F(n)]]
<1>1. s \in Databases BY DEF Good
<1>2. ASSUME NEW m \in Nodes, s.node[m] # None
      PROVE  /\ NodeOk(m, F(m), s.pubNode[m], s.dodag[s.node[m].dodag], s.node[m].dodag # None)
             /\ Replaces(F(m), s.node[m]) /\ F(m) \in NodeObjects /\ F(m) # None
             /\ \A r \in s.node[m].routes : r.via \in Nodes /\ s.node[r.via] # None
  <2>1. /\ s.node[m] \in NodeObjects
        /\ NodeOk(m, s.node[m], s.pubNode[m], s.dodag[s.node[m].dodag], s.node[m].dodag # None)
        /\ s.node[m].routes \in SUBSET [target : Ips, via : Nodes]
        /\ \A r \in s.node[m].routes : s.node[r.via] # None
    BY <1>2, NodeIsOk
  <2>2. NodeOk(m, Cleared(m), s.pubNode[m], s.dodag[s.node[m].dodag], s.node[m].dodag # None)
        /\ Replaces(Cleared(m), s.node[m])
    BY <2>1, ClearedOk
  <2>3. F(m) = Cleared(m) BY <1>2
  <2> HIDE DEF Cleared, F
  <2>4. F(m) \in NodeObjects BY <2>2, <2>3 DEF NodeOk
  <2>5. QED BY <2>1, <2>2, <2>3, <2>4, NoneAssumption
<1>3. \A m \in Nodes : s.node[m] = None => F(m) = None OBVIOUS
<1> HIDE DEF F
<1>4. \A m \in Nodes : F(m) \in OrNone(NodeObjects) BY <1>2, <1>3 DEF OrNone
<1>5. t \in Databases /\ t.node = [m \in Nodes |-> F(m)] /\ t.pubNode = s.pubNode /\ OnlyNodes(s, t)
  <2> DEFINE f == [m \in Nodes |-> F(m)]
  <2>1. f \in [Nodes -> OrNone(NodeObjects)] BY <1>4
  <2> HIDE DEF f
  <2>2. [s EXCEPT !.node = f] \in Databases BY <1>1, <2>1, SMT DEF Databases
  <2>3. [s EXCEPT !.node = f].node = f /\ [s EXCEPT !.node = f].pubNode = s.pubNode /\ OnlyNodes(s, [s EXCEPT !.node = f])
    BY <1>1, SMT DEF Databases, OnlyNodes
  <2>4. QED BY <2>2, <2>3, Zenon DEF f
<1> HIDE DEF t
<1>6. \A m \in Nodes : t.node[m] = F(m) BY <1>5
<1>7. NodesStay(s, t) BY <1>2, <1>3, <1>6, Zenon DEF NodesStay, Replaces
<1>8. NodesOk(t, {})
  <2> SUFFICES ASSUME NEW m \in Nodes, t.node[m] # None
               PROVE  /\ NodeOk(m, t.node[m], t.pubNode[m], t.dodag[t.node[m].dodag], t.node[m].dodag # None)
                      /\ \A r \in t.node[m].routes : t.node[r.via] # None
    BY DEF NodesOk
  <2>1. s.node[m] # None BY <1>3, <1>6
  <2>2. /\ NodeOk(m, t.node[m], t.pubNode[m], s.dodag[s.node[m].dodag], s.node[m].dodag # None)
        /\ t.node[m].dodag = s.node[m].dodag /\ t.node[m].routes = s.node[m].routes
        /\ \A r \in s.node[m].routes : r.via \in Nodes /\ s.node[r.via] # None
    BY <1>2, <1>5, <1>6, <2>1 DEF Replaces
  <2>3. NodeOk(m, t.node[m], t.pubNode[m], t.dodag[t.node[m].dodag], t.node[m].dodag # None)
    BY <1>5, <2>2, Zenon DEF OnlyNodes
  <2>4. QED BY <1>7, <2>2, <2>3, Zenon DEF NodesStay
<1>9. Good(t, {}) BY <1>5, <1>7, <1>8, NodesStep
<1>10. QED BY <1>9, Zenon DEF t, F

LEMMA PurgeLinksOk ==
  ASSUME NEW s, Good(s, {})
  PROVE  Good([s EXCEPT !.link = [l \in LinkRefs |->
                 IF s.link[l] # None /\ s.link[l].deprecated THEN None ELSE s.link[l]]], {})
<1> DEFINE f == [l \in LinkRefs |-> IF s.link[l] # None /\ s.link[l].deprecated THEN None ELSE s.link[l]]
<1>1. s.link \in [LinkRefs -> OrNone(LinkObjects)] BY DEF Good, Databases
<1>2. f \in [LinkRefs -> OrNone(LinkObjects)] BY <1>1 DEF OrNone
<1>3. \A k \in LinkRefs : f[k] # None => f[k] = s.link[k] BY <1>1
<1> HIDE DEF f
<1>4. \A k \in LinkRefs : f[k] # None =>
           /\ s.node[k[1]] # None /\ s.node[k[2]] # None
           /\ ~f[k].changed => s.pubLink[k] = f[k]
  BY <1>3, Zenon DEF Good, LinksOk, OthersPublished
<1>5. OnePreferredParent => \A j, k \in LinkRefs :
           f[j] # None /\ f[k] # None /\ j[1] = k[1] /\ ~f[j].deprecated /\ ~f[k].deprecated => j = k
  BY <1>3, Zenon DEF Good, LinksOk
<1>6. Good([s EXCEPT !.link = f], {}) BY <1>2, <1>4, <1>5, LinksStep
<1>7. QED BY <1>6, Zenon DEF f

\* The empty working set.
LEMMA EmptyOk == Good(InitDb, {})
<1> DEFINE s == InitDb
<1>1. /\ s.node = [n \in Nodes |-> None] /\ s.dodag = [d \in DodagRefs |-> None]
      /\ s.instance = [i \in Instances |-> None] /\ s.link = [l \in LinkRefs |-> None]
  BY DEF InitDb
<1>2. s \in Databases BY SMT DEF InitDb, Databases, OrNone
<1> HIDE DEF s
<1>3. /\ \A n \in Nodes : s.node[n] = None
      /\ \A d \in DodagRefs : s.dodag[d] = None
      /\ \A i \in Instances : s.instance[i] = None
      /\ \A l \in LinkRefs : s.link[l] = None
  BY <1>1
<1>4. QED
  BY <1>2, <1>3, Zenon DEF Good, NodesOk, MembersOk, InstancesOk, LinksOk, OthersPublished, s

LEMMA InitInv == Init => Inv
BY EmptyOk DEF Init, Inv

LEMMA NextInv == Inv /\ [Next]_vars => Inv'
<1> SUFFICES ASSUME Inv, [Next]_vars PROVE Inv' OBVIOUS
<1>1. Good(db, {}) /\ packets \in Nat BY DEF Inv
<1>2. SUFFICES Good(db', {}) /\ packets' \in Nat
  BY DEF Inv, Good, NodesOk, MembersOk, InstancesOk, LinksOk, OthersPublished
<1>3. ASSUME NEW t, Good(t, {}), Handle(t) PROVE Good(db', {}) /\ packets' \in Nat
  BY <1>1, <1>3, CommitOk DEF Handle
<1>4. CASE ParseDio BY <1>1, <1>3, <1>4, DioOk DEF ParseDio
<1>5. CASE ParseDao BY <1>1, <1>3, <1>5, DaoOk DEF ParseDao
<1>6. CASE ParseDis BY <1>1, <1>3, <1>6, DisOk DEF ParseDis
<1>7. CASE ParseData BY <1>1, <1>3, <1>7, DataOk DEF ParseData
<1>8. CASE ClearErrors BY <1>1, <1>8, ClearErrorsOk, Zenon DEF ClearErrors
<1>9. CASE PurgeLinks BY <1>1, <1>9, PurgeLinksOk, Zenon DEF PurgeLinks
<1>10. CASE Clear BY <1>1, <1>10, EmptyOk DEF Clear
<1>11. CASE UNCHANGED vars BY <1>1, <1>11 DEF vars
<1>12. QED
  BY <1>4, <1>5, <1>6, <1>7, <1>8, <1>9, <1>10, <1>11 DEF Next

\* The inductive invariant holds in every state.
THEOREM Invariant == Spec => []Inv
<1>1. Init => Inv BY InitInv
<1>2. Inv /\ [Next]_vars => Inv' BY NextInv
<1>3. QED BY <1>1, <1>2, PTL DEF Spec

----------------------------------------------------------------------------
(* The properties of the runs.                                             *)

\* Copies that agree are equal but for what is not announced.
LEMMA NodeAgreesEqual ==
  ASSUME NEW x \in NodeObjects, NEW y \in NodeObjects, NodeAgrees(x, y)
  PROVE  NodeAnnounced(x) = NodeAnnounced(y)
<1> DEFINE Blank(o) == [o EXCEPT !.global = Unset, !.seenGlobal = FALSE, !.customGlobal = FALSE,
                                 !.configDelta = FALSE, !.prefixDelta = FALSE]
<1>1. ASSUME NEW o \in NodeObjects
      PROVE  /\ Blank(o) \in NodeObjects
             /\ Blank(o).global = Unset /\ Blank(o).seenGlobal = FALSE /\ Blank(o).customGlobal = FALSE
             /\ Blank(o).configDelta = FALSE /\ Blank(o).prefixDelta = FALSE
             /\ NodeAgrees(Blank(o), o)
  <2>1. FALSE \in BOOLEAN /\ Unset \in Ips BY DEF Ips, Unset, Multicast
  <2>2. [o EXCEPT !.global = Unset] \in NodeObjects BY <2>1, NodeFields
  <2>3. [o EXCEPT !.global = Unset, !.seenGlobal = FALSE] \in NodeObjects BY <2>1, <2>2, NodeFields
  <2>4. [o EXCEPT !.global = Unset, !.seenGlobal = FALSE, !.customGlobal = FALSE] \in NodeObjects
    BY <2>1, <2>3, NodeFields
  <2>5. [o EXCEPT !.global = Unset, !.seenGlobal = FALSE, !.customGlobal = FALSE, !.configDelta = FALSE] \in NodeObjects
    BY <2>1, <2>4, NodeFields
  <2>6. Blank(o) \in NodeObjects BY <2>1, <2>5, NodeFields
  <2>7. /\ Blank(o).global = Unset /\ Blank(o).seenGlobal = FALSE /\ Blank(o).customGlobal = FALSE
        /\ Blank(o).configDelta = FALSE /\ Blank(o).prefixDelta = FALSE
        /\ NodeAgrees(Blank(o), o)
    BY SMT DEF NodeObjects, NodeAgrees
  <2>8. QED BY <2>6, <2>7
<1>2. NodeAnnounced(x) = Blank(x) /\ NodeAnnounced(y) = Blank(y) BY DEF NodeAnnounced
<1> HIDE DEF Blank
<1>3. /\ Blank(x) \in NodeObjects /\ Blank(y) \in NodeObjects
      /\ Blank(x).global = Blank(y).global /\ Blank(x).seenGlobal = Blank(y).seenGlobal
      /\ Blank(x).customGlobal = Blank(y).customGlobal /\ Blank(x).configDelta = Blank(y).configDelta
      /\ Blank(x).prefixDelta = Blank(y).prefixDelta
  BY <1>1
<1>4. NodeAgrees(Blank(x), Blank(y))
  <2>1. NodeAgrees(Blank(x), x) /\ NodeAgrees(Blank(y), y) BY <1>1
  <2>2. QED BY <2>1, Zenon DEF NodeAgrees
<1>5. Blank(x) = Blank(y) BY <1>3, <1>4, SMT DEF NodeObjects, NodeAgrees
<1>6. QED BY <1>2, <1>5

LEMMA DodagAgreesEqual ==
  ASSUME NEW x \in DodagObjects, NEW y \in DodagObjects, DodagAgrees(x, y)
  PROVE  DodagAnnounced(x) = DodagAnnounced(y)
<1> DEFINE Blank(o) == [o EXCEPT !.hasConfig = FALSE, !.hasPrefix = FALSE]
<1>1. ASSUME NEW o \in DodagObjects
      PROVE  /\ Blank(o) \in DodagObjects
             /\ Blank(o).hasConfig = FALSE /\ Blank(o).hasPrefix = FALSE
             /\ DodagAgrees(Blank(o), o)
  <2>1. FALSE \in BOOLEAN OBVIOUS
  <2>2. [o EXCEPT !.hasConfig = FALSE] \in DodagObjects BY <2>1, DodagFields
  <2>3. Blank(o) \in DodagObjects BY <2>1, <2>2, DodagFields
  <2>4. Blank(o).hasConfig = FALSE /\ Blank(o).hasPrefix = FALSE /\ DodagAgrees(Blank(o), o)
    BY SMT DEF DodagObjects, DodagAgrees
  <2>5. QED BY <2>3, <2>4
<1>2. DodagAnnounced(x) = Blank(x) /\ DodagAnnounced(y) = Blank(y) BY DEF DodagAnnounced
<1> HIDE DEF Blank
<1>3. /\ Blank(x) \in DodagObjects /\ Blank(y) \in DodagObjects
      /\ Blank(x).hasConfig = Blank(y).hasConfig /\ Blank(x).hasPrefix = Blank(y).hasPrefix
  BY <1>1
<1>4. DodagAgrees(Blank(x), Blank(y))
  <2>1. DodagAgrees(Blank(x), x) /\ DodagAgrees(Blank(y), y) BY <1>1
  <2>2. QED BY <2>1, Zenon DEF DodagAgrees
<1>5. Blank(x) = Blank(y) BY <1>3, <1>4, SMT DEF DodagObjects, DodagAgrees
<1>6. QED BY <1>2, <1>5

\* The domains of the four tables, which Live ranges over.
LEMMA LiveIs ==
  ASSUME Inv
  PROVE  /\ Live(db.node) = {n \in Nodes : db.node[n] # None}
         /\ Live(db.dodag) = {d \in DodagRefs : db.dodag[d] # None}
         /\ Live(db.instance) = {i \in Instances : db.instance[i] # None}
         /\ Live(db.link) = {l \in LinkRefs : db.link[l] # None}
<1>1. /\ DOMAIN db.node = Nodes /\ DOMAIN db.dodag = DodagRefs
      /\ DOMAIN db.instance = Instances /\ DOMAIN db.link = LinkRefs
  BY DEF Inv, Good, Databases
<1>2. QED BY <1>1 DEF Live

\* The objects of the four tables stay of their types over captures of any length
\* (rpl_collector.c and the setters of data_info/).
THEOREM TypesOk == Spec => []TypeOK
<1>1. Inv => TypeOK BY DEF Inv, Good, TypeOK
<1>2. QED BY <1>1, Invariant, PTL

\* The assertions of dodag_set_nodes_changed and dodag_add_node: member tables and the
\* nodes' own references agree after every packet of every capture.
THEOREM MembershipAgrees == Spec => []MembersAgree
<1>1. Inv => MembersAgree
  <2> SUFFICES ASSUME Inv, NEW n \in Nodes, NEW d \in DodagRefs
               PROVE  (n \in Members(d)) <=> (db.node[n] # None /\ db.node[n].dodag = d)
    BY DEF MembersAgree
  <2>1. (db.dodag[d] # None /\ n \in db.dodag[d].nodes) <=> (db.node[n] # None /\ db.node[n].dodag = d)
    BY DEF Inv, Good, MembersOk
  <2>2. (n \in Members(d)) <=> (db.dodag[d] # None /\ n \in db.dodag[d].nodes) BY DEF Members
  <2>3. QED BY <2>1, <2>2
<1>2. QED BY <1>1, Invariant, PTL

\* rpl_instance_add_dodag: the instance a DODAG names lists it, and lists no DODAG that
\* is not there.
THEOREM InstancesListDodags == Spec => []InstancesAgree
<1>1. Inv => InstancesAgree
  <2> SUFFICES ASSUME Inv PROVE InstancesAgree OBVIOUS
  <2>1. InstancesOk(db) BY DEF Inv, Good
  <2>2. \A i \in Live(db.instance) : db.instance[i].dodags \subseteq DodagRefs
    BY LiveIs, InstanceTypes DEF Inv, Good
  <2>3. \A i \in Live(db.instance) : db.instance[i].dodags \subseteq Live(db.dodag)
    BY LiveIs, <2>1, <2>2 DEF InstancesOk
  <2>4. \A d \in Live(db.dodag) : db.dodag[d].instance # None =>
          db.instance[db.dodag[d].instance] # None /\ d \in db.instance[db.dodag[d].instance].dodags
    BY LiveIs, <2>1, Zenon DEF InstancesOk
  <2>5. QED BY <2>3, <2>4, Zenon DEF InstancesAgree
<1>2. QED BY <1>1, Invariant, PTL

\* node_update_from_dodag and its siblings keep the mismatch flags of every member true
\* to the options it and its DODAG advertise.
THEOREM FlagsAreExact == Spec => []DeltasExact
<1>1. Inv => DeltasExact
  <2> SUFFICES ASSUME Inv, NEW n \in Live(db.node), db.node[n].dodag # None
               PROVE  DeltaOk(db.node[n], db.dodag[db.node[n].dodag])
    BY DEF DeltasExact, DeltaOk
  <2>1. n \in Nodes /\ db.node[n] # None BY LiveIs
  <2>2. Good(db, {}) BY DEF Inv
  <2>3. QED BY <2>1, <2>2, NodeIsOk DEF NodeOk
<1>2. QED BY <1>1, Invariant, PTL

\* node_set_ip and the setters of prefixes: an address not yet seen is the one
\* autoconfigured from the advertised prefix.
THEOREM AddressesAreDerived == Spec => []AddressDerived
<1>1. Inv => AddressDerived
  <2> SUFFICES ASSUME Inv, NEW n \in Live(db.node)
               PROVE  AddressOk(n, db.node[n])
    BY DEF AddressDerived, AddressOk
  <2>1. n \in Nodes /\ db.node[n] # None BY LiveIs
  <2>2. Good(db, {}) BY DEF Inv
  <2>3. QED BY <2>1, <2>2, NodeIsOk DEF NodeOk
<1>2. QED BY <1>1, Invariant, PTL

\* links_deprecate_all_from: one preferred parent per child, and no link or route to a
\* node that is not known.
THEOREM LinksAreSound == Spec => []LinksAgree
<1>1. Inv => LinksAgree
  <2> SUFFICES ASSUME Inv PROVE LinksAgree OBVIOUS
  <2>1. LinksOk(db) /\ Good(db, {}) BY DEF Inv, Good
  <2>2. \A l \in Live(db.link) : {l[1], l[2]} \subseteq Live(db.node)
    <3>1. \A l \in LinkRefs : l[1] \in Nodes /\ l[2] \in Nodes BY DEF LinkRefs
    <3>2. QED BY LiveIs, <2>1, <3>1 DEF LinksOk
  <2>3. \A n \in Live(db.node) : \A r \in db.node[n].routes : r.via \in Live(db.node)
    <3> SUFFICES ASSUME NEW n \in Live(db.node), NEW r \in db.node[n].routes PROVE r.via \in Live(db.node)
      OBVIOUS
    <3>1. n \in Nodes /\ db.node[n] # None BY LiveIs
    <3>2. r \in [target : Ips, via : Nodes] /\ db.node[r.via] # None BY <2>1, <3>1, NodeIsOk
    <3>3. QED BY LiveIs, <3>2
  <2>4. OnePreferredParent => \A l, k \in Live(db.link) :
          l[1] = k[1] /\ ~db.link[l].deprecated /\ ~db.link[k].deprecated => l = k
    BY LiveIs, <2>1 DEF LinksOk
  <2>5. QED BY <2>2, <2>3, <2>4, Zenon DEF LinksAgree
<1>2. QED BY <1>1, Invariant, PTL

\* X_set_changed and the commit: whatever the packet, an object left unmarked is in the
\* newest WSN version as it is, but for what its setters do not announce.
THEOREM PublicationAgrees == Spec => []PublishedAgrees
<1>1. Inv => PublishedAgrees
  <2> SUFFICES ASSUME Inv PROVE PublishedAgrees OBVIOUS
  <2>1. Good(db, {}) /\ OthersPublished(db) /\ db \in Databases BY DEF Inv, Good
  <2>2. ASSUME NEW n \in Live(db.node), ~db.node[n].changed
        PROVE  db.pubNode[n] # None /\ NodeAnnounced(db.pubNode[n]) = NodeAnnounced(db.node[n])
    <3>1. n \in Nodes /\ db.node[n] # None BY LiveIs
    <3>2. db.node[n] \in NodeObjects /\ NodePublished(db.node[n], db.pubNode[n])
      BY <2>1, <3>1, NodeIsOk DEF NodeOk
    <3>3. db.pubNode[n] # None /\ NodeAgrees(db.pubNode[n], db.node[n]) BY <2>2, <3>2 DEF NodePublished
    <3>4. db.pubNode[n] \in NodeObjects BY <2>1, <3>1, <3>3 DEF Databases, OrNone
    <3>5. QED BY <3>2, <3>3, <3>4, NodeAgreesEqual
  <2>3. ASSUME NEW d \in Live(db.dodag), ~db.dodag[d].changed
        PROVE  db.pubDodag[d] # None /\ DodagAnnounced(db.pubDodag[d]) = DodagAnnounced(db.dodag[d])
    <3>1. d \in DodagRefs /\ db.dodag[d] # None BY LiveIs
    <3>2. db.dodag[d] \in DodagObjects BY <2>1, <3>1, DodagTypes
    <3>3. db.pubDodag[d] # None /\ DodagAgrees(db.pubDodag[d], db.dodag[d])
      BY <2>1, <2>3, <3>1 DEF OthersPublished, DodagPublished
    <3>4. db.pubDodag[d] \in DodagObjects BY <2>1, <3>1, <3>3 DEF Databases, OrNone
    <3>5. QED BY <3>2, <3>3, <3>4, DodagAgreesEqual
  <2>4. /\ \A i \in Live(db.instance) : ~db.instance[i].changed => db.pubInstance[i] = db.instance[i]
        /\ \A l \in Live(db.link) : ~db.link[l].changed => db.pubLink[l] = db.link[l]
    BY LiveIs, <2>1 DEF OthersPublished
  <2>5. QED BY <2>2, <2>3, <2>4, Zenon DEF PublishedAgrees
<1>2. QED BY <1>1, Invariant, PTL
=============================================================================
