----------------------------- MODULE Collector -----------------------------
(***************************************************************************)
(* The collector: what one captured RPL packet does to the nodes, DODAGs,  *)
(* RPL instances and links of the working set.  data_collector/            *)
(* rpl_collector.c and the setters it calls in data_info/{node,dodag,      *)
(* rpl_instance,link,route,rpl_def}.c.                                     *)
(*                                                                         *)
(* A handler of the C code is one straight run of setters on the thread    *)
(* that parses, so an action here is the composition of their operators:   *)
(* each takes the database and returns it changed.  The commit at the end  *)
(* of rpl_parser_end_packet belongs to the action; RplStore has its steps. *)
(***************************************************************************)
EXTENDS Integers, FiniteSets

CONSTANTS
  Nodes,            \* WPAN addresses; no two differ in their upper 32 bits only
  Dodagids,         \* DODAG identifiers
  Instances,        \* RPL instance identifiers
  Versions,         \* DODAG versions the capture shows
  Configs,          \* contents of the DODAG configuration option
  Prefixes,         \* IPv6 prefixes; an address is <<prefix, node>>
  Dios, Daos, Diss, Datas,  \* packets the capture may hold
  RootRanks,        \* 0 and analyser_config.root_rank
  OnePreferredParent,  \* analyser_config.one_preferred_parent
  AutoconfOnly,     \* analyser_config.address_autconf_only
  MaxPackets,       \* bound: packets of a capture
  None              \* an absent object, option or reference

Zero == "zero"                          \* the all-zero value of a stored structure
Local == "fe80"                         \* prefix of link-local addresses
Multicast == <<"ff02", Zero>>           \* any address that is neither local nor global
Unset == <<Zero, Zero>>                 \* the all-zero address
Addresses == ((Prefixes \cup {Local}) \X Nodes) \cup {Unset, Multicast}
DodagRefs == Dodagids \X Versions
LinkRefs == Nodes \X Nodes              \* <<child, parent>>
OrNone(S) == S \cup {None}

RplErrors == {"rank", "forward", "upward", "downward", "route_loop", "ip_mismatch",
              "version_decrease", "dodag_mismatch", "config_mismatch",
              "invalid_ip", "invalid_prefix"}

\* What the objects of the four kinds hold.
Ips == (Prefixes \cup {Local, Multicast[1], Zero}) \X (Nodes \cup {Zero})
NodeObjects ==
  [changed : BOOLEAN, dodag : OrNone(DodagRefs), hasRank : BOOLEAN, rank : Nat,
   hasConfig : BOOLEAN, config : Configs \cup {Zero}, configDelta : BOOLEAN,
   hasPrefix : BOOLEAN, prefix : Prefixes \cup {Zero}, prefixDelta : BOOLEAN,
   local : Ips, global : Ips, seenGlobal : BOOLEAN, customGlobal : BOOLEAN,
   routes : SUBSET [target : Ips, via : Nodes],
   errors : [RplErrors -> Nat]]
DodagObjects ==
  [changed : BOOLEAN, nodes : SUBSET Nodes, instance : OrNone(Instances), dio : OrNone(Instances \X Nat),
   hasConfig : BOOLEAN, config : Configs \cup {Zero}, hasPrefix : BOOLEAN, prefix : Prefixes \cup {Zero}]
InstanceObjects == [changed : BOOLEAN, dodags : SUBSET DodagRefs, mop : Nat]
LinkObjects == [changed : BOOLEAN, deprecated : BOOLEAN]

\* address.c: an address of a prefix and the interface identifier of a node.
LocalIp(n) == <<Local, n>>
GlobalIp(prefix, n) == <<prefix, n>>
IsLocal(ip) == ip[1] = Local
HasHostOf(ip, n) == ip[2] = n           \* addr_compare_ip_len on the last 64 bits

\* rpl_def.c: some field of the option differs.
ConfigDelta(a, b) == a # b
PrefixDelta(a, b) == a # b

ASSUME VersionsAssumption == Versions \subseteq 0..255
ASSUME ConfigAssumption == OnePreferredParent \in BOOLEAN /\ AutoconfOnly \in BOOLEAN
ASSUME PrefixAssumption == Local \notin Prefixes /\ Zero \notin Prefixes
ASSUME NoneAssumption ==
  None \notin DodagRefs \cup NodeObjects \cup DodagObjects \cup InstanceObjects \cup LinkObjects
ASSUME PacketAssumption ==
  /\ \A p \in Dios : /\ p.src \in Nodes /\ p.instance \in Instances /\ <<p.dodagid, p.version>> \in DodagRefs
                     /\ p.rank \in Nat /\ p.mop \in Nat
                     /\ p.config \in OrNone(Configs) /\ p.prefix \in OrNone(Prefixes)
  /\ \A p \in Daos : /\ p.src \in Nodes /\ p.dst \in Nodes /\ p.instance \in Instances
                     /\ p.target \in OrNone(Ips) /\ p.lifetime \in OrNone(Nat)
  /\ \A p \in Diss : p.src \in Nodes
  /\ \A p \in Datas : /\ p.src \in Nodes /\ p.dst \in OrNone(Nodes)
                      /\ p.dstIp \in Ips /\ (p.hbh # None => p.hbh.senderRank \in Nat)
  /\ \A p \in Dios \cup Daos \cup Diss \cup Datas : p.srcIp \in Addresses \ {Unset}
ASSUME BoundAssumption == MaxPackets \in Nat

VARIABLES
  db,        \* [node, dodag, instance, link]: the working set, key -> object or None;
             \* pubNode, pubDodag, pubInstance, pubLink: the newest WSN version
  packets    \* packets handled so far

vars == <<db, packets>>

InitDb == [node |-> [n \in Nodes |-> None],        pubNode |-> [n \in Nodes |-> None],
           dodag |-> [d \in DodagRefs |-> None],   pubDodag |-> [d \in DodagRefs |-> None],
           instance |-> [i \in Instances |-> None], pubInstance |-> [i \in Instances |-> None],
           link |-> [l \in LinkRefs |-> None],     pubLink |-> [l \in LinkRefs |-> None]]

Init == db = InitDb /\ packets = 0

Databases ==
  [node : [Nodes -> OrNone(NodeObjects)],             pubNode : [Nodes -> OrNone(NodeObjects)],
   dodag : [DodagRefs -> OrNone(DodagObjects)],       pubDodag : [DodagRefs -> OrNone(DodagObjects)],
   instance : [Instances -> OrNone(InstanceObjects)], pubInstance : [Instances -> OrNone(InstanceObjects)],
   link : [LinkRefs -> OrNone(LinkObjects)],          pubLink : [LinkRefs -> OrNone(LinkObjects)]]
TypeOK == db \in Databases /\ packets \in Nat

----------------------------------------------------------------------------
(* Objects as X_init leaves them.                                          *)

NewNode(n) == [changed |-> TRUE, dodag |-> None, hasRank |-> FALSE, rank |-> 0,
               hasConfig |-> FALSE, config |-> Zero, configDelta |-> FALSE,
               hasPrefix |-> FALSE, prefix |-> Zero, prefixDelta |-> FALSE,
               local |-> LocalIp(n), global |-> Unset, seenGlobal |-> FALSE,
               customGlobal |-> FALSE, routes |-> {},
               errors |-> [e \in RplErrors |-> 0]]

NewDodag == [changed |-> TRUE, nodes |-> {}, instance |-> None, dio |-> None,
             hasConfig |-> FALSE, config |-> Zero, hasPrefix |-> FALSE, prefix |-> Zero]

NewInstance == [changed |-> TRUE, dodags |-> {}, mop |-> 0]

NewLink == [changed |-> TRUE, deprecated |-> FALSE]

\* rpldata_get_X(HVM_CreateIfNonExistant).
GetNode(s, n) == IF s.node[n] = None THEN [s EXCEPT !.node[n] = NewNode(n)] ELSE s
GetDodag(s, d) == IF s.dodag[d] = None THEN [s EXCEPT !.dodag[d] = NewDodag] ELSE s
GetInstance(s, i) == IF s.instance[i] = None THEN [s EXCEPT !.instance[i] = NewInstance] ELSE s
GetLink(s, l) == IF s.link[l] = None THEN [s EXCEPT !.link[l] = NewLink] ELSE s

----------------------------------------------------------------------------
(* node.c                                                                  *)

NodeSetChanged(s, n) == [s EXCEPT !.node[n].changed = TRUE]

\* node_add_X_error.
Charged(node, e) == [node EXCEPT !.errors[e] = @ + 1]
AddError(s, n, e) == [s EXCEPT !.node[n] = [Charged(@, e) EXCEPT !.changed = TRUE]]

\* An error counted through node_update_old_field: the newest published copy is
\* patched instead of an announcement.
AddPatchedError(s, n, e) ==
  LET counted == [s EXCEPT !.node[n] = Charged(@, e)]
  IN IF s.pubNode[n] = None THEN counted
     ELSE [counted EXCEPT !.pubNode[n].errors[e] = counted.node[n].errors[e]]

\* node_set_dodag: what was known of the node belongs to its former DODAG.
Moved(node, d) ==
  [node EXCEPT !.dodag = d, !.hasRank = FALSE, !.hasConfig = FALSE, !.hasPrefix = FALSE,
               !.global = IF node.customGlobal THEN @ ELSE Unset,
               !.seenGlobal = node.customGlobal /\ @,
               !.changed = TRUE]
NodeSetDodag(s, n, d) == IF s.node[n].dodag = d THEN s ELSE [s EXCEPT !.node[n] = Moved(@, d)]

\* The two parts of node_set_ip: an address of the link, and one of the network.
CustomCharged(node, n, ip) ==
  IF ~HasHostOf(ip, n) /\ AutoconfOnly THEN Charged(node, "invalid_ip") ELSE node
LocalHeard(node, n, ip) ==
  IF ip = node.local THEN node
  ELSE CustomCharged([node EXCEPT !.local = ip, !.changed = TRUE], n, ip)
GlobalHeard(node, n, ip) ==
  IF ip = node.global THEN [node EXCEPT !.seenGlobal = TRUE]
  ELSE CustomCharged([node EXCEPT !.global = ip, !.seenGlobal = TRUE, !.customGlobal = ~HasHostOf(ip, n),
                                  !.changed = TRUE], n, ip)

\* Variant: the published copy is not patched.
SetIp_Unpatched(s, n, ip) ==
  IF ip = Multicast THEN [s EXCEPT !.node[n] = Charged(@, "invalid_ip")] ELSE s

\* Variant: a new global address is not remembered as seen.
SetIp_NotSeen(s, n, ip) ==
  IF ip[1] \in {Local, Multicast[1]} THEN s
  ELSE [s EXCEPT !.node[n] = [@ EXCEPT !.global = ip, !.customGlobal = ~HasHostOf(ip, n), !.changed = TRUE]]

\* node_set_ip.
SetIp(s, n, ip) ==
  LET heard == [s EXCEPT !.node[n] = IF IsLocal(ip) THEN LocalHeard(@, n, ip) ELSE GlobalHeard(@, n, ip)]
  IN CASE ip = Multicast -> AddPatchedError(s, n, "invalid_ip")
       [] ip # Multicast /\ IsLocal(ip) -> heard
       [] OTHER -> IF s.node[n].hasPrefix /\ s.node[n].prefix # ip[1]
                   THEN AddPatchedError(heard, n, "invalid_prefix") ELSE heard

\* node_update_from_dio and, before it, node_update_dio_interval.
NodeFromDio(s, n, rank) ==
  [s EXCEPT !.node[n] = [@ EXCEPT !.hasRank = TRUE, !.rank = rank, !.changed = TRUE]]

\* node_update_from_hop_by_hop.
NodeFromHopByHop(s, n, rank) ==
  IF s.node[n].hasRank /\ s.node[n].rank = rank THEN s ELSE NodeFromDio(s, n, rank)

\* node_update_from_dodag_config, by a node that sent a DIO.
ConfigAdvertised(node, config, dodag) ==
  LET stored == IF config = None THEN [node EXCEPT !.hasConfig = FALSE, !.changed = TRUE]
                ELSE [node EXCEPT !.hasConfig = TRUE, !.config = config, !.changed = TRUE]
      delta == ConfigDelta(stored.config, dodag.config)
  IN IF ~dodag.hasConfig THEN stored
     ELSE IF delta THEN Charged([stored EXCEPT !.configDelta = TRUE], "config_mismatch")
     ELSE [stored EXCEPT !.configDelta = FALSE]
NodeConfig(s, n, config, d) == [s EXCEPT !.node[n] = ConfigAdvertised(@, config, s.dodag[d])]

\* node_update_from_dodag_prefix_info, by a node that sent a DIO.
PrefixAdvertised(node, n, prefix, dodag) ==
  LET stored == IF prefix = None THEN [node EXCEPT !.hasPrefix = FALSE, !.changed = TRUE]
                ELSE [node EXCEPT !.hasPrefix = TRUE, !.prefix = prefix, !.changed = TRUE,
                                  !.global = IF node.seenGlobal THEN @ ELSE GlobalIp(prefix, n),
                                  !.customGlobal = node.seenGlobal /\ @]
      delta == PrefixDelta(stored.prefix, dodag.prefix)
  IN IF ~dodag.hasPrefix THEN stored
     ELSE IF delta THEN Charged([stored EXCEPT !.prefixDelta = TRUE], "config_mismatch")
     ELSE [stored EXCEPT !.prefixDelta = FALSE]
NodePrefix(s, n, prefix, d) == [s EXCEPT !.node[n] = PrefixAdvertised(@, n, prefix, s.dodag[d])]

\* node_update_from_dodag, for a member of a DODAG whose root sent a DIO: deltas and
\* a derived address change without node_set_changed.
FromDodag(node, n, dodag) ==
  LET configDelta == IF node.hasConfig THEN ~dodag.hasConfig \/ ConfigDelta(node.config, dodag.config)
                     ELSE node.configDelta
      prefixDelta == IF node.hasPrefix THEN ~dodag.hasPrefix \/ PrefixDelta(node.prefix, dodag.prefix)
                     ELSE node.prefixDelta
      derives == dodag.hasPrefix /\ ~node.hasPrefix /\ ~node.seenGlobal
      silent == [node EXCEPT !.configDelta = configDelta, !.prefixDelta = prefixDelta,
                             !.global = IF derives THEN GlobalIp(dodag.prefix, n) ELSE @,
                             !.customGlobal = ~derives /\ @]
  IN IF configDelta \/ prefixDelta
     THEN [Charged(silent, "config_mismatch") EXCEPT !.changed = TRUE]
     ELSE silent

\* node_add_route and route_add: one route per target.
AddRoute(s, n, target, via) ==
  LET others == {r \in s.node[n].routes : r.target # target}
  IN IF [target |-> target, via |-> via] \in s.node[n].routes THEN s
     ELSE [s EXCEPT !.node[n] = [@ EXCEPT !.routes = others \cup {[target |-> target, via |-> via]},
                                          !.changed = TRUE]]

\* node_del_route and route_remove.
DelRoute(s, n, target, via) ==
  IF [target |-> target, via |-> via] \notin s.node[n].routes THEN s
  ELSE [s EXCEPT !.node[n] = [@ EXCEPT !.routes = s.node[n].routes \ {[target |-> target, via |-> via]},
                                       !.changed = TRUE]]

\* The test for a routing loop: the new parent is in the child's routing table.
CheckLoop(s, child, parent) ==
  IF \E r \in s.node[child].routes : r.target = s.node[parent].global
  THEN AddError(s, child, "route_loop") ELSE s

----------------------------------------------------------------------------
(* dodag.c, rpl_instance.c and link.c                                      *)

SetMembers(s, d, members) == [s EXCEPT !.dodag[d] = [@ EXCEPT !.nodes = members, !.changed = TRUE]]

DodagDelNode(s, d, n) ==
  IF n \notin s.dodag[d].nodes THEN s
  ELSE SetMembers(NodeSetDodag(s, n, None), d, s.dodag[d].nodes \ {n})

\* Variant: a node that moves stays a member of its former DODAG.
DodagAddNode_KeepsOld(s, d, n) ==
  IF n \in s.dodag[d].nodes THEN s
  ELSE SetMembers(NodeSetDodag(s, n, d), d, s.dodag[d].nodes \cup {n})

DodagAddNode(s, d, n) ==
  LET previous == s.node[n].dodag
      left == IF previous \in {None, d} \/ s.dodag[previous] = None THEN s
              ELSE DodagDelNode(s, previous, n)
  IN IF n \in left.dodag[d].nodes THEN left
     ELSE SetMembers(NodeSetDodag(left, n, d), d, left.dodag[d].nodes \cup {n})

\* dodag_update_from_dio, _from_dodag_config and _from_dodag_prefix_info: an option
\* that comes back unchanged after an absence is not announced.
Advertised(dodag, p) ==
  LET dio == <<p.instance, p.mop>>
  IN [dodag EXCEPT
        !.dio = dio,
        !.hasConfig = p.config # None, !.config = IF p.config = None THEN @ ELSE p.config,
        !.hasPrefix = p.prefix # None, !.prefix = IF p.prefix = None THEN @ ELSE p.prefix,
        !.changed = \/ @
                    \/ dodag.dio # dio
                    \/ IF p.config = None THEN dodag.hasConfig ELSE ConfigDelta(dodag.config, p.config)
                    \/ IF p.prefix = None THEN dodag.hasPrefix ELSE PrefixDelta(dodag.prefix, p.prefix)]
DodagFromRoot(s, d, p) == [s EXCEPT !.dodag[d] = Advertised(@, p)]

\* Variant: the members are left as they are.
SetNodesChanged_Skipped(s, d) == s

\* dodag_set_nodes_changed.
SetNodesChanged(s, d) ==
  [s EXCEPT !.node = [n \in Nodes |-> IF n \in s.dodag[d].nodes
                                      THEN FromDodag(s.node[n], n, s.dodag[d]) ELSE s.node[n]]]

\* Variant: the DODAG names the instance, which does not list it.
InstanceAddDodag_NotListed(s, i, d) == [s EXCEPT !.dodag[d] = [@ EXCEPT !.instance = i, !.changed = TRUE]]

\* rpl_instance_add_dodag, with dodag_set_rpl_instance, and rpl_instance_set_mop.
InstanceAddDodag(s, i, d) ==
  IF d \in s.instance[i].dodags THEN s
  ELSE [s EXCEPT !.instance[i] = [@ EXCEPT !.dodags = s.instance[i].dodags \cup {d}, !.changed = TRUE],
                 !.dodag[d] = [@ EXCEPT !.instance = i,
                                        !.changed = s.dodag[d].changed \/ s.dodag[d].instance # i]]

SetMop(s, i, mop) ==
  IF s.instance[i].mop = mop THEN s
  ELSE [s EXCEPT !.instance[i] = [@ EXCEPT !.mop = mop, !.changed = TRUE]]

\* Variant: the other links of the child are left as they are.
TouchLink_KeepsOthers(s, l) ==
  [s EXCEPT !.link[l] = [deprecated |-> FALSE, changed |-> @.changed \/ @.deprecated]]

\* links_deprecate_all_from for a one_preferred_parent analysis, then link_update.
TouchLink(s, l) ==
  [s EXCEPT !.link = [k \in LinkRefs |->
     CASE s.link[k] = None -> None
       [] s.link[k] # None /\ k = l ->
            [deprecated |-> FALSE, changed |-> s.link[k].changed \/ s.link[k].deprecated]
       [] s.link[k] # None /\ k # l ->
            IF OnePreferredParent /\ k[1] = l[1]
            THEN [deprecated |-> TRUE, changed |-> TRUE] ELSE s.link[k]]]

----------------------------------------------------------------------------
(* The commit: a changed object is duplicated into the new WSN version.    *)

\* X_reset_changed, X_dup.
Published(working, published) ==
  [k \in DOMAIN working |->
     IF working[k] = None THEN None
     ELSE IF working[k].changed THEN [working[k] EXCEPT !.changed = FALSE]
     ELSE published[k]]

Reset(working) ==
  [k \in DOMAIN working |-> IF working[k] = None THEN None ELSE [working[k] EXCEPT !.changed = FALSE]]

Commit(s) ==
  [node |-> Reset(s.node),         pubNode |-> Published(s.node, s.pubNode),
   dodag |-> Reset(s.dodag),       pubDodag |-> Published(s.dodag, s.pubDodag),
   instance |-> Reset(s.instance), pubInstance |-> Published(s.instance, s.pubInstance),
   link |-> Reset(s.link),         pubLink |-> Published(s.link, s.pubLink)]

----------------------------------------------------------------------------
(* rpl_collector.c: the four handlers.                                     *)

Dio(s, p) ==
  LET n == p.src
      d == <<p.dodagid, p.version>>
      root == p.rank \in RootRanks
      found == GetNode(GetDodag(GetInstance(s, p.instance), d), n)
      joined == DodagAddNode(found, d, n)
      rooted == IF root
                THEN DodagFromRoot(SetMop(InstanceAddDodag(joined, p.instance, d), p.instance, p.mop), d, p)
                ELSE joined
      heard == NodeFromDio(SetIp(NodeSetChanged(rooted, n), n, p.srcIp), n, p.rank)
      advertised == NodePrefix(NodeConfig(heard, n, p.config, d), n, p.prefix, d)
  IN IF root THEN SetNodesChanged(advertised, d) ELSE advertised

Dao(s, p) ==
  LET child == p.src
      parent == p.dst
      l == <<child, parent>>
      found == GetInstance(GetNode(SetIp(GetNode(s, child), child, p.srcIp), parent), p.instance)
      located == IF found.node[parent].local # p.dstIp THEN AddError(found, child, "ip_mismatch") ELSE found
      parentDodag == located.node[parent].dodag
      placed == IF /\ p.dodagid # None /\ located.node[child].dodag # None
                   /\ parentDodag # None /\ parentDodag[1] # p.dodagid
                THEN AddError(located, child, "dodag_mismatch") ELSE located
      global == placed.node[child].global
      linked == CASE p.lifetime = None -> placed
                  [] p.lifetime = 0 ->
                       IF p.target # None /\ p.target = global
                       THEN [placed EXCEPT !.link[l] = None] ELSE placed
                  [] OTHER -> CheckLoop(TouchLink(GetLink(placed, l), l), child, parent)
      routed == IF p.lifetime = 0 THEN DelRoute(linked, parent, p.target, child)
                ELSE AddRoute(linked, parent, p.target, child)
  IN IF p.target = None \/ p.lifetime = None THEN linked
     ELSE IF p.target = global THEN NodeSetChanged(routed, child)
     ELSE routed

Dis(s, p) == NodeSetChanged(SetIp(GetNode(s, p.src), p.src, p.srcIp), p.src)

Data(s, p) ==
  LET src == p.src
      dst == p.dst
      heard == IF p.hopLimit = 64 THEN SetIp(GetNode(s, src), src, p.srcIp) ELSE GetNode(s, src)
      ranked == IF p.hbh = None THEN heard ELSE NodeFromHopByHop(heard, src, p.hbh.senderRank)
      found == GetNode(ranked, dst)
      flagged == IF p.hbh.rankError THEN AddError(found, src, "rank") ELSE found
      failed == IF p.hbh.forwardError THEN AddError(flagged, src, "forward") ELSE flagged
      l == <<src, dst>>
      up == CheckLoop(AddRoute(TouchLink(GetLink(failed, l), l), dst, p.srcIp, src), src, dst)
      down == AddRoute(failed, src, p.dstIp, dst)
      rankOf(t) == t.node[dst].rank
  IN IF dst = None THEN ranked
     ELSE IF p.hbh = None THEN found
     ELSE IF p.hbh.up
          THEN IF up.node[dst].hasRank /\ p.hbh.senderRank < rankOf(up)
               THEN AddError(up, src, "upward") ELSE up
          ELSE IF down.node[dst].hasRank /\ p.hbh.senderRank > rankOf(down)
               THEN AddError(down, src, "downward") ELSE down

Handle(next) == packets < MaxPackets /\ packets' = packets + 1 /\ db' = Commit(next)

ParseDio == \E p \in Dios : Handle(Dio(db, p))
ParseDao == \E p \in Daos : Handle(Dao(db, p))
ParseDis == \E p \in Diss : Handle(Dis(db, p))
ParseData == \E p \in Datas : Handle(Data(db, p))

----------------------------------------------------------------------------
(* Calls of the GUI between two packets.                                   *)

Live(working) == {k \in DOMAIN working : working[k] # None}
Members(d) == IF db.dodag[d] = None THEN {} ELSE db.dodag[d].nodes

\* nodes_clear_all_errors.
ClearErrors ==
  /\ Live(db.node) # {}
  /\ db' = [db EXCEPT !.node = [n \in Nodes |->
              IF db.node[n] = None THEN None
              ELSE [db.node[n] EXCEPT !.errors = [e \in RplErrors |-> 0], !.changed = TRUE]]]
  /\ UNCHANGED packets

\* links_clear_all_deprecated.
PurgeLinks ==
  /\ \E l \in Live(db.link) : db.link[l].deprecated
  /\ db' = [db EXCEPT !.link = [l \in LinkRefs |->
              IF db.link[l] # None /\ db.link[l].deprecated THEN None ELSE db.link[l]]]
  /\ UNCHANGED packets

\* rpldata_clear.
Clear == db # InitDb /\ db' = InitDb /\ UNCHANGED packets

Next == ParseDio \/ ParseDao \/ ParseDis \/ ParseData \/ ClearErrors \/ PurgeLinks \/ Clear

Spec == Init /\ [][Next]_vars

----------------------------------------------------------------------------
(* Properties.                                                             *)

\* A node is in the member table of a DODAG exactly when its own reference names that
\* DODAG: the two are kept by different objects, and the assertions of
\* dodag_set_nodes_changed and dodag_add_node stop the program when they differ.
MembersAgree ==
  \A n \in Nodes : \A d \in DodagRefs :
    (n \in Members(d)) <=> (db.node[n] # None /\ db.node[n].dodag = d)

\* The instance that a DODAG names lists the DODAG, and every DODAG listed exists.
\* (An instance may list a DODAG that has moved to another instance.)
InstancesAgree ==
  /\ \A d \in Live(db.dodag) : db.dodag[d].instance # None =>
       LET i == db.dodag[d].instance IN db.instance[i] # None /\ d \in db.instance[i].dodags
  /\ \A i \in Live(db.instance) : db.instance[i].dodags \subseteq Live(db.dodag)

\* The mismatch flags shown to the user say, for a node and a DODAG that both
\* advertise the option, whether the two differ: they are recomputed by the node's
\* DIO, by the root's, and by a change of DODAG or of its options.
DeltasExact ==
  \A n \in Live(db.node) : db.node[n].dodag # None =>
    LET node == db.node[n]
        dodag == db.dodag[node.dodag]
    IN /\ node.hasConfig /\ dodag.hasConfig => (node.configDelta <=> node.config # dodag.config)
       /\ node.hasPrefix /\ dodag.hasPrefix => (node.prefixDelta <=> node.prefix # dodag.prefix)

\* While no global address of a node has been seen, the address held for it is the one
\* autoconfigured from the prefix the node advertises; an address that is not
\* autoconfigured has been seen.
AddressDerived ==
  \A n \in Live(db.node) :
    LET node == db.node[n] IN
      /\ node.hasPrefix /\ ~node.seenGlobal => node.global = <<node.prefix, n>>
      /\ node.customGlobal <=> node.seenGlobal /\ node.global # Unset /\ node.global[2] # n

\* With one_preferred_parent a child has at most one link that is not deprecated, over
\* DAOs, data packets, No-Path DAOs and the purge of the GUI; the ends of links and the
\* next hops of routes, which are addresses, stay known as nodes.
LinksAgree ==
  /\ OnePreferredParent =>
       \A l, k \in Live(db.link) :
         l[1] = k[1] /\ ~db.link[l].deprecated /\ ~db.link[k].deprecated => l = k
  /\ \A l \in Live(db.link) : {l[1], l[2]} \subseteq Live(db.node)
  /\ \A n \in Live(db.node) : \A r \in db.node[n].routes : r.via \in Live(db.node)

\* What the setters announce of an object: the derived address and the mismatch flags of
\* a node, and whether the options of a DODAG are there, change without X_set_changed.
NodeAnnounced(o) == [o EXCEPT !.global = Unset, !.seenGlobal = FALSE, !.customGlobal = FALSE,
                              !.configDelta = FALSE, !.prefixDelta = FALSE]
DodagAnnounced(o) == [o EXCEPT !.hasConfig = FALSE, !.hasPrefix = FALSE]

\* An object that is not marked changed is in the newest WSN version, and its copy there
\* agrees with it but for what is not announced; its error counters agree because
\* node_update_old_field patches the copy.
PublishedAgrees ==
  /\ \A n \in Live(db.node) : ~db.node[n].changed =>
       db.pubNode[n] # None /\ NodeAnnounced(db.pubNode[n]) = NodeAnnounced(db.node[n])
  /\ \A d \in Live(db.dodag) : ~db.dodag[d].changed =>
       db.pubDodag[d] # None /\ DodagAnnounced(db.pubDodag[d]) = DodagAnnounced(db.dodag[d])
  /\ \A i \in Live(db.instance) : ~db.instance[i].changed => db.pubInstance[i] = db.instance[i]
  /\ \A l \in Live(db.link) : ~db.link[l].changed => db.pubLink[l] = db.link[l]

\* rpl_def.h: dodag_config_mismatch_errors is incremented when the DODAG configuration
\* that the node advertises is not the same as the root's.  A node that advertises
\* neither option has no configuration that could differ.
MismatchMeansAdvertised ==
  [][ \A n \in Live(db.node) :
        db'.node[n] # None /\ db'.node[n].errors["config_mismatch"] > db.node[n].errors["config_mismatch"]
          => db'.node[n].hasConfig \/ db'.node[n].hasPrefix ]_vars
=============================================================================
