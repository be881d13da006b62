---------------------------- MODULE MCCollector ----------------------------
(* Packet alphabets for TLC.  A behaviour draws its packets from one of two: mixed, *)
(* they would leave too few packets for the routes and links.                        *)
EXTENDS Collector

CONSTANTS n1, n2, n3, a, b, inst1, inst2, c, e, p, q

LocalOf(n) == <<"fe80", n>>

DioOf(n, ip, inst, d, v, rank, config, prefix) ==
  [src |-> n, srcIp |-> ip, instance |-> inst, dodagid |-> d, version |-> v,
   rank |-> rank, mop |-> 1, config |-> config, prefix |-> prefix]
DaoOf(n, ip, m, mip, d, target, lifetime) ==
  [src |-> n, srcIp |-> ip, dst |-> m, dstIp |-> mip, instance |-> inst1, dodagid |-> d,
   target |-> target, lifetime |-> lifetime]
DataOf(n, ip, m, mip, hops, hbh) ==
  [src |-> n, srcIp |-> ip, dst |-> m, dstIp |-> mip, hopLimit |-> hops, hbh |-> hbh]
Hbh(up, rank) == [up |-> up, rankError |-> FALSE, forwardError |-> FALSE, senderRank |-> rank]

\* DODAGs, their versions, options and instances.
Options == {<<None, None>>, <<c, p>>, <<e, p>>, <<c, q>>}
DodagDios ==
  {DioOf(n, LocalOf(n), inst1, a, v, rank, o[1], o[2]) :
     n \in {n1, n2}, v \in {1, 2}, rank \in {0, 512}, o \in Options}
  \cup {DioOf(n1, LocalOf(n1), inst2, a, 1, 0, c, p)}
DodagDiss == {[src |-> n2, srcIp |-> <<p, n2>>], [src |-> n2, srcIp |-> <<q, n1>>]}
DodagDatas == {DataOf(n2, Multicast, None, <<p, n1>>, 64, None)}

\* Parents, routes and errors of three nodes.
LinkDios == {DioOf(n1, LocalOf(n1), inst1, a, 1, 256, None, p), DioOf(n2, LocalOf(n2), inst1, b, 1, 512, None, p)}
LinkDaos ==
  {DaoOf(n2, <<p, n2>>, m, LocalOf(m), a, <<p, n2>>, lifetime) : m \in {n1, n3}, lifetime \in {0, 1}}
  \cup {DaoOf(n1, <<q, n1>>, n2, <<p, n2>>, b, <<p, n1>>, 1),
        DaoOf(n3, LocalOf(n3), n1, LocalOf(n1), None, None, 1),
        DaoOf(n3, LocalOf(n3), n1, LocalOf(n1), None, <<p, n3>>, None)}
LinkDatas ==
  {DataOf(n2, <<p, n2>>, n3, <<p, n1>>, 64, Hbh(TRUE, 700)),
   DataOf(n2, <<p, n3>>, n1, <<p, n1>>, 63, Hbh(TRUE, 100)),
   DataOf(n1, <<p, n1>>, n2, <<p, n2>>, 64, Hbh(FALSE, 600)),
   DataOf(n1, <<p, n1>>, n2, <<p, n2>>, 64, [Hbh(FALSE, 256) EXCEPT !.rankError = TRUE, !.forwardError = TRUE]),
   DataOf(n3, <<p, n3>>, n1, <<p, n1>>, 64, None)}
NoPackets == {}
AllDios == DodagDios \cup LinkDios
AllDatas == DodagDatas \cup LinkDatas

\* The behaviours of Spec whose packets are of one alphabet: at most MaxDodagPackets of the
\* first (the larger one), MaxPackets of the second.
CONSTANT MaxDodagPackets
VARIABLE traffic
Traffic(ofDodags, ofLinks) == IF traffic = "dodags" THEN ofDodags ELSE ofLinks

MCInit == Init /\ traffic \in {"dodags", "links"}
Parse ==
  /\ packets < Traffic(MaxDodagPackets, MaxPackets)
  /\ \/ \E m \in Traffic(DodagDios, LinkDios) : Handle(Dio(db, m))
     \/ \E m \in Traffic(NoPackets, LinkDaos) : Handle(Dao(db, m))
     \/ \E m \in Traffic(DodagDiss, NoPackets) : Handle(Dis(db, m))
     \/ \E m \in Traffic(DodagDatas, LinkDatas) : Handle(Data(db, m))
MCNext == (Parse \/ ClearErrors \/ PurgeLinks \/ Clear) /\ UNCHANGED traffic
MCSpec == MCInit /\ [][MCNext]_<<vars, traffic>>
=============================================================================
