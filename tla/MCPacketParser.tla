--------------------------- MODULE MCPacketParser ---------------------------
(* The packets tshark prints: frame and addresses, an IPv6 header with or  *)
(* without a hop-by-hop option, and one of the messages, in tshark's order *)
(* of fields.                                                              *)
EXTENDS PacketParser

F(n, v) == [name |-> n, val |-> v]
Must(n, vs) == {F(n, v) : v \in vs}
May(n, vs) == Must(n, vs) \cup {Absent}

Link == <<Must("frame.number", {2}), May("wpan.src64", {1}), May("wpan.src16", {1})>>
Plain(nxt) == Link \o <<Must("ipv6.nxt", {nxt}), Must("ipv6.src", {1})>>
HopByHop(nxt) ==
  Link \o <<Must("ipv6.nxt", {0}), Must("ipv6.src", {1}), Must("Next header", {nxt}),
            Must("hop.flag.o", {0, 1}), Must("hop.flag.r", {1}), May("hop.flag.f", {1}),
            Must("hop.sender_rank", {9})>>
Headers(nxt) == {Plain(nxt), HopByHop(nxt)}

Message(icmp, code) ==
  <<Must("icmpv6.type", {icmp}), Must("icmpv6.code", {code}), May("icmpv6.checksum_bad", {0, 1})>>

Dis == <<May("solicited.instance", {5}), May("solicited.flag.v", {0, 1}),
         May("solicited.flag.d", {0, 1}), May("solicited.dodagid", {2})>>
Dio == <<Must("dio.instance", {3}), Must("dio.version", {2}), Must("dio.rank", {6}),
         Must("dio.flag.g", {0, 1}), Must("dio.flag.mop", {1}), May("metric", {7}),
         May("route", {1}), May("config", {1}), May("prefix", {1})>>
Dao == <<Must("dao.instance", {3}), Must("dao.flag.k", {1}), Must("dao.flag.d", {0, 1}),
         May("dao.dodagid", {2}), May("target", {1}), May("transit", {1}), May("parent", {1}),
         May("target", {2})>>

MCShapes ==
  {h \o Message(155, 0) \o Dis : h \in Headers(58)}
    \cup {h \o Message(155, 1) \o Dio : h \in Headers(58)}
    \cup {h \o Message(155, 2) \o Dao : h \in Headers(58)}
    \cup {h \o Message(155, 3) : h \in Headers(58)}
    \cup {h \o Message(t, 0) : h \in Headers(58), t \in {1, 128, 135, 157}}
    \cup Headers(17) \cup Headers(6)

\* An ICMPv6 error quotes the packet it is about
MCQuoted == {F("icmpv6.type", 155), F("icmpv6.code", 1), F("config", 1), F("hop.flag.r", 1),
             F("icmpv6.checksum_bad", 1)}
=============================================================================
