---------------------------- MODULE PacketParser ----------------------------
(***************************************************************************)
(* packet_parsers/rpl_parser.c behind the XML callbacks of                 *)
(* sniffer_packet_parser.c: the fields tshark prints for a packet are      *)
(* folded, one callback at a time, into current_packet, which end_packet   *)
(* hands to the collector.                                                 *)
(*                                                                         *)
(* The four kinds of content share a union.  Which member a field is       *)
(* written to follows the type known so far, so a hop-by-hop option, which *)
(* comes first, is written as data even in a packet that turns out to be a *)
(* DIS, a DIO or a DAO.  cell holds the bytes where the members overlap;   *)
(* the options of a DIO and a DAO lie above them and are kept by name.     *)
(***************************************************************************)
EXTENDS Integers, Sequences

CONSTANTS
  Shapes,                \* packets tshark prints: per position, the fields it may print there, or Absent
  Quoted,                \* fields of a packet quoted inside another
  Absent,                \* nothing is printed at that position
  Byte,                  \* values of a byte (256)
  MaxDepth,              \* bound: nested protocols
  sender_rank_inverted   \* option of the analyser

ASSUME BytesAssumption == Byte \in Nat \ {0, 1} /\ sender_rank_inverted \in BOOLEAN

Fields == [name : STRING, val : Nat]
ASSUME FieldsAssumption ==
  Absent \notin Fields /\ Shapes \subseteq Seq(SUBSET (Fields \cup {Absent})) /\ MaxDepth \in Nat

-----------------------------------------------------------------------------
(* tshark prints a packet from the outside in: what the IPv6 headers say,  *)
(* the type, the code, the message.  The parser relies on it.              *)

HeaderFields == {"ipv6.src", "ipv6.dst", "ipv6.nxt", "Next header", "hop.flag.o", "hop.flag.r",
                 "hop.flag.f", "hop.instance_id", "hop.sender_rank"}
Options == {"config", "metric", "route", "prefix", "target", "transit", "parent"}
MessageFields ==
  {"solicited.flag.i", "solicited.instance", "solicited.flag.v", "solicited.version",
   "solicited.flag.d", "solicited.dodagid", "dio.instance", "dio.version", "dio.rank",
   "dio.flag.g", "dio.flag.preference", "dio.flag.mop", "dao.instance", "dao.flag.k",
   "dao.flag.d", "dao.dodagid"} \cup Options

\* 0: anywhere in the packet
Layer(n) ==
  CASE n \in HeaderFields -> 1
    [] n = "icmpv6.type" -> 2
    [] n = "icmpv6.code" -> 3
    [] n \in MessageFields -> 4
    [] OTHER -> 0

\* A field m may be printed before a field n.  Only options are repeated.
MayPrecede(m, n) ==
  /\ Layer(n) = 0 \/ Layer(m) <= Layer(n)
  /\ <<m, n>> # <<"solicited.dodagid", "solicited.flag.d">>
  /\ m = n => n \in Options

InOrder(s) ==
  \A i, j \in DOMAIN s : i < j =>
    \A f \in s[i], g \in s[j] : f # Absent /\ g # Absent => MayPrecede(f.name, g.name)

ASSUME ShapesAssumption ==
  \A s \in Shapes :
    InOrder(s) /\ \E i \in DOMAIN s : \A f \in s[i] : f # Absent /\ f.name = "frame.number"

VARIABLES
  rest,            \* what tshark has still to print of the packet
  depth,           \* protocol elements open in the XML
  reading,         \* a packet element is open
  said,            \* the packet's own fields, by name (auxiliary)
  embedded_proto,
  type,            \* current_packet.pkt_info.type
  is_bad,
  packet_id,
  src,             \* kind of current_packet.pkt_info.src_wpan_address
  cell,            \* the first bytes of the union
  has,             \* options of a DIO or a DAO
  call             \* what end_packet gave the collector

packet == <<type, is_bad, packet_id, src, cell, has>>
vars == <<rest, depth, reading, said, embedded_proto, packet, call>>

Types == {"PT_None", "PT_IPv6_Unknown", "PT_ICMPv6_Unknown", "PT_TCP", "PT_UDP",
          "PT_PING", "PT_NDP", "PT_6ND", "PT_RPL_Unknown", "PT_DIS", "PT_DIO", "PT_DAO"}
Cells == 0..8

Low(v) == v % Byte
High(v) == (v \div Byte) % Byte
Bool(v) == IF v = 0 THEN 0 ELSE 1
Nothing == [c \in {} |-> 0]

IsSaid(s, n) == n \in DOMAIN s

-----------------------------------------------------------------------------
(* The type: a field can refine what the fields before it established. *)

Upper(nxt) ==
  CASE nxt = 58 -> "PT_ICMPv6_Unknown"
    [] nxt = 6 -> "PT_TCP"
    [] nxt = 17 -> "PT_UDP"
    [] OTHER -> "PT_IPv6_Unknown"

Icmp(t) ==
  CASE t \in {128, 129} -> "PT_PING"
    [] t \in 133..137 -> "PT_NDP"
    [] t \in {157, 158} -> "PT_6ND"
    [] t = 155 -> "PT_RPL_Unknown"
    [] OTHER -> "PT_ICMPv6_Unknown"

\* Secure messages and DAO-ACKs stay unknown
Rpl(code) ==
  CASE code = 0 -> "PT_DIS"
    [] code = 1 -> "PT_DIO"
    [] code = 2 -> "PT_DAO"
    [] OTHER -> "PT_RPL_Unknown"

\* Mutant: the code of any ICMPv6 message is read as RPL's
TypeAfter_AnyCode(t, n, v) ==
  CASE n \in {"ipv6.src", "ipv6.dst"} /\ t = "PT_None" -> "PT_IPv6_Unknown"
    [] n = "ipv6.nxt" -> Upper(v)
    [] n = "Next header" /\ t = "PT_IPv6_Unknown" -> Upper(v)
    [] n = "icmpv6.type" -> Icmp(v)
    [] n = "icmpv6.code" -> Rpl(v)
    [] OTHER -> t

TypeAfter(t, n, v) ==
  CASE n \in {"ipv6.src", "ipv6.dst"} /\ t = "PT_None" -> "PT_IPv6_Unknown"
    [] n = "ipv6.nxt" -> Upper(v)
    [] n = "Next header" /\ t = "PT_IPv6_Unknown" -> Upper(v)
    [] n = "icmpv6.type" -> Icmp(v)
    [] n = "icmpv6.code" /\ t = "PT_RPL_Unknown" -> Rpl(v)
    [] OTHER -> t

-----------------------------------------------------------------------------
(* The bytes of the union a field writes, per member.  An int64 stored in  *)
(* a byte is cut, one stored in a bool becomes 0 or 1.                     *)

Byte1(c, b) == [x \in {c} |-> b]

\* Byte 0 says that the information is there
Info(c, b) == [x \in {0, c} |-> IF x = 0 THEN 1 ELSE b]

\* The address is written over dodag_predicate, not into dodagid
DisWrites(n, v) ==
  CASE n = "solicited.flag.i" -> Info(4, Bool(v))
    [] n = "solicited.instance" -> Info(5, Low(v))
    [] n = "solicited.flag.v" -> Info(6, Bool(v))
    [] n = "solicited.version" -> Info(7, Low(v))
    [] n = "solicited.flag.d" -> Info(8, Bool(v))
    [] n = "solicited.dodagid" -> Info(8, Low(v))
    [] OTHER -> Nothing

DioWrites(n, v) ==
  CASE n = "dio.instance" -> Byte1(0, Low(v))
    [] n = "dio.version" -> Byte1(1, Low(v))
    [] n = "dio.rank" -> [x \in {2, 3} |-> IF x = 2 THEN Low(v) ELSE High(v)]
    [] n = "dio.flag.g" -> Byte1(4, Bool(v))
    [] n = "dio.flag.preference" -> Byte1(5, Low(v))
    [] n = "dio.flag.mop" -> Byte1(8, Low(v))
    [] OTHER -> Nothing

DaoWrites(n, v) ==
  CASE n = "dao.instance" -> Byte1(0, Low(v))
    [] n = "dao.flag.k" -> Byte1(1, Bool(v))
    [] n = "dao.flag.d" -> Byte1(2, Bool(v))
    [] n = "dao.dodagid" -> [c \in 4..8 |-> Low(v)]
    [] OTHER -> Nothing

DataWrites(n, v) ==
  CASE n = "hop.flag.o" -> Info(2, 1 - Bool(v))
    [] n = "hop.flag.r" -> Info(3, Bool(v))
    [] n = "hop.flag.f" -> Info(4, Bool(v))
    [] n = "hop.instance_id" -> Info(5, Low(v))
    [] n = "hop.sender_rank" ->
         [x \in {0, 6, 7} |-> IF x = 0 THEN 1
                              ELSE IF (x = 6) = sender_rank_inverted THEN High(v) ELSE Low(v)]
    [] OTHER -> Nothing

Writes(t, n, v) ==
  CASE t = "PT_DIS" -> DisWrites(n, v)
    [] t = "PT_DIO" -> DioWrites(n, v)
    [] t = "PT_DAO" -> DaoWrites(n, v)
    [] OTHER -> DataWrites(n, v)

\* The options a field of a DIO or a DAO belongs to.  The fields of an option
\* have its name: one of them is enough for the option to be there.
OptionsOf(t, n) ==
  CASE t = "PT_DIO" -> {n} \cap {"config", "metric", "route", "prefix"}
    [] t = "PT_DAO" -> IF n = "parent" THEN {"transit", "parent"} ELSE {n} \cap {"target", "transit"}
    [] OTHER -> {}

-----------------------------------------------------------------------------
NoCall == [handler |-> "none"]

Init ==
  /\ rest = <<>> /\ depth = 0 /\ reading = FALSE /\ said = Nothing
  /\ embedded_proto = 0
  /\ type = "PT_None" /\ is_bad = FALSE /\ packet_id = 0 /\ src = "none"
  /\ cell = [c \in Cells |-> 0] /\ has = {}
  /\ call = NoCall

\* Mutant: only the header of current_packet is cleared
Begin_KeepsContent ==
  /\ type' = "PT_None" /\ is_bad' = FALSE /\ packet_id' = 0 /\ src' = "none"
  /\ UNCHANGED <<cell, has>>

\* rpl_parser_begin_packet
Begin ==
  /\ type' = "PT_None" /\ is_bad' = FALSE /\ packet_id' = 0 /\ src' = "none"
  /\ cell' = [c \in Cells |-> 0] /\ has' = {}

\* <packet>
StartPacket ==
  /\ ~reading
  /\ reading' = TRUE /\ depth' = 0 /\ said' = Nothing
  /\ rest' \in Shapes
  /\ embedded_proto' = 0
  /\ call' = NoCall
  /\ Begin

\* <proto>
StartProto ==
  /\ reading /\ depth < MaxDepth
  /\ depth' = depth + 1
  /\ embedded_proto' = embedded_proto + 1
  /\ UNCHANGED <<rest, reading, said, packet, call>>

\* </proto>
EndProto ==
  /\ reading /\ depth > 0
  /\ depth' = depth - 1
  /\ embedded_proto' = embedded_proto - 1
  /\ UNCHANGED <<rest, reading, said, packet, call>>

\* rpl_parser_parse_field: the type first, then the content by the new type
ParseField(n, v) ==
  IF is_bad THEN UNCHANGED packet
  ELSE LET t == TypeAfter(type, n, v) IN
       /\ type' = t
       /\ is_bad' = (n = "icmpv6.checksum_bad" /\ v = 1)
       /\ packet_id' = IF n = "frame.number" THEN v - 1 ELSE packet_id
       /\ src' = CASE n = "wpan.src64" -> "extended"
                   [] n = "wpan.src16" /\ src = "none" -> "short"
                   [] OTHER -> src
       /\ LET w == Writes(t, n, v) IN
          cell' = [c \in Cells |-> IF c \in DOMAIN w THEN w[c] ELSE cell[c]]
       /\ has' = has \cup OptionsOf(t, n)

\* Mutant: fields of quoted packets are parsed too
Field_AnyDepth(n, v) == ParseField(n, v)

\* <field>
Field(n, v) == IF embedded_proto = 1 THEN ParseField(n, v) ELSE UNCHANGED packet

\* tshark prints the packet's next field, or leaves it out
OwnField ==
  /\ reading /\ rest # <<>>
  /\ rest' = Tail(rest)
  /\ \E f \in Head(rest) :
       IF f = Absent
       THEN UNCHANGED <<said, packet>> /\ depth \in {0, 1}
       ELSE /\ depth = 1
            /\ said' = [n \in DOMAIN said \cup {f.name} |-> IF n = f.name THEN f.val ELSE said[n]]
            /\ Field(f.name, f.val)
  /\ UNCHANGED <<depth, reading, embedded_proto, call>>

\* tshark prints a field of a packet quoted in this one
QuotedField ==
  /\ reading /\ depth > 1
  /\ \E f \in Quoted : Field(f.name, f.val)
  /\ UNCHANGED <<rest, depth, reading, said, embedded_proto, call>>

Handler(t) ==
  CASE t = "PT_DIS" -> "dis"
    [] t = "PT_DIO" -> "dio"
    [] t = "PT_DAO" -> "dao"
    [] t \in {"PT_None", "PT_RPL_Unknown"} -> "none"
    [] OTHER -> "data"

\* What the collector is told of the packet
Delivery ==
  IF is_bad \/ Handler(type) = "none" THEN NoCall
  ELSE [handler |-> Handler(type), id |-> packet_id, src |-> src, cell |-> cell,
        options |-> IF type \in {"PT_DIO", "PT_DAO"} THEN has
                    ELSE IF cell[0] = 0 THEN {} ELSE {"info"}]

\* </packet>, rpl_parser_end_packet: rpl_event_packet, the handler and the commit
EndPacket ==
  /\ reading /\ rest = <<>> /\ depth = 0
  /\ reading' = FALSE
  /\ call' = Delivery
  /\ UNCHANGED <<rest, depth, said, embedded_proto, packet>>

\* tshark_parser_reset: the XML parser is freed with the elements it has open
Reset ==
  /\ reading /\ reading' = FALSE
  /\ rest' = <<>> /\ depth' = 0 /\ said' = Nothing
  /\ UNCHANGED <<embedded_proto, packet, call>>

Next == StartPacket \/ StartProto \/ EndProto \/ OwnField \/ QuotedField \/ EndPacket \/ Reset

Spec == Init /\ [][Next]_vars
-----------------------------------------------------------------------------
\* tshark has printed the packet and end_packet has run
Ended == ~reading /\ said # Nothing

\* The handler the packet's own fields call for, whatever their order
Expected(s) ==
  LET Is(n, v) == IsSaid(s, n) /\ s[n] = v IN
  IF Is("icmpv6.checksum_bad", 1) THEN "none"
  ELSE IF Is("icmpv6.type", 155)
  THEN IF IsSaid(s, "icmpv6.code") /\ s["icmpv6.code"] \in 0..2
       THEN <<"dis", "dio", "dao">>[s["icmpv6.code"] + 1] ELSE "none"
  ELSE IF \E n \in {"ipv6.src", "ipv6.dst", "ipv6.nxt", "icmpv6.type"} : IsSaid(s, n)
  THEN "data" ELSE "none"

\* A packet ends in the one handler its own fields call for, under its own number and the
\* longer of its source addresses, and a packet with a bad checksum or an RPL code that is
\* not supported never reaches the collector: what a quoted packet, an earlier packet or a
\* packet cut short by a reset said does not matter.
RightHandler ==
  Ended =>
    /\ call.handler = Expected(said)
    /\ call # NoCall =>
         /\ call.id = said["frame.number"] - 1
         /\ call.src = IF IsSaid(said, "wpan.src64") THEN "extended"
                       ELSE IF IsSaid(said, "wpan.src16") THEN "short" ELSE "none"

TypeOf(handler) ==
  CASE handler = "dis" -> "PT_DIS" [] handler = "dio" -> "PT_DIO"
    [] handler = "dao" -> "PT_DAO" [] OTHER -> "PT_IPv6_Unknown"

\* The handler gets an option exactly when the packet said a field of it.  For a DIS, the
\* bytes it shares with the hop-by-hop option make the option appear solicited as well.
OptionsExact ==
  (Ended /\ call # NoCall) =>
    LET t == TypeOf(call.handler)
        Shared == \E n \in DOMAIN said : 0 \in DOMAIN Writes(t, n, said[n])
        Hop == \E n \in DOMAIN said : DataWrites(n, said[n]) # Nothing
    IN  call.options =
          IF call.handler \in {"dio", "dao"} THEN UNION {OptionsOf(t, n) : n \in DOMAIN said}
          ELSE IF Shared \/ (call.handler = "dis" /\ Hop) THEN {"info"} ELSE {}

\* Every field of the handler's own member arrives as it was said, and what arrives besides
\* comes from this packet's hop-by-hop option: the union never shows an earlier packet.
\* Excepted is the predicate flag of a DIS over which its DODAG's address is written.
ContentExplained ==
  (Ended /\ call # NoCall) =>
    LET t == TypeOf(call.handler)
        own == {n \in DOMAIN said : Writes(t, n, said[n]) # Nothing}
        intact == IF IsSaid(said, "solicited.dodagid") THEN own \ {"solicited.flag.d"} ELSE own
        Wrote(n, c) == \/ c \in DOMAIN Writes(t, n, said[n])
                       \/ c \in DOMAIN DataWrites(n, said[n])
    IN  /\ \A n \in intact : \A c \in DOMAIN Writes(t, n, said[n]) :
             call.cell[c] = Writes(t, n, said[n])[c]
        /\ \A c \in Cells : call.cell[c] # 0 => \E n \in DOMAIN said : Wrote(n, c)
=============================================================================
