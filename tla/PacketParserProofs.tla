------------------------- MODULE PacketParserProofs -------------------------
(***************************************************************************)
(* Theorems about PacketParser, for every set of packets in tshark's order *)
(* of fields, every nesting of protocols, whatever quoted packets say and  *)
(* wherever a reset cuts a packet short: what the parser has made of a     *)
(* packet is what the packet's own fields say.                             *)
(***************************************************************************)
EXTENDS PacketParser, TLAPS

-----------------------------------------------------------------------------
(* What the fields write.                                                  *)

\* A record of bytes: which bytes of the union, with what.
Bytewise(w) == DOMAIN w \subseteq Cells /\ \A c \in DOMAIN w : w[c] \in Nat

\* A byte, a flag and its complement are numbers.
LEMMA Bytes ==
  ASSUME NEW v \in Nat
  PROVE  Low(v) \in Nat /\ High(v) \in Nat /\ Bool(v) \in Nat /\ 1 - Bool(v) \in Nat
<1>1. Byte \in Nat /\ Byte > 0 BY BytesAssumption
<1>2. v \div Byte \in Nat BY <1>1
<1> QED BY <1>1, <1>2 DEF Low, High, Bool

\* The helpers that write one byte, without and with the byte that says it is there.
LEMMA InfoWrites ==
  \A c \in 1..8, b \in Nat : /\ Bytewise(Info(c, b))
                             /\ DOMAIN Info(c, b) = {0, c} /\ Info(c, b)[0] = 1 /\ Info(c, b)[c] = b
BY DEF Info, Bytewise, Cells

LEMMA Byte1Writes ==
  \A c \in Cells, b \in Nat : Bytewise(Byte1(c, b)) /\ DOMAIN Byte1(c, b) = {c} /\ Byte1(c, b)[c] = b
BY DEF Byte1, Bytewise

LEMMA NothingWrites == DOMAIN Nothing = {} /\ Bytewise(Nothing)
BY DEF Nothing, Bytewise

\* What a field writes is bytes of the union; in a DIS and as data the first byte becomes 1.
LEMMA DisTyped ==
  ASSUME NEW n, NEW v \in Nat
  PROVE  /\ Bytewise(DisWrites(n, v))
         /\ DisWrites(n, v) # Nothing => n \in MessageFields \ Options /\ 0 \in DOMAIN DisWrites(n, v) /\ DisWrites(n, v)[0] = 1
<1> DEFINE w == DisWrites(n, v)
<1>1. \/ n \in MessageFields \ Options /\ \E c \in 1..8, b \in Nat : w = Info(c, b)
      \/ w = Nothing
  BY Bytes DEF DisWrites, MessageFields, Options
<1> HIDE DEF w
<1>2. CASE w = Nothing BY <1>2, NothingWrites DEF w
<1>3. ASSUME n \in MessageFields \ Options, NEW c \in 1..8, NEW b \in Nat, w = Info(c, b)
      PROVE  Bytewise(w) /\ n \in MessageFields \ Options /\ 0 \in DOMAIN w /\ w[0] = 1
  BY <1>3, InfoWrites
<1> QED BY <1>1, <1>2, <1>3 DEF w

\* In a DIO and a DAO the fields of the message write, its options do not.
LEMMA DioTyped ==
  ASSUME NEW n, NEW v \in Nat
  PROVE  Bytewise(DioWrites(n, v)) /\ (DioWrites(n, v) # Nothing => n \in MessageFields \ Options)
<1> DEFINE w == DioWrites(n, v)
           r == [x \in {2, 3} |-> IF x = 2 THEN Low(v) ELSE High(v)]
<1>1. Bytewise(r) BY Bytes DEF Bytewise, Cells
<1> HIDE DEF r
<1>2. \/ n \in MessageFields \ Options /\ ((\E c \in Cells, b \in Nat : w = Byte1(c, b)) \/ w = r)
      \/ w = Nothing
  BY Bytes DEF DioWrites, MessageFields, Options, Cells, r
<1> HIDE DEF w
<1> QED BY <1>1, <1>2, Byte1Writes, NothingWrites DEF w

LEMMA DaoTyped ==
  ASSUME NEW n, NEW v \in Nat
  PROVE  Bytewise(DaoWrites(n, v)) /\ (DaoWrites(n, v) # Nothing => n \in MessageFields \ Options)
<1> DEFINE w == DaoWrites(n, v)
           r == [c \in 4..8 |-> Low(v)]
<1>1. Bytewise(r) BY Bytes DEF Bytewise, Cells
<1> HIDE DEF r
<1>2. \/ n \in MessageFields \ Options /\ ((\E c \in Cells, b \in Nat : w = Byte1(c, b)) \/ w = r)
      \/ w = Nothing
  BY Bytes DEF DaoWrites, MessageFields, Options, Cells, r
<1> HIDE DEF w
<1> QED BY <1>1, <1>2, Byte1Writes, NothingWrites DEF w

LEMMA DataTyped ==
  ASSUME NEW n, NEW v \in Nat
  PROVE  /\ Bytewise(DataWrites(n, v))
         /\ DataWrites(n, v) # Nothing => n \in HeaderFields /\ 0 \in DOMAIN DataWrites(n, v) /\ DataWrites(n, v)[0] = 1
<1> DEFINE w == DataWrites(n, v)
           r == [x \in {0, 6, 7} |-> IF x = 0 THEN 1 ELSE IF (x = 6) = sender_rank_inverted THEN High(v) ELSE Low(v)]
<1>1. Bytewise(r) /\ 0 \in DOMAIN r /\ r[0] = 1 BY Bytes DEF Bytewise, Cells
<1> HIDE DEF r
<1>2. CASE n = "hop.sender_rank"
  <2>1. w = r BY <1>2 DEF DataWrites, r
  <2> HIDE DEF w
  <2> QED BY <1>1, <1>2, <2>1 DEF w, HeaderFields
<1>3. CASE n # "hop.sender_rank"
  <2>1. \/ n \in HeaderFields /\ \E c \in 1..8, b \in Nat : w = Info(c, b)
        \/ w = Nothing
    <3>1. CASE n = "hop.flag.o"
      <4>1. w = Info(2, 1 - Bool(v)) BY <3>1 DEF DataWrites
      <4> QED BY <3>1, <4>1, Bytes DEF HeaderFields
    <3>2. CASE n = "hop.flag.r"
      <4>1. w = Info(3, Bool(v)) BY <3>2 DEF DataWrites
      <4> QED BY <3>2, <4>1, Bytes DEF HeaderFields
    <3>3. CASE n = "hop.flag.f"
      <4>1. w = Info(4, Bool(v)) BY <3>3 DEF DataWrites
      <4> QED BY <3>3, <4>1, Bytes DEF HeaderFields
    <3>4. CASE n = "hop.instance_id"
      <4>1. w = Info(5, Low(v)) BY <3>4 DEF DataWrites
      <4> QED BY <3>4, <4>1, Bytes DEF HeaderFields
    <3>5. CASE n \notin {"hop.flag.o", "hop.flag.r", "hop.flag.f", "hop.instance_id", "hop.sender_rank"}
      BY <3>5 DEF DataWrites
    <3> QED BY <1>3, <3>1, <3>2, <3>3, <3>4, <3>5
  <2> HIDE DEF w
  <2>2. CASE w = Nothing BY <2>2, NothingWrites DEF w
  <2>3. ASSUME n \in HeaderFields, NEW c \in 1..8, NEW b \in Nat, w = Info(c, b)
        PROVE  Bytewise(w) /\ n \in HeaderFields /\ 0 \in DOMAIN w /\ w[0] = 1
    BY <2>3, InfoWrites
  <2> QED BY <2>1, <2>2, <2>3 DEF w
<1> QED BY <1>2, <1>3

\* Two fields of a member write the same in the bytes they share, but for the predicate
\* flag of a DIS and the address of its DODAG.
Clash(m, n) == m = "solicited.flag.d" /\ n = "solicited.dodagid"

LEMMA DisShared ==
  ASSUME NEW m, NEW n, NEW u \in Nat, NEW v \in Nat, m # n, ~Clash(m, n), ~Clash(n, m),
         NEW c \in DOMAIN DisWrites(m, u), c \in DOMAIN DisWrites(n, v)
  PROVE  DisWrites(m, u)[c] = DisWrites(n, v)[c]
<1> DEFINE At(k) == CASE k = "solicited.flag.i" -> 4 [] k = "solicited.instance" -> 5 [] k = "solicited.flag.v" -> 6
                      [] k = "solicited.version" -> 7 [] OTHER -> 8
<1>1. ASSUME NEW k, NEW x \in Nat, NEW d \in DOMAIN DisWrites(k, x)
      PROVE  k \in MessageFields /\ d \in {0, At(k)} /\ DisWrites(k, x) # Nothing
             /\ k \in {"solicited.flag.i", "solicited.instance", "solicited.flag.v", "solicited.version",
                       "solicited.flag.d", "solicited.dodagid"}
  <2>1. DisWrites(k, x) # Nothing BY <1>1, NothingWrites
  <2>2. k \in {"solicited.flag.i", "solicited.instance", "solicited.flag.v", "solicited.version",
               "solicited.flag.d", "solicited.dodagid"}
    BY <2>1 DEF DisWrites
  <2>3. \E b \in Nat : DisWrites(k, x) = Info(At(k), b) BY <2>2, Bytes DEF DisWrites
  <2>4. At(k) \in 1..8 BY <2>2
  <2> QED BY <1>1, <2>1, <2>2, <2>3, <2>4, InfoWrites DEF MessageFields
<1>2. c = 0 BY <1>1 DEF Clash
<1> QED BY <1>1, <1>2, DisTyped

\* Two fields of a DIO, or of a DAO, write different bytes; two of data share the first.
LEMMA DioShared ==
  ASSUME NEW m, NEW n, NEW u \in Nat, NEW v \in Nat, m # n, NEW c \in DOMAIN DioWrites(m, u)
  PROVE  c \notin DOMAIN DioWrites(n, v)
<1> DEFINE At(k) == CASE k = "dio.instance" -> {0} [] k = "dio.version" -> {1} [] k = "dio.rank" -> {2, 3}
                      [] k = "dio.flag.g" -> {4} [] k = "dio.flag.preference" -> {5} [] k = "dio.flag.mop" -> {8}
                      [] OTHER -> {}
<1>1. ASSUME NEW k, NEW x \in Nat PROVE DOMAIN DioWrites(k, x) = At(k)
  BY DEF DioWrites, Byte1, Nothing
<1>2. c \in At(m) BY <1>1
<1>3. c \notin At(n) BY <1>2
<1> QED BY <1>1, <1>3

LEMMA DaoShared ==
  ASSUME NEW m, NEW n, NEW u \in Nat, NEW v \in Nat, m # n, NEW c \in DOMAIN DaoWrites(m, u)
  PROVE  c \notin DOMAIN DaoWrites(n, v)
<1> DEFINE At(k) == CASE k = "dao.instance" -> {0} [] k = "dao.flag.k" -> {1} [] k = "dao.flag.d" -> {2}
                      [] k = "dao.dodagid" -> 4..8 [] OTHER -> {}
<1>1. ASSUME NEW k, NEW x \in Nat PROVE DOMAIN DaoWrites(k, x) = At(k)
  BY DEF DaoWrites, Byte1, Nothing
<1>2. c \in At(m) BY <1>1
<1>3. c \notin At(n) BY <1>2
<1> QED BY <1>1, <1>3

LEMMA DataShared ==
  ASSUME NEW m, NEW n, NEW u \in Nat, NEW v \in Nat, m # n,
         NEW c \in DOMAIN DataWrites(m, u), c \in DOMAIN DataWrites(n, v)
  PROVE  DataWrites(m, u)[c] = DataWrites(n, v)[c]
<1> DEFINE At(k) == CASE k = "hop.flag.o" -> {0, 2} [] k = "hop.flag.r" -> {0, 3} [] k = "hop.flag.f" -> {0, 4}
                      [] k = "hop.instance_id" -> {0, 5} [] k = "hop.sender_rank" -> {0, 6, 7} [] OTHER -> {}
<1>1. ASSUME NEW k, NEW x \in Nat PROVE DOMAIN DataWrites(k, x) = At(k)
  BY DEF DataWrites, Info, Nothing
<1>2. c \in At(m) /\ c \in At(n) BY <1>1
<1>3. c = 0 BY <1>2
<1>4. DataWrites(m, u) # Nothing /\ DataWrites(n, v) # Nothing BY NothingWrites
<1> QED BY <1>3, <1>4, DataTyped

\* The same of the member that a type selects.
LEMMA WritesTyped ==
  ASSUME NEW t, NEW n, NEW v \in Nat
  PROVE  /\ Bytewise(Writes(t, n, v))
         /\ Writes(t, n, v) # Nothing => /\ n \notin Options
                                         /\ t \in {"PT_DIS", "PT_DIO", "PT_DAO"} => n \in MessageFields
BY DisTyped, DioTyped, DaoTyped, DataTyped DEF Writes, HeaderFields, Options

LEMMA WritesShared ==
  ASSUME NEW t, NEW m, NEW n, NEW u \in Nat, NEW v \in Nat, m # n, ~Clash(m, n), ~Clash(n, m),
         NEW c \in DOMAIN Writes(t, m, u), c \in DOMAIN Writes(t, n, v)
  PROVE  Writes(t, m, u)[c] = Writes(t, n, v)[c]
<1>1. CASE t = "PT_DIS"
  <2>1. \A k, x : Writes(t, k, x) = DisWrites(k, x) BY <1>1 DEF Writes
  <2>2. c \in DOMAIN DisWrites(m, u) /\ c \in DOMAIN DisWrites(n, v) BY <2>1
  <2>3. DisWrites(m, u)[c] = DisWrites(n, v)[c] BY <2>2, DisShared
  <2> QED BY <2>1, <2>3
<1>2. CASE t = "PT_DIO"
  <2>1. \A k, x : Writes(t, k, x) = DioWrites(k, x) BY <1>2 DEF Writes
  <2> QED BY <2>1, DioShared
<1>3. CASE t = "PT_DAO"
  <2>1. \A k, x : Writes(t, k, x) = DaoWrites(k, x) BY <1>3 DEF Writes
  <2> QED BY <2>1, DaoShared
<1>4. CASE t \notin {"PT_DIS", "PT_DIO", "PT_DAO"}
  <2>1. \A k, x : Writes(t, k, x) = DataWrites(k, x) BY <1>4 DEF Writes
  <2>2. c \in DOMAIN DataWrites(m, u) /\ c \in DOMAIN DataWrites(n, v) BY <2>1
  <2>3. DataWrites(m, u)[c] = DataWrites(n, v)[c] BY <2>2, DataShared
  <2> QED BY <2>1, <2>3
<1> QED BY <1>1, <1>2, <1>3, <1>4

-----------------------------------------------------------------------------
(* The fields of a packet read so far, and what they leave in the parser.  *)

\* s after the field n with the value v, and c after the bytes w are written.
Say(s, n, v) == [m \in DOMAIN s \cup {n} |-> IF m = n THEN v ELSE s[m]]
Write(w, c) == [x \in Cells |-> IF x \in DOMAIN w THEN w[x] ELSE c[x]]

\* The field n may follow the fields s.
Follows(s, n) == \A m \in DOMAIN s : MayPrecede(m, n)

DataTypes == {"PT_IPv6_Unknown", "PT_ICMPv6_Unknown", "PT_TCP", "PT_UDP", "PT_PING", "PT_NDP", "PT_6ND"}
MemberTypes == {"PT_DIS", "PT_DIO", "PT_DAO"}

\* The type is the one that the fields s call for.
TypeTold(s, t) ==
  LET Named == \E n \in {"ipv6.src", "ipv6.dst", "ipv6.nxt"} : IsSaid(s, n)
      IsRpl == s["icmpv6.type"] = 155
  IN  /\ ~IsSaid(s, "icmpv6.type") /\ ~Named => t = "PT_None"
      /\ ~IsSaid(s, "icmpv6.type") /\ Named => t \in DataTypes
      /\ IsSaid(s, "icmpv6.type") /\ ~IsRpl => t \in DataTypes
      /\ IsSaid(s, "icmpv6.type") /\ IsRpl /\ ~IsSaid(s, "icmpv6.code") => t = "PT_RPL_Unknown"
      /\ IsSaid(s, "icmpv6.type") /\ IsRpl /\ IsSaid(s, "icmpv6.code") => t = Rpl(s["icmpv6.code"])

\* So are the number and the kind of the source address.
NameTold(s, id, from) ==
  /\ IsSaid(s, "frame.number") => id = s["frame.number"] - 1
  /\ IsSaid(s, "wpan.src64") => from = "extended"
  /\ ~IsSaid(s, "wpan.src64") /\ IsSaid(s, "wpan.src16") => from = "short"
  /\ ~IsSaid(s, "wpan.src64") /\ ~IsSaid(s, "wpan.src16") => from = "none"

\* The options are those that the fields s say.
OptionsTold(s, t, options) ==
  options = IF t \in {"PT_DIO", "PT_DAO"} THEN UNION {OptionsOf(t, n) : n \in DOMAIN s} ELSE {}

\* The bytes are those that the fields s write, in the member of the type or as data before it
\* was known; a hop-by-hop option that was said shows unless a DIO or a DAO lies over it.
ContentTold(s, t, bytes) ==
  /\ bytes \in [Cells -> Nat]
  /\ \A n \in DOMAIN s : \A c \in DOMAIN Writes(t, n, s[n]) :
       bytes[c] = Writes(t, n, s[n])[c] \/ (c # 0 /\ \E m \in DOMAIN s : Clash(n, m))
  /\ \A c \in Cells : bytes[c] # 0 =>
       \E n \in DOMAIN s : c \in DOMAIN Writes(t, n, s[n]) \cup DOMAIN DataWrites(n, s[n])
  /\ t \notin {"PT_DIO", "PT_DAO"} => \A n \in DOMAIN s : DataWrites(n, s[n]) # Nothing => bytes[0] = 1

\* One more field said.
LEMMA SayProperties ==
  \A s, n, v : /\ DOMAIN Say(s, n, v) = DOMAIN s \cup {n} /\ Say(s, n, v)[n] = v
               /\ \A m \in DOMAIN s : m # n => Say(s, n, v)[m] = s[m]
               /\ \A m : IsSaid(Say(s, n, v), m) <=> IsSaid(s, m) \/ m = n
BY DEF Say, IsSaid

\* The place of the fields in tshark's order.
LEMMA Layers ==
  /\ \A n \in HeaderFields : Layer(n) = 1
  /\ Layer("icmpv6.type") = 2 /\ Layer("icmpv6.code") = 3
  /\ \A n \in MessageFields : Layer(n) = 4
  /\ "icmpv6.type" \notin Options /\ "icmpv6.code" \notin Options
<1>1. \A n \in HeaderFields : n # "icmpv6.type" /\ n # "icmpv6.code" /\ n \notin MessageFields
  BY DEF HeaderFields, MessageFields, Options
<1>2. \A n \in MessageFields : n # "icmpv6.type" /\ n # "icmpv6.code" /\ n \notin HeaderFields
  BY DEF HeaderFields, MessageFields, Options
<1>3. "icmpv6.type" \notin HeaderFields \cup MessageFields /\ "icmpv6.code" \notin HeaderFields \cup MessageFields
  BY <1>1, <1>2
<1>4. Options \subseteq MessageFields BY DEF MessageFields
<1> QED BY <1>1, <1>2, <1>3, <1>4 DEF Layer

\* What cannot have been said when n comes.
LEMMA NotBefore ==
  ASSUME NEW s, NEW n, Follows(s, n)
  PROVE  /\ n \in HeaderFields => ~IsSaid(s, "icmpv6.type") /\ ~IsSaid(s, "icmpv6.code")
         /\ n = "icmpv6.type" => ~IsSaid(s, "icmpv6.type") /\ ~IsSaid(s, "icmpv6.code")
         /\ n = "icmpv6.code" => ~IsSaid(s, "icmpv6.code")
         /\ n = "icmpv6.code" => \A m \in DOMAIN s : m \notin MessageFields
<1>1. \A m : IsSaid(s, m) => (Layer(n) = 0 \/ Layer(m) <= Layer(n)) /\ (m = n => n \in Options)
  BY DEF Follows, MayPrecede, IsSaid
<1>2. n \in HeaderFields => ~IsSaid(s, "icmpv6.type") /\ ~IsSaid(s, "icmpv6.code") BY <1>1, Layers
<1>3. n = "icmpv6.type" => ~IsSaid(s, "icmpv6.type") /\ ~IsSaid(s, "icmpv6.code") BY <1>1, Layers
<1>4. n = "icmpv6.code" => ~IsSaid(s, "icmpv6.code") BY <1>1, Layers
<1>5. n = "icmpv6.code" => \A m \in DOMAIN s : m \notin MessageFields BY <1>1, Layers DEF IsSaid
<1> QED BY <1>2, <1>3, <1>4, <1>5

\* Each of the four parts survives one more field, whatever it is.
LEMMA TypeStep ==
  ASSUME NEW s, NEW n, NEW v \in Nat, NEW t, TypeTold(s, t), Follows(s, n)
  PROVE  TypeTold(Say(s, n, v), TypeAfter(t, n, v))
<1> DEFINE g == Say(s, n, v)
           t1 == TypeAfter(t, n, v)
<1> SUFFICES TypeTold(g, t1) OBVIOUS
<1>1. IsSaid(g, n) /\ g[n] = v BY SayProperties DEF IsSaid
<1>2. \A m : m # n => (IsSaid(g, m) <=> IsSaid(s, m)) BY SayProperties
<1>3. \A m : m # n /\ IsSaid(s, m) => g[m] = s[m] BY SayProperties DEF IsSaid
<1> HIDE DEF g
<1>4. Upper(v) \in DataTypes BY DEF Upper, DataTypes
<1>5. IF v = 155 THEN Icmp(v) = "PT_RPL_Unknown" ELSE Icmp(v) \in DataTypes BY DEF Icmp, DataTypes
<1>6. "PT_None" \notin DataTypes /\ "PT_RPL_Unknown" \notin DataTypes /\ "PT_IPv6_Unknown" \in DataTypes BY DEF DataTypes
<1> HIDE DEF t1
<1>7. CASE n \in {"ipv6.src", "ipv6.dst", "ipv6.nxt"}
  <2>1. ~IsSaid(s, "icmpv6.type") BY <1>7, NotBefore DEF HeaderFields
  <2>2. t1 \in DataTypes
    <3>1. t = "PT_None" \/ t \in DataTypes BY <2>1 DEF TypeTold
    <3> QED BY <1>4, <1>6, <1>7, <3>1 DEF TypeAfter, t1
  <2>3. ~IsSaid(g, "icmpv6.type") BY <1>2, <1>7, <2>1
  <2> QED BY <1>1, <1>7, <2>2, <2>3 DEF TypeTold
<1>8. CASE n = "Next header"
  <2>1. ~IsSaid(s, "icmpv6.type") BY <1>8, NotBefore DEF HeaderFields
  <2>2. t1 = IF t = "PT_IPv6_Unknown" THEN Upper(v) ELSE t BY <1>8 DEF TypeAfter, t1
  <2>3. ~IsSaid(g, "icmpv6.type") BY <1>2, <1>8, <2>1
  <2>4. t \in DataTypes => t1 \in DataTypes BY <1>4, <2>2
  <2>5. t = "PT_None" => t1 = "PT_None" BY <2>2
  <2>6. \A m \in {"ipv6.src", "ipv6.dst", "ipv6.nxt"} : IsSaid(g, m) <=> IsSaid(s, m) BY <1>2, <1>8
  <2> QED BY <2>1, <2>3, <2>4, <2>5, <2>6 DEF TypeTold
<1>9. CASE n = "icmpv6.type"
  <2>1. t1 = Icmp(v) BY <1>9 DEF TypeAfter, t1
  <2>2. ~IsSaid(g, "icmpv6.code") BY <1>2, <1>9, NotBefore
  <2> QED BY <1>1, <1>5, <1>9, <2>1, <2>2 DEF TypeTold
<1>10. CASE n = "icmpv6.code"
  <2>1. t1 = IF t = "PT_RPL_Unknown" THEN Rpl(v) ELSE t BY <1>10 DEF TypeAfter, t1
  <2>2. ~IsSaid(s, "icmpv6.code") BY <1>10, NotBefore
  <2>3. \A m : m # n => (IsSaid(g, m) <=> IsSaid(s, m)) /\ (IsSaid(s, m) => g[m] = s[m]) BY <1>2, <1>3
  <2>4. CASE IsSaid(s, "icmpv6.type")
    <3>1. IsSaid(g, "icmpv6.type") /\ g["icmpv6.type"] = s["icmpv6.type"] BY <1>10, <2>3, <2>4
    <3> QED BY <1>1, <1>6, <1>10, <2>1, <2>2, <2>4, <3>1 DEF TypeTold
  <2>5. CASE ~IsSaid(s, "icmpv6.type")
    <3>1. ~IsSaid(g, "icmpv6.type") BY <1>10, <2>3, <2>5
    <3>2. \A m \in {"ipv6.src", "ipv6.dst", "ipv6.nxt"} : IsSaid(g, m) <=> IsSaid(s, m) BY <1>2, <1>10
    <3> QED BY <1>6, <2>1, <2>5, <3>1, <3>2 DEF TypeTold
  <2> QED BY <2>4, <2>5
<1>11. CASE n \notin {"ipv6.src", "ipv6.dst", "ipv6.nxt", "Next header", "icmpv6.type", "icmpv6.code"}
  <2>1. t1 = t BY <1>11 DEF TypeAfter, t1
  <2>2. \A m \in {"ipv6.src", "ipv6.dst", "ipv6.nxt", "icmpv6.type", "icmpv6.code"} : IsSaid(g, m) <=> IsSaid(s, m)
    BY <1>2, <1>11
  <2>3. \A m \in {"icmpv6.type", "icmpv6.code"} : IsSaid(s, m) => g[m] = s[m] BY <1>3, <1>11
  <2> QED BY <2>1, <2>2, <2>3 DEF TypeTold
<1> QED BY <1>7, <1>8, <1>9, <1>10, <1>11

\* Once a member of the union is known, the type stays, and no header field comes any more;
\* before it, no field of a message has come.
LEMMA TypeStays ==
  ASSUME NEW s, NEW n, NEW v \in Nat, NEW t, TypeTold(s, t), Follows(s, n),
         t \in MemberTypes \/ TypeAfter(t, n, v) \in MemberTypes
  PROVE  \/ TypeAfter(t, n, v) = t /\ n \notin HeaderFields
         \/ n = "icmpv6.code" /\ t \notin MemberTypes /\ \A m \in DOMAIN s : m \notin MessageFields
<1>1. CASE t \in MemberTypes
  <2>1. IsSaid(s, "icmpv6.code") BY <1>1 DEF TypeTold, MemberTypes, DataTypes
  <2>3. n \notin HeaderFields /\ n \notin {"icmpv6.type", "icmpv6.code"} BY <2>1, NotBefore
  <2>4. TypeAfter(t, n, v) = t BY <2>3 DEF TypeAfter, HeaderFields
  <2> QED BY <2>3, <2>4
<1>2. CASE t \notin MemberTypes
  <2>1. n = "icmpv6.code"
    <3>1. Upper(v) \notin MemberTypes /\ Icmp(v) \notin MemberTypes /\ "PT_IPv6_Unknown" \notin MemberTypes
      BY DEF Upper, Icmp, MemberTypes
    <3> QED BY <1>2, <3>1 DEF TypeAfter
  <2> QED BY <1>2, <2>1, NotBefore
<1> QED BY <1>1, <1>2

LEMMA NameStep ==
  ASSUME NEW s, NEW n, NEW v \in Nat, NEW id, NEW from, NameTold(s, id, from)
  PROVE  NameTold(Say(s, n, v), IF n = "frame.number" THEN v - 1 ELSE id,
                  CASE n = "wpan.src64" -> "extended"
                    [] n = "wpan.src16" /\ from = "none" -> "short"
                    [] OTHER -> from)
<1> DEFINE g == Say(s, n, v)
           id1 == IF n = "frame.number" THEN v - 1 ELSE id
           from1 == CASE n = "wpan.src64" -> "extended"
                      [] n = "wpan.src16" /\ from = "none" -> "short"
                      [] OTHER -> from
<1> SUFFICES NameTold(g, id1, from1) OBVIOUS
<1>1. \A m : IsSaid(g, m) <=> IsSaid(s, m) \/ m = n BY SayProperties
<1>2. g[n] = v /\ \A m : m # n /\ IsSaid(s, m) => g[m] = s[m] BY SayProperties DEF IsSaid
<1> HIDE DEF g
<1>3. IsSaid(g, "frame.number") => id1 = g["frame.number"] - 1
  <2>1. CASE n = "frame.number" BY <1>2, <2>1
  <2>2. CASE n # "frame.number" BY <1>1, <1>2, <2>2 DEF NameTold
  <2> QED BY <2>1, <2>2
<1>4. IsSaid(g, "wpan.src16") <=> IsSaid(s, "wpan.src16") \/ n = "wpan.src16" BY <1>1
<1>5. IsSaid(g, "wpan.src64") <=> IsSaid(s, "wpan.src64") \/ n = "wpan.src64" BY <1>1
<1>6. /\ n = "wpan.src64" => from1 = "extended"
      /\ n = "wpan.src16" /\ from = "none" => from1 = "short"
      /\ n # "wpan.src64" /\ ~(n = "wpan.src16" /\ from = "none") => from1 = from
  OBVIOUS
<1> HIDE DEF from1, id1
<1> QED BY <1>3, <1>4, <1>5, <1>6 DEF NameTold

LEMMA OptionsStep ==
  ASSUME NEW s, NEW n, NEW v \in Nat, NEW t, NEW options, TypeTold(s, t), Follows(s, n), OptionsTold(s, t, options)
  PROVE  OptionsTold(Say(s, n, v), TypeAfter(t, n, v), options \cup OptionsOf(TypeAfter(t, n, v), n))
<1> DEFINE t1 == TypeAfter(t, n, v)
           g == Say(s, n, v)
<1> SUFFICES OptionsTold(g, t1, options \cup OptionsOf(t1, n)) OBVIOUS
<1>1. \A x, m : /\ m \notin Options => OptionsOf(x, m) = {}
                /\ x \notin {"PT_DIO", "PT_DAO"} => OptionsOf(x, m) = {}
  BY DEF OptionsOf, Options
<1>2. DOMAIN g = DOMAIN s \cup {n} BY SayProperties
<1>3. t \in MemberTypes \/ t1 \in MemberTypes =>
        \/ t1 = t
        \/ n = "icmpv6.code" /\ t \notin MemberTypes /\ \A m \in DOMAIN s : m \notin MessageFields
  BY TypeStays
<1> HIDE DEF t1, g
<1>4. CASE t1 = t
  <2> DEFINE before == {OptionsOf(t, m) : m \in DOMAIN s}
             after == {OptionsOf(t1, m) : m \in DOMAIN g}
             new == OptionsOf(t1, n)
  <2>1. after = before \cup {new} BY <1>2, <1>4
  <2>2. CASE t1 \in {"PT_DIO", "PT_DAO"}
    <3>1. options = UNION before BY <1>4, <2>2 DEF OptionsTold
    <3>2. options \cup new = UNION after
      <4> HIDE DEF before, after, new
      <4> QED BY <2>1, <3>1
    <3> QED BY <2>2, <3>2 DEF OptionsTold
  <2>3. CASE t1 \notin {"PT_DIO", "PT_DAO"}
    <3>1. options = {} /\ OptionsOf(t1, n) = {} BY <1>1, <1>4, <2>3 DEF OptionsTold
    <3> QED BY <2>3, <3>1 DEF OptionsTold
  <2> QED BY <2>2, <2>3
<1>5. CASE t1 # t /\ t1 \in {"PT_DIO", "PT_DAO"}
  <2>1. t \notin MemberTypes /\ \A m \in DOMAIN s : m \notin Options BY <1>3, <1>5 DEF MemberTypes, MessageFields
  <2>2. options = {} BY <2>1 DEF OptionsTold, MemberTypes
  <2>3. \A m \in DOMAIN s : OptionsOf(t1, m) = {} BY <1>1, <2>1
  <2>4. UNION {OptionsOf(t1, m) : m \in DOMAIN g} = OptionsOf(t1, n) BY <1>2, <2>3
  <2> QED BY <1>5, <2>2, <2>4 DEF OptionsTold
<1>6. CASE t1 # t /\ t1 \notin {"PT_DIO", "PT_DAO"}
  <2>1. t \notin {"PT_DIO", "PT_DAO"} BY <1>3, <1>6 DEF MemberTypes
  <2> QED BY <1>1, <1>6, <2>1 DEF OptionsTold
<1> QED BY <1>4, <1>5, <1>6

LEMMA ContentStep ==
  ASSUME NEW s, \A m \in DOMAIN s : s[m] \in Nat, NEW n, NEW v \in Nat, NEW t, NEW bytes,
         TypeTold(s, t), Follows(s, n), ContentTold(s, t, bytes)
  PROVE  ContentTold(Say(s, n, v), TypeAfter(t, n, v), Write(Writes(TypeAfter(t, n, v), n, v), bytes))
<1> DEFINE t1 == TypeAfter(t, n, v)
           g == Say(s, n, v)
           w == Writes(t1, n, v)
           b == Write(w, bytes)
<1> SUFFICES ContentTold(g, t1, b) OBVIOUS
<1>1. /\ DOMAIN g = DOMAIN s \cup {n} /\ g[n] = v
      /\ \A m \in DOMAIN s : m # n => g[m] = s[m]
  <2>1. DOMAIN g = DOMAIN s \cup {n} BY SayProperties
  <2>2. g[n] = v BY SayProperties
  <2>3. \A m \in DOMAIN s : m # n => g[m] = s[m] BY SayProperties
  <2> QED BY <2>1, <2>2, <2>3
<1>2. t \in MemberTypes \/ t1 \in MemberTypes =>
        \/ t1 = t /\ n \notin HeaderFields
        \/ n = "icmpv6.code" /\ t \notin MemberTypes /\ \A m \in DOMAIN s : m \notin MessageFields
  BY TypeStays
<1>3. Bytewise(w) /\ (w # Nothing => n \notin Options) BY WritesTyped
<1>4. bytes \in [Cells -> Nat] BY DEF ContentTold
<1>5. b = [x \in Cells |-> IF x \in DOMAIN w THEN w[x] ELSE bytes[x]] BY DEF Write
<1> HIDE DEF t1, g, b, w
<1>6. b \in [Cells -> Nat] BY <1>3, <1>4, <1>5 DEF Bytewise
<1>7. \A x : x \notin MemberTypes => \A m, u : Writes(x, m, u) = DataWrites(m, u) BY DEF Writes, MemberTypes
<1>8. \A m \in DOMAIN s : Writes(t1, m, s[m]) = Writes(t, m, s[m]) \/ (Writes(t1, m, s[m]) = Nothing /\ t \notin MemberTypes)
  <2> TAKE m \in DOMAIN s
  <2>1. CASE t1 \notin MemberTypes /\ t \notin MemberTypes BY <1>7, <2>1
  <2>2. CASE t1 \in MemberTypes \/ t \in MemberTypes
    <3>1. CASE t1 = t BY <3>1
    <3>2. CASE t1 # t
      <4>1. n = "icmpv6.code" /\ t \notin MemberTypes /\ m \notin MessageFields BY <1>2, <2>2, <3>2
      <4>2. t1 \in MemberTypes BY <2>2, <4>1
      <4>3. Writes(t1, m, s[m]) = Nothing BY <4>1, <4>2, WritesTyped DEF MemberTypes
      <4> QED BY <4>1, <4>3
    <3> QED BY <3>1, <3>2
  <2> QED BY <2>1, <2>2
<1>9. n \in DOMAIN s => n \in Options BY DEF Follows, MayPrecede
<1>10. ASSUME NEW m \in DOMAIN g, NEW c \in DOMAIN Writes(t1, m, g[m])
       PROVE  b[c] = Writes(t1, m, g[m])[c] \/ (c # 0 /\ \E k \in DOMAIN g : Clash(m, k))
  <2>1. g[m] \in Nat BY <1>1
  <2>2. c \in Cells BY <1>10, <2>1, WritesTyped DEF Bytewise
  <2>3. CASE m = n
    <3>1. c \in DOMAIN w /\ Writes(t1, m, g[m])[c] = w[c] BY <1>1, <1>10, <2>3 DEF w
    <3> QED BY <1>5, <2>2, <3>1
  <2>4. CASE m # n
    <3>1. m \in DOMAIN s /\ g[m] = s[m] BY <1>1, <2>4
    <3>2. Writes(t1, m, s[m]) # Nothing BY <1>10, <3>1, NothingWrites
    <3>3. Writes(t1, m, s[m]) = Writes(t, m, s[m]) BY <1>8, <3>1, <3>2
    <3>4. bytes[c] = Writes(t, m, s[m])[c] \/ (c # 0 /\ \E k \in DOMAIN s : Clash(m, k))
      BY <1>10, <3>1, <3>3 DEF ContentTold
    <3>5. CASE c \notin DOMAIN w
      <4>1. b[c] = bytes[c] BY <1>5, <2>2, <3>5
      <4> QED BY <1>1, <3>1, <3>3, <3>4, <4>1
    <3>6. CASE c \in DOMAIN w
      <4>1. ~Clash(n, m) BY <3>1 DEF Follows, MayPrecede, Clash
      <4>2. b[c] = w[c] BY <1>5, <2>2, <3>6
      <4>3. CASE ~Clash(m, n)
        <5>1. Writes(t1, m, s[m])[c] = w[c]
          <6>1. s[m] \in Nat /\ c \in DOMAIN Writes(t1, m, s[m]) BY <1>10, <3>1
          <6> QED BY <2>4, <3>6, <4>1, <4>3, <6>1, WritesShared DEF w
        <5> QED BY <3>1, <4>2, <5>1
      <4>4. CASE Clash(m, n) /\ c = 0
        <5>1. \A x, u : Writes(x, "solicited.flag.d", u) # Nothing => x = "PT_DIS"
          BY DEF Writes, DioWrites, DaoWrites, DataWrites
        <5>2. t1 = "PT_DIS" BY <3>2, <4>4, <5>1 DEF Clash
        <5>3. \A k, u : Writes(t1, k, u) = DisWrites(k, u) BY <5>2 DEF Writes
        <5>4. w # Nothing BY <3>6, NothingWrites
        <5>5. w[0] = 1 BY <5>3, <5>4, DisTyped DEF w
        <5>6. Writes(t1, m, s[m])[0] = 1
          <6>1. s[m] \in Nat /\ DisWrites(m, s[m]) # Nothing BY <3>1, <3>2, <5>3
          <6> QED BY <5>3, <6>1, DisTyped
        <5> QED BY <3>1, <4>2, <4>4, <5>5, <5>6
      <4>5. CASE Clash(m, n) /\ c # 0 BY <1>1, <4>5
      <4> QED BY <4>3, <4>4, <4>5
    <3> QED BY <3>5, <3>6
  <2> QED BY <2>3, <2>4
<1>11. ASSUME NEW c \in Cells, b[c] # 0
       PROVE  \E m \in DOMAIN g : c \in DOMAIN Writes(t1, m, g[m]) \cup DOMAIN DataWrites(m, g[m])
  <2>1. CASE c \in DOMAIN w BY <1>1, <2>1 DEF w
  <2>2. CASE c \notin DOMAIN w
    <3>1. bytes[c] # 0 BY <1>5, <1>11, <2>2
    <3>2. PICK m \in DOMAIN s : c \in DOMAIN Writes(t, m, s[m]) \cup DOMAIN DataWrites(m, s[m])
      BY <3>1 DEF ContentTold
    <3>3. Writes(t, m, s[m]) # Nothing \/ DataWrites(m, s[m]) # Nothing BY <3>2, NothingWrites
    <3>4. m \notin Options
      <4>1. s[m] \in Nat OBVIOUS
      <4>2. \A k \in HeaderFields : k \notin Options BY DEF HeaderFields, Options
      <4> QED BY <3>3, <4>1, <4>2, WritesTyped, DataTyped
    <3>5. m \in DOMAIN g /\ g[m] = s[m] BY <1>1, <1>9, <3>4
    <3>6. c \in DOMAIN Writes(t1, m, s[m]) \cup DOMAIN DataWrites(m, s[m])
      <4>1. CASE Writes(t1, m, s[m]) = Writes(t, m, s[m]) BY <3>2, <4>1
      <4>2. CASE t \notin MemberTypes BY <1>7, <3>2, <4>2
      <4> QED BY <1>8, <4>1, <4>2
    <3> QED BY <3>5, <3>6
  <2> QED BY <2>1, <2>2
<1>12. ASSUME t1 \notin {"PT_DIO", "PT_DAO"}, NEW m \in DOMAIN g, DataWrites(m, g[m]) # Nothing
       PROVE  b[0] = 1
  <2>1. w # Nothing => 0 \in DOMAIN w /\ w[0] = 1
    <3>1. w = DisWrites(n, v) \/ w = DataWrites(n, v) BY <1>12 DEF Writes, w
    <3> QED BY <3>1, DisTyped, DataTyped
  <2>2. 0 \in Cells BY DEF Cells
  <2>3. CASE m = n
    <3>1. DataWrites(n, v) # Nothing BY <1>1, <1>12, <2>3
    <3>2. n \in HeaderFields BY <3>1, DataTyped
    <3>3. t1 \notin MemberTypes BY <1>2, <3>2 DEF HeaderFields
    <3>4. w = DataWrites(n, v) BY <1>7, <3>3 DEF w
    <3> QED BY <1>5, <2>1, <2>2, <3>1, <3>4
  <2>4. CASE m # n
    <3>1. m \in DOMAIN s /\ g[m] = s[m] BY <1>1, <2>4
    <3>2. t \notin {"PT_DIO", "PT_DAO"} BY <1>2, <1>12 DEF MemberTypes
    <3>3. bytes[0] = 1 BY <1>12, <3>1, <3>2 DEF ContentTold
    <3>4. CASE w = Nothing BY <1>5, <2>2, <3>3, <3>4, NothingWrites
    <3>5. CASE w # Nothing BY <1>5, <2>1, <2>2, <3>5
    <3> QED BY <3>4, <3>5
  <2> QED BY <2>3, <2>4
<1> QED BY <1>6, <1>10, <1>11, <1>12 DEF ContentTold
-----------------------------------------------------------------------------
(* The invariant.                                                          *)

\* The packet is bad when its own checksum is.
BadTold(s, bad) == bad = (IsSaid(s, "icmpv6.checksum_bad") /\ s["icmpv6.checksum_bad"] = 1)

\* What tshark has still to print is in order, and follows what it has printed.
RestFollows(s, r) ==
  /\ r \in Seq(SUBSET (Fields \cup {Absent})) /\ InOrder(r)
  /\ \A i \in DOMAIN r : \A f \in r[i] : f # Absent => Follows(s, f.name)

Numbered(s, r) == IsSaid(s, "frame.number") \/ \E i \in DOMAIN r : \A f \in r[i] : f # Absent /\ f.name = "frame.number"

PacketTold ==
  /\ TypeTold(said, type)
  /\ NameTold(said, packet_id, src)
  /\ OptionsTold(said, type, has)
  /\ ContentTold(said, type, cell)

\* While a packet is read, and after its end.
PacketInv ==
  /\ RestFollows(said, rest)
  /\ Numbered(said, rest)
  /\ \A n \in DOMAIN said : said[n] \in Nat
  /\ BadTold(said, is_bad)
  /\ ~is_bad => PacketTold

ParserInv ==
  /\ reading => depth \in Nat /\ embedded_proto = depth
  /\ reading \/ said # Nothing => PacketInv
  /\ Ended => rest = <<>> /\ call = Delivery

-----------------------------------------------------------------------------
(* What the invariant says of a packet that has ended.                     *)

LEMMA HandlerExpected ==
  ASSUME NEW s, NEW t, TypeTold(s, t), ~(IsSaid(s, "icmpv6.checksum_bad") /\ s["icmpv6.checksum_bad"] = 1)
  PROVE  Handler(t) = Expected(s)
<1>1. \A x \in DataTypes : Handler(x) = "data" BY DEF DataTypes, Handler
<1>2. CASE ~IsSaid(s, "icmpv6.type") BY <1>1, <1>2 DEF TypeTold, Expected, Handler
<1>3. CASE IsSaid(s, "icmpv6.type") /\ s["icmpv6.type"] # 155 BY <1>1, <1>3 DEF TypeTold, Expected
<1>4. CASE IsSaid(s, "icmpv6.type") /\ s["icmpv6.type"] = 155
  <2>1. Expected(s) = IF IsSaid(s, "icmpv6.code") /\ s["icmpv6.code"] \in 0..2
                      THEN <<"dis", "dio", "dao">>[s["icmpv6.code"] + 1] ELSE "none"
    BY <1>4 DEF Expected
  <2>2. CASE ~IsSaid(s, "icmpv6.code") BY <1>4, <2>1, <2>2 DEF TypeTold, Handler
  <2>3. CASE IsSaid(s, "icmpv6.code")
    <3> DEFINE c == s["icmpv6.code"]
    <3>1. t = Rpl(c) BY <1>4, <2>3 DEF TypeTold
    <3>2. Expected(s) = IF c \in 0..2 THEN <<"dis", "dio", "dao">>[c + 1] ELSE "none" BY <2>1, <2>3
    <3> HIDE DEF c
    <3>3. CASE c = 0 BY <3>1, <3>2, <3>3 DEF Rpl, Handler
    <3>4. CASE c = 1 BY <3>1, <3>2, <3>4 DEF Rpl, Handler
    <3>5. CASE c = 2 BY <3>1, <3>2, <3>5 DEF Rpl, Handler
    <3>6. CASE c \notin {0, 1, 2} BY <3>1, <3>2, <3>6 DEF Rpl, Handler
    <3> QED BY <3>3, <3>4, <3>5, <3>6
  <2> QED BY <2>2, <2>3
<1> QED BY <1>2, <1>3, <1>4

\* The member a handler reads is the one the type of the packet names.
LEMMA HandlerMember ==
  ASSUME NEW t, Handler(t) # "none"
  PROVE  /\ \A n, v : Writes(TypeOf(Handler(t)), n, v) = Writes(t, n, v)
         /\ Handler(t) \in {"dio", "dao"} => TypeOf(Handler(t)) = t
         /\ Handler(t) \in {"dio", "dao"} <=> t \in {"PT_DIO", "PT_DAO"}
         /\ Handler(t) = "dis" <=> t = "PT_DIS"
         /\ t \notin MemberTypes => Handler(t) = "data"
<1>1. CASE t \in MemberTypes BY <1>1 DEF Handler, TypeOf, MemberTypes
<1>2. CASE t \notin MemberTypes
  <2>1. Handler(t) = "data" BY <1>2 DEF Handler, MemberTypes
  <2>2. TypeOf(Handler(t)) = "PT_IPv6_Unknown" BY <2>1 DEF TypeOf
  <2> QED BY <1>2, <2>1, <2>2 DEF Writes, MemberTypes
<1> QED BY <1>1, <1>2

\* What the collector gets of a good packet.
LEMMA DeliveryFields ==
  ASSUME ~is_bad, Handler(type) # "none"
  PROVE  /\ Delivery.handler = Handler(type) /\ Delivery.id = packet_id /\ Delivery.src = src
         /\ Delivery.cell = cell
         /\ type \in {"PT_DIO", "PT_DAO"} => Delivery.options = has
         /\ type \notin {"PT_DIO", "PT_DAO"} => Delivery.options = IF cell[0] = 0 THEN {} ELSE {"info"}
<1> DEFINE o == IF type \in {"PT_DIO", "PT_DAO"} THEN has ELSE IF cell[0] = 0 THEN {} ELSE {"info"}
<1>1. Delivery = [handler |-> Handler(type), id |-> packet_id, src |-> src, cell |-> cell, options |-> o]
  BY DEF Delivery
<1>2. type \in {"PT_DIO", "PT_DAO"} => o = has OBVIOUS
<1>3. type \notin {"PT_DIO", "PT_DAO"} => o = IF cell[0] = 0 THEN {} ELSE {"info"} OBVIOUS
<1> HIDE DEF o
<1> QED BY <1>1, <1>2, <1>3

LEMMA NoDelivery ==
  ASSUME Delivery # NoCall
  PROVE  ~is_bad /\ Handler(type) # "none"
BY DEF Delivery

\* The three properties follow from the invariant.
LEMMA RightHandlerEnded == ParserInv => RightHandler
<1> SUFFICES ASSUME ParserInv, Ended PROVE call.handler = Expected(said)
                 /\ (call # NoCall =>
                      /\ call.id = said["frame.number"] - 1
                      /\ call.src = IF IsSaid(said, "wpan.src64") THEN "extended"
                                    ELSE IF IsSaid(said, "wpan.src16") THEN "short" ELSE "none")
  BY DEF RightHandler
<1>1. call = Delivery /\ rest = <<>> /\ PacketInv BY DEF ParserInv, Ended
<1>2. NoCall.handler = "none" BY DEF NoCall
<1>3. CASE is_bad
  <2>1. call = NoCall BY <1>1, <1>3 DEF Delivery
  <2>2. Expected(said) = "none" BY <1>1, <1>3 DEF PacketInv, BadTold, Expected
  <2> QED BY <1>2, <2>1, <2>2
<1>4. CASE ~is_bad
  <2>1. Handler(type) = Expected(said) BY <1>1, <1>4, HandlerExpected DEF PacketInv, BadTold, PacketTold
  <2>2. CASE Handler(type) = "none"
    <3>1. call = NoCall BY <1>1, <2>2 DEF Delivery
    <3> QED BY <1>2, <2>1, <2>2, <3>1
  <2>3. CASE Handler(type) # "none"
    <3>1. IsSaid(said, "frame.number") BY <1>1 DEF PacketInv, Numbered
    <3>2. NameTold(said, packet_id, src) BY <1>1, <1>4 DEF PacketInv, PacketTold
    <3>3. call.handler = Handler(type) /\ call.id = packet_id /\ call.src = src
      BY <1>1, <1>4, <2>3, DeliveryFields
    <3> QED BY <2>1, <3>1, <3>2, <3>3 DEF NameTold
  <2> QED BY <2>2, <2>3
<1> QED BY <1>3, <1>4

LEMMA OptionsExactEnded == ParserInv => OptionsExact
<1> SUFFICES ASSUME ParserInv, Ended, call # NoCall PROVE OptionsExact
  BY DEF OptionsExact
<1>1. call = Delivery /\ PacketInv BY DEF ParserInv, Ended
<1>2. ~is_bad /\ Handler(type) # "none" /\ PacketTold BY <1>1, NoDelivery DEF PacketInv
<1> DEFINE t == TypeOf(call.handler)
           Shared == \E n \in DOMAIN said : 0 \in DOMAIN Writes(t, n, said[n])
           Hop == \E n \in DOMAIN said : DataWrites(n, said[n]) # Nothing
<1>3. call.handler = Handler(type) BY <1>1, <1>2, DeliveryFields
<1>4. \A n, v : Writes(t, n, v) = Writes(type, n, v) BY <1>2, <1>3, HandlerMember
<1>5. call.handler \in {"dio", "dao"} <=> type \in {"PT_DIO", "PT_DAO"} BY <1>2, <1>3, HandlerMember
<1>6. call.handler = "dis" <=> type = "PT_DIS" BY <1>2, <1>3, HandlerMember
<1>7. call.handler \in {"dio", "dao"} => t = type BY <1>2, <1>3, HandlerMember
<1> HIDE DEF t
<1>8. CASE call.handler \in {"dio", "dao"}
  <2>1. call.options = has BY <1>1, <1>2, <1>5, <1>8, DeliveryFields
  <2>2. has = UNION {OptionsOf(t, n) : n \in DOMAIN said} BY <1>2, <1>5, <1>7, <1>8 DEF PacketTold, OptionsTold
  <2> QED BY <1>8, <2>1, <2>2 DEF OptionsExact, t
<1>9. CASE call.handler \notin {"dio", "dao"}
  <2>1. call.options = IF cell[0] = 0 THEN {} ELSE {"info"} BY <1>1, <1>2, <1>5, <1>9, DeliveryFields
  <2>2. ContentTold(said, type, cell) BY <1>2 DEF PacketTold
  <2>3. 0 \in Cells BY DEF Cells
  <2>4. \A n, v : type = "PT_DIS" => Writes(type, n, v) = DisWrites(n, v) BY DEF Writes
  <2>5. \A n, v : type # "PT_DIS" => Writes(type, n, v) = DataWrites(n, v) BY <1>5, <1>9 DEF Writes
  <2>6. \A n \in DOMAIN said : said[n] \in Nat BY <1>1 DEF PacketInv
  <2>7. cell[0] # 0 => Shared \/ (call.handler = "dis" /\ Hop)
    <3> SUFFICES ASSUME cell[0] # 0 PROVE Shared \/ (call.handler = "dis" /\ Hop) OBVIOUS
    <3>1. PICK n \in DOMAIN said : 0 \in DOMAIN Writes(type, n, said[n]) \cup DOMAIN DataWrites(n, said[n])
      BY <2>2, <2>3 DEF ContentTold
    <3>2. CASE 0 \in DOMAIN Writes(type, n, said[n]) BY <1>4, <3>2
    <3>3. CASE 0 \in DOMAIN DataWrites(n, said[n]) /\ type = "PT_DIS" BY <1>6, <3>3, NothingWrites
    <3>4. CASE 0 \in DOMAIN DataWrites(n, said[n]) /\ type # "PT_DIS" BY <1>4, <2>5, <3>4
    <3> QED BY <3>1, <3>2, <3>3, <3>4
  <2>8. ASSUME Shared PROVE cell[0] # 0
    <3>1. PICK n \in DOMAIN said : 0 \in DOMAIN Writes(type, n, said[n]) BY <1>4, <2>8
    <3>2. cell[0] = Writes(type, n, said[n])[0] BY <2>2, <3>1 DEF ContentTold
    <3>3. Writes(type, n, said[n]) # Nothing BY <3>1, NothingWrites
    <3>4. Writes(type, n, said[n])[0] = 1
      <4>1. CASE type = "PT_DIS" BY <2>4, <2>6, <3>3, <4>1, DisTyped
      <4>2. CASE type # "PT_DIS" BY <2>5, <2>6, <3>3, <4>2, DataTyped
      <4> QED BY <4>1, <4>2
    <3> QED BY <3>2, <3>4
  <2>9. ASSUME call.handler = "dis", Hop PROVE cell[0] # 0
    <3>1. type \notin {"PT_DIO", "PT_DAO"} BY <1>5, <1>9
    <3> QED BY <2>2, <2>9, <3>1 DEF ContentTold
  <2>10. call.options = IF Shared \/ (call.handler = "dis" /\ Hop) THEN {"info"} ELSE {}
    BY <2>1, <2>7, <2>8, <2>9
  <2> HIDE DEF Shared, Hop
  <2>11. call.options = IF call.handler \in {"dio", "dao"} THEN UNION {OptionsOf(t, n) : n \in DOMAIN said}
                        ELSE IF Shared \/ (call.handler = "dis" /\ Hop) THEN {"info"} ELSE {}
    BY <1>9, <2>10
  <2> QED BY <2>11 DEF OptionsExact, Shared, Hop, t
<1> QED BY <1>8, <1>9

LEMMA ContentExplainedEnded == ParserInv => ContentExplained
<1> SUFFICES ASSUME ParserInv, Ended, call # NoCall PROVE ContentExplained
  BY DEF ContentExplained
<1>1. call = Delivery /\ PacketInv BY DEF ParserInv, Ended
<1>2. ~is_bad /\ Handler(type) # "none" /\ PacketTold BY <1>1, NoDelivery DEF PacketInv
<1> DEFINE t == TypeOf(call.handler)
           own == {n \in DOMAIN said : Writes(t, n, said[n]) # Nothing}
           intact == IF IsSaid(said, "solicited.dodagid") THEN own \ {"solicited.flag.d"} ELSE own
           Wrote(n, c) == \/ c \in DOMAIN Writes(t, n, said[n])
                          \/ c \in DOMAIN DataWrites(n, said[n])
<1>3. call.handler = Handler(type) /\ call.cell = cell BY <1>1, <1>2, DeliveryFields
<1>4. \A n, v : Writes(t, n, v) = Writes(type, n, v) BY <1>2, <1>3, HandlerMember
<1>5. ContentTold(said, type, cell) BY <1>2 DEF PacketTold
<1> HIDE DEF t
<1>6. ASSUME NEW n \in intact, NEW c \in DOMAIN Writes(t, n, said[n])
      PROVE  call.cell[c] = Writes(t, n, said[n])[c]
  <2>1. n \in DOMAIN said BY <1>6
  <2>2. cell[c] = Writes(type, n, said[n])[c] \/ \E m \in DOMAIN said : Clash(n, m)
    BY <1>4, <1>5, <1>6, <2>1 DEF ContentTold
  <2>3. ~\E m \in DOMAIN said : Clash(n, m) BY <1>6 DEF Clash, IsSaid
  <2> QED BY <1>3, <1>4, <2>2, <2>3
<1>7. \A c \in Cells : call.cell[c] # 0 => \E n \in DOMAIN said : Wrote(n, c)
  BY <1>3, <1>4, <1>5 DEF ContentTold
<1> HIDE DEF own, intact, Wrote
<1> QED BY <1>6, <1>7 DEF ContentExplained, own, intact, Wrote, t

-----------------------------------------------------------------------------
(* The invariant is inductive.                                             *)

\* At the start of a packet, nothing is said and nothing is known.
LEMMA NothingTold ==
  /\ TypeTold(Nothing, "PT_None") /\ NameTold(Nothing, 0, "none")
  /\ OptionsTold(Nothing, "PT_None", {}) /\ ContentTold(Nothing, "PT_None", [c \in Cells |-> 0])
  /\ BadTold(Nothing, FALSE)
<1>1. \A m : ~IsSaid(Nothing, m) BY NothingWrites DEF IsSaid
<1>2. [c \in Cells |-> 0] \in [Cells -> Nat] /\ \A c \in Cells : [x \in Cells |-> 0][c] = 0 OBVIOUS
<1> QED BY <1>1, <1>2, NothingWrites DEF TypeTold, NameTold, OptionsTold, ContentTold, BadTold

\* A packet tshark starts to print.
LEMMA ShapeFollows ==
  ASSUME NEW s \in Shapes
  PROVE  RestFollows(Nothing, s) /\ Numbered(Nothing, s)
<1>1. s \in Seq(SUBSET (Fields \cup {Absent})) BY FieldsAssumption
<1>2. InOrder(s) /\ \E i \in DOMAIN s : \A f \in s[i] : f # Absent /\ f.name = "frame.number" BY ShapesAssumption
<1> QED BY <1>1, <1>2, NothingWrites DEF RestFollows, Numbered, Follows

\* What is left of it when a position is passed.
LEMMA TailFollows ==
  ASSUME NEW s, NEW r, RestFollows(s, r), r # <<>>
  PROVE  /\ RestFollows(s, Tail(r))
         /\ \A f \in Head(r) : f # Absent =>
              f \in Fields /\ Follows(s, f.name) /\ RestFollows(Say(s, f.name, f.val), Tail(r))
<1>1. r \in Seq(SUBSET (Fields \cup {Absent})) /\ InOrder(r) BY DEF RestFollows
<1>2. Len(r) >= 1 /\ Tail(r) \in Seq(SUBSET (Fields \cup {Absent})) /\ Head(r) = r[1] BY <1>1
<1>3. 1 \in DOMAIN r /\ \A i \in DOMAIN Tail(r) : i + 1 \in DOMAIN r /\ Tail(r)[i] = r[i + 1] /\ i \in 1..Len(r)
  BY <1>1, <1>2
<1>4. InOrder(Tail(r))
  <2> SUFFICES ASSUME NEW i \in DOMAIN Tail(r), NEW j \in DOMAIN Tail(r), i < j,
                      NEW f \in Tail(r)[i], NEW g \in Tail(r)[j], f # Absent, g # Absent
               PROVE  MayPrecede(f.name, g.name)
    BY DEF InOrder
  <2>1. i + 1 < j + 1 BY <1>3
  <2> QED BY <1>1, <1>3, <2>1 DEF InOrder
<1>5. \A i \in DOMAIN Tail(r) : \A f \in Tail(r)[i] : f # Absent => Follows(s, f.name)
  BY <1>3 DEF RestFollows
<1>6. ASSUME NEW f \in Head(r), f # Absent
      PROVE  f \in Fields /\ Follows(s, f.name) /\ RestFollows(Say(s, f.name, f.val), Tail(r))
  <2>1. f \in Fields /\ Follows(s, f.name) BY <1>1, <1>2, <1>3, <1>6 DEF RestFollows
  <2>2. ASSUME NEW i \in DOMAIN Tail(r), NEW g \in Tail(r)[i], g # Absent
        PROVE  Follows(Say(s, f.name, f.val), g.name)
    <3>1. MayPrecede(f.name, g.name)
      <4>1. 1 < i + 1 BY <1>3
      <4> QED BY <1>1, <1>2, <1>3, <1>6, <2>2, <4>1 DEF InOrder
    <3>2. Follows(s, g.name) BY <1>5, <2>2
    <3>3. DOMAIN Say(s, f.name, f.val) = DOMAIN s \cup {f.name} BY SayProperties
    <3> QED BY <3>1, <3>2, <3>3 DEF Follows
  <2> QED BY <1>2, <1>4, <2>1, <2>2 DEF RestFollows
<1> QED BY <1>2, <1>4, <1>5, <1>6 DEF RestFollows

\* The packet's number is said or still to come.
LEMMA TailNumbered ==
  ASSUME NEW s, NEW r, RestFollows(s, r), r # <<>>, Numbered(s, r), NEW f \in Head(r)
  PROVE  IF f = Absent THEN Numbered(s, Tail(r)) ELSE Numbered(Say(s, f.name, f.val), Tail(r))
<1>1. r \in Seq(SUBSET (Fields \cup {Absent})) BY DEF RestFollows
<1>2. Head(r) = r[1] /\ \A i \in DOMAIN r : i # 1 => i - 1 \in DOMAIN Tail(r) /\ Tail(r)[i - 1] = r[i]
  BY <1>1
<1>3. \A m : IsSaid(Say(s, f.name, f.val), m) <=> IsSaid(s, m) \/ m = f.name BY SayProperties
<1>4. CASE IsSaid(s, "frame.number") BY <1>3, <1>4 DEF Numbered
<1>5. CASE ~IsSaid(s, "frame.number")
  <2>1. PICK i \in DOMAIN r : \A g \in r[i] : g # Absent /\ g.name = "frame.number" BY <1>5 DEF Numbered
  <2>2. CASE i = 1 BY <1>2, <1>3, <2>1, <2>2 DEF Numbered
  <2>3. CASE i # 1 BY <1>2, <2>1, <2>3 DEF Numbered
  <2> QED BY <2>2, <2>3
<1> QED BY <1>4, <1>5

\* A field of the packet itself.
LEMMA FieldTold ==
  ASSUME PacketInv, NEW n, NEW v \in Nat, Follows(said, n), said' = Say(said, n, v), ParseField(n, v)
  PROVE  BadTold(said', is_bad') /\ (~is_bad' => PacketTold')
<1>1. \A m : IsSaid(said', m) <=> IsSaid(said, m) \/ m = n BY SayProperties
<1>2. said'[n] = v /\ \A m : m # n /\ IsSaid(said, m) => said'[m] = said[m] BY SayProperties DEF IsSaid
<1>3. IsSaid(said, "icmpv6.checksum_bad") => n # "icmpv6.checksum_bad" BY DEF Follows, MayPrecede, Options, IsSaid
<1>4. CASE is_bad
  <2>1. is_bad' = is_bad BY <1>4 DEF ParseField, packet
  <2>2. IsSaid(said, "icmpv6.checksum_bad") /\ said["icmpv6.checksum_bad"] = 1 BY <1>4 DEF PacketInv, BadTold
  <2>3. IsSaid(said', "icmpv6.checksum_bad") /\ said'["icmpv6.checksum_bad"] = 1 BY <1>1, <1>2, <1>3, <2>2
  <2> QED BY <1>4, <2>1, <2>3 DEF BadTold
<1>5. CASE ~is_bad
  <2>1. /\ type' = TypeAfter(type, n, v)
        /\ is_bad' = (n = "icmpv6.checksum_bad" /\ v = 1)
        /\ packet_id' = IF n = "frame.number" THEN v - 1 ELSE packet_id
        /\ src' = CASE n = "wpan.src64" -> "extended"
                    [] n = "wpan.src16" /\ src = "none" -> "short"
                    [] OTHER -> src
        /\ cell' = Write(Writes(TypeAfter(type, n, v), n, v), cell)
        /\ has' = has \cup OptionsOf(TypeAfter(type, n, v), n)
    BY <1>5 DEF ParseField, Write
  <2>2. PacketTold /\ \A m \in DOMAIN said : said[m] \in Nat BY <1>5 DEF PacketInv
  <2>3. TypeTold(said', type') BY <2>1, <2>2, TypeStep DEF PacketTold
  <2>4. NameTold(said', packet_id', src') BY <2>1, <2>2, NameStep DEF PacketTold
  <2>5. OptionsTold(said', type', has') BY <2>1, <2>2, OptionsStep DEF PacketTold
  <2>6. ContentTold(said', type', cell') BY <2>1, <2>2, ContentStep DEF PacketTold
  <2>7. BadTold(said', is_bad')
    <3>1. ~(IsSaid(said, "icmpv6.checksum_bad") /\ said["icmpv6.checksum_bad"] = 1) BY <1>5 DEF PacketInv, BadTold
    <3>2. CASE n = "icmpv6.checksum_bad" BY <1>1, <1>2, <2>1, <3>2 DEF BadTold
    <3>3. CASE n # "icmpv6.checksum_bad"
      <4>1. ~(IsSaid(said', "icmpv6.checksum_bad") /\ said'["icmpv6.checksum_bad"] = 1) BY <1>1, <1>2, <3>1, <3>3
      <4> QED BY <2>1, <3>3, <4>1 DEF BadTold
    <3> QED BY <3>2, <3>3
  <2> QED BY <2>3, <2>4, <2>5, <2>6, <2>7 DEF PacketTold
<1> QED BY <1>4, <1>5

LEMMA InvInit == Init => ParserInv
BY DEF Init, ParserInv, Ended, PacketInv

\* The invariant reads nothing but these.
LEMMA Frame ==
  ASSUME PacketInv, UNCHANGED <<rest, said, packet>>
  PROVE  PacketInv'
BY DEF PacketInv, PacketTold, packet

LEMMA InvNext == ParserInv /\ [Next]_vars => ParserInv'
<1> SUFFICES ASSUME ParserInv, [Next]_vars PROVE ParserInv' OBVIOUS
<1>1. CASE StartPacket
  <2>1. /\ reading' = TRUE /\ depth' = 0 /\ said' = Nothing /\ embedded_proto' = 0 /\ rest' \in Shapes
        /\ type' = "PT_None" /\ is_bad' = FALSE /\ packet_id' = 0 /\ src' = "none"
        /\ cell' = [c \in Cells |-> 0] /\ has' = {}
    BY <1>1 DEF StartPacket, Begin
  <2>2. RestFollows(said', rest') /\ Numbered(said', rest') BY <2>1, ShapeFollows
  <2>3. BadTold(said', is_bad') BY <2>1, NothingTold
  <2>4. PacketTold' BY <2>1, NothingTold DEF PacketTold
  <2>5. PacketInv' BY <2>1, <2>2, <2>3, <2>4, NothingWrites DEF PacketInv
  <2> QED BY <2>1, <2>5 DEF ParserInv, Ended
<1>2. CASE StartProto
  <2>1. PacketInv' BY <1>2, Frame DEF ParserInv, StartProto
  <2> QED BY <1>2, <2>1 DEF ParserInv, Ended, StartProto
<1>3. CASE EndProto
  <2>1. PacketInv' BY <1>3, Frame DEF ParserInv, EndProto
  <2> QED BY <1>3, <2>1 DEF ParserInv, Ended, EndProto
<1>4. CASE OwnField
  <2>1. /\ reading /\ reading' = reading /\ depth' = depth /\ embedded_proto' = embedded_proto
        /\ rest # <<>> /\ rest' = Tail(rest)
    BY <1>4 DEF OwnField
  <2>2. PacketInv /\ embedded_proto = depth /\ depth \in Nat BY <2>1 DEF ParserInv
  <2>3. RestFollows(said, rest) /\ Numbered(said, rest) BY <2>2 DEF PacketInv
  <2>4. PICK f \in Head(rest) :
          IF f = Absent
          THEN UNCHANGED <<said, packet>> /\ depth \in {0, 1}
          ELSE /\ depth = 1
               /\ said' = [n \in DOMAIN said \cup {f.name} |-> IF n = f.name THEN f.val ELSE said[n]]
               /\ Field(f.name, f.val)
    BY <1>4 DEF OwnField
  <2>5. PacketInv'
    <3>1. CASE f = Absent
      <4>1. RestFollows(said', rest') BY <2>1, <2>3, <2>4, <3>1, TailFollows
      <4>2. Numbered(said', rest') BY <2>1, <2>3, <2>4, <3>1, TailNumbered
      <4>3. UNCHANGED <<said, packet>> BY <2>4, <3>1
      <4> QED BY <2>2, <4>1, <4>2, <4>3 DEF PacketInv, PacketTold, packet
    <3>2. CASE f # Absent
      <4>1. said' = Say(said, f.name, f.val) /\ ParseField(f.name, f.val) BY <2>2, <2>4, <3>2 DEF Say, Field
      <4>2. f \in Fields /\ Follows(said, f.name) /\ RestFollows(said', rest') BY <2>1, <2>3, <3>2, <4>1, TailFollows
      <4>3. Numbered(said', rest') BY <2>1, <2>3, <3>2, <4>1, TailNumbered
      <4>4. f.val \in Nat BY <4>2 DEF Fields
      <4>5. \A n \in DOMAIN said' : said'[n] \in Nat
        <5>1. DOMAIN said' = DOMAIN said \cup {f.name} BY <4>1, SayProperties
        <5>2. said'[f.name] = f.val BY <4>1, SayProperties
        <5>3. \A n \in DOMAIN said : n # f.name => said'[n] = said[n] BY <4>1, SayProperties
        <5> QED BY <2>2, <4>4, <5>1, <5>2, <5>3 DEF PacketInv
      <4>6. BadTold(said', is_bad') /\ (~is_bad' => PacketTold') BY <2>2, <4>1, <4>2, <4>4, FieldTold
      <4> QED BY <4>2, <4>3, <4>5, <4>6 DEF PacketInv
    <3> QED BY <3>1, <3>2
  <2> QED BY <2>1, <2>2, <2>5 DEF ParserInv, Ended
<1>5. CASE QuotedField
  <2>1. reading /\ depth > 1 /\ UNCHANGED <<rest, depth, reading, said, embedded_proto, call>> BY <1>5 DEF QuotedField
  <2>2. PacketInv /\ embedded_proto = depth /\ depth \in Nat BY <2>1 DEF ParserInv
  <2>3. UNCHANGED packet BY <1>5, <2>1, <2>2 DEF QuotedField, Field
  <2>4. PacketInv' BY <2>1, <2>2, <2>3, Frame
  <2> QED BY <2>1, <2>2, <2>4 DEF ParserInv, Ended
<1>6. CASE EndPacket
  <2>1. /\ reading /\ reading' = FALSE /\ rest = <<>> /\ call' = Delivery
        /\ UNCHANGED <<rest, depth, said, embedded_proto, packet>>
    BY <1>6 DEF EndPacket
  <2>2. PacketInv' BY <2>1, Frame DEF ParserInv
  <2>3. Delivery' = Delivery BY <2>1 DEF Delivery, packet
  <2> QED BY <2>1, <2>2, <2>3 DEF ParserInv, Ended
<1>7. CASE Reset
  BY <1>7 DEF Reset, ParserInv, Ended
<1>8. CASE UNCHANGED vars
  <2>1. UNCHANGED <<rest, depth, reading, said, embedded_proto, packet, call>> BY <1>8 DEF vars
  <2>2. reading \/ said # Nothing => PacketInv' BY <2>1, Frame DEF ParserInv
  <2>3. Delivery' = Delivery BY <2>1 DEF Delivery, packet
  <2> QED BY <2>1, <2>2, <2>3 DEF ParserInv, Ended
<1> QED BY <1>1, <1>2, <1>3, <1>4, <1>5, <1>6, <1>7, <1>8 DEF Next

\* The parser's invariant: what it has made of a packet is what the packet's fields so far say.
THEOREM ParserInvariant == Spec => []ParserInv
BY InvInit, InvNext, PTL DEF Spec

\* A packet ends in the one handler its own fields call for, under its own number and address.
THEOREM RightHandlerAlways == Spec => []RightHandler
BY ParserInvariant, RightHandlerEnded, PTL

\* The handler gets the options the packet's own fields say, and no other.
THEOREM OptionsExactAlways == Spec => []OptionsExact
BY ParserInvariant, OptionsExactEnded, PTL

\* The handler's member holds what the packet said, and nothing an earlier packet left.
THEOREM ContentExplainedAlways == Spec => []ContentExplained
BY ParserInvariant, ContentExplainedEnded, PTL
=============================================================================
