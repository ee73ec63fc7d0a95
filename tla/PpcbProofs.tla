----------------------------- MODULE PpcbProofs -----------------------------
(***************************************************************************)
(* A client of ppcbs that ends in success has had all of its data printed, *)
(* what a session prints is the beginning of its client's data, and the    *)
(* two sides of the first session stay within a packet of each other: for  *)
(* any clients, lengths and sizes of packets, any number of                *)
(* retransmissions, and whatever the network does with the packets.  On    *)
(* ordered links a client fails for a reason only.                         *)
(***************************************************************************)
EXTENDS Ppcb, TLAPS, SequenceTheorems

USE PpcbAssumption

-----------------------------------------------------------------------------
(* How the data are cut into packets.                                      *)

LEMMA Products ==
  ASSUME NEW a \in Int, NEW b \in Int, NEW n \in Nat, a <= b
  PROVE  a * n <= b * n /\ a * n \in Int /\ b * n \in Int /\ (a + 1) * n = a * n + n
  <1>1. (b - a) * n >= 0
    OBVIOUS
  <1>2. (b - a) * n = b * n - a * n
    OBVIOUS
  <1> QED BY <1>1, <1>2

LEMMA Division ==
  ASSUME NEW a \in Nat, NEW n \in Nat \ {0}
  PROVE  LET q == (a + n - 1) \div n IN
         q \in Nat /\ q * n <= a + n - 1 /\ a + n - 1 < q * n + n
  OBVIOUS

LEMMA Quotient ==
  ASSUME NEW a \in Nat, NEW n \in Nat \ {0}, NEW q \in Nat, NEW r \in Nat,
         q * n <= a, a < q * n + n, r * n <= a, a < r * n + n
  PROVE  q = r
  <1>1. CASE q < r
    <2>1. (q + 1) * n <= r * n /\ (q + 1) * n = q * n + n
      BY <1>1, Products
    <2> QED BY <2>1, <1>1
  <1>2. CASE r < q
    <2>1. (r + 1) * n <= q * n /\ (r + 1) * n = r * n + n
      BY <1>2, Products
    <2> QED BY <2>1, <1>2
  <1> QED BY <1>1, <1>2

-----------------------------------------------------------------------------
(* The links, of either kind.                                              *)

PacketType == {"CONN", "CONACC", "CONRJT", "SYN", "FIN", "RCVD", "ACC", "RJT", "DATA"}
Packets == [type : PacketType, num : Nat, units : Int]
Links == IF Ordered THEN Seq(Packets) ELSE SUBSET Packets
On(link, m) == IF Ordered THEN \E k \in 1 .. Len(link) : link[k] = m ELSE m \in link

LEMMA LinkEmpty == Empty \in Links /\ \A m : ~On(Empty, m)
  <1>1. CASE Ordered
    <2>1. <<>> \in Seq(Packets) /\ Len(<<>>) = 0
      OBVIOUS
    <2> QED BY <1>1, <2>1 DEF Empty, Links, On
  <1>2. CASE ~Ordered
    BY <1>2 DEF Empty, Links, On
  <1> QED BY <1>1, <1>2

LEMMA LinkNext ==
  ASSUME NEW l \in Links, NEW m \in Next1(l)
  PROVE  m \in Packets /\ On(l, m)
  <1>1. CASE Ordered
    <2>1. l \in Seq(Packets) /\ l # <<>> /\ m = Head(l)
      BY <1>1 DEF Links, Next1
    <2>2. Len(l) \in Nat /\ Len(l) > 0 /\ m = l[1] /\ m \in Packets
      BY <2>1, EmptySeq, LenProperties, HeadTailProperties
    <2>3. 1 \in 1 .. Len(l)
      BY <2>2
    <2> QED BY <1>1, <2>2, <2>3 DEF On
  <1>2. CASE ~Ordered
    BY <1>2 DEF Links, Next1, On
  <1> QED BY <1>1, <1>2

LEMMA LinkRest ==
  ASSUME NEW l \in Links, Next1(l) # {}
  PROVE  Rest(l) \in Links /\ \A m : On(Rest(l), m) => On(l, m)
  <1>1. CASE Ordered
    <2>1. l \in Seq(Packets) /\ l # <<>>
      BY <1>1 DEF Links, Next1
    <2>2. /\ Tail(l) \in Seq(Packets) /\ Len(Tail(l)) = Len(l) - 1 /\ Len(l) \in Nat
          /\ \A k \in 1 .. Len(l) - 1 : Tail(l)[k] = l[k + 1]
      BY <2>1, HeadTailProperties, LenProperties
    <2>3. ASSUME NEW k \in 1 .. Len(l) - 1 PROVE \E j \in 1 .. Len(l) : l[j] = Tail(l)[k]
      <3>1. k + 1 \in 1 .. Len(l)
        BY <2>2
      <3> QED BY <2>2, <3>1
    <2> QED BY <1>1, <2>2, <2>3 DEF On, Rest, Links
  <1>2. CASE ~Ordered
    BY <1>2 DEF On, Rest, Links
  <1> QED BY <1>1, <1>2

LEMMA LinkWith ==
  ASSUME NEW l \in Links, NEW ps \in Seq(Packets)
  PROVE  /\ With(l, ps) \in Links
         /\ \A m : On(With(l, ps), m) => On(l, m) \/ \E k \in 1 .. Len(ps) : ps[k] = m
  <1>1. Len(ps) \in Nat /\ DOMAIN ps = 1 .. Len(ps) /\ \A k \in 1 .. Len(ps) : ps[k] \in Packets
    BY LenProperties
  <1>2. CASE Ordered
    <2>1. l \in Seq(Packets) /\ Len(l) \in Nat
      BY <1>2, LenProperties DEF Links
    <2>2. /\ l \o ps \in Seq(Packets) /\ Len(l \o ps) = Len(l) + Len(ps)
          /\ \A k \in 1 .. Len(l) + Len(ps) : (l \o ps)[k] = IF k <= Len(l) THEN l[k] ELSE ps[k - Len(l)]
      BY <2>1, ConcatProperties
    <2>3. ASSUME NEW k \in 1 .. Len(l) + Len(ps)
          PROVE  \/ \E j \in 1 .. Len(l) : l[j] = (l \o ps)[k]
                 \/ \E j \in 1 .. Len(ps) : ps[j] = (l \o ps)[k]
      <3>1. CASE k <= Len(l)
        <4>1. k \in 1 .. Len(l)
          BY <3>1, <2>1
        <4> QED BY <2>2, <3>1, <4>1
      <3>2. CASE ~(k <= Len(l))
        <4>1. k - Len(l) \in 1 .. Len(ps)
          BY <3>2, <2>1, <1>1
        <4> QED BY <2>2, <3>2, <4>1
      <3> QED BY <3>1, <3>2
    <2> QED BY <1>2, <2>1, <2>2, <2>3 DEF On, With, Links
  <1>3. CASE ~Ordered
    <2>1. With(l, ps) = l \cup {ps[k] : k \in 1 .. Len(ps)}
      BY <1>1, <1>3 DEF With, Range
    <2> QED BY <1>1, <1>3, <2>1 DEF On, Links
  <1> QED BY <1>2, <1>3

-----------------------------------------------------------------------------
(* The invariant.  DATA on its way to the server is a packet of its        *)
(* client's data, an RCVD on its way back is sent when all of them were     *)
(* printed, and the server knows how much is left of those it has printed. *)

Client == [protocol : {"tcp", "udp", "udpr"}, len : Nat,
           pc : {"start", "connected", "conacc", "acc", "rcvd", "done", "failed", "refused"},
           attempts : Nat, num : Nat]

LinksOK ==
  /\ net \in Networks
  /\ up \in [Clients -> Links] /\ down \in [Clients -> Links]

ClientsOK ==
  /\ client \in [Clients -> Client]
  /\ \A c \in Clients : client[c].pc = "acc" => More(c, client[c].num)
  /\ SuccessMeansSaved

OnlyData ==
  \A c \in Clients : \A m : On(up[c], m) /\ m.type = "DATA" => m = DATA(c, m.num) /\ More(c, m.num)

OnlyConfirmed ==
  \A c \in Clients : \A m : On(down[c], m) /\ m.type = "RCVD" => c \in saved

SessionOK ==
  /\ server \in [pc : {"listen", "conn", "data", "first", "next"}, peer : Clients \cup {Nobody},
                 attempts : Nat, num : Nat, read : Int, size : Int]
  /\ printed \in Seq(Clients \X Nat)
  /\ server.pc \in {"listen", "conn"} => printed = <<>> /\ server.num = 0
  /\ server.pc # "listen" => server.peer \in Clients
  /\ server.pc # "listen" => Len(printed) = server.num
  /\ server.pc # "listen" => \A k \in 1 .. Len(printed) : printed[k] = <<server.peer, k - 1>>
  /\ server.pc = "conn" => server.read = 0 /\ server.size = 0
  /\ server.pc = "first" => server.read = 0
  /\ server.pc = "next" => server.num > 0
  /\ server.pc # "listen" => server.num <= Count(server.peer)
  /\ server.pc \in {"data", "first", "next"} =>
       server.size - server.read = Left(server.peer, server.num)

SavedInv == LinksOK /\ ClientsOK /\ OnlyData /\ OnlyConfirmed /\ SessionOK

LEMMA InitSaved == Init => SavedInv
  <1> SUFFICES ASSUME Init PROVE SavedInv
    OBVIOUS
  <1>1. up = [c \in Clients |-> Empty] /\ down = [c \in Clients |-> Empty] /\ net \in Networks
    BY DEF Init
  <1>2. LinksOK /\ OnlyData /\ OnlyConfirmed
    BY <1>1, LinkEmpty DEF LinksOK, OnlyData, OnlyConfirmed
  <1>3. client \in [Clients -> [protocol : IF Stream THEN {"tcp"} ELSE Protocols,
                                len : Lengths, pc : {"start"}, attempts : {0}, num : {0}]]
    BY DEF Init
  <1>4. ClientsOK
    <2> DEFINE P == IF Stream THEN {"tcp"} ELSE Protocols
    <2>1. P \subseteq {"tcp", "udp", "udpr"} /\ Lengths \subseteq Nat
      OBVIOUS
    <2> HIDE DEF P
    <2>2. client \in [Clients -> [protocol : P, len : Lengths, pc : {"start"}, attempts : {0}, num : {0}]]
      BY <1>3 DEF P
    <2>3. ASSUME NEW c \in Clients PROVE client[c] \in Client /\ client[c].pc = "start"
      <3>1. client[c] \in [protocol : P, len : Lengths, pc : {"start"}, attempts : {0}, num : {0}]
        BY <2>2
      <3>2. client[c] = [protocol |-> client[c].protocol, len |-> client[c].len, pc |-> client[c].pc,
                         attempts |-> client[c].attempts, num |-> client[c].num]
        BY <3>1
      <3>3. /\ client[c].protocol \in {"tcp", "udp", "udpr"} /\ client[c].len \in Nat
            /\ client[c].pc = "start" /\ client[c].attempts = 0 /\ client[c].num = 0
        BY <2>1, <3>1
      <3> QED BY <3>2, <3>3 DEF Client
    <2> QED BY <2>2, <2>3 DEF ClientsOK, SuccessMeansSaved
  <1>5. SessionOK
    BY DEF Init, SessionOK, Nobody
  <1> QED BY <1>2, <1>4, <1>5 DEF SavedInv

-----------------------------------------------------------------------------
(* What a step does to the links: new holds what old held and, for c, S.    *)

Gains(old, new, c, S) ==
  /\ new \in [Clients -> Links]
  /\ \A d \in Clients : \A m : On(new[d], m) => On(old[d], m) \/ (d = c /\ m \in S)

LEMMA Replaces ==
  ASSUME NEW old \in [Clients -> Links], NEW c \in Clients, NEW l \in Links, NEW S,
         \A m : On(l, m) => On(old[c], m) \/ m \in S
  PROVE  Gains(old, [old EXCEPT ![c] = l], c, S)
  <1> HIDE DEF Links, On
  <1> DEFINE new == [old EXCEPT ![c] = l]
  <1>1. new \in [Clients -> Links]
    OBVIOUS
  <1>2. new[c] = l /\ \A d \in Clients : d # c => new[d] = old[d]
    OBVIOUS
  <1> HIDE DEF new
  <1>3. Gains(old, new, c, S)
    BY <1>1, <1>2 DEF Gains
  <1> QED BY <1>3 DEF new

LEMMA Keeps ==
  ASSUME NEW old \in [Clients -> Links], NEW c, NEW S
  PROVE  Gains(old, old, c, S)
  BY DEF Gains

LEMMA Sends ==
  ASSUME NEW old \in [Clients -> Links], NEW c \in Clients, NEW ps \in Seq(Packets)
  PROVE  /\ Gains(old, [old EXCEPT ![c] = With(@, ps)], c, Range(ps))
         /\ With(old[c], ps) \in Links
  <1>1. /\ With(old[c], ps) \in Links
        /\ \A m : On(With(old[c], ps), m) => On(old[c], m) \/ \E k \in 1 .. Len(ps) : ps[k] = m
    BY LinkWith
  <1>2. DOMAIN ps = 1 .. Len(ps)
    BY LenProperties
  <1>3. \A m : On(With(old[c], ps), m) => On(old[c], m) \/ m \in Range(ps)
    BY <1>1, <1>2 DEF Range
  <1> QED BY <1>1, <1>3, Replaces

LEMMA Takes ==
  ASSUME NEW old \in [Clients -> Links], NEW c \in Clients, NEW m \in Next1(old[c])
  PROVE  /\ Gains(old, [old EXCEPT ![c] = Rest(@)], c, {})
         /\ m \in Packets /\ On(old[c], m)
  <1>1. Rest(old[c]) \in Links /\ \A x : On(Rest(old[c]), x) => On(old[c], x)
    BY LinkRest
  <1>2. m \in Packets /\ On(old[c], m)
    BY LinkNext
  <1> QED BY <1>1, <1>2, Replaces

LEMMA Clears ==
  ASSUME NEW old \in [Clients -> Links], NEW c \in Clients
  PROVE  Gains(old, [old EXCEPT ![c] = Empty], c, {})
  BY LinkEmpty, Replaces

LEMMA GainsMore ==
  ASSUME NEW old, NEW new, NEW c, NEW S, NEW T, Gains(old, new, c, S), S \subseteq T
  PROVE  Gains(old, new, c, T)
  BY DEF Gains

-----------------------------------------------------------------------------
(* The packets of a client's data.                                         *)

LEMMA OneMore ==
  ASSUME ClientsOK, NEW c \in Clients, NEW n \in Nat
  PROVE  /\ Left(c, n) \in Int
         /\ More(c, n) <=> Left(c, n) > 0
         /\ Left(c, n + 1) = Left(c, n) - BUFFER_SIZE
         /\ Left(c, 0) = client[c].len /\ client[c].len \in Nat
  <1>1. client[c].len \in Nat
    BY DEF ClientsOK, Client
  <1>2. (n + 1) * BUFFER_SIZE = n * BUFFER_SIZE + BUFFER_SIZE /\ n * BUFFER_SIZE \in Int
    BY Products
  <1> QED BY <1>1, <1>2 DEF Left, More

LEMMA DataPacket ==
  ASSUME ClientsOK, NEW c \in Clients, NEW n \in Nat
  PROVE  DATA(c, n) \in Packets /\ DATA(c, n).type = "DATA" /\ DATA(c, n).num = n
         /\ DATA(c, n).units = Chunk(c, n)
  <1>1. Chunk(c, n) \in Int
    BY OneMore DEF Chunk
  <1> HIDE DEF Chunk
  <1> QED BY <1>1 DEF DATA, Packet, Packets, PacketType

(* There are as many packets as the data need, the last one not empty. *)
LEMMA Counts ==
  ASSUME ClientsOK, NEW c \in Clients
  PROVE  /\ Count(c) \in Nat
         /\ \A n \in Nat : n < Count(c) => More(c, n)
         /\ \A n \in Nat : More(c, n) => n < Count(c)
         /\ \A n \in Nat : More(c, n) /\ Left(c, n) <= BUFFER_SIZE => Count(c) = n + 1
         /\ client[c].len = 0 => Count(c) = 0
  <1> DEFINE a == client[c].len
             q == Count(c)
             B == BUFFER_SIZE
  <1>1. a \in Nat /\ B \in Nat \ {0}
    BY DEF ClientsOK, Client
  <1>2. q \in Nat /\ q * B <= a + B - 1 /\ a + B - 1 < q * B + B
    BY <1>1, Division DEF Count
  <1>3. a + B - 1 \in Nat
    BY <1>1
  <1>4. ASSUME NEW n \in Nat PROVE (More(c, n) <=> a > n * B) /\ Left(c, n) = a - n * B
    BY DEF More, Left
  <1> HIDE DEF a, q, B
  <1>5. ASSUME NEW n \in Nat, n < q PROVE More(c, n)
    <2>1. (n + 1) * B <= q * B /\ (n + 1) * B = n * B + B /\ n * B \in Int /\ q * B \in Int
      BY <1>1, <1>2, <1>5, Products
    <2> QED BY <2>1, <1>1, <1>2, <1>4
  <1>6. ASSUME NEW n \in Nat, More(c, n) PROVE n < q
    <2>1. CASE q <= n
      <3>1. q * B <= n * B /\ n * B \in Int /\ q * B \in Int
        BY <2>1, <1>1, <1>2, Products
      <3> QED BY <3>1, <1>1, <1>2, <1>4, <1>6
    <2> QED BY <2>1, <1>2
  <1>7. ASSUME NEW n \in Nat, More(c, n), Left(c, n) <= B PROVE q = n + 1
    <2>1. (n + 1) * B = n * B + B /\ n * B \in Int
      BY <1>1, Products
    <2>2. (n + 1) * B <= a + B - 1 /\ a + B - 1 < (n + 1) * B + B
      BY <2>1, <1>1, <1>4, <1>7
    <2> QED BY <2>2, <1>1, <1>2, <1>3, Quotient
  <1>8. ASSUME a = 0 PROVE q = 0
    <2>1. 0 * B = 0
      BY <1>1
    <2>2. 0 * B <= a + B - 1 /\ a + B - 1 < 0 * B + B
      BY <2>1, <1>1, <1>8
    <2> QED BY <2>2, <1>1, <1>2, <1>3, Quotient
  <1> QED BY <1>2, <1>5, <1>6, <1>7, <1>8 DEF a, q, B

LEMMA AllDataPackets ==
  ASSUME ClientsOK, NEW c \in Clients
  PROVE  /\ AllData(c) \in Seq(Packets)
         /\ \A m \in Range(AllData(c)) : m = DATA(c, m.num) /\ More(c, m.num)
  <1>1. Count(c) \in Nat
    BY Counts
  <1>2. ASSUME NEW i \in 1 .. Count(c)
        PROVE  DATA(c, i - 1) \in Packets /\ DATA(c, i - 1).num = i - 1 /\ More(c, i - 1)
    <2>1. i - 1 \in Nat /\ i - 1 < Count(c)
      BY <1>1
    <2> QED BY <2>1, DataPacket, Counts
  <1> HIDE DEF Packets, DATA, More, Count
  <1>3. AllData(c) \in [1 .. Count(c) -> Packets]
    BY <1>2 DEF AllData
  <1>4. AllData(c) \in Seq(Packets)
    BY <1>1, <1>3
  <1>5. ASSUME NEW m \in Range(AllData(c)) PROVE m = DATA(c, m.num) /\ More(c, m.num)
    <2>1. PICK i \in 1 .. Count(c) : m = DATA(c, i - 1)
      BY DEF AllData, Range
    <2> QED BY <1>2, <2>1
  <1> QED BY <1>4, <1>5

(* The last packet printed completes the data. *)
LEMMA Completed ==
  ASSUME ClientsOK, NEW c \in Clients, NEW p \in Seq(Clients \X Nat),
         NEW n \in Nat, Len(p) = n, \A k \in 1 .. Len(p) : p[k] = <<c, k - 1>>,
         n = Count(c)
  PROVE  p = Whole(c)
  <1>1. DOMAIN p = 1 .. n /\ p = [k \in 1 .. n |-> p[k]]
    BY LenProperties
  <1>2. \A k \in 1 .. n : p[k] = <<c, k - 1>>
    OBVIOUS
  <1> QED BY <1>1, <1>2 DEF Whole

-----------------------------------------------------------------------------
(* Steps of a client, which leave the server alone.                        *)

ClientPlaces == {"start", "connected", "conacc", "acc", "rcvd", "done", "failed", "refused"}

(* The client c goes on and nothing of the others changes. *)
Moves(c) ==
  /\ client' \in [Clients -> Client]
  /\ \A d \in Clients : client'[d].len = client[d].len
  /\ \A d \in Clients : d # c => client'[d] = client[d]

LEMMA SameData ==
  ASSUME NEW c \in Clients, Moves(c), NEW d \in Clients
  PROVE  \A n : More(d, n)' = More(d, n) /\ DATA(d, n)' = DATA(d, n) /\ Left(d, n)' = Left(d, n)
  <1>1. client'[d].len = client[d].len
    BY DEF Moves
  <1>2. \A n : More(d, n)' = More(d, n) /\ Left(d, n)' = Left(d, n)
    BY <1>1 DEF More, Left
  <1>3. \A n : Chunk(d, n)' = Chunk(d, n)
    BY <1>2 DEF Chunk
  <1> QED BY <1>2, <1>3 DEF DATA, Packet

LEMMA SameNet ==
  ASSUME net' = net
  PROVE  /\ Links' = Links
         /\ \A d, m : On(up[d], m)' = On(up'[d], m) /\ On(down[d], m)' = On(down'[d], m)
  BY DEF Links, On, Ordered

LEMMA ClientSide ==
  ASSUME SavedInv, NEW c \in Clients, NEW S, Moves(c), net' = net, UNCHANGED session,
         client'[c].pc = "acc" => More(c, client'[c].num),
         client'[c].pc = "done" => c \in saved,
         Gains(up, up', c, S), Gains(down, down', c, {}),
         \A m \in S : m.type = "DATA" => m = DATA(c, m.num) /\ More(c, m.num)
  PROVE  SavedInv'
  <1>1. LinksOK /\ ClientsOK /\ OnlyData /\ OnlyConfirmed /\ SessionOK
    BY DEF SavedInv
  <1>2. server' = server /\ printed' = printed /\ saved' = saved
    BY DEF session
  <1>3. LinksOK'
    <2>1. Links' = Links /\ net' \in Networks
      BY <1>1, SameNet DEF LinksOK
    <2> QED BY <2>1 DEF LinksOK, Gains
  <1>4. ClientsOK'
    <2>1. client' \in [Clients -> Client]
      BY DEF Moves
    <2>2. ASSUME NEW d \in Clients
          PROVE  /\ client'[d].pc = "acc" => More(d, client[d].num)'
                 /\ client'[d].pc = "done" => d \in saved'
      <3>1. client'[d].len = client[d].len
        BY DEF Moves
      <3>2. d # c => client'[d] = client[d]
        BY DEF Moves
      <3>3. /\ client[d].pc = "acc" => More(d, client[d].num)
            /\ client[d].pc = "done" => d \in saved
        BY <1>1 DEF ClientsOK, SuccessMeansSaved
      <3>4. client'[d].pc = "acc" => More(d, client'[d].num)
        BY <3>2, <3>3
      <3>5. client'[d].pc = "done" => d \in saved'
        BY <3>2, <3>3, <1>2
      <3>6. More(d, client[d].num)' = (client'[d].len > client'[d].num * BUFFER_SIZE)
        BY DEF More
      <3>7. More(d, client'[d].num) = (client[d].len > client'[d].num * BUFFER_SIZE)
        BY DEF More
      <3> QED BY <3>1, <3>4, <3>5, <3>6, <3>7
    <2>3. (\A d \in Clients : client[d].pc = "acc" => More(d, client[d].num))'
      BY <2>2
    <2>4. SuccessMeansSaved'
      BY <2>2 DEF SuccessMeansSaved
    <2> QED BY <2>1, <2>3, <2>4 DEF ClientsOK
  <1>5. OnlyData'
    <2> SUFFICES ASSUME NEW d \in Clients, NEW m, On(up[d], m)', m.type = "DATA"
                 PROVE  (m = DATA(d, m.num))' /\ More(d, m.num)'
      BY DEF OnlyData
    <2>1. On(up'[d], m)
      BY SameNet
    <2>2. On(up[d], m) \/ (d = c /\ m \in S)
      BY <2>1 DEF Gains
    <2>3. m = DATA(d, m.num) /\ More(d, m.num)
      BY <2>2, <1>1 DEF OnlyData
    <2>4. DATA(d, m.num)' = DATA(d, m.num) /\ More(d, m.num)' = More(d, m.num)
      BY SameData
    <2> QED BY <2>3, <2>4
  <1>6. OnlyConfirmed'
    <2> SUFFICES ASSUME NEW d \in Clients, NEW m, On(down[d], m)', m.type = "RCVD"
                 PROVE  d \in saved'
      BY DEF OnlyConfirmed
    <2>1. On(down'[d], m)
      BY SameNet
    <2>2. On(down[d], m)
      BY <2>1 DEF Gains
    <2> QED BY <2>2, <1>1, <1>2 DEF OnlyConfirmed
  <1>7. SessionOK'
    <2>1. server.pc # "listen" => /\ Left(server.peer, server.num)' = Left(server.peer, server.num)
                                  /\ Count(server.peer)' = Count(server.peer)
      <3>1. server.pc # "listen" => server.peer \in Clients
        BY <1>1 DEF SessionOK
      <3>2. server.pc # "listen" => client'[server.peer].len = client[server.peer].len
        BY <3>1 DEF Moves
      <3> QED BY <1>2, <3>2 DEF Left, Count
    <2> QED BY <1>1, <1>2, <2>1 DEF SessionOK
  <1> QED BY <1>3, <1>4, <1>5, <1>6, <1>7 DEF SavedInv

LEMMA Waits ==
  ASSUME ClientsOK, NEW c \in Clients, NEW pc \in ClientPlaces, NEW num \in Nat,
         ClientWaits(c, pc, num)
  PROVE  Moves(c) /\ client'[c].pc = pc /\ client'[c].num = num
  <1>1. client \in [Clients -> Client] /\ client[c] \in Client
    BY DEF ClientsOK
  <1> DEFINE r == [[[client[c] EXCEPT !.pc = pc] EXCEPT !.num = num] EXCEPT !.attempts = 0]
  <1>2. r \in Client /\ r.len = client[c].len /\ r.pc = pc /\ r.num = num
    BY <1>1 DEF Client, ClientPlaces
  <1>3. client' = [client EXCEPT ![c] = r]
    BY <1>1 DEF ClientWaits
  <1> HIDE DEF r
  <1>4. client'[c] = r /\ client' \in [Clients -> Client]
        /\ \A d \in Clients : d # c => client'[d] = client[d]
    BY <1>1, <1>2, <1>3
  <1>5. \A d \in Clients : client'[d].len = client[d].len
    BY <1>2, <1>4
  <1> QED BY <1>2, <1>4, <1>5 DEF Moves

LEMMA TriesAgain ==
  ASSUME ClientsOK, NEW c \in Clients, client' = [client EXCEPT ![c].attempts = @ + 1]
  PROVE  Moves(c) /\ client'[c].pc = client[c].pc /\ client'[c].num = client[c].num
  <1> DEFINE r == [client[c] EXCEPT !.attempts = @ + 1]
  <1>0. client \in [Clients -> Client] /\ client[c] \in Client
    BY DEF ClientsOK
  <1>1. r \in Client /\ r.len = client[c].len /\ r.pc = client[c].pc /\ r.num = client[c].num
    BY <1>0 DEF Client
  <1>2. client' = [client EXCEPT ![c] = r]
    BY <1>0
  <1> HIDE DEF r
  <1>3. /\ client'[c] = r /\ client' \in [Clients -> Client]
        /\ \A d \in Clients : d # c => client'[d] = client[d]
    BY <1>0, <1>1, <1>2
  <1>4. \A d \in Clients : client'[d].len = client[d].len
    BY <1>1, <1>3
  <1> QED BY <1>1, <1>3, <1>4 DEF Moves

LEMMA OnePacket ==
  ASSUME NEW p \in Packets
  PROVE  <<p>> \in Seq(Packets) /\ Range(<<p>>) = {p}
  <1>1. Range(<<p>>) = {p}
    BY DEF Range
  <1> QED BY <1>1

LEMMA SendsOne ==
  ASSUME NEW old \in [Clients -> Links], NEW c \in Clients, NEW p \in Packets, NEW new,
         new = [old EXCEPT ![c] = With(@, <<p>>)]
  PROVE  Gains(old, new, c, {p})
  <1>1. <<p>> \in Seq(Packets) /\ Range(<<p>>) = {p}
    BY OnePacket
  <1> DEFINE ps == <<p>>
  <1> HIDE DEF ps
  <1>2. ps \in Seq(Packets) /\ Range(ps) = {p} /\ new = [old EXCEPT ![c] = With(@, ps)]
    BY <1>1 DEF ps
  <1>3. Gains(old, [old EXCEPT ![c] = With(@, ps)], c, Range(ps))
    BY <1>2, Sends
  <1> QED BY <1>2, <1>3

LEMMA NoPacket == <<>> \in Seq(Packets) /\ Range(<<>>) = {}
  <1>1. Range(<<>>) = {}
    BY DEF Range
  <1> QED BY <1>1

(* The packets without data. *)
LEMMA Signs ==
  /\ CONN \in Packets /\ CONN.type = "CONN"
  /\ CONACC \in Packets /\ CONACC.type = "CONACC"
  /\ SYN \in Packets /\ SYN.type = "SYN"
  /\ FIN \in Packets /\ FIN.type = "FIN"
  /\ CONRJT \in Packets /\ CONRJT.type = "CONRJT"
  /\ RCVD \in Packets /\ RCVD.type = "RCVD"
  /\ \A n \in Nat : ACC(n) \in Packets /\ ACC(n).type = "ACC"
  /\ \A n \in Nat : RJT(n) \in Packets /\ RJT(n).type = "RJT"
  BY DEF CONN, CONACC, SYN, FIN, CONRJT, RCVD, ACC, RJT, Packet, Packets, PacketType

LEMMA Closes ==
  Closing \in Seq(Packets) /\ \A m \in Range(Closing) : m.type = "FIN"
  BY Signs, OnePacket, NoPacket DEF Closing

LEMMA Exits ==
  ASSUME SavedInv, NEW c \in Clients, NEW pc \in {"done", "failed", "refused"},
         pc = "done" => c \in saved,
         Exit(c, pc), net' = net, UNCHANGED session
  PROVE  SavedInv'
  <1>1. LinksOK /\ ClientsOK
    BY DEF SavedInv
  <1>2. Moves(c) /\ client'[c].pc = pc
    <2>1. ClientWaits(c, pc, 0) /\ pc \in ClientPlaces /\ 0 \in Nat
      BY DEF Exit, ClientPlaces
    <2> QED BY <1>1, <2>1, Waits
  <1>3. Gains(down, down', c, {})
    BY <1>1, Clears DEF Exit, LinksOK
  <1>4. Gains(up, up', c, Range(Closing))
    BY <1>1, Closes, Sends DEF Exit, ClientSends, LinksOK
  <1>5. \A m \in Range(Closing) : m.type # "DATA"
    BY Closes
  <1>6. client'[c].pc # "acc"
    BY <1>2
  <1> QED BY <1>2, <1>3, <1>4, <1>5, <1>6, ClientSide

LEMMA SendsFrom ==
  ASSUME SavedInv, NEW c \in Clients, NEW n \in Nat, SendFrom(c, n),
         Gains(down, down', c, {}), net' = net, UNCHANGED session
  PROVE  SavedInv'
  <1>1. LinksOK /\ ClientsOK /\ up \in [Clients -> Links]
    BY DEF SavedInv, LinksOK
  <1>2. CASE More(c, n) /\ ClientWaits(c, "acc", n) /\ ClientSends(c, <<DATA(c, n)>>)
    <2>1. Moves(c) /\ client'[c].pc = "acc" /\ client'[c].num = n
      BY <1>1, <1>2, Waits DEF ClientPlaces
    <2>2. DATA(c, n) \in Packets /\ DATA(c, n).num = n
      BY <1>1, DataPacket
    <2>3. Gains(up, up', c, {DATA(c, n)})
      BY <1>1, <1>2, <2>2, SendsOne DEF ClientSends
    <2>4. \A m \in {DATA(c, n)} : m = DATA(c, m.num) /\ More(c, m.num)
      BY <1>2, <2>2
    <2> QED BY <1>2, <2>1, <2>3, <2>4, ClientSide
  <1>3. CASE ClientWaits(c, "rcvd", 0) /\ UNCHANGED up
    <2>1. Moves(c) /\ client'[c].pc = "rcvd"
      BY <1>1, <1>3, Waits DEF ClientPlaces
    <2>2. Gains(up, up', c, {})
      BY <1>1, <1>3, Keeps
    <2> QED BY <2>1, <2>2, ClientSide
  <1> QED BY <1>2, <1>3 DEF SendFrom

LEMMA ClientStepSaved ==
  ASSUME SavedInv, NEW c \in Clients, ClientStep(c)
  PROVE  SavedInv'
  <1>1. /\ LinksOK /\ ClientsOK /\ OnlyConfirmed
        /\ up \in [Clients -> Links] /\ down \in [Clients -> Links]
        /\ client[c] \in Client
    BY DEF SavedInv, LinksOK, ClientsOK
  <1>2. ASSUME ClientConnects(c) PROVE SavedInv'
    <2>1. Moves(c) /\ client'[c].pc = "connected"
      BY <1>1, <1>2, Waits DEF ClientConnects, ClientPlaces
    <2>2. Gains(up, up', c, {SYN}) /\ SYN.type # "DATA"
      BY <1>1, <1>2, Signs, SendsOne DEF ClientConnects, ClientSends
    <2>3. Gains(down, down', c, {}) /\ net' = net /\ UNCHANGED session
      BY <1>1, <1>2, Keeps DEF ClientConnects, network
    <2> QED BY <2>1, <2>2, <2>3, ClientSide
  <1>3. ASSUME ClientStart(c) PROVE SavedInv'
    <2>1. Moves(c) /\ client'[c].pc = "conacc"
      BY <1>1, <1>3, Waits DEF ClientStart, ClientPlaces
    <2>2. Gains(up, up', c, {CONN}) /\ CONN.type # "DATA"
      BY <1>1, <1>3, Signs, SendsOne DEF ClientStart, ClientSends
    <2>3. Gains(down, down', c, {}) /\ net' = net /\ UNCHANGED session
      BY <1>1, <1>3, Keeps DEF ClientStart, network
    <2> QED BY <2>1, <2>2, <2>3, ClientSide
  <1>4. ASSUME ConaccArrives(c) PROVE SavedInv'
    <2>1. Gains(down, down', c, {}) /\ net' = net /\ UNCHANGED session
      BY <1>1, <1>4, Takes DEF ConaccArrives, Arrives, Received, network
    <2>2. ASSUME ClientWaits(c, "rcvd", 0), ClientSends(c, AllData(c)) PROVE SavedInv'
      <3>1. Moves(c) /\ client'[c].pc = "rcvd"
        BY <1>1, <2>2, Waits DEF ClientPlaces
      <3>2. Gains(up, up', c, Range(AllData(c)))
        BY <1>1, <2>2, AllDataPackets, Sends DEF ClientSends
      <3>3. \A m \in Range(AllData(c)) : m = DATA(c, m.num) /\ More(c, m.num)
        BY <1>1, AllDataPackets
      <3> QED BY <2>1, <3>1, <3>2, <3>3, ClientSide
    <2>3. ASSUME SendFrom(c, 0) PROVE SavedInv'
      BY <2>1, <2>3, SendsFrom
    <2> QED BY <1>4, <2>2, <2>3 DEF ConaccArrives
  <1>5. ASSUME AccArrives(c) PROVE SavedInv'
    <2>1. Gains(down, down', c, {}) /\ net' = net /\ UNCHANGED session
      BY <1>1, <1>5, Takes DEF AccArrives, Arrives, Received, network
    <2>2. client[c].num + 1 \in Nat /\ SendFrom(c, client[c].num + 1)
      BY <1>1, <1>5 DEF AccArrives, Client
    <2> QED BY <2>1, <2>2, SendsFrom
  <1>6. ASSUME ClientIgnores(c) PROVE SavedInv'
    <2>1. Gains(down, down', c, {}) /\ net' = net /\ UNCHANGED session
      BY <1>1, <1>6, Takes DEF ClientIgnores, Received, network
    <2>2. Moves(c) /\ client'[c].pc = client[c].pc /\ client'[c].num = client[c].num
      BY <1>1, <1>6 DEF ClientIgnores, Moves, ClientsOK
    <2>3. Gains(up, up', c, {})
      BY <1>1, <1>6, Keeps DEF ClientIgnores
    <2>4. /\ client'[c].pc = "acc" => More(c, client'[c].num)
          /\ client'[c].pc = "done" => c \in saved
      BY <1>1, <2>2 DEF ClientsOK, SuccessMeansSaved
    <2> QED BY <2>1, <2>2, <2>3, <2>4, ClientSide
  <1>7. ASSUME RcvdArrives(c) PROVE SavedInv'
    <2>1. RCVD \in Next1(down[c]) /\ Exit(c, "done") /\ net' = net /\ UNCHANGED session
      BY <1>7 DEF RcvdArrives, Arrives, network
    <2>2. c \in saved
      BY <1>1, <2>1, LinkNext, Signs DEF OnlyConfirmed
    <2> QED BY <2>1, <2>2, Exits
  <1>8. ASSUME ConrjtArrives(c) PROVE SavedInv'
    BY <1>8, Exits DEF ConrjtArrives, network
  <1>9. ASSUME ClientFails(c) PROVE SavedInv'
    BY <1>9, Exits DEF ClientFails, network
  <1>10. ASSUME ClientTimesOut(c) PROVE SavedInv'
    <2>1. net' = net /\ UNCHANGED session
      BY <1>10 DEF ClientTimesOut, Blames
    <2>2. CASE Exit(c, "failed")
      BY <2>1, <2>2, Exits
    <2>3. ASSUME Retransmits(c), client' = [client EXCEPT ![c].attempts = @ + 1], UNCHANGED down,
                 ClientSends(c, <<IF client[c].pc = "conacc" THEN CONN ELSE DATA(c, client[c].num)>>)
          PROVE  SavedInv'
      <3> DEFINE p == IF client[c].pc = "conacc" THEN CONN ELSE DATA(c, client[c].num)
      <3>1. Moves(c) /\ client'[c].pc = client[c].pc /\ client'[c].num = client[c].num
        BY <1>1, <2>3, TriesAgain
      <3>2. client[c].num \in Nat /\ client[c].pc \in {"conacc", "acc"}
        BY <1>1, <2>3 DEF Client, Retransmits
      <3>3. client[c].pc = "acc" => More(c, client[c].num)
        BY <1>1 DEF ClientsOK
      <3>4. p \in Packets /\ (p.type = "DATA" => p = DATA(c, p.num) /\ More(c, p.num))
        BY <1>1, <3>2, <3>3, Signs, DataPacket
      <3>5. up' = [up EXCEPT ![c] = With(@, <<p>>)]
        BY <2>3 DEF ClientSends
      <3> HIDE DEF p
      <3>6. Gains(up, up', c, {p})
        BY <1>1, <3>4, <3>5, SendsOne
      <3>7. Gains(down, down', c, {})
        BY <1>1, <2>3, Keeps
      <3>8. client'[c].pc = "acc" => More(c, client'[c].num)
        BY <3>1, <3>3
      <3>9. client'[c].pc # "done"
        BY <3>1, <3>2
      <3>10. \A m \in {p} : m.type = "DATA" => m = DATA(c, m.num) /\ More(c, m.num)
        BY <3>4
      <3> QED BY <2>1, <3>1, <3>6, <3>7, <3>8, <3>9, <3>10, ClientSide
    <2> QED BY <1>10, <2>2, <2>3 DEF ClientTimesOut
  <1> QED BY <1>2, <1>3, <1>4, <1>5, <1>6, <1>7, <1>8, <1>9, <1>10 DEF ClientStep

-----------------------------------------------------------------------------
(* Steps of the server and the network, which leave the clients alone.     *)

LEMMA ServerSide ==
  ASSUME SavedInv, NEW c \in Clients, NEW S, client' = client, net' = net,
         Gains(up, up', c, {}), Gains(down, down', c, S),
         \A m \in S : m.type = "RCVD" => c \in saved',
         saved \subseteq saved', SessionOK'
  PROVE  SavedInv'
  <1>1. LinksOK /\ ClientsOK /\ OnlyData /\ OnlyConfirmed
    BY DEF SavedInv
  <1>2. \A d, n : More(d, n)' = More(d, n) /\ DATA(d, n)' = DATA(d, n)
    BY DEF More, DATA, Packet, Chunk, Left
  <1>3. LinksOK'
    <2>1. Links' = Links /\ net' \in Networks
      BY <1>1, SameNet DEF LinksOK
    <2> QED BY <2>1 DEF LinksOK, Gains
  <1>4. ClientsOK'
    BY <1>1 DEF ClientsOK, SuccessMeansSaved, More
  <1>5. OnlyData'
    <2> SUFFICES ASSUME NEW d \in Clients, NEW m, On(up[d], m)', m.type = "DATA"
                 PROVE  (m = DATA(d, m.num))' /\ More(d, m.num)'
      BY DEF OnlyData
    <2>1. On(up[d], m)
      BY SameNet DEF Gains
    <2>2. m = DATA(d, m.num) /\ More(d, m.num)
      BY <2>1, <1>1 DEF OnlyData
    <2> QED BY <2>2, <1>2
  <1>6. OnlyConfirmed'
    <2> SUFFICES ASSUME NEW d \in Clients, NEW m, On(down[d], m)', m.type = "RCVD"
                 PROVE  d \in saved'
      BY DEF OnlyConfirmed
    <2>1. On(down'[d], m)
      BY SameNet
    <2>2. On(down[d], m) \/ (d = c /\ m \in S)
      BY <2>1 DEF Gains
    <2> QED BY <2>2, <1>1 DEF OnlyConfirmed
  <1> QED BY <1>3, <1>4, <1>5, <1>6 DEF SavedInv

LEMMA Answers ==
  ASSUME LinksOK, NEW c \in Clients, NEW ps \in Seq(Packets), ServerSends(c, ps)
  PROVE  Gains(down, down', c, Range(ps))
  <1>1. down \in [Clients -> Links]
    BY DEF LinksOK
  <1>2. CASE Ended(c)
    <2>1. down' = [down EXCEPT ![c] = down[c]]
      BY <1>2 DEF ServerSends
    <2>2. down' = down
      BY <1>1, <2>1
    <2> QED BY <1>1, <2>2, Keeps
  <1>3. CASE ~Ended(c)
    <2>1. down' = [down EXCEPT ![c] = With(@, ps)]
      BY <1>3 DEF ServerSends
    <2> QED BY <1>1, <2>1, Sends
  <1> QED BY <1>2, <1>3

LEMMA AnswersOne ==
  ASSUME LinksOK, NEW c \in Clients, NEW p \in Packets, ServerSends(c, <<p>>)
  PROVE  Gains(down, down', c, {p})
  <1>1. <<p>> \in Seq(Packets) /\ Range(<<p>>) = {p}
    BY OnePacket
  <1> DEFINE ps == <<p>>
  <1> HIDE DEF ps
  <1>2. ps \in Seq(Packets) /\ Range(ps) = {p} /\ ServerSends(c, ps)
    BY <1>1 DEF ps
  <1> QED BY <1>2, Answers

(* The server listens again. *)
LEMMA ListensAgain ==
  ASSUME server' = Listening, printed' = <<>>
  PROVE  SessionOK'
  BY DEF SessionOK, Listening, Nobody

LEMMA Aborts ==
  ASSUME SavedInv, NEW c \in Clients, NEW ps \in Seq(Packets), Abort(c, ps),
         \A m \in Range(ps) : m.type # "RCVD",
         client' = client, net' = net, Gains(up, up', c, {})
  PROVE  SavedInv'
  <1>1. LinksOK
    BY DEF SavedInv
  <1>2. SessionOK' /\ saved' = saved /\ Gains(down, down', c, Range(ps))
    BY <1>1, ListensAgain, Answers DEF Abort
  <1> QED BY <1>2, ServerSide

LEMMA Finishes ==
  ASSUME SavedInv, NEW c \in Clients, NEW all, NEW ps \in Seq(Packets), Finish(c, all, ps),
         all = Whole(c), client' = client, net' = net, Gains(up, up', c, {})
  PROVE  SavedInv'
  <1>1. LinksOK
    BY DEF SavedInv
  <1>2. SessionOK' /\ saved' = saved \cup {c}
    BY ListensAgain DEF Finish
  <1>3. Append(ps, RCVD) \in Seq(Packets)
    BY Signs
  <1>4. Gains(down, down', c, Range(Append(ps, RCVD)))
    BY <1>1, <1>3, Answers DEF Finish
  <1>5. c \in saved'
    BY <1>2
  <1> QED BY <1>2, <1>4, <1>5, ServerSide

(* The packet the server accepts is the next one of its client's data. *)
LEMMA GoodPacket ==
  ASSUME SavedInv, NEW c \in Clients, server.peer = c, NEW m \in Next1(up[c]),
         OfSession(m), Good(m)
  PROVE  /\ m = DATA(c, server.num) /\ m.num = server.num /\ m.units = Chunk(c, server.num)
         /\ server.num \in Nat /\ More(c, server.num)
         /\ server.pc \in {"data", "first", "next"}
  <1>1. LinksOK /\ ClientsOK /\ OnlyData /\ SessionOK
    BY DEF SavedInv
  <1>2. m \in Packets /\ On(up[c], m)
    BY <1>1, LinkNext DEF LinksOK
  <1>3. m.type = "DATA" /\ m.num = server.num /\ ~TooLong(m)
    BY DEF Good
  <1>4. server.num \in Nat /\ server.pc \in {"conn", "data", "first", "next"}
    BY <1>1 DEF SessionOK, OfSession
  <1>5. m = DATA(c, server.num) /\ More(c, server.num)
    BY <1>1, <1>2, <1>3 DEF OnlyData
  <1>6. m.units = Chunk(c, server.num)
    BY <1>1, <1>4, <1>5, DataPacket
  <1>7. server.pc # "conn"
    <2> SUFFICES ASSUME server.pc = "conn" PROVE FALSE
      OBVIOUS
    <2>1. server.read = 0 /\ server.size = 0
      BY <1>1 DEF SessionOK
    <2>2. m.units \in Int /\ m.units > 0
      <3>1. Left(c, server.num) \in Int /\ Left(c, server.num) > 0
        BY <1>1, <1>4, <1>5, OneMore
      <3> QED BY <1>6, <3>1 DEF Chunk
    <2> QED BY <1>3, <2>1, <2>2 DEF TooLong
  <1> QED BY <1>3, <1>4, <1>5, <1>6, <1>7

LEMMA AcceptSaved ==
  ASSUME SavedInv, NEW c \in Clients, Accept(c)
  PROVE  SavedInv'
  <1>1. LinksOK /\ ClientsOK /\ SessionOK
    BY DEF SavedInv
  <1>2. server.peer = c /\ client' = client /\ net' = net
    BY DEF Accept, network
  <1> DEFINE n == server.num
             all == Append(printed, <<c, n>>)
             room == server.size - server.read
  <1>3. PICK m \in Next1(up[c]) :
          /\ OfSession(m) /\ Good(m)
          /\ \/ /\ Counted(m).read = Counted(m).size
                /\ Finish(c, Append(printed, <<c, m.num>>), Acks(m))
             \/ /\ Counted(m).read # Counted(m).size
                /\ server' = Counted(m) /\ printed' = Append(printed, <<c, m.num>>)
                /\ ServerSends(c, Acks(m))
                /\ UNCHANGED saved
    BY DEF Accept
  <1>4. Gains(up, up', c, {})
    BY <1>1, <1>3, Takes DEF LinksOK, Accept, ReceivedFrom
  <1>5. /\ m.num = n /\ m.units = Chunk(c, n) /\ n \in Nat /\ More(c, n)
        /\ server.pc \in {"data", "first", "next"}
    BY <1>2, <1>3, GoodPacket
  <1>6. Acks(m) \in Seq(Packets) /\ \A p \in Range(Acks(m)) : p.type # "RCVD"
    <2>1. ACC(m.num) \in Packets /\ ACC(m.num).type = "ACC"
      BY <1>5, Signs
    <2>2. <<ACC(m.num)>> \in Seq(Packets) /\ Range(<<ACC(m.num)>>) = {ACC(m.num)}
      BY <2>1, OnePacket
    <2> QED BY <2>1, <2>2, NoPacket DEF Acks
  <1>7. /\ printed \in Seq(Clients \X Nat) /\ Len(printed) = n
        /\ \A k \in 1 .. Len(printed) : printed[k] = <<c, k - 1>>
        /\ server.read \in Int /\ server.size \in Int /\ room = Left(c, n)
        /\ server.pc = "first" => server.read = 0
    BY <1>1, <1>2, <1>5 DEF SessionOK
  <1>8. /\ Left(c, n) \in Int /\ Left(c, n) > 0 /\ Left(c, n + 1) = Left(c, n) - BUFFER_SIZE
        /\ m.units = (IF Left(c, n) > BUFFER_SIZE THEN BUFFER_SIZE ELSE Left(c, n))
    BY <1>1, <1>5, OneMore DEF Chunk
  <1>9. /\ all \in Seq(Clients \X Nat) /\ Len(all) = n + 1
        /\ \A k \in 1 .. Len(all) : all[k] = <<c, k - 1>>
    <2>1. <<c, n>> \in Clients \X Nat
      BY <1>5
    <2>2. all \in Seq(Clients \X Nat) /\ Len(all) = n + 1
      BY <2>1, <1>7
    <2>3. ASSUME NEW k \in 1 .. n + 1 PROVE all[k] = <<c, k - 1>>
      <3>1. CASE k = n + 1
        BY <1>5, <1>7, <3>1
      <3>2. CASE k # n + 1
        <4>1. k \in 1 .. Len(printed)
          BY <3>2, <1>5, <1>7
        <4>2. all[k] = printed[k]
          BY <4>1, <1>7
        <4> QED BY <4>1, <4>2, <1>7
      <3> QED BY <3>1, <3>2
    <2> QED BY <2>2, <2>3
  <1> HIDE DEF n, all, room
  <1>10. CASE Counted(m).read = Counted(m).size /\ Finish(c, Append(printed, <<c, m.num>>), Acks(m))
    <2>1. room = m.units
      <3>1. CASE server.pc = "first"
        <4>1. Counted(m).read = 0 /\ Counted(m).size = server.size - m.units /\ server.read = 0
          BY <1>1, <1>7, <3>1 DEF Counted, SessionOK
        <4>2. m.units \in Int /\ server.size \in Int
          BY <1>7, <1>8
        <4>3. 0 = server.size - m.units /\ server.read = 0
          BY <1>10, <4>1
        <4> QED BY ONLY <4>2, <4>3 DEF room
      <3>2. CASE server.pc # "first"
        <4>1. Counted(m).read = server.read + m.units /\ Counted(m).size = server.size
          BY <1>1, <3>2 DEF Counted, SessionOK
        <4>2. m.units \in Int /\ server.size \in Int /\ server.read \in Int
          BY <1>7, <1>8
        <4>3. server.read + m.units = server.size
          BY <1>10, <4>1
        <4> QED BY ONLY <4>2, <4>3 DEF room
      <3> QED BY <3>1, <3>2
    <2>2. Left(c, n) <= BUFFER_SIZE
      <3>1. Left(c, n) = m.units /\ Left(c, n) \in Int /\ BUFFER_SIZE \in Int
        BY <2>1, <1>7, <1>8
      <3>2. m.units = (IF Left(c, n) > BUFFER_SIZE THEN BUFFER_SIZE ELSE Left(c, n))
        BY <1>8
      <3> QED BY ONLY <3>1, <3>2
    <2>3. n + 1 = Count(c)
      BY <2>2, <1>1, <1>5, Counts
    <2>4. n + 1 \in Nat
      BY <1>5
    <2>5. all = Whole(c)
      BY <2>3, <2>4, <1>1, <1>9, Completed
    <2>6. Finish(c, all, Acks(m))
      BY <1>5, <1>10 DEF all
    <2> QED BY <2>5, <2>6, <1>2, <1>4, <1>6, Finishes
  <1>11. CASE /\ Counted(m).read # Counted(m).size
              /\ server' = Counted(m) /\ printed' = Append(printed, <<c, m.num>>)
              /\ ServerSends(c, Acks(m))
              /\ UNCHANGED saved
    <2>1. printed' = all
      BY <1>5, <1>11 DEF all
    <2>2. /\ server'.peer = c /\ server'.num = n + 1 /\ server'.pc \in {"data", "next"}
          /\ server'.attempts = 0 /\ server'.read \in Int /\ server'.size \in Int
          /\ server'.size - server'.read = room - m.units
          /\ room # m.units
      <3>1. server.pc # "first" => Counted(m).pc = server.pc /\ Counted(m).size = server.size
                                  /\ Counted(m).read = server.read + m.units
        BY <1>1 DEF SessionOK, Counted
      <3>2. server.pc = "first" => Counted(m).pc = "next" /\ Counted(m).size = server.size - m.units
                                  /\ Counted(m).read = 0
        BY <1>1 DEF SessionOK, Counted
      <3>3. Counted(m).peer = c /\ Counted(m).num = n + 1 /\ Counted(m).attempts = 0
        BY <1>1, <1>2, <1>5 DEF SessionOK, Counted
      <3>4. m.units \in Int
        BY <1>8
      <3>5. server' = Counted(m) /\ Counted(m).read # Counted(m).size
        BY <1>11
      <3>6. CASE server.pc = "first"
        <4>1. /\ server'.peer = c /\ server'.num = n + 1 /\ server'.attempts = 0 /\ server'.pc = "next"
              /\ server'.size = server.size - m.units /\ server'.read = 0 /\ server.read = 0
              /\ server.size - m.units # 0
          BY <3>2, <3>3, <3>5, <3>6, <1>7
        <4> QED BY ONLY <4>1, <3>4, <1>7 DEF room
      <3>7. CASE server.pc # "first"
        BY ONLY <3>1, <3>3, <3>4, <3>5, <3>7, <1>5, <1>7 DEF room
      <3> QED BY <3>6, <3>7
    <2>3. Left(c, n + 1) = room - m.units
      BY <2>2, <1>7, <1>8
    <2>4. Left(server.peer, server.num)' = Left(c, n + 1) /\ Count(server.peer)' = Count(c)
      BY <2>2, <1>2 DEF Left, Count
    <2>8. n + 1 <= Count(c) /\ n + 1 > 0 /\ Count(c) \in Nat
      BY <1>1, <1>5, Counts
    <2>5. server' \in [pc : {"listen", "conn", "data", "first", "next"}, peer : Clients \cup {Nobody},
                       attempts : Nat, num : Nat, read : Int, size : Int]
      <3>1. server' = [pc |-> server'.pc, peer |-> server'.peer, attempts |-> server'.attempts,
                       num |-> server'.num, read |-> server'.read, size |-> server'.size]
        BY <1>1, <1>11 DEF SessionOK, Counted
      <3>2. n + 1 \in Nat
        BY <1>5
      <3> QED BY <3>1, <3>2, <2>2
    <2>6. SessionOK'
      BY <2>1, <2>2, <2>3, <2>4, <2>5, <2>8, <1>9 DEF SessionOK
    <2>7. Gains(down, down', c, Range(Acks(m)))
      BY <1>1, <1>6, <1>11, Answers
    <2> QED BY <2>6, <2>7, <1>2, <1>4, <1>6, <1>11, ServerSide
  <1> QED BY <1>3, <1>10, <1>11

LEMMA OpenSaved ==
  ASSUME SavedInv, NEW c \in Clients, Open(c)
  PROVE  SavedInv'
  <1>1. LinksOK /\ ClientsOK /\ SessionOK
    BY DEF SavedInv
  <1>2. client' = client /\ net' = net
    BY DEF Open, network
  <1>3. Gains(up, up', c, {})
    BY <1>1, Takes DEF LinksOK, Open, ReceivedFrom
  <1>4. ASSUME client[c].len = 0, Finish(c, <<>>, <<CONACC>>)
        PROVE  SavedInv'
    <2>1. Count(c) = 0
      BY <1>1, <1>4, Counts
    <2>2. <<>> = Whole(c)
      BY <2>1, Completed, <1>1 DEF Whole
    <2>3. <<CONACC>> \in Seq(Packets)
      BY Signs, OnePacket
    <2> QED BY <1>2, <1>3, <1>4, <2>2, <2>3, Finishes
  <1>5. ASSUME server' = [Listening EXCEPT !.peer = c, !.size = client[c].len,
                            !.pc = IF client[c].protocol = "udpr" THEN "first" ELSE "data"],
               ServerSends(c, <<CONACC>>), UNCHANGED <<printed, saved>>
        PROVE  SavedInv'
    <2>1. client[c].len \in Nat /\ client[c].len = Left(c, 0)
      BY <1>1, OneMore
    <2>2. printed = <<>>
      BY <1>1 DEF Open, SessionOK
    <2>3. /\ server'.pc \in {"data", "first"} /\ server'.peer = c /\ server'.attempts = 0
          /\ server'.num = 0 /\ server'.read = 0 /\ server'.size = client[c].len
          /\ server' = [pc |-> server'.pc, peer |-> c, attempts |-> 0, num |-> 0, read |-> 0,
                        size |-> client[c].len]
      BY <1>5 DEF Listening
    <2>4. Left(server.peer, server.num)' = Left(c, 0) /\ Count(server.peer)' = Count(c)
      BY <2>3, <1>2 DEF Left, Count
    <2>8. 0 <= Count(c)
      BY <1>1, Counts
    <2>5. server' \in [pc : {"listen", "conn", "data", "first", "next"}, peer : Clients \cup {Nobody},
                       attempts : Nat, num : Nat, read : Int, size : Int]
      BY <2>1, <2>3
    <2>6. SessionOK'
      BY <2>1, <2>2, <2>3, <2>4, <2>5, <2>8, <1>5 DEF SessionOK
    <2>7. Gains(down, down', c, {CONACC}) /\ CONACC.type # "RCVD"
      BY <1>1, <1>5, AnswersOne, Signs
    <2> QED BY <2>6, <2>7, <1>2, <1>3, <1>5, ServerSide
  <1> QED BY <1>4, <1>5 DEF Open

LEMMA ServerStepSaved ==
  ASSUME SavedInv, NEW c \in Clients, ServerStep(c)
  PROVE  SavedInv'
  <1>1. LinksOK /\ ClientsOK /\ SessionOK /\ up \in [Clients -> Links] /\ down \in [Clients -> Links]
    BY DEF SavedInv, LinksOK
  <1>2. ASSUME AcceptConnection(c) PROVE SavedInv'
    <2>1. client' = client /\ net' = net /\ saved' = saved /\ printed' = <<>> /\ printed = <<>>
      BY <1>1, <1>2 DEF AcceptConnection, network, SessionOK
    <2>2. Gains(up, up', c, {}) /\ Gains(down, down', c, {})
      BY <1>1, <1>2, Takes, Keeps DEF AcceptConnection, ReceivedFrom
    <2>3. server' = [pc |-> "conn", peer |-> c, attempts |-> 0, num |-> 0, read |-> 0, size |-> 0]
      BY <1>2 DEF AcceptConnection, Listening
    <2>4. Count(server.peer)' = Count(c) /\ 0 <= Count(c)
      BY <1>1, <2>1, <2>3, Counts DEF Count
    <2>5. SessionOK'
      BY <2>1, <2>3, <2>4 DEF SessionOK
    <2> QED BY <2>1, <2>2, <2>5, ServerSide
  <1>3. ASSUME Reject(c) PROVE SavedInv'
    <2>1. client' = client /\ net' = net /\ Abort(c, IF Stream THEN <<FIN>> ELSE <<RJT(server.num)>>)
      BY <1>3 DEF Reject, network
    <2>2. Gains(up, up', c, {})
      BY <1>1, <1>3, Takes DEF Reject, ReceivedFrom
    <2>3. server.num \in Nat
      BY <1>1 DEF SessionOK
    <2> DEFINE p == IF Stream THEN FIN ELSE RJT(server.num)
    <2>4. p \in Packets /\ p.type # "RCVD" /\ Abort(c, <<p>>)
      BY <2>1, <2>3, Signs
    <2> HIDE DEF p
    <2>5. <<p>> \in Seq(Packets) /\ Range(<<p>>) = {p}
      BY <2>4, OnePacket
    <2>6. \A m \in Range(<<p>>) : m.type # "RCVD"
      BY <2>4, <2>5
    <2> QED BY <2>1, <2>2, <2>4, <2>5, <2>6, Aborts
  <1>4. ASSUME RefuseOther(c) PROVE SavedInv'
    <2>1. client' = client /\ net' = net /\ UNCHANGED session
      BY <1>4 DEF RefuseOther, network
    <2>2. Gains(up, up', c, {})
      BY <1>1, <1>4, Takes DEF RefuseOther, ReceivedFrom
    <2>3. Gains(down, down', c, {CONRJT}) /\ CONRJT.type # "RCVD"
      BY <1>1, <1>4, AnswersOne, Signs DEF RefuseOther
    <2>4. SessionOK' /\ saved' = saved
      BY <1>1, <2>1 DEF SessionOK, session, Left, Count
    <2> QED BY <2>1, <2>2, <2>3, <2>4, ServerSide
  <1>5. ASSUME ServerIgnores(c) PROVE SavedInv'
    <2>1. client' = client /\ net' = net /\ UNCHANGED session
      BY <1>5 DEF ServerIgnores, network
    <2>2. Gains(up, up', c, {}) /\ Gains(down, down', c, {})
      BY <1>1, <1>5, Takes, Keeps DEF ServerIgnores, ReceivedFrom
    <2>3. SessionOK' /\ saved' = saved
      BY <1>1, <2>1 DEF SessionOK, session, Left, Count
    <2> QED BY <2>1, <2>2, <2>3, ServerSide
  <1>6. ASSUME ServerRetransmits(c) PROVE SavedInv'
    <2>1. client' = client /\ net' = net /\ saved' = saved /\ printed' = printed
      BY <1>6 DEF ServerRetransmits, network
    <2>2. Gains(up, up', c, {})
      BY <1>1, <1>6, Keeps DEF ServerRetransmits
    <2>3. Repeated(c) \in Packets /\ Repeated(c).type # "RCVD"
      <3>1. ACC(server.num - 1) \in Packets \/ server.pc = "first"
        <4>1. server.pc # "first" => server.num > 0 /\ server.num \in Nat
          BY <1>1, <1>6 DEF SessionOK, ServerRetransmits
        <4>2. server.pc # "first" => server.num - 1 \in Nat
          BY <4>1
        <4> QED BY <4>2, Signs
      <3>2. ACC(server.num - 1).type = "ACC"
        BY DEF ACC, Packet
      <3> QED BY <3>1, <3>2, Signs DEF Repeated
    <2>4. Gains(down, down', c, {Repeated(c)})
      BY <1>1, <1>6, <2>3, AnswersOne DEF ServerRetransmits
    <2>5. server' = [server EXCEPT !.attempts = @ + 1]
      BY <1>6 DEF ServerRetransmits
    <2>6. SessionOK'
      <3>1. /\ server' \in [pc : {"listen", "conn", "data", "first", "next"}, peer : Clients \cup {Nobody},
                             attempts : Nat, num : Nat, read : Int, size : Int]
            /\ server'.pc = server.pc /\ server'.peer = server.peer /\ server'.num = server.num
            /\ server'.read = server.read /\ server'.size = server.size
        BY <1>1, <2>5 DEF SessionOK
      <3>2. /\ Left(server.peer, server.num)' = Left(server.peer, server.num)
            /\ Count(server.peer)' = Count(server.peer)
        BY <2>1, <3>1 DEF Left, Count
      <3> QED BY <1>1, <2>1, <3>1, <3>2 DEF SessionOK
    <2> QED BY <2>1, <2>2, <2>3, <2>4, <2>6, ServerSide
  <1>7. ASSUME ServerGivesUp(c) PROVE SavedInv'
    <2>1. client' = client /\ net' = net /\ Abort(c, Closing)
      BY <1>7 DEF ServerGivesUp, Blames
    <2>2. Gains(up, up', c, {})
      BY <1>1, <1>7, Keeps DEF ServerGivesUp
    <2>3. Closing \in Seq(Packets) /\ \A m \in Range(Closing) : m.type # "RCVD"
      BY Closes
    <2> QED BY <2>1, <2>2, <2>3, Aborts
  <1> QED BY <1>2, <1>3, <1>4, <1>5, <1>6, <1>7, OpenSaved, AcceptSaved DEF ServerStep

LEMMA LoseSaved ==
  ASSUME SavedInv, NEW c \in Clients, Lose(c)
  PROVE  SavedInv'
  <1>1. LinksOK /\ ClientsOK /\ SessionOK /\ up \in [Clients -> Links] /\ down \in [Clients -> Links]
    BY DEF SavedInv, LinksOK
  <1>2. client' = client /\ net' = net /\ UNCHANGED session
    BY DEF Lose
  <1>3. Ordered /\ \A l : l # <<>> => Head(l) \in Next1(l)
    BY DEF Lose, Ordered, Next1
  <1>4. Gains(up, up', c, {}) /\ Gains(down, down', c, {})
    <2>1. CASE up[c] # <<>> /\ ReceivedFrom(c) /\ UNCHANGED down
      BY <1>1, <1>3, <2>1, Takes, Keeps DEF ReceivedFrom
    <2>2. CASE down[c] # <<>> /\ Received(c) /\ UNCHANGED up
      BY <1>1, <1>3, <2>2, Takes, Keeps DEF Received
    <2> QED BY <2>1, <2>2 DEF Lose
  <1>5. SessionOK' /\ saved' = saved
    BY <1>1, <1>2 DEF SessionOK, session, Left, Count
  <1> QED BY <1>2, <1>4, <1>5, ServerSide

-----------------------------------------------------------------------------
LEMMA NextSaved == SavedInv /\ [Next]_vars => SavedInv'
  <1> SUFFICES ASSUME SavedInv, [Next]_vars PROVE SavedInv'
    OBVIOUS
  <1>1. CASE Next
    <2>1. PICK c \in Clients : ClientStep(c) \/ ServerStep(c) \/ Lose(c)
      BY <1>1 DEF Next
    <2> QED BY <2>1, ClientStepSaved, ServerStepSaved, LoseSaved
  <1>2. CASE UNCHANGED vars
    <2>1. /\ client' = client /\ up' = up /\ down' = down /\ net' = net
          /\ server' = server /\ printed' = printed /\ saved' = saved
      BY <1>2 DEF vars, session, network
    <2>2. SuccessMeansSaved' /\ LinksOK'
      <3>1. SuccessMeansSaved'
        BY <2>1 DEF SavedInv, ClientsOK, SuccessMeansSaved
      <3>2. LinksOK'
        BY <2>1 DEF SavedInv, LinksOK, Links, Ordered
      <3> QED BY <3>1, <3>2
    <2>3. ClientsOK'
      BY <2>1, <2>2 DEF SavedInv, ClientsOK, More, Count
    <2>5. OnlyData' /\ OnlyConfirmed'
      BY <2>1 DEF SavedInv, OnlyData, OnlyConfirmed, On, Ordered, More, DATA, Packet, Chunk, Left, Count
    <2>4. SessionOK'
      BY <2>1 DEF SavedInv, SessionOK, Left, Count
    <2> QED BY <2>2, <2>3, <2>4, <2>5 DEF SavedInv
  <1> QED BY <1>1, <1>2

(* ppcbc ends in success (RCVD has come: recv_rcvd_packet and its like) only *)
(* after a session of ppcbs has printed all of its data, each packet once    *)
(* and in order: over each of the protocols, also when the network loses,    *)
(* duplicates and reorders the packets, and however the timeouts fall.       *)
THEOREM SuccessIsTrue == Spec => []SuccessMeansSaved
  <1>1. SavedInv => SuccessMeansSaved
    BY DEF SavedInv, ClientsOK
  <1> QED BY <1>1, InitSaved, NextSaved, PTL DEF Spec

LEMMA SavedPrefix == SavedInv => PrintsPrefix
  <1> SUFFICES ASSUME SavedInv, server.pc # "listen"
               PROVE  /\ server.num <= Count(server.peer)
                      /\ printed = SubSeq(Whole(server.peer), 1, server.num)
    BY DEF PrintsPrefix
  <1> DEFINE w == Whole(server.peer)
             n == server.num
  <1>1. /\ server.peer \in Clients /\ n \in Nat /\ n <= Count(server.peer)
        /\ printed \in Seq(Clients \X Nat) /\ Len(printed) = n
        /\ \A k \in 1 .. n : printed[k] = <<server.peer, k - 1>>
    BY DEF SavedInv, SessionOK
  <1>2. Count(server.peer) \in Nat
    BY <1>1, Counts DEF SavedInv
  <1>3. w = [i \in 1 .. Count(server.peer) |-> <<server.peer, i - 1>>]
    BY DEF Whole
  <1> HIDE DEF w, n
  <1>4. SubSeq(w, 1, n) = [i \in 1 .. n |-> w[1 + i - 1]]
    BY <1>1
  <1>5. ASSUME NEW i \in 1 .. n PROVE w[1 + i - 1] = printed[i]
    <2>1. 1 + i - 1 = i /\ i \in 1 .. Count(server.peer)
      BY <1>1, <1>2
    <2> QED BY <2>1, <1>1, <1>3
  <1>6. printed = [i \in 1 .. n |-> printed[i]]
    BY <1>1, LenProperties
  <1>7. printed = SubSeq(w, 1, n)
    BY <1>4, <1>5, <1>6
  <1> QED BY <1>1, <1>7 DEF w, n

(* What ppcbs has printed in a session (server_udpr.c:137, server_udp.c:212)*)
(* is the beginning of its client's data, no packet twice or out of order.  *)
THEOREM InOrder == Spec => []PrintsPrefix
  BY SavedPrefix, InitSaved, NextSaved, PTL DEF Spec
-----------------------------------------------------------------------------
(* How far the two sides of a transfer can be apart.  A client is ahead by  *)
(* at most the packet it has sent (Sent), and behind by at most the one     *)
(* acknowledged last (Acked); an old CONN, which would open a session from  *)
(* the beginning, is met only by a client that has had no ACC (Unopened).   *)
(* On a link that is a queue no CONN is behind DATA (Tidy).                 *)

Early(c) == client[c].pc \in {"start", "connected", "conacc"}
InSession(c) == server.pc # "listen" /\ server.peer = c

NoAckYet(c) ==
  /\ \A m : On(down[c], m) => m.type # "ACC"
  /\ client[c].pc = "acc" => client[c].num = 0

Pending(c) == IF Ordered THEN \E m : On(up[c], m) /\ m.type = "CONN" ELSE opened = 0

Tidy(l) ==
  Ordered => \A k \in 1 .. Len(l) : \A j \in 1 .. k - 1 : l[j].type = "DATA" => l[k].type # "CONN"

Begun(c) ==
  Early(c) =>
    /\ \A m : On(up[c], m) => m.type # "DATA"
    /\ \A m : On(down[c], m) => m.type # "ACC"
    /\ InSession(c) => server.num = 0

Sent(c) ==
  client[c].pc = "acc" =>
    /\ \A m : On(up[c], m) /\ m.type = "DATA" => m.num <= client[c].num
    /\ InSession(c) => server.num <= client[c].num + 1

Unopened(c) == Pending(c) => NoAckYet(c)

Acked(c) ==
  InSession(c) /\ opened <= 1 =>
    /\ server.pc = "first" => NoAckYet(c)
    /\ server.pc = "next" => /\ \A m : On(down[c], m) /\ m.type = "ACC" => m.num < server.num
                             /\ client[c].pc = "acc" => client[c].num <= server.num

Settled(c) == InSession(c) /\ Ordered /\ server.pc = "next" => ~Pending(c)

StepInv ==
  /\ \A c \in Clients : Tidy(up[c])
  /\ \A c \in Clients : Begun(c) /\ Sent(c) /\ Unopened(c) /\ Acked(c) /\ Settled(c)
  /\ opened \in Nat
  /\ ~Ordered /\ opened = 0 => server.pc \in {"listen", "conn"}

LEMMA InitStep == Init => StepInv
  <1> SUFFICES ASSUME Init PROVE StepInv
    OBVIOUS
  <1>1. up = [c \in Clients |-> Empty] /\ down = [c \in Clients |-> Empty]
        /\ server.pc = "listen" /\ opened = 0
    BY DEF Init
  <1>2. ASSUME NEW c \in Clients PROVE client[c].pc = "start"
    <2>1. client \in [Clients -> [protocol : IF Stream THEN {"tcp"} ELSE Protocols,
                                  len : Lengths, pc : {"start"}, attempts : {0}, num : {0}]]
      BY DEF Init
    <2> DEFINE P == IF Stream THEN {"tcp"} ELSE Protocols
    <2> HIDE DEF P
    <2>2. client \in [Clients -> [protocol : P, len : Lengths, pc : {"start"}, attempts : {0}, num : {0}]]
      BY <2>1 DEF P
    <2> QED BY <2>2
  <1>3. Tidy(Empty)
    BY DEF Tidy, Empty
  <1> QED BY <1>1, <1>2, <1>3, LinkEmpty
       DEF StepInv, Begun, Sent, Unopened, Acked, Settled, NoAckYet, InSession

-----------------------------------------------------------------------------
LEMMA TidyRest ==
  ASSUME NEW l \in Links, Next1(l) # {}, Tidy(l)
  PROVE  /\ Tidy(Rest(l))
         /\ Ordered => \A m \in Next1(l) : m.type = "DATA" => \A x : On(Rest(l), x) => x.type # "CONN"
  <1> SUFFICES ASSUME Ordered
               PROVE  /\ Tidy(Rest(l))
                      /\ \A m \in Next1(l) : m.type = "DATA" => \A x : On(Rest(l), x) => x.type # "CONN"
    BY DEF Tidy
  <1>1. l \in Seq(Packets) /\ l # <<>> /\ Rest(l) = Tail(l) /\ \A m \in Next1(l) : m = Head(l)
    BY DEF Links, Next1, Rest
  <1>2. /\ Len(Tail(l)) = Len(l) - 1 /\ Len(l) \in Nat /\ Head(l) = l[1] /\ Len(l) > 0
        /\ \A k \in 1 .. Len(l) - 1 : Tail(l)[k] = l[k + 1]
    BY <1>1, HeadTailProperties, LenProperties, EmptySeq
  <1>3. \A k \in 1 .. Len(l) : \A j \in 1 .. k - 1 : l[j].type = "DATA" => l[k].type # "CONN"
    BY DEF Tidy
  <1> DEFINE n == Len(l)
             r == Tail(l)
  <1> HIDE DEF n, r
  <1>4. ASSUME NEW k \in 1 .. n - 1, NEW j \in 1 .. k - 1, r[j].type = "DATA" PROVE r[k].type # "CONN"
    <2>1. n \in Nat
      BY <1>2 DEF n
    <2>2. k + 1 \in 1 .. n /\ j + 1 \in 1 .. (k + 1) - 1 /\ j \in 1 .. n - 1
      BY <2>1
    <2>3. r[k] = l[k + 1] /\ r[j] = l[j + 1]
      BY <2>2, <1>2 DEF n, r
    <2> QED BY <2>2, <2>3, <1>3, <1>4 DEF n
  <1>5. ASSUME NEW k \in 1 .. n - 1, l[1].type = "DATA" PROVE r[k].type # "CONN"
    <2>1. n \in Nat
      BY <1>2 DEF n
    <2>2. k + 1 \in 1 .. n /\ 1 \in 1 .. (k + 1) - 1
      BY <2>1
    <2>3. r[k] = l[k + 1]
      BY <1>2 DEF n, r
    <2> QED BY <2>2, <2>3, <1>3, <1>5 DEF n
  <1>6. Tidy(Rest(l))
    BY <1>1, <1>2, <1>4 DEF Tidy, n, r
  <1>7. l[1].type = "DATA" => \A x : On(Rest(l), x) => x.type # "CONN"
    BY <1>1, <1>2, <1>5 DEF On, n, r
  <1> QED BY <1>1, <1>2, <1>6, <1>7

(* Packets are added behind: no CONN, or one and nothing else before DATA.  *)
LEMMA TidyWith ==
  ASSUME NEW l \in Links, NEW ps \in Seq(Packets), Tidy(l),
         \/ \A m \in Range(ps) : m.type # "CONN"
         \/ (\A m : On(l, m) => m.type # "DATA") /\ (\A m \in Range(ps) : m.type # "DATA")
  PROVE  Tidy(With(l, ps))
  <1> SUFFICES ASSUME Ordered PROVE Tidy(With(l, ps))
    BY DEF Tidy
  <1>1. l \in Seq(Packets) /\ Len(l) \in Nat /\ Len(ps) \in Nat /\ DOMAIN ps = 1 .. Len(ps)
    BY LenProperties DEF Links
  <1>2. /\ With(l, ps) = l \o ps /\ Len(l \o ps) = Len(l) + Len(ps)
        /\ \A k \in 1 .. Len(l) + Len(ps) : (l \o ps)[k] = IF k <= Len(l) THEN l[k] ELSE ps[k - Len(l)]
    BY <1>1, ConcatProperties DEF With
  <1> DEFINE n == Len(l)
             p == Len(ps)
             r == l \o ps
  <1>3. /\ \A k \in 1 .. n : \A j \in 1 .. k - 1 : l[j].type = "DATA" => l[k].type # "CONN"
        /\ \/ \A k \in 1 .. p : ps[k].type # "CONN"
           \/ (\A k \in 1 .. n : l[k].type # "DATA") /\ (\A k \in 1 .. p : ps[k].type # "DATA")
    BY <1>1 DEF Tidy, On, Range
  <1>4. /\ n \in Nat /\ p \in Nat /\ Len(r) = n + p
        /\ \A k \in 1 .. n + p : r[k] = IF k <= n THEN l[k] ELSE ps[k - n]
    BY <1>1, <1>2
  <1> HIDE DEF n, p, r
  <1>5. ASSUME NEW k \in 1 .. n + p, NEW j \in 1 .. k - 1, r[j].type = "DATA" PROVE r[k].type # "CONN"
    <2>1. j \in 1 .. n + p
      BY <1>4
    <2>2. CASE k <= n
      <3>1. k \in 1 .. n /\ j <= n
        BY <2>2, <1>4
      <3> QED BY <2>1, <2>2, <3>1, <1>3, <1>4, <1>5
    <2>3. CASE ~(k <= n) /\ j <= n
      <3>1. k - n \in 1 .. p /\ j \in 1 .. n
        BY <2>3, <1>4
      <3> QED BY <2>1, <2>3, <3>1, <1>3, <1>4, <1>5
    <2>4. CASE ~(k <= n) /\ ~(j <= n)
      <3>1. k - n \in 1 .. p /\ j - n \in 1 .. p
        BY <2>4, <2>1, <1>4
      <3> QED BY <2>1, <2>4, <3>1, <1>3, <1>4, <1>5
    <2> QED BY <2>2, <2>3, <2>4
  <1> QED BY <1>2, <1>4, <1>5 DEF Tidy, r

LEMMA OnPacket ==
  ASSUME NEW l \in Links, NEW m, On(l, m)
  PROVE  m \in Packets
  <1>1. CASE Ordered
    <2>1. l \in Seq(Packets) /\ \A k \in 1 .. Len(l) : l[k] \in Packets
      BY <1>1, LenProperties DEF Links
    <2> QED BY <1>1, <2>1 DEF On
  <1>2. CASE ~Ordered
    BY <1>2 DEF On, Links
  <1> QED BY <1>1, <1>2

LEMMA TidyEmpty == Tidy(Empty)
  BY DEF Tidy, Empty

-----------------------------------------------------------------------------
(* A step of the client c: it goes on by itself, or because of an ACC.      *)

TakesUp(c) ==
  /\ client'[c].pc \in {"start", "connected", "conacc"} => Early(c)
  /\ client'[c].pc = "acc" =>
       \/ Early(c) /\ client'[c].num = 0
       \/ client[c].pc = "acc" /\ client'[c].num = client[c].num
       \/ /\ client[c].pc = "acc" /\ client'[c].num = client[c].num + 1
          /\ On(down[c], ACC(client[c].num))

Offers(c, S) ==
  \A m \in S :
    /\ m.type = "CONN" => Early(c) /\ client'[c].pc \in {"start", "connected", "conacc"}
    /\ m.type = "DATA" => /\ client'[c].pc \notin {"start", "connected", "conacc"}
                          /\ client'[c].pc = "acc" => m.num <= client'[c].num

LEMMA ClientApart ==
  ASSUME SavedInv, StepInv, NEW c \in Clients, NEW S, Moves(c), net' = net, UNCHANGED session,
         Gains(up, up', c, S), Gains(down, down', c, {}), \A d \in Clients : Tidy(up'[d]),
         TakesUp(c), Offers(c, S)
  PROVE  StepInv'
  <1>1. server' = server /\ opened' = opened /\ Ordered' = Ordered
    BY DEF session, Ordered
  <1>2. \A d \in Clients : \A m : On(down'[d], m) => On(down[d], m)
    BY DEF Gains
  <1>3. /\ \A d \in Clients : d # c => \A m : On(up'[d], m) => On(up[d], m)
        /\ \A m : On(up'[c], m) => On(up[c], m) \/ m \in S
    BY DEF Gains
  <1>4. \A d \in Clients : d # c => client'[d] = client[d]
    BY DEF Moves
  <1>5. /\ \A d, m : On(up[d], m)' = On(up'[d], m)
        /\ \A d, m : On(down[d], m)' = On(down'[d], m)
    BY SameNet
  <1>6. \A d \in Clients : InSession(d)' = InSession(d)
    BY <1>1 DEF InSession
  <1>7. client[c].num \in Nat /\ client'[c].num \in Nat /\ (server.pc # "listen" => server.num \in Nat)
    BY DEF SavedInv, ClientsOK, SessionOK, Moves, Client
  <1>8. /\ \A d \in Clients : Begun(d) /\ Sent(d) /\ Unopened(d) /\ Acked(d) /\ Settled(d)
        /\ opened \in Nat /\ (~Ordered /\ opened = 0 => server.pc \in {"listen", "conn"})
    BY DEF StepInv
  <1>9. \A d \in Clients : Tidy(up[d])'
    BY <1>1 DEF Tidy
  <1>10. ASSUME NEW d \in Clients, d # c
         PROVE  (Begun(d) /\ Sent(d) /\ Unopened(d) /\ Acked(d) /\ Settled(d))'
    <2>1. client'[d] = client[d] /\ InSession(d)' = InSession(d)
          /\ (\A m : On(up[d], m)' => On(up[d], m)) /\ (\A m : On(down[d], m)' => On(down[d], m))
      BY <1>2, <1>3, <1>4, <1>5, <1>6, <1>10
    <2>2. Begun(d) /\ Sent(d) /\ Unopened(d) /\ Acked(d) /\ Settled(d)
      BY <1>8
    <2>3. NoAckYet(d) => NoAckYet(d)'
      BY <2>1 DEF NoAckYet
    <2>4. Pending(d)' => Pending(d)
      BY <2>1, <1>1 DEF Pending
    <2>5. Begun(d)'
      BY <2>1, <2>2, <1>1 DEF Begun, Early
    <2>6. Sent(d)'
      BY <2>1, <2>2, <1>1 DEF Sent
    <2>7. Unopened(d)' /\ Settled(d)'
      BY <2>1, <2>2, <2>3, <2>4, <1>1 DEF Unopened, Settled
    <2>8. Acked(d)'
      BY <2>1, <2>2, <2>3, <1>1 DEF Acked
    <2> QED BY <2>5, <2>6, <2>7, <2>8
  <1>11. (Begun(c) /\ Sent(c) /\ Unopened(c) /\ Acked(c) /\ Settled(c))'
    <2>1. InSession(c)' = InSession(c)
          /\ (\A m : On(up[c], m)' => On(up[c], m) \/ m \in S)
          /\ (\A m : On(down[c], m)' => On(down[c], m))
      BY <1>2, <1>3, <1>5, <1>6
    <2>2. Begun(c) /\ Sent(c) /\ Unopened(c) /\ Acked(c) /\ Settled(c)
      BY <1>8
    <2>3. NoAckYet(c) => NoAckYet(c)'
      <3>1. ACC(client[c].num).type = "ACC"
        BY DEF ACC, Packet
      <3>2. NoAckYet(c) => (client'[c].pc = "acc" => client'[c].num = 0)
        BY <3>1 DEF TakesUp, NoAckYet
      <3> QED BY <3>2, <2>1 DEF NoAckYet
    <2>4. Early(c) => NoAckYet(c)
      BY <2>2 DEF Begun, NoAckYet, Early
    <2>5. Pending(c)' => NoAckYet(c)
      BY <2>1, <2>2, <2>4, <1>1 DEF Pending, Unopened, Offers
    <2>6. Begun(c)'
      BY <2>1, <2>2, <1>1 DEF Begun, Early, TakesUp, Offers
    <2>7. Sent(c)'
      <3>1. CASE Early(c) /\ client'[c].num = 0
        BY <3>1, <2>1, <2>2, <1>1, <1>7 DEF Begun, Sent, Offers
      <3>2. CASE client[c].pc = "acc" /\ client'[c].num = client[c].num
        BY <3>2, <2>1, <2>2, <1>1, <1>7 DEF Sent, Offers
      <3>3. CASE client[c].pc = "acc" /\ client'[c].num = client[c].num + 1
        <4>1. ASSUME client'[c].pc = "acc", NEW m, On(up[c], m)', m.type = "DATA"
              PROVE  m.num <= client'[c].num
          <5>1. CASE m \in S
            BY <4>1, <5>1 DEF Offers
          <5>2. CASE On(up[c], m)
            <6>1. m.num <= client[c].num
              BY <3>3, <4>1, <5>2, <2>2 DEF Sent
            <6>2. m.num \in Nat
              <7>1. On(up[c], m) /\ up[c] \in Links
                BY <5>2 DEF SavedInv, LinksOK
              <7>2. m \in Packets
                BY <7>1, OnPacket
              <7> QED BY <7>2 DEF Packets
            <6> QED BY <6>1, <6>2, <3>3, <1>7
          <5> QED BY <4>1, <5>1, <5>2, <2>1
        <4>2. InSession(c)' => server'.num <= client'[c].num + 1
          <5>1. InSession(c) => server.num <= client[c].num + 1 /\ server.num \in Nat
            BY <3>3, <2>2, <1>7 DEF Sent, InSession
          <5> QED BY <5>1, <3>3, <2>1, <1>1, <1>7
        <4> QED BY <4>1, <4>2 DEF Sent
      <3>4. CASE client'[c].pc # "acc"
        BY <3>4 DEF Sent
      <3> QED BY <3>1, <3>2, <3>3, <3>4 DEF TakesUp
    <2>8. Unopened(c)'
      BY <2>3, <2>5 DEF Unopened
    <2>9. Acked(c)'
      <3> SUFFICES ASSUME InSession(c), opened <= 1
                   PROVE  /\ server.pc = "first" => NoAckYet(c)'
                          /\ server.pc = "next" => /\ \A m : On(down[c], m)' /\ m.type = "ACC" => m.num < server.num
                                                   /\ client'[c].pc = "acc" => client'[c].num <= server.num
        BY <2>1, <1>1 DEF Acked
      <3>1. /\ server.pc = "first" => NoAckYet(c)
            /\ server.pc = "next" => /\ \A m : On(down[c], m) /\ m.type = "ACC" => m.num < server.num
                                     /\ client[c].pc = "acc" => client[c].num <= server.num
        BY <2>2 DEF Acked
      <3>2. ASSUME server.pc = "next", client'[c].pc = "acc" PROVE client'[c].num <= server.num
        <4>1. server.num \in Nat
          BY <1>7, <3>2
        <4>2. ACC(client[c].num).type = "ACC" /\ ACC(client[c].num).num = client[c].num
          BY DEF ACC, Packet
        <4>3. On(down[c], ACC(client[c].num)) => client[c].num < server.num
          BY <3>1, <3>2, <4>2
        <4> QED BY <4>1, <4>3, <3>1, <3>2, <1>7 DEF TakesUp
      <3> QED BY <3>1, <3>2, <2>1, <2>3
    <2>10. Settled(c)'
      <3> SUFFICES ASSUME InSession(c), Ordered, server.pc = "next", Pending(c)' PROVE FALSE
        BY <2>1, <1>1 DEF Settled
      <3>1. ~Pending(c)
        BY <2>2 DEF Settled
      <3>2. Early(c)
        BY <3>1, <2>1, <1>1 DEF Pending, Offers
      <3>3. server.num = 0
        BY <3>2, <2>2 DEF Begun
      <3> QED BY <3>3 DEF SavedInv, SessionOK
    <2> QED BY <2>6, <2>7, <2>8, <2>9, <2>10
  <1>12. \A d \in Clients : (Begun(d) /\ Sent(d) /\ Unopened(d) /\ Acked(d) /\ Settled(d))'
    BY <1>10, <1>11
  <1> QED BY <1>1, <1>8, <1>9, <1>12 DEF StepInv

(* The links stay tidy. *)
LEMMA TidyChange ==
  ASSUME StepInv, up \in [Clients -> Links], NEW c \in Clients, NEW l,
         up' = [up EXCEPT ![c] = l], Tidy(l)
  PROVE  \A d \in Clients : Tidy(up'[d])
  BY DEF StepInv

LEMMA TidySend ==
  ASSUME StepInv, up \in [Clients -> Links], NEW c \in Clients, NEW ps \in Seq(Packets), ClientSends(c, ps),
         \/ \A m \in Range(ps) : m.type # "CONN"
         \/ Early(c) /\ \A m \in Range(ps) : m.type # "DATA"
  PROVE  \A d \in Clients : Tidy(up'[d])
  <1>1. Early(c) => \A m : On(up[c], m) => m.type # "DATA"
    BY DEF StepInv, Begun
  <1>2. Tidy(up[c]) /\ up[c] \in Links
    BY DEF StepInv
  <1>3. Tidy(With(up[c], ps))
    BY <1>1, <1>2, TidyWith
  <1> QED BY <1>3, TidyChange DEF ClientSends

LEMMA TidySendOne ==
  ASSUME StepInv, up \in [Clients -> Links], NEW c \in Clients, NEW p \in Packets, ClientSends(c, <<p>>),
         p.type # "CONN" \/ (Early(c) /\ p.type # "DATA")
  PROVE  \A d \in Clients : Tidy(up'[d])
  <1>1. <<p>> \in Seq(Packets) /\ Range(<<p>>) = {p}
    BY OnePacket
  <1> DEFINE ps == <<p>>
  <1>2. ps \in Seq(Packets) /\ Range(ps) = {p} /\ ClientSends(c, ps)
    BY <1>1
  <1> HIDE DEF ps
  <1> QED BY <1>2, TidySend

LEMMA ExitApart ==
  ASSUME SavedInv, StepInv, NEW c \in Clients, NEW pc \in {"done", "failed", "refused"},
         Exit(c, pc), net' = net, UNCHANGED session
  PROVE  StepInv'
  <1>1. ClientsOK /\ up \in [Clients -> Links] /\ down \in [Clients -> Links]
    BY DEF SavedInv, LinksOK
  <1>2. Moves(c) /\ client'[c].pc = pc
    BY <1>1, Waits DEF Exit, ClientPlaces
  <1>3. Gains(down, down', c, {}) /\ Gains(up, up', c, Range(Closing))
    BY <1>1, Clears, Closes, Sends DEF Exit, ClientSends
  <1>4. \A m \in Range(Closing) : m.type = "FIN"
    BY Closes
  <1>5. \A d \in Clients : Tidy(up'[d])
    BY <1>1, <1>4, Closes, TidySend DEF Exit
  <1>6. TakesUp(c) /\ Offers(c, Range(Closing))
    BY <1>2, <1>4 DEF TakesUp, Offers
  <1> QED BY <1>2, <1>3, <1>5, <1>6, ClientApart

LEMMA SendFromApart ==
  ASSUME SavedInv, StepInv, NEW c \in Clients, NEW n \in Nat, SendFrom(c, n),
         \/ Early(c) /\ n = 0
         \/ client[c].pc = "acc" /\ n = client[c].num + 1 /\ On(down[c], ACC(client[c].num)),
         Gains(down, down', c, {}), net' = net, UNCHANGED session
  PROVE  StepInv'
  <1>1. ClientsOK /\ up \in [Clients -> Links]
    BY DEF SavedInv, LinksOK
  <1>2. CASE More(c, n) /\ ClientWaits(c, "acc", n) /\ ClientSends(c, <<DATA(c, n)>>)
    <2>1. Moves(c) /\ client'[c].pc = "acc" /\ client'[c].num = n
      BY <1>1, <1>2, Waits DEF ClientPlaces
    <2>2. DATA(c, n) \in Packets /\ DATA(c, n).num = n /\ DATA(c, n).type = "DATA"
      BY <1>1, DataPacket
    <2>3. Gains(up, up', c, {DATA(c, n)}) /\ \A d \in Clients : Tidy(up'[d])
      BY <1>1, <1>2, <2>2, SendsOne, TidySendOne DEF ClientSends
    <2>4. TakesUp(c) /\ Offers(c, {DATA(c, n)})
      BY <2>1, <2>2 DEF TakesUp, Offers
    <2> QED BY <2>1, <2>3, <2>4, ClientApart
  <1>3. CASE ClientWaits(c, "rcvd", 0) /\ UNCHANGED up
    <2>1. Moves(c) /\ client'[c].pc = "rcvd"
      BY <1>1, <1>3, Waits DEF ClientPlaces
    <2>2. Gains(up, up', c, {}) /\ \A d \in Clients : Tidy(up'[d])
      BY <1>1, <1>3, Keeps DEF StepInv
    <2>3. TakesUp(c) /\ Offers(c, {})
      BY <2>1 DEF TakesUp, Offers
    <2> QED BY <2>1, <2>2, <2>3, ClientApart
  <1> QED BY <1>2, <1>3 DEF SendFrom

LEMMA ClientStepApart ==
  ASSUME SavedInv, StepInv, NEW c \in Clients, ClientStep(c)
  PROVE  StepInv'
  <1>1. /\ LinksOK /\ ClientsOK
        /\ up \in [Clients -> Links] /\ down \in [Clients -> Links]
        /\ client[c] \in Client
        /\ \A d \in Clients : Tidy(up[d])
    BY DEF SavedInv, LinksOK, ClientsOK, StepInv
  <1>2. ASSUME ClientConnects(c) PROVE StepInv'
    <2>1. Moves(c) /\ client'[c].pc = "connected" /\ Early(c)
      BY <1>1, <1>2, Waits DEF ClientConnects, ClientPlaces, Early
    <2>2. Gains(up, up', c, {SYN}) /\ SYN.type = "SYN" /\ \A d \in Clients : Tidy(up'[d])
      BY <1>1, <1>2, Signs, SendsOne, TidySendOne DEF ClientConnects, ClientSends
    <2>3. Gains(down, down', c, {}) /\ net' = net /\ UNCHANGED session
      BY <1>1, <1>2, Keeps DEF ClientConnects, network
    <2>4. TakesUp(c) /\ Offers(c, {SYN})
      BY <2>1, <2>2 DEF TakesUp, Offers
    <2> QED BY <2>1, <2>2, <2>3, <2>4, ClientApart
  <1>3. ASSUME ClientStart(c) PROVE StepInv'
    <2>1. Moves(c) /\ client'[c].pc = "conacc" /\ Early(c)
      BY <1>1, <1>3, Waits DEF ClientStart, ClientPlaces, Early
    <2>2. Gains(up, up', c, {CONN}) /\ CONN.type = "CONN" /\ \A d \in Clients : Tidy(up'[d])
      BY <1>1, <1>3, <2>1, Signs, SendsOne, TidySendOne DEF ClientStart, ClientSends
    <2>3. Gains(down, down', c, {}) /\ net' = net /\ UNCHANGED session
      BY <1>1, <1>3, Keeps DEF ClientStart, network
    <2>4. TakesUp(c) /\ Offers(c, {CONN})
      BY <2>1, <2>2 DEF TakesUp, Offers
    <2> QED BY <2>1, <2>2, <2>3, <2>4, ClientApart
  <1>4. ASSUME ConaccArrives(c) PROVE StepInv'
    <2>1. Gains(down, down', c, {}) /\ net' = net /\ UNCHANGED session /\ Early(c)
      BY <1>1, <1>4, Takes DEF ConaccArrives, Arrives, Received, network, Early
    <2>2. ASSUME ClientWaits(c, "rcvd", 0), ClientSends(c, AllData(c)) PROVE StepInv'
      <3>1. Moves(c) /\ client'[c].pc = "rcvd"
        BY <1>1, <2>2, Waits DEF ClientPlaces
      <3>2. AllData(c) \in Seq(Packets) /\ \A m \in Range(AllData(c)) : m.type = "DATA"
        <4>1. \A n : DATA(c, n).type = "DATA"
          BY DEF DATA, Packet
        <4> QED BY <4>1, <1>1, AllDataPackets
      <3>3. Gains(up, up', c, Range(AllData(c))) /\ \A d \in Clients : Tidy(up'[d])
        BY <1>1, <2>2, <3>2, Sends, TidySend DEF ClientSends
      <3>4. TakesUp(c) /\ Offers(c, Range(AllData(c)))
        BY <3>1, <3>2 DEF TakesUp, Offers
      <3> QED BY <2>1, <3>1, <3>3, <3>4, ClientApart
    <2>3. ASSUME SendFrom(c, 0) PROVE StepInv'
      BY <2>1, <2>3, SendFromApart
    <2> QED BY <1>4, <2>2, <2>3 DEF ConaccArrives
  <1>5. ASSUME AccArrives(c) PROVE StepInv'
    <2>1. Gains(down, down', c, {}) /\ net' = net /\ UNCHANGED session
      BY <1>1, <1>5, Takes DEF AccArrives, Arrives, Received, network
    <2>2. client[c].pc = "acc" /\ On(down[c], ACC(client[c].num))
      BY <1>1, <1>5, Takes DEF AccArrives, Arrives
    <2>3. client[c].num + 1 \in Nat /\ SendFrom(c, client[c].num + 1)
      BY <1>1, <1>5 DEF AccArrives, Client
    <2> QED BY <2>1, <2>2, <2>3, SendFromApart
  <1>6. ASSUME ClientIgnores(c) PROVE StepInv'
    <2>1. Gains(down, down', c, {}) /\ net' = net /\ UNCHANGED session
      BY <1>1, <1>6, Takes DEF ClientIgnores, Received, network
    <2>2. Moves(c) /\ client'[c].pc = client[c].pc /\ client'[c].num = client[c].num
      BY <1>1, <1>6 DEF ClientIgnores, Moves, ClientsOK
    <2>3. Gains(up, up', c, {}) /\ \A d \in Clients : Tidy(up'[d])
      BY <1>1, <1>6, Keeps DEF ClientIgnores
    <2>4. TakesUp(c) /\ Offers(c, {})
      BY <2>2 DEF TakesUp, Offers, Early
    <2> QED BY <2>1, <2>2, <2>3, <2>4, ClientApart
  <1>7. ASSUME RcvdArrives(c) \/ ConrjtArrives(c) \/ ClientFails(c) PROVE StepInv'
    BY <1>7, ExitApart DEF RcvdArrives, ConrjtArrives, ClientFails, network
  <1>8. ASSUME ClientTimesOut(c) PROVE StepInv'
    <2>1. net' = net /\ UNCHANGED session
      BY <1>8 DEF ClientTimesOut, Blames
    <2>2. CASE Exit(c, "failed")
      BY <2>1, <2>2, ExitApart
    <2>3. ASSUME Retransmits(c), client' = [client EXCEPT ![c].attempts = @ + 1], UNCHANGED down,
                 ClientSends(c, <<IF client[c].pc = "conacc" THEN CONN ELSE DATA(c, client[c].num)>>)
          PROVE  StepInv'
      <3> DEFINE p == IF client[c].pc = "conacc" THEN CONN ELSE DATA(c, client[c].num)
      <3>1. Moves(c) /\ client'[c].pc = client[c].pc /\ client'[c].num = client[c].num
        BY <1>1, <2>3, TriesAgain
      <3>2. client[c].num \in Nat /\ client[c].pc \in {"conacc", "acc"}
        BY <1>1, <2>3 DEF Client, Retransmits
      <3>3. p \in Packets /\ p.type \in {"CONN", "DATA"}
            /\ (p.type = "CONN" => client[c].pc = "conacc")
            /\ (p.type = "DATA" => client[c].pc = "acc" /\ p.num = client[c].num)
        BY <1>1, <3>2, Signs, DataPacket
      <3>4. ClientSends(c, <<p>>)
        BY <2>3
      <3> HIDE DEF p
      <3>5. Gains(up, up', c, {p}) /\ \A d \in Clients : Tidy(up'[d])
        BY <1>1, <3>3, <3>4, SendsOne, TidySendOne DEF ClientSends, Early
      <3>6. Gains(down, down', c, {})
        BY <1>1, <2>3, Keeps
      <3>7. TakesUp(c) /\ Offers(c, {p})
        BY <3>1, <3>2, <3>3 DEF TakesUp, Offers, Early
      <3> QED BY <2>1, <3>1, <3>5, <3>6, <3>7, ClientApart
    <2> QED BY <1>8, <2>2, <2>3 DEF ClientTimesOut
  <1> QED BY <1>2, <1>3, <1>4, <1>5, <1>6, <1>7, <1>8 DEF ClientStep

-----------------------------------------------------------------------------
(* A step of the server with the client c.  What it sends is no ACC, or one *)
(* of a packet that this session has printed (Confirms); the session of a   *)
(* client goes on as it was, or is one with c that stands where it may      *)
(* (Stands).                                                                *)

Confirms(c, S) ==
  \A m \in S : m.type = "ACC" =>
    ~Early(c) /\ ~Pending(c)' /\ (InSession(c)' => server'.pc = "next" /\ m.num < server'.num)

Stands(c) ==
  /\ Early(c) => server'.num = 0
  /\ client[c].pc = "acc" => server'.num <= client[c].num + 1
  /\ server'.pc = "first" /\ opened' <= 1 => NoAckYet(c)
  /\ server'.pc = "next" /\ opened' <= 1 =>
       /\ \A m : On(down[c], m) /\ m.type = "ACC" => m.num < server'.num
       /\ client[c].pc = "acc" => client[c].num <= server'.num
  /\ server'.pc = "next" /\ Ordered => ~Pending(c)'

LEMMA ServerApart ==
  ASSUME SavedInv, StepInv, NEW c \in Clients, NEW S, client' = client, net' = net,
         Gains(up, up', c, {}), Gains(down, down', c, S), \A d \in Clients : Tidy(up'[d]),
         opened' \in Nat, opened <= opened', ~Ordered /\ opened' = 0 => server'.pc \in {"listen", "conn"},
         Confirms(c, S),
         \A d \in Clients : InSession(d)' =>
           \/ InSession(d) /\ server'.pc = server.pc /\ server'.num = server.num
           \/ d = c /\ Stands(c)
  PROVE  StepInv'
  <1>1. Ordered' = Ordered /\ \A d : Early(d)' = Early(d)
    BY DEF Ordered, Early
  <1>2. /\ \A d \in Clients : \A m : On(up[d], m)' => On(up[d], m)
        /\ \A d \in Clients : d # c => \A m : On(down[d], m)' => On(down[d], m)
        /\ \A m : On(down[c], m)' => On(down[c], m) \/ m \in S
    BY SameNet DEF Gains
  <1>3. opened \in Nat /\ (opened' = 0 => opened = 0)
    BY DEF StepInv
  <1>4. \A d \in Clients : Pending(d)' => Pending(d)
    BY <1>1, <1>2, <1>3 DEF Pending
  <1>5. ASSUME NEW d \in Clients
        PROVE  (Begun(d) /\ Sent(d) /\ Unopened(d) /\ Acked(d) /\ Settled(d))'
    <2>1. Begun(d) /\ Sent(d) /\ Unopened(d) /\ Acked(d) /\ Settled(d)
      BY DEF StepInv
    <2>2. /\ \A m : On(up[d], m)' => On(up[d], m)
          /\ \A m : On(down[d], m)' => On(down[d], m) \/ (d = c /\ m \in S)
          /\ Pending(d)' => Pending(d)
      BY <1>2, <1>4
    <2>3. Begun(d)'
      BY <1>1, <2>1, <2>2 DEF Begun, Confirms, Stands
    <2>4. Sent(d)'
      BY <2>1, <2>2 DEF Sent, Stands
    <2>5. Unopened(d)'
      BY <2>1, <2>2 DEF Unopened, NoAckYet, Confirms
    <2>6. Acked(d)'
      <3> SUFFICES ASSUME InSession(d)', opened' <= 1
                   PROVE  /\ server'.pc = "first" => NoAckYet(d)'
                          /\ server'.pc = "next" =>
                               /\ \A m : On(down[d], m)' /\ m.type = "ACC" => m.num < server'.num
                               /\ client[d].pc = "acc" => client[d].num <= server'.num
        BY DEF Acked
      <3>1. opened <= 1
        BY <1>3
      <3>2. /\ server'.pc = "first" => NoAckYet(d)
            /\ server'.pc = "next" => /\ \A m : On(down[d], m) /\ m.type = "ACC" => m.num < server'.num
                                      /\ client[d].pc = "acc" => client[d].num <= server'.num
        BY <2>1, <3>1 DEF Acked, Stands
      <3>3. \A m : On(down[d], m)' /\ m.type = "ACC" =>
              On(down[d], m) \/ (server'.pc = "next" /\ m.num < server'.num)
        BY <2>2 DEF Confirms
      <3> QED BY <3>2, <3>3 DEF NoAckYet
    <2>7. Settled(d)'
      BY <1>1, <2>1, <2>2 DEF Settled, Stands
    <2> QED BY <2>3, <2>4, <2>5, <2>6, <2>7
  <1>6. \A d \in Clients : Tidy(up[d])'
    BY <1>1 DEF Tidy
  <1> QED BY <1>1, <1>5, <1>6 DEF StepInv

(* The server takes a packet, or none, and does not go on with a session.   *)
LEMMA ServerPauses ==
  ASSUME SavedInv, StepInv, NEW c \in Clients, NEW S, client' = client, net' = net, opened' = opened,
         Gains(up, up', c, {}), Gains(down, down', c, S), \A d \in Clients : Tidy(up'[d]),
         \A m \in S : m.type # "ACC",
         \/ server'.pc = "listen"
         \/ server'.pc = server.pc /\ server'.peer = server.peer /\ server'.num = server.num
  PROVE  StepInv'
  <1>1. opened \in Nat /\ opened <= opened' /\ opened' \in Nat /\ (~Ordered /\ opened' = 0 => server'.pc \in {"listen", "conn"})
    BY DEF StepInv
  <1>2. Confirms(c, S)
    BY DEF Confirms
  <1>3. \A d \in Clients : InSession(d)' => InSession(d) /\ server'.pc = server.pc /\ server'.num = server.num
    BY DEF InSession
  <1> QED BY <1>1, <1>2, <1>3, ServerApart

LEMMA TidyTake ==
  ASSUME LinksOK, StepInv, NEW c \in Clients, NEW m \in Next1(up[c]), ReceivedFrom(c)
  PROVE  /\ \A d \in Clients : Tidy(up'[d])
         /\ Gains(up, up', c, {})
         /\ m \in Packets /\ On(up[c], m)
         /\ net' = net /\ Ordered /\ m.type = "DATA" => ~Pending(c)'
  <1>1. up[c] \in Links /\ Tidy(up[c]) /\ up \in [Clients -> Links] /\ Next1(up[c]) # {}
    BY DEF LinksOK, StepInv
  <1>2. /\ Tidy(Rest(up[c]))
        /\ Ordered => (m.type = "DATA" => \A x : On(Rest(up[c]), x) => x.type # "CONN")
    BY <1>1, TidyRest
  <1>3. up' = [up EXCEPT ![c] = Rest(up[c])]
    BY DEF ReceivedFrom
  <1>4. \A d \in Clients : Tidy(up'[d])
    BY <1>1, <1>2, <1>3, TidyChange
  <1>5. Gains(up, up', c, {}) /\ m \in Packets /\ On(up[c], m)
    BY <1>1, Takes DEF ReceivedFrom
  <1>6. ASSUME net' = net, Ordered, m.type = "DATA" PROVE ~Pending(c)'
    <2>1. up'[c] = Rest(up[c])
      BY <1>1, <1>3
    <2>2. \A x : On(up[c], x)' = On(up'[c], x)
      BY <1>6, SameNet
    <2> QED BY <1>2, <1>6, <2>1, <2>2 DEF Pending, Ordered
  <1> QED BY <1>4, <1>5, <1>6

LEMMA OneBehind ==
  ASSUME NEW s \in Seq(Packets), NEW r \in Packets
  PROVE  Append(s, r) \in Seq(Packets) /\ Range(Append(s, r)) \subseteq Range(s) \cup {r}
  <1>1. /\ Append(s, r) \in Seq(Packets) /\ DOMAIN Append(s, r) = 1 .. Len(s) + 1
        /\ \A k \in 1 .. Len(s) + 1 : Append(s, r)[k] = IF k = Len(s) + 1 THEN r ELSE s[k]
        /\ Len(s) \in Nat /\ DOMAIN s = 1 .. Len(s)
    BY AppendProperties, LenProperties
  <1>2. ASSUME NEW k \in 1 .. Len(s) + 1 PROVE Append(s, r)[k] \in Range(s) \cup {r}
    <2>1. k = Len(s) + 1 \/ k \in 1 .. Len(s)
      BY <1>1
    <2>2. k \in 1 .. Len(s) => s[k] \in Range(s)
      BY <1>1 DEF Range
    <2> QED BY <1>1, <2>1, <2>2
  <1> QED BY <1>1, <1>2 DEF Range

LEMMA AcceptApart ==
  ASSUME SavedInv, StepInv, NEW c \in Clients, Accept(c)
  PROVE  StepInv'
  <1>1. LinksOK /\ ClientsOK /\ SessionOK
    BY DEF SavedInv
  <1>2. server.peer = c /\ client' = client /\ net' = net /\ opened' = opened /\ ReceivedFrom(c)
    BY DEF Accept, network
  <1>3. PICK m \in Next1(up[c]) :
          /\ OfSession(m) /\ Good(m)
          /\ \/ Finish(c, Append(printed, <<c, m.num>>), Acks(m))
             \/ server' = Counted(m) /\ ServerSends(c, Acks(m))
    BY DEF Accept
  <1>4. /\ m.num = server.num /\ server.num \in Nat /\ m.type = "DATA"
        /\ server.pc \in {"data", "first", "next"} /\ InSession(c)
    BY <1>2, <1>3, GoodPacket DEF Good, OfSession, InSession
  <1>5. /\ \A d \in Clients : Tidy(up'[d])
        /\ Gains(up, up', c, {})
        /\ On(up[c], m) /\ m \in Packets
        /\ Ordered => ~Pending(c)'
    BY <1>1, <1>2, <1>3, <1>4, TidyTake
  <1>6. ~Early(c) /\ (client[c].pc = "acc" => m.num <= client[c].num /\ client[c].num \in Nat)
    BY <1>1, <1>4, <1>5 DEF StepInv, Begun, Sent, ClientsOK, Client
  <1>7. ~Pending(c)'
    <2>1. CASE ~Ordered
      BY <2>1, <1>2, <1>4 DEF StepInv, Pending, Ordered
    <2> QED BY <2>1, <1>5
  <1>8. opened' \in Nat /\ opened <= opened' /\ (~Ordered /\ opened' = 0 => server'.pc \in {"listen", "conn"})
    BY <1>2, <1>4 DEF StepInv
  <1>9. Acks(m) \in Seq(Packets) /\ Range(Acks(m)) \subseteq {ACC(m.num)}
        /\ (server.pc = "data" => Acks(m) = <<>>)
    <2>1. ACC(m.num) \in Packets
      BY <1>4, Signs
    <2>2. <<ACC(m.num)>> \in Seq(Packets) /\ Range(<<ACC(m.num)>>) = {ACC(m.num)}
      BY <2>1, OnePacket
    <2> QED BY <2>2, NoPacket DEF Acks
  <1>10. CASE Finish(c, Append(printed, <<c, m.num>>), Acks(m))
    <2>1. Append(Acks(m), RCVD) \in Seq(Packets)
          /\ \A x \in Range(Append(Acks(m), RCVD)) : x.type \in {"ACC", "RCVD"}
      <3>1. RCVD \in Packets /\ RCVD.type = "RCVD" /\ ACC(m.num).type = "ACC"
        BY <1>4, Signs
      <3>2. /\ Append(Acks(m), RCVD) \in Seq(Packets)
            /\ Range(Append(Acks(m), RCVD)) \subseteq Range(Acks(m)) \cup {RCVD}
        BY <3>1, <1>9, OneBehind
      <3> QED BY <3>1, <3>2, <1>9
    <2>2. Gains(down, down', c, Range(Append(Acks(m), RCVD)))
      BY <1>1, <1>10, <2>1, Answers DEF Finish
    <2>3. server'.pc = "listen"
      BY <1>10 DEF Finish, Listening
    <2>4. \A d : ~InSession(d)'
      BY <2>3 DEF InSession
    <2>5. Confirms(c, Range(Append(Acks(m), RCVD)))
      BY <2>4, <1>6, <1>7 DEF Confirms
    <2> QED BY <2>2, <2>4, <2>5, <1>2, <1>5, <1>8, ServerApart
  <1>11. CASE server' = Counted(m) /\ ServerSends(c, Acks(m))
    <2>1. Gains(down, down', c, Range(Acks(m)))
      BY <1>1, <1>9, <1>11, Answers
    <2>2. /\ server'.pc = (IF server.pc = "data" THEN "data" ELSE "next")
          /\ server'.num = server.num + 1 /\ server'.peer = c
      <3>1. /\ Counted(m).pc = (IF server.pc = "first" THEN "next" ELSE server.pc)
            /\ Counted(m).num = server.num + 1 /\ Counted(m).peer = c
        BY <1>1, <1>2, <1>4 DEF SessionOK, Counted
      <3> QED BY <3>1, <1>4, <1>11
    <2>3. Confirms(c, Range(Acks(m)))
      <3>1. ACC(m.num).num = server.num
        BY <1>4 DEF ACC, Packet
      <3>2. \A x \in Range(Acks(m)) : server.pc # "data" /\ x.num = server.num
        BY <3>1, <1>9, NoPacket
      <3>3. server.num < server.num + 1
        BY <1>4
      <3> QED BY <3>2, <3>3, <2>2, <1>6, <1>7 DEF Confirms
    <2>4. Stands(c)
      <3>1. client[c].pc = "acc" => server'.num <= client[c].num + 1
        BY <2>2, <1>4, <1>6
      <3>2. ASSUME server'.pc = "next", opened' <= 1
            PROVE  /\ \A x : On(down[c], x) /\ x.type = "ACC" => x.num < server'.num
                   /\ client[c].pc = "acc" => client[c].num <= server'.num
        <4>1. Acked(c) /\ opened <= 1 /\ server.pc \in {"first", "next"}
          BY <3>2, <2>2, <1>2, <1>4 DEF StepInv
        <4>2. CASE server.pc = "first"
          BY <4>1, <4>2, <2>2, <1>4 DEF Acked, NoAckYet
        <4>3. CASE server.pc = "next"
          <5>1. /\ \A x : On(down[c], x) /\ x.type = "ACC" => x.num < server.num
                /\ client[c].pc = "acc" => client[c].num <= server.num
            BY <4>1, <4>3, <1>4 DEF Acked
          <5>2. \A x : On(down[c], x) => x.num \in Nat
            <6>1. down[c] \in Links
              BY <1>1 DEF LinksOK
            <6>2. \A x : On(down[c], x) => x \in Packets
              BY <6>1, OnPacket
            <6> QED BY <6>2 DEF Packets
          <5> QED BY <5>1, <5>2, <2>2, <1>4, <1>6
        <4> QED BY <4>1, <4>2, <4>3
      <3> QED BY <3>1, <3>2, <2>2, <1>4, <1>6, <1>7 DEF Stands
    <2>5. \A d \in Clients : InSession(d)' => d = c
      BY <2>2 DEF InSession
    <2> QED BY <2>1, <2>3, <2>4, <2>5, <1>2, <1>5, <1>8, ServerApart
  <1> QED BY <1>3, <1>10, <1>11

LEMMA OpenApart ==
  ASSUME SavedInv, StepInv, NEW c \in Clients, Open(c)
  PROVE  StepInv'
  <1>1. LinksOK /\ ClientsOK
    BY DEF SavedInv
  <1>2. client' = client /\ net' = net /\ ReceivedFrom(c) /\ CONN \in Next1(up[c])
        /\ opened' = IF Ordered THEN opened ELSE opened + 1
    BY DEF Open, network
  <1>3. /\ \A d \in Clients : Tidy(up'[d])
        /\ Gains(up, up', c, {}) /\ On(up[c], CONN) /\ CONN.type = "CONN"
    BY <1>1, <1>2, TidyTake, Signs
  <1>4. opened' \in Nat /\ opened <= opened' /\ ~(~Ordered /\ opened' = 0) /\ opened \in Nat
    BY <1>2 DEF StepInv
  <1>5. CONACC \in Packets /\ CONACC.type = "CONACC" /\ RCVD \in Packets /\ RCVD.type = "RCVD"
    BY Signs
  <1>6. CASE Finish(c, <<>>, <<CONACC>>)
    <2> DEFINE s == Append(<<CONACC>>, RCVD)
    <2>1. s \in Seq(Packets) /\ \A x \in Range(s) : x.type # "ACC"
      <3>1. <<CONACC>> \in Seq(Packets) /\ Range(<<CONACC>>) = {CONACC}
        BY <1>5, OnePacket
      <3>2. s \in Seq(Packets) /\ Range(s) \subseteq Range(<<CONACC>>) \cup {RCVD}
        BY <3>1, <1>5, OneBehind
      <3> QED BY <3>1, <3>2, <1>5
    <2> HIDE DEF s
    <2>0. Finish(c, <<>>, <<CONACC>>) => ServerSends(c, s)
      BY DEF Finish, s
    <2>2. Gains(down, down', c, Range(s)) /\ server'.pc = "listen"
      BY <1>1, <1>6, <2>0, <2>1, Answers DEF Finish, Listening
    <2>3. Confirms(c, Range(s)) /\ \A d : ~InSession(d)'
      BY <2>1, <2>2 DEF Confirms, InSession
    <2> QED BY <2>2, <2>3, <1>2, <1>3, <1>4, ServerApart
  <1>7. CASE /\ server' = [Listening EXCEPT !.peer = c, !.size = client[c].len,
                             !.pc = IF client[c].protocol = "udpr" THEN "first" ELSE "data"]
             /\ ServerSends(c, <<CONACC>>)
    <2>1. Gains(down, down', c, {CONACC})
      BY <1>1, <1>5, <1>7, AnswersOne
    <2>2. server'.pc \in {"data", "first"} /\ server'.peer = c /\ server'.num = 0
      BY <1>7 DEF Listening
    <2>3. opened' <= 1 => NoAckYet(c)
      <3>1. opened' <= 1 => Pending(c)
        BY <1>2, <1>3, <1>4 DEF Pending
      <3> QED BY <3>1 DEF StepInv, Unopened
    <2>4. client[c].pc = "acc" => client[c].num \in Nat
      BY <1>1 DEF ClientsOK, Client
    <2>5. Stands(c)
      BY <2>2, <2>3, <2>4 DEF Stands
    <2>6. Confirms(c, {CONACC}) /\ \A d \in Clients : InSession(d)' => d = c
      BY <1>5, <2>2 DEF Confirms, InSession
    <2> QED BY <2>1, <2>5, <2>6, <1>2, <1>3, <1>4, ServerApart
  <1> QED BY <1>6, <1>7 DEF Open

LEMMA RetransmitApart ==
  ASSUME SavedInv, StepInv, NEW c \in Clients, ServerRetransmits(c)
  PROVE  StepInv'
  <1>1. LinksOK /\ SessionOK /\ up \in [Clients -> Links] /\ \A d \in Clients : Tidy(up[d])
    BY DEF SavedInv, LinksOK, StepInv
  <1>2. /\ server.peer = c /\ server.pc \in {"first", "next"} /\ client' = client /\ net' = net
        /\ opened' = opened /\ up' = up /\ ServerSends(c, <<Repeated(c)>>)
        /\ server'.pc = server.pc /\ server'.peer = c /\ server'.num = server.num
    BY <1>1 DEF ServerRetransmits, network, SessionOK
  <1>3. Gains(up, up', c, {}) /\ \A d \in Clients : Tidy(up'[d])
    BY <1>1, <1>2, Keeps
  <1>4. CASE server.pc = "first"
    <2>1. Repeated(c) = CONACC /\ CONACC \in Packets /\ CONACC.type = "CONACC"
      BY <1>4, Signs DEF Repeated
    <2>2. Gains(down, down', c, {Repeated(c)})
      BY <2>1, <1>1, <1>2, AnswersOne
    <2> QED BY <2>1, <2>2, <1>2, <1>3, ServerPauses
  <1>5. CASE server.pc = "next"
    <2>1. server.num \in Nat /\ server.num > 0
      BY <1>1, <1>5 DEF SessionOK
    <2>2. server.num - 1 \in Nat
      BY <2>1
    <2>3. /\ Repeated(c) = ACC(server.num - 1) /\ Repeated(c) \in Packets
          /\ Repeated(c).num = server.num - 1
      BY <2>2, <1>5, Signs DEF Repeated, ACC, Packet
    <2>4. Gains(down, down', c, {Repeated(c)})
      BY <2>3, <1>1, <1>2, AnswersOne
    <2>5. InSession(c) /\ ~Early(c)
      BY <2>1, <1>2, <1>5 DEF StepInv, Begun, InSession
    <2>6. ~Pending(c)
      BY <2>5, <1>2, <1>5 DEF StepInv, Settled, Pending
    <2>7. ~Pending(c)'
      BY <2>6, <1>2 DEF Pending, On, Ordered
    <2>8. Repeated(c).num < server'.num
      BY <2>1, <2>3, <1>2
    <2>9. Confirms(c, {Repeated(c)})
      BY <2>5, <2>7, <2>8, <1>2, <1>5 DEF Confirms
    <2>10. /\ \A d \in Clients : InSession(d)' => InSession(d) /\ server'.pc = server.pc /\ server'.num = server.num
           /\ opened' \in Nat /\ opened <= opened' /\ (~Ordered /\ opened' = 0 => server'.pc \in {"listen", "conn"})
      BY <1>2, <1>5 DEF InSession, StepInv
    <2> QED BY <2>4, <2>9, <2>10, <1>2, <1>3, ServerApart
  <1> QED BY <1>2, <1>4, <1>5

LEMMA AbortApart ==
  ASSUME SavedInv, StepInv, NEW c \in Clients, NEW ps \in Seq(Packets), Abort(c, ps),
         \A m \in Range(ps) : m.type # "ACC",
         client' = client, net' = net, opened' = opened, Gains(up, up', c, {}),
         \A d \in Clients : Tidy(up'[d])
  PROVE  StepInv'
  <1>1. Gains(down, down', c, Range(ps)) /\ server'.pc = "listen"
    BY Answers DEF SavedInv, Abort, Listening
  <1> QED BY <1>1, ServerPauses

LEMMA ServerStepApart ==
  ASSUME SavedInv, StepInv, NEW c \in Clients, ServerStep(c)
  PROVE  StepInv'
  <1>1. /\ LinksOK /\ SessionOK /\ up \in [Clients -> Links] /\ down \in [Clients -> Links]
        /\ \A d \in Clients : Tidy(up[d])
    BY DEF SavedInv, LinksOK, StepInv
  <1>2. ASSUME AcceptConnection(c) PROVE StepInv'
    <2>1. client' = client /\ net' = net /\ opened' = opened /\ server'.num = 0
          /\ server'.pc = "conn" /\ server'.peer = c
      BY <1>2 DEF AcceptConnection, Listening, network
    <2>2. Gains(up, up', c, {}) /\ Gains(down, down', c, {}) /\ \A d \in Clients : Tidy(up'[d])
      BY <1>1, <1>2, TidyTake, Keeps DEF AcceptConnection
    <2>3. client[c].pc = "acc" => client[c].num \in Nat
      BY DEF SavedInv, ClientsOK, Client
    <2>4. Stands(c) /\ Confirms(c, {}) /\ \A d \in Clients : InSession(d)' => d = c
      BY <2>1, <2>3 DEF Stands, Confirms, InSession
    <2>5. opened' \in Nat /\ opened <= opened'
      BY <2>1 DEF StepInv
    <2> QED BY <2>1, <2>2, <2>4, <2>5, ServerApart
  <1>3. ASSUME Reject(c) PROVE StepInv'
    <2> DEFINE p == IF Stream THEN FIN ELSE RJT(server.num)
    <2>1. client' = client /\ net' = net /\ opened' = opened /\ Abort(c, <<p>>)
      BY <1>3 DEF Reject, network
    <2>2. Gains(up, up', c, {}) /\ \A d \in Clients : Tidy(up'[d])
      BY <1>1, <1>3, TidyTake DEF Reject
    <2>3. p \in Packets /\ p.type # "ACC"
      <3>1. server.num \in Nat
        BY <1>1 DEF SessionOK
      <3> QED BY <3>1, Signs
    <2> HIDE DEF p
    <2>4. <<p>> \in Seq(Packets) /\ \A m \in Range(<<p>>) : m.type # "ACC"
      BY <2>3, OnePacket
    <2> QED BY <2>1, <2>2, <2>4, AbortApart
  <1>4. ASSUME RefuseOther(c) PROVE StepInv'
    <2>1. client' = client /\ net' = net /\ opened' = opened /\ server' = server
      BY <1>4 DEF RefuseOther, network, session
    <2>2. Gains(up, up', c, {}) /\ \A d \in Clients : Tidy(up'[d])
      BY <1>1, <1>4, TidyTake DEF RefuseOther
    <2>3. Gains(down, down', c, {CONRJT}) /\ CONRJT.type # "ACC"
      BY <1>1, <1>4, AnswersOne, Signs DEF RefuseOther
    <2> QED BY <2>1, <2>2, <2>3, ServerPauses
  <1>5. ASSUME ServerIgnores(c) PROVE StepInv'
    <2>1. client' = client /\ net' = net /\ opened' = opened /\ server' = server
      BY <1>5 DEF ServerIgnores, network, session
    <2>2. Gains(up, up', c, {}) /\ \A d \in Clients : Tidy(up'[d])
      BY <1>1, <1>5, TidyTake DEF ServerIgnores
    <2>3. Gains(down, down', c, {})
      BY <1>1, <1>5, Keeps DEF ServerIgnores
    <2> QED BY <2>1, <2>2, <2>3, ServerPauses
  <1>6. ASSUME ServerGivesUp(c) PROVE StepInv'
    <2>1. /\ client' = client /\ net' = net /\ opened' = opened /\ Abort(c, Closing)
          /\ Gains(up, up', c, {}) /\ \A d \in Clients : Tidy(up'[d])
      BY <1>1, <1>6, Keeps DEF ServerGivesUp, Blames
    <2>2. Closing \in Seq(Packets) /\ \A m \in Range(Closing) : m.type # "ACC"
      BY Closes
    <2> QED BY <2>1, <2>2, AbortApart
  <1> QED BY <1>2, <1>3, <1>4, <1>5, <1>6, OpenApart, AcceptApart, RetransmitApart DEF ServerStep

LEMMA LoseApart ==
  ASSUME SavedInv, StepInv, NEW c \in Clients, Lose(c)
  PROVE  StepInv'
  <1>1. LinksOK /\ up \in [Clients -> Links] /\ down \in [Clients -> Links] /\ \A d \in Clients : Tidy(up[d])
    BY DEF SavedInv, LinksOK, StepInv
  <1>2. client' = client /\ net' = net /\ opened' = opened /\ server' = server
    BY DEF Lose, session
  <1>3. Ordered /\ \A l : l # <<>> => Head(l) \in Next1(l)
    BY DEF Lose, Ordered, Next1
  <1>4. Gains(up, up', c, {}) /\ Gains(down, down', c, {}) /\ \A d \in Clients : Tidy(up'[d])
    <2>1. CASE up[c] # <<>> /\ ReceivedFrom(c) /\ UNCHANGED down
      BY <1>1, <1>3, <2>1, TidyTake, Keeps
    <2>2. CASE down[c] # <<>> /\ Received(c) /\ UNCHANGED up
      BY <1>1, <1>3, <2>2, Takes, Keeps DEF Received
    <2> QED BY <2>1, <2>2 DEF Lose
  <1> QED BY <1>2, <1>4, ServerPauses

LEMMA NextStep == SavedInv /\ StepInv /\ [Next]_vars => StepInv'
  <1> SUFFICES ASSUME SavedInv, StepInv, [Next]_vars PROVE StepInv'
    OBVIOUS
  <1>1. CASE Next
    <2>1. PICK c \in Clients : ClientStep(c) \/ ServerStep(c) \/ Lose(c)
      BY <1>1 DEF Next
    <2> QED BY <2>1, ClientStepApart, ServerStepApart, LoseApart
  <1>2. CASE UNCHANGED vars
    <2>1. /\ client' = client /\ up' = up /\ down' = down /\ net' = net
          /\ server' = server /\ opened' = opened
      BY <1>2 DEF vars, session, network
    <2> QED BY <2>1 DEF StepInv, Tidy, Begun, Sent, Unopened, Acked, Settled, Pending, NoAckYet,
                        InSession, Early, On, Ordered
  <1> QED BY <1>1, <1>2

-----------------------------------------------------------------------------
(* Types: what is counted stays within its bounds.                          *)

Bounded ==
  /\ \A c \in Clients : client[c].attempts \in 0 .. MAX_RETRANSMITS
  /\ \A c \in Clients : client[c].pc # "acc" => client[c].num = 0
  /\ server.attempts \in 0 .. MAX_RETRANSMITS
  /\ server.pc = "listen" => server.peer = Nobody
  /\ saved \subseteq Clients

LEMMA InitBounded == Init => Bounded
  <1> SUFFICES ASSUME Init PROVE Bounded
    OBVIOUS
  <1>1. ASSUME NEW c \in Clients PROVE client[c].attempts = 0 /\ client[c].num = 0
    <2>1. client \in [Clients -> [protocol : IF Stream THEN {"tcp"} ELSE Protocols,
                                  len : Lengths, pc : {"start"}, attempts : {0}, num : {0}]]
      BY DEF Init
    <2> DEFINE P == IF Stream THEN {"tcp"} ELSE Protocols
    <2> HIDE DEF P
    <2>2. client \in [Clients -> [protocol : P, len : Lengths, pc : {"start"}, attempts : {0}, num : {0}]]
      BY <2>1 DEF P
    <2> QED BY <2>2
  <1>2. server.pc = "listen" /\ server.peer = Nobody /\ server.attempts = 0 /\ saved = {}
    BY DEF Init
  <1> QED BY <1>1, <1>2 DEF Bounded

LEMMA WaitsBounded ==
  ASSUME Bounded, client \in [Clients -> Client], NEW c \in Clients, NEW pc, NEW num, ClientWaits(c, pc, num),
         pc # "acc" => num = 0
  PROVE  /\ \A d \in Clients : client'[d].attempts \in 0 .. MAX_RETRANSMITS
         /\ \A d \in Clients : client'[d].pc # "acc" => client'[d].num = 0
  <1>1. /\ client'[c].attempts = 0 /\ client'[c].pc = pc /\ client'[c].num = num
        /\ \A d \in Clients : d # c => client'[d] = client[d]
    BY DEF ClientWaits, Client
  <1>2. 0 \in 0 .. MAX_RETRANSMITS
    OBVIOUS
  <1> QED BY <1>1, <1>2 DEF Bounded

LEMMA ClientStepBounded ==
  ASSUME SavedInv, Bounded, NEW c \in Clients, ClientStep(c)
  PROVE  Bounded'
  <1>0. client \in [Clients -> Client]
    BY DEF SavedInv, ClientsOK
  <1> DEFINE Fine == /\ \A d \in Clients : client'[d].attempts \in 0 .. MAX_RETRANSMITS
                     /\ \A d \in Clients : client'[d].pc # "acc" => client'[d].num = 0
  <1>1. UNCHANGED session
    BY DEF ClientStep, ClientConnects, ClientStart, ConaccArrives, AccArrives, ClientIgnores, RcvdArrives,
           ConrjtArrives, ClientFails, ClientTimesOut
  <1>2. ASSUME NEW pc, NEW num, ClientWaits(c, pc, num), pc # "acc" => num = 0 PROVE Fine
    BY <1>0, <1>2, WaitsBounded
  <1> HIDE DEF Fine
  <1>3. ASSUME NEW n, SendFrom(c, n) PROVE Fine
    BY <1>2, <1>3 DEF SendFrom
  <1>4. ASSUME NEW pc \in {"done", "failed", "refused"}, Exit(c, pc) PROVE Fine
    BY <1>2, <1>4 DEF Exit
  <1>5. ASSUME ClientConnects(c) \/ ClientStart(c) PROVE Fine
    BY <1>2, <1>5 DEF ClientConnects, ClientStart
  <1>6. ASSUME ConaccArrives(c) \/ AccArrives(c) PROVE Fine
    BY <1>2, <1>3, <1>6 DEF ConaccArrives, AccArrives
  <1>7. ASSUME RcvdArrives(c) \/ ConrjtArrives(c) \/ ClientFails(c) PROVE Fine
    BY <1>4, <1>7 DEF RcvdArrives, ConrjtArrives, ClientFails
  <1>8. ASSUME ClientIgnores(c) PROVE Fine
    BY <1>8 DEF ClientIgnores, Bounded, Fine
  <1>9. ASSUME ClientTimesOut(c) PROVE Fine
    <2>1. CASE Exit(c, "failed")
      BY <2>1, <1>4
    <2>2. ASSUME client[c].attempts < MAX_RETRANSMITS, client' = [client EXCEPT ![c].attempts = @ + 1]
          PROVE  Fine
      <3>1. /\ client'[c].attempts = client[c].attempts + 1 /\ client'[c].pc = client[c].pc
            /\ client'[c].num = client[c].num
            /\ \A d \in Clients : d # c => client'[d] = client[d]
        BY <1>0, <2>2 DEF Client
      <3>2. client[c].attempts + 1 \in 0 .. MAX_RETRANSMITS
        BY <2>2 DEF Bounded
      <3> QED BY <3>1, <3>2 DEF Bounded, Fine
    <2> QED BY <1>9, <2>1, <2>2 DEF ClientTimesOut
  <1>10. Fine
    BY <1>5, <1>6, <1>7, <1>8, <1>9, <1>2 DEF ClientStep
  <1> QED BY <1>1, <1>10 DEF Bounded, session, Fine

LEMMA ServerStepBounded ==
  ASSUME SavedInv, Bounded, NEW c \in Clients, ServerStep(c) \/ Lose(c)
  PROVE  Bounded'
  <1> DEFINE Fine == /\ server'.attempts \in 0 .. MAX_RETRANSMITS
                     /\ server'.pc = "listen" => server'.peer = Nobody
                     /\ saved' \subseteq Clients
  <1>0. 0 \in 0 .. MAX_RETRANSMITS /\ saved \subseteq Clients
    BY DEF Bounded
  <1>1. client' = client
    BY DEF ServerStep, AcceptConnection, Open, Accept, Reject, RefuseOther, ServerIgnores,
           ServerRetransmits, ServerGivesUp, Lose
  <1>2. server.attempts \in 0 .. MAX_RETRANSMITS /\ (server.pc = "listen" => server.peer = Nobody)
    BY DEF Bounded
  <1>3. ASSUME NEW all, NEW ps, Finish(c, all, ps) PROVE Fine
    BY <1>0, <1>3 DEF Finish, Listening
  <1>4. ASSUME NEW ps, Abort(c, ps) PROVE Fine
    BY <1>0, <1>4 DEF Abort, Listening
  <1>5. ASSUME AcceptConnection(c) PROVE Fine
    BY <1>0, <1>5 DEF AcceptConnection, Listening
  <1>6. ASSUME Open(c) PROVE Fine
    BY <1>0, <1>3, <1>6 DEF Open, Listening
  <1>7. ASSUME Accept(c) PROVE Fine
    <2>1. ASSUME NEW m \in Next1(up[c]), OfSession(m), server' = Counted(m), saved' = saved PROVE Fine
      <3>1. server'.attempts = 0 /\ server'.pc # "listen"
        <4>1. server.pc # "listen" /\ Counted(m).pc # "listen" /\ Counted(m).attempts = 0
          BY <2>1 DEF SavedInv, SessionOK, Counted, OfSession
        <4> QED BY <4>1, <2>1
      <3> QED BY <3>1, <2>1, <1>0
    <2> HIDE DEF Fine
    <2> QED BY <1>3, <1>7, <2>1 DEF Accept
  <1>8. ASSUME Reject(c) \/ ServerGivesUp(c) PROVE Fine
    BY <1>4, <1>8 DEF Reject, ServerGivesUp
  <1>9. ASSUME RefuseOther(c) \/ ServerIgnores(c) \/ Lose(c) PROVE Fine
    BY <1>0, <1>2, <1>9 DEF RefuseOther, ServerIgnores, Lose, session
  <1>10. ASSUME ServerRetransmits(c) PROVE Fine
    <2>1. server'.attempts = server.attempts + 1 /\ server'.pc = server.pc /\ server'.peer = server.peer
          /\ server.attempts < MAX_RETRANSMITS /\ saved' = saved
      BY <1>10 DEF ServerRetransmits, SavedInv, SessionOK
    <2> QED BY <1>0, <1>2, <2>1
  <1> HIDE DEF Fine
  <1>11. Fine
    BY <1>5, <1>6, <1>7, <1>8, <1>9, <1>10 DEF ServerStep, Fine
  <1> QED BY <1>1, <1>11 DEF Bounded, Fine

LEMMA NextBounded == SavedInv /\ Bounded /\ [Next]_vars => Bounded'
  <1> SUFFICES ASSUME SavedInv, Bounded, [Next]_vars PROVE Bounded'
    OBVIOUS
  <1>1. CASE Next
    <2>1. PICK c \in Clients : ClientStep(c) \/ ServerStep(c) \/ Lose(c)
      BY <1>1 DEF Next
    <2> QED BY <2>1, ClientStepBounded, ServerStepBounded
  <1>2. CASE UNCHANGED vars
    BY <1>2 DEF vars, session, network, Bounded
  <1> QED BY <1>1, <1>2

LEMMA Typed == SavedInv /\ Bounded => TypeOK
  <1> SUFFICES ASSUME SavedInv, Bounded PROVE TypeOK
    OBVIOUS
  <1>1. ClientsOK /\ SessionOK
    BY DEF SavedInv
  <1>2. ASSUME NEW c \in Clients PROVE client[c].num \in 0 .. Count(c) /\ client[c] \in Client
    <2>1. Count(c) \in Nat /\ client[c] \in Client /\ client[c].num \in Nat
      BY <1>1, Counts DEF ClientsOK, Client
    <2>2. client[c].pc = "acc" => client[c].num < Count(c)
      BY <2>1, <1>1, Counts DEF ClientsOK
    <2> QED BY <2>1, <2>2 DEF Bounded
  <1>3. server.peer \in Clients <=> server.pc # "listen"
    BY <1>1, NobodyAssumption DEF SessionOK, Bounded
  <1>4. server.pc \in {"listen", "conn", "data", "first", "next"}
    BY <1>1 DEF SessionOK
  <1> QED BY <1>2, <1>3, <1>4 DEF TypeOK, Bounded, Client

LEMMA Together == SavedInv /\ StepInv => InStep
  <1> SUFFICES ASSUME SavedInv, StepInv, NEW c \in Clients,
                      client[c].pc = "acc", server.pc = "next", server.peer = c, opened <= 1
               PROVE  server.num \in {client[c].num, client[c].num + 1}
    BY DEF InStep
  <1>1. client[c].num \in Nat /\ server.num \in Nat
    BY DEF SavedInv, ClientsOK, SessionOK, Client
  <1>2. server.num <= client[c].num + 1 /\ client[c].num <= server.num
    BY DEF StepInv, Sent, Acked, InSession
  <1> QED BY <1>1, <1>2

(* The client and the server of the first session of a network stay within  *)
(* a packet of each other, whatever is lost, repeated or late: the client   *)
(* (client_udpr.c:238) goes on after the ACC of the packet it has sent, the *)
(* server (server_udpr.c:137) after that packet.                            *)
THEOREM StayInStep == Spec => []InStep
  BY Together, InitSaved, NextSaved, InitStep, NextStep, PTL DEF Spec

(* All that the run ppcb checks as the invariant of the protocol.           *)
THEOREM ProtocolInvariance == Spec => []PpcbInv
  <1>1. Init => SavedInv /\ StepInv /\ Bounded
    BY InitSaved, InitStep, InitBounded
  <1>2. SavedInv /\ StepInv /\ Bounded /\ [Next]_vars => (SavedInv /\ StepInv /\ Bounded)'
    BY NextSaved, NextStep, NextBounded
  <1>3. SavedInv /\ StepInv /\ Bounded => PpcbInv
    BY Typed, Together, SavedPrefix DEF PpcbInv
  <1> QED BY <1>1, <1>2, <1>3, PTL DEF Spec
-----------------------------------------------------------------------------
(* On ordered links, what fails a client.  As long as nothing that matters  *)
(* is lost, the client, its two links and its session are in one of a few   *)
(* places, with at most one packet or one run of packets on its way: none   *)
(* of the two ever times out but a client whose CONN was lost.              *)

NoHarm(c) ==
  /\ Ordered
  /\ IF client[c].protocol = "udpr" THEN client[c].len # 0 /\ lost[c] \subseteq {"CONN"}
                                    ELSE lost[c] = {}

At(c, pc, there, back) == client[c].pc = pc /\ up[c] = there /\ down[c] = back

(* The session is that of c, expects packet n and has not timed out.       *)
Serves(c, pc, n) == server.peer = c /\ server.pc = pc /\ server.num = n /\ server.attempts = 0
NotServed(c) == server.peer # c

Reliable(c) == client[c].protocol = "udpr"

Resting(c) == At(c, "start", <<>>, <<>>) /\ NotServed(c)

Connecting(c) ==
  /\ Stream
  /\ \/ At(c, "connected", <<SYN>>, <<>>) /\ NotServed(c)
     \/ At(c, "connected", <<>>, <<>>) /\ Serves(c, "conn", 0)

CallsStream(c) ==
  /\ Stream
  /\ \/ At(c, "conacc", <<SYN, CONN>>, <<>>) /\ NotServed(c)
     \/ At(c, "conacc", <<CONN>>, <<>>) /\ Serves(c, "conn", 0)

(* Each repetition of CONN is one for which a CONN was lost.               *)
CallsOut(c) ==
  /\ ~Stream /\ NotServed(c)
  /\ \/ At(c, "conacc", <<CONN>>, <<>>) /\ client[c].attempts <= losses
     \/ At(c, "conacc", <<>>, <<>>) /\ client[c].attempts < losses /\ Reliable(c)

TurnedAway(c) == At(c, "conacc", <<>>, <<CONRJT>>) /\ NotServed(c)

Welcomed(c) ==
  /\ At(c, "conacc", <<>>, <<CONACC>>) /\ client[c].len # 0
  /\ Serves(c, IF Reliable(c) THEN "first" ELSE "data", 0)

Nothing(c) ==
  /\ At(c, "conacc", <<>>, <<CONACC, RCVD>>) /\ NotServed(c)
  /\ client[c].len = 0 /\ ~Reliable(c)

SendsPacket(c) ==
  LET n == client[c].num IN
  /\ At(c, "acc", <<DATA(c, n)>>, <<>>) /\ Reliable(c) /\ client[c].attempts = 0
  /\ Serves(c, IF n = 0 THEN "first" ELSE "next", n)

IsAcked(c) ==
  LET n == client[c].num IN
  /\ At(c, "acc", <<>>, <<ACC(n)>>) /\ Reliable(c) /\ More(c, n + 1)
  /\ Serves(c, "next", n + 1)

IsAckedLast(c) ==
  LET n == client[c].num IN
  /\ At(c, "acc", <<>>, <<ACC(n), RCVD>>) /\ Reliable(c) /\ ~More(c, n + 1)
  /\ NotServed(c)

SendsAll(c) ==
  LET n == server.num IN
  /\ At(c, "rcvd", SubSeq(AllData(c), n + 1, Count(c)), <<>>) /\ ~Reliable(c) /\ client[c].attempts = 0
  /\ Serves(c, "data", n) /\ n < Count(c)

Confirmed(c) == At(c, "rcvd", <<>>, <<RCVD>>) /\ NotServed(c)

Over(c) == client[c].pc \in {"done", "refused"}

Smooth(c) ==
  \/ Resting(c) \/ Connecting(c) \/ CallsStream(c) \/ CallsOut(c) \/ TurnedAway(c) \/ Welcomed(c) \/ Nothing(c)
  \/ SendsPacket(c) \/ IsAcked(c) \/ IsAckedLast(c) \/ SendsAll(c) \/ Confirmed(c) \/ Over(c)

CauseInv ==
  /\ losses \in Nat /\ losses <= MaxLost
  /\ lost \in [Clients -> SUBSET (PacketType \cup {"time"})]
  /\ \A c \in Clients : Stream <=> client[c].protocol = "tcp"
  /\ \A c \in Clients : NoHarm(c) => Smooth(c)

LEMMA InitCause == Init => CauseInv
  <1> SUFFICES ASSUME Init PROVE CauseInv
    OBVIOUS
  <1> DEFINE P == IF Stream THEN {"tcp"} ELSE Protocols
  <1>1. client \in [Clients -> [protocol : P, len : Lengths, pc : {"start"}, attempts : {0}, num : {0}]]
    BY DEF Init
  <1>2. ASSUME NEW c \in Clients PROVE client[c].pc = "start" /\ (Stream <=> client[c].protocol = "tcp")
    <2>1. client[c] \in [protocol : P, len : Lengths, pc : {"start"}, attempts : {0}, num : {0}]
      BY <1>1
    <2> QED BY <2>1
  <1>3. ASSUME NEW c \in Clients, NoHarm(c) PROVE Resting(c)
    <2>1. up[c] = Empty /\ down[c] = Empty /\ server.peer = Nobody
      BY DEF Init
    <2>2. Empty = <<>>
      BY <1>3 DEF NoHarm, Empty
    <2> QED BY <1>2, <2>1, <2>2, NobodyAssumption DEF Resting, At, NotServed
  <1>4. /\ losses = 0 /\ lost = [c \in Clients |-> {}]
    BY DEF Init
  <1> QED BY <1>2, <1>3, <1>4 DEF CauseInv, Smooth

(* Short links.                                                            *)
LEMMA ShortLinks ==
  ASSUME Ordered
  PROVE  /\ Empty = <<>>
         /\ Next1(<<>>) = {}
         /\ \A x : Next1(<<x>>) = {x} /\ Rest(<<x>>) = <<>> /\ With(<<>>, <<x>>) = <<x>>
         /\ \A x, y : Next1(<<x, y>>) = {x} /\ Rest(<<x, y>>) = <<y>> /\ With(<<x>>, <<y>>) = <<x, y>>
         /\ \A x, y : With(<<>>, <<x, y>>) = <<x, y>>
         /\ \A l \in Seq(Packets) : With(<<>>, l) = l
         /\ \A x : Append(<<>>, x) = <<x>>
         /\ \A x, y : Append(<<x>>, y) = <<x, y>>
         /\ \A x : <<x>> # <<>>
         /\ \A x, y : <<x, y>> # <<>>
  <1>1. Empty = <<>> /\ Next1(<<>>) = {}
    BY DEF Empty, Next1
  <1>2. ASSUME NEW x PROVE /\ Next1(<<x>>) = {x} /\ Rest(<<x>>) = <<>> /\ With(<<>>, <<x>>) = <<x>>
                           /\ Append(<<>>, x) = <<x>> /\ <<x>> # <<>>
    BY DEF Next1, Rest, With
  <1>3. ASSUME NEW x, NEW y
        PROVE  /\ Next1(<<x, y>>) = {x} /\ Rest(<<x, y>>) = <<y>> /\ With(<<x>>, <<y>>) = <<x, y>>
               /\ With(<<>>, <<x, y>>) = <<x, y>> /\ Append(<<x>>, y) = <<x, y>> /\ <<x, y>> # <<>>
    <2>1. Next1(<<x, y>>) = {x} /\ <<x, y>> # <<>>
      BY DEF Next1
    <2>2. Rest(<<x, y>>) = <<y>>
      BY DEF Rest
    <2>0. <<x>> \in Seq({x, y}) /\ <<y>> \in Seq({x, y}) /\ <<x, y>> \in Seq({x, y})
          /\ Len(<<x>>) = 1 /\ Len(<<y>>) = 1 /\ Len(<<x, y>>) = 2
      OBVIOUS
    <2>3. With(<<x>>, <<y>>) = <<x, y>>
      <3>1. /\ <<x>> \o <<y>> \in Seq({x, y}) /\ Len(<<x>> \o <<y>>) = 2
            /\ (<<x>> \o <<y>>)[1] = x /\ (<<x>> \o <<y>>)[2] = y
        BY <2>0, ConcatProperties
      <3>2. \A i \in 1 .. Len(<<x>> \o <<y>>) : (<<x>> \o <<y>>)[i] = <<x, y>>[i]
        BY <3>1
      <3>3. <<x>> \o <<y>> = <<x, y>>
        BY <2>0, <3>1, <3>2, SeqEqual
      <3> QED BY <3>3 DEF With
    <2>4. With(<<>>, <<x, y>>) = <<x, y>>
      BY DEF With
    <2>5. Append(<<x>>, y) = <<x, y>>
      <3>1. /\ Append(<<x>>, y) \in Seq({x, y}) /\ Len(Append(<<x>>, y)) = 2
            /\ Append(<<x>>, y)[1] = x /\ Append(<<x>>, y)[2] = y
        BY <2>0, AppendProperties
      <3>2. \A i \in 1 .. Len(Append(<<x>>, y)) : Append(<<x>>, y)[i] = <<x, y>>[i]
        BY <3>1
      <3> QED BY <2>0, <3>1, <3>2, SeqEqual
    <2> QED BY <2>1, <2>2, <2>3, <2>4, <2>5
  <1>4. ASSUME NEW l \in Seq(Packets) PROVE With(<<>>, l) = l
    BY DEF With
  <1> QED BY <1>1, <1>2, <1>3, <1>4

(* Nothing arrives on an empty link. *)
LEMMA NothingForClient ==
  ASSUME Ordered, NEW c \in Clients, down[c] = <<>>
  PROVE  /\ ~ConaccArrives(c) /\ ~AccArrives(c) /\ ~ClientIgnores(c)
         /\ ~RcvdArrives(c) /\ ~ConrjtArrives(c) /\ ~ClientFails(c)
  <1>1. Next1(down[c]) = {}
    BY DEF Next1
  <1> QED BY <1>1 DEF ConaccArrives, AccArrives, ClientIgnores, RcvdArrives, ConrjtArrives, ClientFails, Arrives

LEMMA NothingForServer ==
  ASSUME Ordered, NEW c \in Clients, up[c] = <<>>
  PROVE  /\ ~AcceptConnection(c) /\ ~Open(c) /\ ~Accept(c)
         /\ ~Reject(c) /\ ~RefuseOther(c) /\ ~ServerIgnores(c)
  <1>1. Next1(up[c]) = {}
    BY DEF Next1
  <1> QED BY <1>1 DEF AcceptConnection, Open, Accept, Reject, RefuseOther, ServerIgnores

LEMMA NotInSession ==
  ASSUME NEW c \in Clients, NotServed(c)
  PROVE  ~Accept(c) /\ ~Reject(c) /\ ~ServerRetransmits(c) /\ ~ServerGivesUp(c)
  BY DEF NotServed, Accept, Reject, ServerRetransmits, ServerGivesUp

(* What is lost, and too slow a host over tcp, does harm. *)
LEMMA LossHarms ==
  ASSUME CauseInv, NEW c \in Clients, Lose(c), NoHarm(c)'
  PROVE  Reliable(c) /\ \E m \in Next1(up[c]) \cup Next1(down[c]) : m.type = "CONN"
  <1>1. PICK m \in Next1(up[c]) \cup Next1(down[c]) : lost' = [lost EXCEPT ![c] = @ \cup {m.type}]
    BY DEF Lose
  <1>2. lost'[c] = lost[c] \cup {m.type}
    BY <1>1 DEF CauseInv
  <1>3. Reliable(c)' <=> Reliable(c)
    BY DEF Lose, Reliable
  <1> QED BY <1>2, <1>3 DEF NoHarm, Reliable

LEMMA SlownessHarms ==
  ASSUME CauseInv, NEW c \in Clients, Blames(c), NoHarm(c)', Stream, client'[c].protocol = client[c].protocol
  PROVE  FALSE
  <1>1. lost' = [lost EXCEPT ![c] = @ \cup {"time"}]
    BY DEF Blames
  <1>2. lost'[c] # {} /\ client'[c].protocol = "tcp"
    BY <1>1 DEF CauseInv
  <1> QED BY <1>2 DEF NoHarm

-----------------------------------------------------------------------------
(* A step of c leaves the others, their links and their session alone.      *)

Apart(c) ==
  /\ \A d \in Clients : client'[d].protocol = client[d].protocol /\ client'[d].len = client[d].len
  /\ \A d \in Clients \ {c} : client'[d] = client[d] /\ up'[d] = up[d] /\ down'[d] = down[d]

Losses(c) ==
  /\ net' = net
  /\ lost' \in [Clients -> SUBSET (PacketType \cup {"time"})]
  /\ lost[c] \subseteq lost'[c] /\ \A d \in Clients \ {c} : lost'[d] = lost[d]
  /\ losses' \in Nat /\ losses <= losses' /\ losses' <= MaxLost

SessionApart(c) ==
  \A d \in Clients \ {c} : IF server.peer = d THEN server' = server ELSE server'.peer # d

LEMMA WaitsFor ==
  ASSUME ClientsOK, NEW c \in Clients, NEW pc, NEW num, ClientWaits(c, pc, num)
  PROVE  /\ client'[c].pc = pc /\ client'[c].num = num /\ client'[c].attempts = 0
         /\ client'[c].protocol = client[c].protocol /\ client'[c].len = client[c].len
         /\ \A d \in Clients \ {c} : client'[d] = client[d]
  <1>1. client \in [Clients -> Client] /\ client[c] \in Client
    BY DEF ClientsOK
  <1> DEFINE r == [[[client[c] EXCEPT !.pc = pc] EXCEPT !.num = num] EXCEPT !.attempts = 0]
  <1>2. r.len = client[c].len /\ r.protocol = client[c].protocol
        /\ r.pc = pc /\ r.num = num /\ r.attempts = 0
    BY <1>1 DEF Client
  <1>3. client' = [client EXCEPT ![c] = r]
    BY <1>1 DEF ClientWaits
  <1> HIDE DEF r
  <1>4. client'[c] = r /\ \A d \in Clients \ {c} : client'[d] = client[d]
    BY <1>1, <1>3
  <1> QED BY <1>2, <1>4

LEMMA Repeats ==
  ASSUME ClientsOK, NEW c \in Clients, client' = [client EXCEPT ![c].attempts = @ + 1]
  PROVE  /\ client'[c].pc = client[c].pc /\ client'[c].num = client[c].num
         /\ client'[c].attempts = client[c].attempts + 1
         /\ client'[c].protocol = client[c].protocol /\ client'[c].len = client[c].len
         /\ \A d \in Clients \ {c} : client'[d] = client[d]
  <1>1. client \in [Clients -> Client] /\ client[c] \in Client
    BY DEF ClientsOK
  <1> DEFINE r == [client[c] EXCEPT !.attempts = @ + 1]
  <1>2. r.len = client[c].len /\ r.protocol = client[c].protocol
        /\ r.pc = client[c].pc /\ r.num = client[c].num /\ r.attempts = client[c].attempts + 1
    BY <1>1 DEF Client
  <1>3. client' = [client EXCEPT ![c] = r]
    BY <1>1
  <1> HIDE DEF r
  <1>4. client'[c] = r /\ \A d \in Clients \ {c} : client'[d] = client[d]
    BY <1>1, <1>3
  <1> QED BY <1>2, <1>4

LEMMA WaitsApart ==
  ASSUME LinksOK, ClientsOK, NEW c \in Clients, NEW pc, NEW num, ClientWaits(c, pc, num),
         up' = up \/ \E ps : ClientSends(c, ps),
         down' = down \/ \E l : down' = [down EXCEPT ![c] = l]
  PROVE  Apart(c)
  <1>1. /\ client'[c].protocol = client[c].protocol /\ client'[c].len = client[c].len
        /\ \A d \in Clients \ {c} : client'[d] = client[d]
    BY WaitsFor
  <1>2. \A d \in Clients \ {c} : up'[d] = up[d] /\ down'[d] = down[d]
    BY DEF LinksOK, ClientSends
  <1> QED BY <1>1, <1>2 DEF Apart

LEMMA ClientStepAlone ==
  ASSUME SavedInv, NEW c \in Clients, ClientStep(c)
  PROVE  Apart(c)
  <1>1. LinksOK /\ ClientsOK /\ up \in [Clients -> Links] /\ down \in [Clients -> Links]
    BY DEF SavedInv, LinksOK
  <1>2. ASSUME NEW pc, Exit(c, pc) PROVE Apart(c)
    BY <1>1, <1>2, WaitsApart DEF Exit
  <1>3. ASSUME NEW n, SendFrom(c, n), Received(c) PROVE Apart(c)
    BY <1>1, <1>3, WaitsApart DEF SendFrom, Received
  <1>4. CASE ClientConnects(c) \/ ClientStart(c)
    BY <1>1, <1>4, WaitsApart DEF ClientConnects, ClientStart
  <1>5. CASE ConaccArrives(c)
    <2>1. ASSUME ClientWaits(c, "rcvd", 0), ClientSends(c, AllData(c)) PROVE Apart(c)
      BY <1>1, <1>5, <2>1, WaitsApart DEF ConaccArrives, Received
    <2> QED BY <1>3, <1>5, <2>1 DEF ConaccArrives
  <1>6. CASE AccArrives(c)
    BY <1>3, <1>6 DEF AccArrives
  <1>7. CASE ClientIgnores(c)
    BY <1>1, <1>7 DEF ClientIgnores, Received, Apart
  <1>8. CASE RcvdArrives(c) \/ ConrjtArrives(c) \/ ClientFails(c)
    BY <1>2, <1>8 DEF RcvdArrives, ConrjtArrives, ClientFails
  <1>9. CASE ClientTimesOut(c)
    <2>1. ASSUME client' = [client EXCEPT ![c].attempts = @ + 1],
                 NEW ps, ClientSends(c, ps), UNCHANGED down
          PROVE  Apart(c)
      <3>1. /\ client'[c].protocol = client[c].protocol /\ client'[c].len = client[c].len
            /\ \A d \in Clients \ {c} : client'[d] = client[d]
        BY <1>1, <2>1, Repeats
      <3>2. \A d \in Clients \ {c} : up'[d] = up[d] /\ down'[d] = down[d]
        BY <1>1, <2>1 DEF ClientSends
      <3> QED BY <3>1, <3>2 DEF Apart
    <2> QED BY <1>2, <1>9, <2>1 DEF ClientTimesOut
  <1> QED BY <1>4, <1>5, <1>6, <1>7, <1>8, <1>9 DEF ClientStep

LEMMA ServerStepAlone ==
  ASSUME SavedInv, NEW c \in Clients, ServerStep(c) \/ Lose(c)
  PROVE  Apart(c)
  <1>1. up \in [Clients -> Links] /\ down \in [Clients -> Links]
    BY DEF SavedInv, LinksOK
  <1>2. client' = client
    BY DEF ServerStep, Lose, AcceptConnection, Open, Accept, Reject, RefuseOther, ServerIgnores,
           ServerRetransmits, ServerGivesUp
  <1>3. up' = up \/ ReceivedFrom(c)
    BY DEF ServerStep, Lose, AcceptConnection, Open, Accept, Reject, RefuseOther, ServerIgnores,
           ServerRetransmits, ServerGivesUp
  <1>4. down' = down \/ Received(c) \/ \E ps : ServerSends(c, ps)
    BY DEF ServerStep, Lose, AcceptConnection, Open, Accept, Reject, RefuseOther, ServerIgnores,
           ServerRetransmits, ServerGivesUp, Finish, Abort
  <1>5. \A d \in Clients \ {c} : up'[d] = up[d] /\ down'[d] = down[d]
    BY <1>1, <1>3, <1>4 DEF ReceivedFrom, Received, ServerSends
  <1> QED BY <1>2, <1>5 DEF Apart

LEMMA StepLosses ==
  ASSUME SavedInv, CauseInv, NEW c \in Clients, ClientStep(c) \/ ServerStep(c) \/ Lose(c)
  PROVE  Losses(c)
  <1>0. up \in [Clients -> Links] /\ down \in [Clients -> Links] /\ MaxLost \in Nat
        /\ losses \in Nat /\ losses <= MaxLost /\ lost \in [Clients -> SUBSET (PacketType \cup {"time"})]
    BY DEF SavedInv, LinksOK, CauseInv
  <1>1. CASE UNCHANGED network
    BY <1>0, <1>1 DEF network, Losses
  <1>2. CASE Blames(c)
    BY <1>0, <1>2 DEF Blames, Losses
  <1>3. CASE Lose(c)
    <2>1. PICK m \in Next1(up[c]) \cup Next1(down[c]) : lost' = [lost EXCEPT ![c] = @ \cup {m.type}]
      BY <1>3 DEF Lose
    <2>2. m.type \in PacketType
      <3>1. m \in Packets
        BY <1>0, <2>1, LinkNext
      <3> QED BY <3>1 DEF Packets
    <2>3. losses' = losses + 1 /\ losses < MaxLost /\ net' = net
      BY <1>3 DEF Lose
    <2> QED BY <1>0, <2>1, <2>2, <2>3 DEF Losses
  <1>4. ASSUME ClientStep(c) PROVE UNCHANGED network \/ Blames(c)
    BY <1>4 DEF ClientStep, ClientConnects, ClientStart, ConaccArrives, AccArrives, ClientIgnores,
                RcvdArrives, ConrjtArrives, ClientFails, ClientTimesOut
  <1>5. ASSUME ServerStep(c) PROVE UNCHANGED network \/ Blames(c)
    BY <1>5 DEF ServerStep, AcceptConnection, Open, Accept, Reject, RefuseOther, ServerIgnores,
                ServerRetransmits, ServerGivesUp, network
  <1> QED BY <1>1, <1>2, <1>3, <1>4, <1>5

LEMMA StepSession ==
  ASSUME SavedInv, Bounded, NEW c \in Clients, ClientStep(c) \/ ServerStep(c) \/ Lose(c)
  PROVE  SessionApart(c)
  <1>1. Nobody \notin Clients /\ (server.pc = "listen" => server.peer = Nobody)
    BY NobodyAssumption DEF Bounded
  <1>2. SessionOK
    BY DEF SavedInv
  <1>3. CASE server' = server
    BY <1>3 DEF SessionApart
  <1>4. ASSUME server.peer = c, server'.peer \in {c, Nobody} PROVE SessionApart(c)
    BY <1>1, <1>4 DEF SessionApart
  <1>5. ASSUME server.peer = Nobody, server'.peer \in {c, Nobody} PROVE SessionApart(c)
    BY <1>1, <1>5 DEF SessionApart
  <1>6. Listening.peer = Nobody
    BY DEF Listening
  <1>7. ASSUME ClientStep(c) \/ Lose(c) PROVE server' = server
    BY <1>7 DEF ClientStep, ClientConnects, ClientStart, ConaccArrives, AccArrives, ClientIgnores,
                RcvdArrives, ConrjtArrives, ClientFails, ClientTimesOut, Lose, session
  <1>8. CASE AcceptConnection(c)
    <2>1. server' = [Listening EXCEPT !.pc = "conn", !.peer = c]
      BY <1>8 DEF AcceptConnection
    <2>2. server'.peer = c
      BY <2>1 DEF Listening
    <2> QED BY <1>1, <1>5, <1>8, <2>2 DEF AcceptConnection
  <1>9. CASE Open(c)
    <2>1. server' = Listening \/ \E pc, size : server' = [Listening EXCEPT !.peer = c, !.size = size, !.pc = pc]
      BY <1>9 DEF Open, Finish
    <2>2. server'.peer \in {c, Nobody}
      <3>1. ASSUME NEW pc, NEW size PROVE [Listening EXCEPT !.peer = c, !.size = size, !.pc = pc].peer = c
        BY DEF Listening
      <3> QED BY <1>6, <2>1, <3>1
    <2>3. server.peer = c \/ server.peer = Nobody
      BY <1>1, <1>9 DEF Open
    <2> QED BY <1>4, <1>5, <2>2, <2>3
  <1>10. CASE Accept(c)
    <2>1. server.peer = c
      BY <1>10 DEF Accept
    <2>2. server' = Listening \/ \E m : server' = Counted(m)
      BY <1>10 DEF Accept, Finish
    <2>3. ASSUME NEW m PROVE Counted(m).peer = server.peer
      BY <1>2 DEF Counted, SessionOK
    <2> QED BY <1>4, <1>6, <2>1, <2>2, <2>3
  <1>11. CASE Reject(c) \/ ServerGivesUp(c)
    <2>1. server.peer = c /\ server' = Listening
      BY <1>11 DEF Reject, ServerGivesUp, Abort
    <2> QED BY <1>4, <1>6, <2>1
  <1>12. CASE RefuseOther(c) \/ ServerIgnores(c)
    BY <1>3, <1>12 DEF RefuseOther, ServerIgnores, session
  <1>13. CASE ServerRetransmits(c)
    <2>1. server.peer = c /\ server' = [server EXCEPT !.attempts = @ + 1]
      BY <1>13 DEF ServerRetransmits
    <2>2. server'.peer = c
      BY <1>2, <2>1 DEF SessionOK
    <2> QED BY <1>4, <2>1, <2>2
  <1> QED BY <1>3, <1>7, <1>8, <1>9, <1>10, <1>11, <1>12, <1>13 DEF ServerStep

(* Where another client is in its transfer stays as it is. *)
LEMMA OthersSmooth ==
  ASSUME SavedInv, Bounded, CauseInv, NEW c \in Clients, ClientStep(c) \/ ServerStep(c) \/ Lose(c),
         NEW d \in Clients, d # c, NoHarm(d)'
  PROVE  Smooth(d)'
  <1>1. Apart(c) /\ Losses(c) /\ SessionApart(c)
    BY ClientStepAlone, ServerStepAlone, StepLosses, StepSession
  <1>2. client'[d] = client[d] /\ up'[d] = up[d] /\ down'[d] = down[d] /\ lost'[d] = lost[d]
        /\ net' = net
    BY <1>1 DEF Apart, Losses
  <1>3. NoHarm(d)
    BY <1>2 DEF NoHarm, Ordered
  <1>4. Smooth(d)
    BY <1>3 DEF CauseInv
  <1>5. Stream' = Stream /\ Reliable(d)' = Reliable(d)
    BY <1>2 DEF Stream, Reliable
  <1>6. \A n : More(d, n)' = More(d, n) /\ DATA(d, n)' = DATA(d, n)
    BY <1>2 DEF More, DATA, Packet, Chunk, Left
  <1>7. Count(d)' = Count(d)
    BY <1>2 DEF Count
  <1>8. AllData(d)' = AllData(d)
    BY <1>2 DEF AllData, Count, DATA, Packet, Chunk, Left
  <1>9. IF server.peer = d THEN server' = server ELSE server'.peer # d
    BY <1>1 DEF SessionApart
  <1>10. losses \in Nat /\ losses' \in Nat /\ losses <= losses' /\ client[d].attempts \in Nat
    <2>1. client[d] \in Client
      BY DEF SavedInv, ClientsOK
    <2> QED BY <1>1, <2>1 DEF Losses, CauseInv, Client
  <1>11. \A pc, there, back : At(d, pc, there, back)' <=> At(d, pc, there, back)
    BY <1>2 DEF At
  <1>12. NotServed(d) => NotServed(d)'
    BY <1>9 DEF NotServed
  <1>13. \A pc, n : Serves(d, pc, n) => Serves(d, pc, n)' /\ server' = server
    BY <1>9 DEF Serves
  <1>14. CASE Resting(d) \/ TurnedAway(d) \/ Confirmed(d)
    BY <1>11, <1>12, <1>14 DEF Resting, TurnedAway, Confirmed, Smooth
  <1>15. CASE Connecting(d) \/ CallsStream(d)
    BY <1>5, <1>11, <1>12, <1>13, <1>15 DEF Connecting, CallsStream, Smooth
  <1>16. CASE CallsOut(d)
    <2>1. CallsOut(d)'
      BY <1>2, <1>5, <1>10, <1>11, <1>12, <1>16 DEF CallsOut
    <2> QED BY <2>1 DEF Smooth
  <1>17. CASE Welcomed(d) \/ Nothing(d)
    <2>1. Welcomed(d)' \/ Nothing(d)'
      BY <1>2, <1>5, <1>11, <1>12, <1>13, <1>17 DEF Welcomed, Nothing
    <2> QED BY <2>1 DEF Smooth
  <1>18. CASE SendsPacket(d)
    <2>1. SendsPacket(d)'
      BY <1>2, <1>5, <1>6, <1>11, <1>13, <1>18 DEF SendsPacket
    <2> QED BY <2>1 DEF Smooth
  <1>19. CASE IsAcked(d) \/ IsAckedLast(d)
    <2>1. IsAcked(d)' \/ IsAckedLast(d)'
      BY <1>2, <1>5, <1>6, <1>11, <1>12, <1>13, <1>19 DEF IsAcked, IsAckedLast
    <2> QED BY <2>1 DEF Smooth
  <1>20. CASE SendsAll(d)
    <2>1. SendsAll(d)'
      BY <1>2, <1>5, <1>7, <1>8, <1>11, <1>13, <1>20 DEF SendsAll
    <2> QED BY <2>1 DEF Smooth
  <1>21. CASE Over(d)
    <2>1. Over(d)'
      BY <1>2, <1>21 DEF Over
    <2> QED BY <2>1 DEF Smooth
  <1> QED BY <1>4, <1>14, <1>15, <1>16, <1>17, <1>18, <1>19, <1>20, <1>21 DEF Smooth

-----------------------------------------------------------------------------
(* A step of c that does no harm. *)

Harmless(c) ==
  SavedInv /\ Bounded /\ CauseInv /\ NoHarm(c)' /\ (ClientStep(c) \/ ServerStep(c) \/ Lose(c))

LEMMA HarmlessStep ==
  ASSUME NEW c \in Clients, Harmless(c)
  PROVE  /\ Ordered /\ Ordered' /\ Links = Seq(Packets) /\ up \in [Clients -> Links] /\ down \in [Clients -> Links]
         /\ net' = net /\ Stream' = Stream /\ Reliable(c)' = Reliable(c)
         /\ client'[c].protocol = client[c].protocol /\ client'[c].len = client[c].len
         /\ NoHarm(c) /\ Smooth(c)
         /\ Stream => ~Reliable(c) /\ client[c].protocol = "tcp"
         /\ ~Stream => net = "ordered"
         /\ Reliable(c) => client[c].len # 0
         /\ Nobody \notin Clients /\ (server.pc = "listen" <=> server.peer = Nobody)
         /\ (server.peer \in Clients <=> server.pc # "listen")
         /\ client[c] \in Client /\ losses \in Nat /\ losses' \in Nat /\ losses <= losses' /\ losses' <= MaxLost
         /\ Apart(c) /\ SessionApart(c)
  <1>1. Apart(c) /\ Losses(c) /\ SessionApart(c)
    BY ClientStepAlone, ServerStepAlone, StepLosses, StepSession DEF Harmless
  <1>2. client'[c].protocol = client[c].protocol /\ client'[c].len = client[c].len
        /\ net' = net /\ lost[c] \subseteq lost'[c]
    BY <1>1 DEF Apart, Losses
  <1>3. Reliable(c)' = Reliable(c) /\ Stream' = Stream /\ Ordered' = Ordered
    BY <1>2 DEF Reliable, Stream, Ordered
  <1>4. Ordered /\ Ordered'
    BY <1>3 DEF NoHarm, Harmless
  <1>5. NoHarm(c)
    <2>1. /\ Ordered
          /\ IF client[c].protocol = "udpr" THEN client[c].len # 0 /\ lost'[c] \subseteq {"CONN"}
                                            ELSE lost'[c] = {}
      BY <1>2, <1>4 DEF NoHarm, Harmless
    <2> QED BY <1>2, <2>1 DEF NoHarm
  <1>6. Smooth(c)
    BY <1>5 DEF Harmless, CauseInv
  <1>7. net \in {"wild", "ordered", "stream"}
    BY DEF Harmless, SavedInv, LinksOK
  <1>8. Stream => ~Reliable(c) /\ client[c].protocol = "tcp"
    BY DEF Harmless, CauseInv, Reliable
  <1>9. ~Stream => net = "ordered"
    BY <1>4, <1>7 DEF Stream, Ordered
  <1>10. Reliable(c) => client[c].len # 0
    BY <1>5 DEF NoHarm, Reliable
  <1>11. Links = Seq(Packets) /\ up \in [Clients -> Links] /\ down \in [Clients -> Links]
    BY <1>4 DEF Harmless, SavedInv, LinksOK, Links
  <1>12. Nobody \notin Clients /\ (server.pc = "listen" => server.peer = Nobody)
         /\ (server.pc # "listen" => server.peer \in Clients)
    BY NobodyAssumption DEF Harmless, Bounded, SavedInv, SessionOK
  <1>13. client[c] \in Client /\ losses \in Nat
    BY DEF Harmless, SavedInv, ClientsOK, CauseInv
  <1> QED BY <1>1, <1>2, <1>3, <1>4, <1>5, <1>6, <1>8, <1>9, <1>10, <1>11, <1>12, <1>13 DEF Losses

LEMMA OnlyConnLost ==
  ASSUME NEW c \in Clients, Harmless(c), Lose(c)
  PROVE  /\ ~Stream /\ Reliable(c) /\ CONN.type = "CONN"
         /\ \E m \in Next1(up[c]) \cup Next1(down[c]) : m.type = "CONN"
  BY LossHarms, Signs DEF Lose, Stream, Harmless

LEMMA ClientInTime ==
  ASSUME NEW c \in Clients, Harmless(c), ClientTimesOut(c)
  PROVE  /\ ~Stream /\ up[c] = <<>>
         /\ down[c] = <<>> \/ (server.peer = c /\ server.attempts > 0)
  <1>1. ~Stream
    BY HarmlessStep, SlownessHarms DEF ClientTimesOut, Harmless
  <1>2. net = "ordered"
    BY <1>1, HarmlessStep
  <1> QED BY <1>1, <1>2 DEF ClientTimesOut, ClientTimely

LEMMA ServerInTime ==
  ASSUME NEW c \in Clients, Harmless(c), ServerRetransmits(c) \/ ServerGivesUp(c)
  PROVE  /\ server.peer = c
         /\ Stream => server.pc \in {"first", "next"}
         /\ ~Stream => down[c] = <<>> /\ (up[c] = <<>> \/ client[c].attempts > 0)
  <1>1. Stream => ~ServerGivesUp(c)
    BY HarmlessStep, SlownessHarms DEF ServerGivesUp, Harmless
  <1>2. ~Stream => net = "ordered"
    BY HarmlessStep
  <1>3. server.peer = c /\ ServerTimely(c)
    BY DEF ServerRetransmits, ServerGivesUp
  <1>4. ~Stream => down[c] = <<>> /\ (up[c] = <<>> \/ client[c].attempts > 0)
    BY <1>2, <1>3 DEF ServerTimely
  <1>5. Stream => server.pc \in {"first", "next"}
    BY <1>1 DEF ServerRetransmits
  <1> QED BY <1>3, <1>4, <1>5

(* The packets differ by their types. *)
LEMMA PacketTypes ==
  /\ CONN.type = "CONN" /\ CONACC.type = "CONACC" /\ SYN.type = "SYN" /\ CONRJT.type = "CONRJT"
  /\ RCVD.type = "RCVD"
  /\ \A n : ACC(n).type = "ACC" /\ ACC(n).num = n
  /\ \A c, n : DATA(c, n).type = "DATA"
  BY DEF CONN, CONACC, SYN, CONRJT, RCVD, ACC, DATA, Packet

LEMMA LinkChange ==
  ASSUME NEW c \in Clients, up \in [Clients -> Links], down \in [Clients -> Links]
  PROVE  /\ \A ps : ClientSends(c, ps) => up'[c] = With(up[c], ps)
         /\ \A ps : ServerSends(c, ps) /\ ~Ended(c) => down'[c] = With(down[c], ps)
         /\ ReceivedFrom(c) => up'[c] = Rest(up[c])
         /\ Received(c) => down'[c] = Rest(down[c])
  BY DEF ClientSends, ServerSends, ReceivedFrom, Received

(* With nothing on its way, the hosts only start and time out. *)
LEMMA ClientIdle ==
  ASSUME NEW c \in Clients, Harmless(c), ClientStep(c), down[c] = <<>>
  PROVE  ClientConnects(c) \/ ClientStart(c) \/ ClientTimesOut(c)
  BY HarmlessStep, NothingForClient DEF ClientStep

LEMMA ServerIdle ==
  ASSUME NEW c \in Clients, Harmless(c), ServerStep(c), up[c] = <<>>
  PROVE  (ServerRetransmits(c) \/ ServerGivesUp(c)) /\ server.peer = c
  BY HarmlessStep, NothingForServer DEF ServerStep, ServerRetransmits, ServerGivesUp

(* A client that waits for an answer does not connect or start. *)
LEMMA ClientAnswered ==
  ASSUME NEW c \in Clients, Harmless(c), ClientStep(c), Running(c), down[c] # <<>>,
         server.peer # c \/ server.attempts = 0
  PROVE  \/ ConaccArrives(c) \/ AccArrives(c) \/ ClientIgnores(c)
         \/ RcvdArrives(c) \/ ConrjtArrives(c) \/ ClientFails(c)
  <1>1. ~ClientTimesOut(c)
    <2>1. ~(0 > 0)
      OBVIOUS
    <2> QED BY <2>1, ClientInTime
  <1>2. ~ClientConnects(c) /\ ~ClientStart(c)
    BY DEF Running, ClientConnects, ClientStart
  <1> QED BY <1>1, <1>2 DEF ClientStep

LEMMA FromResting ==
  ASSUME NEW c \in Clients, Harmless(c), Resting(c)
  PROVE  Connecting(c)' \/ CallsOut(c)'
  <1>0. /\ client[c].pc = "start" /\ up[c] = <<>> /\ down[c] = <<>> /\ server.peer # c
        /\ Next1(up[c]) = {} /\ Next1(down[c]) = {} /\ With(<<>>, <<SYN>>) = <<SYN>> /\ With(<<>>, <<CONN>>) = <<CONN>>
    BY HarmlessStep, ShortLinks DEF Resting, At, NotServed
  <1>1. ~ServerStep(c) /\ ~Lose(c)
    BY <1>0, ServerIdle, OnlyConnLost
  <1>2. ~ClientTimesOut(c)
    BY <1>0 DEF ClientTimesOut, Running
  <1>3. ClientConnects(c) \/ ClientStart(c)
    BY <1>0, <1>1, <1>2, ClientIdle DEF Harmless
  <1>4. CASE ClientConnects(c)
    <2>1. Stream /\ client'[c].pc = "connected" /\ up'[c] = <<SYN>> /\ down'[c] = <<>> /\ server'.peer # c
      <3>1. ClientWaits(c, "connected", 0) /\ ClientSends(c, <<SYN>>) /\ Stream /\ server' = server /\ down' = down
        BY <1>4 DEF ClientConnects, session
      <3>2. client'[c].pc = "connected"
        BY <3>1, WaitsFor DEF Harmless, SavedInv
      <3>3. up'[c] = With(up[c], <<SYN>>)
        BY <3>1, HarmlessStep, LinkChange
      <3> QED BY <1>0, <3>1, <3>2, <3>3
    <2> QED BY <2>1, HarmlessStep DEF Connecting, At, NotServed
  <1>5. CASE ClientStart(c)
    <2>1. ~Stream /\ client'[c].pc = "conacc" /\ client'[c].attempts = 0
          /\ up'[c] = <<CONN>> /\ down'[c] = <<>> /\ server'.peer # c
      <3>1. ClientWaits(c, "conacc", 0) /\ ClientSends(c, <<CONN>>) /\ ~Stream /\ server' = server /\ down' = down
        BY <1>0, <1>5 DEF ClientStart, session
      <3>2. client'[c].pc = "conacc" /\ client'[c].attempts = 0
        BY <3>1, WaitsFor DEF Harmless, SavedInv
      <3>3. up'[c] = With(up[c], <<CONN>>)
        BY <3>1, HarmlessStep, LinkChange
      <3> QED BY <1>0, <3>1, <3>2, <3>3
    <2>2. client'[c].attempts <= losses'
      BY <2>1, HarmlessStep
    <2> QED BY <2>1, <2>2, HarmlessStep DEF CallsOut, At, NotServed
  <1> QED BY <1>3, <1>4, <1>5

(* A session that opens is the client's. *)
LEMMA Accepted ==
  ASSUME NEW c \in Clients, Harmless(c), AcceptConnection(c)
  PROVE  Serves(c, "conn", 0)' /\ UNCHANGED <<client, down>> /\ up'[c] = Rest(up[c]) /\ server.pc = "listen"
  <1>1. server' = [Listening EXCEPT !.pc = "conn", !.peer = c]
    BY DEF AcceptConnection
  <1>2. Serves(c, "conn", 0)'
    BY <1>1 DEF Serves, Listening
  <1> QED BY <1>2, HarmlessStep, LinkChange DEF AcceptConnection

LEMMA FromConnecting ==
  ASSUME NEW c \in Clients, Harmless(c), Connecting(c)
  PROVE  Connecting(c)' \/ CallsStream(c)'
  <1>0. /\ client[c].pc = "connected" /\ down[c] = <<>> /\ Stream /\ Stream'
        /\ Rest(<<SYN>>) = <<>> /\ Next1(<<SYN>>) = {SYN} /\ With(<<>>, <<CONN>>) = <<CONN>>
        /\ With(<<SYN>>, <<CONN>>) = <<SYN, CONN>>
    BY HarmlessStep, ShortLinks DEF Connecting, At
  <1>1. ~Lose(c)
    BY <1>0, OnlyConnLost
  <1>2. ~ClientTimesOut(c)
    BY <1>0 DEF ClientTimesOut, Running
  <1>3. CASE ServerStep(c)
    <2>1. CASE up[c] = <<SYN>> /\ server.peer # c
      <3>1. ~Open(c) /\ ~RefuseOther(c) /\ ~ServerIgnores(c)
        BY <1>0, <2>1, PacketTypes DEF Open, RefuseOther, ServerIgnores
      <3>2. AcceptConnection(c)
        BY <1>3, <2>1, <3>1, NotInSession DEF ServerStep, NotServed
      <3> QED BY <1>0, <2>1, <3>2, Accepted DEF Connecting, At
    <2>2. CASE up[c] = <<>> /\ Serves(c, "conn", 0)
      BY <1>0, <1>3, <2>2, ServerIdle, ServerInTime DEF Serves
    <2> QED BY <2>1, <2>2 DEF Connecting, At, NotServed
  <1>4. CASE ClientStart(c)
    <2>1. client'[c].pc = "conacc" /\ up'[c] = With(up[c], <<CONN>>) /\ down'[c] = <<>> /\ server' = server
      <3>1. ClientWaits(c, "conacc", 0) /\ ClientSends(c, <<CONN>>) /\ server' = server /\ down' = down
        BY <1>4 DEF ClientStart, session
      <3>2. client'[c].pc = "conacc"
        BY <3>1, WaitsFor DEF Harmless, SavedInv
      <3>3. up'[c] = With(up[c], <<CONN>>)
        BY <3>1, HarmlessStep, LinkChange
      <3> QED BY <1>0, <3>1, <3>2, <3>3
    <2> QED BY <1>0, <2>1 DEF Connecting, CallsStream, At, NotServed, Serves
  <1>5. ~ClientConnects(c)
    BY <1>0 DEF ClientConnects
  <1> QED BY <1>0, <1>1, <1>2, <1>3, <1>4, <1>5, ClientIdle DEF Harmless

(* CONN is answered. *)
LEMMA Opened ==
  ASSUME NEW c \in Clients, Harmless(c), Open(c), client[c].pc = "conacc", up[c] = <<CONN>>, down[c] = <<>>
  PROVE  Welcomed(c)' \/ Nothing(c)'
  <1>0. /\ Rest(<<CONN>>) = <<>> /\ With(<<>>, <<CONACC>>) = <<CONACC>>
        /\ Append(<<CONACC>>, RCVD) = <<CONACC, RCVD>> /\ With(<<>>, <<CONACC, RCVD>>) = <<CONACC, RCVD>>
    BY HarmlessStep, ShortLinks
  <1>1. client' = client /\ up'[c] = <<>> /\ client[c].len \in Nat
    BY <1>0, HarmlessStep, LinkChange DEF Open, Client
  <1>2. ASSUME NEW ps, ServerSends(c, ps) PROVE down'[c] = With(<<>>, ps)
    <2>1. ~Ended(c)
      BY DEF Ended
    <2>2. down'[c] = With(down[c], ps)
      BY <1>2, <2>1, HarmlessStep, LinkChange
    <2> QED BY <2>2
  <1>3. CASE client[c].protocol # "udpr" /\ client[c].len = 0 /\ Finish(c, <<>>, <<CONACC>>)
    <2>1. server' = Listening /\ ServerSends(c, <<CONACC, RCVD>>)
      BY <1>0, <1>3 DEF Finish
    <2>2. down'[c] = <<CONACC, RCVD>>
      BY <1>0, <1>2, <2>1
    <2>3. server'.peer # c
      BY <2>1, HarmlessStep DEF Listening
    <2> QED BY <1>1, <1>3, <2>2, <2>3 DEF Nothing, At, NotServed, Reliable
  <1>4. CASE /\ client[c].protocol = "udpr" \/ client[c].len > 0
             /\ server' = [Listening EXCEPT !.peer = c, !.size = client[c].len,
                             !.pc = IF client[c].protocol = "udpr" THEN "first" ELSE "data"]
             /\ ServerSends(c, <<CONACC>>)
    <2>1. down'[c] = <<CONACC>>
      BY <1>0, <1>2, <1>4
    <2>2. server'.peer = c /\ server'.num = 0 /\ server'.attempts = 0
          /\ server'.pc = IF Reliable(c) THEN "first" ELSE "data"
      <3> DEFINE pc == IF client[c].protocol = "udpr" THEN "first" ELSE "data"
      <3>1. server' = [Listening EXCEPT !.peer = c, !.size = client[c].len, !.pc = pc]
        BY <1>4
      <3> HIDE DEF pc
      <3>2. server'.peer = c /\ server'.num = 0 /\ server'.attempts = 0 /\ server'.pc = pc
        BY <3>1 DEF Listening
      <3> QED BY <3>2 DEF pc, Reliable
    <2>3. client[c].len # 0
      BY <1>1, <1>4, HarmlessStep DEF Reliable
    <2> QED BY <1>1, <2>1, <2>2, <2>3 DEF Welcomed, At, Serves, Reliable
  <1> QED BY <1>3, <1>4 DEF Open

LEMMA FromCallsStream ==
  ASSUME NEW c \in Clients, Harmless(c), CallsStream(c)
  PROVE  CallsStream(c)' \/ Welcomed(c)' \/ Nothing(c)'
  <1>0. /\ client[c].pc = "conacc" /\ down[c] = <<>> /\ Stream /\ Stream'
        /\ Rest(<<SYN, CONN>>) = <<CONN>> /\ Next1(<<SYN, CONN>>) = {SYN} /\ Next1(<<CONN>>) = {CONN}
    BY HarmlessStep, ShortLinks, SMTT(20), ZenonT(40) DEF CallsStream, At
  <1>1. ~Lose(c)
    BY <1>0, OnlyConnLost
  <1>2. ~ClientTimesOut(c) /\ ~ClientConnects(c) /\ ~ClientStart(c)
    BY <1>0, ClientInTime DEF ClientConnects, ClientStart
  <1>3. ServerStep(c)
    BY <1>0, <1>1, <1>2, ClientIdle DEF Harmless
  <1>4. ~RefuseOther(c)
    BY <1>0 DEF RefuseOther
  <1>5. CASE up[c] = <<SYN, CONN>> /\ server.peer # c
    <2>1. ~Open(c) /\ ~ServerIgnores(c)
      BY <1>0, <1>5, PacketTypes DEF Open, ServerIgnores
    <2>2. AcceptConnection(c)
      BY <1>3, <1>4, <1>5, <2>1, NotInSession DEF ServerStep, NotServed
    <2> QED BY <1>0, <1>5, <2>2, Accepted DEF CallsStream, At
  <1>6. CASE up[c] = <<CONN>> /\ Serves(c, "conn", 0)
    <2>1. server.peer = c /\ server.pc = "conn"
      BY <1>6 DEF Serves
    <2>2. ~AcceptConnection(c) /\ ~ServerRetransmits(c) /\ ~ServerGivesUp(c)
      BY <1>0, <2>1, ServerInTime DEF AcceptConnection
    <2>3. ~Accept(c) /\ ~Reject(c) /\ ~ServerIgnores(c)
      BY <1>0, <1>6, <2>1, PacketTypes DEF Accept, Reject, ServerIgnores, Good, Passes
    <2>4. Open(c)
      BY <1>3, <1>4, <2>2, <2>3 DEF ServerStep
    <2> QED BY <1>0, <1>6, <2>4, Opened
  <1> QED BY <1>5, <1>6 DEF CallsStream, At, NotServed

LEMMA FromCallsOut ==
  ASSUME NEW c \in Clients, Harmless(c), CallsOut(c), MaxLost <= MAX_RETRANSMITS
  PROVE  CallsOut(c)' \/ TurnedAway(c)' \/ Welcomed(c)' \/ Nothing(c)'
  <1>0. /\ client[c].pc = "conacc" /\ down[c] = <<>> /\ ~Stream /\ ~Stream' /\ server.peer # c
        /\ Rest(<<CONN>>) = <<>> /\ Next1(<<CONN>>) = {CONN} /\ <<CONN>> # <<>> /\ Next1(<<>>) = {}
        /\ With(<<>>, <<CONN>>) = <<CONN>> /\ With(<<>>, <<CONRJT>>) = <<CONRJT>>
    BY HarmlessStep, ShortLinks DEF CallsOut, At, NotServed
  <1>1. ~ClientConnects(c) /\ ~ClientStart(c)
    BY <1>0 DEF ClientConnects, ClientStart
  <1>2. client[c].attempts \in Nat /\ losses \in Nat /\ losses' \in Nat /\ losses <= losses' /\ losses' <= MaxLost
    BY HarmlessStep DEF Client
  <1>3. CASE up[c] = <<CONN>> /\ client[c].attempts <= losses
    <2>1. ~ClientStep(c)
      BY <1>0, <1>1, <1>3, ClientIdle, ClientInTime
    <2>2. CASE ServerStep(c)
      <3>1. ~AcceptConnection(c) /\ ~ServerIgnores(c)
        BY <1>0, <1>3, PacketTypes DEF AcceptConnection, ServerIgnores
      <3>2. Open(c) \/ RefuseOther(c)
        BY <1>0, <2>2, <3>1, NotInSession DEF ServerStep, NotServed
      <3>3. CASE RefuseOther(c)
        <4>1. client' = client /\ server' = server /\ up'[c] = <<>>
          BY <1>0, <1>3, <3>3, HarmlessStep, LinkChange DEF RefuseOther, session
        <4>2. down'[c] = With(down[c], <<CONRJT>>)
          BY <1>0, <3>3, HarmlessStep, LinkChange DEF RefuseOther, Ended
        <4> QED BY <1>0, <4>1, <4>2 DEF TurnedAway, At, NotServed
      <3> QED BY <1>0, <1>3, <3>2, <3>3, Opened
    <2>3. CASE Lose(c)
      <3>1. client' = client /\ server' = server /\ losses' = losses + 1
        BY <2>3 DEF Lose, session
      <3>2. up'[c] = <<>> /\ down' = down
        BY <1>0, <1>3, <2>3, HarmlessStep, LinkChange DEF Lose
      <3>3. Reliable(c)'
        BY <2>3, OnlyConnLost, HarmlessStep
      <3>4. client'[c].attempts < losses'
        BY <1>2, <1>3, <3>1
      <3> QED BY <1>0, <3>1, <3>2, <3>3, <3>4 DEF CallsOut, At, NotServed
    <2> QED BY <2>1, <2>2, <2>3 DEF Harmless
  <1>4. CASE up[c] = <<>> /\ client[c].attempts < losses /\ Reliable(c)
    <2>1. ~ServerStep(c) /\ ~Lose(c)
      BY <1>0, <1>4, ServerIdle, OnlyConnLost
    <2>2. ClientTimesOut(c)
      BY <1>0, <1>1, <2>1, ClientIdle DEF Harmless
    <2>3. Retransmits(c) /\ client[c].attempts < MAX_RETRANSMITS
      BY <1>0, <1>2, <1>4 DEF Retransmits, Reliable
    <2>4. /\ client' = [client EXCEPT ![c].attempts = @ + 1] /\ ClientSends(c, <<CONN>>)
          /\ down' = down /\ server' = server
      BY <1>0, <1>2, <2>2, <2>3 DEF ClientTimesOut, session
    <2>5. client'[c].pc = "conacc" /\ client'[c].attempts = client[c].attempts + 1
      BY <1>0, <2>4, Repeats DEF Harmless, SavedInv
    <2>6. up'[c] = With(up[c], <<CONN>>)
      BY <2>4, HarmlessStep, LinkChange
    <2>7. client'[c].attempts <= losses'
      BY <1>2, <1>4, <2>5
    <2> QED BY <1>0, <1>4, <2>4, <2>5, <2>6, <2>7 DEF CallsOut, At, NotServed
  <1> QED BY <1>3, <1>4 DEF CallsOut, At

LEMMA FromTurnedAway ==
  ASSUME NEW c \in Clients, Harmless(c), TurnedAway(c)
  PROVE  Over(c)'
  <1>0. /\ client[c].pc = "conacc" /\ up[c] = <<>> /\ down[c] = <<CONRJT>> /\ server.peer # c
        /\ Next1(<<CONRJT>>) = {CONRJT} /\ <<CONRJT>> # <<>> /\ Next1(<<>>) = {}
    BY HarmlessStep, ShortLinks DEF TurnedAway, At, NotServed
  <1>1. ~ServerStep(c) /\ ~Lose(c)
    BY <1>0, ServerIdle, OnlyConnLost, PacketTypes
  <1>2. ~ConaccArrives(c) /\ ~AccArrives(c) /\ ~ClientIgnores(c) /\ ~RcvdArrives(c) /\ ~ClientFails(c)
    BY <1>0, PacketTypes DEF ConaccArrives, AccArrives, ClientIgnores, RcvdArrives, ClientFails, Arrives,
                             Stale, Expected
  <1>3. ConrjtArrives(c)
    BY <1>0, <1>1, <1>2, ClientAnswered DEF Harmless, Running
  <1>4. client'[c].pc = "refused"
    BY <1>3, WaitsFor DEF ConrjtArrives, Exit, Harmless, SavedInv
  <1> QED BY <1>4 DEF Over

-----------------------------------------------------------------------------
(* The data, packet by packet. *)

LEMMA Beginning ==
  ASSUME ClientsOK, NEW c \in Clients, client[c].len # 0
  PROVE  More(c, 0) /\ 0 < Count(c)
  <1>1. client[c].len \in Nat /\ 0 \in Nat /\ Left(c, 0) = client[c].len
        /\ (More(c, 0) <=> Left(c, 0) > 0) /\ (More(c, 0) => 0 < Count(c))
    BY OneMore, Counts
  <1> QED BY <1>1

LEMMA Goes ==
  ASSUME SavedInv, NEW c \in Clients, NEW n \in Nat, SendFrom(c, n), Ordered, up[c] = <<>>
  PROVE  /\ More(c, n) => client'[c].pc = "acc" /\ client'[c].num = n /\ up'[c] = <<DATA(c, n)>>
         /\ ~More(c, n) => client'[c].pc = "rcvd" /\ up'[c] = <<>>
         /\ client'[c].attempts = 0 /\ client'[c].len = client[c].len
         /\ client'[c].protocol = client[c].protocol
  <1>1. ClientsOK /\ up \in [Clients -> Links] /\ down \in [Clients -> Links]
    BY DEF SavedInv, LinksOK
  <1>2. With(<<>>, <<DATA(c, n)>>) = <<DATA(c, n)>>
    BY ShortLinks
  <1>3. CASE More(c, n) /\ ClientWaits(c, "acc", n) /\ ClientSends(c, <<DATA(c, n)>>)
    <2>1. up'[c] = With(up[c], <<DATA(c, n)>>)
      BY <1>1, <1>3, LinkChange
    <2>2. /\ client'[c].pc = "acc" /\ client'[c].num = n /\ client'[c].attempts = 0
          /\ client'[c].len = client[c].len /\ client'[c].protocol = client[c].protocol
      BY <1>1, <1>3, WaitsFor
    <2> QED BY <1>2, <1>3, <2>1, <2>2
  <1>4. CASE ~More(c, n) /\ ClientWaits(c, "rcvd", 0) /\ UNCHANGED up
    <2>1. /\ client'[c].pc = "rcvd" /\ client'[c].attempts = 0
          /\ client'[c].len = client[c].len /\ client'[c].protocol = client[c].protocol
      BY <1>1, <1>4, WaitsFor
    <2> QED BY <1>4, <2>1
  <1> QED BY <1>3, <1>4 DEF SendFrom

(* What depends on the length of the data only. *)
LEMMA SameLength ==
  ASSUME NEW c \in Clients, client'[c].len = client[c].len
  PROVE  /\ \A n : More(c, n)' = More(c, n) /\ DATA(c, n)' = DATA(c, n)
         /\ AllData(c)' = AllData(c) /\ Count(c)' = Count(c)
  BY DEF More, AllData, Count, DATA, Packet, Chunk, Left

(* Sending all of it, from packet n on. *)
LEMMA Remaining ==
  ASSUME ClientsOK, Ordered, NEW c \in Clients, NEW n \in Nat
  PROVE  LET l == SubSeq(AllData(c), n + 1, Count(c)) IN
         /\ n < Count(c) => l # <<>> /\ Next1(l) = {DATA(c, n)}
                            /\ Rest(l) = SubSeq(AllData(c), n + 2, Count(c))
         /\ n >= Count(c) => l = <<>>
         /\ n = 0 => l = AllData(c)
  <1> DEFINE a == AllData(c)
             k == Count(c)
             l == SubSeq(a, n + 1, k)
             r == SubSeq(a, n + 2, k)
  <1>1. k \in Nat
    BY Counts
  <1>2. a \in Seq(Packets) /\ a = [i \in 1 .. k |-> DATA(c, i - 1)]
    BY AllDataPackets DEF AllData
  <1> HIDE DEF a, k, Packets, DATA
  <1>3. Len(a) = k
    BY <1>1, <1>2
  <1>4. \A i \in 1 .. k : a[i] = DATA(c, i - 1)
    BY <1>2
  <1>5. ASSUME n < k PROVE l # <<>> /\ Next1(l) = {DATA(c, n)} /\ Rest(l) = r
    <2>1. l \in Seq(Packets) /\ Len(l) = k - n /\ \A i \in 1 .. k - n : l[i] = a[n + i]
      BY <1>1, <1>2, <1>3, <1>5, SubSeqProperties
    <2>2. l # <<>>
      <3>1. Len(<<>>) = 0 /\ k - n # 0
        BY <1>1, <1>5
      <3>2. Len(l) # Len(<<>>)
        BY <2>1, <3>1
      <3> QED BY <3>2
    <2>3. Head(l) = DATA(c, n)
      <3>1. Head(l) = l[1] /\ 1 \in 1 .. k - n /\ n + 1 \in 1 .. k /\ n + 1 - 1 = n
        BY <1>1, <1>5, <2>1, <2>2, HeadTailProperties
      <3> QED BY <1>4, <2>1, <3>1
    <2>4. Tail(l) = r
      <3>1. Tail(l) \in Seq(Packets) /\ Len(Tail(l)) = k - n - 1
            /\ \A i \in 1 .. k - n - 1 : Tail(l)[i] = l[i + 1]
        BY <1>1, <1>5, <2>1, <2>2, HeadTailProperties
      <3>2. r \in Seq(Packets) /\ Len(r) = k - n - 1 /\ \A i \in 1 .. k - n - 1 : r[i] = a[n + 1 + i]
        BY <1>1, <1>2, <1>3, <1>5, SubSeqProperties
      <3>3. ASSUME NEW i \in 1 .. k - n - 1 PROVE Tail(l)[i] = r[i]
        <4>1. i + 1 \in 1 .. k - n /\ n + (i + 1) = n + 1 + i
          BY <1>1, <1>5
        <4> QED BY <2>1, <3>1, <3>2, <4>1
      <3> QED BY <3>1, <3>2, <3>3, SeqEqual
    <2> QED BY <2>2, <2>3, <2>4 DEF Next1, Rest
  <1>6. ASSUME n >= k PROVE l = <<>>
    BY <1>1, <1>2, <1>3, <1>6, SubSeqProperties
  <1>7. ASSUME n = 0 PROVE l = a
    <2>1. CASE k = 0
      <3>1. a = <<>> /\ l = <<>>
        BY <1>1, <1>2, <1>3, <1>6, <1>7, <2>1
      <3> QED BY <3>1
    <2>2. CASE k # 0
      <3>1. l \in Seq(Packets) /\ Len(l) = k /\ \A i \in 1 .. k : l[i] = a[i]
        BY <1>1, <1>2, <1>3, <1>7, <2>2, SubSeqProperties
      <3> QED BY <1>2, <1>3, <3>1, SeqEqual
    <2> QED BY <2>1, <2>2
  <1> QED BY <1>5, <1>6, <1>7 DEF a, k, l, r

(* The packet the session expects is good, and completes the data if there *)
(* is no more.                                                             *)
LEMMA ExpectedIsGood ==
  ASSUME NEW c \in Clients, Harmless(c), NEW n \in Nat, server.peer = c, server.num = n,
         server.pc \in {"data", "first", "next"}, More(c, n), Next1(up[c]) = {DATA(c, n)}
  PROVE  /\ OfSession(DATA(c, n)) /\ Good(DATA(c, n))
         /\ Counted(DATA(c, n)).peer = c /\ Counted(DATA(c, n)).num = n + 1
         /\ Counted(DATA(c, n)).attempts = 0
         /\ Counted(DATA(c, n)).pc = IF server.pc = "data" THEN "data" ELSE "next"
         /\ Counted(DATA(c, n)).read = Counted(DATA(c, n)).size <=> ~More(c, n + 1)
         /\ ~AcceptConnection(c) /\ ~Open(c) /\ ~Reject(c) /\ ~RefuseOther(c) /\ ~ServerIgnores(c)
  <1>1. ClientsOK /\ SessionOK
    BY DEF Harmless, SavedInv
  <1> DEFINE m == DATA(c, n)
             left == Left(c, n)
             r == Counted(m)
  <1>2. m.type = "DATA" /\ m.num = n /\ m.units = Chunk(c, n) /\ m.units \in Int
    <2>1. m \in Packets /\ m.type = "DATA" /\ m.num = n /\ m.units = Chunk(c, n)
      BY <1>1, DataPacket
    <2> QED BY <2>1 DEF Packets
  <1>3. left \in Int /\ left > 0 /\ (More(c, n + 1) <=> left - BUFFER_SIZE > 0)
    <2>1. n + 1 \in Nat
      OBVIOUS
    <2> QED BY <1>1, <2>1, OneMore
  <1>4. m.units = IF left > BUFFER_SIZE THEN BUFFER_SIZE ELSE left
    BY <1>2 DEF Chunk
  <1>5. server.size - server.read = left /\ server.size \in Int /\ server.read \in Int
        /\ (server.pc = "first" => server.read = 0)
    BY <1>1 DEF SessionOK
  <1> HIDE DEF m, left
  <1>6. ~TooLong(m)
    BY <1>2, <1>3, <1>4, <1>5 DEF TooLong
  <1>7. OfSession(m) /\ Good(m)
    BY <1>2, <1>6 DEF OfSession, Good, m
  <1>8. /\ r.peer = c /\ r.num = n + 1 /\ r.attempts = 0
        /\ r.pc = IF server.pc = "data" THEN "data" ELSE "next"
        /\ r.size = IF server.pc = "first" THEN server.size - m.units ELSE server.size
        /\ r.read = IF server.pc = "first" THEN 0 ELSE server.read + m.units
    <2> DEFINE pc == IF server.pc = "first" THEN "next" ELSE server.pc
               size == IF server.pc = "first" THEN server.size - m.units ELSE server.size
               read == IF server.pc = "first" THEN 0 ELSE server.read + m.units
    <2>1. r = [server EXCEPT !.num = m.num + 1, !.attempts = 0, !.pc = pc, !.size = size, !.read = read]
      BY DEF Counted
    <2> HIDE DEF pc, size, read, r
    <2>2. r.peer = c /\ r.num = n + 1 /\ r.attempts = 0 /\ r.pc = pc /\ r.size = size /\ r.read = read
      BY <1>1, <1>2, <2>1 DEF SessionOK
    <2>3. pc = IF server.pc = "data" THEN "data" ELSE "next"
      BY DEF pc
    <2> QED BY <2>2, <2>3 DEF size, read
  <1> HIDE DEF r
  <1>9. r.size - r.read = left - m.units /\ r.size \in Int /\ r.read \in Int
    BY <1>2, <1>3, <1>5, <1>8
  <1>10. r.read = r.size <=> ~More(c, n + 1)
    BY <1>3, <1>4, <1>9
  <1>11. ~AcceptConnection(c) /\ ~Open(c) /\ ~Reject(c) /\ ~RefuseOther(c) /\ ~ServerIgnores(c)
    BY <1>7 DEF AcceptConnection, Open, Reject, RefuseOther, ServerIgnores, m
  <1> QED BY <1>7, <1>8, <1>10, <1>11 DEF m, r

(* What the session does with it. *)
LEMMA TakesExpected ==
  ASSUME NEW c \in Clients, Harmless(c), Accept(c), NEW n \in Nat, server.num = n,
         server.pc \in {"data", "first", "next"}, More(c, n), Next1(up[c]) = {DATA(c, n)}, ~Ended(c)
  PROVE  /\ client' = client /\ up'[c] = Rest(up[c])
         /\ IF More(c, n + 1)
            THEN /\ server'.peer = c /\ server'.num = n + 1 /\ server'.attempts = 0
                 /\ server'.pc = IF server.pc = "data" THEN "data" ELSE "next"
                 /\ down'[c] = With(down[c], Acks(DATA(c, n)))
            ELSE /\ NotServed(c)'
                 /\ down'[c] = With(down[c], Append(Acks(DATA(c, n)), RCVD))
  <1> DEFINE m == DATA(c, n)
  <1>1. server.peer = c /\ client' = client /\ ReceivedFrom(c)
    BY DEF Accept
  <1>2. \/ /\ Counted(m).read = Counted(m).size
           /\ Finish(c, Append(printed, <<c, m.num>>), Acks(m))
        \/ /\ Counted(m).read # Counted(m).size
           /\ server' = Counted(m) /\ ServerSends(c, Acks(m))
    BY DEF Accept
  <1>3. /\ Counted(m).peer = c /\ Counted(m).num = n + 1 /\ Counted(m).attempts = 0
        /\ Counted(m).pc = IF server.pc = "data" THEN "data" ELSE "next"
        /\ Counted(m).read = Counted(m).size <=> ~More(c, n + 1)
    BY <1>1, ExpectedIsGood
  <1> HIDE DEF m
  <1>4. up'[c] = Rest(up[c])
    BY <1>1, HarmlessStep, LinkChange
  <1>5. CASE More(c, n + 1)
    <2>1. server' = Counted(m) /\ ServerSends(c, Acks(m))
      BY <1>2, <1>3, <1>5
    <2>2. /\ server'.peer = c /\ server'.num = n + 1 /\ server'.attempts = 0
          /\ server'.pc = IF server.pc = "data" THEN "data" ELSE "next"
      BY <1>3, <2>1
    <2>3. down'[c] = With(down[c], Acks(m))
      BY <2>1, HarmlessStep, LinkChange
    <2> QED BY <1>1, <1>4, <1>5, <2>2, <2>3 DEF m
  <1>6. CASE ~More(c, n + 1)
    <2>1. server' = Listening /\ ServerSends(c, Append(Acks(m), RCVD))
      BY <1>2, <1>3, <1>6 DEF Finish
    <2>2. NotServed(c)'
      BY <2>1, HarmlessStep DEF NotServed, Listening
    <2>3. down'[c] = With(down[c], Append(Acks(m), RCVD))
      BY <2>1, HarmlessStep, LinkChange
    <2> QED BY <1>1, <1>4, <1>6, <2>2, <2>3 DEF m
  <1> QED BY <1>5, <1>6

LEMMA FromWelcomed ==
  ASSUME NEW c \in Clients, Harmless(c), Welcomed(c)
  PROVE  SendsPacket(c)' \/ SendsAll(c)'
  <1>0. /\ client[c].pc = "conacc" /\ up[c] = <<>> /\ down[c] = <<CONACC>> /\ client[c].len # 0
        /\ server.peer = c /\ server.num = 0 /\ server.attempts = 0
        /\ server.pc = IF Reliable(c) THEN "first" ELSE "data"
        /\ Next1(<<CONACC>>) = {CONACC} /\ <<CONACC>> # <<>> /\ Next1(<<>>) = {} /\ Rest(<<CONACC>>) = <<>>
    BY HarmlessStep, ShortLinks DEF Welcomed, At, Serves
  <1>1. ~ServerStep(c) /\ ~Lose(c)
    <2>1. ~Lose(c)
      BY <1>0, OnlyConnLost, PacketTypes
    <2>2. ASSUME ServerStep(c) PROVE FALSE
      <3>1. ServerRetransmits(c) \/ ServerGivesUp(c)
        BY <1>0, <2>2, ServerIdle
      <3>2. Stream => server.pc = "data"
        BY <1>0, HarmlessStep
      <3> QED BY <1>0, <3>1, <3>2, ServerInTime
    <2> QED BY <2>1, <2>2
  <1>2. ~AccArrives(c) /\ ~ClientIgnores(c) /\ ~RcvdArrives(c) /\ ~ConrjtArrives(c) /\ ~ClientFails(c)
    BY <1>0, PacketTypes DEF AccArrives, ClientIgnores, RcvdArrives, ConrjtArrives, ClientFails, Arrives,
                             Stale, Expected
  <1>3. ConaccArrives(c)
    BY <1>0, <1>1, <1>2, ClientAnswered DEF Harmless, Running
  <1>4. ClientsOK /\ SavedInv /\ Ordered
    BY HarmlessStep DEF Harmless, SavedInv
  <1>5. server' = server /\ down'[c] = <<>>
    BY <1>0, <1>3, HarmlessStep, LinkChange DEF ConaccArrives, session
  <1>6. /\ \A n : More(c, n)' = More(c, n) /\ DATA(c, n)' = DATA(c, n)
        /\ AllData(c)' = AllData(c) /\ Count(c)' = Count(c)
    BY HarmlessStep, SameLength
  <1>7. More(c, 0) /\ 0 < Count(c) /\ Count(c) \in Nat
    BY <1>0, <1>4, Beginning, Counts
  <1>8. CASE ~Reliable(c)
    <2>1. ClientWaits(c, "rcvd", 0) /\ ClientSends(c, AllData(c))
      BY <1>3, <1>8 DEF ConaccArrives, Reliable
    <2>2. client'[c].pc = "rcvd" /\ client'[c].attempts = 0
      BY <1>4, <2>1, WaitsFor
    <2>3. up'[c] = AllData(c)
      <3>1. up'[c] = With(<<>>, AllData(c))
        BY <1>0, <2>1, HarmlessStep, LinkChange
      <3> QED BY <1>4, <3>1, AllDataPackets, ShortLinks
    <2>4. SubSeq(AllData(c), 0 + 1, Count(c)) = AllData(c)
      BY <1>4, Remaining
    <2>5. At(c, "rcvd", SubSeq(AllData(c), server.num + 1, Count(c)), <<>>)'
      BY <1>0, <1>5, <1>6, <2>2, <2>3, <2>4 DEF At
    <2>6. Serves(c, "data", server.num)'
      BY <1>0, <1>5, <1>8 DEF Serves
    <2> QED BY <1>0, <1>5, <1>6, <1>7, <1>8, <2>2, <2>5, <2>6, HarmlessStep DEF SendsAll
  <1>9. CASE Reliable(c)
    <2>1. SendFrom(c, 0)
      BY <1>3, <1>9 DEF ConaccArrives, Reliable
    <2>2. client'[c].pc = "acc" /\ client'[c].num = 0 /\ client'[c].attempts = 0 /\ up'[c] = <<DATA(c, 0)>>
      <3>1. 0 \in Nat
        OBVIOUS
      <3> QED BY <1>0, <1>4, <1>7, <2>1, <3>1, Goes
    <2>3. At(c, "acc", <<DATA(c, client[c].num)>>, <<>>)'
      BY <1>5, <1>6, <2>2 DEF At
    <2>4. Serves(c, "first", 0)'
      BY <1>0, <1>5, <1>9 DEF Serves
    <2> QED BY <1>9, <2>2, <2>3, <2>4, HarmlessStep DEF SendsPacket
  <1> QED BY <1>8, <1>9

LEMMA FromNothing ==
  ASSUME NEW c \in Clients, Harmless(c), Nothing(c)
  PROVE  Confirmed(c)'
  <1>0. /\ client[c].pc = "conacc" /\ up[c] = <<>> /\ down[c] = <<CONACC, RCVD>>
        /\ client[c].len = 0 /\ ~Reliable(c) /\ server.peer # c
        /\ Next1(<<CONACC, RCVD>>) = {CONACC} /\ <<CONACC, RCVD>> # <<>> /\ Rest(<<CONACC, RCVD>>) = <<RCVD>>
    BY HarmlessStep, ShortLinks, SMTT(20), ZenonT(40) DEF Nothing, At, NotServed
  <1>1. ~ServerStep(c) /\ ~Lose(c)
    BY <1>0, ServerIdle, OnlyConnLost
  <1>2. ~AccArrives(c) /\ ~ClientIgnores(c) /\ ~RcvdArrives(c) /\ ~ConrjtArrives(c) /\ ~ClientFails(c)
    BY <1>0, PacketTypes DEF AccArrives, ClientIgnores, RcvdArrives, ConrjtArrives, ClientFails, Arrives,
                             Stale, Expected
  <1>3. ConaccArrives(c)
    BY <1>0, <1>1, <1>2, ClientAnswered DEF Harmless, Running
  <1>4. ClientsOK /\ Ordered
    BY HarmlessStep DEF Harmless, SavedInv
  <1>5. server' = server /\ down'[c] = <<RCVD>>
    BY <1>0, <1>3, HarmlessStep, LinkChange DEF ConaccArrives, session
  <1>6. ClientWaits(c, "rcvd", 0) /\ ClientSends(c, AllData(c))
    BY <1>0, <1>3 DEF ConaccArrives, Reliable
  <1>7. client'[c].pc = "rcvd"
    BY <1>4, <1>6, WaitsFor
  <1>8. AllData(c) = <<>>
    <2>1. Count(c) = 0
      BY <1>0, <1>4, Counts
    <2>2. SubSeq(AllData(c), 0 + 1, Count(c)) = AllData(c) /\ SubSeq(AllData(c), 0 + 1, Count(c)) = <<>>
      BY <1>4, <2>1, Remaining
    <2> QED BY <2>2
  <1>9. up'[c] = <<>>
    <2>1. up'[c] = With(up[c], AllData(c))
      BY <1>6, HarmlessStep, LinkChange
    <2>2. With(<<>>, AllData(c)) = AllData(c)
      BY <1>4, AllDataPackets, ShortLinks
    <2> QED BY <1>0, <1>8, <2>1, <2>2
  <1> QED BY <1>0, <1>5, <1>7, <1>9 DEF Confirmed, At, NotServed

LEMMA FromSendsPacket ==
  ASSUME NEW c \in Clients, Harmless(c), SendsPacket(c)
  PROVE  IsAcked(c)' \/ IsAckedLast(c)'
  <1>p. PICK n : n = client[c].num
    OBVIOUS
  <1> DEFINE m == DATA(c, n)
  <1>0. /\ client[c].pc = "acc" /\ up[c] = <<m>> /\ down[c] = <<>> /\ Reliable(c)
        /\ client[c].attempts = 0 /\ server.peer = c /\ server.num = n /\ server.attempts = 0
        /\ server.pc \in {"first", "next"} /\ n \in Nat
        /\ Next1(<<m>>) = {m} /\ <<m>> # <<>> /\ Rest(<<m>>) = <<>> /\ Next1(<<>>) = {}
    BY <1>p, HarmlessStep, ShortLinks DEF SendsPacket, At, Serves, Client
  <1>1. More(c, n)
    BY <1>p, <1>0 DEF Harmless, SavedInv, ClientsOK
  <1>2. ~Lose(c)
    BY <1>0, OnlyConnLost, PacketTypes
  <1>3. ~ClientStep(c)
    BY <1>0, ClientIdle, ClientInTime DEF ClientConnects, ClientStart
  <1>4. ~ServerRetransmits(c) /\ ~ServerGivesUp(c)
    <2>1. ~Stream /\ ~(0 > 0)
      BY <1>0, HarmlessStep
    <2> QED BY <1>0, <2>1, ServerInTime
  <1>5. Accept(c)
    BY <1>0, <1>1, <1>2, <1>3, <1>4, ExpectedIsGood DEF ServerStep, Harmless
  <1>6. ~Ended(c) /\ Acks(m) = <<ACC(n)>>
    <2>1. m.num = n
      BY DEF DATA, Packet
    <2> QED BY <1>0, <2>1 DEF Ended, Acks
  <1>7. /\ client' = client /\ up'[c] = Rest(up[c])
        /\ IF More(c, n + 1)
           THEN /\ server'.peer = c /\ server'.num = n + 1 /\ server'.attempts = 0
                /\ server'.pc = IF server.pc = "data" THEN "data" ELSE "next"
                /\ down'[c] = With(down[c], Acks(m))
           ELSE NotServed(c)' /\ down'[c] = With(down[c], Append(Acks(m), RCVD))
    BY <1>0, <1>1, <1>5, <1>6, TakesExpected
  <1>8. /\ With(<<>>, <<ACC(n)>>) = <<ACC(n)>> /\ Append(<<ACC(n)>>, RCVD) = <<ACC(n), RCVD>>
        /\ With(<<>>, <<ACC(n), RCVD>>) = <<ACC(n), RCVD>>
    BY HarmlessStep, ShortLinks
  <1>9. client'[c] = client[c] /\ (\A k : More(c, k)' = More(c, k)) /\ Reliable(c)'
    BY <1>0, <1>7, SameLength, HarmlessStep
  <1> HIDE DEF m
  <1>10. CASE More(c, n + 1)
    <2>1. At(c, "acc", <<>>, <<ACC(client[c].num)>>)'
      BY <1>p, <1>0, <1>6, <1>7, <1>8, <1>9, <1>10, SMTT(20), ZenonT(40) DEF At
    <2>2. Serves(c, "next", client[c].num + 1)'
      BY <1>p, <1>0, <1>7, <1>9, <1>10 DEF Serves
    <2> QED BY <1>p, <1>9, <1>10, <2>1, <2>2 DEF IsAcked
  <1>11. CASE ~More(c, n + 1)
    <2>1. At(c, "acc", <<>>, <<ACC(client[c].num), RCVD>>)'
      BY <1>p, <1>0, <1>6, <1>7, <1>8, <1>9, <1>11, SMTT(20), ZenonT(40) DEF At
    <2> QED BY <1>p, <1>7, <1>9, <1>11, <2>1 DEF IsAckedLast
  <1> QED BY <1>10, <1>11

LEMMA FromIsAcked ==
  ASSUME NEW c \in Clients, Harmless(c), IsAcked(c)
  PROVE  SendsPacket(c)'
  <1>p. PICK n : n = client[c].num
    OBVIOUS
  <1> DEFINE m == ACC(n)
  <1>0. /\ client[c].pc = "acc" /\ up[c] = <<>> /\ down[c] = <<m>> /\ Reliable(c)
        /\ server.peer = c /\ server.num = n + 1 /\ server.attempts = 0
        /\ server.pc = "next" /\ n \in Nat /\ n + 1 \in Nat /\ More(c, n + 1)
        /\ Next1(<<m>>) = {m} /\ <<m>> # <<>> /\ Rest(<<m>>) = <<>> /\ Next1(<<>>) = {}
    BY <1>p, HarmlessStep, ShortLinks DEF IsAcked, At, Serves, Client
  <1>1. ~Lose(c)
    BY <1>0, OnlyConnLost, PacketTypes
  <1>2. ~ServerStep(c)
    <2>1. ~Stream
      BY <1>0, HarmlessStep
    <2> QED BY <1>0, <2>1, ServerIdle, ServerInTime
  <1>3. ~Stale(c, m) /\ m \in Expected(c)
    <2>1. m.type = "ACC" /\ m.num = n /\ ~(n < n) /\ CONACC.type = "CONACC"
      BY <1>0, PacketTypes
    <2> QED BY <1>p, <1>0, <2>1 DEF Stale, Expected
  <1>4. ~ConaccArrives(c) /\ ~ClientIgnores(c) /\ ~RcvdArrives(c) /\ ~ConrjtArrives(c) /\ ~ClientFails(c)
    BY <1>0, <1>3 DEF ConaccArrives, ClientIgnores, RcvdArrives, ConrjtArrives, ClientFails, Arrives
  <1>5. AccArrives(c)
    BY <1>0, <1>1, <1>2, <1>4, ClientAnswered DEF Harmless, Running
  <1>6. SendFrom(c, n + 1) /\ server' = server /\ down'[c] = <<>>
    BY <1>p, <1>0, <1>5, HarmlessStep, LinkChange DEF AccArrives, session
  <1>7. client'[c].pc = "acc" /\ client'[c].num = n + 1 /\ client'[c].attempts = 0
        /\ up'[c] = <<DATA(c, n + 1)>>
    BY <1>0, <1>6, HarmlessStep, Goes DEF Harmless
  <1>8. \A k : DATA(c, k)' = DATA(c, k)
    BY HarmlessStep, SameLength
  <1>9. At(c, "acc", <<DATA(c, client[c].num)>>, <<>>)'
    BY <1>6, <1>7, <1>8 DEF At
  <1>10. Serves(c, "next", client[c].num)' /\ client'[c].num # 0
    BY <1>0, <1>6, <1>7 DEF Serves
  <1> QED BY <1>0, <1>7, <1>9, <1>10, HarmlessStep DEF SendsPacket

LEMMA FromIsAckedLast ==
  ASSUME NEW c \in Clients, Harmless(c), IsAckedLast(c)
  PROVE  Confirmed(c)'
  <1>p. PICK n : n = client[c].num
    OBVIOUS
  <1> DEFINE m == ACC(n)
  <1>0. /\ client[c].pc = "acc" /\ up[c] = <<>> /\ down[c] = <<m, RCVD>> /\ Reliable(c)
        /\ server.peer # c /\ n \in Nat /\ n + 1 \in Nat /\ ~More(c, n + 1)
        /\ Next1(<<m, RCVD>>) = {m} /\ <<m, RCVD>> # <<>> /\ Rest(<<m, RCVD>>) = <<RCVD>> /\ Next1(<<>>) = {}
    <2>1. n \in Nat /\ n + 1 \in Nat
      BY <1>p, HarmlessStep DEF Client
    <2>2. /\ client[c].pc = "acc" /\ up[c] = <<>> /\ down[c] = <<m, RCVD>> /\ Reliable(c)
          /\ server.peer # c /\ ~More(c, n + 1)
      BY <1>p DEF IsAckedLast, At, NotServed
    <2>3. /\ Next1(<<m, RCVD>>) = {m} /\ <<m, RCVD>> # <<>> /\ Rest(<<m, RCVD>>) = <<RCVD>> /\ Next1(<<>>) = {}
      BY HarmlessStep, ShortLinks
    <2> QED BY <2>1, <2>2, <2>3
  <1>1. ~Lose(c)
    BY <1>0, OnlyConnLost, PacketTypes
  <1>2. ~ServerStep(c)
    BY <1>0, ServerIdle
  <1>3. ~Stale(c, m) /\ m \in Expected(c)
    <2>1. m.type = "ACC" /\ m.num = n /\ ~(n < n) /\ CONACC.type = "CONACC"
      BY <1>0, PacketTypes
    <2> QED BY <1>p, <1>0, <2>1 DEF Stale, Expected
  <1>4. ~ConaccArrives(c) /\ ~ClientIgnores(c) /\ ~RcvdArrives(c) /\ ~ConrjtArrives(c) /\ ~ClientFails(c)
    BY <1>0, <1>3 DEF ConaccArrives, ClientIgnores, RcvdArrives, ConrjtArrives, ClientFails, Arrives
  <1>5. AccArrives(c)
    BY <1>0, <1>1, <1>2, <1>4, ClientAnswered DEF Harmless, Running
  <1>6. SendFrom(c, n + 1) /\ server' = server /\ down'[c] = <<RCVD>>
    BY <1>p, <1>0, <1>5, HarmlessStep, LinkChange DEF AccArrives, session
  <1>7. client'[c].pc = "rcvd" /\ up'[c] = <<>>
    BY <1>0, <1>6, HarmlessStep, Goes DEF Harmless
  <1> QED BY <1>0, <1>6, <1>7 DEF Confirmed, At, NotServed

LEMMA FromSendsAll ==
  ASSUME NEW c \in Clients, Harmless(c), SendsAll(c)
  PROVE  SendsAll(c)' \/ Confirmed(c)'
  <1>p. PICK n : n = server.num
    OBVIOUS
  <1> DEFINE m == DATA(c, n)
  <1>0. /\ client[c].pc = "rcvd" /\ down[c] = <<>> /\ ~Reliable(c) /\ client[c].attempts = 0
        /\ up[c] = SubSeq(AllData(c), n + 1, Count(c)) /\ n < Count(c)
        /\ server.peer = c /\ server.attempts = 0 /\ server.pc = "data"
    BY <1>p DEF SendsAll, At, Serves
  <1>1. ClientsOK /\ SessionOK /\ Ordered /\ n \in Nat /\ n + 1 \in Nat
    <2>1. ClientsOK /\ SessionOK /\ Ordered
      BY HarmlessStep DEF Harmless, SavedInv
    <2>2. n \in Nat
      BY <1>p, <2>1 DEF SessionOK
    <2> QED BY <2>1, <2>2
  <1>2. /\ up[c] # <<>> /\ Next1(up[c]) = {m} /\ Rest(up[c]) = SubSeq(AllData(c), n + 2, Count(c))
    BY <1>0, <1>1, Remaining
  <1>3. Count(c) \in Nat /\ More(c, n) /\ (More(c, n + 1) <=> n + 1 < Count(c))
    BY <1>0, <1>1, Counts
  <1>4. ~Lose(c)
    BY <1>0, OnlyConnLost
  <1>5. ~ClientStep(c)
    BY <1>0, <1>2, ClientIdle, ClientInTime DEF ClientConnects, ClientStart
  <1>6. ~ServerRetransmits(c) /\ ~ServerGivesUp(c)
    <2>1. ~(0 > 0)
      OBVIOUS
    <2> QED BY <1>0, <1>2, <2>1, ServerInTime
  <1>7. Accept(c)
    BY <1>p, <1>0, <1>1, <1>2, <1>3, <1>4, <1>5, <1>6, ExpectedIsGood DEF ServerStep, Harmless
  <1>8. ~Ended(c) /\ Acks(m) = <<>>
    BY <1>0 DEF Ended, Acks
  <1>9. /\ client' = client /\ up'[c] = Rest(up[c])
        /\ IF More(c, n + 1)
           THEN /\ server'.peer = c /\ server'.num = n + 1 /\ server'.attempts = 0
                /\ server'.pc = IF server.pc = "data" THEN "data" ELSE "next"
                /\ down'[c] = With(down[c], Acks(m))
           ELSE NotServed(c)' /\ down'[c] = With(down[c], Append(Acks(m), RCVD))
    BY <1>p, <1>0, <1>1, <1>2, <1>3, <1>7, <1>8, TakesExpected
  <1>10. Append(<<>>, RCVD) = <<RCVD>> /\ With(<<>>, <<RCVD>>) = <<RCVD>> /\ With(<<>>, <<>>) = <<>>
    BY <1>1, ShortLinks, NoPacket
  <1>11. AllData(c)' = AllData(c) /\ Count(c)' = Count(c) /\ ~Reliable(c)'
    BY <1>0, SameLength, HarmlessStep
  <1> HIDE DEF m
  <1>12. CASE More(c, n + 1)
    <2>1. server'.num = n + 1 /\ down'[c] = <<>>
      BY <1>0, <1>8, <1>9, <1>10, <1>12
    <2>2. up'[c] = SubSeq(AllData(c), n + 1 + 1, Count(c))
      <3>1. n + 1 + 1 = n + 2
        BY <1>1
      <3> QED BY <1>2, <1>9, <3>1
    <2>3. At(c, "rcvd", SubSeq(AllData(c), server.num + 1, Count(c)), <<>>)'
      BY <1>0, <1>9, <1>11, <2>1, <2>2 DEF At
    <2>4. Serves(c, "data", server.num)'
      BY <1>0, <1>9, <1>12 DEF Serves
    <2>5. client'[c].attempts = 0 /\ server'.num < Count(c)'
      BY <1>0, <1>3, <1>9, <1>11, <1>12, <2>1
    <2> QED BY <1>11, <2>3, <2>4, <2>5 DEF SendsAll
  <1>13. CASE ~More(c, n + 1)
    <2>1. Rest(up[c]) = <<>>
      <3>1. n + 1 >= Count(c) /\ n + 1 + 1 = n + 2
        BY <1>1, <1>3, <1>13
      <3>2. SubSeq(AllData(c), n + 1 + 1, Count(c)) = <<>>
        BY <1>1, <3>1, Remaining
      <3> QED BY <1>2, <3>1, <3>2
    <2>2. down'[c] = <<RCVD>>
      BY <1>0, <1>8, <1>9, <1>10, <1>13
    <2>3. At(c, "rcvd", <<>>, <<RCVD>>)'
      BY <1>0, <1>9, <2>1, <2>2 DEF At
    <2> QED BY <1>9, <1>13, <2>3 DEF Confirmed
  <1> QED BY <1>12, <1>13

LEMMA FromConfirmed ==
  ASSUME NEW c \in Clients, Harmless(c), Confirmed(c)
  PROVE  Over(c)'
  <1>0. /\ client[c].pc = "rcvd" /\ up[c] = <<>> /\ down[c] = <<RCVD>> /\ server.peer # c
        /\ Next1(<<RCVD>>) = {RCVD} /\ <<RCVD>> # <<>> /\ Next1(<<>>) = {}
    BY HarmlessStep, ShortLinks DEF Confirmed, At, NotServed
  <1>1. ~ServerStep(c) /\ ~Lose(c)
    BY <1>0, ServerIdle, OnlyConnLost, PacketTypes
  <1>2. ~ConaccArrives(c) /\ ~AccArrives(c) /\ ~ClientIgnores(c) /\ ~ConrjtArrives(c) /\ ~ClientFails(c)
    BY <1>0, PacketTypes DEF ConaccArrives, AccArrives, ClientIgnores, ConrjtArrives, ClientFails, Arrives,
                             Stale, Expected
  <1>3. RcvdArrives(c)
    BY <1>0, <1>1, <1>2, ClientAnswered DEF Harmless, Running
  <1>4. client'[c].pc = "done"
    BY <1>3, WaitsFor DEF RcvdArrives, Exit, Harmless, SavedInv
  <1> QED BY <1>4 DEF Over

LEMMA FromOver ==
  ASSUME NEW c \in Clients, Harmless(c), Over(c)
  PROVE  Over(c)'
  <1>1. ~ClientStep(c)
    BY DEF Over, ClientStep, ClientConnects, ClientStart, ConaccArrives, AccArrives, ClientIgnores,
           RcvdArrives, ConrjtArrives, ClientFails, ClientTimesOut, Arrives, Running
  <1>2. client' = client
    BY <1>1 DEF Harmless, ServerStep, Lose, AcceptConnection, Open, Accept, Reject, RefuseOther, ServerIgnores,
                ServerRetransmits, ServerGivesUp
  <1> QED BY <1>2 DEF Over

LEMMA NextCause ==
  ASSUME SavedInv, Bounded, CauseInv, [Next]_vars, MaxLost <= MAX_RETRANSMITS
  PROVE  CauseInv'
  <1>1. CASE Next
    <2>1. PICK c \in Clients : ClientStep(c) \/ ServerStep(c) \/ Lose(c)
      BY <1>1 DEF Next
    <2>2. Apart(c) /\ Losses(c)
      BY <2>1, ClientStepAlone, ServerStepAlone, StepLosses
    <2>3. \A d \in Clients : Stream' <=> client'[d].protocol = "tcp"
      BY <2>2 DEF Apart, Losses, CauseInv, Stream
    <2>4. ASSUME NEW d \in Clients, NoHarm(d)' PROVE Smooth(d)'
      <3>1. CASE d # c
        BY <2>1, <2>4, <3>1, OthersSmooth
      <3>2. CASE d = c
        <4>1. Harmless(d)
          BY <2>1, <2>4, <3>2 DEF Harmless
        <4>2. Smooth(d)
          BY <4>1, HarmlessStep
        <4> QED BY <4>1, <4>2, FromResting, FromConnecting, FromCallsStream, FromCallsOut, FromTurnedAway,
                   FromWelcomed, FromNothing, FromSendsPacket, FromIsAcked, FromIsAckedLast, FromSendsAll,
                   FromConfirmed, FromOver DEF Smooth
      <3> QED BY <3>1, <3>2
    <2> QED BY <2>2, <2>3, <2>4 DEF Losses, CauseInv
  <1>2. CASE UNCHANGED vars
    <2>1. client' = client /\ server' = server /\ up' = up /\ down' = down
          /\ net' = net /\ lost' = lost /\ losses' = losses
      BY <1>2 DEF vars, session, network
    <2>2. ASSUME NEW d \in Clients PROVE NoHarm(d)' = NoHarm(d) /\ Smooth(d)' = Smooth(d)
      BY <2>1 DEF NoHarm, Smooth, Resting, Connecting, CallsStream, CallsOut, TurnedAway, Welcomed, Nothing,
                  SendsPacket, IsAcked, IsAckedLast, SendsAll, Confirmed, Over, At, Serves, NotServed, Reliable,
                  Ordered, Stream, More, DATA, Packet, Chunk, Left, AllData, Count
    <2>3. Stream' = Stream
      BY <2>1 DEF Stream
    <2> QED BY <2>1, <2>2, <2>3 DEF CauseInv
  <1> QED BY <1>1, <1>2

(* A client that fails is nowhere on the way of an undisturbed transfer. *)
LEMMA Cause == CauseInv => FailureHasCause
  <1> SUFFICES ASSUME CauseInv, NEW c \in Clients, Ordered, client[c].pc = "failed"
               PROVE  IF client[c].protocol # "udpr" THEN lost[c] # {}
                      ELSE lost[c] \ {"CONN"} # {} \/ client[c].len = 0
    BY DEF FailureHasCause
  <1>1. ~Smooth(c)
    BY DEF Smooth, Resting, Connecting, CallsStream, CallsOut, TurnedAway, Welcomed, Nothing,
           SendsPacket, IsAcked, IsAckedLast, SendsAll, Confirmed, Over, At
  <1>2. ~NoHarm(c)
    BY <1>1 DEF CauseInv
  <1> QED BY <1>2 DEF NoHarm

(* On ordered links a client of ppcbs fails only for a reason: over udpr,   *)
(* when a packet other than a CONN was lost or there were no data to send,  *)
(* else when something was lost or, over tcp, an end was too slow for the   *)
(* other.  For each CONN lost the client sends another (the loop at         *)
(* client_udpr.c:86), which is enough if no more packets are lost than it   *)
(* may repeat; no other client disturbs the session it then has.            *)
THEOREM FailsForCause ==
  ASSUME MaxLost <= MAX_RETRANSMITS
  PROVE  Spec => []FailureHasCause
  <1>1. Init => SavedInv /\ Bounded /\ CauseInv
    BY InitSaved, InitBounded, InitCause
  <1>2. SavedInv /\ Bounded /\ CauseInv /\ [Next]_vars => (SavedInv /\ Bounded /\ CauseInv)'
    BY NextSaved, NextBounded, NextCause
  <1> QED BY <1>1, <1>2, Cause, PTL DEF Spec
=============================================================================
