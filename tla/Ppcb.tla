-------------------------------- MODULE Ppcb --------------------------------
(***************************************************************************)
(* computer-networks/project1: the file transfer protocol PPCB.  ppcbs     *)
(* serves one session at a time, over datagrams of the protocol udp (send  *)
(* everything, hope) or udpr (acknowledge and retransmit), or else over    *)
(* tcp; ppcbc sends its whole standard input in one session and exits.     *)
(*                                                                         *)
(* One action is one packet received, with all that its receiver does      *)
(* until it waits again, or one timeout.  Data are counted in units, of    *)
(* which a full packet takes BUFFER_SIZE.  Receivers look at the size of a *)
(* packet before its type; with the sizes of common.h that refuses the     *)
(* same packets as the type alone.  A client has one address and one       *)
(* session id, so the checks of the session id never fail and no packet    *)
(* carries one.  sendto never fails; of a connection that is closed, the   *)
(* other end reads what was sent before and then FIN.                      *)
(*                                                                         *)
(* The network is one of Networks.  On the "wild" one anything ever sent   *)
(* may arrive at any time, again and again, or never, and timeouts are     *)
(* arbitrary; the server opens at most MaxSessions sessions.  On the       *)
(* "ordered" one each link is first in first out, MaxLost packets may be   *)
(* lost, and who times out is owed nothing: what is still on its way is at *)
(* most a retransmission by a peer that timed out at the same time.  On a  *)
(* "stream", that of tcp, nothing is lost and each end may be too slow for *)
(* the other.                                                              *)
(***************************************************************************)
EXTENDS Integers, Sequences, Functions

CONSTANTS Clients, Protocols, Lengths, BUFFER_SIZE, MAX_RETRANSMITS,
          Networks, MaxLost, MaxSessions

ASSUME PpcbAssumption ==
  /\ Protocols \subseteq {"udp", "udpr"}
  /\ Lengths \subseteq Nat
  /\ BUFFER_SIZE \in Nat \ {0}
  /\ MAX_RETRANSMITS \in Nat /\ MaxLost \in Nat /\ MaxSessions \in Nat
  /\ Networks \subseteq {"wild", "ordered", "stream"}

Nobody == "nobody"

ASSUME NobodyAssumption == Nobody \notin Clients

VARIABLES
  client,   \* by client: protocol, length of the data, where it is, attempts, packet_number
  server,   \* where it is, the client of the session, attempts, the packet expected,
            \* read_size and data_len
  printed,  \* the packets printed in this session
  net,      \* the network there is
  up, down, \* the links to and from the server, by client
  saved,    \* history: the clients all of whose data some session has printed
  lost,     \* history: the types of the packets lost, by client; "time" on a stream
  losses,   \* history: how many packets were lost
  opened    \* history: how many sessions were opened

network == <<net, lost, losses>>

Ordered == net # "wild"
Stream == net = "stream"

session == <<server, printed, saved, opened>>
vars == <<client, session, up, down, network>>

-----------------------------------------------------------------------------
(* The packets: num is the packet number, units the length of the data.     *)

Packet(type, num, units) == [type |-> type, num |-> num, units |-> units]

CONN == Packet("CONN", 0, 0)
CONACC == Packet("CONACC", 0, 0)
SYN == Packet("SYN", 0, 0)
FIN == Packet("FIN", 0, 0)
CONRJT == Packet("CONRJT", 0, 0)
RCVD == Packet("RCVD", 0, 0)
ACC(n) == Packet("ACC", n, 0)
RJT(n) == Packet("RJT", n, 0)

(* Packet n takes the data from offset n * BUFFER_SIZE on. *)
Left(c, n) == client[c].len - n * BUFFER_SIZE
More(c, n) == client[c].len > n * BUFFER_SIZE
Chunk(c, n) == IF Left(c, n) > BUFFER_SIZE THEN BUFFER_SIZE ELSE Left(c, n)
DATA(c, n) == Packet("DATA", n, Chunk(c, n))

Count(c) == (client[c].len + BUFFER_SIZE - 1) \div BUFFER_SIZE
AllData(c) == [i \in 1..Count(c) |-> DATA(c, i - 1)]
Whole(c) == [i \in 1..Count(c) |-> <<c, i - 1>>]

-----------------------------------------------------------------------------
(* The links: a queue if Ordered, else the set of all that was ever sent.   *)

Empty == IF Ordered THEN <<>> ELSE {}
Next1(link) == IF ~Ordered THEN link ELSE IF link = <<>> THEN {} ELSE {Head(link)}
Rest(link) == IF Ordered THEN Tail(link) ELSE link
With(link, packets) == IF Ordered THEN link \o packets ELSE link \cup Range(packets)

Running(c) == client[c].pc \in {"conacc", "acc", "rcvd"}
Ended(c) == client[c].pc \in {"done", "failed", "refused"}

ClientSends(c, packets) == up' = [up EXCEPT ![c] = With(@, packets)]

(* Nothing arrives at a client that has exited. *)
ServerSends(c, packets) ==
  down' = [down EXCEPT ![c] = IF Ended(c) THEN @ ELSE With(@, packets)]

Init ==
  /\ net \in Networks
  /\ client \in [Clients -> [protocol : IF Stream THEN {"tcp"} ELSE Protocols,
                             len : Lengths, pc : {"start"}, attempts : {0}, num : {0}]]
  /\ server = [pc |-> "listen", peer |-> Nobody, attempts |-> 0, num |-> 0,
               read |-> 0, size |-> 0]
  /\ printed = <<>> /\ saved = {} /\ opened = 0
  /\ up = [c \in Clients |-> Empty] /\ down = [c \in Clients |-> Empty]
  /\ lost = [c \in Clients |-> {}] /\ losses = 0

-----------------------------------------------------------------------------
(* ppcbc: handle_udp_client, handle_udpr_client and handle_tcp_client *)

ClientWaits(c, pc, num) ==
  client' = [client EXCEPT ![c].pc = pc, ![c].num = num, ![c].attempts = 0]

(* The packet m arrives at c, which waits at pc, and leaves the link. *)
Arrives(c, pc, m) ==
  /\ client[c].pc = pc
  /\ m \in Next1(down[c])

Received(c) == down' = [down EXCEPT ![c] = Rest(@)]

Closing == IF Stream THEN <<FIN>> ELSE <<>>

Exit(c, pc) ==
  /\ ClientWaits(c, pc, 0)
  /\ down' = [down EXCEPT ![c] = Empty]
  /\ ClientSends(c, Closing)

(* Over tcp the connection is there before the data are read.               *)
ClientConnects(c) ==
  /\ Stream
  /\ client[c].pc = "start"
  /\ ClientWaits(c, "connected", 0)
  /\ ClientSends(c, <<SYN>>)
  /\ UNCHANGED <<session, down, network>>

ClientStart(c) ==
  /\ client[c].pc = IF Stream THEN "connected" ELSE "start"
  /\ ClientWaits(c, "conacc", 0)
  /\ ClientSends(c, <<CONN>>)
  /\ UNCHANGED <<session, down, network>>

(* From packet n on: udpr sends one packet, or goes on to wait for RCVD.    *)
SendFrom(c, n) ==
  \/ /\ More(c, n)
     /\ ClientWaits(c, "acc", n)
     /\ ClientSends(c, <<DATA(c, n)>>)
  \/ /\ ~More(c, n)
     /\ ClientWaits(c, "rcvd", 0)
     /\ UNCHANGED up

ConaccArrives(c) ==
  /\ Arrives(c, "conacc", CONACC) /\ Received(c)
  /\ \/ /\ client[c].protocol # "udpr"
        /\ ClientWaits(c, "rcvd", 0)
        /\ ClientSends(c, AllData(c))
     \/ client[c].protocol = "udpr" /\ SendFrom(c, 0)
  /\ UNCHANGED <<session, network>>

AccArrives(c) ==
  /\ Arrives(c, "acc", ACC(client[c].num)) /\ Received(c)
  /\ SendFrom(c, client[c].num + 1)
  /\ UNCHANGED <<session, network>>

(* What an udpr client lets pass: acknowledgements it has had, and a        *)
(* repeated CONACC while it waits for the first of them.                    *)
Stale(c, m) ==
  \/ client[c].pc = "acc" /\ m.type = "ACC" /\ m.num < client[c].num
  \/ client[c].pc = "acc" /\ m = CONACC /\ client[c].num = 0
  \/ client[c].pc = "rcvd" /\ m.type = "ACC" /\ client[c].protocol = "udpr"

ClientIgnores(c) ==
  /\ Running(c)
  /\ \E m \in Next1(down[c]) : Stale(c, m)
  /\ Received(c)
  /\ UNCHANGED <<client, session, up, network>>

RcvdArrives(c) ==
  /\ Arrives(c, "rcvd", RCVD)
  /\ Exit(c, "done")
  /\ UNCHANGED <<session, network>>

ConrjtArrives(c) ==
  /\ Arrives(c, "conacc", CONRJT)
  /\ Exit(c, "refused")
  /\ UNCHANGED <<session, network>>

(* Any other packet ends the client. *)
Expected(c) ==
  CASE client[c].pc = "conacc" -> {CONACC, CONRJT}
    [] client[c].pc = "acc" -> {ACC(client[c].num)}
    [] client[c].pc = "rcvd" -> {RCVD}

ClientFails(c) ==
  /\ Running(c)
  /\ \E m \in Next1(down[c]) : m \notin Expected(c) /\ ~Stale(c, m)
  /\ Exit(c, "failed")
  /\ UNCHANGED <<session, network>>

ClientTimely(c) ==
  CASE net = "wild" -> TRUE
    [] net = "ordered" -> /\ up[c] = <<>>
                          /\ down[c] = <<>> \/ (server.peer = c /\ server.attempts > 0)
    [] net = "stream" -> down[c] = <<>>

Blames(c) ==
  /\ lost' = IF Stream THEN [lost EXCEPT ![c] = @ \cup {"time"}] ELSE lost
  /\ UNCHANGED <<net, losses>>

Retransmits(c) ==
  client[c].protocol = "udpr" /\ client[c].pc \in {"conacc", "acc"}

ClientTimesOut(c) ==
  /\ Running(c) /\ ClientTimely(c)
  /\ \/ /\ Retransmits(c) /\ client[c].attempts < MAX_RETRANSMITS
        /\ client' = [client EXCEPT ![c].attempts = @ + 1]
        /\ ClientSends(c, <<IF client[c].pc = "conacc" THEN CONN ELSE DATA(c, client[c].num)>>)
        /\ UNCHANGED down
     \/ /\ Retransmits(c) => client[c].attempts = MAX_RETRANSMITS
        /\ Exit(c, "failed")
  /\ Blames(c)
  /\ UNCHANGED session

-----------------------------------------------------------------------------
(* ppcbs: handle_udp_connection and handle_tcp_connection *)

Listening == [pc |-> "listen", peer |-> Nobody, attempts |-> 0, num |-> 0,
              read |-> 0, size |-> 0]

ReceivedFrom(c) == up' = [up EXCEPT ![c] = Rest(@)]

(* The session ends: RCVD if all went well. *)
Finish(c, all, packets) ==
  /\ server' = Listening /\ printed' = <<>>
  /\ saved' = IF all = Whole(c) THEN saved \cup {c} ELSE saved
  /\ ServerSends(c, Append(packets, RCVD))

Abort(c, packets) ==
  /\ server' = Listening /\ printed' = <<>>
  /\ ServerSends(c, packets)
  /\ UNCHANGED saved

(* accept: the server waits for the CONN of this connection only.           *)
AcceptConnection(c) ==
  /\ server.pc = "listen"
  /\ SYN \in Next1(up[c]) /\ ReceivedFrom(c)
  /\ server' = [Listening EXCEPT !.pc = "conn", !.peer = c]
  /\ UNCHANGED <<client, printed, saved, opened, down, network>>

(* A CONN opens a session; an empty transfer of udp or tcp is over at once. *)
Open(c) ==
  /\ IF Stream THEN server.pc = "conn" /\ server.peer = c ELSE server.pc = "listen"
  /\ CONN \in Next1(up[c]) /\ ReceivedFrom(c)
  /\ Ordered \/ opened < MaxSessions
  /\ opened' = IF Ordered THEN opened ELSE opened + 1
  /\ \/ /\ client[c].protocol # "udpr" /\ client[c].len = 0
        /\ Finish(c, <<>>, <<CONACC>>)
     \/ /\ client[c].protocol = "udpr" \/ client[c].len > 0
        /\ server' = [Listening EXCEPT !.peer = c, !.size = client[c].len,
                        !.pc = IF client[c].protocol = "udpr" THEN "first" ELSE "data"]
        /\ ServerSends(c, <<CONACC>>)
        /\ UNCHANGED <<printed, saved>>
  /\ UNCHANGED <<client, network>>

(* m has arrived from the client of the session. *)
OfSession(m) == server.pc # "listen" /\ m \in Next1(up[server.peer])

TooLong(m) == server.read + m.units > server.size
AckedAlready(m) == server.pc # "data" /\ m.num < server.num

Good_anyNumber(m) == m.type = "DATA" /\ ~TooLong(m)
Good(m) == m.type = "DATA" /\ ~TooLong(m) /\ m.num = server.num

(* The length is checked before the number: a packet that was acknowledged  *)
(* is let pass only if the rest of the data is not shorter than it is.      *)
Passes(m) ==
  \/ m.type = "DATA" /\ ~TooLong(m) /\ AckedAlready(m)
  \/ m.type = "CONN" /\ server.pc = "first"

Counted_twice(m) ==
  [server EXCEPT !.num = m.num + 1, !.attempts = 0, !.read = server.read + m.units,
                 !.pc = IF server.pc = "first" THEN "next" ELSE server.pc,
                 !.size = IF server.pc = "first" THEN server.size - m.units ELSE server.size]

(* The session after m.  udpr subtracts its first packet from data_len and  *)
(* adds the later ones to read_size.                                        *)
Counted(m) ==
  [server EXCEPT !.num = m.num + 1, !.attempts = 0,
                 !.pc = IF server.pc = "first" THEN "next" ELSE server.pc,
                 !.size = IF server.pc = "first" THEN server.size - m.units ELSE server.size,
                 !.read = IF server.pc = "first" THEN 0 ELSE server.read + m.units]

Acks(m) == IF server.pc = "data" THEN <<>> ELSE <<ACC(m.num)>>

(* The expected packet is printed and, by udpr, acknowledged. *)
Accept(c) ==
  /\ server.peer = c
  /\ \E m \in Next1(up[c]) :
       LET all == Append(printed, <<c, m.num>>) IN
       /\ OfSession(m) /\ Good(m)
       /\ \/ /\ Counted(m).read = Counted(m).size
             /\ Finish(c, all, Acks(m))
          \/ /\ Counted(m).read # Counted(m).size
             /\ server' = Counted(m) /\ printed' = all
             /\ ServerSends(c, Acks(m))
             /\ UNCHANGED saved
  /\ ReceivedFrom(c)
  /\ UNCHANGED <<client, opened, network>>

(* Anything else from the client of the session ends it, FIN without RJT.   *)
Reject(c) ==
  /\ server.peer = c
  /\ \E m \in Next1(up[c]) : OfSession(m) /\ ~Good(m) /\ ~Passes(m) /\ (server.pc = "conn" => m # CONN)
  /\ ReceivedFrom(c)
  /\ Abort(c, IF Stream THEN <<FIN>> ELSE <<RJT(server.num)>>)
  /\ UNCHANGED <<client, opened, network>>

(* Others are refused a session; their DATA, like whatever is no CONN when  *)
(* there is no session, goes unanswered, like the rest of a connection that *)
(* the server has closed.                                                   *)
RefuseOther(c) ==
  /\ ~Stream /\ server.pc # "listen" /\ server.peer # c
  /\ CONN \in Next1(up[c]) /\ ReceivedFrom(c)
  /\ ServerSends(c, <<CONRJT>>)
  /\ UNCHANGED <<client, session, network>>

ServerIgnores(c) ==
  /\ \E m \in Next1(up[c]) :
       \/ server.pc = "listen" /\ m # IF Stream THEN SYN ELSE CONN
       \/ server.pc # "listen" /\ server.peer # c /\ m.type = "DATA"
       \/ server.peer = c /\ Passes(m) /\ ~Good(m)
  /\ ReceivedFrom(c)
  /\ UNCHANGED <<client, session, down, network>>

ServerTimely(c) ==
  CASE net = "wild" -> TRUE
    [] net = "ordered" -> /\ down[c] = <<>>
                          /\ up[c] = <<>> \/ client[c].attempts > 0
    [] net = "stream" -> up[c] = <<>>

Repeated(c) ==
  IF server.pc = "first" THEN CONACC ELSE ACC(server.num - 1)

(* Over udpr the last CONACC or ACC is sent again, MAX_RETRANSMITS times.   *)
ServerRetransmits_forever(c) ==
  /\ server.peer = c /\ ServerTimely(c)
  /\ server.pc \in {"first", "next"} /\ server.attempts <= MAX_RETRANSMITS
  /\ server' = [server EXCEPT !.attempts = 1]
  /\ ServerSends(c, <<Repeated(c)>>)
  /\ UNCHANGED <<client, printed, saved, opened, up, network>>

ServerRetransmits(c) ==
  /\ server.peer = c /\ ServerTimely(c)
  /\ server.pc \in {"first", "next"} /\ server.attempts < MAX_RETRANSMITS
  /\ server' = [server EXCEPT !.attempts = @ + 1]
  /\ ServerSends(c, <<Repeated(c)>>)
  /\ UNCHANGED <<client, printed, saved, opened, up, network>>

ServerGivesUp_confirms(c) ==
  /\ server.peer = c /\ ServerTimely(c)
  /\ server.pc \in {"conn", "data"} \/ server.attempts = MAX_RETRANSMITS
  /\ Abort(c, <<RCVD>>)
  /\ Blames(c)
  /\ UNCHANGED <<client, opened, up>>

ServerGivesUp(c) ==
  /\ server.peer = c /\ ServerTimely(c)
  /\ server.pc \in {"conn", "data"} \/ server.attempts = MAX_RETRANSMITS
  /\ Abort(c, Closing)
  /\ Blames(c)
  /\ UNCHANGED <<client, opened, up>>

-----------------------------------------------------------------------------
(* The network loses a packet. *)
Lose(c) ==
  /\ net = "ordered" /\ losses < MaxLost
  /\ \E m \in Next1(up[c]) \cup Next1(down[c]) :
       /\ lost' = [lost EXCEPT ![c] = @ \cup {m.type}]
       /\ \/ up[c] # <<>> /\ m = Head(up[c]) /\ ReceivedFrom(c) /\ UNCHANGED down
          \/ down[c] # <<>> /\ m = Head(down[c]) /\ Received(c) /\ UNCHANGED up
  /\ losses' = losses + 1
  /\ UNCHANGED <<client, session, net>>

ClientStep(c) ==
  \/ ClientConnects(c) \/ ClientStart(c) \/ ConaccArrives(c) \/ AccArrives(c) \/ ClientIgnores(c)
  \/ RcvdArrives(c) \/ ConrjtArrives(c) \/ ClientFails(c) \/ ClientTimesOut(c)

ServerStep(c) ==
  \/ AcceptConnection(c) \/ Open(c) \/ Accept(c) \/ Reject(c) \/ RefuseOther(c) \/ ServerIgnores(c)
  \/ ServerRetransmits(c) \/ ServerGivesUp(c)

Next == \E c \in Clients : ClientStep(c) \/ ServerStep(c) \/ Lose(c)

Spec == Init /\ [][Next]_vars

(* Every host that has something to receive, or waits in vain, goes on. *)
FairSpec == Spec /\ \A c \in Clients : WF_vars(ClientStep(c)) /\ WF_vars(ServerStep(c))

-----------------------------------------------------------------------------
TypeOK ==
  /\ \A c \in Clients :
       /\ client[c].pc \in {"start", "connected", "conacc", "acc", "rcvd", "done", "failed", "refused"}
       /\ client[c].attempts \in 0..MAX_RETRANSMITS
       /\ client[c].num \in 0..Count(c)
  /\ server.pc \in {"listen", "conn", "data", "first", "next"}
  /\ server.peer \in Clients <=> server.pc # "listen"
  /\ server.attempts \in 0..MAX_RETRANSMITS
  /\ saved \subseteq Clients

(* What a session has printed is the beginning of its client's data, each   *)
(* packet once and in order, whatever the network does with the packets.    *)
PrintsPrefix ==
  server.pc # "listen" =>
    /\ server.num <= Count(server.peer)
    /\ printed = SubSeq(Whole(server.peer), 1, server.num)

(* A client that was sent RCVD and ends in success has had all of its data  *)
(* printed in one session.                                                  *)
SuccessMeansSaved == \A c \in Clients : client[c].pc = "done" => c \in saved

(* The client and the server of a udpr session are never more than one      *)
(* packet apart.                                                            *)
InStep ==
  \A c \in Clients :
    client[c].pc = "acc" /\ server.pc = "next" /\ server.peer = c /\ opened <= 1 =>
      server.num \in {client[c].num, client[c].num + 1}

PpcbInv == TypeOK /\ PrintsPrefix /\ InStep

(* On ordered links, as long as no more packets are lost than there are     *)
(* retransmissions, a transfer of some data that was not refused fails only *)
(* if something was lost, over udpr something other than a CONN: a client   *)
(* whose request is lost asks again and is served.  (One CONACC, DATA or    *)
(* ACC lost may fail a udpr transfer: each host lets repeated packets pass  *)
(* and then waits all over again, so that one's retransmissions can keep    *)
(* the other from retransmitting.)  Over tcp it fails only if an end was    *)
(* too slow for the other.                                                  *)
FailureHasCause ==
  \A c \in Clients :
    Ordered /\ client[c].pc = "failed" =>
      IF client[c].protocol # "udpr" THEN lost[c] # {}
      ELSE lost[c] \ {"CONN"} # {} \/ client[c].len = 0

(* On ordered links every client comes to an end and the server to its     *)
(* next session.                                                            *)
Termination == Ordered => <>[](server.pc = "listen" /\ \A c \in Clients : Ended(c))
=============================================================================
