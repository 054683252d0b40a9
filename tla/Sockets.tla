------------------------------ MODULE Sockets ------------------------------
(***************************************************************************)
(* The transport layer: the descriptor table of network/socket.c over the  *)
(* UDP sockets of network/udp.c and the TCP connections of network/tcp.c.  *)
(*                                                                         *)
(* The three files keep three tables and link them by pointers: a          *)
(* descriptor points to a UDP socket or to a TCP connection, and nothing   *)
(* points back.  Slots of the lower tables are handed out by a counter     *)
(* that only grows.  Whether a UDP socket or a connection still belongs to *)
(* somebody is therefore nowhere written down: that is what the properties *)
(* of this module are about.                                               *)
(*                                                                         *)
(* Abstractions: payloads are lengths; a segment is what tcp_process_packet*)
(* reads of it; ip_send_packet may fail (NET_TIMEOUT on an ARP miss), so   *)
(* its result is any Boolean; network_find_route finds any interface, or   *)
(* none.  No code in the repository sets a callback of a socket or of a    *)
(* connection, so datagrams and data that arrive change no state but the   *)
(* sequence numbers.                                                       *)
(***************************************************************************)
EXTENDS Integers, FiniteSets

CONSTANTS
    MAX_FDS,            \* entries of the descriptor table  (socket.c: 64)
    MAX_SOCKETS,        \* UDP sockets                      (network.h: 64)
    MAX_CONNECTIONS,    \* TCP connections                  (network.h: 32)
    LocalIps,           \* addresses of the interfaces; 0 before DHCP
    RemoteIps,          \* addresses of the peers
    Ports,              \* ports that programs bind and listen on
    RemotePorts,        \* ports of the peers
    EPHEMERAL_BASE,     \* 32768
    EPHEMERAL_PORTS,    \* 32768
    SEQ_MODULUS,        \* sequence numbers are uint32_t: 2^32
    FIRST_SEQUENCE,     \* initial tcp_sequence_number: 1000
    Lengths,            \* payload lengths of the segments exchanged
    PeerSequences       \* sequence numbers the peers use

ASSUME SizesAssumption ==
    /\ MAX_FDS \in Nat /\ MAX_SOCKETS \in Nat /\ MAX_CONNECTIONS \in Nat
    /\ EPHEMERAL_BASE \in Nat \ {0} /\ EPHEMERAL_PORTS \in Nat \ {0}
    /\ SEQ_MODULUS \in Nat \ {0} /\ FIRST_SEQUENCE \in 0 .. SEQ_MODULUS - 1

ASSUME AddressesAssumption ==
    /\ LocalIps \subseteq Nat
    /\ RemoteIps \subseteq Nat \ {0}
    /\ Ports \subseteq Nat \ {0}
    /\ RemotePorts \subseteq Nat \ {0}
    /\ Lengths \subseteq Nat
    /\ PeerSequences \subseteq 0 .. SEQ_MODULUS - 1

VARIABLES
    sockets,              \* the descriptors
    udp_sockets,          \* udp.c: sockets[]
    socket_count,         \* udp.c: slots handed out
    connections,          \* tcp.c: connections[]
    connection_count,     \* tcp.c: slots handed out
    tcp_sequence_number,  \* tcp.c: next initial sequence number
    out,                  \* segments the last step handed to ip_send_packet
    closed                \* history: connections given to tcp_close

vars == << sockets, udp_sockets, socket_count, connections,
           connection_count, tcp_sequence_number, out, closed >>

udpVars == << udp_sockets, socket_count >>
tcpVars == << connections, connection_count, tcp_sequence_number, closed >>

Fds == 0 .. MAX_FDS - 1
UdpSlots == 0 .. MAX_SOCKETS - 1
TcpSlots == 0 .. MAX_CONNECTIONS - 1
Sequences == 0 .. SEQ_MODULUS - 1

NoImpl == -1

\* A descriptor after free_socket_fd: socket_used is false, the rest zeroed.
FreeDescriptor ==
    [used |-> FALSE, type |-> "none", bound |-> FALSE, connected |-> FALSE,
     listening |-> FALSE, bound_port |-> 0, impl |-> NoImpl]

ZeroUdpSocket ==
    [local_port |-> 0, remote_ip |-> 0, remote_port |-> 0,
     bound |-> FALSE, connected |-> FALSE]

ZeroConnection ==
    [local_ip |-> 0, local_port |-> 0, remote_ip |-> 0, remote_port |-> 0,
     state |-> "CLOSED", seq_num |-> 0, ack_num |-> 0, active |-> FALSE]

TcpStates == {"CLOSED", "LISTEN", "SYN_SENT", "SYN_RECEIVED",
              "ESTABLISHED", "CLOSE_WAIT"}

\* The combinations of flags that end points exchange.
FlagSets == {{"SYN"}, {"SYN", "ACK"}, {"ACK"}, {"PSH", "ACK"},
             {"FIN", "ACK"}, {"PSH", "FIN", "ACK"}, {"RST", "ACK"}}

Plus(seq, n) == (seq + n) % SEQ_MODULUS

TCP_HEADER_LEN == 20

\* The header tcp_send_packet builds.
Segment(dest_ip, src_port, dest_port, seq, ack, flags) ==
    [dest_ip |-> dest_ip, src_port |-> src_port, dest_port |-> dest_port,
     seq |-> seq, ack |-> ack, flags |-> flags]

\* The headers tcp_process_packet may be given.
Incoming ==
    [src_ip : RemoteIps, dest_ip : LocalIps, src_port : RemotePorts,
     dest_port : Ports \cup (EPHEMERAL_BASE .. EPHEMERAL_BASE + EPHEMERAL_PORTS - 1),
     seq : PeerSequences, flags : FlagSets, len : Lengths]

----------------------------------------------------------------------------
(* The tables                                                              *)

\* The lowest slot of a set: what a loop that breaks at its first hit finds.
First(i, S) == i \in S /\ \A j \in S : i <= j

allocate_socket_fd(fd) == First(fd, {i \in Fds : ~sockets[i].used})

Open(fd, type) == sockets[fd].used /\ sockets[fd].type = type

NewDescriptor(type, impl) ==
    [FreeDescriptor EXCEPT !.used = TRUE, !.type = type, !.impl = impl]

\* tcp_create_connection's record: an initial sequence number of its own.
NewConnection ==
    [ZeroConnection EXCEPT !.seq_num = tcp_sequence_number, !.active = TRUE]

\* udp.c: the port is taken by a bound socket, the asking one included.
PortInUse(port) ==
    \E s \in UdpSlots : udp_sockets[s].bound /\ udp_sockets[s].local_port = port

----------------------------------------------------------------------------
(* UDP sockets                                                             *)

\* udp_create_socket: the next slot, zeroed.
udp_create_socket ==
    /\ socket_count < MAX_SOCKETS
    /\ udp_sockets' = [udp_sockets EXCEPT ![socket_count] = ZeroUdpSocket]
    /\ socket_count' = socket_count + 1

\* udp_bind refuses a port in use; a socket that is already bound moves to the
\* new port.
udp_bind(s, port) ==
    /\ ~PortInUse(port)
    /\ udp_sockets' = [udp_sockets EXCEPT ![s].local_port = port, ![s].bound = TRUE]

udp_connect(s, ip, port) ==
    udp_sockets' = [udp_sockets EXCEPT ![s].remote_ip = ip, ![s].remote_port = port,
                                       ![s].connected = TRUE]

\* udp_close: the port is free again, the slot is not.
udp_close(s) == udp_sockets' = [udp_sockets EXCEPT ![s] = ZeroUdpSocket]

----------------------------------------------------------------------------
(* TCP connections                                                         *)

\* tcp_create_connection: the next slot, with an initial sequence number.
tcp_create_connection(conn) ==
    /\ connection_count < MAX_CONNECTIONS
    /\ connections' = [connections EXCEPT ![connection_count] = conn]
    /\ connection_count' = connection_count + 1
    /\ tcp_sequence_number' = Plus(tcp_sequence_number, 1)

\* tcp_listen takes a connection of its own and sets its port and its state,
\* no local address.
tcp_listen(port) ==
    tcp_create_connection([NewConnection EXCEPT !.local_port = port, !.state = "LISTEN"])

\* tcp_connect, in any state of the connection.  The SYN may fail to be sent:
\* the connection has changed all the same.
tcp_connect(c, local, ip, port) ==
    LET src == EPHEMERAL_BASE + (tcp_sequence_number % EPHEMERAL_PORTS)
    IN  /\ connections' = [connections EXCEPT
                             ![c].local_ip = local, ![c].local_port = src,
                             ![c].remote_ip = ip, ![c].remote_port = port,
                             ![c].state = "SYN_SENT"]
        /\ out' = {Segment(ip, src, port, connections[c].seq_num, 0, {"SYN"})}

\* A segment of an established connection.
Outgoing(c, flags) ==
    LET conn == connections[c]
    IN  Segment(conn.remote_ip, conn.local_port, conn.remote_port,
                conn.seq_num, conn.ack_num, flags)

\* tcp_send: the sequence number advances only when the segment went out.
tcp_send(c, len, sent) ==
    /\ len > 0
    /\ connections[c].state = "ESTABLISHED"
    /\ connections' = [connections EXCEPT ![c].seq_num = IF sent THEN Plus(@, len) ELSE @]
    /\ out' = {Outgoing(c, {"PSH", "ACK"})}

\* Fault: the connection waits for the peer's FIN instead of going away.
tcp_close_lingers(c, routed) == out' = {} /\ UNCHANGED connections

\* tcp_close: a FIN when a route exists and the connection is established; a
\* connection that was never used is left as it is, active flag included.
tcp_close(c, routed) ==
    /\ connections' = IF connections[c].state = "CLOSED" THEN connections
                      ELSE [connections EXCEPT ![c].active = FALSE,
                                               ![c].state = "CLOSED"]
    /\ out' = IF routed /\ connections[c].state = "ESTABLISHED"
              THEN {Outgoing(c, {"FIN", "ACK"})} ELSE {}

----------------------------------------------------------------------------
(* The socket API                                                          *)

\* socket_create(AF_INET, SOCK_DGRAM): a descriptor and the next UDP slot.
\* When either table is exhausted the call fails and leaves nothing behind.
create_dgram ==
    /\ \E fd \in Fds :
         /\ allocate_socket_fd(fd)
         /\ sockets' = [sockets EXCEPT ![fd] = NewDescriptor("dgram", socket_count)]
    /\ udp_create_socket
    /\ out' = {}
    /\ UNCHANGED tcpVars

\* socket_create(AF_INET, SOCK_STREAM).
create_stream ==
    /\ \E fd \in Fds :
         /\ allocate_socket_fd(fd)
         /\ sockets' = [sockets EXCEPT ![fd] = NewDescriptor("stream", connection_count)]
    /\ tcp_create_connection(NewConnection)
    /\ out' = {}
    /\ UNCHANGED << udpVars, closed >>

\* socket_bind on a datagram socket.
bind_dgram(fd, port) ==
    /\ Open(fd, "dgram")
    /\ udp_bind(sockets[fd].impl, port)
    /\ sockets' = [sockets EXCEPT ![fd].bound = TRUE]
    /\ out' = {}
    /\ UNCHANGED << socket_count, tcpVars >>

\* socket_bind on a stream socket only remembers the port.
bind_stream(fd, port) ==
    /\ Open(fd, "stream")
    /\ sockets' = [sockets EXCEPT ![fd].bound_port = port, ![fd].bound = TRUE]
    /\ out' = {}
    /\ UNCHANGED << udpVars, tcpVars >>

\* socket_listen: no descriptor points to the connection that listens.
socket_listen(fd) ==
    /\ Open(fd, "stream")
    /\ sockets[fd].bound
    /\ tcp_listen(sockets[fd].bound_port)
    /\ sockets' = [sockets EXCEPT ![fd].listening = TRUE]
    /\ out' = {}
    /\ UNCHANGED << udpVars, closed >>

\* socket_connect on a datagram socket.
connect_dgram(fd, ip, port) ==
    /\ Open(fd, "dgram")
    /\ udp_connect(sockets[fd].impl, ip, port)
    /\ sockets' = [sockets EXCEPT ![fd].connected = TRUE]
    /\ out' = {}
    /\ UNCHANGED << socket_count, tcpVars >>

\* socket_connect on a stream socket: the descriptor counts as connected when
\* the SYN was sent.
connect_stream(fd, ip, port) ==
    /\ Open(fd, "stream")
    /\ \E local \in LocalIps, sent \in BOOLEAN :
         /\ tcp_connect(sockets[fd].impl, local, ip, port)
         /\ sockets' = [sockets EXCEPT ![fd].connected = sent \/ @]
    /\ UNCHANGED << udpVars, connection_count, tcp_sequence_number, closed >>

\* socket_send on a stream socket; sending a datagram changes no state.
send_stream(fd, len) ==
    /\ Open(fd, "stream")
    /\ sockets[fd].connected
    /\ \E sent \in BOOLEAN : tcp_send(sockets[fd].impl, len, sent)
    /\ UNCHANGED << sockets, udpVars, connection_count, tcp_sequence_number, closed >>

\* Fault: closing gives the slot back by counting down.
close_dgram_counts_down(fd) ==
    /\ Open(fd, "dgram")
    /\ udp_close(sockets[fd].impl)
    /\ sockets' = [sockets EXCEPT ![fd] = FreeDescriptor]
    /\ socket_count' = socket_count - 1
    /\ out' = {}
    /\ UNCHANGED tcpVars

\* socket_close: the implementation first, then free_socket_fd.
close_dgram(fd) ==
    /\ Open(fd, "dgram")
    /\ udp_close(sockets[fd].impl)
    /\ sockets' = [sockets EXCEPT ![fd] = FreeDescriptor]
    /\ out' = {}
    /\ UNCHANGED << socket_count, tcpVars >>

close_stream(fd) ==
    /\ Open(fd, "stream")
    /\ \E routed \in BOOLEAN : tcp_close(sockets[fd].impl, routed)
    /\ closed' = closed \cup {sockets[fd].impl}
    /\ sockets' = [sockets EXCEPT ![fd] = FreeDescriptor]
    /\ UNCHANGED << udpVars, connection_count, tcp_sequence_number >>

----------------------------------------------------------------------------
(* Arriving segments                                                       *)

\* The connections whose four addresses are those of the segment.
Matching(seg) ==
    {c \in TcpSlots : /\ connections[c].active
                      /\ connections[c].local_ip = seg.dest_ip
                      /\ connections[c].local_port = seg.dest_port
                      /\ connections[c].remote_ip = seg.src_ip
                      /\ connections[c].remote_port = seg.src_port}

\* The connections that listen on the segment's address and port; looked at
\* only for an opening SYN that matches no connection.
Listening(seg) ==
    {c \in TcpSlots : /\ Matching(seg) = {}
                      /\ "SYN" \in seg.flags /\ "ACK" \notin seg.flags
                      /\ connections[c].active
                      /\ connections[c].local_ip = seg.dest_ip
                      /\ connections[c].local_port = seg.dest_port
                      /\ connections[c].state = "LISTEN"}

\* Every answer goes back along the addresses the segment came by.
Answer(seg, seq, ack, flags) ==
    {Segment(seg.src_ip, seg.dest_port, seg.src_port, seq, ack, flags)}

\* No connection: RST.
receive_unmatched(seg) ==
    /\ Matching(seg) = {} /\ Listening(seg) = {}
    /\ out' = Answer(seg, 0, Plus(seg.seq, 1), {"RST", "ACK"})
    /\ UNCHANGED << sockets, udpVars, tcpVars >>

\* case TCP_LISTEN: the listening connection itself becomes the connection.
receive_listen(seg) ==
    /\ \E c \in TcpSlots :
         /\ First(c, Listening(seg))
         /\ connections' = [connections EXCEPT
                              ![c].remote_ip = seg.src_ip,
                              ![c].remote_port = seg.src_port,
                              ![c].ack_num = Plus(seg.seq, 1),
                              ![c].seq_num = tcp_sequence_number,
                              ![c].state = "SYN_RECEIVED"]
    /\ out' = Answer(seg, tcp_sequence_number, Plus(seg.seq, 1), {"SYN", "ACK"})
    /\ tcp_sequence_number' = Plus(tcp_sequence_number, 1)
    /\ UNCHANGED << sockets, udpVars, connection_count, closed >>

\* case TCP_SYN_SENT.
receive_syn_sent(seg) ==
    /\ \E c \in TcpSlots :
         /\ First(c, Matching(seg))
         /\ connections[c].state = "SYN_SENT"
         /\ {"SYN", "ACK"} \subseteq seg.flags
         /\ connections' = [connections EXCEPT ![c].ack_num = Plus(seg.seq, 1),
                                               ![c].state = "ESTABLISHED"]
         /\ out' = Answer(seg, Plus(connections[c].seq_num, 1), Plus(seg.seq, 1), {"ACK"})
    /\ UNCHANGED << sockets, udpVars, connection_count, tcp_sequence_number, closed >>

\* case TCP_SYN_RECEIVED.
receive_syn_received(seg) ==
    /\ \E c \in TcpSlots :
         /\ First(c, Matching(seg))
         /\ connections[c].state = "SYN_RECEIVED"
         /\ "ACK" \in seg.flags
         /\ connections' = [connections EXCEPT ![c].state = "ESTABLISHED"]
    /\ out' = {}
    /\ UNCHANGED << sockets, udpVars, connection_count, tcp_sequence_number, closed >>

\* case TCP_ESTABLISHED: data is acknowledged by the length of a TCP header,
\* a FIN by one; a segment with both gets both answers, the FIN's last.
DataLength(seg) == TCP_HEADER_LEN

receive_established(seg) ==
    /\ \E c \in TcpSlots :
         LET data == Plus(seg.seq, DataLength(seg))
             fin == Plus(seg.seq, 1)
         IN  /\ First(c, Matching(seg))
             /\ connections[c].state = "ESTABLISHED"
             /\ seg.flags \cap {"PSH", "FIN"} # {}
             /\ connections' = [connections EXCEPT
                                  ![c].ack_num = IF "FIN" \in seg.flags THEN fin ELSE data,
                                  ![c].state = IF "FIN" \in seg.flags
                                               THEN "CLOSE_WAIT" ELSE @]
             /\ out' = UNION {Answer(seg, connections[c].seq_num, ack, {"ACK"}) :
                                ack \in {a \in {data, fin} :
                                           \/ a = data /\ "PSH" \in seg.flags
                                           \/ a = fin /\ "FIN" \in seg.flags}}
    /\ UNCHANGED << sockets, udpVars, connection_count, tcp_sequence_number, closed >>

\* Segments that the state of their connection ignores change nothing.
tcp_process_packet(seg) ==
    \/ receive_unmatched(seg)
    \/ receive_listen(seg)
    \/ receive_syn_sent(seg)
    \/ receive_syn_received(seg)
    \/ receive_established(seg)

----------------------------------------------------------------------------
Init ==
    /\ sockets = [fd \in Fds |-> FreeDescriptor]
    /\ udp_sockets = [s \in UdpSlots |-> ZeroUdpSocket]
    /\ socket_count = 0
    /\ connections = [c \in TcpSlots |-> ZeroConnection]
    /\ connection_count = 0
    /\ tcp_sequence_number = FIRST_SEQUENCE
    /\ out = {}
    /\ closed = {}

Next ==
    \/ create_dgram
    \/ create_stream
    \/ \E fd \in Fds :
         \/ \E port \in Ports : bind_dgram(fd, port) \/ bind_stream(fd, port)
         \/ socket_listen(fd)
         \/ \E ip \in RemoteIps, port \in RemotePorts :
              connect_dgram(fd, ip, port) \/ connect_stream(fd, ip, port)
         \/ \E len \in Lengths : send_stream(fd, len)
         \/ close_dgram(fd) \/ close_stream(fd)
    \/ \E seg \in Incoming : tcp_process_packet(seg)

Spec == Init /\ [][Next]_vars

----------------------------------------------------------------------------
(* Properties                                                              *)

EphemeralPorts == EPHEMERAL_BASE .. EPHEMERAL_BASE + EPHEMERAL_PORTS - 1

\* Each table holds records of its struct, and the counters stay within it.
TypeOK ==
    /\ sockets \in [Fds -> [used : BOOLEAN, type : {"none", "dgram", "stream"},
                            bound : BOOLEAN, connected : BOOLEAN,
                            listening : BOOLEAN, bound_port : {0} \cup Ports,
                            impl : {NoImpl} \cup UdpSlots \cup TcpSlots]]
    /\ udp_sockets \in [UdpSlots -> [local_port : {0} \cup Ports,
                                     remote_ip : {0} \cup RemoteIps,
                                     remote_port : {0} \cup RemotePorts,
                                     bound : BOOLEAN, connected : BOOLEAN]]
    /\ socket_count \in 0 .. MAX_SOCKETS
    /\ connections \in [TcpSlots -> [local_ip : {0} \cup LocalIps,
                                     local_port : {0} \cup Ports \cup EphemeralPorts,
                                     remote_ip : {0} \cup RemoteIps,
                                     remote_port : {0} \cup RemotePorts,
                                     state : TcpStates, seq_num : Sequences,
                                     ack_num : Sequences, active : BOOLEAN]]
    /\ connection_count \in 0 .. MAX_CONNECTIONS
    /\ tcp_sequence_number \in Sequences
    /\ closed \subseteq TcpSlots

\* Two open descriptors of a type never share a UDP socket or a connection
\* (socket_create, udp_create_socket, tcp_create_connection): closing or
\* binding one can then never disturb the other.
OwnersDistinct ==
    \A f, g \in Fds :
        /\ sockets[f].used /\ sockets[g].used
        /\ sockets[f].type = sockets[g].type
        /\ sockets[f].impl = sockets[g].impl
        => f = g

\* No port is ever bound by two UDP sockets (udp_bind's search of the table),
\* whatever was bound, moved to another port and closed before.
PortsExclusive ==
    \A s, t \in UdpSlots :
        /\ udp_sockets[s].bound /\ udp_sockets[t].bound
        /\ udp_sockets[s].local_port = udp_sockets[t].local_port
        => s = t

\* A UDP socket is bound exactly as long as an open descriptor that says so
\* points to it (socket_bind, socket_close): closing a descriptor always frees
\* its port for others.
BoundHasOwner ==
    \A s \in UdpSlots :
        udp_sockets[s].bound <=>
            \E fd \in Fds : /\ Open(fd, "dgram") /\ sockets[fd].impl = s
                            /\ sockets[fd].bound

\* Descriptors, sockets and ports go together one to one, through every reuse of
\* a descriptor number and every rebinding: no call on one socket can take, keep
\* or free what belongs to another.
OwnershipSound == OwnersDistinct /\ PortsExclusive /\ BoundHasOwner

\* A connection given to tcp_close never changes again (socket_close): no
\* late segment of the peer and no later call through a reused descriptor
\* number brings it back to life.
ClosedStaysClosed ==
    [][\A c \in closed : connections'[c] = connections[c]]_vars

\* tcp.c:90 "Handle SYN to listening port": a SYN to a port on which an active
\* connection listens is not answered by a reset.
ListenersAnswer ==
    [][\A seg \in Incoming :
         /\ receive_unmatched(seg)
         /\ seg.flags = {"SYN"}
         => ~ \E c \in TcpSlots : /\ connections[c].active
                                  /\ connections[c].state = "LISTEN"
                                  /\ connections[c].local_port = seg.dest_port]_vars

\* tcp.c:151 "Calculate actual data length": the acknowledgement of a data
\* segment covers the data the segment carried.
AckCoversData ==
    [][\A seg \in Incoming :
         /\ receive_established(seg)
         /\ "PSH" \in seg.flags
         => \E s \in out' : s.ack = Plus(seg.seq, seg.len)]_vars
=============================================================================
