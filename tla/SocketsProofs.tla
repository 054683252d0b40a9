--------------------------- MODULE SocketsProofs ---------------------------
(***************************************************************************)
(* The properties of Sockets, proved for tables of every size and any      *)
(* peers.                                                                  *)
(*                                                                         *)
(* None of the four properties is inductive.  What is missing is that a    *)
(* descriptor only points below the counters of the lower tables           *)
(* (PointsToAllocated): a slot handed out next is then new to everybody.   *)
(* For closed connections it is that their state is CLOSED, which          *)
(* tcp_process_packet ignores, and that no open descriptor points to them  *)
(* (ClosedGone).                                                           *)
(***************************************************************************)
EXTENDS Sockets, TLAPS

SocketType == [used : BOOLEAN, type : {"none", "dgram", "stream"},
               bound : BOOLEAN, connected : BOOLEAN,
               listening : BOOLEAN, bound_port : {0} \cup Ports,
               impl : {NoImpl} \cup UdpSlots \cup TcpSlots]

UdpType == [local_port : {0} \cup Ports, remote_ip : {0} \cup RemoteIps,
            remote_port : {0} \cup RemotePorts, bound : BOOLEAN, connected : BOOLEAN]

ConnType == [local_ip : {0} \cup LocalIps,
             local_port : {0} \cup Ports \cup EphemeralPorts,
             remote_ip : {0} \cup RemoteIps, remote_port : {0} \cup RemotePorts,
             state : TcpStates, seq_num : Sequences,
             ack_num : Sequences, active : BOOLEAN]

PointsToAllocated ==
    \A fd \in Fds :
        sockets[fd].used =>
            \/ sockets[fd].type = "dgram" /\ sockets[fd].impl \in 0 .. socket_count - 1
            \/ sockets[fd].type = "stream" /\ sockets[fd].impl \in 0 .. connection_count - 1

ClosedGone ==
    \A c \in closed :
        /\ c \in 0 .. connection_count - 1
        /\ connections[c].state = "CLOSED"
        /\ \A fd \in Fds : Open(fd, "stream") => sockets[fd].impl # c

Inv ==
    /\ TypeOK /\ PointsToAllocated
    /\ OwnersDistinct /\ PortsExclusive /\ BoundHasOwner /\ ClosedGone

\* What ClosedStaysClosed says of a step.
Kept == \A c \in closed : connections'[c] = connections[c]

----------------------------------------------------------------------------
(* Types                                                                   *)

\* Sequence numbers wrap within their width.
LEMMA PlusType ==
  ASSUME NEW a \in Sequences, NEW n \in Nat
  PROVE  Plus(a, n) \in Sequences
<1>1. a + n \in Int /\ SEQ_MODULUS \in Nat \ {0}
  BY SizesAssumption DEF Sequences
<1>2. QED
  BY <1>1 DEF Plus, Sequences

\* TypeOK in terms of the record types.
LEMMA TypeOKParts ==
  TypeOK <=> /\ sockets \in [Fds -> SocketType]
             /\ udp_sockets \in [UdpSlots -> UdpType]
             /\ socket_count \in 0 .. MAX_SOCKETS
             /\ connections \in [TcpSlots -> ConnType]
             /\ connection_count \in 0 .. MAX_CONNECTIONS
             /\ tcp_sequence_number \in Sequences
             /\ closed \subseteq TcpSlots
  BY DEF TypeOK, SocketType, UdpType, ConnType

\* The records that initialisation and closing write.
LEMMA ZeroTypes ==
  /\ FreeDescriptor \in SocketType
  /\ ZeroUdpSocket \in UdpType
  /\ ZeroConnection \in ConnType
<1>1. 0 \in Sequences
  BY SizesAssumption DEF Sequences
<1>2. FreeDescriptor \in SocketType
  BY DEF FreeDescriptor, SocketType
<1>3. ZeroUdpSocket \in UdpType
  BY DEF ZeroUdpSocket, UdpType
<1>4. ZeroConnection \in ConnType
  BY <1>1 DEF ZeroConnection, ConnType, TcpStates
<1>5. QED
  BY <1>2, <1>3, <1>4

\* socket_create's descriptor.
LEMMA NewDescriptorType ==
  ASSUME NEW t \in {"dgram", "stream"}, NEW k \in UdpSlots \cup TcpSlots
  PROVE  /\ NewDescriptor(t, k) \in SocketType
         /\ NewDescriptor(t, k).used /\ NewDescriptor(t, k).type = t
         /\ NewDescriptor(t, k).impl = k /\ ~NewDescriptor(t, k).bound
  BY DEF NewDescriptor, FreeDescriptor, SocketType

\* tcp_create_connection's record.
LEMMA NewConnectionType ==
  ASSUME TypeOK PROVE NewConnection \in ConnType /\ NewConnection.state = "CLOSED"
<1>1. tcp_sequence_number \in Sequences
  BY DEF TypeOK
<1>2. QED
  BY <1>1, ZeroTypes DEF NewConnection, ZeroConnection, ConnType

----------------------------------------------------------------------------
(* Steps by the table they change                                          *)

\* One connection changes that nobody has closed: segments, connect and send.
LEMMA ConnectionStep ==
  ASSUME Inv, UNCHANGED << sockets, udpVars, connection_count, closed >>,
         tcp_sequence_number' \in Sequences,
         NEW c \in TcpSlots \ closed, NEW r \in ConnType,
         connections' = [connections EXCEPT ![c] = r]
  PROVE  Inv' /\ Kept
<1>1. connections \in [TcpSlots -> ConnType] /\ closed \subseteq TcpSlots
  BY TypeOKParts DEF Inv
<1>2. connections' \in [TcpSlots -> ConnType]
  BY <1>1
<1>3. Kept
  BY <1>1 DEF Kept
<1>4. TypeOK'
  BY <1>2, TypeOKParts DEF Inv, TypeOK, SocketType, UdpType, ConnType, udpVars
<1>5. ClosedGone'
  BY <1>3 DEF Inv, ClosedGone, Kept, Open
<1>6. QED
  BY <1>3, <1>4, <1>5
  DEF Inv, PointsToAllocated, OwnersDistinct, PortsExclusive, BoundHasOwner, Open, udpVars

\* The next connection slot is filled: nothing else points to it.
LEMMA NewSlotStep ==
  ASSUME Inv, NEW r \in ConnType, tcp_create_connection(r), UNCHANGED closed
  PROVE  /\ connections' \in [TcpSlots -> ConnType]
         /\ connection_count' \in 0 .. MAX_CONNECTIONS
         /\ connection_count' = connection_count + 1
         /\ connection_count \in TcpSlots
         /\ tcp_sequence_number' \in Sequences
         /\ Kept
<1>1. /\ connections \in [TcpSlots -> ConnType] /\ tcp_sequence_number \in Sequences
      /\ connection_count \in 0 .. MAX_CONNECTIONS
  BY TypeOKParts DEF Inv
<1>2. /\ connection_count \in TcpSlots /\ connection_count' = connection_count + 1
      /\ connection_count' \in 0 .. MAX_CONNECTIONS
  BY <1>1, SizesAssumption DEF tcp_create_connection, TcpSlots
<1>3. connections' = [connections EXCEPT ![connection_count] = r]
  BY DEF tcp_create_connection
<1>4. connections' \in [TcpSlots -> ConnType]
  BY <1>1, <1>2, <1>3
<1>5. tcp_sequence_number' \in Sequences
  BY <1>1, PlusType DEF tcp_create_connection
<1>6. \A c \in closed : c \in TcpSlots /\ c # connection_count
  BY <1>1 DEF Inv, ClosedGone, TypeOK
<1>7. Kept
  BY <1>1, <1>3, <1>6 DEF Kept
<1>8. QED
  BY <1>2, <1>4, <1>5, <1>7

\* A descriptor keeps its type and its slot, and a datagram descriptor its
\* bound flag: nothing about ownership changes.
LEMMA FlagsStep ==
  ASSUME Inv, NEW fd \in Fds, NEW r \in SocketType,
         r.used = sockets[fd].used, r.type = sockets[fd].type,
         r.impl = sockets[fd].impl,
         r.type = "dgram" => r.bound = sockets[fd].bound,
         sockets' = [sockets EXCEPT ![fd] = r]
  PROVE  /\ sockets' \in [Fds -> SocketType]
         /\ \A g \in Fds : /\ sockets'[g].used = sockets[g].used
                           /\ sockets'[g].type = sockets[g].type
                           /\ sockets'[g].impl = sockets[g].impl
                           /\ sockets[g].type = "dgram" =>
                                sockets'[g].bound = sockets[g].bound
<1>1. sockets \in [Fds -> SocketType]
  BY TypeOKParts DEF Inv
<1>2. sockets'[fd] = r /\ \A g \in Fds \ {fd} : sockets'[g] = sockets[g]
  BY <1>1
<1>3. sockets' \in [Fds -> SocketType]
  BY <1>1
<1>4. QED
  BY <1>2, <1>3

----------------------------------------------------------------------------
(* One lemma per operation                                                 *)

\* udp_init and tcp_init establish the invariant.
LEMMA InvInit == Init => Inv
<1> SUFFICES ASSUME Init PROVE Inv
  OBVIOUS
<1>1. TypeOK
  <2>1. sockets \in [Fds -> SocketType] /\ udp_sockets \in [UdpSlots -> UdpType]
    BY ZeroTypes DEF Init
  <2>2. connections \in [TcpSlots -> ConnType]
    BY ZeroTypes DEF Init
  <2>3. /\ socket_count \in 0 .. MAX_SOCKETS /\ connection_count \in 0 .. MAX_CONNECTIONS
        /\ tcp_sequence_number \in Sequences /\ closed \subseteq TcpSlots
    BY SizesAssumption DEF Init, Sequences
  <2>4. QED
    BY <2>1, <2>2, <2>3, TypeOKParts
<1>2. \A fd \in Fds : ~sockets[fd].used
  BY DEF Init, FreeDescriptor
<1>3. \A k \in UdpSlots : ~udp_sockets[k].bound
  BY DEF Init, ZeroUdpSocket
<1>4. closed = {}
  BY DEF Init
<1>5. QED
  BY <1>1, <1>2, <1>3, <1>4
  DEF Inv, PointsToAllocated, OwnersDistinct, PortsExclusive, BoundHasOwner, ClosedGone, Open

\* socket_create of a datagram socket.
LEMMA CreateDgramStep ==
  ASSUME Inv, create_dgram PROVE Inv' /\ Kept
<1>1. PICK fd \in Fds :
        /\ ~sockets[fd].used
        /\ sockets' = [sockets EXCEPT ![fd] = NewDescriptor("dgram", socket_count)]
  BY DEF create_dgram, allocate_socket_fd, First
<1>2. /\ sockets \in [Fds -> SocketType] /\ udp_sockets \in [UdpSlots -> UdpType]
      /\ socket_count \in 0 .. MAX_SOCKETS /\ connection_count \in Nat
  BY TypeOKParts DEF Inv
<1>3. /\ socket_count \in UdpSlots /\ socket_count' = socket_count + 1
      /\ socket_count' \in 0 .. MAX_SOCKETS
  BY <1>2, SizesAssumption DEF create_dgram, udp_create_socket, UdpSlots
<1> DEFINE r == NewDescriptor("dgram", socket_count)
<1>4. r \in SocketType /\ r.used /\ r.type = "dgram" /\ r.impl = socket_count /\ ~r.bound
  BY <1>3, NewDescriptorType
<1> HIDE DEF r
<1>5. /\ sockets'[fd] = r /\ \A g \in Fds \ {fd} : sockets'[g] = sockets[g]
      /\ sockets' \in [Fds -> SocketType]
  BY <1>1, <1>2, <1>4 DEF r
<1>6. /\ udp_sockets' \in [UdpSlots -> UdpType] /\ ~udp_sockets'[socket_count].bound
      /\ \A k \in UdpSlots \ {socket_count} : udp_sockets'[k] = udp_sockets[k]
  <2>1. udp_sockets' = [udp_sockets EXCEPT ![socket_count] = ZeroUdpSocket]
    BY DEF create_dgram, udp_create_socket
  <2>2. ~ZeroUdpSocket.bound
    BY DEF ZeroUdpSocket
  <2>3. QED
    BY <1>2, <1>3, <2>1, <2>2, ZeroTypes
<1>7. UNCHANGED tcpVars
  BY DEF create_dgram
<1>8. TypeOK'
  BY <1>3, <1>5, <1>6, <1>7, TypeOKParts
  DEF Inv, TypeOK, SocketType, UdpType, ConnType, tcpVars
<1>9. PointsToAllocated'
  BY <1>2, <1>3, <1>4, <1>5, <1>7 DEF Inv, PointsToAllocated, tcpVars
<1>10. \A g \in Fds : sockets[g].used /\ sockets[g].type = "dgram" => sockets[g].impl # socket_count
  BY <1>2 DEF Inv, PointsToAllocated
<1>11. OwnersDistinct'
  BY <1>4, <1>5, <1>10 DEF Inv, OwnersDistinct
<1>12. PortsExclusive'
  BY <1>6 DEF Inv, PortsExclusive
<1>13. BoundHasOwner'
  <2>1. ~ udp_sockets'[socket_count].bound /\ \A g \in Fds \ {fd} : Open(g, "dgram") => sockets[g].impl # socket_count
    BY <1>6, <1>10 DEF Open
  <2>2. \A k \in UdpSlots : (udp_sockets[k].bound <=> \E g \in Fds : Open(g, "dgram") /\ sockets[g].impl = k /\ sockets[g].bound)
    BY DEF Inv, BoundHasOwner
  <2>3. ~Open(fd, "dgram")
    BY <1>1 DEF Open
  <2>4. QED
    BY <1>4, <1>5, <1>6, <2>1, <2>2, <2>3 DEF BoundHasOwner, Open
<1>14. ClosedGone'
  BY <1>4, <1>5, <1>7 DEF Inv, ClosedGone, Open, tcpVars
<1>15. QED
  BY <1>7, <1>8, <1>9, <1>11, <1>12, <1>13, <1>14 DEF Inv, Kept, tcpVars

\* socket_create of a stream socket.
LEMMA CreateStreamStep ==
  ASSUME Inv, create_stream PROVE Inv' /\ Kept
<1>1. PICK fd \in Fds :
        /\ ~sockets[fd].used
        /\ sockets' = [sockets EXCEPT ![fd] = NewDescriptor("stream", connection_count)]
  BY DEF create_stream, allocate_socket_fd, First
<1>2. /\ sockets \in [Fds -> SocketType] /\ socket_count \in Nat /\ connection_count \in Nat
      /\ closed \subseteq TcpSlots
  BY TypeOKParts DEF Inv
<1>3. /\ connections' \in [TcpSlots -> ConnType]
      /\ connection_count' \in 0 .. MAX_CONNECTIONS
      /\ connection_count' = connection_count + 1
      /\ connection_count \in TcpSlots
      /\ tcp_sequence_number' \in Sequences
      /\ Kept
  BY NewSlotStep, NewConnectionType DEF create_stream, Inv
<1> DEFINE r == NewDescriptor("stream", connection_count)
<1>4. r \in SocketType /\ r.used /\ r.type = "stream" /\ r.impl = connection_count
  BY <1>3, NewDescriptorType
<1> HIDE DEF r
<1>5. /\ sockets'[fd] = r /\ \A g \in Fds \ {fd} : sockets'[g] = sockets[g]
      /\ sockets' \in [Fds -> SocketType]
  BY <1>1, <1>2, <1>4 DEF r
<1>6. UNCHANGED << udp_sockets, socket_count, closed >>
  BY DEF create_stream, udpVars
<1>7. TypeOK'
  BY <1>3, <1>5, <1>6, TypeOKParts DEF Inv, TypeOK, SocketType, UdpType, ConnType
<1>8. PointsToAllocated'
  BY <1>2, <1>3, <1>4, <1>5, <1>6 DEF Inv, PointsToAllocated
<1>9. \A g \in Fds : sockets[g].used /\ sockets[g].type = "stream" => sockets[g].impl # connection_count
  BY <1>2 DEF Inv, PointsToAllocated
<1>10. OwnersDistinct'
  BY <1>4, <1>5, <1>9 DEF Inv, OwnersDistinct
<1>11. BoundHasOwner'
  <2>1. \A g \in Fds : Open(g, "dgram")' <=> Open(g, "dgram")
    BY <1>1, <1>4, <1>5 DEF Open
  <2>2. \A g \in Fds : Open(g, "dgram") => sockets'[g] = sockets[g]
    BY <1>1, <1>5 DEF Open
  <2>3. QED
    BY <1>6, <2>1, <2>2 DEF Inv, BoundHasOwner
<1>12. ClosedGone'
  <2>1. \A c \in closed : c \in 0 .. connection_count' - 1 /\ c # connection_count
    BY <1>2, <1>3 DEF Inv, ClosedGone
  <2>2. QED
    BY <1>3, <1>4, <1>5, <1>6, <2>1 DEF Inv, ClosedGone, Kept, Open
<1>13. QED
  BY <1>3, <1>6, <1>7, <1>8, <1>10, <1>11, <1>12 DEF Inv, PortsExclusive

\* socket_bind of a datagram socket: udp_bind has looked at all ports.
LEMMA BindDgramStep ==
  ASSUME Inv, NEW fd \in Fds, NEW port \in Ports, bind_dgram(fd, port)
  PROVE  Inv' /\ Kept
<1> DEFINE s == sockets[fd].impl
           u == [udp_sockets[s] EXCEPT !.local_port = port, !.bound = TRUE]
           r == [sockets[fd] EXCEPT !.bound = TRUE]
<1>1. sockets[fd].used /\ sockets[fd].type = "dgram"
  BY DEF bind_dgram, Open
<1>2. /\ sockets \in [Fds -> SocketType] /\ udp_sockets \in [UdpSlots -> UdpType]
      /\ socket_count \in 0 .. MAX_SOCKETS
  BY TypeOKParts DEF Inv
<1>3. s \in UdpSlots
  BY <1>1, <1>2, SizesAssumption DEF Inv, PointsToAllocated, UdpSlots
<1>4. u \in UdpType /\ u.bound /\ u.local_port = port
  BY <1>2, <1>3 DEF UdpType
<1>5. /\ r \in SocketType /\ r.bound /\ r.used = sockets[fd].used
      /\ r.type = sockets[fd].type /\ r.impl = sockets[fd].impl
  BY <1>2 DEF SocketType
<1>6. udp_sockets' = [udp_sockets EXCEPT ![s] = u] /\ sockets' = [sockets EXCEPT ![fd] = r]
  BY <1>2, <1>3 DEF bind_dgram, udp_bind
<1>7. \A k \in UdpSlots : udp_sockets[k].bound => udp_sockets[k].local_port # port
  BY DEF bind_dgram, udp_bind, PortInUse
<1>8. UNCHANGED << socket_count, tcpVars >>
  BY DEF bind_dgram
<1> HIDE DEF u, r
<1>9. /\ udp_sockets'[s] = u /\ \A k \in UdpSlots \ {s} : udp_sockets'[k] = udp_sockets[k]
      /\ udp_sockets' \in [UdpSlots -> UdpType]
  BY <1>2, <1>3, <1>4, <1>6
<1>10. /\ sockets'[fd] = r /\ \A g \in Fds \ {fd} : sockets'[g] = sockets[g]
       /\ sockets' \in [Fds -> SocketType]
  BY <1>2, <1>5, <1>6
<1>11. \A g \in Fds : /\ sockets'[g].used = sockets[g].used
                      /\ sockets'[g].type = sockets[g].type
                      /\ sockets'[g].impl = sockets[g].impl
  BY <1>5, <1>10
<1>12. TypeOK'
  BY <1>8, <1>9, <1>10, TypeOKParts DEF Inv, TypeOK, SocketType, UdpType, ConnType, tcpVars
<1>13. PointsToAllocated' /\ OwnersDistinct'
  BY <1>8, <1>11 DEF Inv, PointsToAllocated, OwnersDistinct, tcpVars
<1>14. PortsExclusive'
  BY <1>4, <1>7, <1>9 DEF Inv, PortsExclusive
<1>15. BoundHasOwner'
  <2>1. \A g \in Fds \ {fd} : Open(g, "dgram") => sockets[g].impl # s
    BY <1>1 DEF Inv, OwnersDistinct, Open
  <2>2. \A k \in UdpSlots : (udp_sockets[k].bound <=> \E g \in Fds : Open(g, "dgram") /\ sockets[g].impl = k /\ sockets[g].bound)
    BY DEF Inv, BoundHasOwner
  <2>3. \A g \in Fds : Open(g, "dgram")' <=> Open(g, "dgram")
    BY <1>11 DEF Open
  <2>4. Open(fd, "dgram") /\ sockets'[fd].bound /\ udp_sockets'[s].bound /\ sockets'[fd].impl = s
    BY <1>1, <1>4, <1>5, <1>9, <1>10 DEF Open
  <2>5. \A k \in UdpSlots \ {s} : (udp_sockets'[k].bound <=> \E g \in Fds : Open(g, "dgram")' /\ sockets'[g].impl = k /\ sockets'[g].bound)
    BY <1>9, <1>10, <1>11, <2>2, <2>3, <2>4
  <2>6. QED
    BY <2>3, <2>4, <2>5 DEF BoundHasOwner
<1>16. ClosedGone'
  BY <1>8, <1>11 DEF Inv, ClosedGone, Open, tcpVars
<1>17. QED
  BY <1>8, <1>12, <1>13, <1>14, <1>15, <1>16 DEF Inv, Kept, tcpVars

\* A step that leaves owners, bound ports and closed connections alone.
LEMMA SameOwners ==
  ASSUME Inv, TypeOK', Kept, UNCHANGED << socket_count, closed >>,
         connection_count' \in {connection_count, connection_count + 1},
         \A g \in Fds : /\ sockets'[g].used = sockets[g].used
                        /\ sockets'[g].type = sockets[g].type
                        /\ sockets'[g].impl = sockets[g].impl
                        /\ sockets[g].type = "dgram" =>
                             sockets'[g].bound = sockets[g].bound,
         \A k \in UdpSlots : /\ udp_sockets'[k].bound = udp_sockets[k].bound
                             /\ udp_sockets'[k].local_port = udp_sockets[k].local_port
  PROVE  Inv'
<1>1. socket_count \in Nat /\ connection_count \in Nat
  BY TypeOKParts DEF Inv
<1>2. PointsToAllocated'
  BY <1>1 DEF Inv, PointsToAllocated
<1>3. OwnersDistinct'
  BY DEF Inv, OwnersDistinct
<1>4. PortsExclusive'
  BY DEF Inv, PortsExclusive
<1>5. BoundHasOwner'
  <2>1. \A g \in Fds : Open(g, "dgram")' <=> Open(g, "dgram")
    BY DEF Open
  <2>2. \A g \in Fds : Open(g, "dgram") => /\ sockets'[g].bound = sockets[g].bound
                                           /\ sockets'[g].impl = sockets[g].impl
    BY DEF Open
  <2>3. QED
    BY <2>1, <2>2 DEF Inv, BoundHasOwner
<1>6. ClosedGone'
  BY <1>1 DEF Inv, ClosedGone, Kept, Open
<1>7. QED
  BY <1>2, <1>3, <1>4, <1>5, <1>6 DEF Inv

\* The slot of an open stream descriptor is a connection nobody has closed.
LEMMA StreamSlot ==
  ASSUME Inv, NEW fd \in Fds, Open(fd, "stream")
  PROVE  sockets[fd].impl \in TcpSlots \ closed
<1>1. connection_count \in 0 .. MAX_CONNECTIONS
  BY TypeOKParts DEF Inv
<1>2. sockets[fd].impl \in 0 .. connection_count - 1
  BY DEF Inv, PointsToAllocated, Open
<1>3. sockets[fd].impl \notin closed
  BY DEF Inv, ClosedGone
<1>4. QED
  BY <1>1, <1>2, <1>3, SizesAssumption DEF TcpSlots

\* socket_bind of a stream socket.
LEMMA BindStreamStep ==
  ASSUME Inv, NEW fd \in Fds, NEW port \in Ports, bind_stream(fd, port)
  PROVE  Inv' /\ Kept
<1> DEFINE r == [sockets[fd] EXCEPT !.bound_port = port, !.bound = TRUE]
<1>1. sockets \in [Fds -> SocketType] /\ sockets[fd].type = "stream"
  BY TypeOKParts DEF Inv, bind_stream, Open
<1>2. /\ r \in SocketType /\ r.used = sockets[fd].used
      /\ r.type = sockets[fd].type /\ r.impl = sockets[fd].impl
  BY <1>1 DEF SocketType
<1>3. sockets' = [sockets EXCEPT ![fd] = r]
  BY <1>1 DEF bind_stream
<1> HIDE DEF r
<1>4. /\ sockets' \in [Fds -> SocketType]
      /\ \A g \in Fds : /\ sockets'[g].used = sockets[g].used
                        /\ sockets'[g].type = sockets[g].type
                        /\ sockets'[g].impl = sockets[g].impl
                        /\ sockets[g].type = "dgram" => sockets'[g].bound = sockets[g].bound
  BY <1>1, <1>2, <1>3, FlagsStep
<1>5. UNCHANGED << udp_sockets, socket_count, connections, connection_count,
                   tcp_sequence_number, closed >>
  BY DEF bind_stream, udpVars, tcpVars
<1>6. TypeOK'
  BY <1>4, <1>5, TypeOKParts DEF Inv, TypeOK, SocketType, UdpType, ConnType
<1>7. QED
  BY <1>4, <1>5, <1>6, SameOwners DEF Kept

\* socket_listen: the listener takes a slot that no descriptor points to.
LEMMA ListenStep ==
  ASSUME Inv, NEW fd \in Fds, socket_listen(fd)
  PROVE  Inv' /\ Kept
<1> DEFINE r == [sockets[fd] EXCEPT !.listening = TRUE]
           n == [NewConnection EXCEPT !.local_port = sockets[fd].bound_port,
                                      !.state = "LISTEN"]
<1>1. sockets \in [Fds -> SocketType]
  BY TypeOKParts DEF Inv
<1>2. /\ r \in SocketType /\ r.used = sockets[fd].used /\ r.type = sockets[fd].type
      /\ r.impl = sockets[fd].impl /\ r.bound = sockets[fd].bound
  BY <1>1 DEF SocketType
<1>3. n \in ConnType
  <2>1. sockets[fd].bound_port \in {0} \cup Ports /\ NewConnection \in ConnType
    BY <1>1, NewConnectionType DEF SocketType, Inv
  <2>2. QED
    BY <2>1 DEF ConnType, TcpStates
<1>4. /\ sockets' = [sockets EXCEPT ![fd] = r] /\ tcp_create_connection(n)
      /\ UNCHANGED << udp_sockets, socket_count, closed >>
  BY <1>1 DEF socket_listen, tcp_listen, udpVars
<1> HIDE DEF r, n
<1>5. /\ sockets' \in [Fds -> SocketType]
      /\ \A g \in Fds : /\ sockets'[g].used = sockets[g].used
                        /\ sockets'[g].type = sockets[g].type
                        /\ sockets'[g].impl = sockets[g].impl
                        /\ sockets[g].type = "dgram" => sockets'[g].bound = sockets[g].bound
  BY <1>2, <1>4, FlagsStep
<1>6. /\ connections' \in [TcpSlots -> ConnType]
      /\ connection_count' \in 0 .. MAX_CONNECTIONS
      /\ connection_count' = connection_count + 1
      /\ tcp_sequence_number' \in Sequences
      /\ Kept
  BY <1>3, <1>4, NewSlotStep
<1>7. TypeOK'
  BY <1>4, <1>5, <1>6, TypeOKParts DEF Inv, TypeOK, SocketType, UdpType, ConnType
<1>8. QED
  BY <1>4, <1>5, <1>6, <1>7, SameOwners

\* socket_connect of a datagram socket.
LEMMA ConnectDgramStep ==
  ASSUME Inv, NEW fd \in Fds, NEW ip \in RemoteIps, NEW port \in RemotePorts,
         connect_dgram(fd, ip, port)
  PROVE  Inv' /\ Kept
<1> DEFINE s == sockets[fd].impl
           u == [udp_sockets[s] EXCEPT !.remote_ip = ip, !.remote_port = port,
                                       !.connected = TRUE]
           r == [sockets[fd] EXCEPT !.connected = TRUE]
<1>1. sockets[fd].used /\ sockets[fd].type = "dgram"
  BY DEF connect_dgram, Open
<1>2. /\ sockets \in [Fds -> SocketType] /\ udp_sockets \in [UdpSlots -> UdpType]
      /\ socket_count \in 0 .. MAX_SOCKETS
  BY TypeOKParts DEF Inv
<1>3. s \in UdpSlots
  BY <1>1, <1>2, SizesAssumption DEF Inv, PointsToAllocated, UdpSlots
<1>4. /\ u \in UdpType /\ u.bound = udp_sockets[s].bound
      /\ u.local_port = udp_sockets[s].local_port
  BY <1>2, <1>3 DEF UdpType
<1>5. /\ r \in SocketType /\ r.used = sockets[fd].used /\ r.type = sockets[fd].type
      /\ r.impl = sockets[fd].impl /\ r.bound = sockets[fd].bound
  BY <1>2 DEF SocketType
<1>6. udp_sockets' = [udp_sockets EXCEPT ![s] = u] /\ sockets' = [sockets EXCEPT ![fd] = r]
  BY <1>2, <1>3 DEF connect_dgram, udp_connect
<1>7. UNCHANGED << socket_count, connections, connection_count,
                   tcp_sequence_number, closed >>
  BY DEF connect_dgram, tcpVars
<1> HIDE DEF u, r
<1>8. /\ udp_sockets' \in [UdpSlots -> UdpType]
      /\ \A k \in UdpSlots : /\ udp_sockets'[k].bound = udp_sockets[k].bound
                             /\ udp_sockets'[k].local_port = udp_sockets[k].local_port
  BY <1>2, <1>3, <1>4, <1>6
<1>9. /\ sockets' \in [Fds -> SocketType]
      /\ \A g \in Fds : /\ sockets'[g].used = sockets[g].used
                        /\ sockets'[g].type = sockets[g].type
                        /\ sockets'[g].impl = sockets[g].impl
                        /\ sockets[g].type = "dgram" => sockets'[g].bound = sockets[g].bound
  BY <1>5, <1>6, FlagsStep
<1>10. TypeOK'
  BY <1>7, <1>8, <1>9, TypeOKParts DEF Inv, TypeOK, SocketType, UdpType, ConnType
<1>11. QED
  BY <1>7, <1>8, <1>9, <1>10, SameOwners DEF Kept

\* socket_connect of a stream socket, whether or not the SYN went out.
LEMMA ConnectStreamStep ==
  ASSUME Inv, NEW fd \in Fds, NEW ip \in RemoteIps, NEW port \in RemotePorts,
         connect_stream(fd, ip, port)
  PROVE  Inv' /\ Kept
<1> DEFINE c == sockets[fd].impl
           src == EPHEMERAL_BASE + (tcp_sequence_number % EPHEMERAL_PORTS)
<1>1. PICK local \in LocalIps, sent \in BOOLEAN :
        /\ tcp_connect(c, local, ip, port)
        /\ sockets' = [sockets EXCEPT ![fd].connected = sent \/ @]
  BY DEF connect_stream
<1>2. c \in TcpSlots \ closed
  BY StreamSlot DEF connect_stream
<1>3. /\ sockets \in [Fds -> SocketType] /\ connections \in [TcpSlots -> ConnType]
      /\ tcp_sequence_number \in Sequences /\ closed \subseteq TcpSlots
  BY TypeOKParts DEF Inv
<1>4. src \in EphemeralPorts
  <2>1. tcp_sequence_number \in Int /\ EPHEMERAL_PORTS \in Nat \ {0} /\ EPHEMERAL_BASE \in Nat
    BY <1>3, SizesAssumption DEF Sequences
  <2>2. tcp_sequence_number % EPHEMERAL_PORTS \in 0 .. EPHEMERAL_PORTS - 1
    BY <2>1
  <2> HIDE DEF c
  <2>3. QED
    BY <2>1, <2>2 DEF EphemeralPorts
<1> DEFINE n == [connections[c] EXCEPT !.local_ip = local, !.local_port = src,
                                       !.remote_ip = ip, !.remote_port = port,
                                       !.state = "SYN_SENT"]
           r == [sockets[fd] EXCEPT !.connected = sent \/ @]
<1>5. connections' = [connections EXCEPT ![c] = n]
  BY <1>1, <1>2, <1>3 DEF tcp_connect
<1>6. n \in ConnType
  <2>1. connections[c] \in ConnType
    BY <1>2, <1>3
  <2> HIDE DEF src, c
  <2>2. QED
    BY <1>4, <2>1 DEF ConnType, TcpStates
<1>7. /\ r \in SocketType /\ r.used = sockets[fd].used /\ r.type = sockets[fd].type
      /\ r.impl = sockets[fd].impl /\ r.bound = sockets[fd].bound
  BY <1>3 DEF SocketType
<1>8. sockets' = [sockets EXCEPT ![fd] = r]
  BY <1>1, <1>3
<1> HIDE DEF n, r, src, c
<1>9. connections' \in [TcpSlots -> ConnType] /\ Kept
  BY <1>2, <1>3, <1>5, <1>6 DEF Kept
<1>10. /\ sockets' \in [Fds -> SocketType]
       /\ \A g \in Fds : /\ sockets'[g].used = sockets[g].used
                         /\ sockets'[g].type = sockets[g].type
                         /\ sockets'[g].impl = sockets[g].impl
                         /\ sockets[g].type = "dgram" => sockets'[g].bound = sockets[g].bound
  BY <1>7, <1>8, FlagsStep
<1>11. UNCHANGED << udp_sockets, socket_count, connection_count, tcp_sequence_number, closed >>
  BY DEF connect_stream, udpVars
<1>12. TypeOK'
  BY <1>9, <1>10, <1>11, TypeOKParts DEF Inv, TypeOK, SocketType, UdpType, ConnType
<1>13. QED
  BY <1>9, <1>10, <1>11, <1>12, SameOwners

\* socket_send of a stream socket.
LEMMA SendStreamStep ==
  ASSUME Inv, NEW fd \in Fds, NEW len \in Lengths, send_stream(fd, len)
  PROVE  Inv' /\ Kept
<1> DEFINE c == sockets[fd].impl
<1>1. PICK sent \in BOOLEAN : tcp_send(c, len, sent)
  BY DEF send_stream
<1>2. c \in TcpSlots \ closed
  BY StreamSlot DEF send_stream
<1>3. /\ connections \in [TcpSlots -> ConnType] /\ tcp_sequence_number \in Sequences
      /\ len \in Nat
  BY TypeOKParts, AddressesAssumption DEF Inv
<1> DEFINE q == IF sent THEN Plus(connections[c].seq_num, len) ELSE connections[c].seq_num
           n == [connections[c] EXCEPT !.seq_num = q]
<1> HIDE DEF c
<1>4. connections[c] \in ConnType /\ connections[c].seq_num \in Sequences
  BY <1>2, <1>3 DEF ConnType
<1>5. q \in Sequences
  BY <1>3, <1>4, PlusType
<1>6. connections' = [connections EXCEPT ![c] = n]
  BY <1>1, <1>2, <1>3 DEF tcp_send
<1> HIDE DEF q
<1>7. n \in ConnType
  BY <1>4, <1>5 DEF ConnType
<1> HIDE DEF n
<1>8. /\ UNCHANGED << sockets, udpVars, connection_count, closed >>
      /\ tcp_sequence_number' \in Sequences
  BY <1>3 DEF send_stream
<1>9. QED
  BY <1>2, <1>6, <1>7, <1>8, ConnectionStep

\* socket_close of a datagram socket: its port is free and it has no owner.
LEMMA CloseDgramStep ==
  ASSUME Inv, NEW fd \in Fds, close_dgram(fd)
  PROVE  Inv' /\ Kept
<1> DEFINE s == sockets[fd].impl
<1>1. sockets[fd].used /\ sockets[fd].type = "dgram"
  BY DEF close_dgram, Open
<1>2. /\ sockets \in [Fds -> SocketType] /\ udp_sockets \in [UdpSlots -> UdpType]
      /\ socket_count \in 0 .. MAX_SOCKETS
  BY TypeOKParts DEF Inv
<1>3. s \in UdpSlots
  BY <1>1, <1>2, SizesAssumption DEF Inv, PointsToAllocated, UdpSlots
<1>4. /\ udp_sockets' = [udp_sockets EXCEPT ![s] = ZeroUdpSocket]
      /\ sockets' = [sockets EXCEPT ![fd] = FreeDescriptor]
      /\ UNCHANGED << socket_count, tcpVars >>
  BY DEF close_dgram, udp_close
<1>5. ~FreeDescriptor.used /\ ~ZeroUdpSocket.bound
  BY DEF FreeDescriptor, ZeroUdpSocket
<1>6. \A g \in Fds \ {fd} : Open(g, "dgram") => sockets[g].impl # s
  BY <1>1 DEF Inv, OwnersDistinct, Open
<1> HIDE DEF s
<1>7. /\ udp_sockets' \in [UdpSlots -> UdpType] /\ ~udp_sockets'[s].bound
      /\ \A k \in UdpSlots \ {s} : udp_sockets'[k] = udp_sockets[k]
  BY <1>2, <1>3, <1>4, <1>5, ZeroTypes
<1>8. /\ sockets' \in [Fds -> SocketType] /\ ~sockets'[fd].used
      /\ \A g \in Fds \ {fd} : sockets'[g] = sockets[g]
  BY <1>2, <1>4, <1>5, ZeroTypes
<1>9. TypeOK'
  BY <1>4, <1>7, <1>8, TypeOKParts DEF Inv, TypeOK, SocketType, UdpType, ConnType, tcpVars
<1>10. PointsToAllocated' /\ OwnersDistinct'
  BY <1>4, <1>8 DEF Inv, PointsToAllocated, OwnersDistinct, tcpVars
<1>11. PortsExclusive'
  BY <1>7 DEF Inv, PortsExclusive
<1>12. BoundHasOwner'
  <2>1. \A k \in UdpSlots : (udp_sockets[k].bound <=> \E g \in Fds : Open(g, "dgram") /\ sockets[g].impl = k /\ sockets[g].bound)
    BY DEF Inv, BoundHasOwner
  <2>2. ~Open(fd, "dgram")' /\ \A g \in Fds \ {fd} : Open(g, "dgram")' <=> Open(g, "dgram")
    BY <1>8 DEF Open
  <2>3. sockets[fd].impl = s
    BY DEF s
  <2>4. \A k \in UdpSlots \ {s} : (udp_sockets'[k].bound <=> \E g \in Fds : Open(g, "dgram")' /\ sockets'[g].impl = k /\ sockets'[g].bound)
    BY <1>7, <1>8, <2>1, <2>2, <2>3
  <2>5. QED
    BY <1>6, <1>7, <1>8, <2>2, <2>4 DEF BoundHasOwner
<1>13. ClosedGone'
  BY <1>4, <1>8 DEF Inv, ClosedGone, Open, tcpVars
<1>14. QED
  BY <1>4, <1>9, <1>10, <1>11, <1>12, <1>13 DEF Inv, Kept, tcpVars

\* socket_close of a stream socket: its connection joins the closed ones.
LEMMA CloseStreamStep ==
  ASSUME Inv, NEW fd \in Fds, close_stream(fd)
  PROVE  Inv' /\ Kept
<1> DEFINE c == sockets[fd].impl
           n == [connections[c] EXCEPT !.active = FALSE, !.state = "CLOSED"]
<1>1. sockets[fd].used /\ sockets[fd].type = "stream"
  BY DEF close_stream, Open
<1>2. /\ sockets \in [Fds -> SocketType] /\ connections \in [TcpSlots -> ConnType]
      /\ connection_count \in 0 .. MAX_CONNECTIONS /\ closed \subseteq TcpSlots
  BY TypeOKParts DEF Inv
<1>3. c \in TcpSlots \ closed /\ c \in 0 .. connection_count - 1
  BY <1>1, StreamSlot DEF close_stream, Inv, PointsToAllocated
<1>4. \/ connections[c].state = "CLOSED" /\ connections' = connections
      \/ connections' = [connections EXCEPT ![c] = n]
  BY <1>2, <1>3 DEF close_stream, tcp_close
<1>5. /\ sockets' = [sockets EXCEPT ![fd] = FreeDescriptor]
      /\ closed' = closed \cup {c}
      /\ UNCHANGED << udp_sockets, socket_count, connection_count, tcp_sequence_number >>
  BY DEF close_stream, udpVars
<1>6. \A g \in Fds \ {fd} : Open(g, "stream") => sockets[g].impl # c
  BY <1>1 DEF Inv, OwnersDistinct, Open
<1>7. n \in ConnType /\ n.state = "CLOSED"
  BY <1>2, <1>3 DEF ConnType, TcpStates
<1> HIDE DEF c, n
<1>8. /\ connections' \in [TcpSlots -> ConnType] /\ connections'[c].state = "CLOSED"
      /\ \A d \in TcpSlots \ {c} : connections'[d] = connections[d]
  BY <1>2, <1>3, <1>4, <1>7
<1>9. /\ sockets' \in [Fds -> SocketType] /\ ~sockets'[fd].used
      /\ \A g \in Fds \ {fd} : sockets'[g] = sockets[g]
  <2>1. ~FreeDescriptor.used
    BY DEF FreeDescriptor
  <2>2. QED
    BY <1>2, <1>5, <2>1, ZeroTypes
<1>10. Kept
  BY <1>2, <1>3, <1>8 DEF Kept
<1>11. TypeOK'
  BY <1>2, <1>3, <1>5, <1>8, <1>9, TypeOKParts
  DEF Inv, TypeOK, SocketType, UdpType, ConnType
<1>12. PointsToAllocated' /\ OwnersDistinct'
  BY <1>5, <1>9 DEF Inv, PointsToAllocated, OwnersDistinct
<1>13. BoundHasOwner'
  <2>1. \A g \in Fds : Open(g, "dgram")' <=> Open(g, "dgram")
    BY <1>1, <1>9 DEF Open
  <2>2. \A g \in Fds : Open(g, "dgram") => sockets'[g] = sockets[g]
    BY <1>1, <1>9 DEF Open
  <2>3. QED
    BY <1>5, <2>1, <2>2 DEF Inv, BoundHasOwner
<1>14. ClosedGone'
  <2>1. ~Open(fd, "stream")' /\ \A g \in Fds \ {fd} : Open(g, "stream")' <=> Open(g, "stream")
    BY <1>9 DEF Open
  <2>2. \A d \in closed' : d \in 0 .. connection_count' - 1 /\ connections'[d].state = "CLOSED"
    BY <1>3, <1>5, <1>8, <1>10 DEF Inv, ClosedGone, Kept
  <2>3. \A d \in closed', g \in Fds : Open(g, "stream")' => sockets'[g].impl # d
    BY <1>5, <1>6, <1>9, <2>1 DEF Inv, ClosedGone
  <2>4. QED
    BY <2>2, <2>3 DEF ClosedGone
<1>15. QED
  BY <1>5, <1>10, <1>11, <1>12, <1>13, <1>14 DEF Inv, PortsExclusive

\* A segment that a connection reacts to: its state is not CLOSED.
LEMMA LiveSlot ==
  ASSUME Inv, NEW c \in TcpSlots, connections[c].state # "CLOSED"
  PROVE  c \in TcpSlots \ closed
  BY DEF Inv, ClosedGone

\* tcp_process_packet, one case per state of the connection.
LEMMA ReceiveStep ==
  ASSUME Inv, NEW seg \in Incoming, tcp_process_packet(seg)
  PROVE  Inv' /\ Kept
<1>1. /\ connections \in [TcpSlots -> ConnType] /\ tcp_sequence_number \in Sequences
  BY TypeOKParts DEF Inv
<1>2. /\ seg.src_ip \in RemoteIps /\ seg.src_port \in RemotePorts /\ seg.seq \in Sequences
  BY AddressesAssumption DEF Incoming, Sequences
<1>3. /\ Plus(seg.seq, 1) \in Sequences /\ Plus(seg.seq, TCP_HEADER_LEN) \in Sequences
      /\ Plus(tcp_sequence_number, 1) \in Sequences
  BY <1>1, <1>2, PlusType DEF TCP_HEADER_LEN
<1>4. CASE receive_unmatched(seg)
  <2>1. UNCHANGED << sockets, udp_sockets, socket_count, connections,
                     connection_count, tcp_sequence_number, closed >>
    BY <1>4 DEF receive_unmatched, udpVars, tcpVars
  <2>2. TypeOK'
    BY <2>1 DEF Inv, TypeOK
  <2>3. QED
    BY <2>1, <2>2 DEF Inv, Kept, PointsToAllocated, OwnersDistinct, PortsExclusive,
                      BoundHasOwner, ClosedGone, Open
<1>5. CASE receive_listen(seg)
  <2>1. PICK c \in TcpSlots :
          /\ First(c, Listening(seg))
          /\ connections' = [connections EXCEPT
                               ![c].remote_ip = seg.src_ip,
                               ![c].remote_port = seg.src_port,
                               ![c].ack_num = Plus(seg.seq, 1),
                               ![c].seq_num = tcp_sequence_number,
                               ![c].state = "SYN_RECEIVED"]
    BY <1>5 DEF receive_listen
  <2> DEFINE n == [connections[c] EXCEPT !.remote_ip = seg.src_ip,
                     !.remote_port = seg.src_port, !.ack_num = Plus(seg.seq, 1),
                     !.seq_num = tcp_sequence_number, !.state = "SYN_RECEIVED"]
  <2>2. connections[c].state = "LISTEN"
    BY <2>1 DEF First, Listening
  <2>3. n \in ConnType
    BY <1>1, <1>2, <1>3 DEF ConnType, TcpStates
  <2>4. connections' = [connections EXCEPT ![c] = n]
    BY <1>1, <2>1
  <2> HIDE DEF n
  <2>5. /\ UNCHANGED << sockets, udpVars, connection_count, closed >>
        /\ tcp_sequence_number' \in Sequences
    BY <1>3, <1>5 DEF receive_listen
  <2>6. QED
    BY <2>2, <2>3, <2>4, <2>5, LiveSlot, ConnectionStep
<1>6. CASE receive_syn_sent(seg)
  <2>1. PICK c \in TcpSlots :
          /\ connections[c].state = "SYN_SENT"
          /\ connections' = [connections EXCEPT ![c].ack_num = Plus(seg.seq, 1),
                                                ![c].state = "ESTABLISHED"]
    BY <1>6 DEF receive_syn_sent
  <2> DEFINE n == [connections[c] EXCEPT !.ack_num = Plus(seg.seq, 1),
                                         !.state = "ESTABLISHED"]
  <2>2. n \in ConnType
    BY <1>1, <1>3 DEF ConnType, TcpStates
  <2>3. connections' = [connections EXCEPT ![c] = n]
    BY <1>1, <2>1
  <2> HIDE DEF n
  <2>4. /\ UNCHANGED << sockets, udpVars, connection_count, closed >>
        /\ tcp_sequence_number' \in Sequences
    BY <1>1, <1>6 DEF receive_syn_sent
  <2>5. QED
    BY <2>1, <2>2, <2>3, <2>4, LiveSlot, ConnectionStep
<1>7. CASE receive_syn_received(seg)
  <2>1. PICK c \in TcpSlots :
          /\ connections[c].state = "SYN_RECEIVED"
          /\ connections' = [connections EXCEPT ![c].state = "ESTABLISHED"]
    BY <1>7 DEF receive_syn_received
  <2> DEFINE n == [connections[c] EXCEPT !.state = "ESTABLISHED"]
  <2>2. n \in ConnType
    BY <1>1 DEF ConnType, TcpStates
  <2>3. connections' = [connections EXCEPT ![c] = n]
    BY <1>1, <2>1
  <2> HIDE DEF n
  <2>4. /\ UNCHANGED << sockets, udpVars, connection_count, closed >>
        /\ tcp_sequence_number' \in Sequences
    BY <1>1, <1>7 DEF receive_syn_received
  <2>5. QED
    BY <2>1, <2>2, <2>3, <2>4, LiveSlot, ConnectionStep
<1>8. CASE receive_established(seg)
  <2> DEFINE ack == IF "FIN" \in seg.flags THEN Plus(seg.seq, 1)
                    ELSE Plus(seg.seq, DataLength(seg))
  <2>1. PICK c \in TcpSlots :
          /\ connections[c].state = "ESTABLISHED"
          /\ connections' = [connections EXCEPT
                               ![c].ack_num = ack,
                               ![c].state = IF "FIN" \in seg.flags
                                            THEN "CLOSE_WAIT" ELSE @]
    BY <1>8 DEF receive_established
  <2>2. ack \in Sequences
    BY <1>3 DEF DataLength
  <2> HIDE DEF ack
  <2> DEFINE n == [connections[c] EXCEPT !.ack_num = ack,
                     !.state = IF "FIN" \in seg.flags THEN "CLOSE_WAIT" ELSE @]
  <2>3. n \in ConnType
    BY <1>1, <2>2 DEF ConnType, TcpStates
  <2>4. connections' = [connections EXCEPT ![c] = n]
    BY <1>1, <2>1
  <2> HIDE DEF n
  <2>5. /\ UNCHANGED << sockets, udpVars, connection_count, closed >>
        /\ tcp_sequence_number' \in Sequences
    BY <1>1, <1>8 DEF receive_established
  <2>6. QED
    BY <2>1, <2>3, <2>4, <2>5, LiveSlot, ConnectionStep
<1>9. QED
  BY <1>4, <1>5, <1>6, <1>7, <1>8 DEF tcp_process_packet

----------------------------------------------------------------------------
(* The theorems                                                            *)

\* Every step keeps the invariant and every closed connection.
LEMMA InvStep == Inv /\ [Next]_vars => Inv' /\ Kept
<1> SUFFICES ASSUME Inv, [Next]_vars PROVE Inv' /\ Kept
  OBVIOUS
<1>1. CASE UNCHANGED vars
  <2>1. TypeOK'
    BY <1>1 DEF vars, Inv, TypeOK
  <2>2. QED
    BY <1>1, <2>1 DEF vars, Inv, Kept, PointsToAllocated, OwnersDistinct, PortsExclusive,
                      BoundHasOwner, ClosedGone, Open
<1>2. CASE create_dgram
  BY <1>2, CreateDgramStep
<1>3. CASE create_stream
  BY <1>3, CreateStreamStep
<1>4. ASSUME NEW fd \in Fds, NEW port \in Ports,
             bind_dgram(fd, port) \/ bind_stream(fd, port)
      PROVE  Inv' /\ Kept
  BY <1>4, BindDgramStep, BindStreamStep
<1>5. ASSUME NEW fd \in Fds, socket_listen(fd) PROVE Inv' /\ Kept
  BY <1>5, ListenStep
<1>6. ASSUME NEW fd \in Fds, NEW ip \in RemoteIps, NEW port \in RemotePorts,
             connect_dgram(fd, ip, port) \/ connect_stream(fd, ip, port)
      PROVE  Inv' /\ Kept
  BY <1>6, ConnectDgramStep, ConnectStreamStep
<1>7. ASSUME NEW fd \in Fds, NEW len \in Lengths, send_stream(fd, len)
      PROVE  Inv' /\ Kept
  BY <1>7, SendStreamStep
<1>8. ASSUME NEW fd \in Fds, close_dgram(fd) \/ close_stream(fd) PROVE Inv' /\ Kept
  BY <1>8, CloseDgramStep, CloseStreamStep
<1>9. ASSUME NEW seg \in Incoming, tcp_process_packet(seg) PROVE Inv' /\ Kept
  BY <1>9, ReceiveStep
<1>10. QED
  BY <1>1, <1>2, <1>3, <1>4, <1>5, <1>6, <1>7, <1>8, <1>9 DEF Next

\* The inductive invariant holds throughout.
LEMMA Invariance == Spec => []Inv
  BY InvInit, InvStep, PTL DEF Spec

\* Open descriptors never share a UDP socket or a connection, no port is bound
\* by two sockets, and a socket is bound exactly as long as its descriptor,
\* however often descriptor numbers are reused (socket_create, socket_bind,
\* udp_bind, socket_close).
THEOREM OwnershipSoundCorrect == Spec => []OwnershipSound
<1>1. Inv => OwnershipSound
  BY DEF Inv, OwnershipSound
<1>2. QED
  BY <1>1, Invariance, PTL

\* A connection given to tcp_close never changes again, whatever arrives and
\* whatever is opened later (tcp_process_packet, socket_create).
THEOREM ClosedStaysClosedCorrect == Spec => ClosedStaysClosed
<1>1. Inv /\ [Next]_vars => [\A c \in closed : connections'[c] = connections[c]]_vars
  BY InvStep DEF Kept
<1>2. QED
  BY <1>1, Invariance, PTL DEF Spec, ClosedStaysClosed

=============================================================================
