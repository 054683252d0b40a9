------------------------------ MODULE Network ------------------------------
(***************************************************************************)
(* The path of a packet through the stack: network.c and netdev.c (the two *)
(* interfaces, the queue of the loopback, routing, the polling loop),      *)
(* ethernet.c, arp.c and ip.c with their filters, and what the protocols   *)
(* above answer.  There is no receiver thread: frames wait in the loopback *)
(* queue or in the card until somebody calls network_process_packets.      *)
(*                                                                         *)
(* network_init registers "lo", and "eth0" on the E1000 or, when there is  *)
(* none, on a stub that never receives; eth0 has no address until DHCP     *)
(* gives it one.  A frame that leaves through eth0 leaves the model (the   *)
(* card's rings are those of E1000); what the hosts send is not limited to *)
(* answers.  Of TCP, only the segment that belongs to no connection is     *)
(* here (connections are those of Sockets); of UDP, that the DHCP client   *)
(* may take its lease (Dhcp).  Checksums are valid where the test is right:*)
(* that of ICMP covers only the header, so packets with data, "icmp_data"  *)
(* and "unreachable", fail it.                                             *)
(***************************************************************************)
EXTENDS Arp, Sequences

CONSTANTS
    MAX_PACKET_QUEUE,   \* frames the loopback queue holds      (16)
    LO, ME,             \* 127.0.0.1, and the address eth0 may lease
    LO_MAC, ETH_MAC,    \* hardware addresses of the two interfaces
    Local,              \* the addresses in the subnet of eth0
    Arrivals,           \* what the hosts send to eth0
    RX_SLOTS            \* frames the card holds for the next poll

Broadcast == "broadcast"            \* FF:FF:FF:FF:FF:FF, 255.255.255.255
SubnetBroadcast == "subnet"         \* all ones in the host part of eth0's subnet
NoFrame == [kind |-> "none"]
ArpKinds == {"arp_request", "arp_reply"}
IcmpKinds == {"echo_request", "echo_reply", "icmp_data", "unreachable"}
IpKinds == IcmpKinds \cup {"udp", "tcp", "other"}

\* A frame with its kind, receiver and sender; src and mac are also what an
\* ARP packet says of its sender, dst is also what it asks for.
Packets == [kind : ArpKinds \cup IpKinds, to : Macs \cup {NoMac, ETH_MAC, Broadcast},
            mac : Macs, src : Ips, dst : Ips \cup {ME, Broadcast, SubnetBroadcast}]

ASSUME NetworkAssumption ==
    /\ MAX_PACKET_QUEUE \in Nat \ {0} /\ RX_SLOTS \in Nat
    /\ LO \in Ips /\ ME \notin Ips /\ LO_MAC \in Macs /\ Local \subseteq Ips \ {LO}
    /\ Arrivals \subseteq Packets

VARIABLES
    loopback_queue,     \* [packets, head, tail, count]
    leased,             \* eth0 has its address
    rx,                 \* frames in the card
    poll,               \* network_process_packets: the interface, or "out"
    frame,              \* its local variable
    reply,              \* icmp.c: ping_reply_received, ping_reply_src_ip
    replies,            \* history: echo replies processed, per host
    sent                \* history: the last frame given to loopback_send, see Link

netVars == << loopback_queue, sent, leased, rx, poll, frame, reply, replies >>

\* The frames the machine sends over lo.
Frames == [kind : ArpKinds \cup IpKinds, to : Macs \cup {Broadcast},
           mac : {LO_MAC}, src : {LO}, dst : Ips \cup {Broadcast}]

mac_address(iface) == IF iface = "lo" THEN LO_MAC ELSE ETH_MAC
ip_address(iface) ==
    IF iface = "lo" THEN LO ELSE IF leased THEN ME ELSE NoIp

Buffers == 0 .. MAX_PACKET_QUEUE - 1

NetInit ==
    /\ ArpInit
    /\ loopback_queue = [packets |-> [b \in Buffers |-> NoFrame],
                         head |-> 0, tail |-> 0, count |-> 0]
    /\ leased = FALSE
    /\ rx = << >> /\ poll = "out" /\ frame = NoFrame
    /\ reply = [received |-> FALSE, src_ip |-> NoIp]
    /\ replies = [ip \in Ips |-> 0]
    /\ sent = [frame |-> NoFrame, turn |-> 0]

----------------------------------------------------------------------------
(* Sending                                                                 *)

Next_buffer(b) == (b + 1) % MAX_PACKET_QUEUE

Sent(f) == sent' = [frame |-> f, turn |-> 1 - sent.turn]

\* Fault: the queue is taken for full when one buffer is left.
loopback_send_early(f) ==
    /\ Sent(f)
    /\ loopback_queue' =
         IF loopback_queue.count >= MAX_PACKET_QUEUE - 1 THEN loopback_queue
         ELSE [loopback_queue EXCEPT !.packets[loopback_queue.tail] = f,
                                     !.tail = Next_buffer(@), !.count = @ + 1]

\* A full queue drops the frame; network_send_raw reports success all the same.
loopback_send(f) ==
    /\ Sent(f)
    /\ loopback_queue' =
         IF loopback_queue.count >= MAX_PACKET_QUEUE THEN loopback_queue
         ELSE [loopback_queue EXCEPT !.packets[loopback_queue.tail] = f,
                                     !.tail = Next_buffer(@), !.count = @ + 1]

NothingSent == UNCHANGED << loopback_queue, sent >>

ethernet_send_frame(iface, to, kind, dst) ==
    IF iface = "lo"
    THEN loopback_send([kind |-> kind, to |-> to, mac |-> LO_MAC,
                        src |-> LO, dst |-> dst])
    ELSE NothingSent

arp_send_request(iface, ip) == ethernet_send_frame(iface, Broadcast, "arp_request", ip)

MacOf(ip) == arp_table[CHOOSE s \in Slots : Lowest(s, Holding(ip))].mac

\* The packet is sent if it is for everybody or the address is known; else the
\* address is asked for, and the packet is gone.
ip_send_packet(iface, ip, kind) ==
    IF ip = Broadcast THEN ethernet_send_frame(iface, Broadcast, kind, ip)
    ELSE IF arp_lookup(ip) THEN ethernet_send_frame(iface, MacOf(ip), kind, ip)
    ELSE arp_send_request(iface, ip)

\* The interface whose subnet holds the address - every address is in that of
\* an interface without one - else the first.
network_find_route(ip) ==
    IF ip # LO /\ (~leased \/ ip \in Local) THEN "eth0" ELSE "lo"

----------------------------------------------------------------------------
(* Processing a frame                                                      *)

\* Fault: an ARP reply is answered like a request.
arp_answer_all(iface, f) ==
    IF f.dst = ip_address(iface)
    THEN ethernet_send_frame(iface, f.mac, "arp_reply", f.src)
    ELSE NothingSent

\* A request for our address is answered, to whoever asked.
arp_answer(iface, f) ==
    IF f.dst = ip_address(iface) /\ f.kind = "arp_request"
    THEN ethernet_send_frame(iface, f.mac, "arp_reply", f.src)
    ELSE NothingSent

process_arp(iface, f) ==
    /\ f.kind \in ArpKinds
    /\ arp_process_packet(f.src, f.mac)
    /\ arp_answer(iface, f)
    /\ UNCHANGED << reply, replies, leased >>

\* An echo request is answered, a reply noted, anything else ignored.
icmp_process_packet(iface, f) ==
    /\ f.kind \in IcmpKinds
    /\ IF f.kind = "echo_request" THEN ip_send_packet(iface, f.src, "echo_reply")
       ELSE NothingSent
    /\ IF f.kind = "echo_reply"
       THEN /\ reply' = [received |-> TRUE, src_ip |-> f.src]
            /\ replies' = [replies EXCEPT ![f.src] = @ + 1]
       ELSE UNCHANGED << reply, replies >>
    /\ UNCHANGED leased

\* The DHCP client of eth0 may have its answer in this packet.
udp_process_packet(iface, f) ==
    /\ f.kind = "udp"
    /\ leased' \in IF iface = "eth0" THEN {leased, TRUE} ELSE {leased}
    /\ NothingSent /\ UNCHANGED << reply, replies >>

\* A segment without a connection is answered with a reset: a segment, too.
tcp_process_packet(iface, f) ==
    /\ f.kind = "tcp"
    /\ ip_send_packet(iface, f.src, "tcp")
    /\ UNCHANGED << leased, reply, replies >>

icmp_send_dest_unreachable(iface, f) ==
    /\ f.kind = "other"
    /\ ip_send_packet(iface, f.src, "unreachable")
    /\ UNCHANGED << leased, reply, replies >>

\* Our address, a broadcast, or anything while we have no address.
Accepted(iface, f) ==
    \/ f.dst \in {ip_address(iface), Broadcast}
    \/ ip_address(iface) = NoIp
    \/ f.dst = SubnetBroadcast /\ iface = "eth0"

ip_process_packet(iface, f) ==
    /\ f.kind \in IpKinds
    /\ IF Accepted(iface, f)
       THEN \/ icmp_process_packet(iface, f)
            \/ udp_process_packet(iface, f)
            \/ tcp_process_packet(iface, f)
            \/ icmp_send_dest_unreachable(iface, f)
       ELSE UNCHANGED << loopback_queue, sent, leased, reply, replies >>
    /\ UNCHANGED << arp_table, told >>

----------------------------------------------------------------------------
(* network_process_packets                                                 *)

\* Somebody calls it: first lo, then eth0.
start_poll ==
    /\ poll = "out" /\ poll' = "lo"
    /\ UNCHANGED << loopback_queue, sent, leased, rx, frame, reply, replies, arpVars >>

loopback_receive ==
    /\ poll = "lo" /\ loopback_queue.count > 0
    /\ frame' = loopback_queue.packets[loopback_queue.head]
    /\ loopback_queue' = [loopback_queue EXCEPT !.head = Next_buffer(@), !.count = @ - 1]
    /\ UNCHANGED << rx, sent >>

ethernet_receive ==
    /\ poll = "eth0" /\ rx # << >>
    /\ frame' = Head(rx) /\ rx' = Tail(rx)
    /\ NothingSent

ethernet_receive_frame ==
    /\ frame = NoFrame
    /\ loopback_receive \/ ethernet_receive
    /\ UNCHANGED << leased, poll, reply, replies, arpVars >>

\* The card takes every frame on the wire, so the filter is the kernel's.
ethernet_process_frame ==
    /\ frame # NoFrame /\ frame' = NoFrame
    /\ IF frame.to \in {mac_address(poll), Broadcast}
       THEN process_arp(poll, frame) \/ ip_process_packet(poll, frame)
       ELSE UNCHANGED << loopback_queue, sent, leased, reply, replies, arp_table, told >>
    /\ UNCHANGED << rx, poll, ticks >>

\* The interface has no more frames.
next_interface ==
    /\ frame = NoFrame
    /\ \/ poll = "lo" /\ loopback_queue.count = 0 /\ poll' = "eth0"
       \/ poll = "eth0" /\ rx = << >> /\ poll' = "out"
    /\ UNCHANGED << loopback_queue, sent, leased, rx, frame, reply, replies, arpVars >>

PollStep == ethernet_receive_frame \/ ethernet_process_frame \/ next_interface

----------------------------------------------------------------------------
(* The callers of the stack, and what happens to it                        *)

\* udp_sendto, tcp_connect and tcp_send: over the route.
transport_send(kind, ip) ==
    /\ ip_send_packet(network_find_route(ip), ip, kind)
    /\ UNCHANGED << leased, rx, poll, frame, reply, replies, arpVars >>

\* dhcp_client_update finds the lease expired: eth0 loses its address.
dhcp_expire ==
    /\ leased /\ leased' = FALSE
    /\ UNCHANGED << loopback_queue, sent, rx, poll, frame, reply, replies, arpVars >>

\* A frame comes in; a full card loses it.
arrive(f) ==
    /\ Len(rx) < RX_SLOTS
    /\ rx' = Append(rx, f)
    /\ UNCHANGED << loopback_queue, sent, leased, poll, frame, reply, replies, arpVars >>

----------------------------------------------------------------------------
(* Properties                                                              *)

\* The queue, the card and the polling loop hold frames with a known sender.
NetTypeOK ==
    /\ loopback_queue \in [packets : [Buffers -> Packets \cup {NoFrame}],
                          head : Buffers, tail : Buffers, count : 0 .. MAX_PACKET_QUEUE]
    /\ leased \in BOOLEAN
    /\ rx \in Seq(Packets)
    /\ poll \in {"out", "lo", "eth0"}
    /\ frame \in Packets \cup {NoFrame}
    /\ reply \in [received : BOOLEAN, src_ip : Ips \cup {NoIp}]
    /\ replies \in [Ips -> Nat]
    /\ sent \in [frame : Packets \cup {NoFrame}, turn : {0, 1}]

\* The frames in the loopback queue, oldest first.
Waiting ==
    [k \in 1 .. loopback_queue.count |->
        loopback_queue.packets[(loopback_queue.head + k - 1) % MAX_PACKET_QUEUE]]

LoFrame == IF poll = "lo" THEN frame ELSE NoFrame

Loopback == INSTANCE Link WITH Capacity <- MAX_PACKET_QUEUE, queue <- Waiting,
                               frame <- LoFrame

\* The loopback interface delivers what was sent over it, in order, each frame
\* once, whatever the protocols send while they process a frame, and loses a
\* frame only when the queue is full (loopback_send, loopback_receive and the
\* loop of network_process_packets).
ImplementsLink == Loopback!LinkSpec

\* A segment is on its way over lo.  Without a connection it is answered with a
\* reset, which is answered with a reset, and so on (tcp.c:106).
SegmentOnLo == \/ LoFrame.kind = "tcp"
               \/ \E k \in 1 .. loopback_queue.count : Waiting[k].kind = "tcp"

\* A poll comes to an end or segments go round on lo for ever, which is the one
\* thing that can keep it: everything else that processing a frame sends over lo
\* dies out (network_process_packets drains each interface).  That the hosts do
\* not send for ever is a premise where this is used, see Ping.
PollEnds == []<>SegmentOnLo \/ ((poll # "out") ~> (poll = "out"))
=============================================================================
