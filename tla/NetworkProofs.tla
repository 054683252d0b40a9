--------------------------- MODULE NetworkProofs ---------------------------
(***************************************************************************)
(* The properties of Arp, for tables of every size, any neighbours and any *)
(* width of the clock; then that what the whole stack of Ping does to the  *)
(* ARP table is what Arp allows, so that they hold of it; and that ping    *)
(* counts no reply twice, and that the queue of the loopback is a Link.    *)
(* For every number of neighbours, slots and buffers, and whatever the     *)
(* hosts send.                                                             *)
(*                                                                         *)
(* The invariant of the table is the conjunction of its three invariants   *)
(* themselves: that a host has one entry is what makes the update of the   *)
(* first entry found an update of all there is.  That of the stack: every  *)
(* frame, in the queue, in the card or in the polling loop, has a sender   *)
(* the table can hold; and a reply noted while ping waits is one it has    *)
(* not counted, because the note was cleared when the request went out.    *)
(***************************************************************************)
EXTENDS Ping, WellFoundedInduction, TLAPS

----------------------------------------------------------------------------
(* The table                                                               *)

Inv == ArpTypeOK /\ OneEntryPerHost /\ LatestMac

EntryType == [valid : BOOLEAN, ip : Ips \cup {NoIp},
              mac : Macs \cup {NoMac}, timestamp : Times]

\* arp_init establishes the invariant.
LEMMA InvInit == ArpInit => Inv
<1> SUFFICES ASSUME ArpInit PROVE Inv
  OBVIOUS
<1>1. 0 \in Times
  BY ArpAssumption DEF Times
<1>2. EmptyEntry \in EntryType
  BY <1>1 DEF EmptyEntry, EntryType
<1>3. arp_table \in [Slots -> EntryType]
  BY <1>2 DEF ArpInit
<1>4. \A k \in Slots : ~arp_table[k].valid
  BY DEF ArpInit, EmptyEntry
<1>5. told \in [Ips -> Macs \cup {NoMac}]
  BY DEF ArpInit
<1>6. QED
  BY <1>1, <1>3, <1>4, <1>5
  DEF ArpInit, Inv, ArpTypeOK, OneEntryPerHost, LatestMac, EntryType

\* What a packet of a known host changes: one entry's address and stamp.
LEMMA RefreshStep ==
  ASSUME Inv, NEW ip \in Ips, NEW mac \in Macs, refresh(ip, mac)
  PROVE  \E k \in Slots :
           /\ arp_table[k].valid /\ arp_table[k].ip = ip
           /\ arp_table' \in [Slots -> EntryType]
           /\ arp_table'[k].valid /\ arp_table'[k].ip = ip /\ arp_table'[k].mac = mac
           /\ \A n \in Slots \ {k} : arp_table'[n] = arp_table[n]
<1>1. PICK k \in Slots :
        /\ Lowest(k, Holding(ip))
        /\ arp_table' = [arp_table EXCEPT ![k].mac = mac, ![k].timestamp = ticks]
  BY DEF refresh
<1>2. arp_table[k].valid /\ arp_table[k].ip = ip
  BY <1>1 DEF Lowest, Holding
<1>3. arp_table \in [Slots -> EntryType] /\ ticks \in Times
  BY DEF Inv, ArpTypeOK, EntryType
<1> DEFINE r == [arp_table[k] EXCEPT !.mac = mac, !.timestamp = ticks]
<1>4. arp_table[k] \in EntryType
  BY <1>3
<1>5. r \in EntryType /\ r.valid = arp_table[k].valid /\ r.ip = arp_table[k].ip /\ r.mac = mac
  BY <1>3, <1>4 DEF EntryType
<1>6. arp_table' = [arp_table EXCEPT ![k] = r]
  BY <1>1, <1>3
<1> HIDE DEF r
<1>7. arp_table'[k] = r /\ \A n \in Slots \ {k} : arp_table'[n] = arp_table[n]
  BY <1>3, <1>6
<1>8. arp_table' \in [Slots -> EntryType]
  BY <1>3, <1>5, <1>6
<1>9. QED
  BY <1>2, <1>5, <1>7, <1>8

\* What a packet of a new host changes: one slot, empty or in a full table.
LEMMA AddStep ==
  ASSUME Inv, NEW ip \in Ips, NEW mac \in Macs, add(ip, mac)
  PROVE  \E k \in Slots :
           /\ ~arp_table[k].valid \/ Free = {}
           /\ \A n \in Slots : arp_table[n].valid => arp_table[n].ip # ip
           /\ arp_table' \in [Slots -> EntryType]
           /\ arp_table'[k].valid /\ arp_table'[k].ip = ip /\ arp_table'[k].mac = mac
           /\ \A n \in Slots \ {k} : arp_table'[n] = arp_table[n]
<1> DEFINE r == NewEntry(ip, mac)
<1>1. PICK k \in Slots : Slot(k) /\ arp_table' = [arp_table EXCEPT ![k] = r]
  BY DEF add
<1>2. ~arp_table[k].valid \/ Free = {}
  BY <1>1 DEF Slot, Lowest, Free
<1>3. \A n \in Slots : arp_table[n].valid => arp_table[n].ip # ip
  BY DEF add, arp_lookup, Holding
<1>4. arp_table \in [Slots -> EntryType] /\ ticks \in Times
  BY DEF Inv, ArpTypeOK, EntryType
<1>5. r \in EntryType /\ r.valid /\ r.ip = ip /\ r.mac = mac
  BY <1>4 DEF NewEntry, EntryType
<1> HIDE DEF r
<1>6. arp_table'[k] = r /\ \A n \in Slots \ {k} : arp_table'[n] = arp_table[n]
  BY <1>1, <1>4
<1>7. arp_table' \in [Slots -> EntryType]
  BY <1>1, <1>4, <1>5
<1>8. QED
  BY <1>2, <1>3, <1>5, <1>6, <1>7

\* Every step preserves the invariant.
LEMMA InvStep == Inv /\ [ArpNext]_arpVars => Inv'
<1> SUFFICES ASSUME Inv, [ArpNext]_arpVars PROVE Inv'
  OBVIOUS
<1>1. arp_table \in [Slots -> EntryType]
  BY DEF Inv, ArpTypeOK, EntryType
<1>2. ASSUME NEW ip \in Ips, NEW mac \in Macs,
             arp_process_packet(ip, mac), UNCHANGED ticks
      PROVE  Inv'
  <2>1. told' = [told EXCEPT ![ip] = mac] /\ told \in [Ips -> Macs \cup {NoMac}]
    BY <1>2 DEF arp_process_packet, Inv, ArpTypeOK
  <2>2. /\ told' \in [Ips -> Macs \cup {NoMac}] /\ told'[ip] = mac
        /\ \A x \in Ips \ {ip} : told'[x] = told[x]
    BY <2>1
  <2>3. ticks' \in Times
    BY <1>2 DEF Inv, ArpTypeOK
  <2>4. CASE refresh(ip, mac)
    <3>1. PICK k \in Slots :
            /\ arp_table[k].valid /\ arp_table[k].ip = ip
            /\ arp_table' \in [Slots -> EntryType]
            /\ arp_table'[k].valid /\ arp_table'[k].ip = ip /\ arp_table'[k].mac = mac
            /\ \A n \in Slots \ {k} : arp_table'[n] = arp_table[n]
      BY <2>4, RefreshStep
    <3>2. \A n \in Slots \ {k} : arp_table[n].valid => arp_table[n].ip # ip
      BY <3>1 DEF Inv, OneEntryPerHost
    <3>3. ArpTypeOK'
      BY <2>2, <2>3, <3>1 DEF Inv, ArpTypeOK, EntryType
    <3>4. OneEntryPerHost'
      BY <3>1, <3>2 DEF Inv, OneEntryPerHost
    <3>5. LatestMac'
      BY <2>2, <3>1, <3>2 DEF Inv, LatestMac, ArpTypeOK
    <3>6. QED
      BY <3>3, <3>4, <3>5 DEF Inv
  <2>5. CASE add(ip, mac)
    <3>1. PICK k \in Slots :
            /\ \A n \in Slots : arp_table[n].valid => arp_table[n].ip # ip
            /\ arp_table' \in [Slots -> EntryType]
            /\ arp_table'[k].valid /\ arp_table'[k].ip = ip /\ arp_table'[k].mac = mac
            /\ \A n \in Slots \ {k} : arp_table'[n] = arp_table[n]
      BY <2>5, AddStep
    <3>3. ArpTypeOK'
      BY <2>2, <2>3, <3>1 DEF Inv, ArpTypeOK, EntryType
    <3>4. OneEntryPerHost'
      BY <3>1 DEF Inv, OneEntryPerHost
    <3>5. LatestMac'
      BY <2>2, <3>1 DEF Inv, LatestMac, ArpTypeOK
    <3>6. QED
      BY <3>3, <3>4, <3>5 DEF Inv
  <2>6. CASE not_added(ip)
    <3>1. \A n \in Slots : arp_table[n].valid => arp_table[n].ip # ip
      BY <2>6 DEF not_added, arp_lookup, Holding
    <3>2. arp_table' = arp_table
      BY <2>6 DEF not_added
    <3>3. LatestMac'
      BY <2>2, <3>1, <3>2 DEF Inv, LatestMac, ArpTypeOK
    <3>4. QED
      BY <2>2, <2>3, <3>2, <3>3 DEF Inv, ArpTypeOK, OneEntryPerHost
  <2>7. QED
    BY <1>2, <2>4, <2>5, <2>6 DEF arp_process_packet
<1>3. CASE tick /\ UNCHANGED << arp_table, told >>
  <2>1. ticks' \in Times
    <3>1. ticks + 1 \in Int
      BY DEF Inv, ArpTypeOK, Times
    <3>2. QED
      BY <1>3, <3>1, ArpAssumption DEF tick, Times
  <2>2. QED
    BY <1>3, <2>1 DEF Inv, ArpTypeOK, OneEntryPerHost, LatestMac
<1>4. CASE UNCHANGED arpVars
  BY <1>4 DEF arpVars, Inv, ArpTypeOK, OneEntryPerHost, LatestMac
<1>5. QED
  BY <1>2, <1>3, <1>4 DEF ArpNext

\* The invariant holds throughout.
LEMMA Invariance == ArpSpec => []Inv
  BY InvInit, InvStep, PTL DEF ArpSpec

\* No host ever has two entries in the ARP table (arp_update_entry).
THEOREM OneEntryPerHostCorrect == ArpSpec => []OneEntryPerHost
<1>1. Inv => OneEntryPerHost
  BY DEF Inv
<1>2. QED
  BY <1>1, Invariance, PTL

\* The address arp_lookup returns for a host is the last one the host told.
THEOREM LatestMacCorrect == ArpSpec => []LatestMac
<1>1. Inv => LatestMac
  BY DEF Inv
<1>2. QED
  BY <1>1, Invariance, PTL

\* A host is forgotten only to make room for another in a full table.
THEOREM ForgetsOnlyWhenFullCorrect == ArpSpec => ForgetsOnlyWhenFull
<1> DEFINE Step ==
      \A k \in Slots :
         arp_table[k].valid /\ (~arp_table'[k].valid \/ arp_table'[k].ip # arp_table[k].ip)
         => /\ Free = {}
            /\ \A n \in Slots \ {k} : arp_table'[n] = arp_table[n]
<1>1. Inv /\ [ArpNext]_arpVars => [Step]_arpVars
  <2> SUFFICES ASSUME Inv, ArpNext PROVE Step
    OBVIOUS
  <2>1. CASE UNCHANGED arp_table
    BY <2>1
  <2>2. ASSUME NEW ip \in Ips, NEW mac \in Macs, refresh(ip, mac)
        PROVE  Step
    BY <2>2, RefreshStep
  <2>3. ASSUME NEW ip \in Ips, NEW mac \in Macs, add(ip, mac)
        PROVE  Step
    <3>1. PICK k \in Slots :
            /\ ~arp_table[k].valid \/ Free = {}
            /\ \A n \in Slots \ {k} : arp_table'[n] = arp_table[n]
      BY <2>3, AddStep
    <3>2. QED
      BY <3>1
  <2>4. QED
    BY <2>1, <2>2, <2>3 DEF ArpNext, arp_process_packet, not_added
<1>2. QED
  BY <1>1, Invariance, PTL DEF ArpSpec, ForgetsOnlyWhenFull

----------------------------------------------------------------------------
(* The stack                                                               *)

QueueType == [packets : [Buffers -> Packets \cup {NoFrame}],
              head : Buffers, tail : Buffers, count : 0 .. MAX_PACKET_QUEUE]

SentType == [frame : Packets \cup {NoFrame}, turn : {0, 1}]

\* The loopback queue and the last frame sent.
QueueOK == loopback_queue \in QueueType /\ sent \in SentType

ReplyOK == reply.received => reply.src_ip \in Ips

CountsOK == \A ip \in Ips : counted[ip] <= replies[ip]

\* While ping waits, its last request has no reply counted.
ResultOK ==
  /\ result \in [sent : Nat, received : Nat]
  /\ result.received <= result.sent
  /\ pc = "wait" => result.received < result.sent

PingInv ==
  /\ pc \in {"shell", "send", "wait", "delay"}
  /\ counted \in [Ips -> Nat]
  /\ ReplyOK /\ UncountedReply /\ CountsOK /\ ResultOK

NInv == Inv /\ NetTypeOK /\ PingInv

----------------------------------------------------------------------------
(* Sending keeps the loopback queue a queue of frames.                     *)

\* A known host has a first entry.
LEMMA FirstEntry ==
  ASSUME ArpTypeOK, NEW ip \in Ips, arp_lookup(ip)
  PROVE  \E s \in Slots : Lowest(s, Holding(ip))
<1>1. Holding(ip) \subseteq Nat /\ Holding(ip) # {}
  BY ArpAssumption DEF Holding, Slots, arp_lookup
<1> DEFINE Less == OpToRel(<, Nat)
<1>2. \A x, y \in Nat : x < y => << x, y >> \in Less
  BY Zenon DEF OpToRel
<1>3. IsWellFoundedOn(Less, Nat)
  BY NatLessThanWellFounded
<1> HIDE DEF Less
<1>4. PICK s \in Holding(ip) : \A y \in Holding(ip) : ~ (<< y, s >> \in Less)
  BY <1>1, <1>3, WFMin
<1>5. \A y \in Holding(ip) : s <= y
  <2> SUFFICES ASSUME NEW y \in Holding(ip) PROVE s <= y
    OBVIOUS
  <2>1. ~(y < s)
    BY <1>1, <1>2, <1>4, Zenon
  <2>2. y \in Nat /\ s \in Nat
    BY <1>1
  <2>3. QED
    BY <2>1, <2>2
<1>6. QED
  BY <1>5 DEF Lowest, Holding

\* The hardware address of a known host is one, or none.
LEMMA MacOfType ==
  ASSUME ArpTypeOK, NEW ip \in Ips, arp_lookup(ip)
  PROVE  MacOf(ip) \in Macs \cup {NoMac}
<1> DEFINE s == CHOOSE s \in Slots : Lowest(s, Holding(ip))
<1>1. s \in Slots
  BY FirstEntry
<1> HIDE DEF s
<1>2. arp_table[s].mac \in Macs \cup {NoMac}
  BY <1>1 DEF ArpTypeOK
<1>3. QED
  BY <1>2 DEF MacOf, s

\* loopback_send.
LEMMA LoopbackSendType ==
  ASSUME QueueOK, NEW f \in Packets, loopback_send(f)
  PROVE  QueueOK'
<1>0. loopback_queue \in QueueType /\ sent' \in SentType
  BY DEF QueueOK, SentType, loopback_send, Sent
<1>1. Next_buffer(loopback_queue.tail) \in Buffers
  BY <1>0, NetworkAssumption DEF QueueType, Buffers, Next_buffer
<1>2. CASE loopback_queue.count >= MAX_PACKET_QUEUE
  BY <1>0, <1>2 DEF loopback_send, QueueOK
<1>3. CASE ~(loopback_queue.count >= MAX_PACKET_QUEUE)
  <2>1. loopback_queue.count + 1 \in 0 .. MAX_PACKET_QUEUE
    BY <1>0, <1>3, NetworkAssumption DEF QueueType
  <2> DEFINE p == [loopback_queue.packets EXCEPT ![loopback_queue.tail] = f]
  <2>2. p \in [Buffers -> Packets \cup {NoFrame}]
    BY <1>0 DEF QueueType
  <2>3. loopback_queue' = [packets |-> p, head |-> loopback_queue.head,
                           tail |-> Next_buffer(loopback_queue.tail),
                           count |-> loopback_queue.count + 1]
    BY <1>0, <1>3 DEF loopback_send, QueueType
  <2> HIDE DEF p
  <2>4. loopback_queue' \in QueueType
    BY <1>0, <1>1, <2>1, <2>2, <2>3 DEF QueueType
  <2>5. QED
    BY <1>0, <2>4 DEF QueueOK
<1>4. QED
  BY <1>2, <1>3

\* ethernet_send_frame, on either interface.
LEMMA FrameSendType ==
  ASSUME QueueOK, NEW iface,
         NEW to \in Macs \cup {NoMac, ETH_MAC, Broadcast},
         NEW kind \in ArpKinds \cup IpKinds, NEW dst \in Ips \cup {Broadcast},
         ethernet_send_frame(iface, to, kind, dst)
  PROVE  QueueOK'
<1> DEFINE f == [kind |-> kind, to |-> to, mac |-> LO_MAC, src |-> LO, dst |-> dst]
<1>1. f \in Packets
  BY NetworkAssumption DEF Packets
<1>2. loopback_send(f) \/ NothingSent
  BY DEF ethernet_send_frame
<1>3. QED
  BY <1>1, <1>2, LoopbackSendType DEF NothingSent, QueueOK

\* ip_send_packet, the packet or the request for its address.
LEMMA PacketSendType ==
  ASSUME ArpTypeOK, QueueOK, NEW iface, NEW ip \in Ips \cup {Broadcast},
         NEW kind \in IpKinds, ip_send_packet(iface, ip, kind)
  PROVE  QueueOK'
<1>0. CASE ip = Broadcast
  BY <1>0, FrameSendType DEF ip_send_packet
<1>1. CASE ip # Broadcast /\ arp_lookup(ip)
  <2>1. MacOf(ip) \in Macs \cup {NoMac}
    BY <1>1, MacOfType
  <2>2. ethernet_send_frame(iface, MacOf(ip), kind, ip)
    BY <1>1 DEF ip_send_packet
  <2>3. QED
    BY <2>1, <2>2, FrameSendType
<1>2. CASE ip # Broadcast /\ ~arp_lookup(ip)
  <2>1. ethernet_send_frame(iface, Broadcast, "arp_request", ip)
    BY <1>2 DEF ip_send_packet, arp_send_request
  <2>2. "arp_request" \in ArpKinds \cup IpKinds
    BY DEF ArpKinds
  <2>3. QED
    BY <2>1, <2>2, FrameSendType
<1>3. QED
  BY <1>0, <1>1, <1>2

----------------------------------------------------------------------------
(* Processing one frame                                                    *)

\* What a handler leaves behind: a queue of frames, a lease that is or is not,
\* and at most one more reply, noted with its sender.
ReplyNoted ==
  \E src \in Ips : /\ reply' = [received |-> TRUE, src_ip |-> src]
                   /\ replies' = [replies EXCEPT ![src] = @ + 1]

Handled ==
  /\ QueueOK'
  /\ leased' \in BOOLEAN
  /\ UNCHANGED << reply, replies >> \/ ReplyNoted

\* arp_process_packet of a frame is a step of Arp.
LEMMA ProcessArp ==
  ASSUME NInv, NEW iface, NEW f \in Packets, process_arp(iface, f)
  PROVE  Handled /\ arp_process_packet(f.src, f.mac) /\ f.src \in Ips /\ f.mac \in Macs
<1>1. f.src \in Ips /\ f.mac \in Macs
  BY DEF Packets
<1>2. QueueOK /\ leased \in BOOLEAN
  BY DEF NInv, NetTypeOK, QueueOK, QueueType, SentType
<1>3. "arp_reply" \in ArpKinds \cup IpKinds
  BY DEF ArpKinds
<1>4. \/ ethernet_send_frame(iface, f.mac, "arp_reply", f.src)
      \/ UNCHANGED << loopback_queue, sent >>
  BY DEF process_arp, arp_answer, NothingSent
<1>5. QueueOK'
  BY <1>1, <1>2, <1>3, <1>4, FrameSendType DEF QueueOK
<1>6. QED
  BY <1>1, <1>2, <1>5 DEF process_arp, Handled

\* ip_process_packet leaves the ARP table alone.
LEMMA ProcessIp ==
  ASSUME NInv, NEW iface, NEW f \in Packets, ip_process_packet(iface, f)
  PROVE  Handled /\ UNCHANGED << arp_table, told >>
<1>1. f.src \in Ips
  BY DEF Packets
<1>2. QueueOK /\ leased \in BOOLEAN /\ ArpTypeOK
  BY DEF NInv, Inv, NetTypeOK, QueueOK, QueueType, SentType
<1>3. {"echo_reply", "tcp", "unreachable"} \subseteq IpKinds
  BY DEF IpKinds, IcmpKinds
<1>4. ASSUME NEW kind \in IpKinds, ip_send_packet(iface, f.src, kind)
      PROVE  QueueOK'
  BY <1>1, <1>2, <1>4, PacketSendType
<1>5. CASE icmp_process_packet(iface, f)
  <2>1. ip_send_packet(iface, f.src, "echo_reply") \/ UNCHANGED << loopback_queue, sent >>
    BY <1>5 DEF icmp_process_packet, NothingSent
  <2>2. QueueOK'
    BY <1>2, <1>3, <1>4, <2>1 DEF QueueOK
  <2>3. UNCHANGED << reply, replies >> \/ ReplyNoted
    BY <1>1, <1>5 DEF icmp_process_packet, ReplyNoted
  <2>4. QED
    BY <1>2, <1>5, <2>2, <2>3 DEF icmp_process_packet, Handled, ip_process_packet
<1>6. CASE udp_process_packet(iface, f)
  BY <1>2, <1>6 DEF udp_process_packet, NothingSent, QueueOK, Handled, ip_process_packet
<1>7. CASE tcp_process_packet(iface, f)
  <2>1. QueueOK'
    BY <1>3, <1>4, <1>7 DEF tcp_process_packet
  <2>2. QED
    BY <1>2, <1>7, <2>1 DEF tcp_process_packet, Handled, ip_process_packet
<1>8. CASE icmp_send_dest_unreachable(iface, f)
  <2>1. QueueOK'
    BY <1>3, <1>4, <1>8 DEF icmp_send_dest_unreachable
  <2>2. QED
    BY <1>2, <1>8, <2>1 DEF icmp_send_dest_unreachable, Handled, ip_process_packet
<1>9. CASE UNCHANGED << loopback_queue, sent, leased, reply, replies >>
  BY <1>2, <1>9 DEF Handled, QueueOK, ip_process_packet
<1>10. QED
  BY <1>5, <1>6, <1>7, <1>8, <1>9 DEF ip_process_packet

\* Noting a reply keeps the counts in step.
LEMMA HandledKeepsPing ==
  ASSUME NInv, Handled, UNCHANGED << pc, counted, result >>
  PROVE  /\ PingInv'
         /\ reply' \in [received : BOOLEAN, src_ip : Ips \cup {NoIp}]
         /\ replies' \in [Ips -> Nat]
<1>1. /\ replies \in [Ips -> Nat] /\ counted \in [Ips -> Nat]
      /\ reply \in [received : BOOLEAN, src_ip : Ips \cup {NoIp}]
  BY DEF NInv, NetTypeOK, PingInv
<1>2. CASE UNCHANGED << reply, replies >>
  BY <1>1, <1>2 DEF NInv, PingInv, ReplyOK, UncountedReply, CountsOK, ResultOK
<1>3. CASE ReplyNoted
  <2>1. PICK src \in Ips : /\ reply' = [received |-> TRUE, src_ip |-> src]
                           /\ replies' = [replies EXCEPT ![src] = @ + 1]
    BY <1>3 DEF ReplyNoted
  <2>2. \A ip \in Ips : counted[ip] \in Nat /\ replies[ip] \in Nat
    BY <1>1
  <2>3. /\ replies'[src] = replies[src] + 1
        /\ \A ip \in Ips \ {src} : replies'[ip] = replies[ip]
        /\ replies' \in [Ips -> Nat]
    BY <1>1, <2>1, <2>2
  <2>4. \A ip \in Ips : counted[ip] <= replies[ip]
    BY DEF NInv, PingInv, CountsOK
  <2>5. counted[src] < replies'[src]
    BY <2>2, <2>3, <2>4
  <2>6. CountsOK'
    BY <2>2, <2>3, <2>4 DEF CountsOK
  <2>7. UncountedReply'
    BY <2>1, <2>5 DEF UncountedReply
  <2>8. QED
    BY <2>1, <2>3, <2>6, <2>7 DEF NInv, PingInv, ReplyOK, ResultOK
<1>4. QED
  BY <1>2, <1>3 DEF Handled

----------------------------------------------------------------------------
(* The steps                                                               *)

\* network_init establishes the invariant.
LEMMA NInvInit == PingInit => NInv
<1> SUFFICES ASSUME PingInit PROVE NInv
  OBVIOUS
<1>1. Inv
  BY InvInit DEF PingInit, NetInit
<1>2. 0 \in Buffers
  BY NetworkAssumption DEF Buffers
<1>3. NetTypeOK
  <2>1. loopback_queue \in QueueType
    BY <1>2, NetworkAssumption DEF PingInit, NetInit, QueueType
  <2>2. rx \in Seq(Packets) /\ replies \in [Ips -> Nat]
    BY DEF PingInit, NetInit
  <2>3. /\ leased \in BOOLEAN /\ poll \in {"out", "lo", "eth0"}
        /\ frame \in Packets \cup {NoFrame}
    BY DEF PingInit, NetInit
  <2>4. reply \in [received : BOOLEAN, src_ip : Ips \cup {NoIp}]
    BY DEF PingInit, NetInit
  <2>5. sent \in SentType
    BY DEF PingInit, NetInit, SentType
  <2>6. QED
    BY <2>1, <2>2, <2>3, <2>4, <2>5 DEF NetTypeOK, QueueType, SentType
<1>4. PingInv
  BY DEF PingInit, NetInit, PingInv, ReplyOK, UncountedReply, CountsOK, ResultOK
<1>5. QED
  BY <1>1, <1>3, <1>4 DEF NInv

\* A step that only moves ping along, without counting.
LEMMA Idle ==
  ASSUME NInv, UNCHANGED << reply, replies, counted, result >>,
         pc' \in {"shell", "send", "delay"} \/ pc' = pc
  PROVE  PingInv'
BY DEF NInv, PingInv, ReplyOK, UncountedReply, CountsOK, ResultOK

\* The steps of network_process_packets.
LEMMA PollKeeps ==
  ASSUME NInv, Polling
  PROVE  NetTypeOK' /\ PingInv' /\ [ArpNext]_arpVars
<1>1. loopback_queue \in QueueType
  BY DEF NInv, NetTypeOK, QueueType
<1>2. UNCHANGED << pc, counted, result >>
  BY DEF Polling, pingVars
<1>3. CASE ethernet_receive_frame
  <2>1. loopback_queue' \in QueueType /\ frame' \in Packets \cup {NoFrame} /\ rx' \in Seq(Packets)
    <3>1. CASE loopback_receive
      <4>1. Next_buffer(loopback_queue.head) \in Buffers
        BY <1>1, NetworkAssumption DEF QueueType, Buffers, Next_buffer
      <4>2. loopback_queue.count - 1 \in 0 .. MAX_PACKET_QUEUE
        BY <1>1, <3>1, NetworkAssumption DEF QueueType, loopback_receive
      <4>3. loopback_queue' = [packets |-> loopback_queue.packets,
                               head |-> Next_buffer(loopback_queue.head),
                               tail |-> loopback_queue.tail,
                               count |-> loopback_queue.count - 1]
        BY <1>1, <3>1 DEF QueueType, loopback_receive
      <4>4. loopback_queue' \in QueueType
        BY <1>1, <4>1, <4>2, <4>3 DEF QueueType
      <4>5. frame' \in Packets \cup {NoFrame}
        BY <1>1, <3>1 DEF QueueType, loopback_receive
      <4>6. rx' \in Seq(Packets)
        BY <3>1 DEF loopback_receive, NInv, NetTypeOK
      <4>7. QED
        BY <4>4, <4>5, <4>6
    <3>2. CASE ethernet_receive
      <4>1. rx \in Seq(Packets) /\ rx # << >>
        BY <3>2 DEF ethernet_receive, NInv, NetTypeOK
      <4>2. QED
        BY <1>1, <3>2, <4>1 DEF ethernet_receive, NothingSent
    <3>3. QED
      BY <1>3, <3>1, <3>2 DEF ethernet_receive_frame
  <2>a. UNCHANGED sent
    BY <1>3 DEF ethernet_receive_frame, loopback_receive, ethernet_receive, NothingSent
  <2>2. NetTypeOK'
    BY <1>3, <2>1, <2>a DEF ethernet_receive_frame, NInv, NetTypeOK, QueueType
  <2>3. PingInv'
    BY <1>2, <1>3, Idle DEF ethernet_receive_frame
  <2>4. QED
    BY <1>3, <2>2, <2>3 DEF ethernet_receive_frame
<1>4. CASE ethernet_process_frame
  <2>1. frame \in Packets
    BY <1>4 DEF ethernet_process_frame, NInv, NetTypeOK
  <2>2. Handled /\ [ArpNext]_arpVars
    <3>1. CASE process_arp(poll, frame)
      <4>1. /\ Handled /\ arp_process_packet(frame.src, frame.mac)
            /\ frame.src \in Ips /\ frame.mac \in Macs
        BY <2>1, <3>1, ProcessArp
      <4>2. UNCHANGED ticks
        BY <1>4 DEF ethernet_process_frame
      <4>3. ArpNext
        BY <4>1, <4>2 DEF ArpNext
      <4>4. QED
        BY <4>1, <4>3
    <3>2. CASE ip_process_packet(poll, frame)
      BY <1>4, <2>1, <3>2, ProcessIp DEF ethernet_process_frame, arpVars
    <3>3. CASE UNCHANGED << loopback_queue, sent, leased, reply, replies, arp_table, told >>
      BY <1>1, <1>4, <3>3
      DEF ethernet_process_frame, arpVars, Handled, NInv, NetTypeOK, QueueOK, SentType
    <3>4. QED
      BY <1>4, <3>1, <3>2, <3>3 DEF ethernet_process_frame
  <2>3. /\ PingInv' /\ reply' \in [received : BOOLEAN, src_ip : Ips \cup {NoIp}]
        /\ replies' \in [Ips -> Nat]
    BY <1>2, <2>2, HandledKeepsPing
  <2>4. NetTypeOK'
    BY <1>4, <2>2, <2>3 DEF ethernet_process_frame, NInv, NetTypeOK, Handled, QueueOK, QueueType, SentType
  <2>5. QED
    BY <2>2, <2>3, <2>4
<1>5. CASE next_interface
  <2>1. PingInv'
    BY <1>2, <1>5, Idle DEF next_interface
  <2>2. QED
    BY <1>5, <2>1 DEF next_interface, NInv, NetTypeOK
<1>6. QED
  BY <1>3, <1>4, <1>5 DEF Polling, PollStep

\* The steps of icmp_ping: the note is cleared when a request goes out, and a
\* reply is counted when the wait is left.
LEMMA PingKeeps ==
  ASSUME NInv, \/ \E ip \in Ips : cmd_ping(ip)
               \/ icmp_send_echo_request \/ end_wait \/ end_delay
               \/ network_process_packets
  PROVE  NetTypeOK' /\ PingInv' /\ UNCHANGED arpVars
<1>1. CASE \E ip \in Ips : cmd_ping(ip)
  <2>1. PingInv'
    <3>1. UNCHANGED << reply, replies, counted >> /\ pc' = "send"
      BY <1>1 DEF cmd_ping, netVars
    <3>2. ResultOK'
      BY <1>1, <3>1 DEF cmd_ping, ResultOK
    <3>3. QED
      BY <3>1, <3>2 DEF NInv, PingInv, ReplyOK, UncountedReply, CountsOK
  <2>2. QED
    BY <1>1, <2>1 DEF cmd_ping, netVars, NInv, NetTypeOK
<1>2. CASE icmp_send_echo_request
  <2>1. UNCHANGED << loopback_queue, sent >>
    BY <1>2 DEF icmp_send_echo_request, ip_send_packet, arp_send_request, ethernet_send_frame,
                NothingSent
  <2>2. reply \in [received : BOOLEAN, src_ip : Ips \cup {NoIp}]
    BY DEF NInv, NetTypeOK
  <2>3. /\ reply' \in [received : BOOLEAN, src_ip : Ips \cup {NoIp}]
        /\ reply'.received = FALSE
    BY <1>2, <2>2 DEF icmp_send_echo_request, Cleared
  <2>4. NetTypeOK'
    BY <1>2, <2>1, <2>3 DEF icmp_send_echo_request, NInv, NetTypeOK
  <2>5. pc' \in {"shell", "send", "wait", "delay"}
    BY <1>2 DEF icmp_send_echo_request
  <2>a. ResultOK'
    <3>1. /\ result \in [sent : Nat, received : Nat] /\ result.received <= result.sent
          /\ result.received \in Nat /\ result.sent \in Nat
      BY DEF NInv, PingInv, ResultOK
    <3>2. CASE arp_lookup(dest)
      <4>1. result' = [result EXCEPT !.sent = @ + 1]
        BY <1>2, <3>2 DEF icmp_send_echo_request
      <4>2. /\ result' \in [sent : Nat, received : Nat]
            /\ result'.received = result.received /\ result'.sent = result.sent + 1
        BY <3>1, <4>1
      <4>3. QED
        BY <3>1, <4>2 DEF ResultOK
    <3>3. CASE ~arp_lookup(dest)
      <4>1. result' = result /\ pc' # "wait"
        BY <1>2, <3>3 DEF icmp_send_echo_request
      <4>2. QED
        BY <3>1, <4>1 DEF ResultOK
    <3>4. QED
      BY <3>2, <3>3
  <2>6. PingInv'
    BY <1>2, <2>3, <2>5, <2>a
    DEF icmp_send_echo_request, NInv, PingInv, ReplyOK, UncountedReply, CountsOK
  <2>7. QED
    BY <1>2, <2>4, <2>6 DEF icmp_send_echo_request
<1>3. CASE end_wait
  <2>1. NetTypeOK'
    BY <1>3 DEF end_wait, netVars, NInv, NetTypeOK
  <2>2. pc' \in {"shell", "delay"}
    BY <1>3 DEF end_wait
  <2>3. \A ip \in Ips : counted[ip] \in Nat /\ replies[ip] \in Nat
    BY DEF NInv, NetTypeOK, PingInv
  <2>4. counted' \in [Ips -> Nat] /\ CountsOK'
    <3>1. CASE Answered
      <4>1. dest \in Ips /\ counted[dest] < replies[dest]
        BY <1>3, <3>1 DEF end_wait, Answered, NInv, PingInv, ReplyOK, UncountedReply
      <4>2. counted' = [counted EXCEPT ![dest] = @ + 1] /\ counted \in [Ips -> Nat]
        BY <1>3, <3>1 DEF end_wait, NInv, PingInv
      <4>3. /\ counted'[dest] = counted[dest] + 1 /\ counted' \in [Ips -> Nat]
            /\ \A ip \in Ips \ {dest} : counted'[ip] = counted[ip]
        BY <2>3, <4>1, <4>2
      <4>4. UNCHANGED replies
        BY <1>3 DEF end_wait, netVars
      <4>5. QED
        BY <2>3, <4>1, <4>3, <4>4 DEF NInv, PingInv, CountsOK
    <3>2. CASE ~Answered
      BY <1>3, <3>2 DEF end_wait, netVars, NInv, PingInv, CountsOK
    <3>3. QED
      BY <3>1, <3>2
  <2>a. ResultOK'
    <3>1. /\ result \in [sent : Nat, received : Nat] /\ result.received < result.sent
          /\ result.received \in Nat /\ result.sent \in Nat
      BY <1>3 DEF NInv, PingInv, ResultOK, end_wait
    <3>2. /\ result' \in [sent : Nat, received : Nat] /\ result'.sent = result.sent
          /\ result'.received \in {result.received, result.received + 1}
      BY <1>3, <3>1 DEF end_wait
    <3>3. QED
      BY <2>2, <3>1, <3>2 DEF ResultOK
  <2>5. PingInv'
    BY <1>3, <2>2, <2>4, <2>a DEF end_wait, netVars, NInv, PingInv, ReplyOK, UncountedReply
  <2>6. QED
    BY <1>3, <2>1, <2>5 DEF end_wait
<1>4. CASE end_delay
  <2>1. PingInv'
    BY <1>4, Idle DEF end_delay, netVars
  <2>2. QED
    BY <1>4, <2>1 DEF end_delay, netVars, NInv, NetTypeOK
<1>5. CASE network_process_packets
  <2>1. PingInv'
    BY <1>5, Idle DEF network_process_packets, start_poll, pingVars
  <2>2. QED
    BY <1>5, <2>1 DEF network_process_packets, start_poll, NInv, NetTypeOK
<1>6. QED
  BY <1>1, <1>2, <1>3, <1>4, <1>5

\* The timer, the other users of the stack, the lease and the hosts.
LEMMA OthersKeep ==
  ASSUME NInv, timer_tick \/ other_sends \/ lease_expires \/ hosts_send
  PROVE  NetTypeOK' /\ PingInv' /\ [ArpNext]_arpVars
<1>1. CASE timer_tick
  <2>1. PingInv'
    BY <1>1, Idle DEF timer_tick, netVars
  <2>2. ArpNext
    BY <1>1 DEF timer_tick, ArpNext
  <2>3. QED
    BY <1>1, <2>1, <2>2 DEF timer_tick, netVars, NInv, NetTypeOK
<1>2. CASE other_sends
  <2>1. PICK kind \in Traffic, ip \in Ips \cup {Broadcast} : transport_send(kind, ip)
    BY <1>2 DEF other_sends
  <2>2. kind \in IpKinds
    BY PingAssumption DEF IpKinds
  <2>3. ArpTypeOK /\ QueueOK
    BY DEF NInv, Inv, NetTypeOK, QueueOK, QueueType, SentType
  <2>4. ip_send_packet(network_find_route(ip), ip, kind)
    BY <2>1 DEF transport_send
  <2>5. QueueOK'
    BY <2>2, <2>3, <2>4, PacketSendType
  <2>6. PingInv'
    BY <1>2, <2>1, Idle DEF other_sends, transport_send, pingVars
  <2>7. NetTypeOK'
    BY <2>1, <2>5 DEF transport_send, NInv, NetTypeOK, QueueOK, QueueType, SentType
  <2>8. QED
    BY <2>1, <2>6, <2>7 DEF transport_send
<1>3. CASE lease_expires
  <2>1. PingInv'
    BY <1>3, Idle DEF lease_expires, dhcp_expire, pingVars
  <2>2. QED
    BY <1>3, <2>1 DEF lease_expires, dhcp_expire, NInv, NetTypeOK
<1>4. CASE hosts_send
  <2>1. PingInv'
    BY <1>4, Idle DEF hosts_send, arrive, pingVars
  <2>2. PICK f \in Arrivals : rx' = Append(rx, f)
    BY <1>4 DEF hosts_send, arrive
  <2>3. f \in Packets /\ rx \in Seq(Packets)
    BY NetworkAssumption DEF NInv, NetTypeOK
  <2>4. rx' \in Seq(Packets)
    BY <2>2, <2>3
  <2>5. QED
    BY <1>4, <2>1, <2>4 DEF hosts_send, arrive, NInv, NetTypeOK
<1>5. QED
  BY <1>1, <1>2, <1>3, <1>4

\* Every step keeps the invariant, and is to the table a step of Arp.
LEMMA NInvStep == NInv /\ [PingNext]_vars => NInv' /\ [ArpNext]_arpVars
<1> SUFFICES ASSUME NInv, [PingNext]_vars PROVE NInv' /\ [ArpNext]_arpVars
  OBVIOUS
<1>1. NetTypeOK' /\ PingInv' /\ [ArpNext]_arpVars
  <2>1. CASE UNCHANGED vars
    BY <2>1 DEF vars, netVars, pingVars, NInv, NetTypeOK, PingInv, ReplyOK,
                UncountedReply, CountsOK, ResultOK
  <2>2. CASE PingNext
    <3>1. CASE Polling
      BY <3>1, PollKeeps
    <3>2. CASE timer_tick \/ other_sends \/ lease_expires \/ hosts_send
      BY <3>2, OthersKeep
    <3>3. CASE \/ \E ip \in Ips : cmd_ping(ip)
               \/ icmp_send_echo_request \/ end_wait \/ end_delay
               \/ network_process_packets
      BY <3>3, PingKeeps
    <3>4. QED
      BY <2>2, <3>1, <3>2, <3>3 DEF PingNext, Kernel
  <2>3. QED
    BY <2>1, <2>2
<1>2. Inv'
  BY <1>1, InvStep DEF NInv
<1>3. QED
  BY <1>1, <1>2 DEF NInv

\* The invariant holds throughout.
LEMMA NInvariance == PingSpec => []NInv
  BY NInvInit, NInvStep, PTL DEF PingSpec

\* The stack changes its ARP table only as Arp says: whatever arrives on either
\* interface, is sent or expires, the table takes steps of arp.c.
THEOREM StackImplementsArp == PingSpec => ArpSpec
<1>1. PingInit => ArpInit
  BY DEF PingInit, NetInit
<1>2. QED
  BY <1>1, NInvStep, NInvariance, PTL DEF PingSpec, ArpSpec

\* In the whole stack, what arp_lookup finds for a host is one entry with the
\* last address the host told.
THEOREM StackTableSound == PingSpec => []TableSound
<1>1. NInv => TableSound
  BY DEF NInv, Inv, TableSound
<1>2. QED
  BY <1>1, NInvariance, PTL

\* In the whole stack, a host is forgotten only to make room in a full table.
THEOREM StackForgetsOnlyWhenFull == PingSpec => ForgetsOnlyWhenFull
  BY StackImplementsArp, ForgetsOnlyWhenFullCorrect, PTL

\* Ping counts no reply twice and none the pinged host did not send, and never
\* more replies than it has sent requests (icmp_ping and the reply note it shares
\* with icmp_process_packet).
THEOREM RepliesCountedOnceCorrect == PingSpec => []RepliesCountedOnce
<1>1. NInv => RepliesCountedOnce
  BY DEF NInv, PingInv, CountsOK, ResultOK, RepliesCountedOnce
<1>2. QED
  BY <1>1, NInvariance, PTL

----------------------------------------------------------------------------
(* The loopback as a link                                                  *)

\* The ring of a queue, oldest frame first: Waiting is the one of loopback_queue.
Ring(q) == [k \in 1 .. q.count |-> q.packets[(q.head + k - 1) % MAX_PACKET_QUEUE]]

\* The three indices of the queue agree.
Agree(q) == q \in QueueType /\ q.tail = (q.head + q.count) % MAX_PACKET_QUEUE

\* What loopback_send leaves when there is room.
Filled(q, f) ==
  [packets |-> [q.packets EXCEPT ![q.tail] = f], head |-> q.head,
   tail |-> Next_buffer(q.tail), count |-> q.count + 1]

\* What loopback_receive leaves.
Emptied(q) ==
  [packets |-> q.packets, head |-> Next_buffer(q.head), tail |-> q.tail, count |-> q.count - 1]

\* Every entry has an address a host has told.
MacsKnown == \A s \in Slots : arp_table[s].valid => arp_table[s].mac \in Macs

\* Between polls no frame is being processed.
PollDone == poll = "out" => frame = NoFrame

LinkInv == NInv /\ Agree(loopback_queue) /\ MacsKnown /\ PollDone

\* A ring index without the modulus: an index and an offset wrap at most once.
LEMMA Wrap ==
  ASSUME NEW a \in Buffers, NEW b \in 0 .. MAX_PACKET_QUEUE
  PROVE  /\ (a + b) % MAX_PACKET_QUEUE =
              IF a + b < MAX_PACKET_QUEUE THEN a + b ELSE a + b - MAX_PACKET_QUEUE
         /\ (a + b) % MAX_PACKET_QUEUE \in Buffers
<1>1. MAX_PACKET_QUEUE \in Nat \ {0} /\ a \in Nat /\ b \in Nat
  BY NetworkAssumption DEF Buffers
<1>2. CASE a + b < MAX_PACKET_QUEUE
  <2>1. a + b \in 0 .. MAX_PACKET_QUEUE - 1
    BY <1>1, <1>2
  <2>2. \A x \in 0 .. MAX_PACKET_QUEUE - 1 : x % MAX_PACKET_QUEUE = x
    BY <1>1
  <2>3. QED
    BY <1>2, <2>1, <2>2 DEF Buffers
<1>3. CASE ~(a + b < MAX_PACKET_QUEUE)
  <2>1. a + b \in MAX_PACKET_QUEUE .. 2 * MAX_PACKET_QUEUE - 1
    BY <1>1, <1>3 DEF Buffers
  <2>2. \A x \in MAX_PACKET_QUEUE .. 2 * MAX_PACKET_QUEUE - 1 :
          x % MAX_PACKET_QUEUE = x - MAX_PACKET_QUEUE
    <3> TAKE x \in MAX_PACKET_QUEUE .. 2 * MAX_PACKET_QUEUE - 1
    <3> QED BY <1>1
  <2>3. a + b - MAX_PACKET_QUEUE \in Buffers
    BY <1>1, <2>1 DEF Buffers
  <2> DEFINE x == a + b
  <2> HIDE DEF x
  <2>4. x % MAX_PACKET_QUEUE = x - MAX_PACKET_QUEUE
    BY <2>1, <2>2 DEF x
  <2>5. (a + b) % MAX_PACKET_QUEUE = a + b - MAX_PACKET_QUEUE
    BY <1>1, <2>4 DEF x
  <2>6. QED
    BY <1>3, <2>3, <2>5
<1>4. QED
  BY <1>2, <1>3

\* A frame written at the tail of a queue that is not full comes last.
LEMMA RingPut ==
  ASSUME NEW q, Agree(q), NEW f \in Packets, q.count < MAX_PACKET_QUEUE
  PROVE  /\ Agree(Filled(q, f))
         /\ Ring(Filled(q, f)) = Append(Ring(q), f)
         /\ Len(Ring(q)) < MAX_PACKET_QUEUE
<1> DEFINE n == q.count
           h == q.head
           r == Filled(q, f)
<1>0. /\ MAX_PACKET_QUEUE \in Nat \ {0} /\ n \in Nat /\ n < MAX_PACKET_QUEUE /\ h \in Buffers
      /\ q.packets \in [Buffers -> Packets \cup {NoFrame}]
      /\ q.tail \in Buffers /\ q.tail = (h + n) % MAX_PACKET_QUEUE
  BY NetworkAssumption DEF Agree, QueueType
<1>1. r.packets = [q.packets EXCEPT ![q.tail] = f] /\ r.head = h /\ r.count = n + 1
      /\ r.tail = Next_buffer(q.tail)
  BY DEF Filled
<1>2. r \in QueueType
  <2>1. Next_buffer(q.tail) \in Buffers
    BY <1>0 DEF Buffers, Next_buffer
  <2>2. n + 1 \in 0 .. MAX_PACKET_QUEUE
    BY <1>0
  <2>3. [q.packets EXCEPT ![q.tail] = f] \in [Buffers -> Packets \cup {NoFrame}]
    BY <1>0
  <2>4. QED
    BY <1>0, <2>1, <2>2, <2>3 DEF QueueType, Filled
<1> HIDE DEF n, h, r
<1>3. r.tail = (r.head + r.count) % MAX_PACKET_QUEUE
  <2>1. q.tail = IF h + n < MAX_PACKET_QUEUE THEN h + n ELSE h + n - MAX_PACKET_QUEUE
    BY <1>0, Wrap
  <2>2. (q.tail + 1) % MAX_PACKET_QUEUE =
          IF q.tail + 1 < MAX_PACKET_QUEUE THEN q.tail + 1 ELSE q.tail + 1 - MAX_PACKET_QUEUE
    BY <1>0, Wrap
  <2>3. n + 1 \in 0 .. MAX_PACKET_QUEUE
    BY <1>0
  <2> DEFINE e == n + 1
  <2> HIDE DEF e
  <2>4. (h + e) % MAX_PACKET_QUEUE =
          IF h + e < MAX_PACKET_QUEUE THEN h + e ELSE h + e - MAX_PACKET_QUEUE
    BY <1>0, <2>3, Wrap DEF e
  <2>5. h \in 0 .. MAX_PACKET_QUEUE - 1
    BY <1>0 DEF Buffers
  <2> DEFINE a == (q.tail + 1) % MAX_PACKET_QUEUE
             b == (h + e) % MAX_PACKET_QUEUE
  <2>6. a = IF q.tail + 1 < MAX_PACKET_QUEUE THEN q.tail + 1 ELSE q.tail + 1 - MAX_PACKET_QUEUE
    BY <2>2
  <2>7. b = IF h + e < MAX_PACKET_QUEUE THEN h + e ELSE h + e - MAX_PACKET_QUEUE
    BY <2>4
  <2> HIDE DEF a, b
  <2>8. a = b
    BY <1>0, <2>1, <2>5, <2>6, <2>7 DEF e
  <2>9. QED
    BY <1>1, <2>8 DEF a, b, e, Next_buffer
<1>4. Ring(q) = [k \in 1 .. n |-> q.packets[(h + k - 1) % MAX_PACKET_QUEUE]]
  BY DEF Ring, n, h
<1>5. Ring(r) = [k \in 1 .. n + 1 |-> r.packets[(h + k - 1) % MAX_PACKET_QUEUE]]
  BY <1>1 DEF Ring
<1>6. ASSUME NEW k \in 1 .. n + 1
      PROVE  Ring(r)[k] = IF k = n + 1 THEN f ELSE q.packets[(h + k - 1) % MAX_PACKET_QUEUE]
  <2> DEFINE x == (h + k - 1) % MAX_PACKET_QUEUE
             j == k - 1
  <2>1. j \in 0 .. MAX_PACKET_QUEUE /\ h + k - 1 = h + j /\ h \in Int
    BY <1>0 DEF Buffers
  <2> HIDE DEF j
  <2>2. (h + j) % MAX_PACKET_QUEUE =
          IF h + j < MAX_PACKET_QUEUE THEN h + j ELSE h + j - MAX_PACKET_QUEUE
    BY <1>0, <2>1, Wrap
  <2>3. x = (h + j) % MAX_PACKET_QUEUE /\ x \in Buffers
    BY <1>0, <2>1, Wrap
  <2>4. q.tail = IF h + n < MAX_PACKET_QUEUE THEN h + n ELSE h + n - MAX_PACKET_QUEUE
    BY <1>0, Wrap
  <2>5. h \in 0 .. MAX_PACKET_QUEUE - 1
    BY <1>0 DEF Buffers
  <2>6. x = IF h + j < MAX_PACKET_QUEUE THEN h + j ELSE h + j - MAX_PACKET_QUEUE
    BY <2>2, <2>3
  <2>7. Ring(r)[k] = r.packets[x]
    BY <1>5
  <2> HIDE DEF x
  <2>8. CASE k = n + 1
    <3>1. x = q.tail
      BY <1>0, <2>4, <2>5, <2>6, <2>8 DEF j
    <3>2. QED
      BY <1>0, <1>1, <2>7, <2>8, <3>1
  <2>9. CASE k # n + 1
    <3>1. x # q.tail
      BY <1>0, <2>4, <2>5, <2>6, <2>9 DEF j
    <3>2. r.packets[x] = q.packets[x]
      BY <1>0, <1>1, <2>3, <3>1
    <3>3. QED
      BY <2>7, <2>9, <3>2 DEF x
  <2>10. QED
    BY <2>8, <2>9
<1>7. Ring(r) = Append(Ring(q), f) /\ Len(Ring(q)) = n
  <2>1. Ring(q) \in Seq(Packets \cup {NoFrame})
    <3>1. ASSUME NEW k \in 1 .. n
          PROVE  q.packets[(h + k - 1) % MAX_PACKET_QUEUE] \in Packets \cup {NoFrame}
      <4>1. (h + k - 1) % MAX_PACKET_QUEUE \in Buffers
        BY <1>0 DEF Buffers
      <4>2. QED
        BY <1>0, <4>1
    <3>2. QED
      BY <1>0, <1>4, <3>1
  <2>2. Len(Ring(q)) = n
    BY <1>0, <1>4
  <2> DEFINE s == Ring(q)
             t == Ring(r)
  <2>3. \A k \in 1 .. n + 1 : t[k] = IF k = n + 1 THEN f ELSE s[k]
    BY <1>0, <1>4, <1>6
  <2>4. t \in Seq(Packets \cup {NoFrame}) /\ Len(t) = n + 1
    <3>1. \A k \in 1 .. n : s[k] \in Packets \cup {NoFrame}
      BY <2>1, <2>2
    <3>2. \A k \in 1 .. n + 1 : t[k] \in Packets \cup {NoFrame}
      BY <1>0, <2>3, <3>1
    <3>3. t = [k \in 1 .. n + 1 |-> t[k]]
      BY <1>5
    <3> HIDE DEF t
    <3>4. QED
      BY <1>0, <3>2, <3>3
  <2> HIDE DEF s, t
  <2>5. t = Append(s, f)
    BY <1>0, <2>1, <2>2, <2>3, <2>4 DEF s
  <2>6. QED
    BY <2>2, <2>5 DEF s, t
<1>8. QED
  BY <1>0, <1>2, <1>3, <1>7 DEF r, Agree

\* The frame taken at the head is the first one.
LEMMA RingGet ==
  ASSUME NEW q, Agree(q), q.count > 0
  PROVE  /\ Agree(Emptied(q))
         /\ Ring(Emptied(q)) = Tail(Ring(q))
         /\ Ring(q) # << >> /\ Head(Ring(q)) = q.packets[q.head]
<1> DEFINE n == q.count
           h == q.head
           r == Emptied(q)
           g == Next_buffer(h)
<1>0. /\ MAX_PACKET_QUEUE \in Nat \ {0} /\ n \in Nat /\ n > 0 /\ n <= MAX_PACKET_QUEUE
      /\ h \in Buffers /\ q.packets \in [Buffers -> Packets \cup {NoFrame}]
      /\ q.tail \in Buffers /\ q.tail = (h + n) % MAX_PACKET_QUEUE
  BY NetworkAssumption DEF Agree, QueueType
<1>1. r.packets = q.packets /\ r.head = g /\ r.count = n - 1 /\ r.tail = q.tail
  BY DEF Emptied
<1>2. g \in Buffers /\ g = IF h + 1 < MAX_PACKET_QUEUE THEN h + 1 ELSE h + 1 - MAX_PACKET_QUEUE
  BY <1>0, Wrap DEF Next_buffer
<1>3. r \in QueueType
  <2>1. n - 1 \in 0 .. MAX_PACKET_QUEUE
    BY <1>0
  <2>2. QED
    BY <1>0, <1>2, <2>1 DEF QueueType, Emptied
<1> HIDE DEF n, h, r, g
<1>4. h \in 0 .. MAX_PACKET_QUEUE - 1 /\ g \in 0 .. MAX_PACKET_QUEUE - 1
  BY <1>0, <1>2 DEF Buffers
\* the slot after k from the new head is the slot after k + 1 from the old one
<1>5. ASSUME NEW k \in 0 .. n - 1
      PROVE  (g + k) % MAX_PACKET_QUEUE = (h + (k + 1)) % MAX_PACKET_QUEUE
  <2> DEFINE e == k + 1
             a == (g + k) % MAX_PACKET_QUEUE
             b == (h + e) % MAX_PACKET_QUEUE
  <2>1. e \in 0 .. MAX_PACKET_QUEUE /\ k \in 0 .. MAX_PACKET_QUEUE
    BY <1>0
  <2> HIDE DEF e
  <2>2. a = IF g + k < MAX_PACKET_QUEUE THEN g + k ELSE g + k - MAX_PACKET_QUEUE
    BY <1>2, <2>1, Wrap
  <2>3. b = IF h + e < MAX_PACKET_QUEUE THEN h + e ELSE h + e - MAX_PACKET_QUEUE
    BY <1>0, <2>1, Wrap
  <2> HIDE DEF a, b
  <2>4. a = b
    BY <1>0, <1>2, <1>4, <2>2, <2>3 DEF e
  <2>5. QED
    BY <2>4 DEF a, b, e
<1>6. r.tail = (r.head + r.count) % MAX_PACKET_QUEUE
  <2>1. n - 1 \in 0 .. n - 1 /\ (n - 1) + 1 = n
    BY <1>0
  <2>2. (g + (n - 1)) % MAX_PACKET_QUEUE = (h + ((n - 1) + 1)) % MAX_PACKET_QUEUE
    BY <1>5, <2>1
  <2>3. QED
    BY <1>0, <1>1, <2>1, <2>2
<1> DEFINE s == Ring(q)
           t == Ring(r)
<1>7. s = [k \in 1 .. n |-> q.packets[(h + k - 1) % MAX_PACKET_QUEUE]]
  BY DEF Ring, n, h
<1>8. t = [k \in 1 .. n - 1 |-> q.packets[(g + k - 1) % MAX_PACKET_QUEUE]]
  BY <1>1 DEF Ring
<1> HIDE DEF s, t
<1>9. s \in Seq(Packets \cup {NoFrame}) /\ Len(s) = n
  <2>1. ASSUME NEW k \in 1 .. n
        PROVE  q.packets[(h + k - 1) % MAX_PACKET_QUEUE] \in Packets \cup {NoFrame}
    <3>1. (h + k - 1) % MAX_PACKET_QUEUE \in Buffers
      BY <1>0 DEF Buffers
    <3>2. QED
      BY <1>0, <3>1
  <2>2. QED
    BY <1>0, <1>7, <2>1
<1>10. \A k \in 1 .. n - 1 : t[k] = s[k + 1]
  <2> TAKE k \in 1 .. n - 1
  <2> DEFINE j == k - 1
  <2>1. j \in 0 .. n - 1 /\ g + k - 1 = g + j /\ h + (k + 1) - 1 = h + (j + 1)
    BY <1>0, <1>4
  <2> HIDE DEF j
  <2>2. (g + j) % MAX_PACKET_QUEUE = (h + (j + 1)) % MAX_PACKET_QUEUE
    BY <1>5, <2>1
  <2>3. k + 1 \in 1 .. n
    BY <1>0
  <2>4. QED
    BY <1>7, <1>8, <2>1, <2>2, <2>3
<1>11. t \in Seq(Packets \cup {NoFrame}) /\ Len(t) = n - 1
  <2>1. \A k \in 1 .. n : s[k] \in Packets \cup {NoFrame}
    BY <1>9
  <2>2. \A k \in 1 .. n - 1 : t[k] \in Packets \cup {NoFrame}
    BY <1>0, <1>10, <2>1
  <2>3. t = [k \in 1 .. n - 1 |-> t[k]] /\ n - 1 \in Nat
    BY <1>0, <1>8
  <2>4. QED
    BY <2>2, <2>3
<1>12. t = Tail(s) /\ s # << >> /\ Head(s) = s[1]
  BY <1>0, <1>9, <1>10, <1>11
<1>13. s[1] = q.packets[q.head]
  <2>1. h + 1 - 1 = h + 0 /\ (h + 0) % MAX_PACKET_QUEUE = h
    BY <1>0, <1>4, Wrap
  <2>2. 1 \in 1 .. n
    BY <1>0
  <2>3. QED
    BY <1>7, <2>1, <2>2 DEF h
<1>14. QED
  BY <1>3, <1>6, <1>12, <1>13 DEF r, s, t, Agree

\* What sending does to the link: nothing, or one frame at the end, which is lost
\* if the queue is full.
Sends == Agree(loopback_queue)' /\ (Loopback!Send \/ UNCHANGED << sent, Waiting >>)

\* Waiting is the ring of the queue.
LEMMA WaitingIsRing == Waiting = Ring(loopback_queue) /\ Waiting' = Ring(loopback_queue')
BY DEF Waiting, Ring

\* A step that leaves the queue alone.
LEMMA QueueAlone ==
  ASSUME Agree(loopback_queue), UNCHANGED << loopback_queue, sent >>
  PROVE  Sends /\ UNCHANGED << sent, Waiting >>
<1>1. Agree(loopback_queue)' /\ UNCHANGED Waiting
  BY DEF Agree, Waiting
<1>2. QED
  BY <1>1 DEF Sends

\* loopback_send appends the frame or drops it because the queue is full.
LEMMA LoopbackSends ==
  ASSUME Agree(loopback_queue), NEW f \in Frames, loopback_send(f)
  PROVE  Sends
<1>0. sent'.frame = f /\ sent'.turn = 1 - sent.turn
  BY DEF loopback_send, Sent
<1>1. CASE loopback_queue.count >= MAX_PACKET_QUEUE
  <2>1. UNCHANGED loopback_queue
    BY <1>1 DEF loopback_send
  <2>2. Agree(loopback_queue)' /\ UNCHANGED Waiting
    BY <2>1 DEF Agree, Waiting
  <2>3. loopback_queue.count = MAX_PACKET_QUEUE /\ MAX_PACKET_QUEUE \in Nat
    BY <1>1, NetworkAssumption DEF Agree, QueueType
  <2>4. Len(Waiting) = MAX_PACKET_QUEUE
    BY <2>3 DEF Waiting
  <2>5. Loopback!Send
    BY <1>0, <2>2, <2>4 DEF Loopback!Send, Loopback!Lose
  <2>6. QED
    BY <2>2, <2>5 DEF Sends
<1>2. CASE ~(loopback_queue.count >= MAX_PACKET_QUEUE)
  <2>1. loopback_queue.count < MAX_PACKET_QUEUE
    BY <1>2, NetworkAssumption DEF Agree, QueueType
  <2>2. loopback_queue' = Filled(loopback_queue, f)
    BY <1>2 DEF loopback_send, Agree, QueueType, Filled
  <2>3. f \in Packets
    BY NetworkAssumption DEF Frames, Packets
  <2>4. /\ Agree(loopback_queue') /\ Ring(loopback_queue') = Append(Ring(loopback_queue), f)
        /\ Len(Ring(loopback_queue)) < MAX_PACKET_QUEUE
    BY <2>1, <2>2, <2>3, RingPut
  <2>5. Loopback!Send
    BY <1>0, <2>4, WaitingIsRing DEF Loopback!Send, Loopback!Put
  <2>6. QED
    BY <2>4, <2>5 DEF Sends, Agree
<1>3. QED
  BY <1>1, <1>2

\* ethernet_send_frame, on either interface.
LEMMA FrameSends ==
  ASSUME Agree(loopback_queue), NEW iface, NEW to \in Macs \cup {Broadcast},
         NEW kind \in ArpKinds \cup IpKinds, NEW dst \in Ips \cup {Broadcast},
         ethernet_send_frame(iface, to, kind, dst)
  PROVE  Sends
<1> DEFINE f == [kind |-> kind, to |-> to, mac |-> LO_MAC, src |-> LO, dst |-> dst]
<1>1. f \in Frames
  BY DEF Frames
<1>2. loopback_send(f) \/ UNCHANGED << loopback_queue, sent >>
  BY DEF ethernet_send_frame, NothingSent
<1>3. QED
  BY <1>1, <1>2, LoopbackSends, QueueAlone

\* ip_send_packet: the packet, or the request for its address.
LEMMA PacketSends ==
  ASSUME ArpTypeOK, MacsKnown, Agree(loopback_queue), NEW iface,
         NEW ip \in Ips \cup {Broadcast}, NEW kind \in IpKinds, ip_send_packet(iface, ip, kind)
  PROVE  Sends
<1>0. CASE ip = Broadcast
  BY <1>0, FrameSends DEF ip_send_packet
<1>1. CASE ip # Broadcast /\ arp_lookup(ip)
  <2> DEFINE s == CHOOSE s \in Slots : Lowest(s, Holding(ip))
  <2>1. s \in Slots /\ Lowest(s, Holding(ip))
    BY <1>1, FirstEntry
  <2> HIDE DEF s
  <2>2. arp_table[s].mac \in Macs
    BY <2>1 DEF MacsKnown, Lowest, Holding
  <2>3. MacOf(ip) \in Macs
    BY <2>2 DEF MacOf, s
  <2>4. ethernet_send_frame(iface, MacOf(ip), kind, ip)
    BY <1>1 DEF ip_send_packet
  <2>5. QED
    BY <2>3, <2>4, FrameSends
<1>2. CASE ip # Broadcast /\ ~arp_lookup(ip)
  <2>1. ethernet_send_frame(iface, Broadcast, "arp_request", ip)
    BY <1>2 DEF ip_send_packet, arp_send_request
  <2>2. "arp_request" \in ArpKinds \cup IpKinds
    BY DEF ArpKinds
  <2>3. QED
    BY <2>1, <2>2, FrameSends
<1>3. QED
  BY <1>0, <1>1, <1>2

\* The table is filled only with addresses that hosts tell.
LEMMA MacsStayKnown ==
  ASSUME Inv, MacsKnown, [ArpNext]_arpVars
  PROVE  MacsKnown'
<1>1. ASSUME NEW ip \in Ips, NEW mac \in Macs, refresh(ip, mac)
      PROVE  MacsKnown'
  <2>1. PICK k \in Slots :
           /\ arp_table'[k].mac = mac
           /\ \A n \in Slots \ {k} : arp_table'[n] = arp_table[n]
    BY <1>1, RefreshStep
  <2>2. QED
    BY <2>1 DEF MacsKnown
<1>2. ASSUME NEW ip \in Ips, NEW mac \in Macs, add(ip, mac)
      PROVE  MacsKnown'
  <2>1. PICK k \in Slots : arp_table' = [arp_table EXCEPT ![k] = NewEntry(ip, mac)]
    BY <1>2 DEF add
  <2>2. arp_table \in [Slots -> EntryType]
    BY DEF Inv, ArpTypeOK, EntryType
  <2>3. /\ arp_table'[k].mac = mac
        /\ \A n \in Slots \ {k} : arp_table'[n] = arp_table[n]
    BY <2>1, <2>2 DEF NewEntry
  <2>4. QED
    BY <2>3 DEF MacsKnown
<1>3. CASE UNCHANGED arp_table
  BY <1>3 DEF MacsKnown
<1>4. QED
  BY <1>1, <1>2, <1>3 DEF ArpNext, arp_process_packet, not_added, arpVars

\* What a handler sends while it processes a frame.
LEMMA HandlerSends ==
  ASSUME LinkInv, NEW iface, NEW f \in Packets,
         process_arp(iface, f) \/ ip_process_packet(iface, f)
  PROVE  Sends
<1>1. f.src \in Ips /\ f.mac \in Macs
  BY DEF Packets
<1>2. ArpTypeOK /\ MacsKnown /\ Agree(loopback_queue)
  BY DEF LinkInv, NInv, Inv
<1>3. "arp_reply" \in ArpKinds \cup IpKinds /\ {"echo_reply", "tcp", "unreachable"} \subseteq IpKinds
  BY DEF ArpKinds, IpKinds, IcmpKinds
<1>4. CASE process_arp(iface, f)
  <2>1. \/ ethernet_send_frame(iface, f.mac, "arp_reply", f.src)
        \/ UNCHANGED << loopback_queue, sent >>
    BY <1>4 DEF process_arp, arp_answer, NothingSent
  <2>2. QED
    BY <1>1, <1>2, <1>3, <2>1, FrameSends, QueueAlone
<1>5. CASE ip_process_packet(iface, f)
  <2>1. \/ \E kind \in {"echo_reply", "tcp", "unreachable"} : ip_send_packet(iface, f.src, kind)
        \/ UNCHANGED << loopback_queue, sent >>
    BY <1>5 DEF ip_process_packet, icmp_process_packet, udp_process_packet,
                tcp_process_packet, icmp_send_dest_unreachable, NothingSent
  <2>2. QED
    BY <1>1, <1>2, <1>3, <2>1, PacketSends, QueueAlone
<1>6. QED
  BY <1>4, <1>5

LinkStep == Agree(loopback_queue)' /\ [Loopback!LinkNext]_<< sent, Waiting, LoFrame >>

\* The steps of network_process_packets.
LEMMA PollLinks ==
  ASSUME LinkInv, PollStep
  PROVE  LinkStep
<1>1. Agree(loopback_queue) /\ frame \in Packets \cup {NoFrame}
  BY DEF LinkInv, NInv, NetTypeOK
<1>2. CASE ethernet_receive_frame /\ loopback_receive
  <2>1. loopback_queue' = Emptied(loopback_queue)
    BY <1>1, <1>2 DEF loopback_receive, Emptied, Agree, QueueType
  <2>2. loopback_queue.count > 0
    BY <1>2 DEF loopback_receive
  <2>3. /\ Agree(loopback_queue') /\ Ring(loopback_queue') = Tail(Ring(loopback_queue))
        /\ Ring(loopback_queue) # << >>
        /\ Head(Ring(loopback_queue)) = loopback_queue.packets[loopback_queue.head]
    BY <1>1, <2>1, <2>2, RingGet
  <2>4. LoFrame = NoFrame /\ LoFrame' = loopback_queue.packets[loopback_queue.head]
    BY <1>2 DEF LoFrame, ethernet_receive_frame, loopback_receive
  <2>5. Loopback!Receive
    BY <1>2, <2>3, <2>4, WaitingIsRing DEF Loopback!Receive, loopback_receive
  <2>6. QED
    BY <2>3, <2>5 DEF LinkStep, Loopback!LinkNext, Agree
<1>3. CASE ethernet_receive_frame /\ ethernet_receive
  <2>1. UNCHANGED LoFrame
    BY <1>3 DEF LoFrame, ethernet_receive_frame, ethernet_receive
  <2>2. Sends /\ UNCHANGED << sent, Waiting >>
    BY <1>1, <1>3, QueueAlone DEF ethernet_receive, NothingSent
  <2>3. QED
    BY <2>1, <2>2 DEF LinkStep, Sends
<1>4. CASE ethernet_process_frame
  <2>1. frame \in Packets /\ frame # NoFrame
    BY <1>1, <1>4 DEF ethernet_process_frame
  <2>2. Sends
    <3>1. \/ process_arp(poll, frame) \/ ip_process_packet(poll, frame)
          \/ UNCHANGED << loopback_queue, sent >>
      BY <1>4 DEF ethernet_process_frame
    <3>2. QED
      BY <1>1, <2>1, <3>1, HandlerSends, QueueAlone
  <2>3. CASE poll = "lo"
    <3>1. LoFrame # NoFrame /\ LoFrame' = NoFrame
      BY <1>4, <2>3 DEF LoFrame, ethernet_process_frame
    <3>2. Loopback!Done
      BY <2>2, <3>1 DEF Loopback!Done, Sends
    <3>3. QED
      BY <2>2, <3>2 DEF LinkStep, Sends, Loopback!LinkNext
  <2>4. CASE poll # "lo"
    <3>1. UNCHANGED LoFrame
      BY <1>4, <2>4 DEF LoFrame, ethernet_process_frame
    <3>2. QED
      BY <2>2, <3>1 DEF LinkStep, Sends, Loopback!LinkNext
  <2>5. QED
    BY <2>3, <2>4
<1>5. CASE next_interface
  <2>1. UNCHANGED LoFrame
    BY <1>5 DEF LoFrame, next_interface
  <2>2. Sends /\ UNCHANGED << sent, Waiting >>
    BY <1>1, <1>5, QueueAlone DEF next_interface
  <2>3. QED
    BY <2>1, <2>2 DEF LinkStep, Sends
<1>6. QED
  BY <1>2, <1>3, <1>4, <1>5 DEF PollStep, ethernet_receive_frame

\* A step of the stack with its callers and the hosts.
LEMMA LinkSteps ==
  ASSUME LinkInv, [PingNext]_vars
  PROVE  LinkInv' /\ LinkStep
<1>1. NInv' /\ [ArpNext]_arpVars
  BY NInvStep DEF LinkInv
<1>2. MacsKnown'
  BY <1>1, MacsStayKnown DEF LinkInv, NInv
<1>3. LinkStep
  <2>0. Agree(loopback_queue) /\ ArpTypeOK /\ MacsKnown
        /\ (frame = NoFrame \/ frame \in Packets)
    BY DEF LinkInv, NInv, Inv, NetTypeOK
  <2>1. CASE Polling
    BY <2>1, PollLinks DEF Polling
  <2>2. CASE network_process_packets
    <3>1. UNCHANGED << loopback_queue, sent, frame >> /\ poll = "out" /\ poll' = "lo"
      BY <2>2 DEF network_process_packets, start_poll
    <3>2. UNCHANGED LoFrame
      BY <3>1 DEF LoFrame, LinkInv, PollDone
    <3>3. QED
      BY <2>0, <3>1, <3>2, QueueAlone DEF LinkStep, Sends
  <2>3. CASE other_sends
    <3>1. PICK kind \in Traffic, ip \in Ips \cup {Broadcast} : transport_send(kind, ip)
      BY <2>3 DEF other_sends
    <3>2. kind \in IpKinds
      BY PingAssumption DEF IpKinds
    <3>3. Sends
      BY <2>0, <3>1, <3>2, PacketSends DEF transport_send
    <3>4. UNCHANGED LoFrame
      BY <3>1 DEF transport_send, LoFrame
    <3>5. QED
      BY <3>3, <3>4 DEF LinkStep, Sends, Loopback!LinkNext
  <2>4. CASE UNCHANGED << loopback_queue, sent, frame, poll >>
    <3>1. UNCHANGED LoFrame
      BY <2>4 DEF LoFrame
    <3>2. Sends /\ UNCHANGED << sent, Waiting >>
      BY <2>0, <2>4, QueueAlone
    <3>3. QED
      BY <3>1, <3>2 DEF LinkStep, Sends
  <2>5. icmp_send_echo_request => UNCHANGED << loopback_queue, sent, frame, poll >>
    BY DEF icmp_send_echo_request, ip_send_packet, arp_send_request, ethernet_send_frame,
           NothingSent
  <2>6. QED
    BY <2>1, <2>2, <2>3, <2>4, <2>5
    DEF PingNext, Kernel, vars, netVars, cmd_ping, end_wait, end_delay, timer_tick,
        lease_expires, dhcp_expire, hosts_send, arrive
<1>4. PollDone'
  <2>1. PollDone
    BY DEF LinkInv
  <2>2. CASE Polling
    BY <2>1, <2>2 DEF PollDone, Polling, PollStep, ethernet_receive_frame, loopback_receive,
                      ethernet_receive, ethernet_process_frame, next_interface
  <2>3. CASE UNCHANGED << frame, poll >> \/ poll' = "lo"
    BY <2>1, <2>3 DEF PollDone
  <2>4. QED
    BY <2>2, <2>3
    DEF PingNext, Kernel, vars, netVars, cmd_ping, end_wait, end_delay, timer_tick,
        lease_expires, dhcp_expire, hosts_send, arrive, icmp_send_echo_request,
        network_process_packets, start_poll, other_sends, transport_send
<1>5. QED
  BY <1>1, <1>2, <1>3, <1>4 DEF LinkInv, LinkStep

\* ImplementsLink: whatever the protocols send while they process a frame, the
\* loopback delivers frames in the order they were sent, each once, and loses one
\* only when the queue is full (loopback_send, loopback_receive).
THEOREM ImplementsLinkCorrect == PingSpec => ImplementsLink
<1>1. PingInit => LinkInv /\ Loopback!LinkInit
  <2> SUFFICES ASSUME PingInit PROVE LinkInv /\ Loopback!LinkInit
    OBVIOUS
  <2>1. NInv
    BY NInvInit
  <2>2. /\ loopback_queue.head = 0 /\ loopback_queue.tail = 0 /\ loopback_queue.count = 0
        /\ loopback_queue \in QueueType
    BY <2>1 DEF PingInit, NetInit, NInv, NetTypeOK, QueueType
  <2>3. Agree(loopback_queue)
    BY <2>2, NetworkAssumption DEF Agree
  <2>4. MacsKnown
    BY DEF PingInit, NetInit, ArpInit, EmptyEntry, MacsKnown
  <2>5. PollDone
    BY DEF PingInit, NetInit, PollDone
  <2>6. Waiting = << >> /\ LoFrame = NoFrame
    BY <2>2 DEF Waiting, LoFrame, PingInit, NetInit
  <2>7. QED
    BY <2>1, <2>3, <2>4, <2>5, <2>6 DEF LinkInv, Loopback!LinkInit, PingInit, NetInit
<1>2. LinkInv /\ [PingNext]_vars => LinkInv' /\ [Loopback!LinkNext]_<< sent, Waiting, LoFrame >>
  BY LinkSteps DEF LinkStep
<1>3. QED
  BY <1>1, <1>2, PTL DEF PingSpec, ImplementsLink, Loopback!LinkSpec
=============================================================================
