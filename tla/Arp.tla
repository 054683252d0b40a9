-------------------------------- MODULE Arp --------------------------------
(***************************************************************************)
(* The address resolution table of network/arp.c: what the machine knows of*)
(* the hardware addresses of its neighbours.  Every ARP packet that is     *)
(* received, request or reply, asked for or not, updates the table with its*)
(* sender (arp_process_packet); when the table is full the entry with the  *)
(* smallest time stamp gives way.  Time stamps are the low 32 bits of the  *)
(* timer's tick counter.                                                   *)
(***************************************************************************)
EXTENDS Integers

CONSTANTS
    ARP_TABLE_SIZE,   \* arp.h: 128
    Ips,              \* addresses of the neighbours
    Macs,             \* hardware addresses
    NoMac,            \* an entry that was never filled
    TIME_MODULUS      \* time stamps are uint32_t: 2^32

ASSUME ArpAssumption ==
    /\ ARP_TABLE_SIZE \in Nat
    /\ NoMac \notin Macs
    /\ TIME_MODULUS \in Nat \ {0}

VARIABLES
    arp_table,
    ticks,            \* arp_get_time()
    told              \* history: the last hardware address each host told

arpVars == << arp_table, ticks, told >>

Slots == 0 .. ARP_TABLE_SIZE - 1
Times == 0 .. TIME_MODULUS - 1
NoIp == "none"

EmptyEntry == [valid |-> FALSE, ip |-> NoIp, mac |-> NoMac, timestamp |-> 0]

\* The slots that hold an address: arp_lookup and arp_update_entry take the
\* first of them.
Holding(ip) == {i \in Slots : arp_table[i].valid /\ arp_table[i].ip = ip}

arp_lookup(ip) == Holding(ip) # {}

Lowest(i, S) == i \in S /\ \A j \in S : i <= j

Free == {i \in Slots : ~arp_table[i].valid}

\* The loop of arp_add_entry keeps the first entry with the smallest time
\* stamp below the current time.
Oldest(i) ==
    /\ arp_table[i].timestamp < ticks
    /\ \A j \in Slots :
         \/ arp_table[i].timestamp < arp_table[j].timestamp
         \/ arp_table[i].timestamp = arp_table[j].timestamp /\ i <= j

\* Fault: the loop does not stop at an empty slot.
Slot_no_break(i) ==
    \/ Oldest(i)
    \/ Lowest(i, Free) /\ ~ \E j \in Slots : Oldest(j)

\* The slot arp_add_entry fills: the first empty one, else the oldest.
Slot(i) ==
    \/ Lowest(i, Free)
    \/ Free = {} /\ Oldest(i)

\* Fault: the hardware address of a known host is not brought up to date.
refresh_keeps_mac(ip, mac) ==
    /\ arp_lookup(ip)
    /\ \E i \in Slots :
         /\ Lowest(i, Holding(ip))
         /\ arp_table' = [arp_table EXCEPT ![i].timestamp = ticks]

\* arp_update_entry, the host is known.
refresh(ip, mac) ==
    /\ arp_lookup(ip)
    /\ \E i \in Slots :
         /\ Lowest(i, Holding(ip))
         /\ arp_table' = [arp_table EXCEPT ![i].mac = mac, ![i].timestamp = ticks]

NewEntry(ip, mac) == [valid |-> TRUE, ip |-> ip, mac |-> mac, timestamp |-> ticks]

\* arp_update_entry, the host is new: arp_add_entry.
add(ip, mac) ==
    /\ ~arp_lookup(ip)
    /\ \E i \in Slots :
         /\ Slot(i)
         /\ arp_table' = [arp_table EXCEPT ![i] = NewEntry(ip, mac)]

\* arp_add_entry returns NET_ERROR, which arp_update_entry ignores.
not_added(ip) ==
    /\ ~arp_lookup(ip)
    /\ ~ \E i \in Slots : Slot(i)
    /\ arp_table' = arp_table

\* What arp_process_packet does to the table; the reply it sends to a request
\* for our address changes nothing here.
arp_process_packet(ip, mac) ==
    /\ refresh(ip, mac) \/ add(ip, mac) \/ not_added(ip)
    /\ told' = [told EXCEPT ![ip] = mac]

tick == ticks' = (ticks + 1) % TIME_MODULUS

ArpInit ==
    /\ arp_table = [i \in Slots |-> EmptyEntry]
    /\ ticks = 0
    /\ told = [ip \in Ips |-> NoMac]

ArpNext ==
    \/ \E ip \in Ips, mac \in Macs : arp_process_packet(ip, mac) /\ UNCHANGED ticks
    \/ tick /\ UNCHANGED << arp_table, told >>

ArpSpec == ArpInit /\ [][ArpNext]_arpVars

----------------------------------------------------------------------------
(* Properties                                                              *)

\* The table holds entries, and valid ones name a neighbour.
ArpTypeOK ==
    /\ arp_table \in [Slots -> [valid : BOOLEAN, ip : Ips \cup {NoIp},
                                mac : Macs \cup {NoMac}, timestamp : Times]]
    /\ ticks \in Times
    /\ told \in [Ips -> Macs \cup {NoMac}]
    /\ \A i \in Slots : arp_table[i].valid => arp_table[i].ip \in Ips

\* No host has two entries, through any sequence of updates and evictions
\* (arp_update_entry): a later update would only change the first of them.
OneEntryPerHost ==
    \A i, j \in Slots :
        arp_table[i].valid /\ arp_table[j].valid /\ arp_table[i].ip = arp_table[j].ip
        => i = j

\* What arp_lookup finds for a host is the address the host told last: an
\* update is never lost while the host has an entry, and an entry that was
\* evicted and learnt again carries no old address.
LatestMac ==
    \A i \in Slots : arp_table[i].valid => arp_table[i].mac = told[arp_table[i].ip]

\* What arp_lookup finds is the one, latest address of a host.
TableSound == OneEntryPerHost /\ LatestMac

\* A host is forgotten only to make room in a full table, and only one at a
\* time (arp_add_entry prefers an empty slot wherever it is).
ForgetsOnlyWhenFull ==
    [][\A k \in Slots :
         arp_table[k].valid /\ (~arp_table'[k].valid \/ arp_table'[k].ip # arp_table[k].ip)
         => /\ Free = {}
            /\ \A n \in Slots \ {k} : arp_table'[n] = arp_table[n]]_arpVars

\* arp.c:116 "Find empty slot or oldest entry": once its packet has been
\* processed, the sender has an entry.
SenderIsKnown ==
    [][\A ip \in Ips, mac \in Macs :
         arp_process_packet(ip, mac)
         => \E i \in Slots : arp_table'[i].valid /\ arp_table'[i].ip = ip]_arpVars
=============================================================================
