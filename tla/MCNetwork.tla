----------------------------- MODULE MCNetwork -----------------------------
(* Ping with one neighbour on the subnet and one behind the gateway.       *)
EXTENDS Ping

CONSTANTS h1, h2, m0, m1, m2

\* A frame for us, for our address.
Direct(kind, ip, mac) ==
    [kind |-> kind, to |-> ETH_MAC, mac |-> mac, src |-> ip, dst |-> ME]

\* One frame for each way through the filters and the protocols.
MCArrivals ==
    {Direct("arp_request", h1, m1), Direct("arp_reply", h1, m2),
     [Direct("arp_request", h2, m2) EXCEPT !.to = Broadcast, !.dst = h1],
     [Direct("echo_request", h1, m1) EXCEPT !.to = Broadcast, !.dst = SubnetBroadcast],
     Direct("echo_reply", h1, m1), Direct("echo_reply", h2, m1),
     [Direct("echo_reply", h1, m1) EXCEPT !.dst = h2],
     [Direct("udp", h1, m1) EXCEPT !.to = Broadcast, !.dst = Broadcast],
     Direct("icmp_data", h1, m1), Direct("other", h1, m1)}
=============================================================================
