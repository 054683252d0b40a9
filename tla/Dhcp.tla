-------------------------------- MODULE Dhcp --------------------------------
(***************************************************************************)
(* The DHCP client of src/network/dhcp.c, one client for one interface.    *)
(* The shell's loop polls the network and calls dhcp_client_update, so     *)
(* the client's steps do not interleave with one another; its environment  *)
(* is a network that may lose, delay, duplicate and reorder messages, and  *)
(* servers that may answer a message any number of times.                  *)
(*                                                                         *)
(* A message is kept for ever in net: receiving it never removes it (a     *)
(* duplicate may follow) and it may never be received (a loss).            *)
(***************************************************************************)
EXTENDS Integers, FiniteSets

CONSTANTS
    Servers,        \* the DHCP servers, by their server identifier
    Addresses,      \* the addresses they hand out
    NoAddress,      \* 0.0.0.0, as an address or a server
    Offers,         \* the server identifier and the address of the OFFERs sent, NoAddress
                    \* where an ill-formed one has none
    Leases,         \* the lease times they grant, in seconds
    RenewalTimes,   \* the values of the optional renewal time (option 58)
    RebindingTimes, \* the values of the optional rebinding time (option 59)
    SendMayFail,    \* can udp_send_packet return an error?
    ReleaseCalled,  \* is dhcp_client_release called?
    MaxTime,        \* bound: seconds counted since the start of a lease
    MaxXid,         \* bound: transaction identifiers generated
    MaxReplies      \* bound: answers to the DISCOVER or the REQUESTs of a transaction

ASSUME DhcpAssumption ==
    /\ NoAddress \notin Addresses /\ NoAddress \notin Servers
    /\ Offers \subseteq (Servers \cup {NoAddress}) \X (Addresses \cup {NoAddress})
    /\ Leases \subseteq Nat \ {0}
    /\ RenewalTimes \subseteq Nat \ {0} /\ RebindingTimes \subseteq Nat \ {0}
    /\ SendMayFail \in BOOLEAN /\ ReleaseCalled \in BOOLEAN
    /\ MaxTime \in Nat /\ MaxXid \in Nat /\ MaxReplies \in Nat

VARIABLES
    client,      \* the dhcp_client_t of the interface
    ip_address,  \* iface->ip_address
    elapsed,     \* dhcp_get_time() - lease_start_time, while active
    net,         \* every message sent so far
    send_failed  \* history: did the client's last call of udp_send_packet fail?
vars == <<client, ip_address, elapsed, net, send_failed>>

States == {"INIT", "SELECTING", "REQUESTING", "BOUND", "RENEWING", "REBINDING"}

Client == [state : States, transaction_id : Nat, server_ip : Servers \cup {NoAddress},
           offered_ip : Addresses \cup {NoAddress}, lease_time : Nat,
           renewal_time : Nat, rebinding_time : Nat, active : BOOLEAN]

(***************************************************************************)
(* An option a server leaves out of a reply has the value Absent; a left   *)
(* out server identifier is NoAddress.                                     *)
(***************************************************************************)
Absent == 0

Discovers == [type : {"DISCOVER"}, xid : Nat]
Requests == [type : {"REQUEST"}, xid : Nat, ip : Addresses, server : Servers \cup {NoAddress}]
Releases == [type : {"RELEASE"}, xid : Nat, ip : Addresses \cup {NoAddress},
             server : Servers \cup {NoAddress}]
Replies == [type : {"OFFER", "ACK", "NAK"}, xid : Nat, ip : Addresses \cup {NoAddress},
            server : Servers \cup {NoAddress}, lease : Leases \cup {Absent},
            renewal : RenewalTimes \cup {Absent}, rebinding : RebindingTimes \cup {Absent}]

\* The client record, the address of the interface and the messages in flight
\* have their types; times and transactions stay within their bounds.
TypeOK ==
    /\ client \in Client
    /\ ip_address \in Addresses \cup {NoAddress}
    /\ elapsed \in 0..MaxTime
    /\ net \subseteq Discovers \cup Requests \cup Releases \cup Replies
    /\ send_failed \in BOOLEAN

-----------------------------------------------------------------------------
Init ==
    /\ client = [state |-> "INIT", transaction_id |-> 1, server_ip |-> NoAddress,
                 offered_ip |-> NoAddress, lease_time |-> 0, renewal_time |-> 0,
                 rebinding_time |-> 0, active |-> FALSE]
    /\ ip_address = NoAddress
    /\ elapsed = 0
    /\ net = {}
    /\ send_failed = FALSE

(***************************************************************************)
(* Sending.  c is the client as its caller has already changed it; a       *)
(* failed send leaves it at that.                                          *)
(***************************************************************************)
Failed(c) ==
    /\ SendMayFail
    /\ client' = c /\ net' = net /\ send_failed' = TRUE

dhcp_client_discover(c) ==
    \/ /\ net' = net \cup {[type |-> "DISCOVER", xid |-> c.transaction_id]}
       /\ client' = [c EXCEPT !.state = "SELECTING"]
       /\ send_failed' = FALSE
    \/ Failed(c)

request_sent(c) ==
    /\ c.offered_ip # NoAddress
    /\ net' = net \cup {[type |-> "REQUEST", xid |-> c.transaction_id,
                         ip |-> c.offered_ip, server |-> c.server_ip]}
    /\ client' = [c EXCEPT !.state = "REQUESTING"]
    /\ send_failed' = FALSE

request_refused(c) ==
    /\ c.offered_ip = NoAddress
    /\ client' = c /\ UNCHANGED <<net, send_failed>>

dhcp_client_request(c) == request_sent(c) \/ request_refused(c) \/ Failed(c)

dhcp_client_start(c) ==
    dhcp_client_discover([c EXCEPT !.state = "INIT", !.transaction_id = @ + 1])

-----------------------------------------------------------------------------
(***************************************************************************)
(* A reply.  The options are stored in the client before its state or the  *)
(* type of the message is looked at.                                       *)
(***************************************************************************)
Given(option, old) == IF option = Absent THEN old ELSE option

dhcp_parse_options(m) ==
    [client EXCEPT !.server_ip = IF m.server = NoAddress THEN @ ELSE m.server,
                   !.lease_time = Given(m.lease, @),
                   !.renewal_time = Given(m.renewal, @),
                   !.rebinding_time = Given(m.rebinding, @)]

\* Fault: the transaction of a reply is not compared.
Expected_any(m) == TRUE

Expected(m) == m.xid = client.transaction_id

\* Fault: a bound client takes offers too.
offer_when_bound(c, m) ==
    /\ client.state \in {"SELECTING", "BOUND"} /\ m.type = "OFFER"
    /\ dhcp_client_request([c EXCEPT !.offered_ip = m.ip])
    /\ UNCHANGED <<ip_address, elapsed>>

\* Fault: an offer is not followed by a request.
offer_not_requested(c, m) ==
    /\ client.state = "SELECTING" /\ m.type = "OFFER"
    /\ client' = [c EXCEPT !.offered_ip = m.ip]
    /\ UNCHANGED <<ip_address, elapsed, net, send_failed>>

offer(c, m) ==
    /\ client.state = "SELECTING" /\ m.type = "OFFER"
    /\ dhcp_client_request([c EXCEPT !.offered_ip = m.ip])
    /\ UNCHANGED <<ip_address, elapsed>>

ack(c, m) ==
    /\ client.state = "REQUESTING" /\ m.type = "ACK"
    /\ ip_address' = client.offered_ip
    /\ elapsed' = 0
    /\ client' = [c EXCEPT !.state = "BOUND", !.active = TRUE,
                           !.renewal_time = IF @ = 0 THEN c.lease_time \div 2 ELSE @,
                           !.rebinding_time = IF @ = 0 THEN (c.lease_time * 7) \div 8 ELSE @]
    /\ UNCHANGED <<net, send_failed>>

nak(c, m) ==
    /\ client.state = "REQUESTING" /\ m.type = "NAK"
    /\ client' = [c EXCEPT !.state = "INIT", !.offered_ip = NoAddress, !.server_ip = NoAddress]
    /\ UNCHANGED <<ip_address, elapsed, net, send_failed>>

unexpected(c, m) ==
    /\ ~(client.state = "SELECTING" /\ m.type = "OFFER")
    /\ ~(client.state = "REQUESTING" /\ m.type \in {"ACK", "NAK"})
    /\ client' = c
    /\ UNCHANGED <<ip_address, elapsed, net, send_failed>>

dhcp_client_process_packet(m) ==
    /\ Expected(m)
    /\ LET c == dhcp_parse_options(m)
       IN  offer(c, m) \/ ack(c, m) \/ nak(c, m) \/ unexpected(c, m)

Receive(types) ==
    \E m \in net : m \in Replies /\ m.type \in types /\ dhcp_client_process_packet(m)

-----------------------------------------------------------------------------
(***************************************************************************)
(* The timers: the shell calls dhcp_client_update in every turn.           *)
(***************************************************************************)
renew ==
    /\ client.state = "BOUND" /\ elapsed >= client.renewal_time
    /\ dhcp_client_request([client EXCEPT !.state = "RENEWING"])
    /\ UNCHANGED <<ip_address, elapsed>>

rebind ==
    /\ client.state = "RENEWING" /\ elapsed >= client.rebinding_time
    /\ dhcp_client_request([client EXCEPT !.state = "REBINDING"])
    /\ UNCHANGED <<ip_address, elapsed>>

expire ==
    /\ client.state = "REBINDING" /\ elapsed >= client.lease_time
    /\ client.transaction_id < MaxXid
    /\ dhcp_client_start([client EXCEPT !.active = FALSE])
    /\ ip_address' = NoAddress
    /\ elapsed' = 0

NothingDue ==
    /\ ~(client.state = "BOUND" /\ elapsed >= client.renewal_time)
    /\ ~(client.state = "RENEWING" /\ elapsed >= client.rebinding_time)
    /\ ~(client.state = "REBINDING" /\ elapsed >= client.lease_time)
    /\ UNCHANGED vars

dhcp_client_update ==
    \/ client.active /\ (renew \/ rebind \/ expire \/ NothingDue)
    \/ ~client.active /\ UNCHANGED vars

(***************************************************************************)
(* The seconds of the timer count while there is a lease.                  *)
(***************************************************************************)
tick ==
    /\ client.active /\ elapsed < MaxTime
    /\ elapsed' = elapsed + 1
    /\ UNCHANGED <<client, ip_address, net, send_failed>>

(***************************************************************************)
(* main calls dhcp_client_start once, after dhcp_client_init.              *)
(***************************************************************************)
boot ==
    /\ client.transaction_id = 1
    /\ dhcp_client_start(client)
    /\ UNCHANGED <<ip_address, elapsed>>

dhcp_client_release ==
    /\ ReleaseCalled /\ client.active
    /\ \/ /\ net' = net \cup {[type |-> "RELEASE", xid |-> client.transaction_id,
                               ip |-> ip_address, server |-> client.server_ip]}
          /\ send_failed' = FALSE
       \/ SendMayFail /\ send_failed' = TRUE /\ UNCHANGED net
    /\ ip_address' = NoAddress
    /\ client' = [client EXCEPT !.state = "INIT", !.active = FALSE]
    /\ elapsed' = 0

-----------------------------------------------------------------------------
(***************************************************************************)
(* The servers (external).  Any OFFER of Offers may be sent, with any      *)
(* lease; the server a REQUEST names grants the address or refuses it,     *)
(* perhaps without naming itself.                                          *)
(***************************************************************************)
AnswersTo(m) ==
    {r \in net : r \in Replies /\ r.xid = m.xid /\ (r.type = "OFFER" <=> m.type = "DISCOVER")}

Answers(types, m, servers, ip, leases) ==
    /\ Cardinality(AnswersTo(m)) < MaxReplies
    /\ \E type \in types, server \in servers, lease \in leases,
          renewal \in RenewalTimes \cup {Absent}, rebinding \in RebindingTimes \cup {Absent} :
        net' = net \cup {[type |-> type, xid |-> m.xid, ip |-> ip, server |-> server,
                          lease |-> lease, renewal |-> renewal, rebinding |-> rebinding]}
    /\ UNCHANGED <<client, ip_address, elapsed, send_failed>>

server_offer(o) ==
    \E m \in net : m.type = "DISCOVER" /\ Answers({"OFFER"}, m, {o[1]}, o[2], Leases)

Requested(m) == m.type = "REQUEST" /\ m.server \in Servers

server_ack ==
    \E m \in net : Requested(m) /\ Answers({"ACK"}, m, {m.server, NoAddress}, m.ip, Leases)

server_nak ==
    \E m \in net : Requested(m) /\ Answers({"NAK"}, m, {m.server}, NoAddress, {Absent})

Server ==
    \/ \E o \in Offers : server_offer(o)
    \/ server_ack
    \/ server_nak

Next ==
    \/ boot \/ Receive({"OFFER", "ACK", "NAK"}) \/ dhcp_client_update
    \/ dhcp_client_release \/ tick \/ Server

Spec == Init /\ [][Next]_vars

(***************************************************************************)
(* A kernel that gets on: main starts the client, the shell's loop polls   *)
(* its timers and the clock runs.  The network promises nothing.  This is  *)
(* the most that a claim about the timers alone may assume.                *)
(***************************************************************************)
KernelFairness == WF_vars(boot) /\ WF_vars(dhcp_client_update) /\ WF_vars(tick)

LossySpec == Spec /\ KernelFairness

-----------------------------------------------------------------------------
(***************************************************************************)
(* Properties.                                                             *)
(***************************************************************************)

\* The interface only ever has an address that some server has granted in
\* the current transaction: what process_packet takes from the client when
\* an ACK arrives is what that ACK is about, whatever OFFERs, duplicates and
\* replies to an earlier transaction come in between.
AddressIsAcked ==
    ip_address # NoAddress =>
        \E m \in net : /\ m.type = "ACK"
                       /\ m.xid = client.transaction_id /\ m.ip = ip_address

\* The client counts a lease (active) exactly while the interface has an
\* address: a client that forgot to, or went on counting, would keep an
\* address for ever or release one that it does not have.
ActiveHasAddress == client.active <=> ip_address # NoAddress

\* Both hold of every address the interface ever has: a server granted it in
\* this transaction, and the client counts its lease (process_packet,
\* dhcp_client_release).
LeaseSound == AddressIsAcked /\ ActiveHasAddress

\* A renewal extends the address in use: the interface goes from one address
\* to another only through having none, never by a reply to a renewal.
AddressNeverSwitches ==
    [][ip_address # NoAddress /\ ip_address' # ip_address => ip_address' = NoAddress]_vars

(***************************************************************************)
(* What Acquires assumes of the world outside the client: a usable OFFER,  *)
(* and an ACK or NAK, reaches the client at least once (the network        *)
(* delivers it and the shell polls), and a REQUEST is answered by the      *)
(* server that it names.                                                   *)
(***************************************************************************)
usable_offer ==
    \E m \in net : m.type = "OFFER" /\ m.ip # NoAddress /\ dhcp_client_process_packet(m)

NetworkWorks ==
    /\ WF_vars(usable_offer)
    /\ WF_vars(Receive({"ACK", "NAK"}))
    /\ WF_vars(server_ack \/ server_nak)

NamesNoServer == client.state = "REQUESTING" /\ client.server_ip = NoAddress

\* On a network that works, a client that has been offered an address ends up
\* bound or refused, whatever other OFFERs, ill-formed ones included, come
\* first.  There are two exceptions, since process_packet handles an OFFER
\* once and nothing is sent again: the send of its REQUEST failed, or the
\* REQUEST names no server because no OFFER had a server identifier.
Acquires ==
    NetworkWorks =>
        ((/\ client.state = "SELECTING"
          /\ \E m \in net : m.type = "OFFER" /\ Expected(m) /\ m.ip # NoAddress)
           ~> (client.state \in {"BOUND", "INIT"} \/ send_failed \/ NamesNoServer))

\* dhcp.c says that a client whose lease has expired starts over: an address
\* is not kept beyond its lease.
LeaseGivenUp ==
    (ip_address # NoAddress /\ elapsed >= client.lease_time) ~>
        (ip_address = NoAddress \/ elapsed < client.lease_time)

\* dhcp.c says that a client whose configuration is rejected starts over: it
\* does not stay in INIT.
NakRestarts == (client.state = "INIT") ~> (client.state = "SELECTING")

\* dhcp.c says that the renewal time is half the lease when the server does
\* not specify it (in a run where no server does).
RenewalIsHalfLease ==
    [][client.state = "REQUESTING" /\ client'.state = "BOUND" =>
            client'.renewal_time = client'.lease_time \div 2]_vars
=============================================================================
