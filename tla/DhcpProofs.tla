----------------------------- MODULE DhcpProofs -----------------------------
(***************************************************************************)
(* Proofs about the DHCP client, for every set of servers, addresses and   *)
(* times, and for a network that may lose, delay, duplicate and reorder.   *)
(*                                                                         *)
(* AddressIsAcked is not inductive: an ACK carries an address and the      *)
(* client applies the one it remembers.  The two agree because, within a   *)
(* transaction, only one address is ever requested (OneRequest), because a *)
(* new transaction starts with an identifier no message has (XidsBounded)  *)
(* and because servers only acknowledge what was requested (AcksRequested).*)
(***************************************************************************)
EXTENDS Dhcp, TLAPS

XidsBounded == \A m \in net : m.xid <= client.transaction_id

AcksRequested ==
    \A m \in net : m.type = "ACK" =>
        \E q \in net : q.type = "REQUEST" /\ q.xid = m.xid /\ q.ip = m.ip

OneRequest ==
    client.state # "INIT" =>
        \A m \in net : m.type = "REQUEST" /\ m.xid = client.transaction_id =>
            client.state # "SELECTING" /\ m.ip = client.offered_ip

StateOK ==
    /\ client.state \in {"BOUND", "RENEWING", "REBINDING"} => client.active
    /\ client.state = "SELECTING" => ~client.active
    /\ client.transaction_id >= 1
    /\ client.transaction_id = 1 => ~client.active /\ client.state = "INIT"
    /\ client.state = "REQUESTING" => client.offered_ip # NoAddress
    /\ client.active /\ client.state # "INIT" => client.offered_ip = ip_address

Inv ==
    /\ TypeOK /\ XidsBounded /\ AcksRequested /\ OneRequest /\ StateOK
    /\ AddressIsAcked /\ ActiveHasAddress

(***************************************************************************)
(* Storing the options of a reply changes nothing the invariant is about.  *)
(***************************************************************************)
LEMMA ParseOptions ==
    ASSUME client \in Client, NEW m \in Replies
    PROVE  /\ dhcp_parse_options(m) \in Client
           /\ dhcp_parse_options(m).state = client.state
           /\ dhcp_parse_options(m).transaction_id = client.transaction_id
           /\ dhcp_parse_options(m).offered_ip = client.offered_ip
           /\ dhcp_parse_options(m).active = client.active
  <1>1. Given(m.lease, client.lease_time) \in Nat
    BY DhcpAssumption DEF Given, Absent, Client, Replies
  <1>2. Given(m.renewal, client.renewal_time) \in Nat
    BY DhcpAssumption DEF Given, Absent, Client, Replies
  <1>3. Given(m.rebinding, client.rebinding_time) \in Nat
    BY DhcpAssumption DEF Given, Absent, Client, Replies
  <1>4. (IF m.server = NoAddress THEN client.server_ip ELSE m.server) \in Servers \cup {NoAddress}
    BY DEF Replies, Client
  <1> QED BY <1>1, <1>2, <1>3, <1>4 DEF dhcp_parse_options, Client

(***************************************************************************)
(* The steps a client takes when it calls dhcp_client_request, with what   *)
(* it has already changed in c.                                            *)
(***************************************************************************)
LEMMA RequestStep ==
    ASSUME Inv, NEW c \in Client,
           c.transaction_id = client.transaction_id,
           c.active = client.active,
           c.state \in {"SELECTING", "RENEWING", "REBINDING"},
           c.state = "SELECTING" => client.state = "SELECTING",
           c.state # "SELECTING" => /\ client.state \in {"BOUND", "RENEWING"}
                                    /\ c.offered_ip = client.offered_ip,
           dhcp_client_request(c),
           UNCHANGED <<ip_address, elapsed>>
    PROVE  Inv'
  <1> DEFINE req == [type |-> "REQUEST", xid |-> c.transaction_id,
                     ip |-> c.offered_ip, server |-> c.server_ip]
  <1>1. CASE request_sent(c)
    <2>1. req \in Requests /\ c.offered_ip # NoAddress
      BY <1>1 DEF request_sent, Requests, Client
    <2>2. net' = net \cup {req} /\ client' = [c EXCEPT !.state = "REQUESTING"]
      BY <1>1 DEF request_sent
    <2>3. client' \in Client
      BY <2>2 DEF Client, States
    <2>4. TypeOK'
      <3>1. send_failed' \in BOOLEAN
        BY <1>1 DEF request_sent
      <3> QED BY <2>1, <2>2, <2>3, <3>1 DEF Inv, TypeOK
    <2>5. /\ client'.state = "REQUESTING" /\ client'.active = client.active
          /\ client'.offered_ip = c.offered_ip
          /\ client'.transaction_id = client.transaction_id
      BY <2>2 DEF Client
    <2>6. client.transaction_id \in Nat
      BY DEF Inv, TypeOK, Client
    <2>7. XidsBounded'
      BY <2>2, <2>5, <2>6 DEF Inv, XidsBounded
    <2>8. AcksRequested'
      BY <2>2 DEF Inv, AcksRequested
    <2>9. OneRequest'
      BY <2>2, <2>5 DEF Inv, OneRequest
    <2>10. StateOK'
      BY <2>1, <2>5 DEF Inv, StateOK
    <2>11. AddressIsAcked' /\ ActiveHasAddress'
      BY <2>2, <2>5 DEF Inv, AddressIsAcked, ActiveHasAddress
    <2> QED BY <2>4, <2>7, <2>8, <2>9, <2>10, <2>11 DEF Inv
  <1>2. CASE request_refused(c) \/ Failed(c)
    <2>1. client' = c /\ net' = net
      BY <1>2 DEF request_refused, Failed
    <2>2. TypeOK'
      <3>1. send_failed' \in BOOLEAN
        BY <1>2 DEF request_refused, Failed, Inv, TypeOK
      <3> QED BY <2>1, <3>1 DEF Inv, TypeOK
    <2>3. XidsBounded' /\ AcksRequested'
      BY <2>1 DEF Inv, XidsBounded, AcksRequested
    <2>4. OneRequest'
      BY <2>1 DEF Inv, OneRequest
    <2>5. StateOK'
      BY <2>1 DEF Inv, StateOK
    <2>6. AddressIsAcked' /\ ActiveHasAddress'
      BY <2>1 DEF Inv, AddressIsAcked, ActiveHasAddress
    <2> QED BY <2>2, <2>3, <2>4, <2>5, <2>6 DEF Inv
  <1> QED BY <1>1, <1>2 DEF dhcp_client_request

(***************************************************************************)
(* A new transaction: no message has its identifier yet.                   *)
(***************************************************************************)
LEMMA StartStep ==
    ASSUME Inv, NEW c \in Client,
           c.transaction_id = client.transaction_id,
           c.active = FALSE,
           dhcp_client_start(c),
           ip_address' = NoAddress, elapsed' \in 0..MaxTime
    PROVE  Inv'
  <1> DEFINE d == [c EXCEPT !.state = "INIT", !.transaction_id = @ + 1]
             disc == [type |-> "DISCOVER", xid |-> d.transaction_id]
  <1>1. d \in Client /\ d.transaction_id = client.transaction_id + 1 /\ d.active = FALSE
    <2>1. c.transaction_id + 1 \in Nat
      BY DEF Client
    <2>2. d \in Client
      BY <2>1 DEF Client, States
    <2>3. d.transaction_id = c.transaction_id + 1 /\ d.active = c.active
      BY DEF Client
    <2> QED BY <2>2, <2>3
  <1>2. dhcp_client_discover(d)
    BY DEF dhcp_client_start
  <1>3. /\ client' = d \/ client' = [d EXCEPT !.state = "SELECTING"]
        /\ net' = net \/ net' = net \cup {disc}
        /\ send_failed' \in BOOLEAN
    BY <1>2 DEF dhcp_client_discover, Failed
  <1>4. disc \in Discovers
    BY <1>1 DEF Discovers, Client
  <1> HIDE DEF d, disc
  <1>5. /\ client' \in Client /\ client'.state \in {"INIT", "SELECTING"}
        /\ client'.transaction_id = client.transaction_id + 1 /\ client'.active = FALSE
    <2>1. d.state = "INIT"
      BY DEF d, Client
    <2> QED BY <1>1, <1>3, <2>1 DEF Client, States
  <1>6. TypeOK'
    BY <1>3, <1>4, <1>5 DEF Inv, TypeOK
  <1>7. client.transaction_id \in Nat
    BY DEF Inv, TypeOK, Client
  <1>8. disc.xid = client.transaction_id + 1 /\ disc.type = "DISCOVER"
    BY <1>1 DEF disc
  <1>9. \A m \in net : m.xid \in Nat
    BY DEF Inv, TypeOK, Discovers, Requests, Releases, Replies
  <1>10. XidsBounded'
    BY <1>3, <1>5, <1>7, <1>8, <1>9 DEF Inv, XidsBounded
  <1>11. AcksRequested'
    BY <1>3, <1>8 DEF Inv, AcksRequested
  <1>12. OneRequest'
    BY <1>3, <1>5, <1>7, <1>8, <1>9 DEF Inv, OneRequest, XidsBounded
  <1>13. StateOK'
    BY <1>5, <1>7 DEF Inv, StateOK
  <1>14. AddressIsAcked' /\ ActiveHasAddress'
    BY <1>5 DEF AddressIsAcked, ActiveHasAddress
  <1> QED BY <1>6, <1>10, <1>11, <1>12, <1>13, <1>14 DEF Inv

(***************************************************************************)
(* Every message has an identifier.                                        *)
(***************************************************************************)
LEMMA XidsAreNat == ASSUME Inv PROVE \A m \in net : m.xid \in Nat
  BY DEF Inv, TypeOK, Discovers, Requests, Releases, Replies

(***************************************************************************)
(* What a server sends is an answer to a message: r, which has the         *)
(* identifier of that message and, as an ACK, the address it asks for.     *)
(***************************************************************************)
Answer(r) ==
    /\ net' = net \cup {r}
    /\ \E q \in net : /\ q.xid = r.xid
                      /\ r.type = "ACK" => q.type = "REQUEST" /\ q.ip = r.ip

(***************************************************************************)
(* The environment: servers answer what was sent.                          *)
(***************************************************************************)
LEMMA ServerStep ==
    ASSUME Inv, Server
    PROVE  Inv'
  <1>1. UNCHANGED <<client, ip_address, elapsed, send_failed>>
    BY DEF Server, server_offer, server_ack, server_nak, Answers
  <1>2. PICK r \in Replies : Answer(r)
    <2>1. ASSUME NEW o \in Offers, server_offer(o)
          PROVE  \E r \in Replies : Answer(r)
      <3>1. PICK m \in net : m.type = "DISCOVER" /\ Answers({"OFFER"}, m, {o[1]}, o[2], Leases)
        BY <2>1 DEF server_offer
      <3>2. /\ o[1] \in Servers \cup {NoAddress} /\ o[2] \in Addresses \cup {NoAddress}
            /\ m.xid \in Nat
        BY DhcpAssumption, XidsAreNat
      <3>3. PICK server \in {o[1]}, lease \in Leases, renewal \in RenewalTimes \cup {Absent},
                 rebinding \in RebindingTimes \cup {Absent} :
              net' = net \cup {[type |-> "OFFER", xid |-> m.xid, ip |-> o[2], server |-> server,
                                lease |-> lease, renewal |-> renewal, rebinding |-> rebinding]}
        BY <3>1 DEF Answers
      <3> DEFINE r == [type |-> "OFFER", xid |-> m.xid, ip |-> o[2], server |-> server,
                       lease |-> lease, renewal |-> renewal, rebinding |-> rebinding]
      <3>4. r \in Replies
        BY <3>2 DEF Replies
      <3>5. Answer(r)
        BY <3>3 DEF Answer
      <3> QED BY <3>4, <3>5
    <2>2. ASSUME server_ack
          PROVE  \E r \in Replies : Answer(r)
      <3>1. PICK m \in net : Requested(m) /\ Answers({"ACK"}, m, {m.server, NoAddress}, m.ip, Leases)
        BY <2>2 DEF server_ack
      <3>2. m.ip \in Addresses /\ m.xid \in Nat /\ m.server \in Servers
        BY <3>1, XidsAreNat DEF Requested, Inv, TypeOK, Discovers, Requests, Releases, Replies
      <3>3. PICK server \in {m.server, NoAddress}, lease \in Leases, renewal \in RenewalTimes \cup {Absent},
                 rebinding \in RebindingTimes \cup {Absent} :
              net' = net \cup {[type |-> "ACK", xid |-> m.xid, ip |-> m.ip, server |-> server,
                                lease |-> lease, renewal |-> renewal, rebinding |-> rebinding]}
        BY <3>1 DEF Answers
      <3> DEFINE r == [type |-> "ACK", xid |-> m.xid, ip |-> m.ip, server |-> server,
                       lease |-> lease, renewal |-> renewal, rebinding |-> rebinding]
      <3>4. r \in Replies
        BY <3>2 DEF Replies
      <3>5. Answer(r)
        BY <3>1, <3>3 DEF Answer, Requested
      <3> QED BY <3>4, <3>5
    <2>3. ASSUME server_nak
          PROVE  \E r \in Replies : Answer(r)
      <3>1. PICK m \in net : Requested(m) /\ Answers({"NAK"}, m, {m.server}, NoAddress, {Absent})
        BY <2>3 DEF server_nak
      <3>2. m.xid \in Nat /\ m.server \in Servers
        BY <3>1, XidsAreNat DEF Requested
      <3>3. PICK server \in {m.server}, renewal \in RenewalTimes \cup {Absent},
                 rebinding \in RebindingTimes \cup {Absent} :
              net' = net \cup {[type |-> "NAK", xid |-> m.xid, ip |-> NoAddress, server |-> server,
                                lease |-> Absent, renewal |-> renewal, rebinding |-> rebinding]}
        BY <3>1 DEF Answers
      <3> DEFINE r == [type |-> "NAK", xid |-> m.xid, ip |-> NoAddress, server |-> server,
                       lease |-> Absent, renewal |-> renewal, rebinding |-> rebinding]
      <3>4. r \in Replies
        BY <3>2 DEF Replies
      <3>5. Answer(r)
        BY <3>3 DEF Answer
      <3> QED BY <3>4, <3>5
    <2> QED BY <2>1, <2>2, <2>3 DEF Server
  <1>3. net' = net \cup {r} /\ r.type \in {"OFFER", "ACK", "NAK"}
    BY <1>2 DEF Answer, Replies
  <1>4. PICK q \in net : /\ q.xid = r.xid
                         /\ r.type = "ACK" => q.type = "REQUEST" /\ q.ip = r.ip
    BY <1>2 DEF Answer
  <1>5. TypeOK'
    BY <1>1, <1>3 DEF Inv, TypeOK
  <1>6. XidsBounded'
    BY <1>1, <1>3, <1>4 DEF Inv, XidsBounded
  <1>7. AcksRequested'
    BY <1>1, <1>3, <1>4 DEF Inv, AcksRequested
  <1>8. OneRequest'
    BY <1>1, <1>3 DEF Inv, OneRequest
  <1>9. StateOK'
    BY <1>1 DEF Inv, StateOK
  <1>10. AddressIsAcked' /\ ActiveHasAddress'
    BY <1>1, <1>3 DEF Inv, AddressIsAcked, ActiveHasAddress
  <1> QED BY <1>5, <1>6, <1>7, <1>8, <1>9, <1>10 DEF Inv

(***************************************************************************)
(* A step that leaves the network and the address alone, and touches       *)
(* nothing of the client that the invariant relates to them.               *)
(***************************************************************************)
LEMMA QuietStep ==
    ASSUME Inv, client' \in Client, elapsed' \in 0..MaxTime, UNCHANGED <<ip_address, net, send_failed>>,
           client'.transaction_id = client.transaction_id, client'.active = client.active,
           \/ client'.state = client.state /\ client'.offered_ip = client.offered_ip
           \/ client'.state = "INIT"
    PROVE  Inv'
  <1>1. TypeOK'
    BY DEF Inv, TypeOK
  <1>2. XidsBounded' /\ AcksRequested'
    BY DEF Inv, XidsBounded, AcksRequested
  <1>3. OneRequest'
    BY DEF Inv, OneRequest
  <1>4. StateOK'
    BY DEF Inv, StateOK
  <1>5. AddressIsAcked' /\ ActiveHasAddress'
    BY DEF Inv, AddressIsAcked, ActiveHasAddress
  <1> QED BY <1>1, <1>2, <1>3, <1>4, <1>5 DEF Inv

(***************************************************************************)
(* An ACK: the address the client remembers is the one it is about.        *)
(***************************************************************************)
LEMMA AckStep ==
    ASSUME Inv, NEW m \in net, m \in Replies, Expected(m), ack(dhcp_parse_options(m), m)
    PROVE  Inv' /\ (ip_address # NoAddress => ip_address' = ip_address)
  <1> DEFINE c == dhcp_parse_options(m)
  <1>1. /\ c \in Client /\ c.offered_ip = client.offered_ip
        /\ c.transaction_id = client.transaction_id
    BY ParseOptions DEF Inv, TypeOK
  <1>2. /\ client.state = "REQUESTING" /\ m.type = "ACK"
        /\ ip_address' = client.offered_ip /\ elapsed' = 0 /\ net' = net
        /\ send_failed' = send_failed
    BY DEF ack
  <1> DEFINE T1 == IF c.renewal_time = 0 THEN c.lease_time \div 2 ELSE c.renewal_time
             T2 == IF c.rebinding_time = 0 THEN (c.lease_time * 7) \div 8 ELSE c.rebinding_time
  <1>3. client' = [c EXCEPT !.state = "BOUND", !.active = TRUE,
                            !.renewal_time = T1, !.rebinding_time = T2]
    BY DEF ack
  <1> HIDE DEF c
  <1>4. T1 \in Nat /\ T2 \in Nat
    <2>1. c.lease_time \in Nat /\ c.renewal_time \in Nat /\ c.rebinding_time \in Nat
      BY <1>1 DEF Client
    <2> QED BY <2>1
  <1> HIDE DEF T1, T2
  <1>5. client' \in Client
    BY <1>1, <1>3, <1>4 DEF Client, States
  <1>6. /\ client'.state = "BOUND" /\ client'.active = TRUE
        /\ client'.offered_ip = client.offered_ip
        /\ client'.transaction_id = client.transaction_id
    BY <1>1, <1>3 DEF Client
  <1>7. m.ip = client.offered_ip /\ m.xid = client.transaction_id
    BY <1>2 DEF Expected, Inv, AcksRequested, OneRequest
  <1>8. client.offered_ip \in Addresses \cup {NoAddress} /\ client.offered_ip # NoAddress
    BY <1>2 DEF Inv, StateOK, TypeOK, Client
  <1>9. TypeOK'
    BY <1>2, <1>5, <1>8, DhcpAssumption DEF Inv, TypeOK
  <1>10. XidsBounded' /\ AcksRequested'
    BY <1>2, <1>6 DEF Inv, XidsBounded, AcksRequested
  <1>11. OneRequest'
    BY <1>2, <1>6 DEF Inv, OneRequest
  <1>12. client.transaction_id # 1
    BY <1>2 DEF Inv, StateOK
  <1>13. StateOK'
    BY <1>2, <1>6, <1>8, <1>12 DEF Inv, StateOK
  <1>14. AddressIsAcked'
    BY <1>2, <1>6, <1>7 DEF AddressIsAcked
  <1>15. ActiveHasAddress'
    BY <1>2, <1>6, <1>8 DEF ActiveHasAddress
  <1>16. ip_address # NoAddress => ip_address' = ip_address
    BY <1>2 DEF Inv, StateOK, ActiveHasAddress
  <1> QED BY <1>9, <1>10, <1>11, <1>13, <1>14, <1>15, <1>16 DEF Inv

(***************************************************************************)
(* Receiving a reply.                                                      *)
(***************************************************************************)
LEMMA ReceiveStep ==
    ASSUME Inv, Receive({"OFFER", "ACK", "NAK"})
    PROVE  Inv' /\ (ip_address # NoAddress => ip_address' = ip_address)
  <1>1. PICK m \in net : m \in Replies /\ dhcp_client_process_packet(m)
    BY DEF Receive
  <1> DEFINE c == dhcp_parse_options(m)
  <1>2. /\ c \in Client /\ c.state = client.state /\ c.offered_ip = client.offered_ip
        /\ c.transaction_id = client.transaction_id /\ c.active = client.active
    BY <1>1, ParseOptions DEF Inv, TypeOK
  <1>3. Expected(m) /\ (offer(c, m) \/ ack(c, m) \/ nak(c, m) \/ unexpected(c, m))
    BY <1>1 DEF dhcp_client_process_packet
  <1>4. CASE ack(c, m)
    BY <1>1, <1>3, <1>4, AckStep
  <1>5. elapsed \in 0..MaxTime
    BY DEF Inv, TypeOK
  <1> HIDE DEF c
  <1>6. CASE offer(c, m)
    <2>1. m.ip \in Addresses \cup {NoAddress}
      BY <1>1 DEF Replies
    <2> DEFINE d == [c EXCEPT !.offered_ip = m.ip]
    <2>2. /\ d \in Client /\ d.state = c.state
          /\ d.transaction_id = c.transaction_id /\ d.active = c.active
      BY <1>2, <2>1 DEF Client
    <2>3. /\ client.state = "SELECTING" /\ dhcp_client_request(d)
          /\ UNCHANGED <<ip_address, elapsed>>
      BY <1>6 DEF offer
    <2> HIDE DEF d
    <2> QED BY <1>2, <2>2, <2>3, RequestStep
  <1>7. CASE nak(c, m)
    <2>1. client' = [c EXCEPT !.state = "INIT", !.offered_ip = NoAddress, !.server_ip = NoAddress]
      BY <1>7 DEF nak
    <2>2. UNCHANGED <<ip_address, elapsed, net, send_failed>>
      BY <1>7 DEF nak
    <2>3. client' \in Client
      BY <1>2, <2>1 DEF Client, States
    <2>4. /\ client'.state = "INIT" /\ client'.active = c.active
          /\ client'.transaction_id = c.transaction_id
      BY <1>2, <2>1 DEF Client
    <2> QED BY <1>2, <1>5, <2>2, <2>3, <2>4, QuietStep
  <1>8. CASE unexpected(c, m)
    BY <1>2, <1>5, <1>8, QuietStep DEF unexpected
  <1> QED BY <1>3, <1>4, <1>6, <1>7, <1>8

(***************************************************************************)
(* The timers.                                                             *)
(***************************************************************************)
LEMMA UpdateStep ==
    ASSUME Inv, dhcp_client_update
    PROVE  Inv' /\ ip_address' \in {ip_address, NoAddress}
  <1>1. CASE renew
    <2> DEFINE c == [client EXCEPT !.state = "RENEWING"]
    <2>1. /\ c \in Client /\ c.state = "RENEWING" /\ c.offered_ip = client.offered_ip
          /\ c.transaction_id = client.transaction_id /\ c.active = client.active
      BY DEF Inv, TypeOK, Client, States
    <2>2. /\ client.state = "BOUND" /\ dhcp_client_request(c)
          /\ UNCHANGED <<ip_address, elapsed>>
      BY <1>1 DEF renew
    <2> HIDE DEF c
    <2> QED BY <2>1, <2>2, RequestStep
  <1>2. CASE rebind
    <2> DEFINE c == [client EXCEPT !.state = "REBINDING"]
    <2>1. /\ c \in Client /\ c.state = "REBINDING" /\ c.offered_ip = client.offered_ip
          /\ c.transaction_id = client.transaction_id /\ c.active = client.active
      BY DEF Inv, TypeOK, Client, States
    <2>2. /\ client.state = "RENEWING" /\ dhcp_client_request(c)
          /\ UNCHANGED <<ip_address, elapsed>>
      BY <1>2 DEF rebind
    <2> HIDE DEF c
    <2> QED BY <2>1, <2>2, RequestStep
  <1>3. CASE expire
    <2> DEFINE c == [client EXCEPT !.active = FALSE]
    <2>1. c \in Client /\ c.transaction_id = client.transaction_id /\ c.active = FALSE
      BY DEF Inv, TypeOK, Client
    <2>2. dhcp_client_start(c) /\ ip_address' = NoAddress /\ elapsed' = 0
      BY <1>3 DEF expire
    <2>3. 0 \in 0..MaxTime
      BY DhcpAssumption
    <2> HIDE DEF c
    <2> QED BY <2>1, <2>2, <2>3, StartStep
  <1>4. CASE UNCHANGED vars
    BY <1>4, QuietStep DEF vars, Inv, TypeOK
  <1> QED BY <1>1, <1>2, <1>3, <1>4 DEF dhcp_client_update, NothingDue

(***************************************************************************)
(* Giving the address back.                                                *)
(***************************************************************************)
LEMMA ReleaseStep ==
    ASSUME Inv, dhcp_client_release
    PROVE  Inv' /\ ip_address' = NoAddress
  <1> DEFINE rel == [type |-> "RELEASE", xid |-> client.transaction_id,
                     ip |-> ip_address, server |-> client.server_ip]
  <1>1. rel \in Releases
    BY DEF Inv, TypeOK, Client, Releases
  <1>2. /\ net' = net \/ net' = net \cup {rel}
        /\ ip_address' = NoAddress /\ elapsed' = 0 /\ send_failed' \in BOOLEAN
        /\ client' = [client EXCEPT !.state = "INIT", !.active = FALSE]
    BY DEF dhcp_client_release
  <1>3. /\ client' \in Client /\ client'.state = "INIT" /\ client'.active = FALSE
        /\ client'.transaction_id = client.transaction_id
    BY <1>2 DEF Inv, TypeOK, Client, States
  <1>4. rel.type = "RELEASE" /\ rel.xid = client.transaction_id
    OBVIOUS
  <1> HIDE DEF rel
  <1>5. TypeOK'
    BY <1>1, <1>2, <1>3, DhcpAssumption DEF Inv, TypeOK
  <1>6. XidsBounded'
    <2>1. client.transaction_id \in Nat
      BY DEF Inv, TypeOK, Client
    <2> QED BY <1>2, <1>3, <1>4, <2>1 DEF Inv, XidsBounded
  <1>7. AcksRequested' /\ OneRequest'
    BY <1>2, <1>3, <1>4 DEF Inv, AcksRequested, OneRequest
  <1>8. StateOK' /\ AddressIsAcked' /\ ActiveHasAddress'
    BY <1>2, <1>3 DEF Inv, StateOK, AddressIsAcked, ActiveHasAddress
  <1> QED BY <1>2, <1>5, <1>6, <1>7, <1>8 DEF Inv

(***************************************************************************)
(* The first start.                                                        *)
(***************************************************************************)
LEMMA BootStep ==
    ASSUME Inv, boot
    PROVE  Inv' /\ ip_address' = ip_address
  <1>1. client.active = FALSE /\ ip_address = NoAddress
    <2>1. ~client.active /\ client.active \in BOOLEAN
      BY DEF boot, Inv, StateOK, TypeOK, Client
    <2> QED BY <2>1 DEF Inv, ActiveHasAddress
  <1>2. client \in Client /\ elapsed \in 0..MaxTime
    BY DEF Inv, TypeOK
  <1>3. dhcp_client_start(client) /\ UNCHANGED <<ip_address, elapsed>>
    BY DEF boot
  <1> QED BY <1>1, <1>2, <1>3, StartStep

(***************************************************************************)
(* The inductive invariant, and what a step does to the address.           *)
(***************************************************************************)
LEMMA InvInit == Init => Inv
  <1> SUFFICES ASSUME Init PROVE Inv
    OBVIOUS
  <1>1. TypeOK
    <2>1. client \in Client /\ send_failed \in BOOLEAN
      BY DEF Init, Client, States
    <2> QED BY <2>1, DhcpAssumption DEF Init, TypeOK
  <1>2. XidsBounded /\ AcksRequested /\ OneRequest
    BY DEF Init, XidsBounded, AcksRequested, OneRequest
  <1>3. StateOK /\ AddressIsAcked /\ ActiveHasAddress
    BY DEF Init, StateOK, AddressIsAcked, ActiveHasAddress
  <1> QED BY <1>1, <1>2, <1>3 DEF Inv

(***************************************************************************)
(* Every step keeps the invariant and keeps or drops the address.          *)
(***************************************************************************)
LEMMA InvStep ==
    ASSUME Inv, [Next]_vars
    PROVE  Inv' /\ (ip_address # NoAddress => ip_address' \in {ip_address, NoAddress})
  <1>1. CASE boot
    BY <1>1, BootStep
  <1>2. CASE Receive({"OFFER", "ACK", "NAK"})
    BY <1>2, ReceiveStep
  <1>3. CASE dhcp_client_update
    BY <1>3, UpdateStep
  <1>4. CASE dhcp_client_release
    BY <1>4, ReleaseStep
  <1>5. CASE tick
    <2>1. elapsed' \in 0..MaxTime
      BY <1>5, DhcpAssumption DEF tick, Inv, TypeOK
    <2>2. UNCHANGED <<client, ip_address, net, send_failed>>
      BY <1>5 DEF tick
    <2> QED BY <2>1, <2>2, QuietStep DEF Inv, TypeOK
  <1>6. CASE Server
    <2>1. UNCHANGED ip_address
      BY <1>6 DEF Server, server_offer, server_ack, server_nak, Answers
    <2> QED BY <1>6, <2>1, ServerStep
  <1>7. CASE UNCHANGED vars
    BY <1>7, QuietStep DEF vars, Inv, TypeOK
  <1> QED BY <1>1, <1>2, <1>3, <1>4, <1>5, <1>6, <1>7 DEF Next

(***************************************************************************)
(* The interface only ever has an address that a server granted in the     *)
(* current transaction, and the client counts a lease exactly while it has *)
(* one (process_packet, dhcp_client_release), whatever the network does.   *)
(***************************************************************************)
THEOREM LeaseSoundCorrect == Spec => []LeaseSound
  <1>1. Init => Inv
    BY InvInit
  <1>2. Inv /\ [Next]_vars => Inv'
    BY InvStep
  <1>3. Inv => LeaseSound
    BY DEF Inv, LeaseSound
  <1> QED BY <1>1, <1>2, <1>3, PTL DEF Spec

(***************************************************************************)
(* A renewal never changes the address of the interface to another one.    *)
(***************************************************************************)
THEOREM AddressNeverSwitchesCorrect == Spec => AddressNeverSwitches
  <1>1. Init => Inv
    BY InvInit
  <1>2. Inv /\ [Next]_vars => Inv'
    BY InvStep
  <1>3. Inv /\ [Next]_vars =>
            [ip_address # NoAddress /\ ip_address' # ip_address => ip_address' = NoAddress]_vars
    BY InvStep
  <1> QED BY <1>1, <1>2, <1>3, PTL DEF Spec, AddressNeverSwitches
=============================================================================
