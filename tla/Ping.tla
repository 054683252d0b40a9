------------------------------- MODULE Ping --------------------------------
(***************************************************************************)
(* icmp_ping of network/icmp.c, the shell's ping command, on top of the    *)
(* stack of Network, together with the other users of the stack.           *)
(*                                                                         *)
(* Nothing in the kernel queues a packet that waits for an address, and a  *)
(* reply is noted in one set of global variables, ping_reply_received and  *)
(* ping_reply_src_ip, that the waiting loop and every received reply share.*)
(* Received frames are only looked at where the code polls: in the shell's *)
(* loop, while ping waits, and in the pause between two requests.          *)
(* Round-trip times are left out.                                          *)
(***************************************************************************)
EXTENDS Network

CONSTANTS
    PING_COUNT,     \* requests per ping                  (shell.c: 4)
    TIMEOUT,        \* ticks ping waits for a reply       (1000)
    DELAY,          \* ticks between two requests         (500)
    Traffic,        \* what the other users send: "udp", "tcp"
    MaxEvents       \* bound: ping commands, packets of the other users, and echo
                    \* replies and ARP packets that arrive in a behaviour, together

ASSUME PingAssumption ==
    /\ PING_COUNT \in Nat \ {0} /\ TIMEOUT \in Nat \ {0} /\ DELAY \in Nat \ {0}
    /\ Traffic \subseteq {"udp", "tcp"}
    /\ MaxEvents \in Nat

VARIABLES
    pc,             \* where the shell is: its loop, or inside icmp_ping
    dest,           \* dest_ip
    i,              \* loop variable of icmp_ping
    left,           \* ticks until the deadline of the wait or of the pause
    result,         \* ping_result_t
    counted,        \* history: replies ping has counted, per host
    events          \* bounded counter

pingVars == << pc, dest, i, left, result, counted >>
vars == << arpVars, netVars, pingVars, events >>

PingInit ==
    /\ NetInit
    /\ pc = "shell" /\ dest = NoIp /\ i = 0 /\ left = 0
    /\ result = [sent |-> 0, received |-> 0]
    /\ counted = [ip \in Ips |-> 0]
    /\ events = 0

Bounded == events < MaxEvents /\ events' = events + 1

----------------------------------------------------------------------------
(* icmp_ping                                                               *)

\* cmd_ping calls icmp_ping on interface 1, eth0, whatever the address.
cmd_ping(ip) ==
    /\ pc = "shell" /\ poll = "out"
    /\ Bounded
    /\ pc' = "send" /\ dest' = ip /\ i' = 0
    /\ result' = [sent |-> 0, received |-> 0]
    /\ UNCHANGED << left, counted, netVars, arpVars >>

\* Fault: the reply flag is cleared once per ping only.
Cleared_once == IF i = 0 THEN [reply EXCEPT !.received = FALSE] ELSE reply

\* The reply flag is cleared before every request.
Cleared == [reply EXCEPT !.received = FALSE]

\* One turn of the loop of icmp_ping up to the wait: the request goes out, or
\* it does not and the next turn follows at once, without a poll.
icmp_send_echo_request ==
    /\ pc = "send"
    /\ reply' = Cleared
    /\ ip_send_packet("eth0", dest, "echo_request")
    /\ IF arp_lookup(dest)
       THEN /\ result' = [result EXCEPT !.sent = @ + 1]
            /\ pc' = "wait" /\ left' = TIMEOUT /\ i' = i
       ELSE /\ i' = i + 1
            /\ pc' = IF i + 1 < PING_COUNT THEN "send" ELSE "shell"
            /\ UNCHANGED << result, left >>
    /\ UNCHANGED << dest, counted, events, leased, rx, poll, frame, replies, arpVars >>

\* The reply ping counts.
Answered == reply.received /\ reply.src_ip = dest

\* The waiting loop ends, after a poll, when a reply was noted, from whomever,
\* or the second has passed; the pause follows, except after the last request.
end_wait ==
    /\ pc = "wait" /\ poll = "out"
    /\ reply.received \/ left = 0
    /\ result' = [result EXCEPT !.received = IF Answered THEN @ + 1 ELSE @]
    /\ counted' = IF Answered THEN [counted EXCEPT ![dest] = @ + 1] ELSE counted
    /\ i' = IF i < PING_COUNT - 1 THEN i ELSE i + 1
    /\ pc' = IF i < PING_COUNT - 1 THEN "delay" ELSE "shell"
    /\ left' = IF i < PING_COUNT - 1 THEN DELAY ELSE 0
    /\ UNCHANGED << dest, events, netVars, arpVars >>

\* The pause ends; the next request.
end_delay ==
    /\ pc = "delay" /\ poll = "out"
    /\ left = 0
    /\ i' = i + 1 /\ pc' = "send"
    /\ UNCHANGED << dest, left, result, counted, events, netVars, arpVars >>

\* The shell's loop polls; so do the waiting loop, while it waits, and the pause.
network_process_packets ==
    /\ \/ pc = "shell"
       \/ pc = "wait" /\ ~reply.received /\ left > 0
       \/ pc = "delay" /\ left > 0
    /\ start_poll
    /\ UNCHANGED << pingVars, events >>

Polling == PollStep /\ UNCHANGED << pingVars, events >>

\* Fault: the deadline is computed anew in every turn of the waiting loop.
timer_tick_restarts ==
    /\ tick
    /\ left' = IF left > 0 THEN TIMEOUT ELSE 0
    /\ UNCHANGED << arp_table, told, netVars, pc, dest, i, result, counted, events >>

\* The timer interrupt.
timer_tick ==
    /\ tick
    /\ left' = IF left > 0 THEN left - 1 ELSE 0
    /\ UNCHANGED << arp_table, told, netVars, pc, dest, i, result, counted, events >>

----------------------------------------------------------------------------
(* The other users of the stack, and the hosts                             *)

other_sends ==
    /\ pc = "shell" /\ poll = "out"
    /\ Bounded
    /\ \E kind \in Traffic, ip \in Ips \cup {Broadcast} : transport_send(kind, ip)
    /\ UNCHANGED pingVars

lease_expires ==
    /\ pc = "shell" /\ poll = "out"
    /\ dhcp_expire
    /\ UNCHANGED << pingVars, events >>

\* There is no bound on the frames that arrive and leave no trace.
hosts_send ==
    /\ \E f \in Arrivals :
         /\ arrive(f)
         /\ IF f.kind \in ArpKinds \cup {"echo_reply"} THEN Bounded ELSE UNCHANGED events
    /\ UNCHANGED pingVars

----------------------------------------------------------------------------
Kernel ==
    \/ icmp_send_echo_request \/ end_wait \/ end_delay
    \/ network_process_packets \/ Polling

PingNext ==
    \/ \E ip \in Ips : cmd_ping(ip)
    \/ Kernel
    \/ timer_tick
    \/ other_sends
    \/ lease_expires
    \/ hosts_send

PingSpec == PingInit /\ [][PingNext]_vars

\* The kernel runs, and the timer interrupts it.
FairPing == PingSpec /\ WF_vars(Kernel) /\ WF_vars(timer_tick)

----------------------------------------------------------------------------
(* Properties                                                              *)

\* Ping counts no reply twice and none that the pinged host did not send: over
\* all pings, the replies counted for a host are at most the replies that came
\* from it; and a ping counts at most one reply for each request that it sent
\* (the shared reply note of icmp.c and its reset in icmp_ping).  It does not
\* say which request a reply answers: the sequence number is not looked at.
RepliesCountedOnce ==
    /\ \A ip \in Ips : counted[ip] <= replies[ip]
    /\ result.received <= result.sent

\* Why: a reply noted while ping waits has not been counted yet.
UncountedReply ==
    pc = "wait" /\ reply.received => counted[reply.src_ip] < replies[reply.src_ip]

\* The loop of network_process_packets drains the card, so hosts that send faster
\* than it does keep it.
HostsPause == ~[]<><<hosts_send>>_vars

\* Once the hosts pause, a poll comes to an end, unless segments without a
\* connection go round on lo (network_process_packets).
PollReturns == HostsPause => PollEnds

\* Once the hosts pause, a ping returns to the shell, with or without replies,
\* unless segments without a connection go round on lo (the one-second limit of
\* the waiting loop, which is only looked at between polls).
PingReturns == HostsPause => ([]<>SegmentOnLo \/ ((pc # "shell") ~> (pc = "shell")))

\* shell.c:494 "Ping 4 times": a ping that has returned has sent its requests.
AllRequestsSent == pc = "shell" /\ dest # NoIp => result.sent = PING_COUNT
=============================================================================
