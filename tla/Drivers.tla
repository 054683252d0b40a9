------------------------------ MODULE Drivers ------------------------------
(***************************************************************************)
(* The two drivers that poll their devices, in the one thread that uses    *)
(* them: while a call waits for a drive, nobody empties the receive ring of*)
(* the network card, and the card goes on storing frames.                  *)
(***************************************************************************)
EXTENDS E1000, Ata

CONSTANT MaxEvents      \* bound: frames and calls in a behaviour, together

ASSUME DriversAssumption == MaxEvents \in Nat

driversVars == << vars, ataVars >>

DriversInit == Init /\ AtaInit

InDisk == call.pc # "idle"
Bounded == accepted + arrived + calls < MaxEvents

\* The kernel runs one driver at a time.
disk_call == driver = "idle" /\ Bounded /\ AtaCall /\ UNCHANGED vars
disk_step == AtaStep /\ UNCHANGED vars

net_send == ~InDisk /\ Bounded /\ send_fill /\ UNCHANGED ataVars
net_receive == ~InDisk /\ receive_copy /\ UNCHANGED ataVars
net_finish == (send_doorbell \/ receive_release) /\ UNCHANGED ataVars
net_idle == ~InDisk /\ idle /\ UNCHANGED ataVars

\* The devices run on their own.
devices ==
    \/ (\E d \in Channel : drive_works(d)) /\ UNCHANGED vars
    \/ card_transmit /\ UNCHANGED ataVars
    \/ Bounded /\ card_store /\ UNCHANGED ataVars

DriversNext ==
    \/ disk_call \/ disk_step
    \/ net_send \/ net_receive \/ net_finish \/ net_idle
    \/ devices

\* The kernel finishes what it began: a thread inside a driver makes no call to
\* the scheduler.  The card transmits; of the drives nothing is assumed.
DriversSpec ==
    /\ DriversInit /\ [][DriversNext]_driversVars
    /\ WF_driversVars(disk_step)
    /\ WF_driversVars(net_finish)
    /\ WF_driversVars(card_transmit /\ UNCHANGED ataVars)

----------------------------------------------------------------------------
(* Properties                                                              *)

\* The shell comes back to polling the card whenever it is free to.  Nothing in
\* the scheduler makes it: a thread of its priority that never yields keeps it
\* from running.
ShellPolls == SF_driversVars(net_receive)

\* As long as the shell goes on polling, reception goes on for ever, whatever
\* the drives do: no disk call waits without end (ata_wait_drq), and neither
\* side of the receive ring waits for a descriptor that the other one holds
\* (e1000_receive_packet).
ReceiveLive == ShellPolls => RxDelivered /\ RingRefilled
=============================================================================
