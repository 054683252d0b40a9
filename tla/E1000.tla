------------------------------- MODULE E1000 -------------------------------
(***************************************************************************)
(* The descriptor rings of drivers/e1000.c and the network card behind     *)
(* them.  Driver and card share memory: each descriptor's DD bit says who  *)
(* owns it, and the registers TDH/TDT and RDH/RDT delimit what the card may*)
(* work on.  The card runs concurrently with the driver, so a frame passes *)
(* through several steps of each: the driver fills a descriptor and then   *)
(* moves the tail, the card sends and then gives the descriptor back; the  *)
(* card stores a frame, the driver copies it and then returns the          *)
(* descriptor.                                                             *)
(*                                                                         *)
(* Frames are numbered in the order the driver accepts them (transmission) *)
(* and the card stores them (reception).  The card is external: it works   *)
(* on the descriptors from its head register up to its tail register and   *)
(* rests when the two are equal.                                           *)
(***************************************************************************)
EXTENDS Integers, Sequences

CONSTANTS
    E1000_NUM_TX_DESC,   \* 32
    E1000_NUM_RX_DESC,   \* 32
    MaxFrames            \* bound: frames per direction in a behaviour

ASSUME RingsAssumption ==
    /\ E1000_NUM_TX_DESC \in Nat \ {0} /\ E1000_NUM_RX_DESC \in Nat \ {0}
    /\ MaxFrames \in Nat

VARIABLES
    driver,                      \* where the driver is between two steps
    tx_dd, tx_buffers, tx_cur,   \* descriptors of the transmit ring
    tdh, tdt,                    \* its registers
    rx_dd, rx_buffers, rx_cur,
    rdh, rdt,
    accepted,                    \* frames e1000_send_packet has taken
    wire,                        \* frames the card has sent
    arrived,                     \* frames the card has stored
    delivered                    \* frames e1000_receive_packet has returned

txVars == << tx_dd, tx_buffers, tx_cur, tdh, tdt, accepted, wire >>
rxVars == << rx_dd, rx_buffers, rx_cur, rdh, rdt, arrived, delivered >>
vars == << driver, txVars, rxVars >>

TxSlots == 0 .. E1000_NUM_TX_DESC - 1
RxSlots == 0 .. E1000_NUM_RX_DESC - 1

NextTx(n) == (n + 1) % E1000_NUM_TX_DESC
NextRx(n) == (n + 1) % E1000_NUM_RX_DESC

\* e1000_tx_init, e1000_rx_init: every transmit descriptor is done, and the
\* card may fill all receive descriptors but the last.
Init ==
    /\ driver = "idle"
    /\ tx_dd = [n \in TxSlots |-> TRUE] /\ tx_buffers = [n \in TxSlots |-> 0]
    /\ tx_cur = 0 /\ tdh = 0 /\ tdt = 0
    /\ rx_dd = [n \in RxSlots |-> FALSE] /\ rx_buffers = [n \in RxSlots |-> 0]
    /\ rx_cur = 0 /\ rdh = 0 /\ rdt = E1000_NUM_RX_DESC - 1
    /\ accepted = 0 /\ wire = << >>
    /\ arrived = 0 /\ delivered = << >>

----------------------------------------------------------------------------
(* The driver                                                              *)

\* Fault: the descriptor's DD bit is not looked at.
send_fill_unchecked ==
    /\ driver = "idle"
    /\ accepted < MaxFrames
    /\ accepted' = accepted + 1
    /\ tx_buffers' = [tx_buffers EXCEPT ![tx_cur] = accepted + 1]
    /\ tx_dd' = [tx_dd EXCEPT ![tx_cur] = FALSE]
    /\ driver' = "filled"
    /\ UNCHANGED << tx_cur, tdh, tdt, wire, rxVars >>

\* e1000_send_packet up to the doorbell.  When the descriptor is not done the
\* call fails and the frame is dropped.
send_fill ==
    /\ driver = "idle"
    /\ accepted < MaxFrames
    /\ tx_dd[tx_cur]
    /\ accepted' = accepted + 1
    /\ tx_buffers' = [tx_buffers EXCEPT ![tx_cur] = accepted + 1]
    /\ tx_dd' = [tx_dd EXCEPT ![tx_cur] = FALSE]
    /\ driver' = "filled"
    /\ UNCHANGED << tx_cur, tdh, tdt, wire, rxVars >>

\* "Update tail pointer to start transmission".
send_doorbell ==
    /\ driver = "filled"
    /\ tx_cur' = NextTx(tx_cur)
    /\ tdt' = NextTx(tx_cur)
    /\ driver' = "idle"
    /\ UNCHANGED << tx_dd, tx_buffers, tdh, accepted, wire, rxVars >>

\* e1000_receive_packet up to the copy of the frame.
receive_copy ==
    /\ driver = "idle"
    /\ rx_dd[rx_cur]
    /\ delivered' = Append(delivered, rx_buffers[rx_cur])
    /\ driver' = "copied"
    /\ UNCHANGED << rx_dd, rx_buffers, rx_cur, rdh, rdt, arrived, txVars >>

\* The rest of e1000_receive_packet: the descriptor goes back to the card.
receive_release ==
    /\ driver = "copied"
    /\ rx_dd' = [rx_dd EXCEPT ![rx_cur] = FALSE]
    /\ rdt' = rx_cur
    /\ rx_cur' = NextRx(rx_cur)
    /\ driver' = "idle"
    /\ UNCHANGED << rx_buffers, rdh, arrived, delivered, txVars >>

----------------------------------------------------------------------------
(* The card                                                                *)

card_transmit ==
    /\ tdh # tdt
    /\ wire' = Append(wire, tx_buffers[tdh])
    /\ tx_dd' = [tx_dd EXCEPT ![tdh] = TRUE]
    /\ tdh' = NextTx(tdh)
    /\ UNCHANGED << driver, tx_buffers, tx_cur, tdt, accepted, rxVars >>

\* A frame arrives; without a descriptor it is lost.
card_store ==
    /\ arrived < MaxFrames
    /\ rdh # rdt
    /\ arrived' = arrived + 1
    /\ rx_buffers' = [rx_buffers EXCEPT ![rdh] = arrived + 1]
    /\ rx_dd' = [rx_dd EXCEPT ![rdh] = TRUE]
    /\ rdh' = NextRx(rdh)
    /\ UNCHANGED << driver, rx_cur, rdt, delivered, txVars >>

\* The kernel polls an empty ring and has nothing to send.
idle == driver = "idle" /\ ~rx_dd[rx_cur] /\ UNCHANGED vars

Next ==
    \/ send_fill \/ send_doorbell
    \/ receive_copy \/ receive_release
    \/ card_transmit \/ card_store
    \/ idle

Spec == Init /\ [][Next]_vars

----------------------------------------------------------------------------
(* Properties                                                              *)

\* The card sends exactly the frames e1000_send_packet took, each once and in
\* order: no buffer is filled again before its frame has left.
TxInOrder == Len(wire) <= accepted /\ \A n \in 1 .. Len(wire) : wire[n] = n

\* e1000_receive_packet returns exactly the frames the card stored, each once
\* and in order: none is overwritten or read twice.
RxInOrder == Len(delivered) <= arrived /\ \A n \in 1 .. Len(delivered) : delivered[n] = n

\* Driver and card never use a descriptor at the same time.
RingsInOrder == TxInOrder /\ RxInOrder

\* A frame the card has stored reaches the kernel.
RxDelivered == \A n \in 1 .. MaxFrames : (arrived >= n) ~> (Len(delivered) >= n)

\* The card does not stay without receive descriptors: the driver's writes of
\* RDT give it new ones.
RingRefilled == (rdh = rdt) ~> (rdh # rdt)

\* e1000.c:294 "Update tail pointer to start transmission": a frame that was
\* taken is sent.
TxSent == \A n \in 1 .. MaxFrames : (accepted >= n) ~> (Len(wire) >= n)
=============================================================================
