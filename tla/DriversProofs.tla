--------------------------- MODULE DriversProofs ---------------------------
(***************************************************************************)
(* Theorems about the devices and the filesystem above them: about         *)
(* Drivers, for rings of every length, drives of any size and any patience *)
(* of the driver, and about Fat16, for volumes with any number of          *)
(* clusters, directory entries and FAT sectors, and any files.             *)
(***************************************************************************)
EXTENDS Drivers, Fat16, SequenceTheorems, WellFoundedInduction, TLAPS

-----------------------------------------------------------------------------
(* The rings *)

\* The k-th slot behind h of a ring of n slots.
Pos(n, h, k) == IF h + k < n THEN h + k ELSE h + k - n

\* Frames whose descriptor e1000_send_packet has handed to the card.
Rung == IF driver = "filled" THEN accepted - 1 ELSE accepted

\* The transmit ring: the descriptors from the card's head on hold the frames
\* that were taken and not yet sent, in order and owned by the card.
TxInv ==
  LET n == E1000_NUM_TX_DESC
      sent == Len(wire)
  IN
    /\ wire \in Seq(Nat) /\ \A i \in 1 .. sent : wire[i] = i
    /\ accepted \in Nat /\ accepted - sent \in 0 .. n /\ Rung - sent \in 0 .. n
    /\ tdh \in TxSlots /\ tx_dd \in [TxSlots -> BOOLEAN] /\ tx_buffers \in [TxSlots -> Nat]
    /\ tx_cur = Pos(n, tdh, Rung - sent) /\ tdt = tx_cur
    /\ \A k \in 0 .. n - 1 : k < accepted - sent =>
         tx_buffers[Pos(n, tdh, k)] = sent + k + 1 /\ ~tx_dd[Pos(n, tdh, k)]

\* Frames whose descriptor e1000_receive_packet has given back to the card.
Released == IF driver = "copied" THEN Len(delivered) - 1 ELSE Len(delivered)

\* The receive ring: the descriptors from the driver's current one on hold the
\* frames that were stored and not yet returned, in order; the card's head is
\* behind them, and its tail is the descriptor before the current one.
RxInv ==
  LET n == E1000_NUM_RX_DESC
  IN
    /\ delivered \in Seq(Nat) /\ \A i \in 1 .. Len(delivered) : delivered[i] = i
    /\ arrived \in Nat /\ Len(delivered) <= arrived /\ Released \in Nat
    /\ arrived - Released \in 0 .. n - 1
    /\ rx_cur \in RxSlots /\ rx_dd \in [RxSlots -> BOOLEAN] /\ rx_buffers \in [RxSlots -> Nat]
    /\ rdh = Pos(n, rx_cur, arrived - Released) /\ rdt = Pos(n, rx_cur, n - 1)
    /\ \A k \in 0 .. n - 1 :
         /\ k < arrived - Released => rx_buffers[Pos(n, rx_cur, k)] = Released + k + 1
         /\ k >= arrived - Released => ~rx_dd[Pos(n, rx_cur, k)]

RingInv == driver \in {"idle", "filled", "copied"} /\ TxInv /\ RxInv

\* Walking round a ring of n slots from h, every slot is met once in a turn.
LEMMA PosSlot ==
  ASSUME NEW n \in Nat \ {0}, NEW h \in 0 .. n - 1, NEW k \in 0 .. n
  PROVE  Pos(n, h, k) \in 0 .. n - 1
BY DEF Pos

\* A turn begins and ends at h.
LEMMA PosEnds ==
  ASSUME NEW n \in Nat \ {0}, NEW h \in 0 .. n - 1
  PROVE  Pos(n, h, 0) = h /\ Pos(n, h, n) = h
BY DEF Pos

\* No slot is met twice before the turn ends.
LEMMA PosOnce ==
  ASSUME NEW n \in Nat \ {0}, NEW h \in 0 .. n - 1, NEW j \in 0 .. n - 1, NEW k \in 0 .. n - 1,
         Pos(n, h, j) = Pos(n, h, k)
  PROVE  j = k
BY DEF Pos

\* The index that the driver and the card step with % is the next slot.
LEMMA PosNext ==
  ASSUME NEW n \in Nat \ {0}, NEW h \in 0 .. n - 1
  PROVE  (h + 1) % n = Pos(n, h, 1) /\ Pos(n, h, 1) \in 0 .. n - 1
<1>1. Pos(n, h, 1) \in 0 .. n - 1
  BY DEF Pos
<1>2. CASE h + 1 < n
  BY <1>1, <1>2 DEF Pos
<1>3. CASE h + 1 = n
  <2>1. n % n = 0
    OBVIOUS
  <2>2. Pos(n, h, 1) = 0
    BY <1>3 DEF Pos
  <2>3. QED
    BY <1>1, <1>3, <2>1, <2>2
<1>4. QED
  BY <1>2, <1>3

\* Walking from the next slot.
LEMMA PosShift ==
  ASSUME NEW n \in Nat \ {0}, NEW h \in 0 .. n - 1, NEW k \in 0 .. n - 1
  PROVE  /\ Pos(n, Pos(n, h, 1), k) = Pos(n, h, k + 1)
         /\ Pos(n, Pos(n, h, k), 1) = Pos(n, h, k + 1)
BY DEF Pos

\* e1000_tx_init and e1000_rx_init.
LEMMA RingInit == Init => RingInv
<1> SUFFICES ASSUME Init PROVE RingInv
  OBVIOUS
<1>1. TxInv
  <2>1. E1000_NUM_TX_DESC \in Nat \ {0} /\ Len(<< >>) = 0 /\ << >> \in Seq(Nat)
    BY RingsAssumption
  <2>2. Rung = 0 /\ Len(wire) = 0 /\ accepted = 0
    BY DEF Init, Rung
  <2>3. tx_dd \in [TxSlots -> BOOLEAN] /\ tx_buffers \in [TxSlots -> Nat] /\ tdh \in TxSlots
    BY <2>1 DEF Init, TxSlots
  <2>4. tx_cur = Pos(E1000_NUM_TX_DESC, tdh, Rung - Len(wire)) /\ tdt = tx_cur
    <3>1. tx_cur = 0 /\ tdt = 0 /\ tdh = 0
      BY DEF Init
    <3>2. Rung - Len(wire) = 0
      BY <2>2
    <3>3. Pos(E1000_NUM_TX_DESC, 0, 0) = 0
      BY <2>1 DEF Pos
    <3>4. QED
      BY <3>1, <3>2, <3>3
  <2>5. QED
    BY <2>1, <2>2, <2>3, <2>4 DEF TxInv, Init
<1>2. RxInv
  BY RingsAssumption DEF Init, RxInv, Released, Pos, RxSlots
<1>3. QED
  BY <1>1, <1>2 DEF RingInv, Init

\* e1000_send_packet fills the descriptor behind the frames that wait: it is
\* done, so there are fewer of these than descriptors.
LEMMA FillRing == ASSUME RingInv, send_fill PROVE RingInv'
<1> DEFINE n == E1000_NUM_TX_DESC
           s == Len(wire)
           k0 == accepted - s
<1>1. n \in Nat \ {0} /\ tdh \in 0 .. n - 1 /\ s \in Nat /\ k0 \in 0 .. n /\ TxSlots = 0 .. n - 1
  BY RingsAssumption DEF RingInv, TxInv, TxSlots
<1>2. tx_cur = Pos(n, tdh, k0) /\ tx_dd[tx_cur]
  BY DEF RingInv, TxInv, Rung, send_fill
<1>3. k0 < n
  <2>1. k0 = n => ~tx_dd[Pos(n, tdh, 0)]
    BY <1>1 DEF RingInv, TxInv
  <2>2. Pos(n, tdh, 0) = tdh /\ Pos(n, tdh, n) = tdh
    BY <1>1, PosEnds
  <2>3. k0 # n
    BY <1>2, <2>1, <2>2
  <2>4. QED
    BY <1>1, <2>3
<1>4. /\ tx_cur \in 0 .. n - 1
      /\ \A k \in 0 .. n - 1 : Pos(n, tdh, k) \in 0 .. n - 1 /\ (k < k0 => Pos(n, tdh, k) # tx_cur)
  <2> HIDE DEF n, k0
  <2>1. k0 \in 0 .. n - 1 /\ \A k \in 0 .. n - 1 : k \in 0 .. n
    BY <1>1, <1>3
  <2>2. \A k \in 0 .. n - 1 : Pos(n, tdh, k) \in 0 .. n - 1
    BY <1>1, <2>1, PosSlot
  <2>3. \A k \in 0 .. n - 1 : Pos(n, tdh, k) = Pos(n, tdh, k0) => k = k0
    BY <1>1, <2>1, PosOnce
  <2>4. tx_cur \in 0 .. n - 1
    BY <1>2, <2>1, <2>2
  <2>5. \A k \in 0 .. n - 1 : k < k0 => k # k0
    BY <2>1
  <2>6. QED
    BY <1>2, <2>2, <2>3, <2>4, <2>5
<1>5. /\ driver = "idle" /\ accepted' = accepted + 1 /\ driver' = "filled"
      /\ tx_buffers' = [tx_buffers EXCEPT ![tx_cur] = accepted + 1]
      /\ tx_dd' = [tx_dd EXCEPT ![tx_cur] = FALSE]
      /\ UNCHANGED <<tx_cur, tdh, tdt, wire>> /\ UNCHANGED rxVars
  BY DEF send_fill
<1>6. tx_dd' \in [TxSlots -> BOOLEAN] /\ tx_buffers' \in [TxSlots -> Nat]
  <2>1. tx_dd \in [TxSlots -> BOOLEAN] /\ tx_buffers \in [TxSlots -> Nat] /\ accepted + 1 \in Nat
    BY DEF RingInv, TxInv
  <2>2. QED
    BY <1>5, <2>1
<1>7. \A k \in 0 .. n - 1 : k < k0 + 1 =>
        tx_buffers'[Pos(n, tdh, k)] = s + k + 1 /\ ~tx_dd'[Pos(n, tdh, k)]
  <2> SUFFICES ASSUME NEW k \in 0 .. n - 1, k < k0 + 1
               PROVE  tx_buffers'[Pos(n, tdh, k)] = s + k + 1 /\ ~tx_dd'[Pos(n, tdh, k)]
    OBVIOUS
  <2>1. CASE k < k0
    <3>1. tx_buffers[Pos(n, tdh, k)] = s + k + 1 /\ ~tx_dd[Pos(n, tdh, k)]
      BY <2>1 DEF RingInv, TxInv
    <3>2. QED
      BY <1>1, <1>4, <1>5, <2>1, <3>1 DEF RingInv, TxInv
  <2>2. CASE k = k0
    <3>1. s + k + 1 = accepted + 1
      BY <1>1, <2>2 DEF RingInv, TxInv
    <3>2. QED
      BY <1>1, <1>2, <1>4, <1>5, <2>2, <3>1 DEF RingInv, TxInv
  <2>3. QED
    BY <1>1, <2>1, <2>2
<1>8. Rung' = accepted /\ accepted' - Len(wire') = k0 + 1 /\ k0 + 1 \in 0 .. n /\ accepted' \in Nat
  BY <1>1, <1>3, <1>5 DEF RingInv, TxInv, Rung
<1>9. TxInv'
  BY <1>1, <1>2, <1>5, <1>6, <1>7, <1>8 DEF RingInv, TxInv, Rung
<1>10. RxInv'
  BY <1>5 DEF RingInv, RxInv, rxVars, Released
<1>11. QED
  BY <1>5, <1>9, <1>10 DEF RingInv

\* The doorbell hands the filled descriptor to the card.
LEMMA DoorbellRing == ASSUME RingInv, send_doorbell PROVE RingInv'
<1> DEFINE n == E1000_NUM_TX_DESC
           s == Len(wire)
           k0 == accepted - s
<1>1. n \in Nat \ {0} /\ tdh \in 0 .. n - 1 /\ s \in Nat /\ k0 \in 0 .. n /\ TxSlots = 0 .. n - 1
  BY RingsAssumption DEF RingInv, TxInv, TxSlots
<1>2. /\ driver = "filled" /\ driver' = "idle" /\ tx_cur' = (tx_cur + 1) % n /\ tdt' = tx_cur'
      /\ UNCHANGED <<tx_dd, tx_buffers, tdh, accepted, wire>> /\ UNCHANGED rxVars
  BY DEF send_doorbell, NextTx
<1>3. k0 - 1 \in 0 .. n - 1 /\ tx_cur = Pos(n, tdh, k0 - 1)
  BY <1>1, <1>2 DEF RingInv, TxInv, Rung
<1>4. tx_cur' = Pos(n, tdh, k0)
  <2>1. tx_cur \in 0 .. n - 1
    BY <1>1, <1>3, PosSlot, PosEnds, PosOnce, PosNext, PosShift
  <2>2. tx_cur' = Pos(n, tx_cur, 1)
    BY <1>1, <1>2, <2>1, PosSlot, PosEnds, PosOnce, PosNext, PosShift
  <2>3. Pos(n, Pos(n, tdh, k0 - 1), 1) = Pos(n, tdh, (k0 - 1) + 1) /\ (k0 - 1) + 1 = k0
    BY <1>1, <1>3, PosShift
  <2>4. QED
    BY <1>3, <2>2, <2>3
<1>5. TxInv'
  BY <1>1, <1>2, <1>4 DEF RingInv, TxInv, Rung
<1>6. RxInv'
  BY <1>2 DEF RingInv, RxInv, rxVars, Released
<1>7. QED
  BY <1>2, <1>5, <1>6 DEF RingInv

\* The card sends the oldest frame that waits.
LEMMA TransmitRing == ASSUME RingInv, card_transmit PROVE RingInv'
<1> DEFINE n == E1000_NUM_TX_DESC
           s == Len(wire)
           k0 == accepted - s
<1>1. n \in Nat \ {0} /\ tdh \in 0 .. n - 1 /\ s \in Nat /\ k0 \in 0 .. n /\ TxSlots = 0 .. n - 1
  BY RingsAssumption DEF RingInv, TxInv, TxSlots
<1>2. /\ tdh # tdt /\ wire' = Append(wire, tx_buffers[tdh])
      /\ tx_dd' = [tx_dd EXCEPT ![tdh] = TRUE] /\ tdh' = (tdh + 1) % n
      /\ UNCHANGED <<driver, tx_buffers, tx_cur, tdt, accepted>> /\ UNCHANGED rxVars
  BY DEF card_transmit, NextTx
<1>3. Rung - s \in 0 .. n /\ Rung \in Int /\ tx_cur = Pos(n, tdh, Rung - s) /\ tdt = tx_cur
      /\ accepted \in Nat /\ Rung <= accepted
  BY <1>1 DEF RingInv, TxInv, Rung
<1>4. Rung - s \in 1 .. n - 1 /\ k0 >= 1
  <2>1. Rung - s # 0 /\ Rung - s # n
    BY <1>1, <1>2, <1>3, PosSlot, PosEnds, PosOnce, PosNext, PosShift
  <2>2. QED
    BY <1>1, <1>3, <2>1
<1>5. tx_buffers[tdh] = s + 1
  <2>1. 0 \in 0 .. n - 1 /\ 0 < k0 /\ s + 0 + 1 = s + 1
    BY <1>1, <1>4
  <2>2. tx_buffers[Pos(n, tdh, 0)] = s + 0 + 1
    BY <2>1 DEF RingInv, TxInv
  <2>3. Pos(n, tdh, 0) = tdh
    BY <1>1, PosEnds
  <2>4. QED
    BY <2>1, <2>2, <2>3
<1>6. wire' \in Seq(Nat) /\ Len(wire') = s + 1 /\ \A i \in 1 .. s + 1 : wire'[i] = i
  BY <1>1, <1>2, <1>5 DEF RingInv, TxInv
<1>7. /\ tdh' = Pos(n, tdh, 1) /\ tdh' \in 0 .. n - 1
      /\ \A k \in 0 .. n - 1 : Pos(n, tdh', k) = Pos(n, tdh, k + 1)
  <2>1. tdh' = Pos(n, tdh, 1) /\ tdh' \in 0 .. n - 1
    BY <1>1, <1>2, PosNext
  <2>2. \A k \in 0 .. n - 1 : Pos(n, Pos(n, tdh, 1), k) = Pos(n, tdh, k + 1)
    BY <1>1, PosShift
  <2>3. QED
    BY <2>1, <2>2
<1>8. tx_dd' \in [TxSlots -> BOOLEAN]
  BY <1>1, <1>2 DEF RingInv, TxInv
<1>9. tx_cur = Pos(n, tdh', (Rung - s) - 1)
  <2>1. (Rung - s) - 1 \in 0 .. n - 1 /\ ((Rung - s) - 1) + 1 = Rung - s
    BY <1>1, <1>3, <1>4
  <2>2. QED
    BY <1>3, <1>7, <2>1
<1>10. \A k \in 0 .. n - 1 : k < k0 - 1 =>
         tx_buffers[Pos(n, tdh', k)] = s + 1 + k + 1 /\ ~tx_dd'[Pos(n, tdh', k)]
  <2> SUFFICES ASSUME NEW k \in 0 .. n - 1, k < k0 - 1
               PROVE  tx_buffers[Pos(n, tdh', k)] = s + 1 + k + 1 /\ ~tx_dd'[Pos(n, tdh', k)]
    OBVIOUS
  <2>1. k + 1 \in 0 .. n - 1 /\ k + 1 < k0 /\ k + 1 # 0 /\ 0 \in 0 .. n - 1
    BY <1>1
  <2>2. tx_buffers[Pos(n, tdh, k+1)] = s + (k + 1) + 1 /\ ~tx_dd[Pos(n, tdh, k+1)]
    BY <2>1 DEF RingInv, TxInv
  <2>3. Pos(n, tdh, k+1) # tdh /\ Pos(n, tdh, k+1) \in 0 .. n - 1
    <3> DEFINE j == k + 1
    <3>1. j \in 0 .. n - 1 /\ j \in 0 .. n /\ j # 0 /\ 0 \in 0 .. n - 1
      BY <1>1, <2>1
    <3> HIDE DEF j, n
    <3>2. Pos(n, tdh, j) \in 0 .. n - 1 /\ Pos(n, tdh, 0) = tdh
      BY <1>1, <3>1, PosSlot, PosEnds
    <3>3. Pos(n, tdh, j) # Pos(n, tdh, 0)
      BY <1>1, <3>1, PosOnce
    <3>4. QED
      BY <3>2, <3>3 DEF j
  <2>4. ~tx_dd'[Pos(n, tdh, k+1)]
    BY <1>1, <1>2, <2>2, <2>3 DEF RingInv, TxInv
  <2>5. QED
    BY <1>1, <1>7, <2>2, <2>4
<1>11. /\ Rung' = Rung /\ Rung - (s + 1) = (Rung - s) - 1 /\ (Rung - s) - 1 \in 0 .. n
       /\ accepted - (s + 1) = k0 - 1 /\ k0 - 1 \in 0 .. n
  BY <1>1, <1>2, <1>3, <1>4 DEF Rung
<1>12. TxInv'
  BY <1>1, <1>2, <1>3, <1>6, <1>7, <1>8, <1>9, <1>10, <1>11 DEF RingInv, TxInv
<1>13. RxInv'
  BY <1>2 DEF RingInv, RxInv, rxVars, Released
<1>14. QED
  BY <1>2, <1>12, <1>13 DEF RingInv

\* e1000_receive_packet finds the oldest frame that was stored.
LEMMA CopyRing == ASSUME RingInv, receive_copy PROVE RingInv'
<1> DEFINE n == E1000_NUM_RX_DESC
           l == Len(delivered)
<1>1. /\ n \in Nat \ {0} /\ rx_cur \in 0 .. n - 1 /\ l \in Nat /\ RxSlots = 0 .. n - 1
      /\ arrived \in Nat
  BY RingsAssumption DEF RingInv, RxInv, RxSlots
<1>2. /\ driver = "idle" /\ driver' = "copied" /\ rx_dd[rx_cur]
      /\ delivered' = Append(delivered, rx_buffers[rx_cur])
      /\ UNCHANGED <<rx_dd, rx_buffers, rx_cur, rdh, rdt, arrived>> /\ UNCHANGED txVars
  BY DEF receive_copy
<1>3. Released = l /\ arrived - l \in 0 .. n - 1
  BY <1>2 DEF RingInv, RxInv, Released
<1>4. arrived - l > 0
  <2>1. arrived - l = 0 => ~rx_dd[Pos(n, rx_cur, 0)]
    BY <1>1, <1>3 DEF RingInv, RxInv
  <2>2. Pos(n, rx_cur, 0) = rx_cur
    BY <1>1, PosEnds
  <2>3. arrived - l # 0
    BY <1>2, <2>1, <2>2
  <2>4. QED
    BY <1>3, <2>3
<1>5. rx_buffers[rx_cur] = l + 1
  BY <1>1, <1>3, <1>4, PosSlot, PosEnds, PosOnce, PosNext, PosShift DEF RingInv, RxInv
<1>6. delivered' \in Seq(Nat) /\ Len(delivered') = l + 1 /\ \A i \in 1 .. l + 1 : delivered'[i] = i
  BY <1>1, <1>2, <1>5 DEF RingInv, RxInv
<1>7. Released' = Released
  BY <1>1, <1>2, <1>3, <1>6 DEF Released
<1>8. RxInv'
  <2>1. l + 1 <= arrived
    BY <1>1, <1>3, <1>4
  <2>2. QED
    BY <1>1, <1>2, <1>6, <1>7, <2>1 DEF RingInv, RxInv
<1>9. TxInv'
  BY <1>2 DEF RingInv, TxInv, txVars, Rung
<1>10. QED
  BY <1>2, <1>8, <1>9 DEF RingInv

\* The descriptor goes back to the card, as the new tail.
LEMMA ReleaseRing == ASSUME RingInv, receive_release PROVE RingInv'
<1> DEFINE n == E1000_NUM_RX_DESC
           v == arrived - Released
<1>1. /\ n \in Nat \ {0} /\ rx_cur \in 0 .. n - 1 /\ RxSlots = 0 .. n - 1
      /\ arrived \in Nat /\ Released \in Nat /\ v \in 0 .. n - 1
  BY RingsAssumption DEF RingInv, RxInv, RxSlots
<1>2. /\ driver = "copied" /\ driver' = "idle"
      /\ rx_dd' = [rx_dd EXCEPT ![rx_cur] = FALSE] /\ rdt' = rx_cur /\ rx_cur' = (rx_cur + 1) % n
      /\ UNCHANGED <<rx_buffers, rdh, arrived, delivered>> /\ UNCHANGED txVars
  BY DEF receive_release, NextRx
<1>3. /\ rx_cur' = Pos(n, rx_cur, 1) /\ rx_cur' \in 0 .. n - 1
      /\ \A k \in 0 .. n - 1 : Pos(n, rx_cur', k) = Pos(n, rx_cur, k + 1)
      /\ Pos(n, rx_cur, n) = rx_cur
  <2>1. rx_cur' = Pos(n, rx_cur, 1) /\ rx_cur' \in 0 .. n - 1
    BY <1>1, <1>2, PosNext
  <2>2. \A k \in 0 .. n - 1 : Pos(n, Pos(n, rx_cur, 1), k) = Pos(n, rx_cur, k + 1)
    BY <1>1, PosShift
  <2>3. Pos(n, rx_cur, n) = rx_cur
    BY <1>1, PosEnds
  <2>4. QED
    BY <2>1, <2>2, <2>3
<1>4. Len(delivered) = Released + 1 /\ Released' = Released + 1 /\ v >= 1
  BY <1>1, <1>2 DEF RingInv, RxInv, Released
<1>5. rdt' = Pos(n, rx_cur', n - 1)
  BY <1>1, <1>2, <1>3
<1>6. rdh = Pos(n, rx_cur', v - 1)
  <2>1. v - 1 \in 0 .. n - 1 /\ (v - 1) + 1 = v /\ rdh = Pos(n, rx_cur, v)
    BY <1>1, <1>4 DEF RingInv, RxInv
  <2>2. QED
    BY <1>3, <2>1
<1>7. rx_dd' \in [RxSlots -> BOOLEAN]
  BY <1>1, <1>2 DEF RingInv, RxInv
<1>8. ASSUME NEW k \in 0 .. n - 1
      PROVE  /\ k < v - 1 => rx_buffers[Pos(n, rx_cur', k)] = Released + 1 + k + 1
             /\ k >= v - 1 => ~rx_dd'[Pos(n, rx_cur', k)]
  <2>1. Pos(n, rx_cur', k) = Pos(n, rx_cur, k + 1)
    BY <1>3
  <2>2. CASE k < v - 1
    <3>1. k + 1 \in 0 .. n - 1 /\ k + 1 < v
      BY <1>1, <2>2
    <3>2. rx_buffers[Pos(n, rx_cur, k+1)] = Released + (k + 1) + 1
      BY <3>1 DEF RingInv, RxInv
    <3>3. QED
      BY <1>1, <2>1, <2>2, <3>2
  <2>3. CASE k >= v - 1 /\ k + 1 < n
    <3>1. k + 1 \in 0 .. n - 1 /\ k + 1 >= v
      BY <1>1, <2>3
    <3>2. ~rx_dd[Pos(n, rx_cur, k+1)]
      BY <3>1 DEF RingInv, RxInv
    <3>2a. Pos(n, rx_cur, k+1) \in RxSlots
      <4>1. k + 1 \in 0 .. n
        BY <1>1, <3>1
      <4>2. QED
        BY <1>1, <4>1, PosSlot
    <3>3. QED
      BY <1>1, <1>2, <2>1, <2>3, <3>2, <3>2a DEF RingInv, RxInv
  <2>4. CASE k + 1 = n
    <3>1. ~rx_dd'[rx_cur]
      BY <1>1, <1>2 DEF RingInv, RxInv
    <3>2. QED
      BY <1>1, <1>3, <2>1, <2>4, <3>1
  <2>5. QED
    BY <1>1, <2>2, <2>3, <2>4
<1>9. arrived - Released' = v - 1 /\ v - 1 \in 0 .. n - 1 /\ Released' \in Nat /\ Len(delivered) <= arrived
  BY <1>1, <1>4
<1>10. RxInv'
  BY <1>1, <1>2, <1>3, <1>4, <1>5, <1>6, <1>7, <1>8, <1>9 DEF RingInv, RxInv
<1>11. TxInv'
  BY <1>2 DEF RingInv, TxInv, txVars, Rung
<1>12. QED
  BY <1>2, <1>10, <1>11 DEF RingInv

\* The card stores a frame behind those that wait.
LEMMA StoreRing == ASSUME RingInv, card_store PROVE RingInv'
<1> DEFINE n == E1000_NUM_RX_DESC
           v == arrived - Released
<1>1. /\ n \in Nat \ {0} /\ rx_cur \in 0 .. n - 1 /\ RxSlots = 0 .. n - 1
      /\ arrived \in Nat /\ Released \in Nat /\ v \in 0 .. n - 1
  BY RingsAssumption DEF RingInv, RxInv, RxSlots
<1>2. /\ rdh # rdt /\ arrived' = arrived + 1
      /\ rx_buffers' = [rx_buffers EXCEPT ![rdh] = arrived + 1]
      /\ rx_dd' = [rx_dd EXCEPT ![rdh] = TRUE] /\ rdh' = (rdh + 1) % n
      /\ UNCHANGED <<driver, rx_cur, rdt, delivered>> /\ UNCHANGED txVars
  BY DEF card_store, NextRx
<1>3. rdh = Pos(n, rx_cur, v) /\ rdt = Pos(n, rx_cur, n - 1) /\ rdh \in 0 .. n - 1
  BY <1>1, PosSlot, PosEnds, PosOnce, PosNext, PosShift DEF RingInv, RxInv
<1>4. v + 1 \in 0 .. n - 1
  BY <1>1, <1>2, <1>3
<1>5. rdh' = Pos(n, rx_cur, v + 1)
  <2>1. rdh' = Pos(n, rdh, 1)
    BY <1>1, <1>2, <1>3, PosSlot, PosEnds, PosOnce, PosNext, PosShift
  <2>2. QED
    BY <1>1, <1>3, <2>1, PosShift
<1>6. rx_dd' \in [RxSlots -> BOOLEAN] /\ rx_buffers' \in [RxSlots -> Nat]
  <2>1. rx_dd \in [RxSlots -> BOOLEAN] /\ rx_buffers \in [RxSlots -> Nat] /\ arrived + 1 \in Nat
    BY DEF RingInv, RxInv
  <2>2. QED
    BY <1>2, <2>1
<1>7. ASSUME NEW k \in 0 .. n - 1
      PROVE  /\ k < v + 1 => rx_buffers'[Pos(n, rx_cur, k)] = Released + k + 1
             /\ k >= v + 1 => ~rx_dd'[Pos(n, rx_cur, k)]
  <2>1. Pos(n, rx_cur, k) \in RxSlots /\ (k # v => Pos(n, rx_cur, k) # rdh)
    <3> HIDE DEF n, v
    <3>1. k \in 0 .. n
      BY <1>1
    <3>2. Pos(n, rx_cur, k) \in RxSlots
      BY <1>1, <3>1, PosSlot
    <3>3. k # v => Pos(n, rx_cur, k) # Pos(n, rx_cur, v)
      BY <1>1, PosOnce
    <3>4. QED
      BY <1>3, <3>2, <3>3
  <2>2. /\ k < v => rx_buffers[Pos(n, rx_cur, k)] = Released + k + 1
        /\ k >= v => ~rx_dd[Pos(n, rx_cur, k)]
    BY DEF RingInv, RxInv
  <2>3. CASE k = v
    <3>1. rx_buffers'[rdh] = arrived + 1 /\ Released + k + 1 = arrived + 1
      BY <1>1, <1>2, <1>3, <2>3 DEF RingInv, RxInv
    <3>2. QED
      BY <1>1, <1>3, <2>3, <3>1
  <2>4. CASE k # v
    <3>1. rx_buffers'[Pos(n, rx_cur, k)] = rx_buffers[Pos(n, rx_cur, k)]
          /\ rx_dd'[Pos(n, rx_cur, k)] = rx_dd[Pos(n, rx_cur, k)]
      BY <1>1, <1>2, <2>1, <2>4 DEF RingInv, RxInv
    <3>2. QED
      BY <1>1, <2>2, <2>4, <3>1
  <2>5. QED
    BY <2>3, <2>4
<1>8. Released' = Released /\ arrived' - Released = v + 1 /\ arrived' \in Nat /\ Len(delivered) <= arrived'
  BY <1>1, <1>2 DEF RingInv, RxInv, Released
<1>9. RxInv'
  BY <1>1, <1>2, <1>3, <1>4, <1>5, <1>6, <1>7, <1>8 DEF RingInv, RxInv
<1>10. TxInv'
  BY <1>2 DEF RingInv, TxInv, txVars, Rung
<1>11. QED
  BY <1>2, <1>9, <1>10 DEF RingInv

-----------------------------------------------------------------------------
(* The drives *)

CallType ==
  [pc : {"boot", "idle", "ready", "command", "drq", "transfer", "flush_command", "flush"},
   op : {"none", "read", "write"}, drive : Channel, lba : Nat, count : Nat,
   sector : Nat, timeout : Nat, result : Int]

DriveType ==
  [cmd : {"none", "identify", "read", "write", "flush"}, at : Nat, left : Int, data : Nat \cup {NoData},
   status : {"ready", "busy", "drq", "err"}]

AtaTypeOK ==
  /\ present \in [Channel -> BOOLEAN]
  /\ drive_reg \in Channel
  /\ drives \in [Channel -> DriveType]
  /\ disk \in [Channel -> [Sectors -> Nat]]
  /\ last \in [before : [Channel -> [Sectors -> Nat]], drive : Channel,
               lba : Nat, count : Nat, data : Nat]
  /\ call \in CallType
  /\ buffer \in Seq(Nat \cup {NoData})
  /\ calls \in Nat

\* Only the drive that is selected can be at work, but for one that did not
\* answer when it was identified, and that is never used.
Selection ==
  /\ call.pc = "boot" =>
       /\ call.op = "none" /\ ~present[1] /\ (present[0] => drives[0].status # "busy")
       /\ call.drive = 0 => ~present[0] /\ drives[0].status # "busy"
  /\ \A d \in Channel : /\ present[d] /\ d # drive_reg => call.pc = "boot" \/ drives[d].status # "busy"
                        /\ ~present[d] => drives[d].cmd \in {"none", "identify"}
  /\ call.pc \notin {"boot", "idle"} =>
       /\ present[call.drive] /\ call.op # "none" /\ call.count > 0
       /\ \A k \in Nat : k < call.count => call.lba + k \in Sectors
  /\ call.pc \in {"ready", "command"} => call.sector = 0 /\ buffer = << >>
  /\ call.pc = "command" => drives[drive_reg].status # "busy"
  /\ call.pc \in {"drq", "transfer"} => call.sector < call.count
  /\ call.pc \in {"flush_command", "flush"} => call.op = "write"
  /\ call.pc = "transfer" => drives[drive_reg].status = "drq"

\* The command of the call has been sent, and the call has not failed since.
Sent(kind) ==
  \/ call.op = kind /\ call.pc \in {"drq", "transfer", "flush_command", "flush"}
  \/ Done(kind) /\ call.result = call.count

\* Sectors transferred so far.
Moved == IF call.pc \in {"drq", "transfer"} THEN call.sector ELSE call.count

\* During and after a read the drive works on that read, and the buffer holds
\* the sectors passed so far.
Reading ==
  Sent("read") =>
    /\ present[call.drive] /\ drive_reg = call.drive
    /\ drives[drive_reg].cmd = "read" /\ drives[drive_reg].at = call.lba + Moved
    /\ drives[drive_reg].data = NoData
    /\ buffer = [k \in 1 .. Moved |-> disk[call.drive][call.lba + k - 1]]

\* A drive at work has a sector to store.
HasSector(d) == drives[d].status = "busy" /\ drives[d].cmd = "write" /\ drives[d].data # NoData

\* n sectors of the last write are stored, and a drive that has one more to store,
\* however long ago that write was given up, stores the next of them.
Late(n) ==
  /\ n <= last.count /\ Written(n)
  /\ \A d \in Channel : HasSector(d) =>
       /\ d = last.drive /\ drives[d].at = last.lba + n
       /\ drives[d].data = last.data /\ n < last.count

\* During and after a write that has not failed, these are all but perhaps the last
\* sector that was passed.
Stored(n) ==
  /\ Moved - 1 <= n /\ n <= Moved
  /\ drives[drive_reg].cmd = "write" =>
       /\ drives[drive_reg].at = call.lba + n
       /\ drives[drive_reg].data = NoData => n = Moved
       /\ drives[drive_reg].data # NoData =>
            /\ n = Moved - 1 /\ drives[drive_reg].data = calls
            /\ drives[drive_reg].status \in {"busy", "err"}

\* Then the last write is that of the call.
LastIsCall ==
  /\ last.drive = call.drive /\ last.lba = call.lba
  /\ last.count = call.count /\ last.data = calls

Writing ==
  Sent("write") =>
    /\ present[call.drive] /\ drive_reg = call.drive
    /\ drives[drive_reg].cmd \in {"write", "flush"}
    /\ call.pc \in {"drq", "transfer"} => drives[drive_reg].cmd = "write"
    /\ LastIsCall

Storing == \E n \in Nat : Late(n) /\ (Sent("write") => Stored(n))

AtaInv == AtaTypeOK /\ Selection /\ Reading /\ Writing /\ Storing

\* What a drive holds after n sectors of a write, as a whole and sector by
\* sector.
Overwritten(dk, bf, d, lba, n, c) ==
  dk = [bf EXCEPT ![d] = [s \in Sectors |-> IF s \in lba .. lba + n - 1 THEN c ELSE @[s]]]

BySector(dk, bf, d, lba, n, c) ==
  /\ \A e \in Channel : e # d => dk[e] = bf[e]
  /\ \A s \in Sectors : dk[d][s] = IF lba <= s /\ s < lba + n THEN c ELSE bf[d][s]

\* The two say the same.
LEMMA SectorBySector ==
  ASSUME NEW dk \in [Channel -> [Sectors -> Nat]], NEW bf \in [Channel -> [Sectors -> Nat]],
         NEW d \in Channel, NEW lba \in Nat, NEW n \in Nat, NEW c \in Nat
  PROVE  Overwritten(dk, bf, d, lba, n, c) <=> BySector(dk, bf, d, lba, n, c)
<1> DEFINE row == [s \in Sectors |-> IF s \in lba .. lba + n - 1 THEN c ELSE bf[d][s]]
<1>1. \A s \in Sectors : (s \in lba .. lba + n - 1) <=> (lba <= s /\ s < lba + n)
  BY AtaAssumption
<1>2. [bf EXCEPT ![d] = [s \in Sectors |-> IF s \in lba .. lba + n - 1 THEN c ELSE @[s]]]
      = [bf EXCEPT ![d] = row]
  OBVIOUS
<1>3. \A s \in Sectors : row[s] = IF lba <= s /\ s < lba + n THEN c ELSE bf[d][s]
  BY <1>1
<1>4. row = [s \in Sectors |-> row[s]]
  OBVIOUS
<1> HIDE DEF row
<1>5. dk[d] = row <=> \A s \in Sectors : dk[d][s] = row[s]
  BY <1>4
<1>6. dk = [bf EXCEPT ![d] = row] <=> (\A e \in Channel : e # d => dk[e] = bf[e]) /\ dk[d] = row
  OBVIOUS
<1>7. QED
  BY <1>2, <1>3, <1>5, <1>6 DEF Overwritten, BySector

\* Nothing is on the way to a drive before the driver is initialised.
LEMMA AtaInitInv == AtaInit => AtaInv
<1> SUFFICES ASSUME AtaInit PROVE AtaInv
  OBVIOUS
<1>1. Resting \in DriveType /\ NoCall \in CallType
  BY DEF Resting, NoCall, DriveType, CallType, Channel, NoData
<1>2. AtaTypeOK
  BY <1>1 DEF AtaInit, AtaTypeOK, Channel
<1>3. call.pc = "boot" /\ call.op = "none"
  BY DEF AtaInit, NoCall
<1>4. \A d \in Channel : ~present[d] /\ drives[d].status = "ready" /\ drives[d].cmd = "none"
  BY DEF AtaInit, Resting
<1>5. Selection
  BY <1>3, <1>4 DEF Selection, Channel
<1>6. ~Sent("read") /\ ~Sent("write")
  BY <1>3 DEF Sent, Done
<1>7. Storing
  <2>1. last = [before |-> disk, drive |-> 0, lba |-> 0, count |-> 0, data |-> 0]
        /\ disk \in [Channel -> [Sectors -> Nat]] /\ 0 \in Channel
    BY <1>2 DEF AtaInit, AtaTypeOK, Channel
  <2>2. Written(0)
    <3>1. BySector(disk, disk, 0, 0, 0, 0)
      BY AtaAssumption DEF BySector
    <3>2. Overwritten(disk, disk, 0, 0, 0, 0)
      BY <2>1, <3>1, SectorBySector
    <3>3. QED
      BY <2>1, <3>2 DEF Written, Overwritten
  <2>3. Late(0)
    BY <1>4, <2>1, <2>2 DEF Late, HasSector
  <2>4. QED
    BY <1>6, <2>3 DEF Storing
<1>8. QED
  BY <1>2, <1>5, <1>6, <1>7 DEF AtaInv, Reading, Writing

\* What is stored of the last write stays as it is, if no drive gets a sector to
\* store.
LEMMA LateKept ==
  ASSUME NEW n \in Nat, Late(n), UNCHANGED <<disk, last>>,
         \A d \in Channel : HasSector(d)' => HasSector(d) /\ drives'[d] = drives[d]
  PROVE  Late(n)'
<1>1. Written(n)'
  BY DEF Late, Written
<1>2. n <= last'.count
  BY DEF Late
<1>3. ASSUME NEW d \in Channel, HasSector(d)'
      PROVE  /\ d = last'.drive /\ drives'[d].at = last'.lba + n
             /\ drives'[d].data = last'.data /\ n < last'.count
  BY <1>3 DEF Late
<1>4. QED
  BY <1>1, <1>2, <1>3 DEF Late

\* That is all there is to show when no write of the call is under way.
LEMMA StoringKept ==
  ASSUME AtaInv, UNCHANGED <<disk, last>>, ~Sent("write")',
         \A d \in Channel : HasSector(d)' => HasSector(d) /\ drives'[d] = drives[d]
  PROVE  Storing'
<1>1. PICK n \in Nat : Late(n)
  BY DEF AtaInv, Storing
<1>2. Late(n)'
  BY <1>1, LateKept
<1>3. QED
  BY <1>2 DEF Storing

\* What a command leaves of the drives: a busy drive, and every other drive,
\* stays as it is.
LEMMA CommandedDrives ==
  ASSUME AtaTypeOK, NEW d \in Channel, NEW cmd, NEW lba, NEW count,
         cmd \in {"identify", "read", "write", "flush"}, lba \in Nat, count \in Int
  PROVE  /\ Commanded(d, cmd, lba, count) \in [Channel -> DriveType]
         /\ \A e \in Channel : e # d \/ drives[d].status = "busy" => Commanded(d, cmd, lba, count)[e] = drives[e]
         /\ drives[d].status # "busy" =>
              /\ Commanded(d, cmd, lba, count)[d].cmd = cmd
              /\ Commanded(d, cmd, lba, count)[d].at = lba
              /\ Commanded(d, cmd, lba, count)[d].data = NoData
              /\ Commanded(d, cmd, lba, count)[d].status = "busy"
<1> DEFINE r == [cmd |-> cmd, at |-> lba, left |-> count, data |-> NoData, status |-> "busy"]
<1>1. r \in DriveType
  BY DEF DriveType
<1>2. r.cmd = cmd /\ r.at = lba /\ r.data = NoData /\ r.status = "busy"
  OBVIOUS
<1>3. drives \in [Channel -> DriveType]
  BY DEF AtaTypeOK
<1>4. Commanded(d, cmd, lba, count) = IF drives[d].status = "busy" THEN drives ELSE [drives EXCEPT ![d] = r]
  BY DEF Commanded
<1> HIDE DEF r
<1>5. CASE drives[d].status = "busy"
  BY <1>3, <1>4, <1>5
<1>6. CASE drives[d].status # "busy"
  BY <1>1, <1>2, <1>3, <1>4, <1>6
<1>7. QED
  BY <1>5, <1>6

\* ata_init looks for one drive: a drive that is found is not at work.
LEMMA InitStep == ASSUME AtaInv, ata_init PROVE AtaInv'
<1> DEFINE d == call.drive
           D == Commanded(d, "identify", 0, 1)
<1>1. /\ call.pc = "boot" /\ d \in Channel /\ drive_reg' = d
      /\ call' = IF d = 0 THEN [call EXCEPT !.drive = 1] ELSE [call EXCEPT !.pc = "idle"]
      /\ UNCHANGED <<disk, buffer, calls, last>>
      /\ call \in CallType /\ call.op = "none"
  BY DEF ata_init, ata_identify, AtaInv, AtaTypeOK, CallType, Selection
<1>2. d = 0 \/ d = 1
  BY <1>1 DEF Channel
<1>3. /\ call' \in CallType /\ call'.op = "none"
      /\ d = 0 => call'.pc = "boot" /\ call'.drive = 1
      /\ d = 1 => call'.pc = "idle"
  <2>1. CASE d = 0
    BY <1>1, <2>1 DEF CallType, Channel
  <2>2. CASE d = 1
    BY <1>1, <2>2 DEF CallType, Channel
  <2>3. QED
    BY <1>2, <2>1, <2>2
<1>4. \/ UNCHANGED <<present, drives>>
      \/ drives' = D /\ UNCHANGED present
      \/ present' = [present EXCEPT ![d] = TRUE] /\ UNCHANGED drives
  BY DEF ata_init, ata_identify
<1>5. /\ D \in [Channel -> DriveType]
      /\ \A e \in Channel : e # d \/ drives[d].status = "busy" => D[e] = drives[e]
      /\ drives[d].status # "busy" => D[d].cmd = "identify"
  BY <1>1, CommandedDrives DEF AtaInv
<1>6. /\ present \in [Channel -> BOOLEAN] /\ drives \in [Channel -> DriveType]
      /\ ~present[1] /\ (present[0] => drives[0].status # "busy")
      /\ d = 0 => ~present[0] /\ drives[0].status # "busy"
      /\ \A e \in Channel : ~present[e] => drives[e].cmd \in {"none", "identify"}
  BY <1>1 DEF AtaInv, AtaTypeOK, Selection
<1> HIDE DEF D
<1>7. /\ present' \in [Channel -> BOOLEAN] /\ drives' \in [Channel -> DriveType]
      /\ \A e \in Channel : e # d => present'[e] = present[e] /\ drives'[e] = drives[e]
      /\ ~present'[d] => drives'[d].cmd \in {"none", "identify"}
      /\ d = 0 => (present'[0] => drives'[0].status # "busy")
  BY <1>1, <1>2, <1>4, <1>5, <1>6
<1>8. AtaTypeOK'
  BY <1>1, <1>3, <1>7 DEF AtaInv, AtaTypeOK
<1>9. ~Sent("read")' /\ ~Sent("write")'
  BY <1>3 DEF Sent, Done
<1>10. Selection'
  <2>1. \A e \in Channel : ~present'[e] => drives'[e].cmd \in {"none", "identify"}
    BY <1>6, <1>7
  <2>2. \A e \in Channel : present'[e] /\ e # d => call'.pc = "boot" \/ drives'[e].status # "busy"
    BY <1>2, <1>3, <1>6, <1>7 DEF Channel
  <2>3. CASE d = 0
    BY <1>1, <1>3, <1>6, <1>7, <2>1, <2>2, <2>3 DEF Selection, Channel
  <2>4. CASE d = 1
    BY <1>1, <1>3, <1>6, <1>7, <2>1, <2>2, <2>4 DEF Selection, Channel
  <2>5. QED
    BY <1>2, <2>3, <2>4
<1>11. Storing'
  <2>1. \A e \in Channel : HasSector(e)' => drives'[e] = drives[e]
    BY <1>1, <1>4, <1>5 DEF HasSector
  <2>2. \A e \in Channel : HasSector(e)' => HasSector(e) /\ drives'[e] = drives[e]
    BY <2>1 DEF HasSector
  <2>3. QED
    BY <1>1, <1>9, <2>2, StoringKept
<1>12. QED
  BY <1>8, <1>9, <1>10, <1>11 DEF AtaInv, Reading, Writing

\* A step of the driver alone, between transfers, keeps what is known of the
\* transfer, if the call has not failed.
LEMMA CallOnly ==
  ASSUME AtaInv, UNCHANGED <<present, drive_reg, drives, disk, buffer, calls, last>>,
         call'.drive = call.drive, call'.lba = call.lba, call'.count = call.count,
         Sent("read")' => Sent("read") /\ Moved' = Moved,
         Sent("write")' => Sent("write") /\ Moved' = Moved,
         call'.pc \in {"drq", "transfer"} => call.pc \in {"drq", "transfer"}
  PROVE  Reading' /\ Writing' /\ Storing'
<1>1. Reading'
  <2> SUFFICES ASSUME Sent("read")'
      PROVE  /\ present'[call'.drive] /\ drive_reg' = call'.drive
             /\ drives'[drive_reg'].cmd = "read" /\ drives'[drive_reg'].at = call'.lba + Moved'
             /\ drives'[drive_reg'].data = NoData
             /\ buffer' = [k \in 1 .. Moved' |-> disk'[call'.drive][call'.lba + k - 1]]
    BY DEF Reading
  <2>1. /\ present[call.drive] /\ drive_reg = call.drive
        /\ drives[drive_reg].cmd = "read" /\ drives[drive_reg].at = call.lba + Moved
        /\ drives[drive_reg].data = NoData
        /\ buffer = [k \in 1 .. Moved |-> disk[call.drive][call.lba + k - 1]]
    BY DEF AtaInv, Reading
  <2>2. Moved' = Moved
    OBVIOUS
  <2>3. QED
    BY <2>1, <2>2
<1>2. Writing'
  <2> SUFFICES ASSUME Sent("write")'
      PROVE  /\ present'[call'.drive] /\ drive_reg' = call'.drive
             /\ drives'[drive_reg'].cmd \in {"write", "flush"}
             /\ call'.pc \in {"drq", "transfer"} => drives'[drive_reg'].cmd = "write"
             /\ LastIsCall'
    BY DEF Writing
  <2>1. /\ present[call.drive] /\ drive_reg = call.drive
        /\ drives[drive_reg].cmd \in {"write", "flush"}
        /\ call.pc \in {"drq", "transfer"} => drives[drive_reg].cmd = "write"
        /\ LastIsCall
    BY DEF AtaInv, Writing
  <2>2. LastIsCall'
    BY <2>1 DEF LastIsCall
  <2>3. QED
    BY <2>1, <2>2
<1>3. Storing'
  <2>1. PICK n \in Nat : Late(n) /\ (Sent("write") => Stored(n))
    BY DEF AtaInv, Storing
  <2>2. Late(n)'
    BY <2>1, LateKept DEF HasSector
  <2>3. Sent("write")' => Stored(n)'
    BY <2>1 DEF Stored
  <2>4. QED
    BY <2>2, <2>3 DEF Storing
<1>4. QED
  BY <1>1, <1>2, <1>3

\* What a call is when it returns.
LEMMA ReturnedCall ==
  ASSUME call \in CallType, NEW r \in Int
  PROVE  /\ Returned(r) \in CallType /\ Returned(r).pc = "idle" /\ Returned(r).result = r
         /\ Returned(r).op = call.op /\ Returned(r).drive = call.drive
         /\ Returned(r).lba = call.lba /\ Returned(r).count = call.count
  BY DEF Returned, CallType

\* begin_call: nothing is sent yet.
LEMMA BeginStep == ASSUME AtaInv, AtaCall PROVE AtaInv'
<1>1. PICK kind \in {"read", "write"}, d \in Channel, lba \in Sectors, count \in 1 .. 2 :
        lba + count - 1 \in Sectors /\ begin_call(kind, d, lba, count)
  BY DEF AtaCall
<1>2. /\ call.pc = "idle" /\ present[d] /\ count > 0 /\ calls' = calls + 1 /\ buffer' = << >>
      /\ call' = [pc |-> "ready", op |-> kind, drive |-> d, lba |-> lba, count |-> count,
                  sector |-> 0, timeout |-> TIMEOUT, result |-> 0]
      /\ UNCHANGED <<present, drive_reg, drives, disk, last>>
  BY <1>1 DEF begin_call
<1>3. call' \in CallType /\ call'.pc = "ready" /\ call'.drive = d /\ call'.op = kind /\ call'.count = count
      /\ call'.sector = 0 /\ call'.lba = lba
  BY <1>2, AtaAssumption DEF CallType
<1>4. AtaTypeOK'
  BY <1>2, <1>3 DEF AtaInv, AtaTypeOK
<1>5. Selection'
  <2>1. \A k \in Nat : k < count => lba + k \in Sectors
    BY <1>1, AtaAssumption
  <2>2. QED
    BY <1>2, <1>3, <2>1 DEF AtaInv, Selection
<1>6. ~Sent("read")' /\ ~Sent("write")'
  BY <1>3 DEF Sent, Done
<1>7. Storing'
  BY <1>2, <1>6, StoringKept DEF HasSector
<1>8. QED
  BY <1>4, <1>5, <1>6, <1>7 DEF AtaInv, Reading, Writing

\* ata_wait_ready: the command is sent only when the drive that was selected is
\* not busy.
LEMMA ReadyStep == ASSUME AtaInv, ata_wait_ready PROVE AtaInv'
<1>1. call.pc = "ready" /\ UNCHANGED <<present, drive_reg, drives, disk, buffer, calls, last>>
      /\ call \in CallType
  BY DEF ata_wait_ready, AtaInv, AtaTypeOK
<1>2. \/ drives[drive_reg].status # "busy" /\ call' = [call EXCEPT !.pc = "command"]
      \/ call.timeout > 0 /\ call' = [call EXCEPT !.timeout = @ - 1]
      \/ call' = Returned(-1)
  BY DEF ata_wait_ready, poll_again, Return
<1>3. /\ call' \in CallType
      /\ call'.op = call.op /\ call'.drive = call.drive /\ call'.lba = call.lba /\ call'.count = call.count
      /\ \/ call'.pc = "command" /\ drives[drive_reg].status # "busy" /\ call'.sector = call.sector
         \/ call'.pc = "ready" /\ call'.sector = call.sector
         \/ call'.pc = "idle" /\ call'.result = -1
  <2>1. CASE drives[drive_reg].status # "busy" /\ call' = [call EXCEPT !.pc = "command"]
    BY <1>1, <2>1 DEF CallType
  <2>2. CASE call.timeout > 0 /\ call' = [call EXCEPT !.timeout = @ - 1]
    BY <1>1, <2>2 DEF CallType
  <2>3. CASE call' = Returned(-1)
    BY <1>1, <2>3, ReturnedCall
  <2>4. QED
    BY <1>2, <2>1, <2>2, <2>3
<1>4. AtaTypeOK'
  BY <1>1, <1>3 DEF AtaInv, AtaTypeOK
<1>5. Selection'
  BY <1>1, <1>3 DEF AtaInv, Selection
<1>6. ~Sent("read")' /\ ~Sent("write")'
  BY <1>1, <1>3 DEF Sent, Done, CallType
<1>7. Storing'
  BY <1>1, <1>6, StoringKept DEF HasSector
<1>8. QED
  BY <1>4, <1>5, <1>6, <1>7 DEF AtaInv, Reading, Writing

\* ata_wait_drq: the transfer begins only when the drive asks for it.
LEMMA DrqStep == ASSUME AtaInv, ata_wait_drq PROVE AtaInv'
<1>1. call.pc = "drq" /\ UNCHANGED <<present, drive_reg, drives, disk, buffer, calls, last>>
      /\ call \in CallType
  BY DEF ata_wait_drq, AtaInv, AtaTypeOK
<1>2. \/ drives[drive_reg].status = "drq" /\ call' = [call EXCEPT !.pc = "transfer"]
      \/ call.timeout > 0 /\ call' = [call EXCEPT !.timeout = @ - 1]
      \/ call' = Returned(-1)
  BY DEF ata_wait_drq, drq_failed, poll_again, Return
<1>3. /\ call' \in CallType
      /\ call'.op = call.op /\ call'.drive = call.drive /\ call'.lba = call.lba /\ call'.count = call.count
      /\ \/ call'.pc = "transfer" /\ drives[drive_reg].status = "drq" /\ call'.sector = call.sector
         \/ call'.pc = "drq" /\ call'.sector = call.sector
         \/ call'.pc = "idle" /\ call'.result = -1
  <2>1. CASE drives[drive_reg].status = "drq" /\ call' = [call EXCEPT !.pc = "transfer"]
    BY <1>1, <2>1 DEF CallType
  <2>2. CASE call.timeout > 0 /\ call' = [call EXCEPT !.timeout = @ - 1]
    BY <1>1, <2>2 DEF CallType
  <2>3. CASE call' = Returned(-1)
    BY <1>1, <2>3, ReturnedCall
  <2>4. QED
    BY <1>2, <2>1, <2>2, <2>3
<1>4. AtaTypeOK'
  BY <1>1, <1>3 DEF AtaInv, AtaTypeOK
<1>5. Selection'
  BY <1>1, <1>3 DEF AtaInv, Selection
<1>6. \A kind \in {"read", "write"} : Sent(kind)' => Sent(kind) /\ Moved' = Moved
  BY <1>1, <1>3 DEF Sent, Done, CallType, Moved
<1>7. Reading' /\ Writing' /\ Storing'
  BY <1>1, <1>3, <1>6, CallOnly
<1>8. QED
  BY <1>4, <1>5, <1>7 DEF AtaInv

\* flush_wait: the call ends, and everything was passed to the drive.
LEMMA FlushWaitStep == ASSUME AtaInv, flush_wait PROVE AtaInv'
<1>1. call.pc = "flush" /\ UNCHANGED <<present, drive_reg, drives, disk, buffer, calls, last>>
      /\ call \in CallType /\ call.op = "write"
  BY DEF flush_wait, AtaInv, AtaTypeOK, Selection
<1>2. \/ call.timeout > 0 /\ call' = [call EXCEPT !.timeout = @ - 1]
      \/ call' = Returned(call.count)
  BY DEF flush_wait, poll_again, Return
<1>3. /\ call' \in CallType
      /\ call'.op = call.op /\ call'.drive = call.drive /\ call'.lba = call.lba /\ call'.count = call.count
      /\ call'.pc = "flush" \/ call'.pc = "idle"
  <2>1. CASE call.timeout > 0 /\ call' = [call EXCEPT !.timeout = @ - 1]
    BY <1>1, <2>1 DEF CallType
  <2>2. CASE call' = Returned(call.count)
    <3>1. call.count \in Int
      BY <1>1 DEF CallType
    <3>2. QED
      BY <1>1, <2>2, <3>1, ReturnedCall
  <2>3. QED
    BY <1>2, <2>1, <2>2
<1>4. AtaTypeOK'
  BY <1>1, <1>3 DEF AtaInv, AtaTypeOK
<1>5. Selection'
  BY <1>1, <1>3 DEF AtaInv, Selection
<1>6. \A kind \in {"read", "write"} : Sent(kind)' => Sent(kind) /\ Moved' = Moved
  BY <1>1, <1>3 DEF Sent, Done, CallType, Moved
<1>7. Reading' /\ Writing' /\ Storing'
  BY <1>1, <1>3, <1>6, CallOnly
<1>8. QED
  BY <1>4, <1>5, <1>7 DEF AtaInv

\* send_command: the drive that is selected is not busy, so it takes the
\* command, and nothing is transferred yet.
LEMMA SendStep == ASSUME AtaInv, send_command PROVE AtaInv'
<1> DEFINE d == call.drive
           D == Commanded(d, call.op, call.lba, call.count)
<1>1. /\ call.pc = "command" /\ d \in Channel /\ drive_reg' = d /\ drives' = D
      /\ call' = [call EXCEPT !.pc = "drq", !.timeout = TIMEOUT]
      /\ last' = IF call.op = "read" THEN last
                 ELSE [before |-> disk, drive |-> d, lba |-> call.lba, count |-> call.count, data |-> calls]
      /\ UNCHANGED <<present, disk, buffer, calls>>
      /\ call \in CallType
  BY DEF send_command, AtaInv, AtaTypeOK, CallType
<1>2. /\ call.op \in {"read", "write"} /\ call.lba \in Nat /\ call.count \in Nat /\ call.count > 0
      /\ call.sector = 0 /\ buffer = << >> /\ present[d]
      /\ drives[drive_reg].status # "busy" /\ drive_reg \in Channel
      /\ \A e \in Channel : present[e] => drives[e].status # "busy"
      /\ \A e \in Channel : ~present[e] => drives[e].cmd \in {"none", "identify"}
      /\ present \in [Channel -> BOOLEAN]
      /\ \A k \in Nat : k < call.count => call.lba + k \in Sectors
  BY <1>1 DEF AtaInv, AtaTypeOK, Selection, CallType
<1>3. /\ call' \in CallType /\ call'.pc = "drq" /\ call'.op = call.op /\ call'.drive = d
      /\ call'.lba = call.lba /\ call'.count = call.count /\ call'.sector = 0
  BY <1>1, <1>2, AtaAssumption DEF CallType
<1>4. /\ D \in [Channel -> DriveType]
      /\ \A e \in Channel : e # d => D[e] = drives[e]
      /\ D[d].cmd = call.op /\ D[d].at = call.lba /\ D[d].data = NoData /\ D[d].status = "busy"
  BY <1>1, <1>2, CommandedDrives DEF AtaInv
<1> HIDE DEF D
<1>5. AtaTypeOK'
  BY <1>1, <1>2, <1>3, <1>4 DEF AtaInv, AtaTypeOK
<1>6. Selection'
  BY <1>1, <1>2, <1>3, <1>4 DEF Selection
<1>7. Moved' = 0
  BY <1>3 DEF Moved
<1>8. Reading'
  <2> SUFFICES ASSUME Sent("read")'
      PROVE  /\ present'[call'.drive] /\ drive_reg' = call'.drive
             /\ drives'[drive_reg'].cmd = "read" /\ drives'[drive_reg'].at = call'.lba + Moved'
             /\ drives'[drive_reg'].data = NoData
             /\ buffer' = [k \in 1 .. Moved' |-> disk'[call'.drive][call'.lba + k - 1]]
    BY DEF Reading
  <2>1. call.op = "read"
    BY <1>3 DEF Sent, Done
  <2>2. << >> = [k \in 1 .. 0 |-> disk'[call'.drive][call'.lba + k - 1]]
    OBVIOUS
  <2>3. call.lba + 0 = call.lba
    BY <1>2
  <2>4. QED
    BY <1>1, <1>2, <1>3, <1>4, <1>7, <2>1, <2>2, <2>3
<1>9. Writing'
  <2>1. Sent("write")' => call.op = "write"
    BY <1>3 DEF Sent, Done
  <2>2. call.op = "write" => LastIsCall'
    BY <1>1, <1>3 DEF LastIsCall
  <2>3. QED
    BY <1>1, <1>2, <1>3, <1>4, <2>1, <2>2 DEF Writing
<1>10. \A e \in Channel : ~HasSector(e)'
  BY <1>1, <1>2, <1>4 DEF HasSector
<1>11. Storing'
  <2>1. CASE call.op = "read"
    <3>1. ~Sent("write")'
      BY <1>3, <2>1 DEF Sent, Done
    <3>2. QED
      BY <1>1, <1>10, <2>1, <3>1, StoringKept
  <2>2. CASE call.op = "write"
    <3>0. last' = [before |-> disk, drive |-> d, lba |-> call.lba, count |-> call.count, data |-> calls]
      BY <1>1, <2>2
    <3>1. disk \in [Channel -> [Sectors -> Nat]] /\ calls \in Nat
      BY DEF AtaInv, AtaTypeOK
    <3>2. \A s \in Sectors : ~(call.lba <= s /\ s < call.lba + 0)
      BY <1>2, AtaAssumption
    <3>3. BySector(disk, disk, d, call.lba, 0, calls)
      BY <3>2 DEF BySector
    <3>4. Overwritten(disk, disk, d, call.lba, 0, calls)
      <4>1. \A n \in Nat : n = 0 /\ BySector(disk, disk, d, call.lba, n, calls)
                          => Overwritten(disk, disk, d, call.lba, n, calls)
        BY <1>1, <1>2, <3>1, SectorBySector
      <4>2. QED
        BY <3>3, <4>1
    <3>5. Written(0)'
      BY <1>1, <3>0, <3>4 DEF Written, Overwritten
    <3>6. 0 <= last'.count
      BY <1>2, <3>0
    <3>7. Late(0)'
      BY <1>10, <3>5, <3>6 DEF Late
    <3>8. call.lba + 0 = call.lba
      BY <1>2
    <3>9. Stored(0)'
      BY <1>1, <1>3, <1>4, <1>7, <3>8 DEF Stored
    <3>10. QED
      BY <3>7, <3>9 DEF Storing
  <2>3. QED
    BY <1>2, <2>1, <2>2
<1>12. QED
  BY <1>5, <1>6, <1>8, <1>9, <1>11 DEF AtaInv

\* flush_command: a drive still busy with the last sector takes no notice of it.
LEMMA FlushStep == ASSUME AtaInv, flush_command PROVE AtaInv'
<1> DEFINE d == drive_reg
           D == Commanded(d, "flush", 0, 0)
<1>1. /\ call.pc = "flush_command" /\ d \in Channel /\ drives' = D
      /\ call' = [call EXCEPT !.pc = "flush", !.timeout = TIMEOUT]
      /\ UNCHANGED <<present, drive_reg, disk, buffer, calls, last>>
      /\ call \in CallType /\ call.op = "write" /\ call.count > 0 /\ call.count \in Nat
  BY DEF flush_command, AtaInv, AtaTypeOK, CallType, Selection
<1>2. /\ call' \in CallType /\ call'.pc = "flush" /\ call'.op = "write" /\ call'.drive = call.drive
      /\ call'.lba = call.lba /\ call'.count = call.count
  BY <1>1, AtaAssumption DEF CallType
<1>3. /\ D \in [Channel -> DriveType]
      /\ \A e \in Channel : e # d \/ drives[d].status = "busy" => D[e] = drives[e]
      /\ drives[d].status # "busy" => D[d].cmd = "flush"
  BY <1>1, CommandedDrives DEF AtaInv
<1> HIDE DEF D
<1>4. AtaTypeOK'
  BY <1>1, <1>2, <1>3 DEF AtaInv, AtaTypeOK
<1>5. Sent("write") /\ ~Sent("read")' /\ Moved = call.count /\ Moved' = call.count
  BY <1>1, <1>2 DEF Sent, Done, Moved
<1>6. /\ present[call.drive] /\ drive_reg = call.drive
      /\ drives[drive_reg].cmd \in {"write", "flush"}
  BY <1>5 DEF AtaInv, Writing
<1>7. Selection'
  BY <1>1, <1>2, <1>3, <1>6 DEF AtaInv, Selection
<1>8. PICK n \in Nat : Late(n) /\ Stored(n)
  BY <1>5 DEF AtaInv, Storing
<1>9. D[d].cmd = "flush" \/ D[d] = drives[d]
  BY <1>1, <1>3
<1>10. Late(n)'
  <2>1. \A e \in Channel : HasSector(e)' => drives'[e] = drives[e]
    BY <1>1, <1>3, <1>9 DEF HasSector
  <2>2. \A e \in Channel : HasSector(e)' => HasSector(e) /\ drives'[e] = drives[e]
    BY <2>1 DEF HasSector
  <2>3. QED
    BY <1>1, <1>8, <2>2, LateKept
<1>11. Stored(n)'
  BY <1>1, <1>2, <1>5, <1>8, <1>9 DEF Stored
<1>12. LastIsCall'
  <2>1. LastIsCall
    BY <1>5 DEF AtaInv, Writing
  <2>2. QED
    BY <1>1, <1>2, <2>1 DEF LastIsCall
<1>13. Writing' /\ Storing'
  BY <1>1, <1>2, <1>6, <1>9, <1>10, <1>11, <1>12 DEF Writing, Storing
<1>14. QED
  BY <1>4, <1>5, <1>7, <1>13 DEF AtaInv, Reading

\* What a transfer leaves of the drives.
LEMMA TransferredDrives ==
  ASSUME AtaTypeOK, NEW d \in Channel, drives[d].status = "drq", NEW word, word \in Nat \cup {NoData}
  PROVE  /\ Transferred(d, word) \in [Channel -> DriveType]
         /\ \A e \in Channel : e # d => Transferred(d, word)[e] = drives[e]
         /\ Transferred(d, word)[d].cmd = drives[d].cmd
         /\ Transferred(d, word)[d].at = IF word = NoData THEN drives[d].at + 1 ELSE drives[d].at
         /\ Transferred(d, word)[d].data = word
         /\ word # NoData => Transferred(d, word)[d].status = "busy"
<1> DEFINE o == drives[d]
           r == [o EXCEPT !.left = @ - 1, !.data = word,
                          !.status = IF o.left = 1 /\ word = NoData THEN "ready" ELSE "busy",
                          !.at = IF word = NoData THEN @ + 1 ELSE @]
<1>1. o \in DriveType /\ drives \in [Channel -> DriveType]
  BY DEF AtaTypeOK
<1>2. Transferred(d, word) = [drives EXCEPT ![d] = r]
  BY Zenon DEF Transferred
<1> HIDE DEF o
<1>a. /\ o.left - 1 \in Int
      /\ (IF o.left = 1 /\ word = NoData THEN "ready" ELSE "busy") \in {"ready", "busy", "drq", "err"}
      /\ (IF word = NoData THEN o.at + 1 ELSE o.at) \in Nat
  BY <1>1 DEF DriveType
<1>3. r \in DriveType
  BY <1>1, <1>a DEF DriveType
<1>4. /\ r.cmd = o.cmd /\ r.data = word
      /\ r.at = IF word = NoData THEN o.at + 1 ELSE o.at
      /\ word # NoData => r.status = "busy"
  BY <1>1 DEF DriveType
<1> HIDE DEF r
<1>5. QED
  BY <1>1, <1>2, <1>3, <1>4 DEF o

\* What the call is after a transfer: on to the next sector, or to the end.
LEMMA AfterTransferCall ==
  ASSUME call \in CallType, call.pc = "transfer", call.sector < call.count, call.op # "none"
  PROVE  /\ AfterTransfer \in CallType
         /\ AfterTransfer.op = call.op /\ AfterTransfer.drive = call.drive
         /\ AfterTransfer.lba = call.lba /\ AfterTransfer.count = call.count
         /\ \/ AfterTransfer.pc = "drq" /\ AfterTransfer.sector = call.sector + 1
               /\ call.sector + 1 < call.count
            \/ call.op = "write" /\ AfterTransfer.pc = "flush_command" /\ call.count = call.sector + 1
            \/ call.op = "read" /\ AfterTransfer.pc = "idle" /\ call.count = call.sector + 1
<1>1. call.sector \in Nat /\ call.count \in Nat /\ call.op \in {"read", "write"}
  BY DEF CallType
<1>2. CASE call.sector + 1 < call.count
  <2>1. AfterTransfer = [call EXCEPT !.sector = @ + 1, !.pc = "drq", !.timeout = TIMEOUT]
    BY <1>2 DEF AfterTransfer
  <2>2. call.sector + 1 \in Nat /\ TIMEOUT \in Nat
    BY <1>1, AtaAssumption
  <2>3. AfterTransfer \in CallType
    BY <2>1, <2>2 DEF CallType
  <2>4. /\ AfterTransfer.op = call.op /\ AfterTransfer.drive = call.drive
        /\ AfterTransfer.lba = call.lba /\ AfterTransfer.count = call.count
        /\ AfterTransfer.pc = "drq" /\ AfterTransfer.sector = call.sector + 1
    BY <2>1 DEF CallType
  <2>5. QED
    BY <1>2, <2>3, <2>4
<1>3. CASE ~(call.sector + 1 < call.count) /\ call.op = "write"
  <2>1. AfterTransfer = [call EXCEPT !.pc = "flush_command"]
    BY <1>3 DEF AfterTransfer
  <2>2. call.count = call.sector + 1
    BY <1>1, <1>3
  <2>3. QED
    BY <1>1, <1>3, <2>1, <2>2 DEF CallType
<1>4. CASE ~(call.sector + 1 < call.count) /\ call.op = "read"
  <2>1. AfterTransfer = Returned(call.count) /\ call.count \in Int
    BY <1>1, <1>4 DEF AfterTransfer
  <2>2. call.count = call.sector + 1
    BY <1>1, <1>4
  <2>3. QED
    BY <1>1, <1>4, <2>1, <2>2, ReturnedCall
<1>5. QED
  BY <1>1, <1>2, <1>3, <1>4

\* read_sector: the drive is at the next sector, and asks for it to be taken.
LEMMA ReadStep == ASSUME AtaInv, read_sector PROVE AtaInv'
<1> DEFINE d == drive_reg
           D == Transferred(d, NoData)
           m == call.sector
           x == disk[d][call.lba + m]
<1>1. /\ call.pc = "transfer" /\ call.op = "read" /\ d \in Channel /\ drives' = D /\ call' = AfterTransfer
      /\ UNCHANGED <<present, drive_reg, disk, calls, last>>
      /\ call \in CallType /\ m \in Nat /\ call.lba \in Nat /\ call.count \in Nat
      /\ drives[d].status = "drq" /\ m < call.count
  BY DEF read_sector, AtaInv, AtaTypeOK, CallType, Selection
<1>2. Sent("read") /\ Moved = m
  BY <1>1 DEF Sent, Moved
<1>3. /\ present[call.drive] /\ d = call.drive
      /\ drives[d].cmd = "read" /\ drives[d].at = call.lba + m
      /\ buffer = [k \in 1 .. m |-> disk[call.drive][call.lba + k - 1]]
  BY <1>2 DEF AtaInv, Reading
<1>4. buffer' = Append(buffer, x)
  BY <1>3 DEF read_sector
<1>5. x \in Nat /\ buffer \in Seq(Nat \cup {NoData})
  <2>1. call.lba + m \in Sectors
    BY <1>1 DEF AtaInv, Selection
  <2>2. QED
    BY <1>1, <2>1 DEF AtaInv, AtaTypeOK
<1>6. /\ call' \in CallType
      /\ call'.op = "read" /\ call'.drive = call.drive /\ call'.lba = call.lba /\ call'.count = call.count
      /\ \/ call'.pc = "drq" /\ call'.sector = m + 1 /\ m + 1 < call.count
         \/ call'.pc = "idle" /\ call.count = m + 1
  BY <1>1, AfterTransferCall
<1>7. /\ D \in [Channel -> DriveType]
      /\ \A e \in Channel : e # d => D[e] = drives[e]
      /\ D[d].cmd = drives[d].cmd /\ D[d].at = drives[d].at + 1 /\ D[d].data = NoData
  BY <1>1, TransferredDrives DEF AtaInv
<1>8. Moved' = m + 1
  BY <1>1, <1>6 DEF Moved
<1>9. buffer' = [k \in 1 .. m + 1 |-> disk[call.drive][call.lba + k - 1]]
  <2>1. Len(buffer) = m
    BY <1>1, <1>3, <1>5
  <2>2. /\ Len(buffer') = m + 1 /\ buffer' \in Seq(Nat \cup {NoData})
        /\ \A k \in 1 .. m + 1 : buffer'[k] = IF k <= m THEN buffer[k] ELSE x
    BY <1>1, <1>4, <1>5, <2>1
  <2>3. \A k \in 1 .. m + 1 : buffer'[k] = disk[call.drive][call.lba + k - 1]
    <3> SUFFICES ASSUME NEW k \in 1 .. m + 1 PROVE buffer'[k] = disk[call.drive][call.lba + k - 1]
      OBVIOUS
    <3>1. CASE k <= m
      <4>1. k \in 1 .. m
        BY <1>1, <3>1
      <4>2. buffer[k] = disk[call.drive][call.lba + k - 1]
        BY <1>3, <4>1
      <4>3. QED
        BY <2>2, <3>1, <4>2
    <3>2. CASE k = m + 1
      <4>1. call.lba + k - 1 = call.lba + m
        BY <1>1, <3>2
      <4>2. buffer'[k] = x
        BY <1>1, <2>2, <3>2
      <4>3. QED
        BY <1>3, <4>1, <4>2
    <3>3. QED
      BY <1>1, <3>1, <3>2
  <2>4. buffer' = [k \in 1 .. m + 1 |-> buffer'[k]]
    BY <1>1, <2>2
  <2>5. QED
    BY <2>3, <2>4
<1>10. buffer' \in Seq(Nat \cup {NoData})
  BY <1>4, <1>5
<1> HIDE DEF D, x
<1>11. AtaTypeOK'
  BY <1>1, <1>6, <1>7, <1>10 DEF AtaInv, AtaTypeOK
<1>12. Selection'
  BY <1>1, <1>3, <1>6, <1>7 DEF AtaInv, Selection
<1>13. drives[d].at + 1 = call.lba + (m + 1)
  BY <1>1, <1>3
<1>14. Reading'
  BY <1>1, <1>3, <1>6, <1>7, <1>8, <1>9, <1>13 DEF Reading
<1>15. ~Sent("write")'
  BY <1>6 DEF Sent, Done
<1>16. Storing'
  <2>1. \A e \in Channel : HasSector(e)' => HasSector(e) /\ drives'[e] = drives[e]
    BY <1>1, <1>7 DEF HasSector
  <2>2. QED
    BY <1>1, <1>15, <2>1, StoringKept
<1>17. QED
  BY <1>11, <1>12, <1>14, <1>15, <1>16 DEF AtaInv, Writing

\* write_sector: the drive asks for data, so all it was given is stored.
LEMMA WriteStep == ASSUME AtaInv, write_sector PROVE AtaInv'
<1> DEFINE d == drive_reg
           D == Transferred(d, calls)
           m == call.sector
<1>1. /\ call.pc = "transfer" /\ call.op = "write" /\ d \in Channel /\ drives' = D /\ call' = AfterTransfer
      /\ UNCHANGED <<present, drive_reg, disk, buffer, calls, last>>
      /\ call \in CallType /\ m \in Nat /\ call.lba \in Nat /\ call.count \in Nat
      /\ drives[d].status = "drq" /\ m < call.count /\ calls \in Nat
  BY DEF write_sector, AtaInv, AtaTypeOK, CallType, Selection
<1>2. Sent("write") /\ Moved = m
  BY <1>1 DEF Sent, Moved
<1>3. present[call.drive] /\ d = call.drive /\ drives[d].cmd = "write"
  BY <1>1, <1>2 DEF AtaInv, Writing
<1>4. PICK n \in Nat : Late(n) /\ Stored(n)
  BY <1>2 DEF AtaInv, Storing
<1>5. n = m /\ drives[d].at = call.lba + m /\ LastIsCall
  BY <1>1, <1>2, <1>3, <1>4 DEF Stored, AtaInv, Writing
<1>6. /\ call' \in CallType
      /\ call'.op = "write" /\ call'.drive = call.drive /\ call'.lba = call.lba /\ call'.count = call.count
      /\ \/ call'.pc = "drq" /\ call'.sector = m + 1 /\ m + 1 < call.count
         \/ call'.pc = "flush_command" /\ call.count = m + 1
  BY <1>1, AfterTransferCall
<1>7. calls # NoData
  BY <1>1 DEF NoData
<1>8. /\ D \in [Channel -> DriveType]
      /\ \A e \in Channel : e # d => D[e] = drives[e]
      /\ D[d].cmd = drives[d].cmd /\ D[d].at = drives[d].at /\ D[d].data = calls /\ D[d].status = "busy"
  BY <1>1, <1>7, TransferredDrives DEF AtaInv
<1>9. Moved' = m + 1
  BY <1>1, <1>6 DEF Moved
<1> HIDE DEF D
<1>10. AtaTypeOK'
  BY <1>1, <1>6, <1>8 DEF AtaInv, AtaTypeOK
<1>11. Selection'
  BY <1>1, <1>3, <1>6, <1>8 DEF AtaInv, Selection
<1>12. ~Sent("read")'
  BY <1>6 DEF Sent, Done
<1>13. Late(n)'
  <2>1. n <= last.count /\ Written(n) /\ n < last.count
    BY <1>1, <1>4, <1>5 DEF Late, LastIsCall
  <2>2. Written(n)'
    BY <1>1, <2>1 DEF Written
  <2>3. ASSUME NEW e \in Channel, HasSector(e)'
        PROVE  /\ e = last.drive /\ drives'[e].at = last.lba + n
               /\ drives'[e].data = last.data
    <3>1. CASE e = d
      BY <1>1, <1>3, <1>5, <1>8, <3>1 DEF LastIsCall
    <3>2. CASE e # d
      <4>1. drives'[e] = drives[e] /\ HasSector(e)
        BY <1>1, <1>8, <2>3, <3>2 DEF HasSector
      <4>2. QED
        BY <1>4, <4>1 DEF Late
    <3>3. QED
      BY <3>1, <3>2
  <2>4. QED
    BY <1>1, <2>1, <2>2, <2>3 DEF Late
<1>14. Stored(n)'
  <2>1. n = (n + 1) - 1 /\ Moved' - 1 <= n /\ n <= Moved'
    BY <1>5, <1>9
  <2>2. QED
    BY <1>1, <1>3, <1>5, <1>6, <1>7, <1>8, <1>9, <2>1 DEF Stored
<1>15. LastIsCall'
  BY <1>1, <1>5, <1>6 DEF LastIsCall
<1>16. Writing' /\ Storing'
  BY <1>1, <1>3, <1>6, <1>8, <1>13, <1>14, <1>15 DEF Writing, Storing
<1>17. QED
  BY <1>10, <1>11, <1>12, <1>16 DEF AtaInv, Reading

\* A drive that stores a sector is the one that is selected.
LEMMA OnlySelectedStores ==
  ASSUME AtaInv, NEW d \in Channel, drives[d].status = "busy", drives[d].cmd = "write"
  PROVE  d = drive_reg /\ call.pc # "boot"
<1>1. present[d] /\ call.pc # "boot"
  BY DEF AtaInv, AtaTypeOK, Selection, Channel
<1>2. QED
  BY <1>1 DEF AtaInv, Selection

\* A step of a drive comes to an end with its command, or stores the sector it
\* holds.
LEMMA DriveDoes ==
  ASSUME AtaTypeOK, NEW d \in Channel, drive_works(d)
  PROVE  /\ drives[d].status = "busy"
         /\ UNCHANGED <<present, drive_reg, call, buffer, calls, last>>
         /\ drives' \in [Channel -> DriveType]
         /\ \A e \in Channel : e # d => drives'[e] = drives[e]
         /\ drives'[d].cmd = drives[d].cmd /\ drives'[d].status # "busy"
         /\ \/ /\ disk' = disk /\ drives'[d].at = drives[d].at /\ drives'[d].data = drives[d].data
               /\ drives[d].cmd = "write" /\ drives[d].data # NoData => drives'[d].status = "err"
            \/ /\ drives[d].cmd = "write" /\ drives[d].data # NoData
               /\ disk' = [disk EXCEPT ![d][drives[d].at] = drives[d].data]
               /\ drives'[d].at = drives[d].at + 1 /\ drives'[d].data = NoData
<1>1. /\ drives[d].status = "busy" /\ drives[d] \in DriveType /\ drives \in [Channel -> DriveType]
      /\ UNCHANGED <<present, drive_reg, call, buffer, calls, last>>
  BY DEF drive_works, AtaTypeOK
<1>2. ASSUME NEW st \in {"ready", "drq", "err"}, Status(d, st)
      PROVE  /\ drives' \in [Channel -> DriveType]
             /\ \A e \in Channel : e # d => drives'[e] = drives[e]
             /\ drives'[d].cmd = drives[d].cmd /\ drives'[d].status = st
             /\ drives'[d].at = drives[d].at /\ drives'[d].data = drives[d].data
  <2> DEFINE r == [drives[d] EXCEPT !.status = st]
  <2>1. drives' = [drives EXCEPT ![d] = r]
    BY <1>2 DEF Status
  <2>2. /\ r \in DriveType /\ r.cmd = drives[d].cmd /\ r.status = st
        /\ r.at = drives[d].at /\ r.data = drives[d].data
    BY <1>1 DEF DriveType
  <2> HIDE DEF r
  <2>3. QED
    BY <1>1, <2>1, <2>2
<1>3. CASE Status(d, "err") /\ UNCHANGED disk
  BY <1>1, <1>2, <1>3
<1>4. CASE drives[d].data = NoData /\ Status(d, "drq") /\ UNCHANGED disk
  BY <1>1, <1>2, <1>4
<1>5. CASE drives[d].cmd = "flush" /\ Status(d, "ready") /\ UNCHANGED disk
  BY <1>1, <1>2, <1>5
<1>6. CASE /\ drives[d].cmd = "write" /\ drives[d].data # NoData
           /\ disk' = [disk EXCEPT ![d][drives[d].at] = drives[d].data]
           /\ drives' = [drives EXCEPT
                           ![d] = [drives[d] EXCEPT
                                     !.at = @ + 1, !.data = NoData,
                                     !.status = IF drives[d].left = 0 THEN "ready" ELSE "drq"]]
  <2> DEFINE r == [drives[d] EXCEPT !.at = @ + 1, !.data = NoData,
                                    !.status = IF drives[d].left = 0 THEN "ready" ELSE "drq"]
  <2>1. drives' = [drives EXCEPT ![d] = r]
    BY <1>6
  <2>a. /\ drives[d].at + 1 \in Nat
        /\ (IF drives[d].left = 0 THEN "ready" ELSE "drq") \in {"ready", "drq"}
    BY <1>1 DEF DriveType
  <2>b. r \in DriveType
    BY <1>1, <2>a DEF DriveType
  <2>2. r.cmd = drives[d].cmd /\ r.status # "busy" /\ r.at = drives[d].at + 1 /\ r.data = NoData
    BY <1>1, <2>a DEF DriveType
  <2> HIDE DEF r
  <2>3. QED
    BY <1>1, <1>6, <2>1, <2>b, <2>2
<1>7. QED
  BY <1>3, <1>4, <1>5, <1>6 DEF drive_works

\* drive_works: a sector that is stored is the next one of the write in
\* progress, however late.
LEMMA DriveStep == ASSUME AtaInv, NEW d \in Channel, drive_works(d) PROVE AtaInv'
<1> DEFINE R == drive_reg
<1>1. /\ drives[d].status = "busy"
      /\ UNCHANGED <<present, drive_reg, call, buffer, calls, last>>
      /\ drives' \in [Channel -> DriveType]
      /\ \A e \in Channel : e # d => drives'[e] = drives[e]
      /\ drives'[d].cmd = drives[d].cmd /\ drives'[d].status # "busy"
  BY DriveDoes DEF AtaInv
<1>s. Selection'
  <2>1. Selection /\ drive_reg \in Channel
    BY DEF AtaInv, AtaTypeOK
  <2>2. ASSUME NEW e \in Channel, drives[e].status # "busy" PROVE drives'[e] = drives[e]
    BY <1>1, <2>2
  <2>3. 0 \in Channel
    BY DEF Channel
  <2>4. /\ call.pc = "boot" /\ present[0] => drives'[0].status # "busy"
        /\ call.pc = "boot" /\ call.drive = 0 => drives'[0].status # "busy"
        /\ call.pc = "command" => drives'[drive_reg].status # "busy"
        /\ call.pc = "transfer" => drives'[drive_reg].status = "drq"
    <3>1. /\ call.pc = "boot" /\ present[0] => drives[0].status # "busy"
          /\ call.pc = "boot" /\ call.drive = 0 => drives[0].status # "busy"
          /\ call.pc = "command" => drives[drive_reg].status # "busy"
          /\ call.pc = "transfer" => drives[drive_reg].status = "drq"
      BY <2>1 DEF Selection
    <3>2. CASE drives[0].status # "busy" /\ drives[drive_reg].status # "busy"
      BY <2>1, <2>2, <2>3, <3>1, <3>2
    <3>3. CASE drives[0].status # "busy" /\ drives[drive_reg].status = "busy"
      BY <2>1, <2>2, <2>3, <3>1, <3>3
    <3>4. CASE drives[0].status = "busy" /\ drives[drive_reg].status # "busy"
      BY <2>1, <2>2, <2>3, <3>1, <3>4
    <3>5. CASE drives[0].status = "busy" /\ drives[drive_reg].status = "busy"
      BY <3>1, <3>5
    <3>6. QED
      BY <3>2, <3>3, <3>4, <3>5
  <2>5. ASSUME NEW e \in Channel
        PROVE  /\ present[e] /\ e # drive_reg => call.pc = "boot" \/ drives'[e].status # "busy"
               /\ ~present[e] => drives'[e].cmd \in {"none", "identify"}
    <3>1. /\ present[e] /\ e # drive_reg => call.pc = "boot" \/ drives[e].status # "busy"
          /\ ~present[e] => drives[e].cmd \in {"none", "identify"}
      BY <2>1 DEF Selection
    <3>2. CASE e = d
      BY <1>1, <3>1, <3>2
    <3>3. CASE e # d
      BY <1>1, <3>1, <3>3
    <3>4. QED
      BY <3>2, <3>3
  <2>6. QED
    BY <1>1, <2>1, <2>4, <2>5 DEF Selection
<1>2. CASE /\ disk' = disk /\ drives'[d].at = drives[d].at /\ drives'[d].data = drives[d].data
           /\ drives[d].cmd = "write" /\ drives[d].data # NoData => drives'[d].status = "err"
  <2>1. AtaTypeOK'
    BY <1>1, <1>2 DEF AtaInv, AtaTypeOK
  <2>3. /\ R \in Channel /\ drives'[R].cmd = drives[R].cmd /\ drives'[R].at = drives[R].at
        /\ drives'[R].data = drives[R].data
        /\ drives'[R].cmd = "write" /\ drives'[R].data # NoData =>
             drives'[R].status = "err" \/ drives'[R].status = drives[R].status
    BY <1>1, <1>2 DEF AtaInv, AtaTypeOK
  <2>4. (Sent("read")' <=> Sent("read")) /\ (Sent("write")' <=> Sent("write")) /\ Moved' = Moved
    BY <1>1 DEF Sent, Done, Moved
  <2>5. Reading'
    BY <1>1, <1>2, <2>3, <2>4 DEF AtaInv, Reading
  <2>6. PICK n \in Nat : Late(n) /\ (Sent("write") => Stored(n))
    BY DEF AtaInv, Storing
  <2>7. Late(n)'
    <3>1. \A e \in Channel : HasSector(e)' => HasSector(e) /\ drives'[e] = drives[e]
      BY <1>1 DEF HasSector
    <3>2. QED
      BY <1>1, <1>2, <2>6, <3>1, LateKept
  <2>8. Sent("write")' => Stored(n)'
    BY <1>1, <2>3, <2>4, <2>6 DEF Stored
  <2>9. LastIsCall' <=> LastIsCall
    BY <1>1 DEF LastIsCall
  <2>10. Writing'
    BY <1>1, <2>3, <2>4, <2>9 DEF AtaInv, Writing
  <2>11. Storing'
    BY <2>7, <2>8 DEF Storing
  <2>12. QED
    BY <1>s, <2>1, <2>5, <2>10, <2>11 DEF AtaInv
<1>3. CASE /\ drives[d].cmd = "write" /\ drives[d].data # NoData
           /\ disk' = [disk EXCEPT ![d][drives[d].at] = drives[d].data]
           /\ drives'[d].at = drives[d].at + 1 /\ drives'[d].data = NoData
  <2>1. d = drive_reg /\ call.pc # "boot"
    BY <1>1, <1>3, OnlySelectedStores
  <2>2. /\ drives[d].data \in Nat /\ drives[d].at \in Nat /\ disk \in [Channel -> [Sectors -> Nat]]
        /\ call.lba \in Nat /\ call.count \in Nat /\ call.sector \in Nat /\ calls \in Nat
        /\ last.before \in [Channel -> [Sectors -> Nat]] /\ last.drive \in Channel
        /\ last.lba \in Nat /\ last.count \in Nat /\ last.data \in Nat
    <3>1. drives[d] \in DriveType
      BY DEF AtaInv, AtaTypeOK
    <3>2. QED
      BY <1>3, <3>1 DEF AtaInv, AtaTypeOK, CallType, DriveType
  <2>3. /\ disk' \in [Channel -> [Sectors -> Nat]]
        /\ \A e \in Channel : e # d => disk'[e] = disk[e]
        /\ \A s \in Sectors : disk'[d][s] = IF s = drives[d].at THEN drives[d].data ELSE disk[d][s]
    BY <1>3, <2>2
  <2>4. AtaTypeOK'
    BY <1>1, <2>3 DEF AtaInv, AtaTypeOK
  <2>6. (Sent("read")' <=> Sent("read")) /\ (Sent("write")' <=> Sent("write")) /\ Moved' = Moved
    BY <1>1 DEF Sent, Done, Moved
  <2>7. ~Sent("read")
    BY <1>3, <2>1 DEF AtaInv, Reading
  <2>8. Writing'
    <3>1. LastIsCall' <=> LastIsCall
      BY <1>1 DEF LastIsCall
    <3>2. QED
      BY <1>1, <2>1, <2>6, <3>1 DEF AtaInv, Writing
  <2>9. PICK n \in Nat : Late(n) /\ (Sent("write") => Stored(n))
    BY DEF AtaInv, Storing
  <2>10. /\ d = last.drive /\ drives[d].at = last.lba + n /\ drives[d].data = last.data
         /\ n < last.count /\ Written(n)
    BY <1>1, <1>3, <2>9 DEF Late, HasSector
  <2>11. BySector(disk, last.before, d, last.lba, n, last.data)
    <3>1. Overwritten(disk, last.before, d, last.lba, n, last.data)
      BY <2>10 DEF Written, Overwritten
    <3>2. QED
      BY <2>2, <3>1, SectorBySector
  <2>12. PICK n1 \in Nat : n1 = n + 1
    OBVIOUS
  <2>13. BySector(disk', last.before, d, last.lba, n1, last.data)
    <3>1. \A s \in Sectors : disk'[d][s] = IF last.lba <= s /\ s < last.lba + n1 THEN last.data ELSE last.before[d][s]
      <4> SUFFICES ASSUME NEW s \in Sectors
          PROVE disk'[d][s] = IF last.lba <= s /\ s < last.lba + n1 THEN last.data ELSE last.before[d][s]
        OBVIOUS
      <4>1. s \in Nat
        BY AtaAssumption
      <4>2. CASE s = last.lba + n
        BY <2>2, <2>3, <2>10, <2>12, <4>1, <4>2
      <4>3. CASE s # last.lba + n
        <5>1. (last.lba <= s /\ s < last.lba + n1) <=> (last.lba <= s /\ s < last.lba + n)
          <6>1. PICK m \in Nat : m = last.lba
            BY <2>2
          <6>2. s # m + n /\ n1 = n + 1
            BY <2>12, <4>3, <6>1
          <6>3. (m <= s /\ s < m + n1) <=> (m <= s /\ s < m + n)
            BY <4>1, <6>2
          <6>4. QED
            BY <6>1, <6>3
        <5>2. disk'[d][s] = disk[d][s]
          BY <2>3, <2>10, <4>3
        <5>3. QED
          BY <2>11, <5>1, <5>2 DEF BySector
      <4>4. QED
        BY <4>2, <4>3
    <3>2. QED
      BY <2>3, <2>11, <3>1 DEF BySector
  <2>14. Written(n1)'
    <3>1. Overwritten(disk', last.before, d, last.lba, n1, last.data)
      BY <2>2, <2>3, <2>13, SectorBySector
    <3>2. QED
      BY <1>1, <2>10, <3>1 DEF Written, Overwritten
  <2>15. Late(n1)'
    <3>1. n1 <= last.count
      BY <2>2, <2>10, <2>12
    <3>2. ASSUME NEW e \in Channel PROVE ~HasSector(e)'
      <4>1. CASE e = d
        BY <1>1, <4>1 DEF HasSector
      <4>2. CASE e # d
        <5>1. ~HasSector(e)
          BY <2>9, <2>10, <4>2 DEF Late
        <5>2. QED
          BY <1>1, <4>2, <5>1 DEF HasSector
      <4>3. QED
        BY <4>1, <4>2
    <3>3. QED
      BY <1>1, <2>14, <3>1, <3>2 DEF Late
  <2>16. ASSUME Sent("write")' PROVE Stored(n1)'
    <3>1. n = Moved - 1 /\ drives[d].at = call.lba + n
      BY <1>3, <2>1, <2>6, <2>9, <2>16 DEF Stored
    <3>2. Moved \in Nat
      BY <2>2 DEF Moved
    <3>3. n1 = Moved /\ drives'[d].at = call.lba + n1
      BY <1>3, <2>2, <2>12, <3>1, <3>2
    <3>4. Moved - 1 <= n1 /\ n1 <= Moved
      BY <3>2, <3>3
    <3>5. QED
      BY <1>1, <1>3, <2>1, <2>6, <3>3, <3>4 DEF Stored
  <2>17. Storing'
    BY <2>15, <2>16 DEF Storing
  <2>18. QED
    BY <1>s, <2>4, <2>6, <2>7, <2>8, <2>17 DEF AtaInv, Reading
<1>4. QED
  BY <1>2, <1>3, DriveDoes DEF AtaInv

-----------------------------------------------------------------------------
(* The theorems *)

\* What a step of the disk driver does to the disk driver.
LEMMA AtaSteps == ASSUME AtaInv, AtaStep PROVE AtaInv'
  BY InitStep, ReadyStep, SendStep, DrqStep, ReadStep, WriteStep, FlushStep, FlushWaitStep DEF AtaStep

\* Steps of one driver leave the other driver's invariant alone.
LEMMA OthersAlone ==
  /\ RingInv /\ UNCHANGED vars => RingInv'
  /\ AtaInv /\ UNCHANGED ataVars => AtaInv'
<1>1. RingInv /\ UNCHANGED vars => RingInv'
  BY DEF vars, txVars, rxVars, RingInv, TxInv, RxInv, Rung, Released
<1>2. AtaInv /\ UNCHANGED ataVars => AtaInv'
  <2> SUFFICES ASSUME AtaInv, UNCHANGED ataVars PROVE AtaInv'
    OBVIOUS
  <2>1. UNCHANGED <<present, drive_reg, drives, disk, call, buffer, calls, last>>
    BY DEF ataVars
  <2>2. AtaTypeOK' /\ Selection'
    BY <2>1 DEF AtaInv, AtaTypeOK, Selection
  <2>3. Moved' = Moved /\ (Sent("read")' => Sent("read")) /\ (Sent("write")' => Sent("write"))
    BY <2>1 DEF Moved, Sent, Done
  <2>4. Reading' /\ Writing' /\ Storing'
    BY <2>1, <2>3, CallOnly
  <2>5. QED
    BY <2>2, <2>4 DEF AtaInv
<1>3. QED
  BY <1>1, <1>2

\* Every step of the drivers and of their devices keeps both invariants.
LEMMA DriversSteps ==
  ASSUME RingInv, AtaInv, [DriversNext]_driversVars
  PROVE  RingInv' /\ AtaInv'
<1>1. CASE UNCHANGED driversVars
  BY <1>1, OthersAlone DEF driversVars
<1>2. CASE disk_call
  BY <1>2, OthersAlone, BeginStep DEF disk_call
<1>3. CASE disk_step
  BY <1>3, OthersAlone, AtaSteps DEF disk_step
<1>4. CASE net_send
  BY <1>4, OthersAlone, FillRing DEF net_send
<1>5. CASE net_receive
  BY <1>5, OthersAlone, CopyRing DEF net_receive
<1>6. CASE net_finish
  BY <1>6, OthersAlone, DoorbellRing, ReleaseRing DEF net_finish
<1>7. CASE net_idle
  BY <1>7, OthersAlone DEF net_idle, idle
<1>8. CASE devices
  <2>1. CASE (\E d \in Channel : drive_works(d)) /\ UNCHANGED vars
    BY <2>1, OthersAlone, DriveStep
  <2>2. CASE card_transmit /\ UNCHANGED ataVars
    BY <2>2, OthersAlone, TransmitRing
  <2>3. CASE card_store /\ UNCHANGED ataVars
    BY <2>3, OthersAlone, StoreRing
  <2>4. QED
    BY <1>8, <2>1, <2>2, <2>3 DEF devices
<1>9. QED
  BY <1>1, <1>2, <1>3, <1>4, <1>5, <1>6, <1>7, <1>8 DEF DriversNext

\* Both invariants hold in every state of the two drivers and their devices.
THEOREM DriversCorrect == DriversSpec => [](RingInv /\ AtaInv)
<1>1. DriversInit => RingInv /\ AtaInv
  BY RingInit, AtaInitInv DEF DriversInit
<1>2. (RingInv /\ AtaInv) /\ [DriversNext]_driversVars => (RingInv /\ AtaInv)'
  BY DriversSteps
<1>3. QED
  BY <1>1, <1>2, PTL DEF DriversSpec

\* RingsInOrder, for rings of every size: frames go out and come in in order,
\* each of them once (e1000_send_packet, e1000_receive_packet).
THEOREM RingsInOrderCorrect == DriversSpec => []RingsInOrder
<1>1. RingInv => RingsInOrder
  BY DEF RingInv, TxInv, RxInv, RingsInOrder, TxInOrder, RxInOrder
<1>2. QED
  BY <1>1, DriversCorrect, PTL

\* ReadIsTrue, for every drive size and every patience of the driver: a read
\* that succeeds returns what is on the drive (ata_read_sectors).
THEOREM ReadIsTrueCorrect == DriversSpec => []ReadIsTrue
<1>1. AtaInv => ReadIsTrue
  <2> SUFFICES ASSUME AtaInv, Done("read") /\ call.result = call.count
               PROVE  buffer = [k \in 1 .. call.count |-> disk[call.drive][call.lba + k - 1]]
    BY DEF ReadIsTrue
  <2>1. Sent("read") /\ Moved = call.count
    BY DEF Sent, Done, Moved
  <2>2. QED
    BY <2>1 DEF AtaInv, Reading
<1>2. QED
  BY <1>1, DriversCorrect, PTL

\* WriteIsPrefix: at every time, also after a write that failed or was given up,
\* and however late the drive stores what it was given, only the first sectors of
\* the range of the last write have changed (ata_write_sectors).
THEOREM WriteIsPrefixCorrect == DriversSpec => []WriteIsPrefix
<1>1. AtaInv => WriteIsPrefix
  <2> SUFFICES ASSUME AtaInv PROVE WriteIsPrefix
    OBVIOUS
  <2>1. PICK n \in Nat : Late(n) /\ (Sent("write") => Stored(n))
    BY DEF AtaInv, Storing
  <2>2. last.count \in Nat /\ n <= last.count /\ Written(n)
    BY <2>1 DEF AtaInv, AtaTypeOK, Late
  <2>3. n \in 0 .. last.count
    BY <2>2
  <2>4. Done("write") /\ call.result = call.count => Sent("write") /\ Moved = call.count
    BY DEF Sent, Done, Moved
  <2>5. call.count \in Nat
    BY DEF AtaInv, AtaTypeOK, CallType
  <2>6. Sent("write") /\ Moved = call.count => n >= call.count - 1
    BY <2>1, <2>5 DEF Stored
  <2>7. QED
    BY <2>2, <2>3, <2>4, <2>6 DEF WriteIsPrefix
<1>2. QED
  BY <1>1, DriversCorrect, PTL

-----------------------------------------------------------------------------
(* The filesystem *)

(***************************************************************************)
(* Types, also after failures.  The entries of the FAT never hold the      *)
(* value that a failed read returns.                                       *)
(***************************************************************************)
Texts == [tag : Names \cup {"no file", "unknown", "empty"}, size : 0 .. MaxSize]
Contents == {<< >>} \cup {<< n, k >> : n \in Names, k \in Nat}
FatEntries == FatValues \ {BAD_CLUSTER}

WriteOps ==
  [pc : {"free", "clear", "alloc", "link", "mark", "data", "dir"}, slot : Slots, text : Texts,
   then : {"alloc"}, cluster : FatValues, next : FatValues,
   first : {0} \cup Clusters, prev : {0} \cup Clusters, done : Nat]
ReadOps ==
  [pc : {"read"}, slot : Slots, cluster : FatValues, remaining : 0 .. MaxSize,
   result : Seq(Contents)]

\* The operation under way: a search finds its entry, and a cluster that is being added to
\* a chain exists.
OpOK ==
  /\ op \in {NoOp} \cup WriteOps \cup ReadOps
  /\ op # NoOp => mounted /\ op.slot \in Visible /\ dir[op.slot].kind = "file"
  /\ op \in WriteOps =>
       /\ op.text \in TextsOf(dir[op.slot].name)
       /\ expected[dir[op.slot].name] = Unknown
       /\ op.pc = "clear" => InChain(op.cluster)
       /\ op.pc = "alloc" => op.cluster \in Clusters \cup {BAD_CLUSTER}
       /\ op.pc \in {"link", "mark", "data"} => op.cluster \in Clusters
       /\ op.pc = "link" => op.prev \in Clusters

CacheTyped(r) == r.sector \in {-1, OUTSIDE} \cup {SectorOf(c) : c \in Entries}

DiskOK ==
  /\ boot \in BOOLEAN /\ mounted \in BOOLEAN
  /\ fat \in [1 .. 2 -> [Entries -> FatEntries]]
  /\ dir \in [Slots -> DirEntries]
  /\ data \in [Clusters -> Contents]
  /\ CacheTyped(cache)

DriveOK ==
  /\ health \in Healths /\ failures \in 0 .. MaxFailures
  /\ health # "good" => failures # 0

\* The directory: its visible entries are those of the files there should be.  Only a format
\* that fails in the middle leaves entries behind an end marker, and then nothing is
\* known of any file.
IsFile(s, n) == dir[s].kind = "file" /\ dir[s].name = n
Sorted == \A s, t \in Slots : s < t /\ dir[s].kind = "end" => dir[t].kind = "end"

DirOK ==
  /\ expected \in [Names -> Texts]
  /\ \A n \in Names : expected[n] \in TextsOf(n) \cup {NoFile, Unknown, Empty}
  /\ \A s \in Slots : dir[s].kind \in {"end", "label", "file"}
  /\ (\E n \in Names : expected[n] = NoFile) => Sorted
  /\ \A n \in Names : expected[n] # Unknown => (expected[n] # NoFile <=> Found(n))

(***************************************************************************)
(* As long as nothing has failed: the copies of the FAT and the cache tell *)
(* the same, no walk has left the FAT, and an operation is about the first *)
(* of the entries that have its name.                                      *)
(***************************************************************************)
Copies ==
  /\ \A c \in Clusters : fat[1][c] = fat[2][c]
  /\ cache.sector # -1 => \A c \in SectorEntries(cache.sector) : cache.entry[c] = fat[1][c]

InTheFat ==
  /\ op.pc \in {"free", "clear", "read"} => op.cluster # BAD_CLUSTER
  /\ op.pc = "clear" => op.next # BAD_CLUSTER

First(s) == \A t \in Slots : t < s => ~IsFile(t, dir[s].name)
InOrder == Sorted /\ (op # NoOp => First(op.slot))

Orderly == Copies /\ InTheFat /\ InOrder

(***************************************************************************)
(* Then the clusters can be labelled, each with its owner (the slot of a   *)
(* file, the chain under construction, or nobody) and its place in the     *)
(* owner's chain.                                                          *)
(***************************************************************************)
NOBODY == 0
NEW_CHAIN == RootEntries + 1
Owners == 0 .. RootEntries + 1

Labels(o, p) ==
  /\ o \in [Clusters -> Owners] /\ p \in [Clusters -> Nat]
  /\ \A c \in Clusters : o[c] \in Slots => dir[o[c]].kind = "file"

\* The cluster after c in its chain has the same owner and the next place.
NextIn(o, p, c) ==
  /\ fat[1][c] \in Clusters
  /\ o[fat[1][c]] = o[c] /\ p[fat[1][c]] = p[c] + 1

Linked(o, p, s) ==
  \A c \in Clusters : o[c] = s => fat[1][c] = END_OF_CHAIN \/ NextIn(o, p, c)

Holds(o, p, s, text) ==
  /\ dir[s].size = text.size
  /\ dir[s].cluster_lo = 0 => text.size = 0
  /\ \A c \in Clusters : o[c] = s =>
       /\ data[c] = Piece(text, p[c])
       /\ p[c] < text.size => fat[1][c] # END_OF_CHAIN

StartsAt(o, p, s, first) == first \in Clusters /\ o[first] = s /\ p[first] = 1

FileOK(o, p, s) ==
  /\ dir[s].cluster_lo = 0 \/ StartsAt(o, p, s, dir[s].cluster_lo)
  /\ Linked(o, p, s)
  /\ First(s) /\ expected[dir[s].name] # Unknown => Holds(o, p, s, expected[dir[s].name])

Rewriting == op \in WriteOps

FilesOK(o, p) ==
  \A s \in Slots : dir[s].kind = "file" /\ ~(Rewriting /\ s = op.slot) => FileOK(o, p, s)

\* The rest of the old chain is the file's, the clusters before it are free.
Freeing(o, p) ==
  /\ \A c \in Clusters : o[c] # NEW_CHAIN
  /\ Linked(o, p, op.slot)
  /\ op.cluster \in Clusters => o[op.cluster] = op.slot
  /\ op.pc = "clear" => op.next = fat[1][op.cluster]
  /\ LET lo == dir[op.slot].cluster_lo
     IN  lo = 0 \/ (lo \in Clusters /\ (lo = op.cluster \/ fat[1][lo] = FREE))
  /\ op.done = 0 /\ op.first = 0 /\ op.prev = 0

\* The chain under construction.
Built == IF op.pc = "data" THEN op.done + 1 ELSE op.done
Tip == IF op.pc = "mark" THEN op.cluster ELSE END_OF_CHAIN

ChainOfNew(o, p) ==
  /\ \A c, d \in Clusters : o[c] = NEW_CHAIN /\ o[d] = NEW_CHAIN /\ p[c] = p[d] => c = d
  /\ \A c \in Clusters : o[c] = NEW_CHAIN =>
       /\ p[c] \in 1 .. Built
       /\ p[c] < Built => NextIn(o, p, c)
       /\ p[c] = Built => fat[1][c] = Tip
       /\ p[c] <= op.done => data[c] = Piece(op.text, p[c])

Ends(o, p) ==
  /\ IF op.done = 0 /\ op.pc # "data"
     THEN op.first = IF op.pc = "mark" THEN op.cluster ELSE 0
     ELSE StartsAt(o, p, NEW_CHAIN, op.first)
  /\ IF op.done = 0 THEN op.prev = 0
     ELSE op.prev \in Clusters /\ o[op.prev] = NEW_CHAIN /\ p[op.prev] = op.done

\* The cluster at hand: those before it were not free when the scan passed them.
Current(o, p) ==
  /\ op.done <= op.text.size
  /\ op.pc = "alloc" => \A c \in Clusters : c < op.cluster => fat[1][c] # FREE
  /\ op.pc \in {"link", "mark", "data"} => op.done < op.text.size
  /\ op.pc = "dir" => op.done = op.text.size
  /\ op.pc = "link" => op.done > 0
  /\ op.pc \in {"link", "mark"} => fat[1][op.cluster] = FREE
  /\ op.pc = "data" => o[op.cluster] = NEW_CHAIN /\ p[op.cluster] = op.done + 1

Building(o, p) ==
  /\ \A c \in Clusters : o[c] # op.slot
  /\ ChainOfNew(o, p) /\ Ends(o, p) /\ Current(o, p)
  /\ LET lo == dir[op.slot].cluster_lo
     IN  lo = 0 \/ (lo \in Clusters /\ (fat[1][lo] = FREE \/ o[lo] = NEW_CHAIN))

WritingOK(o, p) ==
  Rewriting => IF op.pc \in {"free", "clear"} THEN Freeing(o, p) ELSE Building(o, p)

IdleOK(o, p) == ~Rewriting => \A c \in Clusters : o[c] # NEW_CHAIN

\* What has been read are the first pieces, and the next one is at the cluster reached.
ReadingOK(o, p) ==
  op \in ReadOps =>
    LET text == expected[dir[op.slot].name]
        n == Len(op.result)
    IN  text # Unknown =>
          /\ n + op.remaining = text.size
          /\ \A k \in 1 .. n : op.result[k] = Piece(text, k)
          /\ op.remaining > 0 =>
               op.cluster \in Clusters /\ o[op.cluster] = op.slot /\ p[op.cluster] = n + 1

Labelled(o, p) ==
  Labels(o, p) /\ FilesOK(o, p) /\ WritingOK(o, p) /\ IdleOK(o, p) /\ ReadingOK(o, p)

FatInv ==
  /\ DriveOK /\ DiskOK /\ DirOK /\ OpOK
  /\ failures = 0 => Orderly /\ \E o, p : Labelled(o, p)
-----------------------------------------------------------------------------
(* Numbers of clusters, and least elements. *)

\* The special FAT values are no clusters, and the special owners no slots.
LEMMA FatNumbers ==
  /\ total_clusters \in Nat /\ RootEntries \in Nat /\ MaxSize \in Nat /\ MaxFailures \in Nat
  /\ Clusters \subseteq Entries /\ Entries \subseteq FatEntries /\ FatEntries \subseteq FatValues
  /\ FatValues \subseteq Nat /\ BAD_CLUSTER \in FatValues
  /\ FREE \in FatEntries /\ END_OF_CHAIN \in FatEntries /\ RESERVED \in FatEntries
  /\ FREE \notin Clusters /\ END_OF_CHAIN \notin Clusters /\ FREE # END_OF_CHAIN
  /\ BAD_CLUSTER \notin Entries /\ BAD_CLUSTER \notin Clusters
  /\ Slots \subseteq Nat /\ NEW_CHAIN \notin Slots /\ NOBODY \notin Slots
  /\ NEW_CHAIN # NOBODY /\ Slots \subseteq Owners /\ NEW_CHAIN \in Owners /\ NOBODY \in Owners
  /\ \A c \in FatValues : InChain(c) <=> c \in Clusters \cup {BAD_CLUSTER}
  /\ 2 \in Clusters \cup {BAD_CLUSTER}
  /\ \A c \in Clusters : c + 1 \in Clusters \cup {BAD_CLUSTER} /\ c < BAD_CLUSTER /\ ~(c < 2)
BY Fat16Assumption
DEF FREE, BAD_CLUSTER, END_OF_CHAIN, RESERVED, Clusters, Entries, FatValues, FatEntries, Slots,
    NEW_CHAIN, NOBODY, Owners, InChain

\* The sectors of the FAT have numbers.
LEMMA SectorNumbers ==
  /\ \A c \in Entries : /\ SectorOf(c) = c \div EntriesPerSector
                        /\ SectorOf(c) \in Nat /\ SectorOf(c) # -1 /\ SectorOf(c) # OUTSIDE
  /\ SectorOf(BAD_CLUSTER) = OUTSIDE /\ OUTSIDE # -1
<1>1. \A c \in Nat : c \div EntriesPerSector \in Nat
  BY Fat16Assumption
<1>2. \A c \in Entries : c \in Nat /\ c # BAD_CLUSTER
  BY FatNumbers
<1>3. QED
  BY <1>1, <1>2 DEF SectorOf, OUTSIDE

\* The least element of a set of naturals is one.
LEMMA MinIn ==
  ASSUME NEW T, T \subseteq Nat, T # {}
  PROVE  Min(T) \in T /\ \A k \in T : Min(T) <= k
<1>1. PICK n \in T : \A k \in T : << k, n >> \notin OpToRel(<, Nat)
  BY WFMin, NatLessThanWellFounded
<1>2. \A k \in T : ~(k < n)
  BY <1>1 DEF OpToRel
<1>3. \A k \in T : n <= k
  BY <1>2
<1>4. QED
  BY <1>3 DEF Min

-----------------------------------------------------------------------------
(* The drive. *)

DriveMoves ==
  \/ UNCHANGED driveVars
  \/ /\ failures < MaxFailures /\ failures' = failures + 1
     /\ health' \in {health, "readonly", "dead"}

\* A step counts at most one failure, and counts it where the drive begins to fail.
LEMMA FatDriveStep == ASSUME [FatNext]_fatVars PROVE DriveMoves
<1>1. UNCHANGED fatVars \/ drive_breaks => DriveMoves
  BY DEF fatVars, driveVars, drive_breaks, DriveMoves
<1>2. FailsOnce \/ ReadWorks \/ ReadFails \/ WriteWorks \/ WriteFails => DriveMoves
  BY DEF FailsOnce, ReadWorks, ReadFails, WriteWorks, WriteFails, driveVars, DriveMoves
<1>3. cmd_format \/ fat16_mount \/ restart => DriveMoves
  BY <1>2 DEF cmd_format, fat16_mount, restart, DriveMoves
<1>4. \A n \in Names : fat16_create_file(n) \/ read_begin(n) => DriveMoves
  BY <1>2 DEF fat16_create_file, read_begin
<1>5. \A n \in Names : \A text \in TextsOf(n) : write_begin(n, text) => DriveMoves
  BY <1>2 DEF write_begin
<1>6. \A x, v : fat_read_entry(x, v) \/ fat_write_entry(x, v) => DriveMoves
  BY <1>2 DEF fat_read_entry, fat_write_entry, driveVars, DriveMoves
<1>7. free_cluster \/ clear_cluster \/ scan_cluster \/ link_cluster \/ mark_cluster \/ read_cluster => DriveMoves
  BY <1>6 DEF free_cluster, clear_cluster, scan_cluster, link_cluster, mark_cluster, read_cluster
<1>8. freed \/ disk_full \/ allocated \/ read_end => DriveMoves
  BY DEF freed, disk_full, allocated, read_end, DriveMoves
<1>9. write_cluster \/ update_entry \/ read_fails => DriveMoves
  BY <1>2 DEF write_cluster, update_entry, read_fails
<1>10. QED
  BY <1>1, <1>3, <1>4, <1>5, <1>7, <1>8, <1>9 DEF FatNext, fat16_write_file, fat16_read_file

\* What is counted stays counted.
LEMMA DriveTypes ==
  ASSUME DriveOK, [FatNext]_fatVars
  PROVE  DriveOK' /\ (failures' = 0 => failures = 0)
<1>1. failures \in Nat /\ MaxFailures \in Nat
  BY FatNumbers DEF DriveOK
<1>2. CASE UNCHANGED driveVars
  BY <1>2 DEF driveVars, DriveOK
<1>3. CASE /\ failures < MaxFailures /\ failures' = failures + 1
           /\ health' \in {health, "readonly", "dead"}
  BY <1>1, <1>3 DEF DriveOK, Healths
<1>4. QED
  BY <1>2, <1>3, FatDriveStep DEF DriveMoves

\* In a step after which nothing has failed, no access fails.
LEMMA NothingFails ==
  ASSUME DriveOK, failures = 0, failures' = 0
  PROVE  ~FailsOnce /\ ~ReadFails /\ ~WriteFails /\ ~drive_breaks /\ health = "good"
BY DEF DriveOK, FailsOnce, ReadFails, WriteFails, drive_breaks

-----------------------------------------------------------------------------
(* Types, also after failures. *)

TypesOK == DiskOK /\ DirOK /\ OpOK

\* The pc tells the kind of operation.
LEMMA OpKind ==
  ASSUME OpOK
  PROVE  /\ op.pc = "read" => op \in ReadOps
         /\ op.pc \in {"free", "clear", "alloc", "link", "mark", "data", "dir"} => op \in WriteOps
         /\ op # NoOp => op \in WriteOps \cup ReadOps
         /\ op \in WriteOps => op # NoOp /\ op.pc # "read" /\ op.slot \in Slots /\ op \notin ReadOps
         /\ op \in ReadOps => op # NoOp /\ op.slot \in Slots
         /\ op = NoOp => op \notin WriteOps /\ op \notin ReadOps
<1>1. op = NoOp => op.pc = "idle"
  BY DEF NoOp
<1>2. op \in WriteOps =>
        op.pc \in {"free", "clear", "alloc", "link", "mark", "data", "dir"} /\ op.slot \in Slots
  BY DEF WriteOps
<1>3. op \in ReadOps => op.pc = "read" /\ op.slot \in Slots
  BY DEF ReadOps
<1>4. QED
  BY <1>1, <1>2, <1>3 DEF OpOK

\* The sector that a read leaves in the cache.
LEMMA ReadTyped ==
  ASSUME DiskOK, NEW x \in Entries \cup {BAD_CLUSTER}, NEW v, fat_read_entry(x, v)
  PROVE  CacheTyped(cache')
<1>1. CASE cache' = cache
  BY <1>1 DEF DiskOK, CacheTyped
<1>2. CASE cache' \in SectorsRead(x)
  <2>1. CASE x = BAD_CLUSTER
    <3>1. \A r \in SectorsRead(x) : r.sector = OUTSIDE
      BY <2>1 DEF SectorsRead
    <3>2. QED
      BY <1>2, <3>1 DEF CacheTyped
  <2>2. CASE x # BAD_CLUSTER
    <3>1. cache' = CacheOf(SectorOf(x)) /\ x \in Entries
      BY <1>2, <2>2 DEF SectorsRead
    <3>2. cache'.sector = SectorOf(x)
      BY <3>1 DEF CacheOf
    <3>3. QED
      BY <3>1, <3>2 DEF CacheTyped
  <2>3. QED
    BY <2>1, <2>2
<1>3. QED
  BY <1>1, <1>2 DEF fat_read_entry

\* An empty cache has the type.
LEMMA NoCacheTyped == CacheTyped(NoCache)
BY DEF CacheTyped, NoCache

\* Rewriting an entry leaves two copies of the FAT, whether it fails or not.
LEMMA WriteTyped ==
  ASSUME DiskOK, NEW x, NEW v \in FatEntries, fat_write_entry(x, v)
  PROVE  /\ fat' \in [1 .. 2 -> [Entries -> FatEntries]]
         /\ data' \in [Clusters -> Contents] /\ CacheTyped(cache')
<1>1. \A copy \in 1 .. 2 : WholeSector(copy, x, v) \in [Entries -> FatEntries]
  BY DEF WholeSector, DiskOK
<1>2. PICK copies : Rewritten(copies, x, v) /\ (cache' = cache \/ cache' = NoCache)
  BY DEF fat_write_entry
<1>3. fat' \in [1 .. 2 -> [Entries -> FatEntries]]
  <2>1. fat \in [1 .. 2 -> [Entries -> FatEntries]]
    BY DEF DiskOK
  <2>2. fat' = [copy \in 1 .. 2 |-> IF copy \in copies THEN WholeSector(copy, x, v) ELSE fat[copy]]
    BY <1>2 DEF Rewritten
  <2>3. QED
    BY <1>1, <2>1, <2>2
<1>4. data' \in [Clusters -> Contents]
  BY <1>2 DEF Rewritten, DiskOK, Contents
<1>5. CacheTyped(cache')
  BY <1>2, NoCacheTyped DEF DiskOK
<1>6. QED
  BY <1>3, <1>4, <1>5

\* A step of a write that rewrites an entry.
LEMMA WriteDisk ==
  ASSUME DiskOK, NEW x, NEW v \in FatEntries, fat_write_entry(x, v), UNCHANGED << boot, dir, mounted >>
  PROVE  DiskOK'
BY WriteTyped DEF DiskOK

\* Steps of a write: what the operation may change while it stays one.
WriteOpStep ==
  /\ op' \in WriteOps /\ op'.slot = op.slot /\ op'.text = op.text
  /\ op'.pc = "clear" => InChain(op'.cluster)
  /\ op'.pc = "alloc" => op'.cluster \in Clusters \cup {BAD_CLUSTER}
  /\ op'.pc \in {"link", "mark", "data"} => op'.cluster \in Clusters
  /\ op'.pc = "link" => op'.prev \in Clusters

\* A step of a write that stays a write keeps the facts about it.
LEMMA StillWriting ==
  ASSUME OpOK, op \in WriteOps, WriteOpStep, UNCHANGED << dir, expected, mounted >>
  PROVE  OpOK'
<1>1. op # NoOp
  BY OpKind
<1>2. QED
  BY <1>1 DEF OpOK, WriteOpStep, Visible

\* A step that leaves the directory alone keeps the facts about it.
LEMMA DirAlone == ASSUME DirOK, UNCHANGED << dir, expected >> PROVE DirOK'
BY DEF DirOK, Sorted, Found, Matches, Visible

\* Nothing is to be said when no operation is under way.
LEMMA OpOver == ASSUME op' = NoOp PROVE OpOK'
<1>1. NoOp \notin WriteOps
  <2>1. \A w \in WriteOps : w.pc # "idle"
    BY DEF WriteOps
  <2>2. QED
    BY <2>1 DEF NoOp
<1>2. QED
  BY <1>1 DEF OpOK

-----------------------------------------------------------------------------
(* Types: one lemma per action. *)

\* The blank disk at the start has the types.
LEMMA FatStart == FatInit => TypesOK /\ DriveOK
<1> SUFFICES ASSUME FatInit PROVE TypesOK /\ DriveOK
  OBVIOUS
<1>1. DiskOK
  <2>1. Other("end") \in DirEntries
    BY DEF DirEntries, Other
  <2>2. [c \in Clusters |-> << >>] \in [Clusters -> Contents]
    BY DEF Contents
  <2>3. fat \in [1 .. 2 -> [Entries -> FatEntries]]
    BY FatNumbers DEF FatInit
  <2>4. dir \in [Slots -> DirEntries] /\ data \in [Clusters -> Contents]
    BY <2>1, <2>2 DEF FatInit
  <2>5. CacheTyped(cache)
    BY NoCacheTyped DEF FatInit
  <2>6. QED
    BY <2>3, <2>4, <2>5 DEF FatInit, DiskOK
<1>2. DirOK
  <2>1. NoFile \in Texts
    BY FatNumbers DEF Texts, NoFile, NoText
  <2>2. \A s \in Slots : dir[s].kind = "end"
    BY DEF FatInit, Other
  <2>3. \A n \in Names : ~Found(n)
    BY <2>2 DEF Found, Matches, Visible
  <2>4. QED
    BY <2>1, <2>2, <2>3 DEF FatInit, DirOK, Sorted
<1>3. OpOK
  <2>1. NoOp \notin WriteOps
    <3>1. \A w \in WriteOps : w.pc # "idle"
      BY DEF WriteOps
    <3>2. QED
      BY <3>1 DEF NoOp
  <2>2. QED
    BY <2>1 DEF FatInit, OpOK
<1>4. DriveOK
  BY FatNumbers DEF FatInit, DriveOK, Healths
<1>5. QED
  BY <1>1, <1>2, <1>3, <1>4 DEF TypesOK

\* The texts that are not texts of a file.
LEMMA Tags ==
  /\ NoFile \in Texts /\ Unknown \in Texts /\ Empty \in Texts
  /\ NoFile # Unknown /\ Empty # Unknown /\ Empty # NoFile
  /\ \A n \in Names : TextsOf(n) \subseteq Texts /\ NoFile \notin TextsOf(n) /\ Unknown \notin TextsOf(n)
<1>1. \A why \in {"no file", "unknown", "empty"} : NoText(why) \in Texts /\ NoText(why).tag = why
  <2>1. 0 \in 0 .. MaxSize
    BY FatNumbers
  <2>2. QED
    BY <2>1 DEF NoText, Texts
<1>2. \A n \in Names : \A text \in TextsOf(n) : text \in Texts /\ text.tag = n
  BY DEF TextsOf, Texts
<1>3. QED
  BY <1>1, <1>2, TagsAssumption DEF NoFile, Unknown, Empty

\* Quotients of a larger number are no smaller.
LEMMA DivMono ==
  ASSUME NEW a \in Nat, NEW b \in Nat, a <= b, NEW n \in Nat \ {0}
  PROVE  a \div n <= b \div n
<1> DEFINE q == a \div n
           r == b \div n
<1>1. q \in Nat /\ r \in Nat /\ n * q <= a /\ b < n * r + n
  OBVIOUS
<1>2. ASSUME r < q PROVE FALSE
  <2>1. r + 1 <= q
    BY <1>1, <1>2
  <2>2. n * (r + 1) <= n * q
    BY <1>1, <2>1
  <2>3. n * (r + 1) = n * r + n
    BY <1>1
  <2>4. QED
    BY <1>1, <2>2, <2>3
<1>3. QED
  BY <1>1, <1>2

\* The writes of cmd_format, in order: boot sector, FATs, directory, label.
LEMMA FormatOrder ==
  /\ FormatWrites \in Nat /\ FormatWrites > 1
  /\ \A s \in Slots : /\ ~(FormatWrites <= 1 + 2 * FatSectors + DirSector(s))
                      /\ 1 <= 1 + 2 * FatSectors + DirSector(s)
                      /\ 0 <= 1 + 2 * FatSectors + DirSector(s)
  /\ \A copy \in 1 .. 2 : \A c \in Entries : ~(FormatWrites <= 1 + (copy - 1) * FatSectors + SectorOf(c))
<1>1. total_clusters + 1 \in Entries /\ total_clusters + 1 \in Nat
  BY FatNumbers DEF Entries
<1>2. FatSectors \in Nat /\ FatSectors = SectorOf(total_clusters + 1) + 1
  BY <1>1, SectorNumbers DEF FatSectors
<1>3. \A s \in Slots : DirSector(s) \in Nat
  <2>1. \A s \in Slots : s - 1 \in Nat
    BY FatNumbers DEF Slots
  <2>2. QED
    BY <2>1, Fat16Assumption DEF DirSector
<1>4. \A s \in Slots : DirSector(s) <= DirSector(RootEntries)
  <2> TAKE s \in Slots
  <2>1. s - 1 \in Nat /\ s - 1 <= RootEntries - 1 /\ RootEntries - 1 \in Nat
    BY FatNumbers DEF Slots
  <2>2. QED
    BY <2>1, DivMono, Fat16Assumption DEF DirSector
<1>5. DirSectors \in Nat /\ \A s \in Slots : DirSector(s) < DirSectors
  <2>1. RootEntries \in Slots
    BY Fat16Assumption DEF Slots
  <2>2. QED
    BY <1>3, <1>4, <2>1 DEF DirSectors
<1>6. \A c \in Entries : SectorOf(c) \in Nat /\ SectorOf(c) < FatSectors
  <2> TAKE c \in Entries
  <2>1. c \in Nat /\ c <= total_clusters + 1
    BY FatNumbers DEF Entries
  <2>2. SectorOf(c) <= SectorOf(total_clusters + 1)
    BY <1>1, <2>1, DivMono, SectorNumbers, Fat16Assumption
  <2>3. QED
    BY <1>1, <1>2, <2>2, SectorNumbers
<1> DEFINE f == FatSectors
           d == DirSectors
<1>7. FormatWrites = 1 + 2 * f + d + 1 /\ f \in Nat /\ d \in Nat
  BY <1>2, <1>5 DEF FormatWrites
<1>8. \A s \in Slots : DirSector(s) \in Nat /\ DirSector(s) < d
  BY <1>3, <1>5
<1> HIDE DEF f, d
<1>9. FormatWrites \in Nat /\ FormatWrites > 1
  BY <1>7
<1>10. \A s \in Slots : /\ ~(FormatWrites <= 1 + 2 * f + DirSector(s))
                        /\ 1 <= 1 + 2 * f + DirSector(s) /\ 0 <= 1 + 2 * f + DirSector(s)
  BY <1>7, <1>8
<1>11. \A copy \in 1 .. 2 : \A c \in Entries : ~(FormatWrites <= 1 + (copy - 1) * f + SectorOf(c))
  <2> SUFFICES ASSUME NEW copy \in 1 .. 2, NEW c \in Entries
               PROVE  ~(FormatWrites <= 1 + (copy - 1) * f + SectorOf(c))
    OBVIOUS
  <2>1. SectorOf(c) \in Nat /\ SectorOf(c) < f
    BY <1>6 DEF f
  <2>2. (copy - 1) * f = 0 \/ (copy - 1) * f = f
    <3>1. copy = 1 \/ copy = 2
      OBVIOUS
    <3>2. QED
      BY <1>7, <3>1
  <2>3. QED
    BY <1>7, <2>1, <2>2
<1>12. QED
  BY <1>9, <1>10, <1>11 DEF f

\* Wherever cmd_format stops, the types are kept.
LEMMA FormatTypes == ASSUME TypesOK, cmd_format PROVE TypesOK'
<1>1. PICK done \in 0 .. FormatWrites : Formatted(done)
  BY FormatOrder DEF cmd_format
<1>2. cache' = NoCache /\ data' = data /\ op' = op /\ op = NoOp /\ mounted' \in BOOLEAN
  BY DEF cmd_format
<1>3. fat' \in [1 .. 2 -> [Entries -> FatEntries]]
  <2>1. fat \in [1 .. 2 -> [Entries -> FatEntries]]
    BY DEF TypesOK, DiskOK
  <2>2. QED
    BY <1>1, <2>1, FatNumbers DEF Formatted
<1>4. dir' = [s \in Slots |->
               IF done <= 1 + 2 * FatSectors + DirSector(s) THEN dir[s]
               ELSE Other(IF s = 1 /\ done = FormatWrites THEN "label" ELSE "end")]
  BY <1>1 DEF Formatted
<1>5. \A k \in {"end", "label"} : Other(k) \in DirEntries /\ Other(k).kind = k
  BY DEF DirEntries, Other
<1>6. dir' \in [Slots -> DirEntries]
  BY <1>4, <1>5 DEF TypesOK, DiskOK
<1>7. boot' \in BOOLEAN
  BY <1>1 DEF Formatted
<1>8. DiskOK'
  BY <1>2, <1>3, <1>6, <1>7, NoCacheTyped DEF TypesOK, DiskOK
<1>9. DirOK'
  <2>1. expected' = [n \in Names |-> IF done <= 1 THEN expected[n]
                                     ELSE IF done = FormatWrites THEN NoFile ELSE Unknown]
    BY <1>1 DEF Formatted
  <2>2. expected' \in [Names -> Texts]
    BY <2>1, Tags DEF TypesOK, DirOK
  <2>3. CASE done <= 1
    <3>1. \A s \in Slots : done <= 1 + 2 * FatSectors + DirSector(s)
      <4>1. done = 0 \/ done = 1
        BY <2>3, FormatOrder
      <4>2. QED
        BY <4>1, FormatOrder
    <3>2. dir' = [s \in Slots |-> dir[s]] /\ expected' = [n \in Names |-> expected[n]]
      BY <1>4, <2>1, <2>3, <3>1
    <3>3. dir' = dir /\ expected' = expected
      BY <3>2 DEF TypesOK, DiskOK, DirOK
    <3>4. QED
      BY <3>3, DirAlone DEF TypesOK
  <2>4. CASE ~(done <= 1) /\ done = FormatWrites
    <3>1. \A s \in Slots : dir'[s].kind = IF s = 1 THEN "label" ELSE "end"
      BY <1>4, <1>5, <2>4, FormatOrder
    <3>2. \A s \in Slots : s >= 1 /\ s \in Nat
      BY DEF Slots
    <3>3. \A n \in Names : expected'[n] = NoFile
      BY <2>1, <2>4
    <3>4. Sorted'
      BY <3>1, <3>2 DEF Sorted
    <3>5. \A n \in Names : ~Found(n)'
      BY <3>1 DEF Found, Matches, Visible
    <3>6. \A s \in Slots : dir'[s].kind \in {"end", "label", "file"}
      BY <3>1
    <3>7. QED
      BY <2>2, <3>3, <3>4, <3>5, <3>6 DEF DirOK
  <2>5. CASE ~(done <= 1) /\ done # FormatWrites
    <3>1. \A n \in Names : expected'[n] = Unknown
      BY <2>1, <2>5
    <3>2. \A s \in Slots : dir'[s].kind \in {"end", "label", "file"}
      BY <1>4, <1>5 DEF TypesOK, DirOK
    <3>3. QED
      BY <2>2, <3>1, <3>2, Tags DEF DirOK
  <2>6. QED
    BY <2>3, <2>4, <2>5
<1>10. QED
  BY <1>2, <1>8, <1>9, OpOver DEF TypesOK

\* fat16_mount empties the cache and changes nothing on the disk.
LEMMA MountTypes == ASSUME TypesOK, fat16_mount PROVE TypesOK'
<1>1. DiskOK'
  BY NoCacheTyped DEF fat16_mount, diskVars, TypesOK, DiskOK
<1>2. QED
  BY <1>1, DirAlone, OpOver DEF TypesOK, fat16_mount, diskVars

\* A restart drops the operation under way and keeps the disk.
LEMMA RestartTypes == ASSUME TypesOK, restart PROVE TypesOK'
<1>1. DiskOK'
  BY NoCacheTyped DEF restart, diskVars, TypesOK, DiskOK
<1>2. QED
  BY <1>1, DirAlone, OpOver DEF TypesOK, restart, diskVars

\* A drive that breaks keeps what it holds.
LEMMA BreakTypes == ASSUME TypesOK, drive_breaks PROVE TypesOK'
<1>1. UNCHANGED << boot, fat, dir, data, mounted, cache, op, expected >>
  BY DEF drive_breaks, diskVars
<1>2. DiskOK' /\ OpOK'
  BY <1>1 DEF TypesOK, DiskOK, OpOK, Visible
<1>3. QED
  BY <1>1, <1>2, DirAlone DEF TypesOK

\* Searching the directory finds an entry of the name, the first one where no entry is
\* behind an end marker.
LEMMA DirSearch ==
  ASSUME NEW n \in Names
  PROVE  /\ Found(n) => SlotOf(n) \in Slots /\ SlotOf(n) \in Visible /\ IsFile(SlotOf(n), n)
         /\ Sorted => (Found(n) <=> \E s \in Slots : IsFile(s, n))
         /\ Sorted /\ Found(n) => First(SlotOf(n))
<1>1. Matches(n) \subseteq Slots /\ Matches(n) \subseteq Visible /\ Matches(n) \subseteq Nat
      /\ \A s \in Matches(n) : IsFile(s, n)
  BY FatNumbers DEF Matches, Visible, IsFile
<1>2. Found(n) => SlotOf(n) \in Matches(n) /\ \A s \in Matches(n) : SlotOf(n) <= s
  BY <1>1, MinIn DEF Found, SlotOf
<1>3. ASSUME Sorted, NEW s \in Slots, IsFile(s, n) PROVE s \in Matches(n)
  <2>1. ASSUME NEW t \in 1 .. s PROVE dir[t].kind # "end"
    <3>1. t \in Slots /\ (t < s \/ t = s)
      BY FatNumbers DEF Slots
    <3>2. QED
      BY <1>3, <3>1 DEF Sorted, IsFile
  <2>2. QED
    BY <1>3, <2>1 DEF Matches, Visible, IsFile
<1>4. ASSUME Sorted, Found(n) PROVE First(SlotOf(n))
  <2>1. dir[SlotOf(n)].name = n /\ SlotOf(n) \in Slots
    BY <1>1, <1>2, <1>4 DEF IsFile
  <2>2. ASSUME NEW t \in Slots, t < SlotOf(n), IsFile(t, n) PROVE FALSE
    <3>1. SlotOf(n) <= t
      BY <1>2, <1>3, <1>4, <2>2
    <3>2. SlotOf(n) \in Nat /\ t \in Nat
      BY <2>1, FatNumbers
    <3>3. QED
      BY <2>2, <3>1, <3>2
  <2>3. QED
    BY <2>1, <2>2 DEF First
<1>5. QED
  BY <1>1, <1>2, <1>3, <1>4 DEF Found

\* What fat16_create_file does when it adds an entry: at the first free slot, where the
\* first end marker was.
LEMMA CreatedFacts ==
  ASSUME TypesOK, NEW m \in Names, Created(m)
  PROVE  \E s \in Slots :
           /\ dir[s].kind = "end" /\ \A t \in Slots : t < s => dir[t].kind # "end"
           /\ dir' \in [Slots -> DirEntries]
           /\ dir'[s] = File(m, 0, 0) /\ \A t \in Slots : t # s => dir'[t] = dir[t]
           /\ dir'[s].kind = "file" /\ dir'[s].name = m
<1> DEFINE s == Min(FreeSlots)
<1>1. FreeSlots \subseteq Slots /\ FreeSlots \subseteq Nat /\ FreeSlots # {}
  BY FatNumbers DEF FreeSlots, Created
<1>2. s \in FreeSlots /\ \A t \in FreeSlots : s <= t
  BY <1>1, MinIn
<1>3. dir' = [dir EXCEPT ![s] = File(m, 0, 0)]
  BY DEF Created
<1> HIDE DEF s
<1>4. s \in Slots /\ dir[s].kind = "end"
  BY <1>1, <1>2 DEF FreeSlots, TypesOK, DirOK
<1>5. File(m, 0, 0) \in DirEntries
  BY FatNumbers DEF File, DirEntries, Files
<1>6. dir' \in [Slots -> DirEntries] /\ dir'[s] = File(m, 0, 0)
      /\ \A t \in Slots : t # s => dir'[t] = dir[t]
  BY <1>3, <1>4, <1>5 DEF TypesOK, DiskOK
<1>7. dir'[s].kind = "file" /\ dir'[s].name = m
  BY <1>6 DEF File
<1>8. \A t \in Slots : t < s => dir[t].kind # "end"
  BY <1>1, <1>2, <1>4 DEF FreeSlots, Slots
<1>9. QED
  BY <1>4, <1>6, <1>7, <1>8

\* The new entry hides nothing, and makes nothing visible but itself where no entry was
\* behind an end marker.
LEMMA CreatedDir ==
  ASSUME TypesOK, NEW m \in Names, Created(m)
  PROVE  DirOK' /\ (Sorted => Sorted') /\ dir' \in [Slots -> DirEntries]
<1>1. PICK s \in Slots :
        /\ dir[s].kind = "end" /\ \A t \in Slots : t < s => dir[t].kind # "end"
        /\ dir' \in [Slots -> DirEntries]
        /\ dir'[s] = File(m, 0, 0) /\ \A t \in Slots : t # s => dir'[t] = dir[t]
        /\ dir'[s].kind = "file" /\ dir'[s].name = m
  BY CreatedFacts
<1>2. expected' = IF Found(m) THEN expected ELSE [expected EXCEPT ![m] = Empty]
  BY DEF Created
<1>3. /\ expected' \in [Names -> Texts] /\ expected'[m] = IF Found(m) THEN expected[m] ELSE Empty
      /\ \A n \in Names : n # m => expected'[n] = expected[n]
  BY <1>2, Tags DEF TypesOK, DirOK
<1>4. /\ \A n \in Names : expected'[n] \in TextsOf(n) \cup {NoFile, Unknown, Empty}
      /\ \A t \in Slots : dir'[t].kind \in {"end", "label", "file"}
  BY <1>1, <1>3 DEF TypesOK, DirOK
<1>5. \A t \in Slots : \A u \in 1 .. t : u \in Slots /\ u \in Nat /\ t \in Nat /\ u <= t
  BY FatNumbers DEF Slots
<1>6. \A t \in Visible : t # s /\ t \in Visible' /\ dir'[t] = dir[t]
  <2> SUFFICES ASSUME NEW t \in Visible PROVE t # s /\ t \in Visible' /\ dir'[t] = dir[t]
    OBVIOUS
  <2>1. t \in Slots /\ \A u \in 1 .. t : dir[u].kind # "end"
    BY DEF Visible
  <2>2. t \in 1 .. t
    BY <2>1 DEF Slots
  <2>3. t # s
    BY <1>1, <2>1, <2>2
  <2>4. \A u \in 1 .. t : dir'[u].kind # "end"
    BY <1>1, <1>5, <2>1
  <2>5. QED
    BY <1>1, <2>1, <2>3, <2>4 DEF Visible
<1>7. s \in Visible'
  <2>1. ASSUME NEW u \in 1 .. s PROVE dir'[u].kind # "end"
    <3>1. u \in Slots /\ (u < s \/ u = s)
      BY <1>5
    <3>2. QED
      BY <1>1, <3>1
  <2>2. QED
    BY <2>1 DEF Visible
<1>8. \A n \in Names : Found(n) => Found(n)'
  BY <1>6 DEF Found, Matches
<1>9. Found(m)'
  BY <1>1, <1>7 DEF Found, Matches
<1>10. ASSUME Sorted PROVE Sorted' /\ \A t \in Visible' : t = s \/ t \in Visible
  <2>1. ASSUME NEW t \in Slots, NEW u \in Slots, t < u, dir'[t].kind = "end"
        PROVE  dir'[u].kind = "end"
    <3>1. t # s /\ dir[t].kind = "end"
      BY <1>1, <2>1
    <3>2. ~(t < s)
      BY <1>1, <3>1
    <3>3. u # s /\ dir[u].kind = "end"
      BY <1>10, <2>1, <3>1, <3>2 DEF Sorted
    <3>4. QED
      BY <1>1, <3>3
  <2>2. ASSUME NEW t \in Visible', t # s PROVE t \in Visible
    <3>1. t \in Slots /\ \A u \in 1 .. t : dir'[u].kind # "end"
      BY <2>2 DEF Visible
    <3>2. t \in 1 .. t /\ s \in Nat /\ t \in Nat
      BY <3>1, FatNumbers DEF Slots
    <3>3. dir[t].kind # "end"
      BY <1>1, <2>2, <3>1, <3>2
    <3>4. ~(s < t)
      BY <1>1, <1>10, <3>1, <3>3 DEF Sorted
    <3>5. \A u \in 1 .. t : u # s /\ u \in Slots
      BY <1>5, <2>2, <3>1, <3>2, <3>4
    <3>6. QED
      BY <1>1, <3>1, <3>5 DEF Visible
  <2>3. QED
    BY <2>1, <2>2 DEF Sorted
<1>11. (\E n \in Names : expected'[n] = NoFile) => Sorted'
  <2> SUFFICES ASSUME NEW n \in Names, expected'[n] = NoFile PROVE Sorted'
    OBVIOUS
  <2>1. expected[n] = NoFile
    BY <1>3, Tags
  <2>2. QED
    BY <1>10, <2>1 DEF TypesOK, DirOK
<1>12. ASSUME NEW n \in Names, expected'[n] # Unknown
       PROVE  expected'[n] # NoFile <=> Found(n)'
  <2>1. CASE n = m
    <3>1. expected'[n] # NoFile
      BY <1>3, <1>12, <2>1, Tags DEF TypesOK, DirOK
    <3>2. QED
      BY <1>9, <2>1, <3>1
  <2>2. CASE n # m
    <3>1. expected'[n] = expected[n] /\ (expected[n] # NoFile <=> Found(n))
      BY <1>3, <1>12, <2>2 DEF TypesOK, DirOK
    <3>2. ASSUME expected[n] = NoFile, Found(n)' PROVE FALSE
      <4>1. Sorted
        BY <3>2 DEF TypesOK, DirOK
      <4>2. PICK t \in Visible' : dir'[t].kind = "file" /\ dir'[t].name = n
        BY <3>2 DEF Found, Matches
      <4>3. t # s
        BY <1>1, <2>2, <4>2
      <4>4. t \in Visible /\ dir'[t] = dir[t]
        BY <1>6, <1>10, <4>1, <4>2, <4>3
      <4>5. Found(n)
        BY <4>2, <4>4 DEF Found, Matches
      <4>6. QED
        BY <3>1, <3>2, <4>5
    <3>3. QED
      BY <1>8, <3>1, <3>2
  <2>3. QED
    BY <2>1, <2>2
<1>13. DirOK'
  BY <1>3, <1>4, <1>11, <1>12 DEF DirOK
<1>14. QED
  BY <1>1, <1>10, <1>13

\* fat16_create_file, also where its search fails or the name was cut.
LEMMA CreateTypes ==
  ASSUME TypesOK, NEW n \in Names, fat16_create_file(n)
  PROVE  TypesOK'
<1>1. op' = NoOp /\ UNCHANGED << boot, fat, data, mounted, cache >>
  BY DEF fat16_create_file
<1>2. DirOK' /\ dir' \in [Slots -> DirEntries]
  <2>1. CASE UNCHANGED << dir, expected >>
    BY <2>1, DirAlone DEF TypesOK, DiskOK
  <2>2. CASE Created(name_to_83[n])
    BY <2>2, CreatedDir, Fat16Assumption
  <2>3. QED
    BY <2>1, <2>2 DEF fat16_create_file
<1>3. DiskOK'
  BY <1>1, <1>2 DEF TypesOK, DiskOK
<1>4. QED
  BY <1>1, <1>2, <1>3, OpOver DEF TypesOK

\* A write begins with the entry of its file and at the head of the old chain.
LEMMA WriteBeginTypes ==
  ASSUME TypesOK, NEW n \in Names, NEW text \in TextsOf(n), write_begin(n, text)
  PROVE  /\ TypesOK'
         /\ op' \in WriteOps /\ op'.pc = "free" /\ op'.slot = SlotOf(n) /\ op'.text = text
         /\ op'.cluster = dir[SlotOf(n)].cluster_lo /\ op'.cluster # BAD_CLUSTER
         /\ op'.first = 0 /\ op'.prev = 0 /\ op'.done = 0
<1> DEFINE s == SlotOf(n)
<1>1. s \in Slots /\ s \in Visible /\ IsFile(s, n) /\ dir[s].name = n /\ dir[s].kind = "file"
  BY DirSearch DEF write_begin, IsFile
<1>2. dir[s].cluster_lo \in FatValues /\ dir[s].cluster_lo # BAD_CLUSTER
  <2>1. dir[s] \in Files
    BY <1>1 DEF TypesOK, DiskOK, DirEntries, Other
  <2>2. QED
    BY <2>1, FatNumbers DEF Files, Entries
<1>3. op' = [pc |-> "free", slot |-> s, text |-> text, then |-> "alloc",
             cluster |-> dir[s].cluster_lo, next |-> 0, first |-> 0, prev |-> 0, done |-> 0]
  BY DEF write_begin
<1> HIDE DEF s
<1>4. /\ op' \in WriteOps /\ op'.pc = "free" /\ op'.slot = s /\ op'.text = text
      /\ op'.cluster = dir[s].cluster_lo /\ op'.first = 0 /\ op'.prev = 0 /\ op'.done = 0
  <2>1. 0 \in FatValues
    BY FatNumbers DEF FREE
  <2>2. QED
    BY <1>1, <1>2, <1>3, <2>1, Tags DEF WriteOps
<1>5. /\ dir' = dir /\ mounted' = mounted /\ mounted
      /\ expected' = [expected EXCEPT ![n] = Unknown]
  BY DEF write_begin, diskVars
<1>6. /\ expected' \in [Names -> Texts] /\ expected'[n] = Unknown
      /\ \A m \in Names : m # n => expected'[m] = expected[m]
  BY <1>5, Tags DEF TypesOK, DirOK
<1>7. DirOK'
  <2>1. \A m \in Names : Found(m)' <=> Found(m)
    BY <1>5 DEF Found, Matches, Visible
  <2>2. Sorted => Sorted'
    BY <1>5 DEF Sorted
  <2>3. (\E m \in Names : expected'[m] = NoFile) => Sorted'
    BY <1>6, <2>2, Tags DEF TypesOK, DirOK
  <2>4. QED
    BY <1>5, <1>6, <2>1, <2>3 DEF TypesOK, DirOK
<1>8. OpOK'
  BY <1>1, <1>4, <1>5, <1>6 DEF OpOK, Visible
<1>9. DiskOK'
  BY DEF write_begin, diskVars, TypesOK, DiskOK
<1>10. QED
  BY <1>2, <1>4, <1>7, <1>8, <1>9 DEF TypesOK, s

\* Steps that write no sector and leave the directory alone.
LEMMA DiskAlone == ASSUME DiskOK, UNCHANGED << diskVars, mounted >>, CacheTyped(cache') PROVE DiskOK'
BY DEF DiskOK, diskVars

\* The entry of the cluster to be freed is read.
LEMMA FreeTypes ==
  ASSUME TypesOK, free_cluster
  PROVE  \E v \in FatValues :
           /\ TypesOK' /\ op \in WriteOps /\ op.cluster \in Clusters \cup {BAD_CLUSTER}
           /\ fat_read_entry(op.cluster, v)
           /\ op' = [op EXCEPT !.pc = "clear", !.next = v] /\ op' \in WriteOps
<1>1. op \in WriteOps /\ op.pc = "free" /\ op.cluster \in FatValues
  BY OpKind DEF free_cluster, TypesOK, WriteOps
<1>2. InChain(op.cluster) /\ op.cluster \in Clusters \cup {BAD_CLUSTER}
  BY <1>1, FatNumbers DEF free_cluster
<1>3. PICK v \in FatValues : fat_read_entry(op.cluster, v) /\ op' = [op EXCEPT !.pc = "clear", !.next = v]
  BY DEF free_cluster
<1>4. op' \in WriteOps /\ op'.pc = "clear" /\ op'.slot = op.slot /\ op'.text = op.text
      /\ op'.cluster = op.cluster
  BY <1>1, <1>3 DEF WriteOps
<1>5. CacheTyped(cache')
  BY <1>2, <1>3, ReadTyped, FatNumbers DEF TypesOK
<1>6. DiskOK'
  BY <1>5, DiskAlone DEF free_cluster, TypesOK
<1>7. OpOK'
  BY <1>1, <1>2, <1>4, StillWriting DEF free_cluster, diskVars, TypesOK, WriteOpStep
<1>8. QED
  BY <1>1, <1>2, <1>3, <1>4, <1>6, <1>7, DirAlone DEF free_cluster, diskVars, TypesOK

\* Freeing goes on to the cluster that followed the freed one.
LEMMA ClearTypes ==
  ASSUME TypesOK, clear_cluster
  PROVE  /\ TypesOK' /\ op \in WriteOps /\ op.cluster \in Clusters \cup {BAD_CLUSTER} /\ op' \in WriteOps
         /\ op'.pc = "free" /\ op'.slot = op.slot /\ op'.text = op.text /\ op'.cluster = op.next
         /\ op'.first = op.first /\ op'.prev = op.prev /\ op'.done = op.done
<1>1. op \in WriteOps /\ op.pc = "clear" /\ op.cluster \in FatValues /\ op.next \in FatValues
  BY OpKind DEF clear_cluster, TypesOK, WriteOps
<1>2. op.cluster \in Clusters \cup {BAD_CLUSTER}
  BY <1>1, FatNumbers DEF TypesOK, OpOK
<1>3. op' = [op EXCEPT !.pc = "free", !.cluster = op.next, !.next = 0]
  BY DEF clear_cluster
<1>4. /\ op' \in WriteOps /\ op'.pc = "free" /\ op'.slot = op.slot /\ op'.text = op.text
      /\ op'.cluster = op.next /\ op'.first = op.first /\ op'.prev = op.prev /\ op'.done = op.done
  <2>1. 0 \in FatValues
    BY FatNumbers DEF FREE
  <2>2. QED
    BY <1>1, <1>3, <2>1 DEF WriteOps
<1>5. DiskOK'
  BY WriteDisk, FatNumbers DEF clear_cluster, TypesOK
<1>6. OpOK'
  BY <1>1, <1>4, StillWriting DEF clear_cluster, TypesOK, WriteOpStep
<1>7. QED
  BY <1>1, <1>2, <1>4, <1>5, <1>6, DirAlone DEF clear_cluster, TypesOK

\* After the old chain comes the allocation.
LEMMA FreedTypes ==
  ASSUME TypesOK, freed
  PROVE  /\ TypesOK' /\ op \in WriteOps /\ op' \in WriteOps /\ op'.pc = "alloc"
         /\ op'.slot = op.slot /\ op'.text = op.text /\ op'.cluster = 2
         /\ op'.first = op.first /\ op'.prev = op.prev /\ op'.done = op.done
<1>1. op \in WriteOps /\ op.pc = "free" /\ op.then = "alloc"
  BY OpKind DEF freed, TypesOK, WriteOps
<1>2. 2 \in FatValues /\ 2 \in Clusters \cup {BAD_CLUSTER}
  BY FatNumbers
<1>3. /\ op' \in WriteOps /\ op'.pc = "alloc" /\ op'.slot = op.slot /\ op'.text = op.text
      /\ op'.cluster = 2
      /\ op'.first = op.first /\ op'.prev = op.prev /\ op'.done = op.done
  BY <1>1, <1>2 DEF freed, WriteOps
<1>4. OpOK'
  BY <1>1, <1>2, <1>3, StillWriting DEF freed, diskVars, TypesOK, WriteOpStep
<1>5. DiskOK'
  BY DiskAlone DEF freed, TypesOK, DiskOK
<1>6. QED
  BY <1>1, <1>3, <1>4, <1>5, DirAlone DEF freed, diskVars, TypesOK

\* A turn of the scan: the cluster is taken, or the next one is looked at.
LEMMA ScanTypes ==
  ASSUME TypesOK, scan_cluster
  PROVE  \E v \in FatValues :
           /\ TypesOK' /\ op \in WriteOps /\ op' \in WriteOps
           /\ op.cluster \in Clusters /\ fat_read_entry(op.cluster, v)
           /\ op'.slot = op.slot /\ op'.text = op.text /\ op'.prev = op.prev /\ op'.done = op.done
           /\ v = FREE => /\ op'.pc = (IF op.prev # 0 THEN "link" ELSE "mark")
                          /\ op'.first = (IF op.first = 0 THEN op.cluster ELSE op.first)
                          /\ op'.cluster = op.cluster
           /\ v # FREE => /\ op'.pc = "alloc" /\ op'.first = op.first
                          /\ op'.cluster = op.cluster + 1
<1>1. op \in WriteOps /\ op.pc = "alloc" /\ op.cluster \in Clusters
  BY OpKind DEF scan_cluster, TypesOK
<1>2. op.first \in {0} \cup Clusters /\ op.prev \in {0} \cup Clusters
  BY <1>1 DEF WriteOps
<1>3. PICK v \in FatValues :
        /\ fat_read_entry(op.cluster, v)
        /\ op' = IF v = FREE THEN Taken ELSE [op EXCEPT !.cluster = op.cluster + 1]
  BY DEF scan_cluster
<1>4. DiskOK'
  BY <1>1, <1>3, ReadTyped, DiskAlone, FatNumbers DEF scan_cluster, TypesOK
<1>5. CASE v = FREE
  <2>1. op' = [op EXCEPT !.pc = IF op.prev # 0 THEN "link" ELSE "mark",
                         !.first = IF op.first = 0 THEN op.cluster ELSE op.first]
    BY <1>1, <1>3, <1>5 DEF Taken, WriteOps
  <2>2. /\ op' \in WriteOps /\ op'.slot = op.slot /\ op'.text = op.text /\ op'.prev = op.prev
        /\ op'.done = op.done /\ op'.cluster = op.cluster
        /\ op'.pc = (IF op.prev # 0 THEN "link" ELSE "mark")
        /\ op'.first = (IF op.first = 0 THEN op.cluster ELSE op.first)
    BY <1>1, <1>2, <2>1 DEF WriteOps
  <2>3. OpOK'
    BY <1>1, <1>2, <2>2, StillWriting DEF scan_cluster, diskVars, TypesOK, WriteOpStep
  <2>4. QED
    BY <1>1, <1>3, <1>4, <1>5, <2>2, <2>3, DirAlone DEF scan_cluster, diskVars, TypesOK
<1>6. CASE v # FREE
  <2> DEFINE k == op.cluster + 1
  <2>1. k \in FatValues /\ k \in Clusters \cup {BAD_CLUSTER}
    BY <1>1, FatNumbers
  <2>2. op' = [op EXCEPT !.cluster = k]
    BY <1>3, <1>6
  <2> HIDE DEF k
  <2>3. /\ op' \in WriteOps /\ op'.slot = op.slot /\ op'.text = op.text /\ op'.prev = op.prev
        /\ op'.done = op.done /\ op'.pc = "alloc" /\ op'.first = op.first /\ op'.cluster = k
    BY <1>1, <2>1, <2>2 DEF WriteOps
  <2>4. OpOK'
    BY <1>1, <2>1, <2>3, StillWriting DEF scan_cluster, diskVars, TypesOK, WriteOpStep
  <2>5. QED
    BY <1>1, <1>3, <1>4, <1>6, <2>3, <2>4, DirAlone DEF scan_cluster, diskVars, TypesOK, k
<1>7. QED
  BY <1>5, <1>6

\* A scan that finds nothing ends the operation.
LEMMA FullTypes ==
  ASSUME TypesOK, disk_full
  PROVE  TypesOK' /\ op' = NoOp /\ op \in WriteOps /\ op.cluster = BAD_CLUSTER
<1>1. op \in WriteOps /\ op.pc = "alloc" /\ op' = NoOp /\ op.cluster \notin Clusters
  BY OpKind DEF disk_full, OpEnds, TypesOK
<1>2. op.cluster = BAD_CLUSTER
  BY <1>1 DEF TypesOK, OpOK
<1>3. DiskOK'
  BY DiskAlone DEF disk_full, TypesOK, DiskOK
<1>4. QED
  BY <1>1, <1>2, <1>3, DirAlone, OpOver DEF disk_full, diskVars, TypesOK

\* Linking concerns two clusters of the disk.
LEMMA LinkTypes ==
  ASSUME TypesOK, link_cluster
  PROVE  /\ TypesOK' /\ op \in WriteOps /\ op.prev \in Clusters /\ op.cluster \in Clusters
         /\ op' = [op EXCEPT !.pc = "mark"] /\ op' \in WriteOps
<1>1. op \in WriteOps /\ op.pc = "link" /\ op.prev \in Clusters /\ op.cluster \in Clusters
  BY OpKind DEF link_cluster, TypesOK, OpOK
<1>2. op' = [op EXCEPT !.pc = "mark"] /\ op' \in WriteOps /\ op'.slot = op.slot /\ op'.text = op.text
      /\ op'.pc = "mark" /\ op'.cluster = op.cluster
  BY <1>1 DEF link_cluster, WriteOps
<1>3. DiskOK'
  BY <1>1, WriteDisk, FatNumbers DEF link_cluster, TypesOK
<1>4. OpOK'
  BY <1>1, <1>2, StillWriting DEF link_cluster, TypesOK, WriteOpStep
<1>5. QED
  BY <1>1, <1>2, <1>3, <1>4, DirAlone DEF link_cluster, TypesOK

\* Marking concerns a cluster of the disk.
LEMMA MarkTypes ==
  ASSUME TypesOK, mark_cluster
  PROVE  /\ TypesOK' /\ op \in WriteOps /\ op.cluster \in Clusters
         /\ op' = [op EXCEPT !.pc = "data"] /\ op' \in WriteOps
<1>1. op \in WriteOps /\ op.pc = "mark" /\ op.cluster \in Clusters
  BY OpKind DEF mark_cluster, TypesOK, OpOK
<1>2. op' = [op EXCEPT !.pc = "data"] /\ op' \in WriteOps /\ op'.slot = op.slot /\ op'.text = op.text
      /\ op'.pc = "data" /\ op'.cluster = op.cluster
  BY <1>1 DEF mark_cluster, WriteOps
<1>3. DiskOK'
  BY <1>1, WriteDisk, FatNumbers DEF mark_cluster, TypesOK
<1>4. OpOK'
  BY <1>1, <1>2, StillWriting DEF mark_cluster, TypesOK, WriteOpStep
<1>5. QED
  BY <1>1, <1>2, <1>3, <1>4, DirAlone DEF mark_cluster, TypesOK

\* The file that an operation is about.
LEMMA OpFile ==
  ASSUME TypesOK, op # NoOp
  PROVE  /\ op.slot \in Slots /\ dir[op.slot] \in Files /\ dir[op.slot].kind = "file"
         /\ dir[op.slot].name \in Names /\ IsFile(op.slot, dir[op.slot].name)
<1>1. op.slot \in Slots /\ dir[op.slot].kind = "file"
  BY OpKind DEF TypesOK, OpOK
<1>2. dir[op.slot] \in Files
  BY <1>1 DEF TypesOK, DiskOK, DirEntries, Other
<1>3. QED
  BY <1>1, <1>2 DEF Files, IsFile

\* A cluster gets the next piece of the text, or the write of it fails and the operation ends.
DataWritten ==
  /\ data' = [data EXCEPT ![op.cluster] = Piece(op.text, op.done + 1)]
  /\ op' = [op EXCEPT !.pc = "alloc", !.prev = op.cluster, !.cluster = 2, !.done = op.done + 1]

\* Both outcomes keep the types.
LEMMA WriteClusterTypes ==
  ASSUME TypesOK, write_cluster
  PROVE  /\ TypesOK' /\ op \in WriteOps /\ op.cluster \in Clusters
         /\ WriteFails \/ (DataWritten /\ op' \in WriteOps)
<1>1. op \in WriteOps /\ op.pc = "data" /\ op.cluster \in Clusters /\ op.done \in Nat
  BY OpKind DEF write_cluster, TypesOK, OpOK, WriteOps
<1>2. UNCHANGED << boot, fat, dir, mounted, cache, expected >>
  BY DEF write_cluster
<1>3. CASE DataWritten
  <2>1. op' \in WriteOps /\ op'.slot = op.slot /\ op'.text = op.text /\ op'.pc = "alloc" /\ op'.cluster = 2
    <3> DEFINE k == op.done + 1
    <3>1. k \in Nat /\ 2 \in FatValues
      BY <1>1, FatNumbers
    <3> HIDE DEF k
    <3>2. op' = [op EXCEPT !.pc = "alloc", !.prev = op.cluster, !.cluster = 2, !.done = k]
      BY <1>3 DEF DataWritten, k
    <3>3. QED
      BY <1>1, <3>1, <3>2 DEF WriteOps
  <2>2. Piece(op.text, op.done + 1) \in Contents
    <3>1. dir[op.slot].name \in Names /\ op.text \in TextsOf(dir[op.slot].name)
      BY <1>1, OpFile, OpKind DEF TypesOK, OpOK
    <3>2. op.text.tag \in Names
      BY <3>1 DEF TextsOf
    <3>3. QED
      BY <1>1, <3>2 DEF Piece, Contents
  <2>3. data' \in [Clusters -> Contents]
    BY <1>1, <1>3, <2>2 DEF DataWritten, TypesOK, DiskOK
  <2>4. DiskOK'
    BY <1>2, <2>3 DEF TypesOK, DiskOK
  <2>5. OpOK'
    BY <1>1, <1>2, <2>1, StillWriting, FatNumbers DEF TypesOK, WriteOpStep
  <2>6. QED
    BY <1>1, <1>2, <1>3, <2>1, <2>4, <2>5, DirAlone DEF TypesOK
<1>4. CASE WriteFails /\ op' = NoOp /\ data' = data
  <2>1. DiskOK'
    BY <1>2, <1>4 DEF TypesOK, DiskOK
  <2>2. QED
    BY <1>1, <1>2, <1>4, <2>1, DirAlone, OpOver DEF TypesOK
<1>5. QED
  BY <1>3, <1>4 DEF write_cluster, OpEnds, DataWritten

\* When every cluster is written, the entry is next.
LEMMA AllocatedTypes ==
  ASSUME TypesOK, allocated
  PROVE  TypesOK' /\ op \in WriteOps /\ op' = [op EXCEPT !.pc = "dir"] /\ op' \in WriteOps
<1>1. op \in WriteOps /\ op.pc = "alloc"
  BY OpKind DEF allocated, TypesOK
<1>2. op' = [op EXCEPT !.pc = "dir"] /\ op' \in WriteOps /\ op'.slot = op.slot /\ op'.text = op.text
      /\ op'.pc = "dir"
  BY <1>1 DEF allocated, WriteOps
<1>3. OpOK'
  BY <1>1, <1>2, StillWriting DEF allocated, diskVars, TypesOK, WriteOpStep
<1>4. DiskOK'
  BY DiskAlone DEF allocated, TypesOK, DiskOK
<1>5. QED
  BY <1>1, <1>2, <1>3, <1>4, DirAlone DEF allocated, diskVars, TypesOK

EntryUpdated ==
  /\ dir' = [dir EXCEPT ![op.slot] = File(dir[op.slot].name, op.first, op.text.size)]
  /\ expected' = [expected EXCEPT ![dir[op.slot].name] = op.text]

\* The entry of the file is replaced by one with the same name.
LEMMA UpdateTypes ==
  ASSUME TypesOK, update_entry
  PROVE  /\ TypesOK' /\ op \in WriteOps /\ op' = NoOp /\ (WriteFails \/ EntryUpdated)
         /\ \A t \in Slots : /\ dir'[t].kind = dir[t].kind
                             /\ \A m \in Names : IsFile(t, m)' <=> IsFile(t, m)
<1>1. op \in WriteOps /\ op.pc = "dir" /\ op # NoOp /\ op' = NoOp
  BY OpKind DEF update_entry, TypesOK, OpEnds
<1>2. UNCHANGED << boot, fat, data, mounted, cache >>
  BY DEF update_entry
<1> DEFINE s == op.slot
           n == dir[op.slot].name
<1>3. s \in Slots /\ s \in Visible /\ n \in Names /\ IsFile(s, n) /\ dir[s].kind = "file"
  BY <1>1, OpFile DEF TypesOK, OpOK
<1>4. op.text \in TextsOf(n) /\ op.text \in Texts /\ op.text # NoFile /\ op.text # Unknown
      /\ op.text.size \in 0 .. MaxSize /\ expected[n] = Unknown
  BY <1>1, <1>3, Tags DEF TypesOK, OpOK, TextsOf
<1>5. CASE EntryUpdated
  <2>1. /\ dir' = [dir EXCEPT ![s] = File(n, op.first, op.text.size)]
        /\ expected' = [expected EXCEPT ![n] = op.text]
    BY <1>5 DEF EntryUpdated
  <2>2. File(n, op.first, op.text.size) \in DirEntries
    <3>1. op.first \in 0 .. total_clusters + 1
      BY <1>1, FatNumbers DEF WriteOps, Clusters
    <3>2. QED
      BY <1>3, <1>4, <3>1 DEF File, Files, DirEntries
  <2> HIDE DEF s, n
  <2>3. /\ dir' \in [Slots -> DirEntries] /\ dir'[s] = File(n, op.first, op.text.size)
        /\ \A t \in Slots : t # s => dir'[t] = dir[t]
    BY <1>3, <2>1, <2>2 DEF TypesOK, DiskOK
  <2>4. dir'[s].kind = "file" /\ dir'[s].name = n
    BY <2>3 DEF File
  <2>5. \A t \in Slots : dir'[t].kind = dir[t].kind
    BY <1>3, <2>3, <2>4
  <2>6. \A t \in Slots, m \in Names : IsFile(t, m)' <=> IsFile(t, m)
    BY <1>3, <2>3, <2>4 DEF IsFile
  <2>7. /\ expected' \in [Names -> Texts] /\ expected'[n] = op.text
        /\ \A m \in Names : m # n => expected'[m] = expected[m]
    BY <1>3, <1>4, <2>1 DEF TypesOK, DirOK
  <2>8. DirOK'
    <3>1. \A m \in Names : expected'[m] \in TextsOf(m) \cup {NoFile, Unknown, Empty}
      BY <1>4, <2>7 DEF TypesOK, DirOK
    <3>2. Visible' = Visible
      <4>1. \A t \in Slots : \A u \in 1 .. t : u \in Slots
        BY FatNumbers DEF Slots
      <4>2. QED
        BY <2>5, <4>1 DEF Visible
    <3>3. \A m \in Names : Found(m)' <=> Found(m)
      <4> TAKE m \in Names
      <4>1. Matches(m) = {t \in Visible : IsFile(t, m)} /\ Matches(m)' = {t \in Visible' : IsFile(t, m)'}
        BY DEF Matches, IsFile
      <4>2. Visible \subseteq Slots
        BY DEF Visible
      <4>3. QED
        BY <2>6, <3>2, <4>1, <4>2 DEF Found
    <3>4. Found(n)
      BY <1>3 DEF Found, Matches, IsFile
    <3>5. \A m \in Names : expected'[m] # Unknown => (expected'[m] # NoFile <=> Found(m)')
      <4> TAKE m \in Names
      <4>1. CASE m = n
        BY <1>4, <2>7, <3>3, <3>4, <4>1
      <4>2. CASE m # n
        BY <2>7, <3>3, <4>2 DEF TypesOK, DirOK
      <4>3. QED
        BY <4>1, <4>2
    <3>6. (\E m \in Names : expected'[m] = NoFile) => Sorted'
      <4>1. Sorted => Sorted'
        BY <2>5 DEF Sorted
      <4>2. QED
        BY <1>4, <2>7, <4>1 DEF TypesOK, DirOK
    <3>7. \A t \in Slots : dir'[t].kind \in {"end", "label", "file"}
      BY <2>5 DEF TypesOK, DirOK
    <3>8. QED
      BY <2>7, <3>1, <3>5, <3>6, <3>7 DEF DirOK
  <2>9. DiskOK'
    BY <1>2, <2>3 DEF TypesOK, DiskOK
  <2>10. QED
    BY <1>1, <1>5, <2>5, <2>6, <2>8, <2>9, OpOver DEF TypesOK
<1>6. CASE WriteFails /\ UNCHANGED << dir, expected >>
  <2>1. DiskOK'
    BY <1>2, <1>6 DEF TypesOK, DiskOK
  <2>2. QED
    BY <1>1, <1>6, <2>1, DirAlone, OpOver DEF TypesOK, IsFile
<1>7. QED
  BY <1>5, <1>6 DEF update_entry, Updated, EntryUpdated

\* Reading changes nothing but the operation and the cache.
LEMMA StillReading ==
  ASSUME TypesOK, UNCHANGED << diskVars, mounted, expected >>, CacheTyped(cache'),
         op' \in ReadOps, mounted, op'.slot \in Visible, dir[op'.slot].kind = "file"
  PROVE  TypesOK'
<1>1. op' \notin WriteOps
  BY DEF ReadOps, WriteOps
<1>2. OpOK'
  BY <1>1 DEF OpOK, diskVars, Visible
<1>3. QED
  BY <1>2, DiskAlone, DirAlone DEF TypesOK, diskVars

\* A read begins with the size and the first cluster in the entry of its file.
LEMMA ReadBeginTypes ==
  ASSUME TypesOK, NEW n \in Names, read_begin(n)
  PROVE  /\ TypesOK' /\ SlotOf(n) \in Slots /\ IsFile(SlotOf(n), n)
         /\ op' \in ReadOps /\ op'.slot = SlotOf(n) /\ op'.cluster = dir[SlotOf(n)].cluster_lo
         /\ op'.cluster # BAD_CLUSTER
         /\ op'.remaining = dir[SlotOf(n)].size /\ op'.result = << >>
<1> DEFINE s == SlotOf(n)
<1>1. s \in Slots /\ s \in Visible /\ IsFile(s, n) /\ dir[s].name = n /\ dir[s].kind = "file"
  BY DirSearch DEF read_begin, IsFile
<1>2. dir[s].cluster_lo \in FatValues /\ dir[s].cluster_lo # BAD_CLUSTER /\ dir[s].size \in 0 .. MaxSize
  <2>1. dir[s] \in Files
    BY <1>1 DEF TypesOK, DiskOK, DirEntries, Other
  <2>2. QED
    BY <2>1, FatNumbers DEF Files, Entries
<1>3. op' = [pc |-> "read", slot |-> s, cluster |-> dir[s].cluster_lo,
             remaining |-> dir[s].size, result |-> << >>]
  BY DEF read_begin
<1> HIDE DEF s
<1>4. << >> \in Seq(Contents)
  OBVIOUS
<1>5. /\ op' \in ReadOps /\ op'.slot = s /\ op'.cluster = dir[s].cluster_lo
      /\ op'.remaining = dir[s].size /\ op'.result = << >>
  BY <1>1, <1>2, <1>3, <1>4 DEF ReadOps
<1>6. TypesOK'
  BY <1>1, <1>5, StillReading DEF read_begin, diskVars, TypesOK, DiskOK
<1>7. QED
  BY <1>1, <1>2, <1>5, <1>6 DEF s

\* A read takes one cluster and goes on to the one behind it.
LEMMA ReadTypes ==
  ASSUME TypesOK, read_cluster
  PROVE  \E v \in FatValues :
           /\ TypesOK' /\ op \in ReadOps /\ op' \in ReadOps /\ op.cluster \in Clusters \cup {BAD_CLUSTER}
           /\ fat_read_entry(op.cluster, v)
           /\ op'.slot = op.slot /\ op'.cluster = v
           /\ op.remaining > 0 /\ op'.remaining = op.remaining - 1
           /\ op'.result = Append(op.result, DataAt(op.cluster))
<1>1. op \in ReadOps /\ op.pc = "read" /\ op.cluster \in FatValues /\ op.remaining \in 0 .. MaxSize
      /\ op.result \in Seq(Contents) /\ op # NoOp
  BY OpKind DEF read_cluster, TypesOK, ReadOps
<1>2. op.cluster \in Clusters \cup {BAD_CLUSTER} /\ op.remaining > 0
  BY <1>1, FatNumbers DEF read_cluster, MoreToRead
<1> DEFINE r == Append(op.result, DataAt(op.cluster))
           k == op.remaining - 1
<1>3. PICK v \in FatValues :
        /\ fat_read_entry(op.cluster, v)
        /\ op' = [op EXCEPT !.result = r, !.remaining = k, !.cluster = v]
  BY DEF read_cluster
<1>4. CacheTyped(cache')
  BY <1>2, <1>3, ReadTyped, FatNumbers DEF TypesOK
<1>5. r \in Seq(Contents) /\ k \in 0 .. MaxSize
  <2>1. DataAt(op.cluster) \in Contents
    BY <1>2 DEF DataAt, Contents, TypesOK, DiskOK
  <2>2. QED
    BY <1>1, <1>2, <2>1, FatNumbers
<1> HIDE DEF r, k
<1>6. op' \in ReadOps /\ op'.slot = op.slot /\ op'.cluster = v /\ op'.remaining = k /\ op'.result = r
  BY <1>1, <1>3, <1>5 DEF ReadOps
<1>7. TypesOK'
  BY <1>1, <1>4, <1>6, StillReading DEF read_cluster, diskVars, TypesOK, OpOK
<1>8. QED
  BY <1>1, <1>2, <1>3, <1>6, <1>7 DEF r, k

\* The end of a read keeps everything on the disk.
LEMMA ReadEndTypes == ASSUME TypesOK, read_end \/ read_fails PROVE TypesOK' /\ op' = NoOp
<1>1. UNCHANGED << diskVars, mounted, cache, expected >> /\ op' = NoOp
  BY DEF read_end, read_fails, OpEnds
<1>2. DiskOK'
  BY <1>1, DiskAlone DEF TypesOK, DiskOK
<1>3. QED
  BY <1>1, <1>2, DirAlone, OpOver DEF diskVars, TypesOK

\* Every step keeps the types.
LEMMA TypesStep == ASSUME TypesOK, [FatNext]_fatVars PROVE TypesOK'
<1>1. CASE UNCHANGED fatVars
  <2>1. DiskOK' /\ DirOK'
    BY <1>1, DirAlone, DiskAlone DEF fatVars, diskVars, TypesOK, DiskOK
  <2>2. OpOK'
    BY <1>1 DEF fatVars, TypesOK, OpOK, Visible
  <2>3. QED
    BY <2>1, <2>2 DEF TypesOK
<1>2. CASE \E n \in Names : \E text \in TextsOf(n) : write_begin(n, text)
  BY <1>2, WriteBeginTypes
<1>3. CASE free_cluster \/ clear_cluster \/ freed \/ scan_cluster \/ disk_full
  BY <1>3, FreeTypes, ClearTypes, FreedTypes, ScanTypes, FullTypes
<1>4. CASE link_cluster \/ mark_cluster \/ write_cluster \/ allocated \/ update_entry
  BY <1>4, LinkTypes, MarkTypes, WriteClusterTypes, AllocatedTypes, UpdateTypes
<1>5. CASE fat16_read_file
  BY <1>5, ReadBeginTypes, ReadTypes, ReadEndTypes DEF fat16_read_file
<1>6. QED
  BY <1>1, <1>2, <1>3, <1>4, <1>5, FormatTypes, MountTypes, RestartTypes, BreakTypes, CreateTypes
  DEF FatNext, fat16_write_file

\* The types of FAT, directory, cache and operation, whatever fails.
THEOREM FatTypeCorrect == FatSpec => []FatTypeOK
<1>1. TypesOK /\ DriveOK => FatTypeOK
  <2> SUFFICES ASSUME TypesOK, DriveOK PROVE FatTypeOK
    OBVIOUS
  <2>1. cache.sector \in {-1, OUTSIDE} \cup {c \div EntriesPerSector : c \in Entries}
    BY SectorNumbers DEF TypesOK, DiskOK, CacheTyped
  <2>2. op.pc \in {"idle"} \cup pcs
    BY DEF TypesOK, OpOK, NoOp, WriteOps, ReadOps, pcs
  <2>3. op # NoOp => mounted /\ op.slot \in Slots /\ dir[op.slot].kind = "file"
    BY OpKind DEF TypesOK, OpOK
  <2>4. fat \in [1 .. 2 -> [Entries -> FatValues]]
    <3>1. fat \in [1 .. 2 -> [Entries -> FatEntries]]
      BY DEF TypesOK, DiskOK
    <3>2. \A f \in [Entries -> FatEntries] : f \in [Entries -> FatValues]
      BY FatNumbers
    <3>3. QED
      BY <3>1, <3>2
  <2>5. QED
    BY <2>1, <2>2, <2>3, <2>4 DEF TypesOK, DiskOK, DirOK, DriveOK, FatTypeOK
<1>2. QED
  BY <1>1, FatStart, TypesStep, DriveTypes, PTL DEF FatSpec

-----------------------------------------------------------------------------
(* The copies of the FAT, the cache and the directory, as long as nothing fails. *)

Coherent(r) == r.sector # -1 => \A c \in SectorEntries(r.sector) : r.entry[c] = fat[1][c]

\* fat_read_entry returns what the first copy says.
LEMMA ReadCoherent ==
  ASSUME DriveOK, failures = 0, failures' = 0, Copies, NEW x \in Clusters, NEW v, fat_read_entry(x, v)
  PROVE  v = fat[1][x] /\ Coherent(cache')
<1>1. x \in Entries /\ x # BAD_CLUSTER /\ SectorOf(x) # -1 /\ x \in SectorEntries(SectorOf(x))
  BY FatNumbers, SectorNumbers DEF SectorEntries
<1>2. ~ReadFails
  BY NothingFails
<1>3. CASE cache.sector = SectorOf(x) /\ v = cache.entry[x] /\ cache' = cache
  BY <1>1, <1>3 DEF Copies, Coherent
<1>4. CASE cache' \in SectorsRead(x) /\ v = cache'.entry[x]
  <2>1. cache' = CacheOf(SectorOf(x))
    BY <1>1, <1>4 DEF SectorsRead
  <2>2. Coherent(cache') /\ cache'.sector = SectorOf(x)
    BY <2>1 DEF Coherent, CacheOf
  <2>3. QED
    BY <1>1, <1>4, <2>2 DEF Coherent
<1>5. QED
  BY <1>2, <1>3, <1>4 DEF fat_read_entry

\* A write that does not fail changes one entry of both copies and drops the cache.
LEMMA WriteCoherent ==
  ASSUME DiskOK, DriveOK, failures = 0, failures' = 0, Copies,
         NEW x \in Clusters, NEW v, fat_write_entry(x, v)
  PROVE  /\ Copies' /\ fat'[1][x] = v /\ data' = data
         /\ \A c \in Clusters : c # x => fat'[1][c] = fat[1][c]
<1>1. Rewritten(1 .. 2, x, v) /\ cache' = NoCache
  BY NothingFails DEF fat_write_entry
<1>2. fat' = [copy \in 1 .. 2 |-> WholeSector(copy, x, v)]
  BY <1>1 DEF Rewritten
<1>3. data' = data
  <2>1. data' = [c \in Clusters |-> data[c]]
    BY <1>1, FatNumbers DEF Rewritten
  <2>2. QED
    BY <2>1 DEF DiskOK
<1>4. \A copy \in 1 .. 2 : \A c \in Clusters :
        fat'[copy][c] = IF SectorOf(c) = SectorOf(x) THEN IF c = x THEN v ELSE fat[1][c]
                        ELSE fat[copy][c]
  BY <1>2, FatNumbers DEF WholeSector
<1>5. \A c \in Clusters : fat'[1][c] = (IF c = x THEN v ELSE fat[1][c])
  BY <1>4
<1>6. \A c \in Clusters : fat'[1][c] = fat'[2][c]
  BY <1>4 DEF Copies
<1>7. QED
  BY <1>1, <1>3, <1>5, <1>6 DEF Copies, NoCache

\* A step that does not write the FAT can break nothing but the cache.
LEMMA CopiesAlone ==
  ASSUME Copies, UNCHANGED fat, cache' = cache \/ cache' = NoCache \/ Coherent(cache')
  PROVE  Copies'
BY DEF Copies, Coherent, NoCache

\* A step that leaves the directory alone keeps its order.
LEMMA OrderAlone ==
  ASSUME InOrder, UNCHANGED dir, op' # NoOp => op # NoOp /\ op'.slot = op.slot
  PROVE  InOrder'
BY DEF InOrder, Sorted, First, IsFile

\* Walks that go on where a FAT entry leads stay in the FAT.
LEMMA EntryInFat == ASSUME DiskOK, NEW x \in Clusters PROVE fat[1][x] \in FatEntries /\ fat[1][x] # BAD_CLUSTER
<1>1. x \in Entries
  BY FatNumbers
<1>2. QED
  BY <1>1 DEF DiskOK, FatEntries

\* A format that succeeds leaves an empty volume.
LEMMA FormatDone ==
  ASSUME TypesOK, DriveOK, failures = 0, failures' = 0, cmd_format
  PROVE  /\ \A c \in Clusters : fat'[1][c] = FREE /\ fat'[2][c] = FREE
         /\ cache' = NoCache /\ op' = NoOp
         /\ \A s \in Slots : dir'[s].kind = IF s = 1 THEN "label" ELSE "end"
<1>1. Formatted(FormatWrites) /\ cache' = NoCache /\ op' = NoOp
  BY NothingFails DEF cmd_format
<1>2. \A c \in Clusters : c \in Entries /\ ~(c <= 1)
  BY FatNumbers DEF Clusters
<1>3. \A copy \in 1 .. 2 : \A c \in Clusters : fat'[copy][c] = FREE
  <2> SUFFICES ASSUME NEW copy \in 1 .. 2, NEW c \in Clusters PROVE fat'[copy][c] = FREE
    OBVIOUS
  <2>1. ~(FormatWrites <= 1 + (copy - 1) * FatSectors + SectorOf(c))
    BY <1>2, FormatOrder
  <2>2. QED
    BY <1>1, <1>2, <2>1 DEF Formatted
<1>4. \A s \in Slots : dir'[s] = Other(IF s = 1 THEN "label" ELSE "end")
  BY <1>1, FormatOrder DEF Formatted
<1>5. \A k : Other(k).kind = k
  BY DEF Other
<1>6. QED
  BY <1>1, <1>3, <1>4, <1>5

\* A new entry keeps the order.
LEMMA CreateOrder ==
  ASSUME TypesOK, InOrder, NEW n \in Names, fat16_create_file(n)
  PROVE  InOrder'
<1>1. op' = NoOp /\ Sorted
  BY DEF fat16_create_file, InOrder
<1>2. CASE Created(name_to_83[n])
  BY <1>1, <1>2, CreatedDir, Fat16Assumption DEF InOrder
<1>3. CASE UNCHANGED dir
  BY <1>1, <1>3 DEF InOrder, Sorted
<1>4. QED
  BY <1>2, <1>3 DEF fat16_create_file

\* Every step that does not fail keeps the copies alike, the walks in the FAT and the
\* directory in order.
LEMMA OrderlyStep ==
  ASSUME TypesOK, DriveOK, failures = 0, Orderly, [FatNext]_fatVars, failures' = 0
  PROVE  Orderly'
<1>1. Copies /\ InTheFat /\ InOrder /\ DiskOK
  BY DEF Orderly, TypesOK
<1>2. NoOp.pc = "idle"
  BY DEF NoOp
<1>3. CASE UNCHANGED fatVars
  BY <1>1, <1>3, CopiesAlone, OrderAlone DEF fatVars, Orderly, InTheFat
<1>4. CASE cmd_format
  <2>1. /\ \A c \in Clusters : fat'[1][c] = FREE /\ fat'[2][c] = FREE
        /\ cache' = NoCache /\ op' = NoOp
        /\ \A s \in Slots : dir'[s].kind = IF s = 1 THEN "label" ELSE "end"
    BY <1>4, FormatDone
  <2>2. Copies' /\ InTheFat'
    BY <1>2, <2>1 DEF Copies, InTheFat, NoCache
  <2>3. Sorted'
    BY <2>1 DEF Sorted, Slots
  <2>4. QED
    BY <2>1, <2>2, <2>3 DEF Orderly, InOrder
<1>5. CASE fat16_mount \/ restart \/ read_end \/ read_fails \/ disk_full
  <2>1. UNCHANGED << fat, dir >> /\ op' = NoOp /\ (cache' = cache \/ cache' = NoCache)
    BY <1>5 DEF fat16_mount, restart, read_end, read_fails, disk_full, diskVars, OpEnds
  <2>2. InTheFat'
    BY <1>2, <2>1 DEF InTheFat
  <2>3. QED
    BY <1>1, <2>1, <2>2, CopiesAlone, OrderAlone DEF Orderly
<1>6. CASE \E n \in Names : fat16_create_file(n)
  <2>1. UNCHANGED << fat, cache >> /\ op' = NoOp
    BY <1>6 DEF fat16_create_file
  <2>2. InTheFat'
    BY <1>2, <2>1 DEF InTheFat
  <2>3. QED
    BY <1>1, <1>6, <2>1, <2>2, CopiesAlone, CreateOrder DEF Orderly
<1>7. CASE \E n \in Names : \E text \in TextsOf(n) : write_begin(n, text)
  <2>1. PICK n \in Names : \E text \in TextsOf(n) : write_begin(n, text)
    BY <1>7
  <2>2. /\ op'.slot = SlotOf(n) /\ op'.pc = "free" /\ op'.cluster # BAD_CLUSTER
    BY <2>1, WriteBeginTypes
  <2>3. UNCHANGED << fat, dir, cache >> /\ Found(n)
    BY <2>1 DEF write_begin, diskVars
  <2>4. First(SlotOf(n)) /\ Sorted
    BY <1>1, <2>3, DirSearch DEF InOrder
  <2>5. PICK s : s = SlotOf(n)
    OBVIOUS
  <2>6. InOrder'
    BY <2>2, <2>3, <2>4, <2>5 DEF InOrder, Sorted, First, IsFile
  <2>7. QED
    BY <1>1, <2>2, <2>3, <2>6, CopiesAlone DEF Orderly, InTheFat
<1>8. CASE \E n \in Names : read_begin(n)
  <2>1. PICK n \in Names : read_begin(n)
    BY <1>8
  <2>2. /\ op'.slot = SlotOf(n) /\ op' \in ReadOps /\ op'.cluster # BAD_CLUSTER
    BY <2>1, ReadBeginTypes
  <2>3. UNCHANGED << fat, dir, cache >> /\ Found(n) /\ op'.pc = "read"
    BY <2>1, <2>2 DEF read_begin, diskVars, ReadOps
  <2>4. First(SlotOf(n)) /\ Sorted
    BY <1>1, <2>3, DirSearch DEF InOrder
  <2>5. PICK s : s = SlotOf(n)
    OBVIOUS
  <2>6. InOrder'
    BY <2>2, <2>3, <2>4, <2>5 DEF InOrder, Sorted, First, IsFile
  <2>7. QED
    BY <1>1, <2>2, <2>3, <2>6, CopiesAlone DEF Orderly, InTheFat
<1>9. CASE free_cluster
  <2>1. PICK v \in FatValues :
          /\ op \in WriteOps /\ op.cluster \in Clusters \cup {BAD_CLUSTER}
          /\ fat_read_entry(op.cluster, v)
          /\ op' = [op EXCEPT !.pc = "clear", !.next = v] /\ op' \in WriteOps
    BY <1>9, FreeTypes
  <2>2. op'.pc = "clear" /\ op'.next = v /\ op'.cluster = op.cluster /\ op'.slot = op.slot /\ op # NoOp
    BY <2>1, <1>2 DEF WriteOps
  <2>3. UNCHANGED << fat, dir >> /\ op.pc = "free"
    BY <1>9 DEF free_cluster, diskVars
  <2>4. op.cluster \in Clusters
    BY <1>1, <2>1, <2>3 DEF InTheFat
  <2>5. v # BAD_CLUSTER /\ Coherent(cache')
    BY <1>1, <2>1, <2>4, ReadCoherent, EntryInFat
  <2>6. InTheFat'
    BY <2>2, <2>4, <2>5, FatNumbers DEF InTheFat
  <2>7. QED
    BY <1>1, <2>2, <2>3, <2>5, <2>6, CopiesAlone, OrderAlone DEF Orderly
<1>10. CASE clear_cluster
  <2>1. /\ op \in WriteOps /\ op.cluster \in Clusters \cup {BAD_CLUSTER} /\ op' \in WriteOps
        /\ op'.pc = "free" /\ op'.slot = op.slot /\ op'.cluster = op.next
    BY <1>10, ClearTypes
  <2>2. fat_write_entry(op.cluster, FREE) /\ UNCHANGED dir /\ op.pc = "clear" /\ op # NoOp
    BY <1>2, <1>10 DEF clear_cluster
  <2>3. op.cluster \in Clusters /\ op.next # BAD_CLUSTER
    BY <1>1, <2>1, <2>2 DEF InTheFat
  <2>4. Copies'
    BY <1>1, <2>2, <2>3, WriteCoherent
  <2>5. QED
    BY <1>1, <2>1, <2>2, <2>3, <2>4, OrderAlone DEF Orderly, InTheFat
<1>11. CASE freed \/ allocated
  <2>1. /\ op' \in WriteOps /\ op'.pc \in {"alloc", "dir"} /\ op'.slot = op.slot /\ op # NoOp
    BY <1>2, <1>11, FreedTypes, AllocatedTypes DEF WriteOps
  <2>2. UNCHANGED << fat, dir, cache >>
    BY <1>11 DEF freed, allocated, diskVars
  <2>3. QED
    BY <1>1, <2>1, <2>2, CopiesAlone, OrderAlone DEF Orderly, InTheFat
<1>12. CASE scan_cluster
  <2>1. PICK v \in FatValues :
          /\ op \in WriteOps /\ op.cluster \in Clusters /\ fat_read_entry(op.cluster, v)
          /\ op'.slot = op.slot /\ op'.pc \in {"alloc", "link", "mark"}
    BY <1>12, ScanTypes
  <2>2. UNCHANGED << fat, dir >> /\ op # NoOp
    BY <1>2, <1>12 DEF scan_cluster, diskVars
  <2>3. Coherent(cache')
    BY <1>1, <2>1, ReadCoherent
  <2>4. QED
    BY <1>1, <2>1, <2>2, <2>3, CopiesAlone, OrderAlone DEF Orderly, InTheFat
<1>13. CASE link_cluster \/ mark_cluster
  <2>1. /\ \E x \in Clusters : \E v : fat_write_entry(x, v)
        /\ op \in WriteOps /\ op' \in WriteOps /\ op'.pc \in {"mark", "data"} /\ op'.slot = op.slot
    BY <1>13, LinkTypes, MarkTypes DEF link_cluster, mark_cluster, WriteOps
  <2>2. UNCHANGED dir /\ op # NoOp
    BY <1>2, <1>13 DEF link_cluster, mark_cluster
  <2>3. Copies'
    BY <1>1, <2>1, WriteCoherent
  <2>4. QED
    BY <1>1, <2>1, <2>2, <2>3, OrderAlone DEF Orderly, InTheFat
<1>14. CASE write_cluster
  <2>1. DataWritten /\ op \in WriteOps /\ op' \in WriteOps
    BY <1>14, WriteClusterTypes, NothingFails
  <2>2. op'.pc = "alloc" /\ op'.slot = op.slot /\ op # NoOp
    <3> DEFINE k == op.done + 1
    <3>1. op' = [op EXCEPT !.pc = "alloc", !.prev = op.cluster, !.cluster = 2, !.done = k]
      BY <2>1 DEF DataWritten
    <3> HIDE DEF k
    <3>2. QED
      BY <1>2, <1>14, <2>1, <3>1 DEF WriteOps, write_cluster
  <2>3. UNCHANGED << fat, dir, cache >>
    BY <1>14 DEF write_cluster
  <2>4. QED
    BY <1>1, <2>2, <2>3, CopiesAlone, OrderAlone DEF Orderly, InTheFat
<1>15. CASE update_entry
  <2>1. op' = NoOp /\ UNCHANGED << fat, cache >> /\ \A t \in Slots : dir'[t].kind = dir[t].kind
    BY <1>15, UpdateTypes DEF update_entry
  <2>2. InOrder' /\ InTheFat'
    BY <1>1, <1>2, <2>1 DEF InOrder, Sorted, InTheFat
  <2>3. QED
    BY <1>1, <2>1, <2>2, CopiesAlone DEF Orderly
<1>16. CASE read_cluster
  <2>1. PICK v \in FatValues :
          /\ op \in ReadOps /\ op' \in ReadOps /\ op.cluster \in Clusters \cup {BAD_CLUSTER}
          /\ fat_read_entry(op.cluster, v) /\ op'.slot = op.slot /\ op'.cluster = v
    BY <1>16, ReadTypes
  <2>2. UNCHANGED << fat, dir >> /\ op.pc = "read" /\ op'.pc = "read" /\ op # NoOp
    BY <1>2, <1>16, <2>1 DEF read_cluster, diskVars, ReadOps
  <2>3. op.cluster \in Clusters
    BY <1>1, <2>1, <2>2 DEF InTheFat
  <2>4. v # BAD_CLUSTER /\ Coherent(cache')
    BY <1>1, <2>1, <2>3, ReadCoherent, EntryInFat
  <2>5. QED
    BY <1>1, <2>1, <2>2, <2>4, CopiesAlone, OrderAlone DEF Orderly, InTheFat
<1>17. CASE drive_breaks
  BY <1>17, NothingFails
<1>18. QED
  BY <1>3, <1>4, <1>5, <1>6, <1>7, <1>8, <1>9, <1>10, <1>11, <1>12, <1>13, <1>14, <1>15, <1>16, <1>17
  DEF FatNext, fat16_write_file, fat16_read_file

OrderlyInv == TypesOK /\ DriveOK /\ (failures = 0 => Orderly)

\* The blank disk has two blank FATs and nothing is cached.
LEMMA OrderlyStart == FatInit => OrderlyInv
<1> SUFFICES ASSUME FatInit PROVE Orderly
  BY FatStart DEF OrderlyInv
<1>1. Copies
  BY FatNumbers DEF FatInit, Copies, NoCache
<1>2. op = NoOp /\ op.pc = "idle" /\ \A s \in Slots : dir[s].kind = "end"
  BY DEF FatInit, NoOp, Other
<1>3. QED
  BY <1>1, <1>2 DEF Orderly, InTheFat, InOrder, Sorted

\* FatConsistent, for disks and sectors of every size: as long as nothing fails, the
\* cached sector is the one on the disk, and the two copies of the FAT tell the same.
THEOREM FatConsistentCorrect == FatSpec => []FatConsistent
<1>1. OrderlyInv /\ [FatNext]_fatVars => OrderlyInv'
  BY OrderlyStep, TypesStep, DriveTypes DEF OrderlyInv
<1>2. OrderlyInv => FatConsistent
  BY DEF OrderlyInv, Orderly, Copies, FatConsistent, CacheCoherent, FatCopiesAgree
<1>3. QED
  BY <1>1, <1>2, OrderlyStart, PTL DEF FatSpec

-----------------------------------------------------------------------------
(* The chains, as long as nothing fails. *)

\* An operation is a write or a read or none.
LEMMA OpsApart ==
  /\ \A w \in WriteOps : w \notin ReadOps /\ w # NoOp
  /\ \A r \in ReadOps : r # NoOp
<1>1. \A w \in WriteOps : w.pc # "read" /\ w.pc # "idle"
  BY DEF WriteOps
<1>2. \A r \in ReadOps : r.pc = "read"
  BY DEF ReadOps
<1>3. QED
  BY <1>1, <1>2 DEF NoOp

\* A text is as long as a file may be.
LEMMA TextSize == \A text \in Texts : text.size \in 0 .. MaxSize /\ text.size \in Nat
<1>1. \A text \in Texts : text.size \in 0 .. MaxSize
  BY DEF Texts
<1>2. QED
  BY <1>1, FatNumbers

\* The clusters of s, their places, what the FAT says of them and what they hold stay.
SameChain(o, p, q, r, s) ==
  \A c \in Clusters :
    /\ q[c] = s <=> o[c] = s
    /\ o[c] = s => r[c] = p[c] /\ fat'[1][c] = fat[1][c] /\ data'[c] = data[c]

\* The entry s is the first of its name, as before.
LEMMA FirstAlone == ASSUME NEW s, UNCHANGED dir PROVE First(s)' <=> First(s)
BY DEF First, IsFile

\* A file stays as it was when the step leaves its entry and its chain alone.
LEMMA FileKept ==
  ASSUME NEW o, NEW p, NEW q, NEW r, NEW s \in Slots,
         FileOK(o, p, s), SameChain(o, p, q, r, s), dir'[s] = dir[s],
         First(s)' => First(s) /\ expected'[dir[s].name] \in {Unknown, expected[dir[s].name]}
  PROVE  FileOK(q, r, s)'
<1>1. Linked(q, r, s)'
  BY DEF FileOK, SameChain, Linked, NextIn
<1>2. dir'[s].cluster_lo = 0 \/ StartsAt(q, r, s, dir[s].cluster_lo)'
  BY DEF FileOK, SameChain, StartsAt
<1>3. ASSUME First(s)', expected'[dir[s].name] # Unknown
      PROVE  Holds(q, r, s, expected[dir[s].name])'
  <2>1. Holds(o, p, s, expected[dir[s].name]) /\ expected'[dir[s].name] = expected[dir[s].name]
    BY <1>3 DEF FileOK
  <2>2. QED
    BY <2>1 DEF SameChain, Holds
<1>4. QED
  BY <1>1, <1>2, <1>3 DEF FileOK, StartsAt

\* All files but that of slot s.
LEMMA FilesKept ==
  ASSUME NEW o, NEW p, NEW q, NEW r, NEW s, FilesOK(o, p), Rewriting => op.slot = s,
         \A t \in Slots : t # s => SameChain(o, p, q, r, t) /\ dir'[t] = dir[t],
         \A t \in Slots : t # s /\ dir[t].kind = "file" /\ First(t)' =>
            First(t) /\ expected'[dir[t].name] \in {Unknown, expected[dir[t].name]},
         s \in Slots /\ dir'[s].kind = "file" /\ ~(Rewriting' /\ s = op'.slot) => FileOK(q, r, s)'
  PROVE  FilesOK(q, r)'
<1> SUFFICES ASSUME NEW t \in Slots, dir'[t].kind = "file", ~(Rewriting' /\ t = op'.slot)
             PROVE  FileOK(q, r, t)'
  BY DEF FilesOK
<1>1. CASE t = s
  BY <1>1
<1>2. CASE t # s
  <2>1. FileOK(o, p, t) /\ dir[t].kind = "file"
    BY <1>2 DEF FilesOK
  <2>2. First(t)' => First(t) /\ expected'[dir[t].name] \in {Unknown, expected[dir[t].name]}
    BY <1>2, <2>1
  <2>3. QED
    BY <1>2, <2>1, <2>2, FileKept
<1>3. QED
  BY <1>1, <1>2

\* The same where the step leaves the directory and the history alone.
LEMMA FilesAlone ==
  ASSUME NEW o, NEW p, NEW q, NEW r, NEW s, FilesOK(o, p), Rewriting => op.slot = s,
         UNCHANGED << dir, expected >>,
         \A t \in Slots : t # s => SameChain(o, p, q, r, t),
         s \in Slots /\ dir'[s].kind = "file" /\ ~(Rewriting' /\ s = op'.slot) => FileOK(q, r, s)'
  PROVE  FilesOK(q, r)'
<1>1. \A t \in Slots : First(t)' => First(t) /\ expected'[dir[t].name] \in {Unknown, expected[dir[t].name]}
  BY FirstAlone
<1>2. QED
  BY <1>1, FilesKept

\* What is to be shown of a labelling while a write is under way.
LEMMA LabelledWriting ==
  ASSUME NEW q, NEW r, op' \in WriteOps, Labels(q, r)', FilesOK(q, r)',
         IF op'.pc \in {"free", "clear"} THEN Freeing(q, r)' ELSE Building(q, r)'
  PROVE  Labelled(q, r)'
<1>1. op' \notin ReadOps
  BY OpsApart
<1>2. QED
  BY <1>1 DEF Labelled, WritingOK, IdleOK, ReadingOK, Rewriting

\* What is to be shown of a labelling when no operation is under way.
LEMMA LabelledIdle ==
  ASSUME NEW q, NEW r, op' = NoOp, Labels(q, r)', FilesOK(q, r)',
         \A c \in Clusters : q[c] # NEW_CHAIN
  PROVE  Labelled(q, r)'
<1>1. op' \notin ReadOps /\ op' \notin WriteOps
  BY OpsApart
<1>2. QED
  BY <1>1 DEF Labelled, WritingOK, IdleOK, ReadingOK, Rewriting

\* Facts about labels in the form the provers use.
LEMMA LabelFacts ==
  ASSUME NEW o, NEW p, Labelled(o, p)
  PROVE  /\ o \in [Clusters -> Owners] /\ p \in [Clusters -> Nat] /\ FilesOK(o, p)
         /\ \A c \in Clusters : o[c] \in Slots => dir[o[c]].kind = "file"
         /\ op \in WriteOps =>
              Rewriting /\ (IF op.pc \in {"free", "clear"} THEN Freeing(o, p) ELSE Building(o, p))
         /\ op \notin WriteOps => ~Rewriting /\ \A c \in Clusters : o[c] # NEW_CHAIN
BY DEF Labelled, Labels, WritingOK, IdleOK, Rewriting

\* Beginning to write: the chain of the file is the one to be freed.
LEMMA WriteBeginStep ==
  ASSUME TypesOK, NEW o, NEW p, Labelled(o, p),
         NEW n \in Names, NEW text \in TextsOf(n), write_begin(n, text)
  PROVE  Labelled(o, p)'
<1>0. PICK s : s = SlotOf(n)
  OBVIOUS
<1>1. /\ op' \in WriteOps /\ op'.pc = "free" /\ op'.slot = s
      /\ op'.cluster = dir[s].cluster_lo /\ op'.first = 0 /\ op'.prev = 0 /\ op'.done = 0
  BY <1>0, WriteBeginTypes
<1>2. s \in Slots /\ dir[s].kind = "file" /\ dir[s].name = n
  BY <1>0, DirSearch DEF write_begin, IsFile
<1>3. /\ UNCHANGED << fat, dir, data >> /\ op = NoOp
      /\ expected' = [expected EXCEPT ![n] = Unknown]
  BY DEF write_begin, diskVars
<1>4. ~Rewriting /\ op \notin WriteOps
  BY <1>3, OpsApart DEF Rewriting
<1>5. FileOK(o, p, s) /\ \A c \in Clusters : o[c] # NEW_CHAIN
  BY <1>2, <1>4, LabelFacts DEF FilesOK
<1>6. FilesOK(o, p)'
  <2>1. \A t \in Slots : SameChain(o, p, o, p, t) /\ dir'[t] = dir[t]
    BY <1>3 DEF SameChain
  <2>2. \A t \in Slots : First(t)' => First(t) /\ expected'[dir[t].name] \in {Unknown, expected[dir[t].name]}
    <3>1. \A m : expected'[m] \in {Unknown, expected[m]}
      BY <1>3 DEF TypesOK, DirOK
    <3>2. QED
      BY <1>3, <3>1, FirstAlone
  <2>3. FilesOK(o, p)
    BY LabelFacts
  <2>4. QED
    BY <1>1, <1>4, <2>1, <2>2, <2>3, FilesKept DEF Rewriting
<1>7. Labels(o, p)'
  BY <1>3 DEF Labelled, Labels
<1>8. Freeing(o, p)'
  <2>1. Linked(o, p, s)'
    BY <1>3, <1>5 DEF FileOK, Linked, NextIn
  <2>2. dir'[s].cluster_lo = 0 \/ dir'[s].cluster_lo \in Clusters
    BY <1>3, <1>5 DEF FileOK, StartsAt
  <2>3. op'.cluster \in Clusters => o[op'.cluster] = s
    BY <1>1, <1>5, FatNumbers DEF FileOK, StartsAt, FREE
  <2>4. QED
    BY <1>1, <1>3, <1>5, <2>1, <2>2, <2>3 DEF Freeing
<1>9. QED
  BY <1>1, <1>6, <1>7, <1>8, LabelledWriting

\* The entry of the cluster to be freed is read: it tells where the walk goes on.
LEMMA FreeStep ==
  ASSUME TypesOK, DriveOK, failures = 0, failures' = 0, Orderly, NEW o, NEW p, Labelled(o, p), free_cluster
  PROVE  Labelled(o, p)'
<1>0. PICK s, c : s = op.slot /\ c = op.cluster
  OBVIOUS
<1>1. PICK v \in FatValues :
        /\ op \in WriteOps /\ c \in Clusters \cup {BAD_CLUSTER} /\ fat_read_entry(c, v)
        /\ op' = [op EXCEPT !.pc = "clear", !.next = v] /\ op' \in WriteOps
  BY <1>0, FreeTypes
<1>2. op.pc = "free" /\ UNCHANGED << fat, dir, data, expected >>
  BY DEF free_cluster, diskVars
<1>3. /\ op'.pc = "clear" /\ op'.next = v /\ op'.cluster = c /\ op'.slot = s
      /\ op'.first = op.first /\ op'.prev = op.prev /\ op'.done = op.done
  BY <1>0, <1>1 DEF WriteOps
<1>4. c \in Clusters
  BY <1>0, <1>1, <1>2 DEF Orderly, InTheFat
<1>5. v = fat[1][c]
  BY <1>1, <1>4, ReadCoherent DEF Orderly
<1>6. FilesOK(o, p) /\ Rewriting /\ Freeing(o, p)
  BY <1>1, <1>2, LabelFacts
<1>7. Labels(o, p)'
  BY <1>2 DEF Labelled, Labels
<1>8. FilesOK(o, p)'
  BY <1>0, <1>1, <1>2, <1>3, <1>6, FilesAlone DEF SameChain, Rewriting
<1>9. Freeing(o, p)'
  BY <1>0, <1>2, <1>3, <1>5, <1>6 DEF Freeing, Linked, NextIn
<1>10. QED
  BY <1>1, <1>3, <1>7, <1>8, <1>9, LabelledWriting

\* Freeing a cluster: it is nobody's now, and the walk goes on in the same chain.
LEMMA ClearStep ==
  ASSUME TypesOK, DriveOK, failures = 0, failures' = 0, Orderly, NEW o, NEW p, Labelled(o, p), clear_cluster
  PROVE  \E q, r : Labelled(q, r)'
<1>0. PICK s, c : s = op.slot /\ c = op.cluster
  OBVIOUS
<1>1. /\ op \in WriteOps /\ c \in Clusters \cup {BAD_CLUSTER} /\ op' \in WriteOps /\ op.pc = "clear"
      /\ op'.pc = "free" /\ op'.slot = s /\ op'.cluster = op.next
      /\ op'.first = op.first /\ op'.prev = op.prev /\ op'.done = op.done
  BY <1>0, ClearTypes DEF clear_cluster
<1>2. c \in Clusters /\ Copies /\ DiskOK
  BY <1>0, <1>1 DEF Orderly, InTheFat, TypesOK
<1>3. /\ fat'[1][c] = FREE /\ data' = data
      /\ \A d \in Clusters : d # c => fat'[1][d] = fat[1][d]
  <2>1. fat_write_entry(c, FREE)
    BY <1>0 DEF clear_cluster
  <2>2. QED
    BY <1>2, <2>1, WriteCoherent
<1>a. s \in Slots /\ UNCHANGED << dir, data, expected >>
  BY <1>0, <1>1, <1>3, OpKind DEF clear_cluster, TypesOK
<1>5. /\ o \in [Clusters -> Owners] /\ p \in [Clusters -> Nat] /\ FilesOK(o, p)
      /\ \A d \in Clusters : o[d] \in Slots => dir[o[d]].kind = "file"
      /\ Rewriting /\ Freeing(o, p)
  BY <1>1, LabelFacts
<1>6. PICK q : q = [d \in Clusters |-> IF o[d] = s /\ p[d] <= p[c] THEN NOBODY ELSE o[d]]
  OBVIOUS
<1>7. q \in [Clusters -> Owners] /\ \A d \in Clusters : q[d] = IF o[d] = s /\ p[d] <= p[c] THEN NOBODY ELSE o[d]
  BY <1>5, <1>6, FatNumbers
<1>8. /\ \A d \in Clusters : o[d] # NEW_CHAIN
      /\ Linked(o, p, s) /\ o[c] = s
      /\ op.done = 0 /\ op.first = 0 /\ op.prev = 0
  BY <1>0, <1>2, <1>5 DEF Freeing
<1>4. op'.cluster = fat[1][c] /\ c \in Clusters
  BY <1>0, <1>1, <1>2, <1>5 DEF Freeing
<1>9. Labels(q, p)'
  BY <1>a, <1>5, <1>7, FatNumbers DEF Labels
<1>10. FilesOK(q, p)'
  <2>1. ASSUME NEW t \in Slots, t # s PROVE SameChain(o, p, q, p, t)
    BY <1>a, <1>3, <1>7, <1>8, <2>1, FatNumbers DEF SameChain
  <2>3. QED
    BY <1>0, <1>1, <1>a, <1>5, <2>1, FilesAlone DEF Rewriting
<1>11. Freeing(q, p)'
  <2>1. ASSUME NEW d \in Clusters, q[d] = s
        PROVE  fat'[1][d] = END_OF_CHAIN \/ NextIn(q, p, d)'
    <3>1. o[d] = s /\ ~(p[d] <= p[c]) /\ d # c
      BY <1>a, <1>5, <1>7, <2>1, FatNumbers
    <3>2. fat[1][d] = END_OF_CHAIN \/ NextIn(o, p, d)
      BY <1>8, <3>1 DEF Linked
    <3>3. fat'[1][d] = fat[1][d] /\ p[d] \in Nat /\ p[c] \in Nat
      BY <1>2, <1>3, <1>5, <3>1
    <3>4. CASE NextIn(o, p, d)
      <4> DEFINE e == fat[1][d]
      <4>1. e \in Clusters /\ o[e] = s /\ p[e] = p[d] + 1
        BY <3>1, <3>4 DEF NextIn
      <4>2. ~(p[e] <= p[c])
        BY <3>1, <3>3, <4>1
      <4>3. q[e] = s
        BY <1>7, <4>1, <4>2
      <4>4. QED
        BY <2>1, <3>3, <4>1, <4>3 DEF NextIn
    <3>5. QED
      BY <3>2, <3>3, <3>4
  <2>2. Linked(q, p, s)'
    BY <2>1 DEF Linked
  <2>3. op'.cluster \in Clusters => q[op'.cluster] = s
    <3> SUFFICES ASSUME op'.cluster \in Clusters PROVE q[op'.cluster] = s
      OBVIOUS
    <3> DEFINE e == fat[1][c]
    <3>1. NextIn(o, p, c)
      BY <1>4, <1>8, FatNumbers DEF Linked
    <3>2. e \in Clusters /\ o[e] = s /\ p[e] = p[c] + 1 /\ p[c] \in Nat
      BY <1>4, <1>5, <1>8, <3>1 DEF NextIn
    <3>3. ~(p[e] <= p[c])
      BY <3>2
    <3>4. QED
      BY <1>4, <1>7, <3>2, <3>3
  <2>4. LET lo == dir[s].cluster_lo
        IN  lo = 0 \/ (lo \in Clusters /\ fat'[1][lo] = FREE)
    BY <1>0, <1>3, <1>5 DEF Freeing
  <2>5. \A d \in Clusters : q[d] # NEW_CHAIN
    BY <1>7, <1>8, FatNumbers
  <2>6. QED
    BY <1>1, <1>a, <1>8, <2>2, <2>3, <2>4, <2>5 DEF Freeing
<1>12. Labelled(q, p)'
  BY <1>1, <1>9, <1>10, <1>11, LabelledWriting
<1>13. QED
  BY <1>12

\* The whole chain is freed: the file owns nothing.
LEMMA FreedStep ==
  ASSUME TypesOK, NEW o, NEW p, Labelled(o, p), freed
  PROVE  \E q, r : Labelled(q, r)'
<1>0. PICK s : s = op.slot
  OBVIOUS
<1>1. /\ op \in WriteOps /\ op' \in WriteOps /\ op.pc = "free" /\ op'.pc = "alloc" /\ op'.slot = s
      /\ op'.text = op.text /\ op'.first = op.first /\ op'.prev = op.prev /\ op'.done = op.done
      /\ op'.cluster = 2
  BY <1>0, FreedTypes DEF freed
<1>2. s \in Slots /\ UNCHANGED << fat, dir, data, expected >>
  BY <1>0, <1>1, OpKind DEF freed, TypesOK, diskVars
<1>3. /\ o \in [Clusters -> Owners] /\ p \in [Clusters -> Nat] /\ FilesOK(o, p)
      /\ \A d \in Clusters : o[d] \in Slots => dir[o[d]].kind = "file"
      /\ Rewriting /\ Freeing(o, p)
  BY <1>1, LabelFacts
<1>4. op.cluster \notin Clusters
  BY <1>1, FatNumbers DEF freed, WriteOps
<1>5. op.text.size \in Nat
  <2>1. op.text \in Texts
    BY <1>1 DEF WriteOps
  <2>2. QED
    BY <2>1, TextSize
<1>6. PICK q : q = [d \in Clusters |-> IF o[d] = s THEN NOBODY ELSE o[d]]
  OBVIOUS
<1>7. q \in [Clusters -> Owners] /\ \A d \in Clusters : q[d] = IF o[d] = s THEN NOBODY ELSE o[d]
  BY <1>3, <1>6, FatNumbers
<1>8. Labels(q, p)'
  BY <1>2, <1>3, <1>7, FatNumbers DEF Labels
<1>9. FilesOK(q, p)'
  <2>1. ASSUME NEW t \in Slots, t # s PROVE SameChain(o, p, q, p, t)
    BY <1>2, <1>7, <2>1, FatNumbers DEF SameChain
  <2>3. QED
    BY <1>0, <1>1, <1>2, <1>3, <2>1, FilesAlone DEF Rewriting
<1>10. Building(q, p)'
  <2>1. \A d \in Clusters : q[d] # NEW_CHAIN /\ q[d] # s
    BY <1>2, <1>3, <1>7, FatNumbers DEF Freeing
  <2>2. op'.done = 0 /\ op'.first = 0 /\ op'.prev = 0 /\ op'.text.size \in Nat
    BY <1>1, <1>3, <1>5 DEF Freeing
  <2>3. ChainOfNew(q, p)'
    BY <2>1 DEF ChainOfNew
  <2>4. Ends(q, p)' /\ Current(q, p)'
    BY <1>1, <2>2, FatNumbers DEF Ends, Current
  <2>5. LET lo == dir'[s].cluster_lo IN lo = 0 \/ (lo \in Clusters /\ fat'[1][lo] = FREE)
    BY <1>0, <1>2, <1>3, <1>4 DEF Freeing
  <2>6. QED
    BY <1>1, <2>1, <2>3, <2>4, <2>5 DEF Building
<1>11. Labelled(q, p)'
  BY <1>1, <1>8, <1>9, <1>10, LabelledWriting
<1>12. QED
  BY <1>11

\* What the lemmas on building a chain start from.
LEMMA BuildFacts ==
  ASSUME TypesOK, NEW o, NEW p, Labelled(o, p), op \in WriteOps, op.pc \notin {"free", "clear"}
  PROVE  /\ op.slot \in Slots /\ dir[op.slot].kind = "file" /\ dir[op.slot].name \in Names
         /\ expected[dir[op.slot].name] = Unknown
         /\ op.text \in TextsOf(dir[op.slot].name) /\ op.text.size \in Nat /\ op.done \in Nat
         /\ o \in [Clusters -> Owners] /\ p \in [Clusters -> Nat] /\ FilesOK(o, p)
         /\ \A c \in Clusters : o[c] \in Slots => dir[o[c]].kind = "file"
         /\ Rewriting /\ Building(o, p) /\ ChainOfNew(o, p) /\ Ends(o, p) /\ Current(o, p)
         /\ \A c \in Clusters : o[c] # op.slot
<1>1. op # NoOp /\ op.text \in Texts /\ op.done \in Nat
  BY OpsApart DEF WriteOps
<1>2. Building(o, p)
  BY LabelFacts
<1>3. QED
  BY <1>1, <1>2, LabelFacts, OpFile, TextSize DEF TypesOK, OpOK, Building

\* A free cluster is in no chain.
LEMMA FreeUnowned ==
  ASSUME TypesOK, NEW o, NEW p, Labelled(o, p), op \in WriteOps, op.pc \notin {"free", "clear"},
         NEW c \in Clusters, fat[1][c] = FREE
  PROVE  o[c] \notin Slots /\ o[c] # NEW_CHAIN
<1>1. /\ o \in [Clusters -> Owners] /\ p \in [Clusters -> Nat] /\ FilesOK(o, p)
      /\ o[c] \in Slots => dir[o[c]].kind = "file"
      /\ ChainOfNew(o, p) /\ Current(o, p) /\ o[c] # op.slot /\ op.done \in Nat
  BY BuildFacts
<1>2. ASSUME o[c] \in Slots PROVE FALSE
  <2>1. FileOK(o, p, o[c])
    BY <1>1, <1>2 DEF FilesOK
  <2>2. QED
    BY <2>1, FatNumbers DEF FileOK, Linked, NextIn
<1>3. ASSUME o[c] = NEW_CHAIN PROVE FALSE
  <2>1. Tip \in Clusters \cup {END_OF_CHAIN}
    BY DEF Tip, TypesOK, OpOK
  <2>2. p[c] \in 1 .. Built /\ (p[c] < Built => NextIn(o, p, c)) /\ (p[c] = Built => fat[1][c] = Tip)
    BY <1>1, <1>3 DEF ChainOfNew
  <2>3. Built \in Nat
    BY <1>1 DEF Built
  <2>4. p[c] < Built \/ p[c] = Built
    BY <2>2, <2>3
  <2>5. QED
    BY <2>1, <2>2, <2>4, FatNumbers DEF NextIn
<1>4. QED
  BY <1>2, <1>3

\* A free cluster is found: it is the next one of the chain.
LEMMA TakeStep ==
  ASSUME TypesOK, NEW o, NEW p, Labelled(o, p), scan_cluster, NEW x \in Clusters, NEW s,
         s = op.slot, fat[1][x] = FREE, op \in WriteOps, op' \in WriteOps,
         op'.pc = (IF op.prev # 0 THEN "link" ELSE "mark"), op'.slot = s, op'.text = op.text,
         op'.first = (IF op.first = 0 THEN x ELSE op.first), op'.cluster = x,
         op'.prev = op.prev, op'.done = op.done
  PROVE  Labelled(o, p)'
<1>0. s = op.slot /\ x = op'.cluster
  OBVIOUS
<1>1. /\ op \in WriteOps /\ op' \in WriteOps /\ x \in Clusters
      /\ op'.pc = (IF op.prev # 0 THEN "link" ELSE "mark")
      /\ op'.slot = s /\ op'.text = op.text
      /\ op'.first = (IF op.first = 0 THEN x ELSE op.first)
      /\ op'.prev = op.prev /\ op'.done = op.done
  OBVIOUS
<1>2. /\ op.pc = "alloc" /\ op.done < op.text.size /\ UNCHANGED << fat, dir, data, expected >>
  BY DEF scan_cluster, diskVars
<1>3. fat[1][x] = FREE
  OBVIOUS
<1>4. /\ s \in Slots /\ op.text.size \in Nat /\ op.done \in Nat
      /\ o \in [Clusters -> Owners] /\ p \in [Clusters -> Nat] /\ FilesOK(o, p)
      /\ \A c \in Clusters : o[c] \in Slots => dir[o[c]].kind = "file"
      /\ Rewriting /\ Building(o, p) /\ ChainOfNew(o, p) /\ Ends(o, p) /\ Current(o, p)
      /\ \A c \in Clusters : o[c] # s
  BY <1>0, <1>1, <1>2, BuildFacts
<1>5. Labels(o, p)'
  BY <1>2, <1>4 DEF Labels
<1>6. FilesOK(o, p)'
  BY <1>0, <1>1, <1>2, <1>4, FilesAlone DEF SameChain, Rewriting
<1>7. Built = op.done /\ Built' = op.done /\ Tip = END_OF_CHAIN
      /\ Tip' = IF op'.pc = "mark" THEN x ELSE END_OF_CHAIN
  BY <1>0, <1>1, <1>2 DEF Built, Tip
<1>8. IF op.done = 0 THEN op.prev = 0 /\ op.first = 0
      ELSE op.prev \in Clusters /\ op.prev # 0 /\ op.first \in Clusters /\ op.first # 0
  BY <1>2, <1>4, FatNumbers DEF Ends, StartsAt, FREE
<1>9. ChainOfNew(o, p)'
  <2>1. CASE op.done = 0
    <3>1. \A c \in Clusters : o[c] # NEW_CHAIN
      <4>1. \A c \in Clusters : o[c] = NEW_CHAIN => p[c] \in 1 .. 0
        BY <1>4, <1>7, <2>1 DEF ChainOfNew
      <4>2. QED
        BY <4>1
    <3>2. QED
      BY <3>1 DEF ChainOfNew
  <2>2. CASE op.done # 0
    <3>1. Tip' = Tip /\ Built' = Built
      BY <1>1, <1>7, <1>8, <2>2
    <3>2. QED
      BY <1>1, <1>2, <1>4, <3>1 DEF ChainOfNew, NextIn
  <2>3. QED
    BY <2>1, <2>2
<1>10. Ends(o, p)'
  BY <1>0, <1>1, <1>2, <1>4, <1>8 DEF Ends, StartsAt
<1>11. Current(o, p)'
  BY <1>0, <1>1, <1>2, <1>3, <1>4, <1>8 DEF Current
<1>12. Building(o, p)'
  BY <1>0, <1>1, <1>2, <1>4, <1>9, <1>10, <1>11 DEF Building
<1>13. QED
  BY <1>1, <1>5, <1>6, <1>12, LabelledWriting

\* A cluster that is not free is passed over.
LEMMA PassStep ==
  ASSUME TypesOK, NEW o, NEW p, Labelled(o, p), scan_cluster, NEW x \in Clusters, NEW s,
         s = op.slot, x = op.cluster, fat[1][x] # FREE, op \in WriteOps, op' \in WriteOps,
         op'.pc = "alloc", op'.slot = s, op'.text = op.text, op'.first = op.first,
         op'.cluster = x + 1, op'.prev = op.prev, op'.done = op.done
  PROVE  Labelled(o, p)'
<1>1. /\ op.pc = "alloc" /\ op.done < op.text.size /\ UNCHANGED << fat, dir, data, expected >>
  BY DEF scan_cluster, diskVars
<1>2. /\ s \in Slots /\ op.text.size \in Nat /\ op.done \in Nat
      /\ o \in [Clusters -> Owners] /\ p \in [Clusters -> Nat] /\ FilesOK(o, p)
      /\ \A c \in Clusters : o[c] \in Slots => dir[o[c]].kind = "file"
      /\ Rewriting /\ Building(o, p) /\ ChainOfNew(o, p) /\ Ends(o, p) /\ Current(o, p)
      /\ \A c \in Clusters : o[c] # s
  BY <1>1, BuildFacts
<1>3. Labels(o, p)'
  BY <1>1, <1>2 DEF Labels
<1>4. FilesOK(o, p)'
  BY <1>1, <1>2, FilesAlone DEF SameChain, Rewriting
<1>5. Built' = Built /\ Tip' = Tip
  BY <1>1 DEF Built, Tip
<1>6. ChainOfNew(o, p)'
  BY <1>1, <1>2, <1>5 DEF ChainOfNew, NextIn
<1>7. Ends(o, p)'
  BY <1>1, <1>2 DEF Ends, StartsAt
<1>8. \A c \in Clusters : c < x + 1 => fat'[1][c] # FREE
  <2>1. \A c \in Clusters : c < x + 1 => c < x \/ c = x
    BY DEF Clusters
  <2>2. \A c \in Clusters : c < x => fat[1][c] # FREE
    BY <1>1, <1>2 DEF Current
  <2>3. QED
    BY <1>1, <2>1, <2>2
<1>9. Current(o, p)'
  BY <1>1, <1>2, <1>8 DEF Current
<1>10. Building(o, p)'
  BY <1>1, <1>2, <1>6, <1>7, <1>9 DEF Building
<1>11. QED
  BY <1>3, <1>4, <1>10, LabelledWriting

\* One turn of the scan.
LEMMA ScanStep ==
  ASSUME TypesOK, DriveOK, failures = 0, failures' = 0, Orderly, NEW o, NEW p, Labelled(o, p), scan_cluster
  PROVE  Labelled(o, p)'
<1>0. PICK s, x : s = op.slot /\ x = op.cluster
  OBVIOUS
<1>1. PICK v \in FatValues :
        /\ op \in WriteOps /\ op' \in WriteOps /\ x \in Clusters /\ fat_read_entry(x, v)
        /\ op'.slot = s /\ op'.text = op.text /\ op'.prev = op.prev /\ op'.done = op.done
        /\ v = FREE => /\ op'.pc = (IF op.prev # 0 THEN "link" ELSE "mark")
                       /\ op'.first = (IF op.first = 0 THEN x ELSE op.first)
                       /\ op'.cluster = x
        /\ v # FREE => /\ op'.pc = "alloc" /\ op'.first = op.first
                       /\ op'.cluster = x + 1
  BY <1>0, ScanTypes
<1>2. v = fat[1][x]
  BY <1>1, ReadCoherent DEF Orderly
<1>3. CASE v = FREE
  BY <1>0, <1>1, <1>2, <1>3, TakeStep
<1>4. CASE v # FREE
  BY <1>0, <1>1, <1>2, <1>4, PassStep
<1>5. QED
  BY <1>3, <1>4

\* The disk is full: the entry keeps its first cluster, which has become one of the new
\* chain; from there on the chain is the file's.
LEMMA FullStep ==
  ASSUME TypesOK, NEW o, NEW p, Labelled(o, p), disk_full
  PROVE  \E q, r : Labelled(q, r)'
<1>0. PICK s, lo : s = op.slot /\ lo = dir[op.slot].cluster_lo
  OBVIOUS
<1>1. op \in WriteOps /\ op.cluster = BAD_CLUSTER /\ op' = NoOp
  BY FullTypes
<1>2. op.pc = "alloc" /\ UNCHANGED << fat, dir, data, expected >>
  BY DEF disk_full, diskVars
<1>3. \A c \in Clusters : fat[1][c] # FREE
  <2>1. Current(o, p)
    BY <1>1, <1>2, BuildFacts
  <2>2. QED
    BY <1>1, <1>2, <2>1, FatNumbers DEF Current
<1>4. /\ s \in Slots /\ op.done \in Nat /\ dir[s].kind = "file" /\ expected[dir[s].name] = Unknown
      /\ o \in [Clusters -> Owners] /\ p \in [Clusters -> Nat] /\ FilesOK(o, p)
      /\ \A c \in Clusters : o[c] \in Slots => dir[o[c]].kind = "file"
      /\ Rewriting /\ Building(o, p) /\ ChainOfNew(o, p)
      /\ \A c \in Clusters : o[c] # s
  BY <1>0, <1>1, <1>2, BuildFacts
<1>5. Built = op.done /\ Tip = END_OF_CHAIN /\ ~Rewriting'
  BY <1>1, <1>2, OpsApart DEF Built, Tip, Rewriting
<1>6. lo = 0 \/ (lo \in Clusters /\ o[lo] = NEW_CHAIN)
  BY <1>0, <1>3, <1>4 DEF Building
<1>7. PICK k : k = IF lo = 0 THEN op.done + 1 ELSE p[lo]
  OBVIOUS
<1>8. k \in Nat
  BY <1>4, <1>6, <1>7
<1>9. PICK q, r :
        /\ q = [c \in Clusters |-> IF o[c] = NEW_CHAIN THEN IF p[c] >= k THEN s ELSE NOBODY ELSE o[c]]
        /\ r = [c \in Clusters |-> IF o[c] = NEW_CHAIN /\ p[c] >= k THEN p[c] - k + 1 ELSE p[c]]
  OBVIOUS
<1>10. ASSUME NEW c \in Clusters, o[c] = NEW_CHAIN, p[c] >= k
       PROVE  p[c] - k + 1 \in Nat /\ p[c] + 1 >= k /\ (p[c] + 1) - k + 1 = (p[c] - k + 1) + 1
  BY <1>4, <1>8, <1>10
<1>11. /\ q \in [Clusters -> Owners] /\ r \in [Clusters -> Nat]
       /\ \A c \in Clusters :
            /\ q[c] = IF o[c] = NEW_CHAIN THEN IF p[c] >= k THEN s ELSE NOBODY ELSE o[c]
            /\ r[c] = IF o[c] = NEW_CHAIN /\ p[c] >= k THEN p[c] - k + 1 ELSE p[c]
  <2>1. \A c \in Clusters : (IF o[c] = NEW_CHAIN /\ p[c] >= k THEN p[c] - k + 1 ELSE p[c]) \in Nat
    BY <1>4, <1>10
  <2>2. QED
    BY <1>4, <1>9, <2>1, FatNumbers
<1>12. \A c \in Clusters : q[c] # NEW_CHAIN
  BY <1>4, <1>11, FatNumbers
<1>13. Labels(q, r)'
  BY <1>2, <1>4, <1>11, FatNumbers DEF Labels
<1>14. FileOK(q, r, s)'
  <2>1. ASSUME NEW c \in Clusters, q[c] = s
        PROVE  fat'[1][c] = END_OF_CHAIN \/ NextIn(q, r, c)'
    <3>1. o[c] = NEW_CHAIN /\ p[c] >= k /\ r[c] = p[c] - k + 1
      BY <1>4, <1>11, <2>1, FatNumbers
    <3>2. p[c] \in 1 .. op.done /\ (p[c] < op.done => NextIn(o, p, c))
          /\ (p[c] = op.done => fat[1][c] = END_OF_CHAIN)
      BY <1>4, <1>5, <3>1 DEF ChainOfNew
    <3>3. CASE p[c] = op.done
      BY <1>2, <3>2, <3>3
    <3>4. CASE p[c] # op.done
      <4> DEFINE e == fat[1][c]
      <4>1. p[c] < op.done
        BY <1>4, <3>2, <3>4
      <4>2. e \in Clusters /\ o[e] = NEW_CHAIN /\ p[e] = p[c] + 1
        BY <3>1, <3>2, <4>1 DEF NextIn
      <4>3. p[e] >= k /\ p[e] - k + 1 = r[c] + 1
        BY <1>10, <3>1, <4>2
      <4>4. q[e] = s /\ r[e] = r[c] + 1
        BY <1>11, <4>2, <4>3
      <4>5. QED
        BY <1>2, <2>1, <4>2, <4>4 DEF NextIn
    <3>5. QED
      BY <3>3, <3>4
  <2>2. Linked(q, r, s)'
    BY <2>1 DEF Linked
  <2>3. lo = 0 \/ (lo \in Clusters /\ q[lo] = s /\ r[lo] = 1)
    <3>1. CASE lo # 0
      <4>1. lo \in Clusters /\ o[lo] = NEW_CHAIN /\ k = p[lo] /\ p[lo] \in Nat /\ p[lo] >= k
            /\ p[lo] - k + 1 = 1
        BY <1>4, <1>6, <1>7, <3>1
      <4>2. QED
        BY <1>11, <4>1
    <3>2. QED
      BY <3>1
  <2>4. QED
    BY <1>0, <1>2, <1>4, <2>2, <2>3 DEF FileOK, StartsAt
<1>15. FilesOK(q, r)'
  <2>1. ASSUME NEW t \in Slots, t # s PROVE SameChain(o, p, q, r, t)
    BY <1>2, <1>11, <2>1, FatNumbers DEF SameChain
  <2>3. QED
    BY <1>0, <1>2, <1>4, <1>14, <2>1, FilesAlone
<1>16. Labelled(q, r)'
  BY <1>1, <1>12, <1>13, <1>15, LabelledIdle
<1>17. QED
  BY <1>16

\* The last cluster of the chain is linked to the one found, which is not marked yet.
LEMMA LinkStep ==
  ASSUME TypesOK, DriveOK, failures = 0, failures' = 0, Orderly, NEW o, NEW p, Labelled(o, p), link_cluster
  PROVE  Labelled(o, p)'
<1>0. PICK s, x, y : s = op.slot /\ x = op.cluster /\ y = op.prev
  OBVIOUS
<1>1. /\ op \in WriteOps /\ op' \in WriteOps /\ x \in Clusters /\ y \in Clusters
      /\ op' = [op EXCEPT !.pc = "mark"] /\ op.pc = "link"
  BY <1>0, LinkTypes DEF link_cluster
<1>2. /\ op'.pc = "mark" /\ op'.slot = s /\ op'.text = op.text /\ op'.cluster = x
      /\ op'.first = op.first /\ op'.prev = y /\ op'.done = op.done
  BY <1>0, <1>1 DEF WriteOps
<1>4. fat'[1][y] = x /\ data' = data /\ \A c \in Clusters : c # y => fat'[1][c] = fat[1][c]
  <2>1. fat_write_entry(y, x)
    BY <1>0 DEF link_cluster
  <2>2. QED
    BY <1>1, <2>1, WriteCoherent DEF TypesOK, Orderly
<1>3. UNCHANGED << dir, data, expected >>
  BY <1>4 DEF link_cluster
<1>5. /\ s \in Slots /\ op.text.size \in Nat /\ op.done \in Nat
      /\ o \in [Clusters -> Owners] /\ p \in [Clusters -> Nat] /\ FilesOK(o, p)
      /\ \A c \in Clusters : o[c] \in Slots => dir[o[c]].kind = "file"
      /\ Rewriting /\ Building(o, p) /\ ChainOfNew(o, p) /\ Ends(o, p) /\ Current(o, p)
      /\ \A c \in Clusters : o[c] # s
  BY <1>0, <1>1, BuildFacts
<1>6. Built = op.done /\ Built' = op.done /\ Tip = END_OF_CHAIN /\ Tip' = x
  BY <1>1, <1>2 DEF Built, Tip
<1>7. /\ op.done > 0 /\ op.done < op.text.size /\ fat[1][x] = FREE
      /\ o[y] = NEW_CHAIN /\ p[y] = op.done /\ StartsAt(o, p, NEW_CHAIN, op.first)
  BY <1>0, <1>1, <1>5 DEF Current, Ends
<1>8. fat[1][y] = END_OF_CHAIN /\ x # y
  BY <1>1, <1>5, <1>6, <1>7, FatNumbers DEF ChainOfNew
<1>9. Labels(o, p)'
  BY <1>3, <1>5 DEF Labels
<1>10. FilesOK(o, p)'
  <2>1. ASSUME NEW t \in Slots, t # s PROVE SameChain(o, p, o, p, t)
    BY <1>3, <1>4, <1>7, FatNumbers DEF SameChain
  <2>2. QED
    BY <1>0, <1>1, <1>2, <1>3, <1>5, <2>1, FilesAlone DEF Rewriting
<1>11. ChainOfNew(o, p)'
  <2>1. ASSUME NEW c \in Clusters, o[c] = NEW_CHAIN
        PROVE  /\ p[c] \in 1 .. op.done
               /\ p[c] < op.done => NextIn(o, p, c)'
               /\ p[c] = op.done => fat'[1][c] = x
               /\ p[c] <= op.done => data'[c] = Piece(op.text, p[c])
    <3>1. /\ p[c] \in 1 .. op.done
          /\ p[c] < op.done => NextIn(o, p, c)
          /\ p[c] <= op.done => data[c] = Piece(op.text, p[c])
      BY <1>5, <1>6, <2>1 DEF ChainOfNew
    <3>2. p[c] = op.done => c = y
      BY <1>1, <1>5, <1>7, <2>1 DEF ChainOfNew
    <3>3. p[c] < op.done => c # y
      BY <1>5, <1>7
    <3>4. p[c] < op.done => NextIn(o, p, c)'
      BY <1>4, <3>1, <3>3 DEF NextIn
    <3>5. QED
      BY <1>3, <1>4, <3>1, <3>2, <3>4
  <2>2. QED
    BY <1>2, <1>5, <1>6, <2>1 DEF ChainOfNew
<1>12. Ends(o, p)'
  BY <1>1, <1>2, <1>5, <1>7 DEF Ends, StartsAt
<1>13. Current(o, p)'
  BY <1>1, <1>2, <1>4, <1>5, <1>7, <1>8 DEF Current
<1>14. LET lo == dir'[s].cluster_lo
       IN  lo = 0 \/ (lo \in Clusters /\ (fat'[1][lo] = FREE \/ o[lo] = NEW_CHAIN))
  BY <1>0, <1>3, <1>4, <1>5, <1>7 DEF Building
<1>15. Building(o, p)'
  BY <1>2, <1>5, <1>11, <1>12, <1>13, <1>14 DEF Building
<1>16. QED
  BY <1>1, <1>2, <1>9, <1>10, <1>15, LabelledWriting

\* Marking the cluster as the end adds it to the chain.
LEMMA MarkStep ==
  ASSUME TypesOK, DriveOK, failures = 0, failures' = 0, Orderly, NEW o, NEW p, Labelled(o, p), mark_cluster
  PROVE  \E q, r : Labelled(q, r)'
<1>0. PICK s, x, n : s = op.slot /\ x = op.cluster /\ n = op.done
  OBVIOUS
<1>1. /\ op \in WriteOps /\ op' \in WriteOps /\ x \in Clusters
      /\ op' = [op EXCEPT !.pc = "data"] /\ op.pc = "mark"
  BY <1>0, MarkTypes DEF mark_cluster
<1>2. /\ op'.pc = "data" /\ op'.slot = s /\ op'.text = op.text /\ op'.cluster = x
      /\ op'.first = op.first /\ op'.prev = op.prev /\ op'.done = n
  BY <1>0, <1>1 DEF WriteOps
<1>4. fat'[1][x] = END_OF_CHAIN /\ data' = data /\ \A c \in Clusters : c # x => fat'[1][c] = fat[1][c]
  <2>1. fat_write_entry(x, END_OF_CHAIN)
    BY <1>0 DEF mark_cluster
  <2>2. QED
    BY <1>1, <2>1, WriteCoherent DEF TypesOK, Orderly
<1>3. UNCHANGED << dir, data, expected >>
  BY <1>4 DEF mark_cluster
<1>5. /\ s \in Slots /\ op.text.size \in Nat /\ n \in Nat
      /\ o \in [Clusters -> Owners] /\ p \in [Clusters -> Nat] /\ FilesOK(o, p)
      /\ \A c \in Clusters : o[c] \in Slots => dir[o[c]].kind = "file"
      /\ Rewriting /\ Building(o, p) /\ ChainOfNew(o, p) /\ Ends(o, p) /\ Current(o, p)
      /\ \A c \in Clusters : o[c] # s
  BY <1>0, <1>1, BuildFacts
<1>6. Built = n /\ Built' = n + 1 /\ Tip = x /\ Tip' = END_OF_CHAIN
  BY <1>0, <1>1, <1>2 DEF Built, Tip
<1>7. n < op.text.size /\ fat[1][x] = FREE
  BY <1>0, <1>1, <1>5 DEF Current
<1>8. o[x] \notin Slots /\ o[x] # NEW_CHAIN
  BY <1>1, <1>7, FreeUnowned
<1>9. PICK q, r : q = [o EXCEPT ![x] = NEW_CHAIN] /\ r = [p EXCEPT ![x] = n + 1]
  OBVIOUS
<1>10. /\ q \in [Clusters -> Owners] /\ r \in [Clusters -> Nat]
       /\ q[x] = NEW_CHAIN /\ r[x] = n + 1
       /\ \A c \in Clusters : c # x => q[c] = o[c] /\ r[c] = p[c]
  <2>1. n + 1 \in Nat
    BY <1>5
  <2>2. QED
    BY <1>1, <1>5, <1>9, <2>1, FatNumbers
<1>11. Labels(q, r)'
  BY <1>3, <1>5, <1>10, FatNumbers DEF Labels
<1>12. FilesOK(q, r)'
  <2>1. ASSUME NEW t \in Slots, t # s PROVE SameChain(o, p, q, r, t)
    BY <1>3, <1>4, <1>8, <1>10, FatNumbers DEF SameChain
  <2>2. QED
    BY <1>0, <1>1, <1>2, <1>3, <1>5, <2>1, FilesAlone DEF Rewriting
<1>13. ASSUME NEW c \in Clusters, c # x, o[c] = NEW_CHAIN
       PROVE  /\ p[c] \in 1 .. n /\ NextIn(q, r, c)' /\ data'[c] = Piece(op.text, p[c])
  <2>1. /\ p[c] \in 1 .. n
        /\ p[c] < n => NextIn(o, p, c)
        /\ p[c] = n => fat[1][c] = x
        /\ p[c] <= n => data[c] = Piece(op.text, p[c])
    BY <1>0, <1>5, <1>6, <1>13 DEF ChainOfNew
  <2>2. fat'[1][c] = fat[1][c] /\ q[c] = NEW_CHAIN /\ r[c] = p[c]
    BY <1>4, <1>10, <1>13
  <2>3. ASSUME p[c] = n PROVE NextIn(q, r, c)'
    BY <1>1, <1>10, <2>1, <2>2, <2>3 DEF NextIn
  <2>4. ASSUME p[c] < n PROVE NextIn(q, r, c)'
    <3> DEFINE e == fat[1][c]
    <3>1. e \in Clusters /\ o[e] = NEW_CHAIN /\ p[e] = p[c] + 1
      BY <1>13, <2>1, <2>4 DEF NextIn
    <3>2. e # x
      BY <1>8, <3>1
    <3>3. QED
      BY <1>10, <2>2, <3>1, <3>2 DEF NextIn
  <2>5. p[c] = n \/ p[c] < n
    BY <1>5, <2>1
  <2>6. NextIn(q, r, c)'
    BY <2>3, <2>4, <2>5
  <2>7. p[c] <= n
    BY <1>5, <2>1
  <2>8. QED
    BY <1>3, <2>1, <2>6, <2>7
<1>14. ChainOfNew(q, r)'
  <2>1. ASSUME NEW c \in Clusters, q[c] = NEW_CHAIN
        PROVE  /\ r[c] \in 1 .. n + 1
               /\ r[c] < n + 1 => NextIn(q, r, c)'
               /\ r[c] = n + 1 => fat'[1][c] = END_OF_CHAIN
               /\ r[c] <= n => data'[c] = Piece(op.text, r[c])
    <3>1. CASE c = x
      <4>1. r[c] = n + 1 /\ fat'[1][c] = END_OF_CHAIN /\ n + 1 \in 1 .. n + 1 /\ ~(n + 1 <= n)
            /\ ~(n + 1 < n + 1)
        BY <1>4, <1>5, <1>10, <3>1
      <4>2. QED
        BY <4>1
    <3>2. CASE c # x
      <4>1. r[c] = p[c] /\ p[c] \in 1 .. n /\ NextIn(q, r, c)' /\ data'[c] = Piece(op.text, p[c])
        BY <1>10, <1>13, <2>1, <3>2
      <4>2. r[c] \in 1 .. n + 1 /\ r[c] # n + 1
        BY <1>5, <4>1
      <4>3. QED
        BY <4>1, <4>2
    <3>3. QED
      BY <3>1, <3>2
  <2>2. ASSUME NEW c \in Clusters, NEW d \in Clusters, q[c] = NEW_CHAIN, q[d] = NEW_CHAIN, r[c] = r[d]
        PROVE  c = d
    <3>1. \A e \in Clusters : e # x /\ q[e] = NEW_CHAIN => o[e] = NEW_CHAIN /\ r[e] = p[e] /\ r[e] \in 1 .. n
      BY <1>10, <1>13
    <3>2. r[x] \notin 1 .. n
      BY <1>5, <1>10
    <3>3. CASE c = x \/ d = x
      BY <2>2, <3>1, <3>2, <3>3
    <3>4. CASE c # x /\ d # x
      BY <1>5, <2>2, <3>1, <3>4 DEF ChainOfNew
    <3>5. QED
      BY <3>3, <3>4
  <2>3. QED
    BY <1>2, <1>6, <2>1, <2>2 DEF ChainOfNew
<1>15. Ends(q, r)'
  <2>1. CASE n = 0
    <3>1. op.first = x /\ op.prev = 0 /\ r[x] = 1
      BY <1>0, <1>1, <1>5, <1>10, <2>1 DEF Ends
    <3>2. QED
      BY <1>1, <1>2, <1>10, <2>1, <3>1 DEF Ends, StartsAt
  <2>2. CASE n # 0
    <3>1. /\ op.first \in Clusters /\ o[op.first] = NEW_CHAIN /\ p[op.first] = 1
          /\ op.prev \in Clusters /\ o[op.prev] = NEW_CHAIN /\ p[op.prev] = n
      BY <1>0, <1>1, <1>5, <2>2 DEF Ends, StartsAt
    <3>2. op.first # x /\ op.prev # x
      BY <1>8, <3>1
    <3>3. QED
      BY <1>2, <1>10, <2>2, <3>1, <3>2 DEF Ends, StartsAt
  <2>3. QED
    BY <2>1, <2>2
<1>16. Current(q, r)'
  BY <1>2, <1>5, <1>7, <1>10 DEF Current
<1>17. LET lo == dir'[s].cluster_lo
       IN  lo = 0 \/ (lo \in Clusters /\ (fat'[1][lo] = FREE \/ q[lo] = NEW_CHAIN))
  BY <1>0, <1>3, <1>4, <1>5, <1>10 DEF Building
<1>18. \A c \in Clusters : q[c] # s
  BY <1>5, <1>10, FatNumbers
<1>19. Building(q, r)'
  BY <1>2, <1>14, <1>15, <1>16, <1>17, <1>18 DEF Building
<1>20. Labelled(q, r)'
  BY <1>1, <1>2, <1>11, <1>12, <1>19, LabelledWriting
<1>21. QED
  BY <1>20

\* The text is written to the new cluster.
LEMMA DataStep ==
  ASSUME TypesOK, NEW o, NEW p, Labelled(o, p), write_cluster, ~WriteFails
  PROVE  Labelled(o, p)'
<1>0. PICK s, x, n : s = op.slot /\ x = op.cluster /\ n = op.done
  OBVIOUS
<1>1. /\ op \in WriteOps /\ op' \in WriteOps /\ x \in Clusters /\ op.pc = "data"
      /\ data' = [data EXCEPT ![x] = Piece(op.text, n + 1)]
      /\ op' = [op EXCEPT !.pc = "alloc", !.prev = x, !.cluster = 2, !.done = n + 1]
  BY <1>0, WriteClusterTypes DEF write_cluster, DataWritten
<1>2. /\ op'.pc = "alloc" /\ op'.slot = s /\ op'.text = op.text
      /\ op'.first = op.first /\ op'.prev = x /\ op'.cluster = 2 /\ op'.done = n + 1
  <2> DEFINE m == n + 1
  <2>1. op' = [op EXCEPT !.pc = "alloc", !.prev = x, !.cluster = 2, !.done = m]
    BY <1>1
  <2> HIDE DEF m
  <2>2. /\ op'.pc = "alloc" /\ op'.slot = s /\ op'.text = op.text
        /\ op'.first = op.first /\ op'.prev = x /\ op'.cluster = 2 /\ op'.done = m
    BY <1>0, <1>1, <2>1 DEF WriteOps
  <2>3. QED
    BY <2>2 DEF m
<1>3. UNCHANGED << fat, dir, expected >>
  BY DEF write_cluster
<1>4. /\ data'[x] = Piece(op.text, n + 1)
      /\ \A c \in Clusters : c # x => data'[c] = data[c]
  BY <1>1 DEF TypesOK, DiskOK
<1>5. /\ s \in Slots /\ op.text.size \in Nat /\ n \in Nat
      /\ o \in [Clusters -> Owners] /\ p \in [Clusters -> Nat] /\ FilesOK(o, p)
      /\ \A c \in Clusters : o[c] \in Slots => dir[o[c]].kind = "file"
      /\ Rewriting /\ Building(o, p) /\ ChainOfNew(o, p) /\ Ends(o, p) /\ Current(o, p)
      /\ \A c \in Clusters : o[c] # s
  BY <1>0, <1>1, BuildFacts
<1>6. Built = n + 1 /\ Built' = n + 1 /\ Tip = END_OF_CHAIN /\ Tip' = END_OF_CHAIN
  BY <1>0, <1>1, <1>2 DEF Built, Tip
<1>7. n < op.text.size /\ o[x] = NEW_CHAIN /\ p[x] = n + 1
      /\ StartsAt(o, p, NEW_CHAIN, op.first)
  BY <1>0, <1>1, <1>5 DEF Current, Ends
<1>8. Labels(o, p)'
  BY <1>3, <1>5 DEF Labels
<1>9. FilesOK(o, p)'
  <2>1. ASSUME NEW t \in Slots, t # s PROVE SameChain(o, p, o, p, t)
    BY <1>3, <1>4, <1>7, FatNumbers DEF SameChain
  <2>2. QED
    BY <1>0, <1>1, <1>2, <1>3, <1>5, <2>1, FilesAlone DEF Rewriting
<1>10. ChainOfNew(o, p)'
  <2>1. ASSUME NEW c \in Clusters, o[c] = NEW_CHAIN
        PROVE  /\ p[c] \in 1 .. n + 1
               /\ p[c] < n + 1 => NextIn(o, p, c)'
               /\ p[c] = n + 1 => fat'[1][c] = END_OF_CHAIN
               /\ data'[c] = Piece(op.text, p[c])
    <3>1. /\ p[c] \in 1 .. n + 1
          /\ p[c] < n + 1 => NextIn(o, p, c)
          /\ p[c] = n + 1 => fat[1][c] = END_OF_CHAIN
          /\ p[c] <= n => data[c] = Piece(op.text, p[c])
      BY <1>0, <1>5, <1>6, <2>1 DEF ChainOfNew
    <3>2. p[c] = n + 1 => c = x
      BY <1>1, <1>5, <1>7, <2>1 DEF ChainOfNew
    <3>3. p[c] # n + 1 => p[c] <= n /\ c # x
      BY <1>5, <1>7, <3>1
    <3>4. QED
      BY <1>3, <1>4, <3>1, <3>2, <3>3 DEF NextIn
  <2>2. QED
    BY <1>2, <1>5, <1>6, <2>1 DEF ChainOfNew
<1>11. Ends(o, p)'
  <2>1. n + 1 # 0
    BY <1>5
  <2>2. QED
    BY <1>1, <1>2, <1>7, <2>1 DEF Ends, StartsAt
<1>12. Current(o, p)'
  <2>1. n + 1 <= op.text.size
    BY <1>5, <1>7
  <2>2. QED
    BY <1>2, <2>1, FatNumbers DEF Current
<1>13. Building(o, p)'
  BY <1>0, <1>2, <1>3, <1>5, <1>10, <1>11, <1>12 DEF Building
<1>14. QED
  BY <1>1, <1>2, <1>8, <1>9, <1>13, LabelledWriting

\* The whole text is on the disk.
LEMMA AllocatedStep ==
  ASSUME TypesOK, NEW o, NEW p, Labelled(o, p), allocated
  PROVE  Labelled(o, p)'
<1>0. PICK s : s = op.slot
  OBVIOUS
<1>1. /\ op \in WriteOps /\ op' \in WriteOps /\ op.pc = "alloc" /\ op.done = op.text.size
      /\ op' = [op EXCEPT !.pc = "dir"] /\ UNCHANGED << fat, dir, data, expected >>
  BY AllocatedTypes DEF allocated, diskVars
<1>2. /\ op'.pc = "dir" /\ op'.slot = s /\ op'.text = op.text
      /\ op'.first = op.first /\ op'.prev = op.prev /\ op'.done = op.done
  BY <1>0, <1>1 DEF WriteOps
<1>3. /\ s \in Slots /\ op.done \in Nat
      /\ o \in [Clusters -> Owners] /\ p \in [Clusters -> Nat] /\ FilesOK(o, p)
      /\ \A c \in Clusters : o[c] \in Slots => dir[o[c]].kind = "file"
      /\ Rewriting /\ Building(o, p) /\ ChainOfNew(o, p) /\ Ends(o, p) /\ Current(o, p)
      /\ \A c \in Clusters : o[c] # s
  BY <1>0, <1>1, BuildFacts
<1>4. Labels(o, p)'
  BY <1>1, <1>3 DEF Labels
<1>5. FilesOK(o, p)'
  BY <1>0, <1>1, <1>2, <1>3, FilesAlone DEF SameChain, Rewriting
<1>6. Built' = Built /\ Tip' = Tip
  BY <1>1, <1>2 DEF Built, Tip
<1>7. ChainOfNew(o, p)'
  BY <1>1, <1>2, <1>3, <1>6 DEF ChainOfNew, NextIn
<1>8. Ends(o, p)' /\ Current(o, p)'
  BY <1>1, <1>2, <1>3 DEF Ends, Current, StartsAt
<1>9. Building(o, p)'
  BY <1>0, <1>1, <1>2, <1>3, <1>7, <1>8 DEF Building
<1>10. QED
  BY <1>1, <1>2, <1>4, <1>5, <1>9, LabelledWriting

\* The entry is updated: the new chain is the file's.
LEMMA UpdateStep ==
  ASSUME TypesOK, NEW o, NEW p, Labelled(o, p), update_entry, ~WriteFails, InOrder
  PROVE  \E q, r : Labelled(q, r)'
<1>0. PICK s, n, text : s = op.slot /\ n = dir[op.slot].name /\ text = op.text
  OBVIOUS
<1>1. /\ op \in WriteOps /\ op' = NoOp /\ op.pc = "dir" /\ UNCHANGED << fat, data >>
      /\ dir' = [dir EXCEPT ![s] = File(n, op.first, text.size)]
      /\ expected' = [expected EXCEPT ![n] = text]
  <2>1. op \in WriteOps /\ op' = NoOp /\ EntryUpdated
    BY UpdateTypes
  <2>2. QED
    BY <1>0, <2>1 DEF update_entry, EntryUpdated
<1>2. /\ s \in Slots /\ op.done \in Nat /\ text.size \in Nat /\ n \in Names
      /\ dir[s].kind = "file" /\ dir[s].name = n
      /\ o \in [Clusters -> Owners] /\ p \in [Clusters -> Nat] /\ FilesOK(o, p)
      /\ \A c \in Clusters : o[c] \in Slots => dir[o[c]].kind = "file"
      /\ Rewriting /\ ChainOfNew(o, p) /\ Ends(o, p) /\ Current(o, p)
      /\ \A c \in Clusters : o[c] # s
  BY <1>0, <1>1, BuildFacts
<1>3. Built = op.done /\ Tip = END_OF_CHAIN /\ op.done = text.size /\ ~Rewriting'
  BY <1>0, <1>1, <1>2, OpsApart DEF Built, Tip, Current, Rewriting
<1>4. /\ dir'[s] = File(n, op.first, text.size)
      /\ \A t \in Slots : t # s => dir'[t] = dir[t]
  BY <1>1, <1>2 DEF TypesOK, DiskOK
<1>5. dir'[s].kind = "file" /\ dir'[s].name = n /\ dir'[s].cluster_lo = op.first
      /\ dir'[s].size = text.size
  BY <1>4 DEF File
<1>6. expected'[n] = text /\ \A m \in Names : m # n => expected'[m] = expected[m]
  BY <1>1, <1>2 DEF TypesOK, DirOK
<1>7. PICK q : q = [c \in Clusters |-> IF o[c] = NEW_CHAIN THEN s ELSE o[c]]
  OBVIOUS
<1>8. /\ q \in [Clusters -> Owners]
      /\ \A c \in Clusters : q[c] = IF o[c] = NEW_CHAIN THEN s ELSE o[c]
  BY <1>2, <1>7, FatNumbers
<1>9. \A c \in Clusters : q[c] # NEW_CHAIN
  BY <1>2, <1>8, FatNumbers
<1>10. Labels(q, p)'
  <2>1. \A c \in Clusters : q[c] \in Slots => dir'[q[c]].kind = "file"
    BY <1>2, <1>4, <1>5, <1>8
  <2>2. QED
    BY <1>2, <1>8, <2>1 DEF Labels
<1>11. ASSUME NEW c \in Clusters, q[c] = s
       PROVE  /\ o[c] = NEW_CHAIN /\ data[c] = Piece(text, p[c])
              /\ fat[1][c] = END_OF_CHAIN \/ NextIn(o, p, c)
              /\ p[c] < text.size => NextIn(o, p, c)
  <2>1. o[c] = NEW_CHAIN
    BY <1>2, <1>8, <1>11, FatNumbers
  <2>2. /\ p[c] \in 1 .. op.done
        /\ p[c] < op.done => NextIn(o, p, c)
        /\ p[c] = op.done => fat[1][c] = END_OF_CHAIN
        /\ p[c] <= op.done => data[c] = Piece(text, p[c])
    BY <1>0, <1>2, <1>3, <2>1 DEF ChainOfNew
  <2>3. p[c] <= op.done /\ (p[c] < op.done \/ p[c] = op.done)
    BY <1>2, <2>2
  <2>4. QED
    BY <1>3, <2>1, <2>2, <2>3
<1>12. ASSUME NEW c \in Clusters, q[c] = s, NextIn(o, p, c) PROVE NextIn(q, p, c)'
  BY <1>1, <1>8, <1>11, <1>12 DEF NextIn
<1>13. FileOK(q, p, s)'
  <2>1. Linked(q, p, s)'
    BY <1>1, <1>11, <1>12 DEF Linked
  <2>2. IF op.done = 0 THEN op.first = 0 ELSE StartsAt(o, p, NEW_CHAIN, op.first)
    BY <1>1, <1>2 DEF Ends
  <2>3. op.first = 0 \/ StartsAt(q, p, s, op.first)
    BY <1>8, <2>2 DEF StartsAt
  <2>4. op.first = 0 => text.size = 0
    BY <1>3, <2>2, FatNumbers DEF StartsAt, FREE
  <2>5. ASSUME NEW c \in Clusters, q[c] = s, p[c] < text.size PROVE fat'[1][c] # END_OF_CHAIN
    BY <1>1, <1>11, <2>5, FatNumbers DEF NextIn
  <2>6. Holds(q, p, s, text)'
    BY <1>1, <1>5, <1>11, <2>4, <2>5 DEF Holds
  <2>7. QED
    BY <1>5, <1>6, <2>1, <2>3, <2>6 DEF FileOK, StartsAt
<1>14. FilesOK(q, p)'
  <2>1. ASSUME NEW t \in Slots, t # s PROVE SameChain(o, p, q, p, t) /\ dir'[t] = dir[t]
    BY <1>1, <1>4, <1>8, <2>1, FatNumbers DEF SameChain
  <2>2. ASSUME NEW t \in Slots, t # s, dir[t].kind = "file", First(t)'
        PROVE  First(t) /\ expected'[dir[t].name] \in {Unknown, expected[dir[t].name]}
    <3>1. dir[t] \in Files
      BY <2>2 DEF TypesOK, DiskOK, DirEntries, Other
    <3>2. dir[t].name \in Names /\ dir'[t] = dir[t]
      BY <2>1, <2>2, <3>1 DEF Files
    <3>3. First(t)
      <4>1. \A u \in Slots : IsFile(u, dir[t].name)' <=> IsFile(u, dir[t].name)
        BY <3>2, UpdateTypes
      <4>2. QED
        BY <2>2, <3>2, <4>1 DEF First
    <3>4. First(s) /\ IsFile(s, n)
      BY <1>0, <1>1, <1>2, OpsApart DEF InOrder, IsFile
    <3>5. s < t \/ t < s
      BY <1>2, <2>2, FatNumbers
    <3>6. dir[t].name # n
      BY <1>2, <2>2, <3>3, <3>4, <3>5 DEF First, IsFile
    <3>7. QED
      BY <1>6, <3>2, <3>3, <3>6
  <2>3. QED
    BY <1>0, <1>2, <1>13, <2>1, <2>2, FilesKept
<1>15. Labelled(q, p)'
  BY <1>1, <1>9, <1>10, <1>14, LabelledIdle
<1>16. QED
  BY <1>15

\* A new file is empty, or an entry behind the one that a search for its name finds.
LEMMA CreateStep ==
  ASSUME TypesOK, DriveOK, failures = 0, failures' = 0, Orderly, NEW o, NEW p, Labelled(o, p), NEW n \in Names, fat16_create_file(n)
  PROVE  Labelled(o, p)'
<1>0. PICK m \in Names : m = name_to_83[n]
  BY Fat16Assumption
<1>1. op = NoOp /\ op' = NoOp /\ Created(m) /\ UNCHANGED << fat, data >> /\ Sorted
  BY <1>0, NothingFails DEF fat16_create_file, Orderly, InOrder
<1>2. PICK s \in Slots :
        /\ dir[s].kind = "end" /\ \A t \in Slots : t < s => dir[t].kind # "end"
        /\ dir'[s] = File(m, 0, 0) /\ \A t \in Slots : t # s => dir'[t] = dir[t]
  BY <1>1, CreatedFacts
<1>3. op \notin WriteOps /\ ~Rewriting /\ ~Rewriting'
  BY <1>1, OpsApart DEF Rewriting
<1>4. /\ o \in [Clusters -> Owners] /\ p \in [Clusters -> Nat] /\ FilesOK(o, p)
      /\ \A c \in Clusters : o[c] \in Slots => dir[o[c]].kind = "file"
      /\ \A c \in Clusters : o[c] # NEW_CHAIN
  BY <1>3, LabelFacts
<1>5. \A c \in Clusters : o[c] # s
  BY <1>2, <1>4
<1>7. dir'[s].kind = "file" /\ dir'[s].name = m /\ dir'[s].cluster_lo = 0 /\ dir'[s].size = 0
  BY <1>2 DEF File
<1>8. /\ Found(m) => expected' = expected
      /\ ~Found(m) => expected'[m] = Empty /\ \A k \in Names : k # m => expected'[k] = expected[k]
  BY <1>1 DEF Created, TypesOK, DirOK
<1>9. Labels(o, p)'
  BY <1>2, <1>4, <1>5 DEF Labels
<1>10. FileOK(o, p, s)'
  <2>1. Linked(o, p, s)'
    BY <1>5 DEF Linked
  <2>2. Holds(o, p, s, Empty)'
    BY <1>5, <1>7 DEF Holds, Empty, NoText
  <2>3. First(s)' => ~Found(m)
    <3> SUFFICES ASSUME Found(m) PROVE ~First(s)'
      OBVIOUS
    <3>1. PICK t \in Slots : IsFile(t, m) /\ t \in Visible
      BY DirSearch
    <3>2. t < s
      <4>1. s \notin 1 .. t
        BY <1>2, <3>1 DEF Visible
      <4>2. QED
        BY <4>1 DEF Slots
    <3>3. IsFile(t, m)'
      BY <1>2, <3>1 DEF IsFile
    <3>4. QED
      BY <1>7, <3>2, <3>3 DEF First
  <2>4. First(s)' => expected'[dir'[s].name] = Empty
    BY <1>7, <1>8, <2>3
  <2>5. QED
    BY <1>7, <2>1, <2>2, <2>4 DEF FileOK, Holds, Empty
<1>11. FilesOK(o, p)'
  <2>1. ASSUME NEW t \in Slots, t # s PROVE SameChain(o, p, o, p, t) /\ dir'[t] = dir[t]
    BY <1>1, <1>2, <2>1 DEF SameChain
  <2>2. ASSUME NEW t \in Slots, t # s, dir[t].kind = "file", First(t)'
        PROVE  First(t) /\ expected'[dir[t].name] \in {Unknown, expected[dir[t].name]}
    <3>1. dir[t] \in Files
      BY <2>2 DEF TypesOK, DiskOK, DirEntries, Other
    <3>2. dir[t].name \in Names /\ dir'[t] = dir[t]
      BY <2>1, <2>2, <3>1 DEF Files
    <3>3. First(t)
      <4>1. PICK k : k = dir[t].name
        OBVIOUS
      <4>2. \A u \in Slots : IsFile(u, k) => IsFile(u, k)'
        BY <1>2 DEF IsFile
      <4>3. QED
        BY <2>2, <3>2, <4>1, <4>2 DEF First
    <3>4. CASE Found(m)
      BY <1>8, <3>3, <3>4
    <3>5. CASE ~Found(m)
      <4>1. dir[t].name # m
        BY <1>1, <2>2, <3>5, DirSearch DEF IsFile
      <4>2. QED
        BY <1>8, <3>2, <3>3, <3>5, <4>1
    <3>6. QED
      BY <3>4, <3>5
  <2>3. QED
    BY <1>3, <1>4, <1>10, <2>1, <2>2, FilesKept
<1>12. QED
  BY <1>1, <1>4, <1>9, <1>11, LabelledIdle

\* Steps between operations that leave the disk alone.
LEMMA IdleStep ==
  ASSUME NEW o, NEW p, Labelled(o, p), op = NoOp, op' = NoOp,
         UNCHANGED << fat, dir, data, expected >>
  PROVE  Labelled(o, p)'
<1>1. op \notin WriteOps /\ ~Rewriting /\ ~Rewriting'
  BY OpsApart DEF Rewriting
<1>2. /\ FilesOK(o, p) /\ \A c \in Clusters : o[c] # NEW_CHAIN
  BY <1>1, LabelFacts
<1>3. FilesOK(o, p)'
  <2>1. \A t \in Slots : SameChain(o, p, o, p, t)
    BY DEF SameChain
  <2>2. QED
    BY <1>1, <1>2, <2>1, FilesAlone, FatNumbers
<1>4. Labels(o, p)'
  BY DEF Labelled, Labels
<1>5. QED
  BY <1>2, <1>3, <1>4, LabelledIdle

\* An empty disk has no chains.
LEMMA NoChains ==
  ASSUME NEW q, NEW r, q = [c \in Clusters |-> NOBODY], r = [c \in Clusters |-> 0], op' = NoOp,
         \A s \in Slots : dir'[s].kind # "file"
  PROVE  Labelled(q, r)'
<1>1. \A c \in Clusters : q[c] \notin Slots /\ q[c] # NEW_CHAIN
  BY FatNumbers
<1>2. Labels(q, r)'
  BY <1>1, FatNumbers DEF Labels
<1>3. FilesOK(q, r)'
  BY DEF FilesOK
<1>4. QED
  BY <1>1, <1>2, <1>3, LabelledIdle

\* A formatted disk has no file, and all its clusters are nobody's.
LEMMA FormatStep ==
  ASSUME TypesOK, DriveOK, failures = 0, failures' = 0, cmd_format
  PROVE  \E q, r : Labelled(q, r)'
<1>1. op' = NoOp /\ \A s \in Slots : dir'[s].kind # "file"
  BY FormatDone
<1>2. PICK q, r : q = [c \in Clusters |-> NOBODY] /\ r = [c \in Clusters |-> 0]
  OBVIOUS
<1>3. QED
  BY <1>1, <1>2, NoChains

\* While a file is read, the labels stay; what remains is to say how far it has come.
LEMMA ReaderStep ==
  ASSUME NEW o, NEW p, Labelled(o, p), op \notin WriteOps, op' \in ReadOps,
         UNCHANGED << fat, dir, data, expected >>, ReadingOK(o, p)'
  PROVE  Labelled(o, p)'
<1>1. ~Rewriting /\ ~Rewriting' /\ op' \notin WriteOps
  BY OpsApart DEF Rewriting
<1>2. /\ FilesOK(o, p) /\ \A c \in Clusters : o[c] # NEW_CHAIN
  BY <1>1, LabelFacts
<1>3. FilesOK(o, p)'
  <2>1. \A t \in Slots : SameChain(o, p, o, p, t)
    BY DEF SameChain
  <2>2. QED
    BY <1>1, <1>2, <2>1, FilesAlone, FatNumbers
<1>4. Labels(o, p)'
  BY DEF Labelled, Labels
<1>5. QED
  BY <1>1, <1>2, <1>3, <1>4 DEF Labelled, WritingOK, IdleOK

\* The first cluster of the file holds its first piece.
LEMMA ReadBeginStep ==
  ASSUME TypesOK, InOrder, NEW o, NEW p, Labelled(o, p), NEW n \in Names, read_begin(n)
  PROVE  Labelled(o, p)'
<1>0. PICK s : s = SlotOf(n)
  OBVIOUS
<1>1. /\ s \in Slots /\ dir[s].kind = "file" /\ dir[s].name = n
      /\ op' \in ReadOps /\ op'.slot = s /\ op'.cluster = dir[s].cluster_lo
      /\ op'.remaining = dir[s].size /\ op'.result = << >>
  BY <1>0, ReadBeginTypes DEF IsFile
<1>2. op = NoOp /\ UNCHANGED << fat, dir, data, expected >>
  BY DEF read_begin, diskVars
<1>3. op \notin WriteOps /\ ~Rewriting
  BY <1>2, OpsApart DEF Rewriting
<1>4. FileOK(o, p, s) /\ First(s)
  BY <1>0, <1>1, <1>3, LabelFacts, DirSearch DEF FilesOK, InOrder, read_begin
<1>5. ReadingOK(o, p)'
  <2> SUFFICES ASSUME expected[n] # Unknown
               PROVE  /\ Len(op'.result) + op'.remaining = expected[n].size
                      /\ \A k \in 1 .. Len(op'.result) : op'.result[k] = Piece(expected[n], k)
                      /\ op'.remaining > 0 =>
                           op'.cluster \in Clusters /\ o[op'.cluster] = s
                           /\ p[op'.cluster] = Len(op'.result) + 1
    BY <1>1, <1>2 DEF ReadingOK
  <2>1. Holds(o, p, s, expected[n]) /\ expected[n].size \in Nat
    BY <1>1, <1>4, TextSize DEF FileOK, TypesOK, DirOK
  <2>2. dir[s].size = expected[n].size /\ (dir[s].cluster_lo = 0 => expected[n].size = 0)
    BY <2>1 DEF Holds
  <2>3. Len(op'.result) = 0
    BY <1>1
  <2>4. op'.remaining > 0 => op'.cluster \in Clusters /\ o[op'.cluster] = s /\ p[op'.cluster] = 1
    BY <1>1, <1>4, <2>1, <2>2 DEF FileOK, StartsAt
  <2>5. QED
    BY <1>1, <2>1, <2>2, <2>3, <2>4
<1>6. QED
  BY <1>1, <1>2, <1>3, <1>5, ReaderStep

\* The cluster behind the one that was read holds the piece after it.
LEMMA ReadClusterStep ==
  ASSUME TypesOK, DriveOK, failures = 0, failures' = 0, Orderly, NEW o, NEW p, Labelled(o, p), read_cluster
  PROVE  Labelled(o, p)'
<1>0. PICK s, x, k, res : s = op.slot /\ x = op.cluster /\ k = Len(op.result) /\ res = op.result
  OBVIOUS
<1>a. PICK v \in FatValues :
        /\ op \in ReadOps /\ op' \in ReadOps /\ x \in Clusters \cup {BAD_CLUSTER}
        /\ fat_read_entry(x, v)
        /\ op'.slot = s /\ op'.cluster = v
        /\ op.remaining > 0 /\ op'.remaining = op.remaining - 1
        /\ op'.result = Append(res, DataAt(x))
  BY <1>0, ReadTypes
<1>b. x \in Clusters /\ x # BAD_CLUSTER
  BY <1>0, <1>a, FatNumbers DEF Orderly, InTheFat, read_cluster
<1>1. /\ op \in ReadOps /\ op' \in ReadOps /\ x \in Clusters /\ op'.slot = s
      /\ op'.cluster = v /\ op.remaining > 0
      /\ op'.remaining = op.remaining - 1 /\ op'.result = Append(res, data[x])
  BY <1>a, <1>b DEF DataAt
<1>2. UNCHANGED << fat, dir, data, expected >> /\ op'.cluster = fat[1][x] /\ op \notin WriteOps
      /\ ~Rewriting
  BY <1>1, <1>a, ReadCoherent, OpsApart DEF read_cluster, diskVars, Rewriting, Orderly
<1>3. s \in Slots /\ res \in Seq(Contents) /\ op.remaining \in Nat /\ k \in Nat
      /\ k = Len(res) /\ data[x] \in Contents
  BY <1>0, <1>1, FatNumbers DEF ReadOps, TypesOK, DiskOK
<1>4. dir[s].kind = "file" /\ FileOK(o, p, s) /\ First(s)
  BY <1>0, <1>1, <1>2, <1>3, LabelFacts, OpFile, OpsApart DEF FilesOK, Orderly, InOrder
<1>5. PICK text : text = expected[dir[s].name]
  OBVIOUS
<1>6. ASSUME text # Unknown
      PROVE  /\ Len(op'.result) + op'.remaining = text.size
             /\ \A j \in 1 .. Len(op'.result) : op'.result[j] = Piece(text, j)
             /\ op'.remaining > 0 =>
                  op'.cluster \in Clusters /\ o[op'.cluster] = s
                  /\ p[op'.cluster] = Len(op'.result) + 1
  <2>1. /\ k + op.remaining = text.size
        /\ \A j \in 1 .. k : res[j] = Piece(text, j)
        /\ o[x] = s /\ p[x] = k + 1
    BY <1>0, <1>1, <1>5, <1>6 DEF Labelled, ReadingOK
  <2>2. data[x] = Piece(text, k + 1) /\ (k + 1 < text.size => fat[1][x] # END_OF_CHAIN)
        /\ (fat[1][x] = END_OF_CHAIN \/ NextIn(o, p, x))
    BY <1>1, <1>4, <1>5, <1>6, <2>1 DEF FileOK, Holds, Linked
  <2>3. Len(op'.result) = k + 1 /\ \A j \in 1 .. k + 1 :
          op'.result[j] = IF j = k + 1 THEN data[x] ELSE res[j]
    BY <1>1, <1>3, AppendProperties
  <2>4. \A j \in 1 .. k + 1 : j # k + 1 => j \in 1 .. k
    BY <1>3
  <2>5. \A j \in 1 .. k + 1 : op'.result[j] = Piece(text, j)
    BY <2>1, <2>2, <2>3, <2>4
  <2> DEFINE left == op.remaining - 1
  <2>a. op'.remaining = left
    BY <1>1
  <2>b. left \in Int /\ (k + 1) + left = text.size /\ (left > 0 => k + 1 < text.size)
    BY <1>3, <2>1
  <2> HIDE DEF left
  <2>6. op'.remaining > 0 => k + 1 < text.size
    BY <2>a, <2>b
  <2>7. (k + 1) + op'.remaining = text.size
    BY <2>a, <2>b
  <2>8. op'.remaining > 0 => op'.cluster \in Clusters /\ o[op'.cluster] = s /\ p[op'.cluster] = (k + 1) + 1
    BY <1>2, <2>1, <2>2, <2>6 DEF NextIn
  <2>9. QED
    BY <2>3, <2>5, <2>7, <2>8
<1>7. ReadingOK(o, p)'
  BY <1>1, <1>2, <1>5, <1>6 DEF ReadingOK
<1>8. QED
  BY <1>1, <1>2, <1>7, ReaderStep

\* The end of a read leaves the chains alone.
LEMMA ReadEndStep ==
  ASSUME TypesOK, NEW o, NEW p, Labelled(o, p), read_end
  PROVE  Labelled(o, p)'
<1>1. op \in ReadOps /\ op' = NoOp /\ UNCHANGED << fat, dir, data, expected >>
  BY OpKind DEF read_end, TypesOK, diskVars, OpEnds
<1>2. op \notin WriteOps /\ ~Rewriting /\ ~Rewriting'
  BY <1>1, OpsApart DEF Rewriting
<1>3. /\ FilesOK(o, p) /\ \A c \in Clusters : o[c] # NEW_CHAIN
  BY <1>2, LabelFacts
<1>4. FilesOK(o, p)'
  BY <1>1, <1>2, <1>3, FilesAlone, FatNumbers DEF SameChain
<1>5. Labels(o, p)'
  BY <1>1 DEF Labelled, Labels
<1>6. QED
  BY <1>1, <1>3, <1>4, <1>5, LabelledIdle

\* Every step keeps the chains.
LEMMA ChainsStep ==
  ASSUME TypesOK, DriveOK, failures = 0, failures' = 0, Orderly, NEW o, NEW p, Labelled(o, p), [FatNext]_fatVars
  PROVE  \E q, r : Labelled(q, r)'
<1>0. ~FailsOnce /\ ~ReadFails /\ ~WriteFails /\ ~drive_breaks /\ InOrder
  BY NothingFails DEF Orderly
<1>1. CASE UNCHANGED fatVars
  <2>1. Labelled(o, p)'
    BY <1>1 DEF fatVars, Labelled, Labels, FilesOK, FileOK, First, IsFile, StartsAt, Linked, NextIn, Holds,
       Rewriting, WritingOK, Freeing, Building, ChainOfNew, Built, Tip, Ends, Current, IdleOK, ReadingOK
  <2>2. QED
    BY <2>1
<1>2. CASE cmd_format
  BY <1>2, FormatStep
<1>3. CASE fat16_mount
  <2>1. Labelled(o, p)'
    BY <1>3, IdleStep DEF fat16_mount, diskVars
  <2>2. QED
    BY <2>1
<1>4. CASE restart
  <2>1. op = NoOp
    BY <1>0, <1>4 DEF restart
  <2>2. Labelled(o, p)'
    BY <1>4, <2>1, IdleStep DEF restart, diskVars
  <2>3. QED
    BY <2>2
<1>5. CASE \E n \in Names : fat16_create_file(n)
  <2>1. Labelled(o, p)'
    BY <1>5, CreateStep
  <2>2. QED
    BY <2>1
<1>6. CASE \E n \in Names : \E text \in TextsOf(n) : write_begin(n, text)
  <2>1. Labelled(o, p)'
    BY <1>6, WriteBeginStep
  <2>2. QED
    BY <2>1
<1>7. CASE clear_cluster \/ freed \/ mark_cluster \/ disk_full
  BY <1>7, ClearStep, FreedStep, MarkStep, FullStep
<1>8. CASE free_cluster \/ scan_cluster \/ link_cluster \/ allocated
  <2>1. Labelled(o, p)'
    BY <1>8, FreeStep, ScanStep, LinkStep, AllocatedStep
  <2>2. QED
    BY <2>1
<1>9. CASE write_cluster
  <2>1. Labelled(o, p)'
    BY <1>0, <1>9, DataStep
  <2>2. QED
    BY <2>1
<1>10. CASE update_entry
  BY <1>0, <1>10, UpdateStep
<1>11. CASE fat16_read_file
  <2>1. Labelled(o, p)'
    BY <1>0, <1>11, ReadBeginStep, ReadClusterStep, ReadEndStep DEF fat16_read_file, read_fails
  <2>2. QED
    BY <2>1
<1>12. QED
  BY <1>0, <1>1, <1>2, <1>3, <1>4, <1>5, <1>6, <1>7, <1>8, <1>9, <1>10, <1>11
  DEF FatNext, fat16_write_file

\* The blank disk has no file to be labelled.
LEMMA FatInvStart == FatInit => FatInv
<1> SUFFICES ASSUME FatInit PROVE FatInv
  OBVIOUS
<1>1. TypesOK /\ DriveOK /\ Orderly
  BY OrderlyStart DEF OrderlyInv, FatInit
<1>2. PICK q, r : q = [c \in Clusters |-> NOBODY] /\ r = [c \in Clusters |-> 0]
  OBVIOUS
<1>3. \A s \in Slots : dir[s].kind # "file"
  BY DEF FatInit, Other
<1>4. \A c \in Clusters : q[c] \notin Slots /\ q[c] # NEW_CHAIN
  BY <1>2, FatNumbers
<1>5. op \notin WriteOps /\ op \notin ReadOps
  BY OpsApart DEF FatInit
<1>6. Labels(q, r) /\ FilesOK(q, r)
  BY <1>2, <1>3, <1>4, FatNumbers DEF Labels, FilesOK
<1>7. Labelled(q, r)
  BY <1>4, <1>5, <1>6 DEF Labelled, WritingOK, IdleOK, ReadingOK, Rewriting
<1>8. QED
  BY <1>1, <1>7 DEF FatInv, TypesOK

\* Every step keeps the invariant, after a failing one only the types are claimed.
LEMMA FatInvStep == ASSUME FatInv, [FatNext]_fatVars PROVE FatInv'
<1>1. TypesOK /\ DriveOK /\ (failures = 0 => Orderly)
  BY DEF FatInv, TypesOK
<1>2. TypesOK' /\ DriveOK'
  BY <1>1, TypesStep, DriveTypes
<1>3. ASSUME failures' = 0 PROVE Orderly' /\ (\E q, r : Labelled(q, r)')
  <2>1. failures = 0 /\ Orderly'
    BY <1>1, <1>3, DriveTypes, OrderlyStep
  <2>2. PICK o, p : Labelled(o, p)
    BY <2>1 DEF FatInv
  <2>3. QED
    BY <1>1, <1>3, <2>1, <2>2, ChainsStep
<1>4. QED
  BY <1>2, <1>3 DEF FatInv, TypesOK

\* FilesIntact, for disks, directories and texts of every size: a file is found under its
\* name, and as long as nothing fails it reads back as it was last written, whatever was
\* written to other files since and however often the disk was full.
THEOREM FilesIntactCorrect == FatSpec => []FilesIntact
<1>1. FatInv => FilesIntact
  <2> SUFFICES ASSUME FatInv PROVE FilesIntact
    OBVIOUS
  <2>1. TypesOK
    BY DEF FatInv, TypesOK
  <2>2. FilesAreFound
    BY <2>1 DEF FilesAreFound, TypesOK, DirOK
  <2>3. FilesReadBack
    <3> SUFFICES ASSUME failures = 0, op.pc = "read", ~MoreToRead,
                        expected[dir[op.slot].name] # Unknown
                 PROVE  op.result = Pieces(expected[dir[op.slot].name])
      BY DEF FilesReadBack
    <3> DEFINE text == expected[dir[op.slot].name]
               n == Len(op.result)
    <3>1. PICK o, p : Labelled(o, p)
      BY DEF FatInv
    <3>2. op \in ReadOps
      BY <2>1, OpKind DEF TypesOK
    <3>3. /\ n + op.remaining = text.size
          /\ \A k \in 1 .. n : op.result[k] = Piece(text, k)
          /\ op.remaining > 0 => op.cluster \in Clusters
      BY <3>1, <3>2 DEF Labelled, ReadingOK
    <3>4. op.result \in Seq(Contents) /\ op.remaining \in 0 .. MaxSize /\ op.cluster \in FatValues
      BY <3>2 DEF ReadOps
    <3>5. ~(op.remaining > 0)
      BY <3>3, <3>4, FatNumbers DEF MoreToRead
    <3>6. n \in Nat /\ op.result = [k \in 1 .. n |-> op.result[k]]
      BY <3>4
    <3>7. n = text.size
      BY <3>3, <3>4, <3>5, <3>6, FatNumbers
    <3>8. QED
      BY <3>3, <3>6, <3>7 DEF Pieces
  <2>4. QED
    BY <2>2, <2>3 DEF FilesIntact
<1>2. QED
  BY <1>1, FatInvStart, FatInvStep, PTL DEF FatSpec

\* ChainsApart, for disks and directories of every size: as long as nothing fails, no two
\* entries share a cluster, and no cluster of a file is free to be given away.
THEOREM ChainsApartCorrect == FatSpec => []ChainsApart
<1>1. FatInv => ChainsApart
  <2> SUFFICES ASSUME FatInv, failures = 0
               PROVE  \E owner \in [Clusters -> Slots \cup {0}] :
                        /\ \A s \in Slots :
                            (dir[s].kind = "file" /\ dir[s].cluster_lo # 0 /\ ~(op # NoOp /\ op.slot = s)) =>
                                owner[dir[s].cluster_lo] = s
                        /\ \A c \in Clusters : owner[c] # 0 =>
                                /\ fat[1][c] # FREE
                                /\ fat[1][c] \in Clusters => owner[fat[1][c]] = owner[c]
    BY DEF ChainsApart
  <2>1. PICK o, p : Labelled(o, p)
    BY DEF FatInv
  <2>2. o \in [Clusters -> Owners] /\ FilesOK(o, p)
        /\ \A c \in Clusters : o[c] \in Slots => dir[o[c]].kind = "file"
    BY <2>1, LabelFacts
  <2> DEFINE Kept(s) == s \in Slots /\ ~(Rewriting /\ s = op.slot)
             own == [c \in Clusters |-> IF Kept(o[c]) THEN o[c] ELSE 0]
  <2>3. own \in [Clusters -> Slots \cup {0}]
    OBVIOUS
  <2>4. \A c \in Clusters : own[c] = IF Kept(o[c]) THEN o[c] ELSE 0
    OBVIOUS
  <2>5. \A s \in Slots : s # 0
    BY FatNumbers DEF NOBODY
  <2>6. Rewriting => op # NoOp
    BY OpsApart DEF Rewriting
  <2> HIDE DEF own
  <2>7. ASSUME NEW s \in Slots, dir[s].kind = "file", dir[s].cluster_lo # 0, ~(op # NoOp /\ op.slot = s)
        PROVE  own[dir[s].cluster_lo] = s
    <3>1. Kept(s)
      BY <2>6, <2>7
    <3>2. StartsAt(o, p, s, dir[s].cluster_lo)
      BY <2>2, <2>7, <3>1 DEF FilesOK, FileOK
    <3>3. QED
      BY <2>4, <3>1, <3>2 DEF StartsAt
  <2>8. ASSUME NEW c \in Clusters, own[c] # 0
        PROVE  fat[1][c] # FREE /\ (fat[1][c] \in Clusters => own[fat[1][c]] = own[c])
    <3>1. Kept(o[c]) /\ own[c] = o[c]
      BY <2>4, <2>8
    <3>2. FileOK(o, p, o[c])
      BY <2>2, <3>1 DEF FilesOK
    <3>3. fat[1][c] = END_OF_CHAIN \/ NextIn(o, p, c)
      BY <3>2 DEF FileOK, Linked
    <3>4. QED
      BY <2>4, <3>1, <3>3, FatNumbers DEF NextIn
  <2>9. QED
    BY <2>3, <2>7, <2>8
<1>2. QED
  BY <1>1, FatInvStart, FatInvStep, PTL DEF FatSpec
=============================================================================
