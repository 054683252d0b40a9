----------------------------- MODULE E1000Probe -----------------------------
(***************************************************************************)
(* The initialisation of the E1000 driver, e1000_init to e1000_tx_init:    *)
(* the register window is mapped, then the pages of the receive ring, of   *)
(* its array of buffer pointers and of its buffers are taken one by one    *)
(* and the card is told to receive, then the same for transmission.  An    *)
(* error anywhere ends the probe; nothing is undone.  A block is reached   *)
(* by the card at its address modulo DMA_WIDTH where the driver hands it   *)
(* only 32 bits of the address.                                            *)
(***************************************************************************)
EXTENDS VirtMem, SequencesExt

CONSTANTS NUM_RX_DESC, NUM_TX_DESC, BAR0, WINDOW, DMA_WIDTH

ASSUME ProbeAssumption ==
  /\ NUM_RX_DESC \in Nat \ {0} /\ NUM_TX_DESC \in Nat \ {0}
  /\ BAR0 \in Pages /\ WINDOW \in Nat \ {0} /\ BAR0 + PageCount(WINDOW) <= PAGES
  /\ DMA_WIDTH \in Nat \ {0}

VARIABLES
  probe,               \* how far the initialisation is
  mmio_base,
  rx_pages, tx_pages,  \* the ring, the array of pointers, the buffers, as far as taken
  rx_dma,              \* blocks the card writes frames to and reads descriptors from
  e1000_initialized

probevars == <<probe, mmio_base, rx_pages, tx_pages, rx_dma, e1000_initialized>>

ProbeInit ==
  /\ probe = "not started" /\ mmio_base = NULL
  /\ rx_pages = <<>> /\ tx_pages = <<>> /\ rx_dma = {} /\ e1000_initialized = FALSE

Failed == probe' = "failed" /\ kernel' = "idle"

\* No card, or one whose BAR0 is an I/O range or zero.
e1000_init_no_card ==
  /\ kernel = "idle" /\ probe = "not started" /\ ~machine.card
  /\ Failed
  /\ UNCHANGED <<pagevars, others, machine, threadvars, vmvars, mmio_base, rx_pages, tx_pages,
                 rx_dma, e1000_initialized>>

e1000_init ==
  /\ kernel = "idle" /\ probe = "not started" /\ machine.card
  /\ vmm_map_mmio(BAR0, WINDOW, "probe")
  /\ probe' = "map"
  /\ UNCHANGED <<pagevars, others, machine, threadvars, mmio_base, rx_pages, tx_pages, rx_dma,
                 e1000_initialized>>

\* The window could not be mapped, or the status register reads as all ones.
probe_no_registers ==
  /\ kernel = "probe" /\ probe = "map"
  /\ mmio_base' = NULL
  /\ Failed
  /\ UNCHANGED <<pagevars, others, machine, threadvars, vmvars, rx_pages, tx_pages, rx_dma,
                 e1000_initialized>>

probe_registers ==
  /\ kernel = "probe" /\ probe = "map" /\ mapped # NULL
  /\ mmio_base' = mapped
  /\ probe' = "rx"
  /\ UNCHANGED <<kernel, pagevars, others, machine, threadvars, vmvars, rx_pages, tx_pages, rx_dma,
                 e1000_initialized>>

\* What the card is given: the 32-bit address of the ring, the addresses of the buffers.
RxRegisters(pages) == {pages[1] % DMA_WIDTH} \cup ToSet(SubSeq(pages, 3, Len(pages)))

e1000_rx_init ==
  /\ kernel = "probe" /\ probe = "rx"
  /\ \E b \in Blocks : TakePages(b, 1) /\ rx_pages' = Append(rx_pages, b)
  /\ IF Len(rx_pages') = 2 + NUM_RX_DESC
     THEN rx_dma' = RxRegisters(rx_pages') /\ probe' = "tx"
     ELSE UNCHANGED <<rx_dma, probe>>
  /\ UNCHANGED <<kernel, machine, threadvars, vmvars, mmio_base, tx_pages, e1000_initialized>>

\* The last page of the transmit ring: the registers are set and the link is up.
e1000_tx_init ==
  /\ kernel = "probe" /\ probe = "tx"
  /\ \E b \in Blocks : TakePages(b, 1) /\ tx_pages' = Append(tx_pages, b)
  /\ IF Len(tx_pages') = 2 + NUM_TX_DESC
     THEN e1000_initialized' = TRUE /\ probe' = "up" /\ kernel' = "idle"
     ELSE UNCHANGED <<e1000_initialized, probe, kernel>>
  /\ UNCHANGED <<machine, threadvars, vmvars, mmio_base, rx_pages, rx_dma>>

\* Fault: the last page taken is given back when the probe fails, while the card
\* goes on receiving.
probe_no_page_cleans_up ==
  /\ kernel = "probe" /\ probe \in {"rx", "tx"} /\ NoPages(1)
  /\ Failed
  /\ IF rx_pages = <<>> THEN UNCHANGED <<pagevars, others>>
     ELSE \E r \in others : /\ r.start = Last(rx_pages)
                            /\ Release(r, 1)
                            /\ others' = others \ {r}
  /\ UNCHANGED <<machine, threadvars, vmvars, mmio_base, rx_pages, tx_pages, rx_dma,
                 e1000_initialized>>

\* Out of pages in either ring: the pages taken so far stay taken, and the card goes
\* on receiving if it was told to.
probe_no_page ==
  /\ kernel = "probe" /\ probe \in {"rx", "tx"} /\ NoPages(1)
  /\ Failed
  /\ UNCHANGED <<pagevars, others, machine, threadvars, vmvars, mmio_base, rx_pages, tx_pages,
                 rx_dma, e1000_initialized>>

ProbeSteps ==
  \/ e1000_init_no_card \/ e1000_init
  \/ probe_no_registers \/ probe_registers
  \/ e1000_rx_init \/ e1000_tx_init \/ probe_no_page

CardBlocks == ToSet(rx_pages) \cup ToSet(tx_pages)

\* e1000_rx_init: "High 32 bits (assuming < 4GB)".  The card reads descriptors and
\* writes frames only in the pages of its ring.
CardUsesItsPages == rx_dma \subseteq CardBlocks
=============================================================================
