------------------------------ MODULE PhysMem ------------------------------
(***************************************************************************)
(* The physical memory manager: the bitmap allocator of bitmap_mem.c under *)
(* the interface of pmm.c.  The bitmap is the set `used' of blocks whose   *)
(* bit is set; memory sizes are counted in blocks.  The search for free    *)
(* blocks is modelled iteration by iteration, everything else of a call is *)
(* one step.  Interrupt handlers do not allocate and threads switch only   *)
(* when they yield, so no two calls overlap.  Callers free what they were  *)
(* given, all of it or its first pages; `live' records what they hold.     *)
(***************************************************************************)
EXTENDS PageAllocator

CONSTANT Regions      \* block ranges physical_memory_init may have to reserve

ASSUME RegionsAssumption == Regions \subseteq [first : Nat, last : Nat]

VARIABLES
  free_blocks, used_memory,
  mode,               \* "boot" and "idle" between calls; "reserve" and "scan" in loops
  caller,             \* who called bitmap_alloc_blocks
  want,               \* its argument count
  i, start_block, contiguous_count,
  block, end_block,   \* the loop of physical_reserve_region
  reserved            \* blocks whose reservation was reported as done

scanvars == <<want, i, start_block, contiguous_count>>

vars == <<used, live, booting, free_blocks, used_memory, mode, caller, want, i,
          start_block, contiguous_count, block, end_block, reserved>>

Init ==
  /\ AllocatorInit
  /\ free_blocks = TotalBlocks
  /\ used_memory = 0
  /\ mode = "boot" /\ caller = "client"
  /\ want = 0 /\ i = 0 /\ start_block = 0 /\ contiguous_count = 0
  /\ block = 0 /\ end_block = 0 /\ reserved = {}

-----------------------------------------------------------------------------
(* bitmap_alloc_block and bitmap_alloc_blocks.  The search for one block is *)
(* the search for a run of length one.                                      *)

\* Fault: the search starts at block 1.
StartScan_at_one(n) == want' = n /\ i' = 1 /\ start_block' = 0 /\ contiguous_count' = 0

StartScan(n) == want' = n /\ i' = 0 /\ start_block' = 0 /\ contiguous_count' = 0

physical_alloc_page ==
  /\ mode = "idle"
  /\ free_blocks # 0
  /\ StartScan(1)
  /\ mode' = "scan" /\ caller' = "client"
  /\ UNCHANGED <<used, live, booting, free_blocks, used_memory, block, end_block, reserved>>

physical_alloc_pages(count) ==
  /\ mode = "idle"
  /\ count # 0 /\ count <= free_blocks
  /\ StartScan(count)
  /\ mode' = "scan" /\ caller' = "client"
  /\ UNCHANGED <<used, live, booting, free_blocks, used_memory, block, end_block, reserved>>

\* Nothing asked for, or more than there is: NULL at once.
alloc_refused(count) ==
  /\ mode = "idle"
  /\ count = 0 \/ count > free_blocks
  /\ UNCHANGED vars

\* Fault: a used block does not end the current sequence.
scan_used_block_no_reset ==
  /\ mode = "scan" /\ i < TotalBlocks /\ i \in used
  /\ i' = i + 1
  /\ UNCHANGED <<contiguous_count, used, live, booting, free_blocks, used_memory, mode,
                 caller, want, start_block, block, end_block, reserved>>

scan_used_block ==
  /\ mode = "scan" /\ i < TotalBlocks /\ i \in used
  /\ contiguous_count' = 0
  /\ i' = i + 1
  /\ UNCHANGED <<used, live, booting, free_blocks, used_memory, mode, caller, want,
                 start_block, block, end_block, reserved>>

SequenceStart == IF contiguous_count = 0 THEN i ELSE start_block

scan_free_block ==
  /\ mode = "scan" /\ i < TotalBlocks /\ i \notin used
  /\ contiguous_count + 1 # want
  /\ start_block' = SequenceStart
  /\ contiguous_count' = contiguous_count + 1
  /\ i' = i + 1
  /\ UNCHANGED <<used, live, booting, free_blocks, used_memory, mode, caller, want,
                 block, end_block, reserved>>

\* Back to physical_reserve_region or to the client.
Return == mode' = (IF caller = "reserve" THEN "reserve" ELSE "idle")

\* Fault: the counter is decremented once, whatever the length of the run.
MarkRun_counts_one(b, n) == used' = used \cup Run(b, n) /\ free_blocks' = free_blocks - 1

MarkRun(b, n) == used' = used \cup Run(b, n) /\ free_blocks' = free_blocks - n

scan_found ==
  /\ mode = "scan" /\ i < TotalBlocks /\ i \notin used
  /\ contiguous_count + 1 = want
  /\ MarkRun(SequenceStart, want)
  /\ IF caller = "client"
     THEN /\ live' = live \cup {[start |-> SequenceStart, count |-> want]}
          /\ used_memory' = used_memory + want
     ELSE UNCHANGED <<live, used_memory>>
  /\ Return
  /\ UNCHANGED <<scanvars, booting, caller, block, end_block, reserved>>

\* Fault: the last block is not looked at.
scan_exhausted_early ==
  /\ mode = "scan" /\ i >= TotalBlocks - 1
  /\ Return
  /\ UNCHANGED <<used, live, booting, free_blocks, used_memory, scanvars, caller,
                 block, end_block, reserved>>

\* No run is long enough: NULL.
scan_exhausted ==
  /\ mode = "scan" /\ i >= TotalBlocks
  /\ Return
  /\ UNCHANGED <<used, live, booting, free_blocks, used_memory, scanvars, caller,
                 block, end_block, reserved>>

-----------------------------------------------------------------------------
(* Freeing.  The memory statistic is only lowered if it does not underflow. *)

LowerStatistic(n) == used_memory' = (IF used_memory >= n THEN used_memory - n ELSE used_memory)

physical_free_pages(r, n) ==
  /\ mode = "idle" /\ r \in live
  /\ used' = used \ Run(r.start, n)
  /\ free_blocks' = free_blocks + Cardinality(Run(r.start, n) \cap used)
  /\ LowerStatistic(n)
  /\ live' = (live \ {r}) \cup Rest(r, n)
  /\ UNCHANGED <<booting, mode, caller, scanvars, block, end_block, reserved>>

physical_free_page(r) == r.count = 1 /\ physical_free_pages(r, 1)

-----------------------------------------------------------------------------
(* physical_memory_init, after bitmap_init: reservations, then the allocator *)
(* is open for use.                                                          *)

\* bitmap_free_block of one block: nothing happens if it is free already.
FreeBlock(b) ==
  /\ used' = used \ {b}
  /\ free_blocks' = IF b \in used THEN free_blocks + 1 ELSE free_blocks

physical_reserve_region(reg) ==
  /\ mode = "boot"
  /\ reg.first < TotalBlocks
  /\ block' = reg.first
  /\ end_block' = IF reg.last >= TotalBlocks THEN TotalBlocks - 1 ELSE reg.last
  /\ mode' = "reserve" /\ caller' = "reserve"
  /\ reserved' = reserved \cup ((reg.first .. reg.last) \cap Blocks)
  /\ UNCHANGED <<used, live, booting, free_blocks, used_memory, scanvars>>

\* bitmap_free_block(block), then bitmap_alloc_block, which has a block to find.
reserve_block ==
  /\ mode = "reserve" /\ block <= end_block
  /\ FreeBlock(block)
  /\ mode' = IF free_blocks' = 0 THEN "reserve" ELSE "scan"
  /\ StartScan(1)
  /\ block' = block + 1
  /\ UNCHANGED <<live, booting, used_memory, caller, end_block, reserved>>

reserve_done ==
  /\ mode = "reserve" /\ block > end_block
  /\ mode' = "boot"
  /\ UNCHANGED <<used, live, booting, free_blocks, used_memory, caller, scanvars,
                 block, end_block, reserved>>

physical_memory_init_returns ==
  /\ mode = "boot"
  /\ mode' = "idle" /\ booting' = FALSE
  /\ UNCHANGED <<used, live, free_blocks, used_memory, caller, scanvars, block,
                 end_block, reserved>>

-----------------------------------------------------------------------------
Next ==
  \/ physical_alloc_page
  \/ \E n \in 1 .. TotalBlocks : physical_alloc_pages(n)
  \/ \E n \in 0 .. TotalBlocks + 1 : alloc_refused(n)
  \/ scan_used_block \/ scan_free_block \/ scan_found \/ scan_exhausted
  \/ \E r \in live : \E n \in 1 .. r.count : physical_free_pages(r, n)
  \/ \E r \in live : physical_free_page(r)
  \/ \E reg \in Regions : physical_reserve_region(reg)
  \/ reserve_block \/ reserve_done
  \/ physical_memory_init_returns

Spec == Init /\ [][Next]_vars

-----------------------------------------------------------------------------
\* The bitmap, the runs handed out and the counters have their types.
TypeOK ==
  /\ used \subseteq Blocks
  /\ live \subseteq RunType
  /\ booting \in BOOLEAN
  /\ free_blocks \in Nat /\ used_memory \in Nat
  /\ mode \in {"boot", "idle", "reserve", "scan"}
  /\ caller \in {"client", "reserve"}
  /\ want \in Nat /\ i \in Nat /\ start_block \in Nat /\ contiguous_count \in Nat
  /\ block \in Nat /\ end_block \in Nat
  /\ reserved \subseteq Blocks

\* free_blocks, which decides whether a search is started at all, is the number
\* of clear bits in the bitmap.
FreeCountExact == free_blocks = Cardinality(Blocks \ used)

\* The used_memory statistic is what callers hold, whatever they free in pieces.
UsedMemoryExact == used_memory = Cardinality(LiveBlocks)

\* Both counters, through every allocation, failed search, partial free and
\* reservation of pmm.c and bitmap_mem.c.
CountersExact == FreeCountExact /\ UsedMemoryExact

\* The loop gives up only if the bitmap has no free run of the length asked for.
RefusalJustified ==
  [][mode = "scan" /\ mode' # "scan" /\ used' = used
       => \A b \in Blocks : ~FreeRun(b, want)]_vars

\* The bitmap allocator hands out the lowest run that fits and only takes back
\* what is freed.
ImplementsPageAllocator == AllocatorSpec

\* pmm.h on physical_reserve_region: "Reserve a specific memory region (mark as
\* unavailable)".
ReservedUnavailable == mode \in {"boot", "idle"} /\ live = {} => reserved \subseteq used
=============================================================================
