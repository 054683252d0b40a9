--------------------------- MODULE PageAllocator ---------------------------
(***************************************************************************)
(* What the physical page allocator promises its callers: a request for n  *)
(* contiguous pages is answered with the lowest free run of n blocks, and  *)
(* nobody else is given those blocks until they are freed.  A caller may   *)
(* free a run in pieces from its start (the heap does, after a realloc).   *)
(* PhysMem implements this specification; Heap is built on it.             *)
(***************************************************************************)
EXTENDS Integers, FiniteSets

CONSTANT TotalBlocks              \* phys_mem.total_blocks

ASSUME BlocksAssumption == TotalBlocks \in Nat

Blocks == 0 .. TotalBlocks - 1

VARIABLES
  used,                \* blocks whose bit is set in the bitmap
  live,                \* runs handed out and not yet freed
  booting              \* physical_memory_init has not returned

RunType == [start : Nat, count : Nat]

Run(b, n) == b .. b + n - 1

RunBlocks(r) == Run(r.start, r.count)

LiveBlocks == {b \in Blocks : \E r \in live : b \in RunBlocks(r)}

FreeRun(b, n) == b + n <= TotalBlocks /\ Run(b, n) \cap used = {}

FirstFit(b, n) ==
  /\ FreeRun(b, n)
  /\ \A c \in 0 .. b - 1 : ~FreeRun(c, n)

\* What is left of run r once its first n blocks are freed.
Rest(r, n) ==
  IF n = r.count THEN {} ELSE {[start |-> r.start + n, count |-> r.count - n]}

AllocatorInit == used = {} /\ live = {} /\ booting = TRUE

Setup ==
  /\ booting
  /\ used' \in SUBSET Blocks
  /\ booting' \in BOOLEAN
  /\ UNCHANGED live

Take(b, n) ==
  /\ ~booting
  /\ FirstFit(b, n)
  /\ used' = used \cup Run(b, n)
  /\ live' = live \cup {[start |-> b, count |-> n]}
  /\ UNCHANGED booting

Release(r, n) ==
  /\ ~booting
  /\ r \in live
  /\ used' = used \ Run(r.start, n)
  /\ live' = (live \ {r}) \cup Rest(r, n)
  /\ UNCHANGED booting

AllocatorNext ==
  \/ Setup
  \/ \E b \in Blocks, n \in 1 .. TotalBlocks : Take(b, n)
  \/ \E r \in live : \E n \in 1 .. r.count : Release(r, n)

AllocatorSpec == AllocatorInit /\ [][AllocatorNext]_<<used, live, booting>>

\* Two callers never hold the same block, and a block that is held is not free.
NoDoubleAllocation ==
  /\ \A r \in live : RunBlocks(r) \subseteq used
  /\ \A r, s \in live : r # s => RunBlocks(r) \cap RunBlocks(s) = {}
=============================================================================
