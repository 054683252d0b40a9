---------------------------- MODULE KernelMemory ----------------------------
(***************************************************************************)
(* Everything that takes pages: the heap, thread creation, page tables and *)
(* the network card's driver, on one page allocator.                       *)
(***************************************************************************)
EXTENDS Heap, E1000Probe

vars == <<pagevars, kernel, kernelvars, heapvars, vmvars, probevars>>

Init == PagesInit /\ HeapInit /\ VirtMemInit /\ ProbeInit

Next ==
  \/ HeapCalls /\ UNCHANGED <<vmvars, probevars>>
  \/ ThreadCalls /\ UNCHANGED <<heapvars, vmvars, probevars>>
  \/ VirtMemCalls /\ UNCHANGED <<heapvars, probevars>>
  \/ ProbeSteps /\ UNCHANGED heapvars
  \/ hlt_loop /\ UNCHANGED <<heapvars, vmvars, probevars>>

Spec == Init /\ [][Next]_vars

-----------------------------------------------------------------------------
\* Every page that is not free has one owner, which still refers to it: the heap, a
\* thread, the tree of page tables or the card's driver.  What the card was told to
\* write to is the driver's, also after a probe that failed in the middle.
PagesOwned ==
  /\ LiveBlocks = UNION {HeapBlocks, ThreadBlocks, TableBlocks, CardBlocks}
  /\ Cardinality(LiveBlocks) = Cardinality(HeapBlocks) + Cardinality(ThreadBlocks)
                               + Cardinality(TableBlocks) + Cardinality(CardBlocks)
  /\ CardUsesItsPages
=============================================================================
