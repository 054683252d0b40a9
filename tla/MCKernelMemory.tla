--------------------------- MODULE MCKernelMemory ---------------------------
(* Instances of KernelMemory: pages of 8 units, headers of 2, size_t of 64 values, *)
(* tables of 2 entries, so 16 virtual pages of which 12 to 14 are for windows.     *)
EXTENDS KernelMemory

\* A small machine on which the heap works, and one with a card.
MCMachines == {[memory |-> 4, direct |-> TRUE, card |-> FALSE],
               [memory |-> 10, direct |-> FALSE, card |-> TRUE]}

\* From one page to three pages, with sizes on both sides of a page's end.
MCSizes == {0, 1, 5, 12}

\* A size_t that overflows when the header is added.
MCHugeSizes == {1, 62}
=============================================================================
