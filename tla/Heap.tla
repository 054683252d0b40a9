------------------------------- MODULE Heap -------------------------------
(***************************************************************************)
(* The kernel heap, the second half of memory/memory.c: malloc, free,      *)
(* calloc and realloc on whole pages from the page allocator.  A pointer   *)
(* is named by the first block of its allocation; the header written there *)
(* links it into allocation_list.  Sizes are counted in units of which a   *)
(* page has PAGE and a header HEADER, and wrap at SIZE_WIDTH as size_t     *)
(* does.  The contents of the allocations are left out.  The heap reads and *)
(* writes its headers at the physical address of the pages: on a machine   *)
(* that does not map memory there, the first store faults.                 *)
(***************************************************************************)
EXTENDS KernelPages

CONSTANTS
  HEADER, MIN_ALLOCATION_SIZE,
  SIZE_WIDTH,          \* number of values of a size_t
  Sizes,               \* sizes that are asked for
  Members              \* element counts calloc is asked for

ASSUME HeapAssumption ==
  /\ HEADER \in Nat \ {0} /\ HEADER <= PAGE
  /\ MIN_ALLOCATION_SIZE \in Nat
  /\ SIZE_WIDTH \in Nat \ {0}
  /\ Sizes \subseteq 0 .. SIZE_WIDTH - 1 /\ Members \subseteq 0 .. SIZE_WIDTH - 1

VARIABLES
  header,              \* the header at the start of each block
  allocation_list, total_allocated, allocation_count,
  held,                \* pointers callers hold
  asked,               \* what the callers asked for, by pointer
  moving,              \* realloc: the old pointer, still to be freed
  cut                  \* history: pages behind the end of a shrunk allocation

heapvars == <<header, allocation_list, total_allocated, allocation_count, held, asked, moving, cut>>

\* What a call of the heap leaves alone.
kernelvars == <<machine, others, threadvars>>

\* A page without a header; nobody reads the rest of a header without its magic number.
NoHeader == [size |-> 0, magic |-> FALSE, next |-> NULL, prev |-> NULL]

HeapInit ==
  /\ header = [b \in Blocks |-> NoHeader]
  /\ allocation_list = NULL /\ total_allocated = 0 /\ allocation_count = 0
  /\ held = {} /\ asked = [b \in Blocks |-> 0] /\ moving = NULL /\ cut = {}

-----------------------------------------------------------------------------
\* pages_needed(size + HEADER_SIZE): the header is counted twice.
pages_for(size) == ((size + HEADER + HEADER + PAGE - 1) % SIZE_WIDTH) \div PAGE

AtLeastMinimum(size) == IF size < MIN_ALLOCATION_SIZE THEN MIN_ALLOCATION_SIZE ELSE size

\* Fault: the old head of the list is not linked back.
LinkFirst_one_way(b, size) ==
  [header EXCEPT ![b] = [size |-> size, magic |-> TRUE, next |-> allocation_list, prev |-> NULL]]

LinkFirst(b, size) ==
  LET linked == [header EXCEPT ![b] = [size |-> size, magic |-> TRUE,
                                       next |-> allocation_list, prev |-> NULL]]
  IN IF allocation_list = NULL THEN linked ELSE [linked EXCEPT ![allocation_list].prev = b]

\* malloc succeeds with block b, for a caller that needs `bytes'.
Allocate(b, size, bytes) ==
  LET n == pages_for(AtLeastMinimum(size))
  IN /\ size # 0 /\ n # 0 /\ machine.direct
     /\ Take(b, n)
     /\ header' = LinkFirst(b, AtLeastMinimum(size))
     /\ allocation_list' = b
     /\ total_allocated' = total_allocated + n
     /\ allocation_count' = allocation_count + 1
     /\ held' = held \cup {b}
     /\ asked' = [asked EXCEPT ![b] = bytes]
     /\ UNCHANGED <<kernelvars, cut>>

\* malloc returns NULL.
Refused(size) ==
  LET n == pages_for(AtLeastMinimum(size))
  IN size = 0 \/ n = 0 \/ NoPages(n)

NothingDone == UNCHANGED <<pagevars, kernel, kernelvars, heapvars>>

malloc(size) ==
  /\ kernel = "idle"
  /\ \/ (\E b \in Blocks : Allocate(b, size, size)) /\ UNCHANGED <<kernel, moving>>
     \/ Refused(size) /\ NothingDone

\* The pages are there, but not at their physical address: the store to the header
\* faults, outside the range the fault handler maps, and the handler halts.
malloc_faults(size) ==
  LET n == pages_for(AtLeastMinimum(size))
  IN /\ kernel = "idle" /\ ~machine.direct /\ size # 0 /\ n # 0
     /\ \E b \in Blocks : Take(b, n)
     /\ kernel' = "halted"
     /\ UNCHANGED <<kernelvars, heapvars>>

CallocOverflows(nmemb, size) == nmemb # 0 /\ size > (SIZE_WIDTH - 1) \div nmemb

calloc(nmemb, size) ==
  LET total == (nmemb * size) % SIZE_WIDTH
  IN /\ kernel = "idle"
     /\ \/ /\ ~CallocOverflows(nmemb, size)
           /\ \E b \in Blocks : Allocate(b, total, nmemb * size)
           /\ UNCHANGED <<kernel, moving>>
        \/ (CallocOverflows(nmemb, size) \/ Refused(total)) /\ NothingDone
        \/ ~CallocOverflows(nmemb, size) /\ malloc_faults(total)

\* The list without pointer p: its links are read before the pages are freed.
Unlinked(p) ==
  LET h      == header[p]
      before == IF h.prev = NULL THEN header ELSE [header EXCEPT ![h.prev].next = h.next]
      after  == IF h.next = NULL THEN before ELSE [before EXCEPT ![h.next].prev = h.prev]
  IN [after EXCEPT ![p] = NoHeader]

\* Fault: the header is not counted when the pages are freed.
FreedPages_no_header(p) == (header[p].size + PAGE - 1) \div PAGE

\* What free computes from the size in the header.
FreedPages(p) == pages_for(header[p].size)

Lowered(p) ==
  IF total_allocated >= FreedPages(p) THEN total_allocated - FreedPages(p) ELSE total_allocated

\* free(p), for a pointer whose magic number is intact.
FreePointer(p) ==
  /\ header[p].magic
  /\ \E r \in live : r.start = p /\ Release(r, FreedPages(p))
  /\ header' = Unlinked(p)
  /\ allocation_list' = IF header[p].prev = NULL THEN header[p].next ELSE allocation_list
  /\ total_allocated' = Lowered(p)
  /\ allocation_count' = IF allocation_count > 0 THEN allocation_count - 1 ELSE allocation_count
  /\ held' = held \ {p}
  /\ asked' = [asked EXCEPT ![p] = 0]
  /\ UNCHANGED <<kernelvars, cut>>

free(p) == kernel = "idle" /\ p \in held /\ FreePointer(p) /\ UNCHANGED <<kernel, moving>>

\* Not larger than before: only the header changes, pages that are no longer
\* needed stay allocated.
realloc_in_place(p, size) ==
  /\ kernel = "idle" /\ p \in held /\ header[p].magic
  /\ size # 0 /\ size <= header[p].size
  /\ header' = [header EXCEPT ![p].size = size]
  /\ cut' = cut \cup (Run(p, FreedPages(p)) \ Run(p, pages_for(size)))
  /\ asked' = [asked EXCEPT ![p] = size]
  /\ UNCHANGED <<pagevars, kernel, kernelvars, allocation_list, total_allocated,
                 allocation_count, held, moving>>

\* Larger: malloc, memcpy of the old contents, then free of the old pointer.
realloc_grow(p, size) ==
  /\ kernel = "idle" /\ p \in held /\ header[p].magic
  /\ size > header[p].size
  /\ \/ (\E b \in Blocks : Allocate(b, size, size)) /\ moving' = p /\ kernel' = "realloc"
     \/ Refused(size) /\ NothingDone

realloc_free_old ==
  /\ kernel = "realloc"
  /\ FreePointer(moving)
  /\ moving' = NULL
  /\ kernel' = "idle"

HeapCalls ==
  \/ \E s \in Sizes : malloc(s) \/ malloc_faults(s)
  \/ \E k \in Members, s \in Sizes : calloc(k, s)
  \/ \E p \in held : free(p)
  \/ \E p \in held, s \in Sizes : realloc_in_place(p, s) \/ realloc_grow(p, s)
  \/ realloc_free_old

-----------------------------------------------------------------------------
\* The k-th allocation of the list, counted from its head; NULL past its end.
Nth(k) ==
  LET nth[j \in 0 .. k] ==
        IF j = 0 THEN allocation_list
        ELSE IF nth[j - 1] = NULL THEN NULL ELSE header[nth[j - 1]].next
  IN nth[k]

\* allocation_list holds exactly the pointers that are held, each once, with both
\* links and the magic number intact, after any sequence of frees and reallocs.
AllocationListSound ==
  /\ {Nth(k) : k \in 0 .. Cardinality(held)} = held \cup {NULL}
  /\ \A p \in held :
       /\ header[p].magic
       /\ header[p].next # NULL => header[header[p].next].prev = p
       /\ header[p].prev = NULL <=> p = allocation_list

\* The blocks the heap has taken and not given back.
HeapBlocks == {b \in Blocks : \E r \in live \ others : b \in RunBlocks(r)}

\* Every pointer is backed by a run of pages large enough for the header and for
\* what its owner asked for.
AllocationsBacked ==
  \A p \in held : \E r \in live \ others :
    r.start = p /\ HEADER + asked[p] <= r.count * PAGE

\* The heap's own view and the page allocator's agree: the list of headers is sound
\* and every pointer on it has the pages it needs.
HeapSound == AllocationListSound /\ AllocationsBacked

\* total_allocated and allocation_count, which the shell prints, are the pages the
\* heap has taken and not given back, and the number of pointers held.
HeapStatisticsExact ==
  /\ allocation_count = Cardinality(held)
  /\ total_allocated = Cardinality(HeapBlocks)

\* A page stays allocated without a pointer to it only where a realloc has cut
\* it off: free gives back every other page of its allocation.
LeaksAreCut == \A r \in live \ others : r.start \in held \/ RunBlocks(r) \subseteq cut

\* Every page the heap has taken is accounted for, in the statistics and by a
\* pointer or a cut, through any sequence of malloc, realloc and free.
PagesAccounted == kernel # "halted" => HeapStatisticsExact /\ LeaksAreCut

\* malloc: "Return pointer after header".  A call of the heap does not halt the kernel.
HeapReturns == kernel = "halted" => \A r \in live : r \in others

\* free: "Free the pages".  No page stays allocated once its pointer is gone.
NoPageLeaks == \A r \in live \ others : r.start \in held
=============================================================================
