------------------------------ MODULE VirtMem ------------------------------
(***************************************************************************)
(* The virtual memory manager, memory/vmm.c, and its two callers: drivers  *)
(* that map device registers and the page fault handler, which maps device *)
(* memory at its physical address.  Addresses are page numbers; a table    *)
(* has FANOUT entries and there are four levels of tables.  Limine's root  *)
(* and the second-level table of the kernel's part of the address space    *)
(* exist when the kernel starts.  An entry that is not present is NONE;    *)
(* flags are left out.  Frames of memory are named by their block, frames  *)
(* of devices by their page number.  The memory of a new table has         *)
(* arbitrary contents until it is cleared.                                 *)
(***************************************************************************)
EXTENDS KernelPages

CONSTANTS
  FANOUT, NONE,
  ROOT, KERNEL_PDP,    \* the frames of Limine's tables
  MMIO_VIRTUAL_BASE,   \* first virtual page of the windows
  MMIO_END,            \* bound: windows end before this page
  FaultPages,          \* 0xE0000000 to 0xFFFFFFFF, in pages
  Devices, WindowSizes \* what drivers map: frames, and sizes of which a page has PAGE

\* Pages of the address space: one for each path through the four levels.
PAGES == FANOUT * (FANOUT * (FANOUT * FANOUT))

Pages == 0 .. PAGES - 1

Tables == Blocks \cup {ROOT, KERNEL_PDP}

Frames == Pages \cup Tables

ASSUME VirtMemAssumption ==
  /\ FANOUT \in Nat \ {0, 1}
  /\ {ROOT, KERNEL_PDP} \cap Blocks = {} /\ ROOT # KERNEL_PDP
  /\ NONE \notin Frames /\ NULL \notin Frames
  /\ MMIO_VIRTUAL_BASE \in Pages /\ MMIO_END \in 0 .. PAGES
  /\ FaultPages \subseteq Pages /\ Devices \subseteq Pages /\ WindowSizes \subseteq Nat \ {0}

VARIABLES
  entries,             \* the tables: entries[t][i]
  next_mmio_vaddr,
  call,                \* the vmm_map_mmio or vmm_map_page under way
  mapped,              \* what the last mapping call returned
  windows              \* history: device windows handed out and not unmapped

vmvars == <<entries, next_mmio_vaddr, call, mapped, windows>>

Entries == [0 .. FANOUT - 1 -> Frames \cup {NONE}]

Empty == [i \in 0 .. FANOUT - 1 |-> NONE]

\* The page number shifted to the right, as far as each level needs it.
Shifted(v) ==
  LET table     == v \div FANOUT
      directory == table \div FANOUT
  IN <<directory \div FANOUT, directory, table, v>>

Index(v, level) == Shifted(v)[level + 1] % FANOUT

NoCall == [vaddr |-> 0, paddr |-> 0, size |-> 0, pages |-> 0, i |-> 0, by |-> "nobody"]

VirtMemInit ==
  /\ entries = [t \in Tables |->
       CASE t = ROOT -> [Empty EXCEPT ![Index(MMIO_VIRTUAL_BASE, 0)] = KERNEL_PDP]
         [] t = KERNEL_PDP -> Empty
         [] OTHER -> [i \in 0 .. FANOUT - 1 |-> t]]
  /\ next_mmio_vaddr = MMIO_VIRTUAL_BASE
  /\ call = NoCall /\ mapped = NULL /\ windows = {}

-----------------------------------------------------------------------------
Entry(table, i) == IF table = NONE THEN NONE ELSE entries[table][i]

\* The walk for page v: the table of each level, then the frame, NONE once an
\* entry is not present.
Walk(v) ==
  LET pdp == Entry(ROOT, Index(v, 0))
      pd  == Entry(pdp, Index(v, 1))
      pt  == Entry(pd, Index(v, 2))
  IN <<ROOT, pdp, pd, pt, Entry(pt, Index(v, 3))>>

vmm_get_physical_addr(v) == Walk(v)[5]

\* Fault: a last page that is only partly used is not counted.
PageCount_rounds_down(size) == IF size < PAGE THEN 1 ELSE size \div PAGE

PageCount(size) == (size + PAGE - 1) \div PAGE

\* The pages that fault in lie below the windows, and devices lie in the address space.
ASSUME WindowsAssumption ==
  /\ FaultPages \cap (MMIO_VIRTUAL_BASE .. MMIO_END - 1) = {}
  /\ \A d \in Devices, s \in WindowSizes : d + PageCount(s) <= PAGES

\* The window is taken from the address space before anything is mapped.  The guard
\* bounds the model: the kernel's windows do not fill the last GiB.
vmm_map_mmio(paddr, size, by) ==
  /\ next_mmio_vaddr + PageCount(size) <= MMIO_END
  /\ next_mmio_vaddr' = next_mmio_vaddr + PageCount(size)
  /\ call' = [vaddr |-> next_mmio_vaddr, paddr |-> paddr, size |-> size,
              pages |-> PageCount(size), i |-> 0, by |-> by]
  /\ kernel' = "map"
  /\ UNCHANGED <<entries, mapped, windows>>

driver_maps ==
  /\ kernel = "idle"
  /\ \E d \in Devices, s \in WindowSizes : vmm_map_mmio(d, s, "driver")
  /\ UNCHANGED <<pagevars, others, machine, threadvars>>

\* A fault at a page in the range the handler maps.  It maps the page whatever the
\* fault was, also one that is present.
page_fault(v) ==
  /\ kernel = "idle" /\ ~machine.direct
  /\ call' = [vaddr |-> v, paddr |-> v, size |-> PAGE, pages |-> 1, i |-> 0, by |-> "fault"]
  /\ kernel' = "map"
  /\ UNCHANGED <<pagevars, others, machine, threadvars, entries, next_mmio_vaddr, mapped, windows>>

ThisPage == call.vaddr + call.i

Table(level) == Walk(ThisPage)[level + 1]

\* The level of the last table on the way to this page: 0 the root, 3 the page table.
Depth == CHOOSE level \in 0 .. 3 : /\ Table(level) # NONE
                                   /\ level = 3 \/ Table(level + 1) = NONE

NewTable(b) ==
  [entries EXCEPT ![Table(Depth)][Index(ThisPage, Depth)] = b, ![b] = Empty]

map_create_table ==
  /\ kernel = "map" /\ Depth < 3
  /\ \E b \in Blocks : TakePages(b, 1) /\ entries' = NewTable(b)
  /\ UNCHANGED <<kernel, machine, threadvars, next_mmio_vaddr, call, mapped, windows>>

Caller == IF call.by = "probe" THEN "probe" ELSE "idle"

\* Fault: the window is given back to the address space, with the pages mapped so far.
map_fails_rolls_back ==
  /\ kernel = "map" /\ Depth < 3 /\ NoPages(1)
  /\ mapped' = NULL
  /\ kernel' = IF call.by = "fault" THEN "halted" ELSE Caller
  /\ next_mmio_vaddr' = IF call.by = "fault" THEN next_mmio_vaddr ELSE call.vaddr
  /\ call' = NoCall
  /\ UNCHANGED <<pagevars, others, machine, threadvars, entries, windows>>

\* No page for a table: the tables made and the pages mapped so far stay.  The page
\* fault handler halts the system.
map_fails ==
  /\ kernel = "map" /\ Depth < 3 /\ NoPages(1)
  /\ mapped' = NULL
  /\ kernel' = IF call.by = "fault" THEN "halted" ELSE Caller
  /\ call' = NoCall
  /\ UNCHANGED <<pagevars, others, machine, threadvars, entries, next_mmio_vaddr, windows>>

Window == [vaddr |-> call.vaddr, paddr |-> call.paddr, size |-> call.size]

map_set_entry ==
  /\ kernel = "map" /\ Depth = 3
  /\ entries' = [entries EXCEPT ![Table(3)][Index(ThisPage, 3)] = call.paddr + call.i]
  /\ IF call.i + 1 < call.pages
     THEN call' = [call EXCEPT !.i = @ + 1] /\ UNCHANGED <<mapped, windows, kernel>>
     ELSE /\ call' = NoCall
          /\ mapped' = call.vaddr
          /\ windows' = IF call.by = "fault" THEN windows ELSE windows \cup {Window}
          /\ kernel' = Caller
  /\ UNCHANGED <<pagevars, others, machine, threadvars, next_mmio_vaddr>>

\* The pages of the range that are mapped lose their entries; tables stay.
vmm_unmap(w) ==
  LET range == w.vaddr .. w.vaddr + PageCount(w.size) - 1
  IN /\ kernel = "idle"
     /\ entries' = [t \in Tables |-> [i \in 0 .. FANOUT - 1 |->
                      IF \E v \in range : Walk(v)[4] = t /\ Index(v, 3) = i
                      THEN NONE ELSE entries[t][i]]]
     /\ windows' = windows \ {w}
     /\ UNCHANGED <<pagevars, others, kernel, machine, threadvars, next_mmio_vaddr, call, mapped>>

VirtMemCalls ==
  \/ driver_maps
  \/ \E v \in FaultPages : page_fault(v)
  \/ map_create_table \/ map_fails \/ map_set_entry
  \/ \E w \in windows : vmm_unmap(w)

-----------------------------------------------------------------------------
\* The frames in the entries of a set of tables, and the kernel's own page tables.
Children(tables) == {entries[t][i] : t \in tables, i \in 0 .. FANOUT - 1} \ {NONE}

TableBlocks ==
  LET pdps == Children({ROOT})
      pds  == Children(pdps)
  IN (pdps \cup pds \cup Children(pds)) \cap Blocks

\* The page tables implement an address space: creating a table changes no translation,
\* a mapping never replaces another one, and an unmapping takes away nothing but its
\* range, also after mappings that failed half-way.
Space == INSTANCE AddressSpace WITH translation <- [v \in Pages |-> vmm_get_physical_addr(v)]

ImplementsAddressSpace == Space!SpaceSpec

\* Every byte of a window that was handed out leads to the device's byte, whatever was
\* mapped, refused or unmapped since.
WindowsMapped ==
  \A w \in windows : \A byte \in 0 .. w.size - 1 :
    vmm_get_physical_addr(w.vaddr + byte \div PAGE) = w.paddr + byte \div PAGE

\* vmm_map_mmio: "Failed to allocate PT", NULL.  A mapping that fails leaves no page
\* mapped that belongs to no window.
NoHalfWindow ==
  kernel # "map" =>
    \A v \in MMIO_VIRTUAL_BASE .. PAGES - 1 :
      vmm_get_physical_addr(v) # NONE =>
        \E w \in windows : v \in w.vaddr .. w.vaddr + PageCount(w.size) - 1
=============================================================================
