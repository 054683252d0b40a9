# cgos: a TLA+ verification project

cgos is a hobby operating system kernel for x86-64, in C: one address space, a
shell as the only program, drivers that poll, two interrupt handlers with state
(timer and keyboard), a scheduler, a page allocator with a heap on top, a FAT16
filesystem and a network stack with a DHCP client. This directory models the parts
of it that keep state, checks them with TLC on small instances, and proves the
most important properties with TLAPS for every instance. Paths below are relative
to the repository's `src/` directory (`sched/scheduler.c` is
`src/src/sched/scheduler.c` in `PROJECT.json`).

## 1. Inventory

| Component | State it keeps | Operations | Hard behaviour | What makes it correct |
|---|---|---|---|---|
| Scheduler, threads (`sched/`) | seven ready lists linked through the control blocks, a sorted sleep list, the current thread, adaptive priorities, statistics | create, add, start, yield, sleep, block, unblock, exit, remove, set_priority; the tick | the tick runs between any two instructions of a thread with interrupts enabled; a control block has one pair of links for every list | nobody is lost or queued twice, strict priority and FIFO, sleepers wake in time, loops with interrupts disabled end |
| Timer (`timer/`) | tick counter | `timer_irq_handler` | calls `scheduler_tick` in interrupt context | part of the scheduler's |
| Physical pages (`memory/bitmap_mem.c`, `pmm.c`) | bitmap, free counter, used-memory statistic | allocate one or n pages, free one or n, reserve a region | first-fit search over a fragmented bitmap; frees in pieces | no block twice, counters exact, refuses only what does not fit |
| Heap (`memory/memory.c`) | list of headers, statistics | malloc, calloc, realloc, free | page count recomputed from a size that realloc changes; sizes that wrap; a header written where no page may be mapped | list sound, every pointer backed by its pages, every page accounted for |
| Virtual memory (`memory/vmm.c`), page fault handler (`interrupt/interrupt.c`) | four levels of page tables, next virtual address of the device windows | map a window or a page, unmap, translate, map on a fault | a mapping of several pages runs out of memory half-way; tables are shared by windows | what is mapped leads to the device it was mapped for, and every mapping call is all or reported |
| Keyboard (`drivers/keyboard.c`) | ring buffer, modifiers, prefix flag | `keyboard_irq_handler`, `keyboard_get_char`, `keyboard_has_key` | the handler interrupts the reader between its load and its index update, without a lock | a bounded FIFO queue, every character is read, a prefix affects one key |
| FAT16 (`fs/fat16.c`) | on disk: two FATs, directory, clusters; in memory: one cached FAT sector, one shared sector buffer | format, mount, create, write, read, delete | an operation is many sector accesses; full disk, failing access or power failure in the middle | files read back, no two files share clusters, operations end |
| DHCP client (`network/dhcp.c`) | state machine, offered address, timers | discover, request, process_packet, update, release | lost, duplicated, late replies, two servers, failing sends, expiring leases | only granted addresses in use, never switched by a renewal, acquisition ends |
| ARP (`network/arp.c`) | table of entries with time stamps | update on every ARP packet, lookup | full table, wrapping clock | one entry per host, the latest address, evicts only when full |
| ICMP, ping (`network/icmp.c`, with `ip.c`) | one global reply note | `icmp_ping`, `icmp_process_packet` | replies late, repeated or of other hosts; a packet to an unresolved address is dropped | replies counted once, ping returns |
| Sockets, UDP, TCP (`network/socket.c`, `udp.c`, `tcp.c`) | three tables linked one way by pointers, counters that only grow | the socket API, `tcp_process_packet` | descriptors are reused, lower slots are not; segments in any state | no shared sockets or ports, closed connections stay closed |
| E1000 (`drivers/e1000.c`) | two descriptor rings shared with the card, its register window | probe, send, receive | the card runs in parallel; rings wrap, fill and empty; the probe fails half-way with the card already told to receive | frames once and in order, reception goes on, the card writes only to its own pages |
| Loopback, interfaces, routing, Ethernet, IP (`network/netdev.c`, `network.c`, `ethernet.c`, `ip.c`) | loopback queue, interface list | send, receive, find_route, `network_process_packets` | processing a frame sends others, also to the queue being emptied; the queue is full | a bounded FIFO link, every poll ends |
| Shell (`shell/shell.c`, `draw_char` and `draw_rect` of `graphic/`) | line buffer, history, cursor, what is on the screen | one key, commands, polling loop | buffers keep the tails of longer lines; drawing adds to what is there and only some columns are ever cleared | a line editor with a history; the screen shows the line |
| ATA (`drivers/ata.c`) | which drives exist; the drives' own state | detect, read and write sectors | drives slower than the polling limit, which answer a command that was given up; errors between sectors | a read is never a late answer, a write changes a prefix of its range, every call returns |
| PCI, ACPI, GDT, IDT, rest of graphics, debug output | device registers, constant tables, pixels | port I/O, set-up at boot, formatting | | not modelled: no state that a property could relate (section 8) |

Interaction: everything runs on one processor. The shell's loop polls the keyboard
buffer, the network (`network_process_packets`) and the DHCP timers, and calls the
filesystem and ping; the two interrupt handlers preempt it at any point, the network
card and the drives work beside it. The heap, thread creation, the page tables and the
probe of the card take pages from one allocator; FAT16 uses the ATA driver's sector
reads and writes; ping, sockets and DHCP send through IP, which looks up ARP, and the
loopback queue or the card.

## 2. Modules

| Module | Models | Uses |
|---|---|---|
| `RunQueues` | abstract: one FIFO queue per priority, a set of sleepers, the running thread | |
| `Scheduler` | `scheduler.c`, `thread.c`, the timer handler, pointer by pointer | refines `RunQueues` |
| `PageAllocator` | abstract: a first-fit allocator of runs of blocks | |
| `PhysMem` | the bitmap allocator, one action per iteration of its loop, and region reservation | refines `PageAllocator` |
| `KernelPages` | thread creation and what the users of pages share | extends `PageAllocator` |
| `Heap` | `memory.c` | extends `KernelPages` |
| `AddressSpace` | abstract: a partial function from virtual pages to frames, and the windows in it | |
| `VirtMem` | `vmm.c`, one action per table, and the page fault handler | extends `KernelPages`, refines `AddressSpace` |
| `E1000Probe` | `e1000_init` to `e1000_tx_init`, one action per page | extends `VirtMem` |
| `KernelMemory` | every user of pages on one allocator | composes `Heap`, `E1000Probe`, `VirtMem`, `KernelPages` |
| `KeyQueue` | abstract: a bounded FIFO queue that loses a character only when full | |
| `Keyboard` | `keyboard.c` | refines `KeyQueue` |
| `Fat16` | `fat16.c`, one action per sector write or FAT entry read | |
| `Dhcp` | `dhcp.c` against servers and a network | |
| `Arp` | the ARP table | |
| `Link` | abstract: a bounded FIFO queue of frames that loses one only when full | |
| `Network` | `netdev.c`, `network.c`, `ethernet.c`, `ip.c`, and what ARP, ICMP, UDP and TCP answer | extends `Arp`, refines `Link` |
| `Ping` | `icmp_ping`, other senders, hosts, the timer | extends `Network` |
| `Sockets` | `socket.c`, `udp.c`, `tcp.c` | |
| `E1000` | the rings, with the card as an external actor | |
| `Ata` | `ata.c`, with the drives as external actors | |
| `Drivers` | the two drivers in the one thread that polls | composes `E1000`, `Ata` |
| `LineEditor` | abstract: a line, a list of commands and a position in it | |
| `Shell` | line editing, history and screen of `shell.c` | refines `LineEditor` |
| `MC*` | constants of the checked instances | |
| `*Proofs` | theorems about the module of that name; `NetworkProofs` is about `Arp`, `Network` and `Ping`, `ConsoleProofs` about `Keyboard` and `Shell`, `DriversProofs` about `Drivers` and `Fat16` | |

State variables carry the names of the C variables they stand for and actions the
names of the C functions; a function that other actors can observe half-done is
several actions (`scan_used_block`, `scan_free_block`, `scan_found` are turns of the
loop of `bitmap_alloc_blocks`). The "map" of `PROJECT.json` gives the lines of
each definition. History variables, which no code reads, are marked where they are
declared. Operators introduced by a "Fault" comment are faulty variants of a
definition that follows them; `PROJECT.json` lists which property notices which fault.

**Scheduler.** `m` is the memory of the lists (heads, tails, next, prev, state,
counters), `tcb` the other fields of the control blocks. Code with interrupts disabled
is one action, except for its two loops, which are one action per turn (`mode` is
"wake" or "insert" meanwhile), so that a loop over a cyclic list is a behaviour that
never leaves the mode. `thread_sleep_ms` and `thread_exit` have a window with
interrupts enabled between two steps (`pc`), where ticks come. Wake times are kept
as the distance to the present. `Calls` restricts which API calls threads make: besides
the ones the kernel makes there are `block_other`, blocking a thread that is not the
current one, `add_ready`, `scheduler_add` of a thread that is READY already, `remove` and
`set_priority`. `Cooperative` says whether slices may run out: `timer_irq_handler` is the
handler as it is, and `Tick`, its use in `Next`, leaves out the ticks that end a slice when
`Cooperative` is TRUE (`InTime`). Both are assumptions about the workload, and section 6
says why they are needed.

**Memory.** Sizes are in units of an eighth of a page, `size_t` has 64 values, so that
the overflow test of calloc matters. `kernel` is the call under way: none of these calls
yields and no interrupt handler allocates, so they do not interleave, but each of them
takes its pages one by one and may find none left at any of them. A table has two
entries (`FANOUT`), a new table holds garbage until it is cleared. `machine` says how much
memory there is, whether the boot loader maps memory at its physical addresses (the
heap writes its headers there) and whether there is a card. Of the values written to
registers only the addresses the card is given are kept, cut to `DMA_WIDTH`. The page fault
handler maps the page whether or not it is mapped already, as the code does.

**Keyboard.** `typed` and its bit `turn` are history: the last character given to
`buffer_put`, so that a lost character is a step of `KeyQueue` (`Lose`) and not a stuttering
step.

**Fat16.** Sizes are in clusters of one sector. Names are names as typed, up to the case
of letters; `name_to_83` is a constant function that cuts some of them, and a search
compares the stored name with the name as typed, so that a name that is cut is created
again each time and never found. A read or write may fail once, or the drive breaks, and from
then on refuses writes or every access (`health`). A failed read of the FAT returns
`FAT16_BAD_CLUSTER`, which the loops take for a cluster: its FAT entry and its sector are in
the data area (`Stray`). A format fails at any of its sectors. Texts of one file are told apart by their
length and of different files by the name. `fat16_delete_file` has no caller in the
kernel: it is a step of `DeleteSpec` and not of `FatSpec`.

**Dhcp.** Messages sent are kept in the set `net` and may be received any number of
times, in any order or never. Mask, gateway and DNS server are left out. An OFFER may lack the
server identifier, which leaves `server_ip` as it was, or an address. A late OFFER with the right
identifier changes `server_ip` and `lease_time` of a bound client, as in the code.

**Sockets.** A segment is what `tcp_process_packet` reads of it; `ip_send_packet` may
fail; no callbacks exist, because no code installs one.

**Network and Ping.** A frame is its kind, its addresses and nothing else. An echo message
with data is a kind of its own (`icmp_data`), because the code computes the checksum over the
header only (`icmp.c:111`) and ignores it. `sent` is history: the last frame given to `loopback_send`. A poll
(`network_process_packets`) is one action per frame: the frame is received, then processed
with everything it makes the stack send; meanwhile hosts send, and the timer ticks.
`Ping` adds the callers: `icmp_ping`, which polls while it waits, any other sender, and
the lease of DHCP, which comes and goes. Round-trip times are left out.

**Shell.** Strings are the C arrays with their terminator and the rests behind it. The
prompt's row is a cell per column, other rows are drawn on or not. Pixels past the edge of the
framebuffer come out on the next scan line, on margin and prompt first, which are not recorded, and
then after the prompt again (`Lands`); the history variable `fits` says whether any have. A command is the
number of lines it prints, or `clear`.

**E1000, Ata, Drivers.** The card transmits from head to tail and stores frames until its
head meets its tail, which is what the data sheet says and the driver relies on. A busy
drive ignores commands and any other one drops its data for a new command; each step of
a drive may fail, or never come. The kernel runs one driver at a time; the devices do not
wait for it. `last` is history: the last write command that was sent, with what the disks held
before it.

## 3. Runs

Every passing run finishes without deadlock, with the numbers of distinct states
given.

| Run | Instance | States | What it shows |
|---|---|---|---|
| `sched_queues` | 3 threads, 4 priorities, sleeps of 0 to 2 ticks, yield, sleep, block, unblock, exit; slices do not run out | 293 000 | the linked lists implement `RunQueues` (FIFO, strict priority), are sound and exactly counted (`QueuesSound`), lose nobody, wake everybody in time; loops end; among threads that go on making calls nobody waits for ever at the best priority (`ReadyRuns`) |
| `sched_expiry` | 2 threads, slices run out; yield, remove, set_priority, block_other, add_ready | 1 957 000 | even when the lists are corrupted, slice lengths match priorities |
| `sched_lost` (violation) | 2 threads that yield, slices run out | | `NoThreadLost` fails: section 6 |
| `pages` | 7 blocks, every map of 3 overlapping regions reserved at boot | 18 000 | no double allocation, exact counters, refusals justified, refinement of first-fit |
| `memory` | 10 pages, or 4 and no card; sizes below, at and above a page; windows of two pages in four levels of tables of two entries; a ring of one descriptor each way | 43 000 | until memory runs out, at whichever page of whichever call: the header list is sound and every pointer backed (`HeapSound`), the statistics and losses of the heap are what its calls explain, each page has one owner, the tables implement `AddressSpace`, windows lead to their device |
| `keyboard` | ring of 3, keys of every kind with releases | 121 000 | refinement of the FIFO queue, which loses a character only when full; the buffer drains if the reader polls |
| `dhcp` | 2 servers, 2 addresses, offers without address or server identifier, lease of 2 ticks, sends that fail, release | 237 000 | only acknowledged addresses are used and their lease is counted (`LeaseSound`), renewals do not switch addresses; if the network works, an offered client ends up bound or refused, unless its one REQUEST was not sent or names no server |
| `fat` | 3 names, one of them cut, 2 clusters, 2 clusters per file, 4 directory entries in 2 sectors; one failed access, a broken drive or a power failure anywhere | 918 000 | without failures files read back and are found (`FilesIntact`), FAT copies and cache agree (`FatConsistent`), files share no cluster (`ChainsApart`); with one, operations end, but for the freeing loop on a broken drive |
| `sockets` | 2 descriptors, 2 UDP sockets, 2 connections, 2 ports, interface with and without address | 143 000 | descriptors do not share sockets, sockets do not share ports, bound ports have owners (`OwnershipSound`), closed connections never change |
| `network` | 2 hosts, one in the subnet, and the machine itself; 2 ARP slots, clock of 2 values, loopback queue of 2, 2 requests per ping, 3 pings, sends and arrivals that count together and any number of others, 10 kinds of arriving frames, UDP and TCP | 862 000 | the ARP table has one entry per host with the latest address and forgets only when full; the loopback is a `Link`; every poll and every ping returns if hosts pause and no segments go round on lo; no reply is counted twice or for another host |
| `shell` | 2 characters, lines of 3, history of 2, screen of 2 columns and 3 rows, 10 keys | 366 000 (symmetry) | the arrays implement `LineEditor`; the screen shows the line while drawing stays within its edge |
| `drivers` | rings of 2, 2 drives of 2 sectors, one poll before a time-out, 2 calls, 4 calls and frames together | 569 000 | frames in order in both directions; a read returns what the drive holds; a write, also one that failed or was given up, changes a prefix of its range; reception goes on whatever the drives do, if the shell polls |

Why these bounds are enough for the cases that matter:

- Three threads give lists with a head, a middle and a tail, and an insertion between
  two sleepers; sleep times 0, 1 and 2 give three different positions. Two threads
  suffice for a control block to be on a list twice. `TICK_WIDTH`, `COUNTER_WIDTH`
  and `U8` are the widths of C integers; the first two are small because only a
  usage percentage and printed statistics depend on them.
- Seven blocks allow two allocated runs with gaps before, between and after them.
- A ring of three slots (two usable) wraps, fills and empties within six events.
- Two DHCP servers suffice for competing offers, three transaction identifiers for
  replies that are two transactions old. `MaxReplies` bounds the replies to one
  message, `MaxTime` the clock beyond a lease.
- Two clusters are fewer than two files want, so the disk fills; three FAT entries
  to a sector put them in different sectors, so the cache is replaced. The third name is cut to the
  first one, so one directory gets two entries with one name. A drive that breaks makes any
  number of accesses fail; `MaxFailures` bounds only how often something new goes wrong.
- Sequence numbers of TCP are reduced to one value in `sockets`: none of its
  properties reads them. Section 6 names the instance where they matter.
- Memory of 10 pages is enough for a whole probe and a window beside it, and 4 pages run
  out in the middle of everything; two windows share tables on every level.
- Three addresses for two ARP slots force evictions, two clock values let the clock wrap
  with stamps from before the wrap in the table. One frame in the card and two on the
  loopback fill both queues; 3 events are a ping, a resolution and an answer. Arrivals that leave
  no trace in the state are not counted, so hosts can keep a poll busy for ever.
- A history of two shifts with the third command; lines of three are longer than the
  two columns the shell clears and the framebuffer is wide, so that they are drawn past the edge; ten
  keys are three commands with recalls and edits between them.
- Rings of two descriptors are full with one frame received or two sent. Two calls are
  one that is given up and one that meets its late answer, on the same drive or the
  other.

What these runs pass with, and what is therefore not claimed of the code:

- `sched_queues` has only threads that call the scheduler before their slice ends
  (`Cooperative`) and make the calls the kernel makes. The code allows others, and then the lists break:
  that is the run `sched_lost`. No property about threads that exit is in a passing run.
- `HeapSound` is checked for sizes that leave room for a header; beyond them it fails (section 6).
- `PollReturns` and `PingReturns` except, in the formula, segments that go round on the
  loopback (`SegmentOnLo`) and hosts that never pause (`HostsPause`).
- `ScreenShowsCommand` excepts lines drawn past the edge (`fits`) and rows that were not
  empty when the prompt came (`clean`).
- `OperationsEnd` excepts the freeing loop on a drive that has broken. `FilesIntact`,
  `FatConsistent` and `ChainsApart` say nothing once something has failed, but that files are found;
  `fat16_delete_file` is not in this run, and with it files are damaged (section 6).
- `BufferDrains`, `ReceiveLive` and `Acquires` have premises about the shell and the network
  (section 4).

Type invariants (`TypeOK`, `ArpTypeOK`, `UsageTypeOK`, `ShellTypeOK`, `FatTypeOK`) and `PriorityBounds` are defined
for the larger modules; they hold on these instances, and those of Scheduler, PhysMem,
Keyboard, Dhcp, Fat16, Arp, Network and Sockets are proved.

## 4. Fairness

- Scheduler (`TimerFairness`): the timer handler keeps being entered and, once entered,
  keeps executing; so does the insertion loop. The code enables interrupts whenever a
  thread runs, and nothing waits inside the handler. Nothing obliges a thread to call
  the scheduler (`cpu_worker_entry` never does); `ReadyRuns` states as its own premise that
  threads do, as the shell and the workers of `main.c`.
- That the shell keeps polling is not assumed anywhere, because the scheduler does not see to
  it: a thread that yields to itself gets no fresh slice (`scheduler.c:230`), so the shell is
  demoted to the priority of `cpu_hog` (`main.c:492`), which never calls the scheduler and is never
  preempted. What depends on it has it as a premise in the formula: `BufferDrains` (`ReaderPolls`: the
  reader polls again and again, and takes steps while there is something to read) and
  `ReceiveLive` (`ShellPolls`: the card is polled whenever the thread is free to). `Spec` of
  Keyboard has no fairness at all.
- Dhcp: none either. `Acquires` has as its premise `NetworkWorks`: an OFFER with an address that
  could be handled is handled, servers answer a REQUEST, and an answer arrives. The client handles
  an OFFER once and never sends anything again, so an OFFER whose REQUEST fails to be sent
  leaves it where it is; that is an outcome of `Acquires` (`send_failed`) and not
  excluded by the premise. `LossySpec` has the fairness of the kernel alone (boot, polling of
  the timers, clock) and is for section 6.
- Fat16: a thread inside an operation goes on (`Step`): no step of it waits, and no tick
  takes the processor from it. Nothing obliges the shell to begin an operation.
- Network, Ping: a thread that polls or pings goes on, for the same reason, and the timer
  ticks. Hosts owe nothing: they may send without a pause, and that they do not is
  the premise `HostsPause` of `PollReturns` and `PingReturns`.
- Drivers: the card transmits what it is given, and the thread finishes what it has begun in a
  driver. The premise `ShellPolls` is strong fairness because the poll is not possible while a
  send or a disk call is under way; that those end is part of what `ReceiveLive` checks.
  Of the drives nothing is assumed.

## 5. Theorems

Proved for every value of the constants that satisfies the assumptions of the module
(finite sets of threads, positive sizes, a null pointer that is no thread, and the
like), from the module's specification without fairness (`Spec`, or with a prefix
where one module extends several):

- `SchedulerProofs`: `TypeCorrect` (queues point to existing threads, counters keep
  their width, the loops never follow a null pointer; also for workloads in which slices run
  out and lists get corrupted), `SliceCorrect`, and `PriorityCorrect` (unless
  `thread_set_priority` is called, a priority stays between base and PRIORITY_LOW).
  `TypeOK` is inductive; the work is in showing that each list operation maps
  list memories to list memories, and that `schedule` never runs out of threads
  because of the idle thread.
- `SchedulerProofs`, the lists: `ListsCorrect`, and from it `NoThreadLostCorrect`,
  `QueuesSoundCorrect`, `NoOversleepCorrect` and
  `ImplementsRunQueuesCorrect`. The hypotheses are those of the run `sched_queues`:
  `Cooperative` (no slice runs out: `sched_lost` shows what happens otherwise),
  `OrdinaryCalls` (not `scheduler_remove`, which unlinks a thread that stays READY, nor
  `thread_set_priority`, which changes the priority of a queued thread without moving
  it, nor `scheduler_block` of another thread, which leaves it on its ready list, nor
  `scheduler_add` of a READY one, which links it a second time) and, for the counters, fewer threads than a counter can count. The invariant
  `ListsKept` says that there are one sequence of threads per priority and one of
  sleepers which the pointers spell out in both directions (`IsList`, `IsDeque`), which
  hold each thread at most once and exactly where its state says, with the turn of the
  wake-up or insertion loop under way. Each action changes the sequences in one
  way (append, remove, insert before the first later sleeper), one lemma each, and those
  are the steps of `RunQueues`. That walking the pointers yields the sequence
  (`ChainOfList`) is an induction over its length, done with the least position where the
  two would differ: `LeastNatural`, the least element of a set of naturals, is how
  induction is available here.
- `PhysMemProofs`: `NoDoubleAllocationCorrect`, `CountersCorrect`, `RefusalCorrect`,
  `ImplementsPageAllocatorCorrect`. The invariant adds `ScanOK`: the blocks behind the
  search position that make up `contiguous_count` are free, the one before them is
  used, and no free run of the wanted length ends before them. Without it a
  found run need not be free, nor be the first one.
- `KernelMemoryProofs`: `MemoryCorrect`, and from it `HeapSoundCorrect`,
  `PagesAccountedCorrect`, `PagesOwnedCorrect`, `WindowsMappedCorrect` and
  `ImplementsAddressSpaceCorrect`. The hypothesis `OrdinarySizes` says that the sizes asked
  for, with two headers and a page, do not overflow a `size_t`; the entry of `HeapSound`
  in section 6 is what happens otherwise. `PagesOwned` also needs memory within reach of the
  card's addresses, as `e1000.c:185` assumes. The invariant `MemoryInv` has five
  parts. `PagesInv`: the runs handed out do not overlap and are marked. `HeapInv`: the header
  list is a sequence of pointers linked both ways; each pointer has its run, of which
  `free` gives back at most the run itself and the rest is known to be cut; the statistics
  are sums over the sequence. `WinInv`: windows lie below `next_mmio_vaddr`, do not
  overlap, lead to their devices, pages mapped by a fault stand for themselves, and the mapping
  under way has got as far as `call.i`.
  `Tree`: there is a level and a number for each table such that entries lead one
  level down, a table is the only one of its number, and all are reached from the
  root; this is what makes an entry written in one table change one translation only.
  `OwnerInv`: what is not the heap's is shared out among threads, tables and card,
  also in the middle of a call that has taken pages and not stored them yet.
- `ConsoleProofs`, the keyboard: `ReadIsStableCorrect`, `ImplementsKeyQueueCorrect`. The mapped queue is the
  part of the ring from tail to head, and the only step that leaves a typed character out of it
  (`Lose`) needs a full queue; the lemmas `RingPut` and `RingGet` say what moving an
  index does to it, by arithmetic modulo the size. `ReadIsStable` (the slot the reader has
  loaded still holds its character) is what makes the reader's second step
  remove the character that its first step loaded.
- `ConsoleProofs`, the shell: `ImplementsLineEditorCorrect` and `ScreenShowsCommandCorrect`. `LineInv`
  says that no terminator is inside the line, although there may be none at its end until
  Enter puts it there, and that the remembered entries are terminated. So `shell_strlen` finds
  where a text ends (`StrLen`), `shell_strcpy` copies a text whatever the target held (`StrCpy`),
  and Enter saves the text that the abstract editor has. For the screen, `ScreenInv` adds that a
  line of which nothing was drawn past the edge (`fits`) ends before it: `draw_char` has no
  check there (section 6), and a 256-byte line is longer than the screen is wide. What the
  recursion in `Drawn` computes is proved from a closed form that satisfies its equation
  (`DrawnIs`).
- `DhcpProofs`: `LeaseSoundCorrect`, `AddressNeverSwitchesCorrect`. An ACK carries an
  address and the client applies the one it remembers. They agree because one address
  is requested per transaction (`OneRequest`), a new transaction has an identifier no
  message has (`XidsBounded`), and servers acknowledge what was requested
  (`AcksRequested`).
- `NetworkProofs`, the ARP table: one entry per host, with the latest address, and it
  forgets only when full. The invariants are inductive together and not
  separately, since refreshing the first entry of a host refreshes all of them only if
  there is one. `StackImplementsArp` (every step of the stack, its callers and the
  hosts is a step of `Arp` or leaves the table alone) carries them over to the stack:
  `StackTableSound`, `StackForgetsOnlyWhenFull`.
- `NetworkProofs`, the rest: `RepliesCountedOnceCorrect` needs that a reply
  noted while ping waits is not counted yet (`UncountedReply`), which holds because
  ping clears the note before each request and counts only when it leaves the wait. It bounds
  the replies counted by those that came from the host and by the requests sent; it does not say
  which request a reply answers, because the code does not compare sequence numbers.
  `ImplementsLinkCorrect`: the loopback queue implements `Link`, whose step that loses a frame
  needs a full queue. Its three indices
  agree (`Agree`), the table holds no empty hardware address (`MacsKnown`), and no frame
  is held between polls (`PollDone`).
- `DriversProofs`, the devices: `RingsInOrderCorrect`, `ReadIsTrueCorrect`, `WriteIsPrefixCorrect`, from two
  invariants. `RingInv`: the descriptors from the head on hold, in order, the frames that
  were given to the ring and not taken from it, whoever of driver and card owns them.
  `AtaInv`: only the selected drive can be at work on the present call, so what is transferred
  is an answer to the present command (`Selection`, `Reading`). For writes, some number n of sectors of the last
  write is stored, and if a drive still has a sector to store, however long ago its command was
  given up, it is the next one of that write (`Late`); during a write that has not failed, n
  is what has been transferred, but for perhaps the last sector (`Stored`). Without `Late` a sector stored
  after the call has returned could be any.
- `DriversProofs`, the filesystem: `FatTypeCorrect`, `FatConsistentCorrect`,
  `ChainsApartCorrect`, `FilesIntactCorrect`. `TypesOK` and `DriveOK` are inductive whatever fails: they also
  say that a file whose fate is known is in the directory exactly if it should be. While nothing has
  failed (no access, and no restart in the middle of an operation), `Orderly` is inductive as well: the cached
  sector and both FAT copies tell the same (`Copies`), no walk has left the FAT (`InTheFat`), and
  the directory has no entry behind an end marker and the operation under way is about the first
  entry with its name (`InOrder`; a name that is cut may be there twice). `FatInv`
  adds the chains: the clusters can be labelled (`Labelled`), each with an owner (a slot of the
  directory, the chain under construction, or nobody) and its place in the owner's chain,
  such that links lead from a place to the next one of the same owner and the cluster at place
  k holds piece k of the file. A labelling instead of walks along the links, because every step changes
  one label or those of one owner: freeing gives a cluster to nobody, marking and linking
  put one at the end of the new chain, and writing the entry gives the new chain to the slot. Until then
  the entry still has the old first cluster, which is free or, when it was allocated
  again, in the new chain: that is all that is left of the file when the disk is full, and
  why what such a file holds is `Unknown`. A read under way has the first pieces and stands at the
  cluster that holds the next one (`ReadingOK`). The owners of a labelling are the witness of
  `ChainsApart`. TLC checked `FatInv` on the instance of the run `fat`
  before it was proved.
- `SocketsProofs`: `OwnershipSoundCorrect`, `ClosedStaysClosedCorrect`, from
  `PointsToAllocated` (descriptors point below the counters, so the next slot is new to
  all) and `ClosedGone` (a closed connection is in state CLOSED and no open descriptor
  points to it).

Only model-checked: everything about liveness (`LoopsEnd`, `ReadyRuns`, `BufferDrains`,
`Acquires`, `OperationsEnd`, `PollReturns`, `PingReturns`, `ReceiveLive`), which the prover
does not handle. Every other property of a passing run is stated by a theorem.

## 6. Comments that do not describe the code

`sched_lost` is a run of its own because it is the reason for `Cooperative`:
`scheduler_tick` (`sched/scheduler.c:334`) queues the current thread when its slice
ends and lets it run on; its next yield queues it again, overwriting its links, and the
threads behind it are on no list any more, although `sched/scheduler.h:34-35` says
"Voluntarily yield CPU to another ready thread", "Current thread goes back to ready queue".
The same double queueing breaks the refinement of `RunQueues`, so `sched_queues`
assumes threads that yield before their slice ends.

The following properties say what a comment says, and TLC finds a behaviour of the
model that violates each. They are kept next to the others; to reproduce one, put it in
the cfg named in the last column, with the changes given.

| Property | What the code does | What the comment says | Instance |
|---|---|---|---|
| `Preemption` | the tick only sets `need_reschedule`, which only `scheduler_yield` reads (`scheduler.c:338`) | "Handles preemption" (`scheduler.h:31`) | MCSchedulerLost, FairSpec |
| `IdleGivesWay` | the tick never switches away from the idle thread (`scheduler.c:323`) | "runs when no other thread is ready" (`scheduler.c:20`) | MCSchedulerLost, FairSpec, Calls = {"sleep"} |
| `UsageIsPercentage` | `scheduler_yield` does not cap the usage at 100 (`scheduler.c:355`) | "Recent CPU usage percentages" (`thread.h:68`) | MCSchedulerLost |
| `RunningIsCurrent` | a thread that yields to itself runs on in state READY (`scheduler.c:230`) | "Currently executing" of RUNNING (`thread.h:11`) | MCSchedulerLost |
| `ExitIsFinal` | a tick after the mark of `thread_exit` makes the thread READY (`thread.c:141`) | "Should never get here" (`thread.c:148`) | MCSchedulerLost, Calls = {"yield", "exit"} |
| `DocumentedSlices` | slices of 31, 22 and 13 ticks for priorities 0, 3, 6 (`thread.c:22`) | "25ms", "15ms", "5ms" (`thread.c:19-21`) | MCSchedulerLost, constants of the code (7 levels, base 10, step 3) |
| `ReservedUnavailable` | reserving a region marks the first free blocks instead (`pmm.c:136`) | "Reserve a specific memory region (mark as unavailable)" (`pmm.h:29`) | MCPhysMem |
| `NoPageLeaks` | a shrinking realloc overwrites the size that free uses (`memory.c:221`) | "Free the pages" (`memory.c:172`) | MCKernelMemory |
| `HeapSound` | `size + HEADER_SIZE` wraps for huge sizes (`memory.c:111`) | "Calculate total size needed including header" (`memory.c:110`) | MCKernelMemory, Sizes <- MCHugeSizes |
| `HeapReturns` | malloc writes its header at the physical address of the page, which is mapped only if the boot loader does so: it need not under the base revision `main.c:32` asks for; the page fault halts the kernel | "Return pointer after header" (`memory.c:137`) | MCKernelMemory |
| `NoHalfWindow` | a mapping that runs out of memory keeps the pages mapped so far (`vmm.c:212`) | "Failed to allocate PDP" and NULL (`vmm.c:213`) | MCKernelMemory |
| `CardUsesItsPages` | the card is given the low 32 bits of an address (`e1000.c:185`) | "assuming < 4GB" (`e1000.c:185`) | MCKernelMemory, DMA_WIDTH = 3 |
| `CapsOnlyLetters` | the range 0x10 to 0x32 holds punctuation too (`keyboard.c:168`) | "Caps lock only affects letters" (`keyboard.c:167`) | MCKeyboard, Scancodes <- MCCapsScancodes |
| `LeaseGivenUp` | a renewal sets REQUESTING, where no timer is looked at (`dhcp.c:226`) | "Lease expired, start over" (`dhcp.c:501`) | MCDhcp, LossySpec, MaxXid = 2, MaxReplies = 1 |
| `NakRestarts` | after a NAK nothing starts the client again (`dhcp.c:398`) | "Configuration rejected, start over" (`dhcp.c:397`) | MCDhcp, LossySpec, SendMayFail = FALSE, ReleaseCalled = FALSE, MaxXid = 2 |
| `RenewalIsHalfLease` | the renewal time of an earlier lease counts as given (`dhcp.c:387`) | "If renewal time not specified, use 50% of lease time" (`dhcp.c:386`) | MCDhcp, Leases = {2, 4}, MaxTime = 4 |
| `OthersKept` | delete writes a FAT sector over a directory sector (`fat16.c:511`) | "Mark entry as deleted" (`fat16.c:508`) | MCFat16, DeleteSpec, MaxFailures = 0 |
| `FormattedAlike` | the second FAT copy lacks the reserved entries (`fat16.c:637`) | "Write first FAT sector for each FAT copy" (`fat16.c:628`) | MCFat16 |
| `ListenersAnswer` | a listener has local address 0 and is never found (`tcp.c:233`) | "Handle SYN to listening port" (`tcp.c:90`) | MCSockets, LocalIps = {1} |
| `AckCoversData` | the length of data is always taken as 20 (`tcp.c:151`) | "Calculate actual data length" (`tcp.c:151`) | MCSockets, SEQ_MODULUS = 32 |
| `SenderIsKnown` | no slot is found when all stamps are at or after the present (`arp.c:125`) | "Find empty slot or oldest entry" (`arp.c:116`) | MCNetwork |
| `AllRequestsSent` | the requests to an unresolved host all fail before the network is polled (`icmp.c:197`) | "Ping 4 times" (`shell.c:494`) | MCNetwork |
| `WholeLineShown` | only 90 columns are cleared, a line may be longer (`shell.c:566`) | "Helper to clear and redraw current command line" (`shell.c:561`) | MCShell |
| `PromptOnEmptyRow` | after the rows have wrapped, only the top one is cleared (`shell.c:72`) | "Clear old line" (`shell.c:71`) | MCShell |
| `WriteIsStored` | nobody looks for an error of the last sector, and the flush is sent while the drive may be busy with it (`ata.c:237`) | "Flush cache" (`ata.c:236`) | MCDrivers |
| `TxSent` | a ring filled completely has tail = head, which is empty to the card (`e1000.c:281`) | "Update tail pointer to start transmission" (`e1000.c:294`) | MCDrivers |

Other behaviours of the code are exceptions in the formula of a property that a run checks.
To see one, drop the exception and run the cfg of that run:

| Property | What the code does | Exception in the formula |
|---|---|---|
| `PollReturns`, `PingReturns` | a segment for a connection that is gone is answered by a RST, also when it is a RST itself: over the loopback the two go on for ever (`tcp.c:106`), although the shell says "Process network packets (keep DHCP working)" (`shell.c:704`) | `SegmentOnLo` |
| `PollReturns`, `PingReturns` | a poll goes on as long as the card has frames (`network.c:133`), and the limit of ping is looked at between polls (`icmp.c:203`) | `HostsPause` |
| `OperationsEnd` | a failed read of the FAT returns 0xFFF7 (`fat16.c:44`), which the loop that frees a chain follows as a cluster (`fat16.c:420`): on a drive that stays broken, to itself for ever | `health # "good"` |
| `ScreenShowsCommand` | `draw_char` does not stop at the right edge and draws into the next scan line (`graphic.c:147`) | `fits` |
| `Acquires` | an OFFER is handled once; when its REQUEST is not sent, the client waits for ever (`dhcp.c:365`) | `send_failed` |
| `ChainsApart`, `FilesIntact` | when a write of the FAT fails its result is ignored (`fat16.c:444`), and after a power failure an entry may lead to clusters that were freed (`fat16.c:424`): two files share clusters | `failures = 0` |

And one is in no formula: a name longer than 8.3 is cut when it is stored (`fat16.c:123`) and
compared as typed (`fat16.c:91`), so it is never found again, and creating it again adds one
more entry with the same stored name. `FilesIntact` is about stored names.

## 7. Plan

Done in this order: scheduler, page allocator, keyboard, heap, DHCP, FAT16, sockets,
ARP and ping, E1000; then virtual memory and the composition of everything that takes
pages, the network stack around ARP and ping, the shell, the disk driver and the
composition of the two polling drivers. Next, in the order of what they would add:

1. `Fat16` on `Ata` instead of its own disk: writes that are stored after the call has
   returned.

## 8. Not modelled

- `pci/`, `acpi/`, `gdt/`, and the descriptor table of `interrupt/`: tables written once at
  boot and port I/O. The probe of the card starts where PCI has found it or not.
- `graphic/` but for what overwrites what on the shell's rows, and `debug/`: output and
  formatting.
- The text commands print, and the arguments they parse.
- Checksums, header layout, byte order, `inet_addr`: stateless conversions no property
  here depends on.
- `sched/switch.s`: `context_switch` is taken to save and restore what it says.
- `keyboard_get_event` is declared and never defined; the DHCP debug simulation is
  compiled out of the kernel's use.
