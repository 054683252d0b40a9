---------------------------- MODULE KernelPages ----------------------------
(***************************************************************************)
(* The users of the page allocator other than the heap, and what the       *)
(* memory modules share.  The kernel runs on one processor, interrupt      *)
(* handlers do not allocate, and none of the calls modelled here yields:   *)
(* `kernel' names the one that is under way, "idle" when there is none and *)
(* "halted" once the page fault handler has given up.                      *)
(***************************************************************************)
EXTENDS PageAllocator

CONSTANTS
  NULL,
  PAGE,                \* size of a page
  KERNEL_STACK,        \* KERNEL_STACK_SIZE / 4096
  Machines             \* the machines the kernel is started on

ASSUME KernelPagesAssumption ==
  /\ NULL \notin Blocks
  /\ PAGE \in Nat \ {0} /\ KERNEL_STACK \in Nat \ {0}
  /\ Machines \subseteq [memory : 0 .. TotalBlocks, direct : BOOLEAN, card : BOOLEAN]

VARIABLES
  machine,             \* memory: blocks it has; card: has a usable E1000; direct: the boot
                       \* loader maps every page of memory at its physical address
  kernel,
  others,              \* runs taken from the page allocator by others than the heap
  thread_page,         \* thread_create_priority: the page for the control block
  threads              \* blocks of control blocks and kernel stacks

pagevars == <<used, live, booting>>

threadvars == <<thread_page, threads>>

PagesInit ==
  /\ machine \in Machines
  /\ used = machine.memory .. TotalBlocks - 1 /\ live = {} /\ booting = FALSE
  /\ kernel = "idle" /\ others = {} /\ thread_page = NULL /\ threads = {}

\* The n pages at b are taken for good, or nobody has n contiguous pages.
TakePages(b, n) == Take(b, n) /\ others' = others \cup {[start |-> b, count |-> n]}

NoPages(n) == \A b \in Blocks : ~FreeRun(b, n)

-----------------------------------------------------------------------------
(* thread_create_priority: a page for the control block, then the stack.    *)

create_thread ==
  /\ kernel = "idle"
  /\ \E b \in Blocks : TakePages(b, 1) /\ thread_page' = b
  /\ kernel' = "thread"
  /\ UNCHANGED <<machine, threads>>

create_stack ==
  /\ kernel = "thread"
  /\ \E b \in Blocks :
       /\ TakePages(b, KERNEL_STACK)
       /\ threads' = threads \cup {thread_page} \cup Run(b, KERNEL_STACK)
  /\ thread_page' = NULL
  /\ kernel' = "idle"
  /\ UNCHANGED machine

create_no_stack ==
  /\ kernel = "thread"
  /\ NoPages(KERNEL_STACK)
  /\ \E r \in others : /\ r.start = thread_page
                       /\ Release(r, 1)
                       /\ others' = others \ {r}
  /\ thread_page' = NULL
  /\ kernel' = "idle"
  /\ UNCHANGED <<machine, threads>>

ThreadCalls == create_thread \/ create_stack \/ create_no_stack

ThreadBlocks == threads \cup ({thread_page} \ {NULL})

\* The handler's last instructions: cli, hlt for ever.
hlt_loop == kernel = "halted" /\ UNCHANGED <<machine, kernel, others, pagevars, threadvars>>
=============================================================================
