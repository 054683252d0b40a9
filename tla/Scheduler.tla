----------------------------- MODULE Scheduler -----------------------------
(***************************************************************************)
(* The thread scheduler of the kernel: src/sched/scheduler.c, the thread   *)
(* life cycle of src/sched/thread.c and the timer interrupt that drives    *)
(* them (timer_irq_handler of src/timer/timer.c).                          *)
(*                                                                         *)
(* The queues are modelled as the code keeps them: intrusive lists through *)
(* the next/prev fields of the thread control blocks, with head and tail   *)
(* pointers per priority, so that a thread linked twice really corrupts    *)
(* the list.  A scheduler call runs between cli and sti and is one step;   *)
(* the timer interrupt can fall between any two steps of a thread.         *)
(*                                                                         *)
(* Times are kept relative to the tick counter: wake_in is                 *)
(* wake_time - ticks, never below 0 (an overdue thread is not told apart   *)
(* from one that is just due).  The statistics that only ever grow         *)
(* (switches, boosts, demotions, idle ticks, total ticks) are left out.    *)
(***************************************************************************)
EXTENDS Integers, Sequences, FiniteSets, Functions

CONSTANTS
  Threads,                   \* thread control blocks that may be created
  Idle,                      \* the idle thread's control block
  NULL,                      \* the null pointer
  PRIORITY_LEVELS, PRIORITY_NORMAL, PRIORITY_LOW,
  TIME_SLICE_BASE_MS, SLICE_STEP,
  CPU_HISTORY_SAMPLES, PRIORITY_BOOST_THRESHOLD, PRIORITY_DEMOTE_THRESHOLD,
  U8,                        \* 256: a uint8_t holds 0..U8-1
  COUNTER_WIDTH,             \* number of values of a statistics counter
  TICK_WIDTH,                \* number of values of ticks_used_this_slice
  MaxSleep,                  \* longest thread_sleep_ms argument
  BasePriorities,            \* priorities thread_create_priority is given
  NewPriorities,             \* priorities thread_set_priority is given
  Calls,                     \* the scheduler calls the threads make
  Cooperative                \* TRUE: no time slice is ever used up

PRIORITY_REALTIME == 0

PRIORITY_IDLE == PRIORITY_LEVELS - 1

Priorities == 0 .. PRIORITY_LEVELS - 1

Thread == Threads \cup {Idle}

ASSUME ThreadAssumption ==
  /\ IsFiniteSet(Threads)
  /\ Idle \notin Threads
  /\ NULL \notin Thread

ASSUME PriorityAssumption ==
  /\ PRIORITY_LEVELS \in Nat \ {0, 1}
  /\ PRIORITY_LOW \in 1 .. PRIORITY_IDLE
  /\ PRIORITY_NORMAL \in 0 .. PRIORITY_LOW
  /\ BasePriorities \subseteq Nat
  /\ NewPriorities \subseteq Nat

ASSUME SliceAssumption ==
  /\ TIME_SLICE_BASE_MS \in Nat
  /\ SLICE_STEP \in Nat
  /\ TIME_SLICE_BASE_MS + SLICE_STEP > 0
  /\ CPU_HISTORY_SAMPLES \in Nat \ {0}
  /\ PRIORITY_BOOST_THRESHOLD \in Nat
  /\ PRIORITY_DEMOTE_THRESHOLD \in Nat

ASSUME WidthAssumption ==
  /\ U8 \in Nat \ {0}
  /\ COUNTER_WIDTH \in Nat \ {0}
  /\ TICK_WIDTH \in Nat \ {0}
  /\ MaxSleep \in Nat

ASSUME WorkloadAssumption ==
  /\ Calls \subseteq {"yield", "sleep", "exit", "block", "block_other", "add_ready", "remove",
                     "set_priority"}
  /\ Cooperative \in BOOLEAN

States == {"NONE", "CREATED", "READY", "RUNNING", "BLOCKED", "SLEEPING", "TERMINATED"}

VARIABLES
  m,                  \* the queues: heads, tails, links, states, counters
  tcb,                \* per thread: priorities, time slice, wake time
  usage,              \* per thread: CPU usage history and its average
  current_thread,
  scheduler_running,
  need_reschedule,
  mode,               \* "open", or in a loop with interrupts disabled: "wake", "insert"
  cursor,             \* the local variable prev of enqueue_sleep
  pc,                 \* where each thread is between two scheduler calls
  wake_local          \* the local variable wake_time of thread_sleep_ms

vars == <<m, tcb, usage, current_thread, scheduler_running, need_reschedule,
          mode, cursor, pc, wake_local>>

-----------------------------------------------------------------------------
(* Queue operations: each maps the queue memory to the one the C function leaves. *)

Incr(n) == (n + 1) % COUNTER_WIDTH

Decr(n) == (n - 1) % COUNTER_WIDTH

\* Fault: the thread is put in front of the queue.
enqueue_ready_front(q, t, p) ==
  LET head   == q.heads[p]
      linked == IF head = NULL
                THEN [q EXCEPT !.next[t] = NULL, !.prev[t] = NULL, !.tails[p] = t]
                ELSE [q EXCEPT !.next[t] = head, !.prev[t] = NULL, !.prev[head] = t]
  IN [linked EXCEPT !.heads[p] = t, !.state[t] = "READY", !.threads_ready = Incr(@)]

enqueue_ready(q, t, p) ==
  LET tail   == q.tails[p]
      linked == IF tail = NULL
                THEN [q EXCEPT !.next[t] = NULL, !.prev[t] = tail, !.heads[p] = t]
                ELSE [q EXCEPT !.next[t] = NULL, !.prev[t] = tail, !.next[tail] = t]
  IN [linked EXCEPT !.tails[p] = t, !.state[t] = "READY", !.threads_ready = Incr(@)]

\* Fault: the new head keeps its prev pointer.
dequeue_ready_stale_prev(q, p) ==
  LET t == q.heads[p]
  IN [q EXCEPT !.heads[p] = q.next[t], !.tails[p] = IF q.next[t] = NULL THEN NULL ELSE @,
               !.next[t] = NULL, !.prev[t] = NULL, !.threads_ready = Decr(@)]

dequeue_ready(q, p) ==
  LET t       == q.heads[p]
      head    == q.next[t]
      advanced == IF head = NULL
                  THEN [q EXCEPT !.heads[p] = NULL, !.tails[p] = NULL]
                  ELSE [q EXCEPT !.heads[p] = head, !.prev[head] = NULL]
  IN [advanced EXCEPT !.next[t] = NULL, !.prev[t] = NULL, !.threads_ready = Decr(@)]

remove_from_ready(q, t, p) ==
  LET before == IF q.prev[t] = NULL
                THEN [q EXCEPT !.heads[p] = q.next[t]]
                ELSE [q EXCEPT !.next[q.prev[t]] = q.next[t]]
      after  == IF before.next[t] = NULL
                THEN [before EXCEPT !.tails[p] = before.prev[t]]
                ELSE [before EXCEPT !.prev[before.next[t]] = before.prev[t]]
  IN [after EXCEPT !.next[t] = NULL, !.prev[t] = NULL, !.threads_ready = Decr(@)]

\* enqueue_sleep, before, in and after its loop.
asleep(q, t) == [q EXCEPT !.state[t] = "SLEEPING", !.next[t] = NULL]

\* Fault: the sleep queue loses the threads behind the new first one.
link_first_drops(q, t) ==
  [q EXCEPT !.sleep_queue = t, !.threads_sleeping = Incr(@)]

link_first(q, t) ==
  [q EXCEPT !.next[t] = q.sleep_queue, !.sleep_queue = t, !.threads_sleeping = Incr(@)]

link_after(q, x, t) ==
  [q EXCEPT !.next[t] = q.next[x], !.next[x] = t, !.threads_sleeping = Incr(@)]

\* One turn of the loop of wake_expired_sleepers.
wake_first_sleeper(q) ==
  LET t == q.sleep_queue
  IN enqueue_ready([q EXCEPT !.sleep_queue = q.next[t], !.next[t] = NULL,
                             !.threads_sleeping = Decr(@)],
                   t, tcb[t].priority)

-----------------------------------------------------------------------------
(* Adaptive priority: each maps a control block to the one the C function leaves. *)

calculate_time_slice(p) == TIME_SLICE_BASE_MS + (PRIORITY_LEVELS - p) * SLICE_STEP

UsageOfSlice(r) == ((r.ticks_used * 100) \div r.time_slice_length) % U8

update_cpu_usage(h, percent) ==
  LET samples == [h.history EXCEPT ![h.history_index] = percent]
  IN [history |-> samples,
      history_index |-> (h.history_index + 1) % CPU_HISTORY_SAMPLES,
      avg_cpu_usage |-> (SumFunction(samples) \div CPU_HISTORY_SAMPLES) % U8]

SetPriority(r, p) == [r EXCEPT !.priority = p, !.time_slice_length = calculate_time_slice(p)]

\* Fault: a demotion keeps the old slice length.
adjust_priority_old_slice(r, avg, t) ==
  IF t = Idle \/ r.base_priority = PRIORITY_REALTIME
  THEN r
  ELSE IF avg > PRIORITY_DEMOTE_THRESHOLD /\ r.priority < PRIORITY_LOW
  THEN [r EXCEPT !.priority = @ + 1]
  ELSE r

adjust_priority(r, avg, t) ==
  IF t = Idle \/ r.base_priority = PRIORITY_REALTIME
  THEN r
  ELSE IF avg > PRIORITY_DEMOTE_THRESHOLD
  THEN IF r.priority < PRIORITY_LOW THEN SetPriority(r, r.priority + 1) ELSE r
  ELSE IF avg < PRIORITY_BOOST_THRESHOLD /\ r.priority > r.base_priority
  THEN SetPriority(r, r.priority - 1)
  ELSE r

NewThread(p) ==
  [priority |-> p, base_priority |-> p,
   time_slice |-> calculate_time_slice(p), time_slice_length |-> calculate_time_slice(p),
   ticks_used |-> 0, wake_in |-> 0]

NewUsage ==
  [history |-> [i \in 0 .. CPU_HISTORY_SAMPLES - 1 |-> 50], history_index |-> 0,
   avg_cpu_usage |-> 50]

-----------------------------------------------------------------------------
\* The state scheduler_init leaves: empty queues and the idle thread, READY
\* but on no queue.  No other thread exists.
Init ==
  /\ m = [heads |-> [p \in Priorities |-> NULL], tails |-> [p \in Priorities |-> NULL],
          next |-> [t \in Thread |-> NULL], prev |-> [t \in Thread |-> NULL],
          sleep_queue |-> NULL,
          state |-> [t \in Thread |-> IF t = Idle THEN "READY" ELSE "NONE"],
          threads_ready |-> 0, threads_sleeping |-> 0, threads_blocked |-> 0]
  /\ tcb = [t \in Thread |-> NewThread(IF t = Idle THEN PRIORITY_IDLE ELSE PRIORITY_NORMAL)]
  /\ usage = [t \in Thread |-> NewUsage]
  /\ current_thread = NULL
  /\ scheduler_running = FALSE
  /\ need_reschedule = FALSE
  /\ mode = "open"
  /\ cursor = NULL
  /\ pc = [t \in Thread |-> "run"]
  /\ wake_local = [t \in Thread |-> 0]

\* The choices of pick_next_thread on the queues q: the head of the best
\* non-empty queue, otherwise the idle thread, and the queues this leaves.
pick_next_thread(q) ==
  (IF \A p \in Priorities : q.heads[p] = NULL THEN {<<Idle, q>>} ELSE {})
  \cup {<<q.heads[p], dequeue_ready(q, p)>> :
          p \in {b \in Priorities : /\ q.heads[b] # NULL
                                    /\ \A r \in Priorities : r < b => q.heads[r] = NULL}}

\* switch_to: picking the thread that already runs changes neither its state
\* nor its time slice.
switch_to(next, q, c) ==
  IF next = current_thread
  THEN /\ m' = q
       /\ tcb' = c
       /\ UNCHANGED current_thread
  ELSE /\ m' = [q EXCEPT !.state[next] = "RUNNING"]
       /\ tcb' = [c EXCEPT ![next].time_slice = c[next].time_slice_length,
                           ![next].ticks_used = 0]
       /\ current_thread' = next

\* schedule(): q and c are the queues and control blocks when it is called.
schedule(q, c) == \E pick \in pick_next_thread(q) : switch_to(pick[1], pick[2], c)

\* A thread's own code can act: no interrupt handler is running.
OnCPU(t) == mode = "open" /\ current_thread = t /\ t # Idle

Runs(t) == OnCPU(t) /\ pc[t] = "run"

\* The kernel's main function before the scheduler starts, then any thread.
KernelCodeRuns == ~scheduler_running \/ \E caller \in Threads : Runs(caller)

\* thread_create_priority.  When a page allocation fails nothing changes here.
Create(t, priority) ==
  /\ KernelCodeRuns
  /\ m.state[t] = "NONE"
  /\ tcb' = [tcb EXCEPT ![t] = NewThread(IF priority >= PRIORITY_LEVELS
                                         THEN PRIORITY_NORMAL ELSE priority)]
  /\ usage' = [usage EXCEPT ![t] = NewUsage]
  /\ m' = [m EXCEPT !.state[t] = "CREATED"]
  /\ UNCHANGED <<current_thread, scheduler_running, need_reschedule, mode, cursor, pc, wake_local>>

\* Nothing is checked: a READY thread is linked again, wherever it is.
scheduler_add(t) ==
  /\ KernelCodeRuns
  /\ m.state[t] = "CREATED" \/ ("add_ready" \in Calls /\ m.state[t] = "READY")
  /\ m' = enqueue_ready(m, t, tcb[t].priority)
  /\ UNCHANGED <<tcb, usage, current_thread, scheduler_running, need_reschedule,
                 mode, cursor, pc, wake_local>>

\* Unlike switch_to, the first thread keeps the time slice it was created with.
scheduler_start ==
  /\ ~scheduler_running
  /\ scheduler_running' = TRUE
  /\ \E pick \in pick_next_thread(m) :
       /\ current_thread' = pick[1]
       /\ m' = [pick[2] EXCEPT !.state[pick[1]] = "RUNNING"]
  /\ UNCHANGED <<tcb, usage, need_reschedule, mode, cursor, pc, wake_local>>

-----------------------------------------------------------------------------
(* The timer interrupt *)

\* The last tick of a time slice, for a thread that is not the idle thread.
SliceEnds == current_thread # Idle /\ tcb[current_thread].time_slice <= 1

Closer(w) == IF w > 0 THEN w - 1 ELSE 0

\* timer_irq_handler is entered: one more tick, every wake time is one tick nearer.
timer_irq_handler ==
  /\ scheduler_running
  /\ mode = "open"
  /\ tcb' = [t \in Thread |-> [tcb[t] EXCEPT !.wake_in = Closer(@)]]
  /\ wake_local' = [t \in Thread |-> Closer(wake_local[t])]
  /\ mode' = "wake"
  /\ UNCHANGED <<m, usage, current_thread, scheduler_running, need_reschedule, cursor, pc>>

SleeperDue == m.sleep_queue # NULL /\ tcb[m.sleep_queue].wake_in <= 0

wake_expired_sleepers ==
  /\ mode = "wake"
  /\ SleeperDue
  /\ m' = wake_first_sleeper(m)
  /\ UNCHANGED <<tcb, usage, current_thread, scheduler_running, need_reschedule,
                 mode, cursor, pc, wake_local>>

ChargeTick(r) ==
  [r EXCEPT !.ticks_used = (@ + 1) % TICK_WIDTH, !.time_slice = IF @ > 0 THEN @ - 1 ELSE 0]

\* The rest of scheduler_tick: charge the tick to the current thread and, at
\* the end of its slice, queue it although it goes on running.
scheduler_tick ==
  /\ mode = "wake"
  /\ ~SleeperDue
  /\ LET t == current_thread
         r == ChargeTick(tcb[t])
         h == update_cpu_usage(usage[t], IF UsageOfSlice(r) > 100 THEN 100 ELSE UsageOfSlice(r))
         a == adjust_priority(r, h.avg_cpu_usage, t)
     IN IF r.time_slice = 0 /\ t # Idle
        THEN /\ usage' = [usage EXCEPT ![t] = h]
             /\ tcb' = [tcb EXCEPT ![t] = a]
             /\ m' = enqueue_ready(m, t, a.priority)
             /\ need_reschedule' = TRUE
        ELSE /\ tcb' = [tcb EXCEPT ![t] = r]
             /\ UNCHANGED <<m, usage, need_reschedule>>
  /\ mode' = "open"
  /\ UNCHANGED <<current_thread, scheduler_running, cursor, pc, wake_local>>

-----------------------------------------------------------------------------
(* Calls of the running thread *)

\* scheduler_yield, also the second half of thread_exit: pc "exit" becomes the
\* halt loop a terminated thread would be in if it were ever resumed.
scheduler_yield(t) ==
  /\ OnCPU(t)
  /\ (pc[t] = "run" /\ "yield" \in Calls) \/ pc[t] = "exit"
  /\ need_reschedule' = FALSE
  /\ LET h == update_cpu_usage(usage[t], UsageOfSlice(tcb[t]))
         r == adjust_priority(tcb[t], h.avg_cpu_usage, t)
         q == IF m.state[t] = "TERMINATED" THEN m ELSE enqueue_ready(m, t, r.priority)
     IN /\ usage' = [usage EXCEPT ![t] = h]
        /\ schedule(q, [tcb EXCEPT ![t] = r])
  /\ pc' = [pc EXCEPT ![t] = IF @ = "exit" THEN "halt" ELSE "run"]
  /\ UNCHANGED <<scheduler_running, mode, cursor, wake_local>>

\* thread_exit marks the thread before it yields, with interrupts enabled.
thread_exit(t) ==
  /\ Runs(t)
  /\ "exit" \in Calls
  /\ m' = [m EXCEPT !.state[t] = "TERMINATED"]
  /\ pc' = [pc EXCEPT ![t] = "exit"]
  /\ UNCHANGED <<tcb, usage, current_thread, scheduler_running, need_reschedule,
                 mode, cursor, wake_local>>

\* thread_sleep_ms computes the wake time before scheduler_sleep disables interrupts.
thread_sleep_ms(t, ms) ==
  /\ Runs(t)
  /\ "sleep" \in Calls
  /\ wake_local' = [wake_local EXCEPT ![t] = ms]
  /\ pc' = [pc EXCEPT ![t] = "sleep"]
  /\ UNCHANGED <<m, tcb, usage, current_thread, scheduler_running, need_reschedule, mode, cursor>>

\* scheduler_sleep: a thread due before the first sleeper is linked at once,
\* any other one enters the loop that looks for its place.
scheduler_sleep(t) ==
  /\ OnCPU(t)
  /\ pc[t] = "sleep"
  /\ LET w == wake_local[t]
         c == [tcb EXCEPT ![t].wake_in = w]
         q == asleep(m, t)
     IN IF q.sleep_queue = NULL \/ w < c[q.sleep_queue].wake_in
        THEN /\ schedule(link_first(q, t), c)
             /\ pc' = [pc EXCEPT ![t] = "run"]
             /\ UNCHANGED <<mode, cursor>>
        ELSE /\ m' = q
             /\ tcb' = c
             /\ mode' = "insert"
             /\ cursor' = q.sleep_queue
             /\ UNCHANGED <<current_thread, pc>>
  /\ wake_local' = [wake_local EXCEPT ![t] = 0]
  /\ UNCHANGED <<usage, scheduler_running, need_reschedule>>

\* Fault: the search for a thread's place stops at the first sleeper.
WalkOn_never == FALSE

\* The sleeper after the cursor is due no later than the current thread.
WalkOn ==
  LET y == m.next[cursor]
  IN y # NULL /\ tcb[y].wake_in <= tcb[current_thread].wake_in

\* Fault: the loop does not advance its cursor.
sleep_walk_stuck ==
  /\ mode = "insert"
  /\ WalkOn
  /\ UNCHANGED vars

sleep_walk ==
  /\ mode = "insert"
  /\ WalkOn
  /\ cursor' = m.next[cursor]
  /\ UNCHANGED <<m, tcb, usage, current_thread, scheduler_running, need_reschedule,
                 mode, pc, wake_local>>

sleep_insert ==
  /\ mode = "insert"
  /\ ~WalkOn
  /\ schedule(link_after(m, cursor, current_thread), tcb)
  /\ mode' = "open"
  /\ cursor' = NULL
  /\ pc' = [pc EXCEPT ![current_thread] = "run"]
  /\ UNCHANGED <<usage, scheduler_running, need_reschedule, wake_local>>

\* Another thread is only marked: it stays on the list it is on.
scheduler_block(caller, t) ==
  /\ Runs(caller)
  /\ (IF t = caller THEN "block" ELSE "block_other") \in Calls
  /\ m.state[t] # "NONE"
  /\ LET q == [m EXCEPT !.state[t] = "BLOCKED", !.threads_blocked = Incr(@)]
     IN IF t = current_thread
        THEN schedule(q, tcb)
        ELSE m' = q /\ UNCHANGED <<tcb, current_thread>>
  /\ UNCHANGED <<usage, scheduler_running, need_reschedule, mode, cursor, pc, wake_local>>

\* By another thread, or by an interrupt handler while any thread runs.
scheduler_unblock(t) ==
  /\ scheduler_running
  /\ mode = "open"
  /\ m.state[t] = "BLOCKED"
  /\ m' = enqueue_ready([m EXCEPT !.threads_blocked = Decr(@)], t, tcb[t].priority)
  /\ UNCHANGED <<tcb, usage, current_thread, scheduler_running, need_reschedule,
                 mode, cursor, pc, wake_local>>

\* The running thread removes another thread: only a READY one is unlinked.
scheduler_remove(t) ==
  /\ "remove" \in Calls
  /\ \E caller \in Threads \ {t} : Runs(caller)
  /\ m.state[t] = "READY"
  /\ m' = remove_from_ready(m, t, tcb[t].priority)
  /\ UNCHANGED <<tcb, usage, current_thread, scheduler_running, need_reschedule,
                 mode, cursor, pc, wake_local>>

\* thread_set_priority does not move a queued thread to its new queue, and
\* does nothing for a priority out of range.
thread_set_priority(t, p) ==
  /\ "set_priority" \in Calls /\ p < PRIORITY_LEVELS
  /\ \E caller \in Threads : Runs(caller)
  /\ m.state[t] # "NONE"
  /\ tcb' = [tcb EXCEPT ![t] = SetPriority(tcb[t], p)]
  /\ UNCHANGED <<m, usage, current_thread, scheduler_running, need_reschedule,
                 mode, cursor, pc, wake_local>>

ThreadStep(t) ==
  \/ scheduler_yield(t)
  \/ thread_exit(t)
  \/ \E ms \in 0 .. MaxSleep : thread_sleep_ms(t, ms)
  \/ scheduler_sleep(t)
  \/ \E u \in Threads : scheduler_block(t, u)

\* A workload in which every thread makes a call before its slice ends.
InTime == Cooperative => ~SliceEnds

Tick == timer_irq_handler /\ InTime

Interrupt == Tick \/ wake_expired_sleepers \/ scheduler_tick

\* The loop of enqueue_sleep, in the name of the current thread.
Insertion == sleep_walk \/ sleep_insert

Next ==
  \/ \E t \in Threads, p \in BasePriorities : Create(t, p)
  \/ \E t \in Threads : scheduler_add(t)
  \/ scheduler_start
  \/ Interrupt
  \/ Insertion
  \/ \E t \in Threads : ThreadStep(t)
  \/ \E t \in Threads : scheduler_unblock(t)
  \/ \E t \in Threads : scheduler_remove(t)
  \/ \E t \in Threads, p \in NewPriorities : thread_set_priority(t, p)

Spec == Init /\ [][Next]_vars

\* Interrupts are enabled whenever a thread runs, so the timer keeps firing and
\* its handler keeps executing; nothing obliges a thread to make a call.
TimerFairness ==
  /\ WF_vars(Tick)
  /\ WF_vars(wake_expired_sleepers \/ scheduler_tick)
  /\ WF_vars(Insertion)

FairSpec == Spec /\ TimerFairness

-----------------------------------------------------------------------------
(* What the lists hold *)

\* The first Cardinality(Thread) + 1 pointers of the list that starts at h.
ChainOf(next, h) ==
  LET at[n \in 0 .. Cardinality(Thread)] ==
        IF n = 0 THEN h
        ELSE LET t == at[n-1] IN IF t = NULL THEN NULL ELSE next[t]
  IN at

Chain(h) == ChainOf(m.next, h)

Members(h) == IF h = NULL THEN {} ELSE Range(Chain(h)) \ {NULL}

\* The list ends, so it has no cycle.
Terminates(h) == Chain(h)[Cardinality(Thread)] = NULL

Queued == UNION {Members(m.heads[p]) : p \in Priorities}

Sleeping == Members(m.sleep_queue)

-----------------------------------------------------------------------------
(* Properties *)

ThreadFields ==
  [priority : Priorities, base_priority : Priorities, time_slice : Nat,
   time_slice_length : Nat, ticks_used : 0 .. TICK_WIDTH - 1, wake_in : 0 .. MaxSleep]

UsageFields ==
  [history : [0 .. CPU_HISTORY_SAMPLES - 1 -> 0 .. U8 - 1],
   history_index : 0 .. CPU_HISTORY_SAMPLES - 1, avg_cpu_usage : 0 .. U8 - 1]

Pointer == Thread \cup {NULL}

QueueMemory ==
  [heads : [Priorities -> Pointer], tails : [Priorities -> Pointer],
   next : [Thread -> Pointer], prev : [Thread -> Pointer],
   sleep_queue : Pointer, state : [Thread -> States],
   threads_ready : 0 .. COUNTER_WIDTH - 1, threads_sleeping : 0 .. COUNTER_WIDTH - 1,
   threads_blocked : 0 .. COUNTER_WIDTH - 1]

\* Every field but the usage history holds a value of its C type, and a thread
\* runs once the scheduler has started.
TypeOK ==
  /\ m \in QueueMemory
  /\ tcb \in [Thread -> ThreadFields]
  /\ current_thread \in Pointer
  /\ scheduler_running \in BOOLEAN
  /\ scheduler_running <=> current_thread # NULL
  /\ need_reschedule \in BOOLEAN
  /\ mode \in {"open", "wake", "insert"}
  /\ mode # "open" => scheduler_running
  /\ cursor \in Pointer
  /\ mode = "insert" => cursor # NULL
  /\ pc \in [Thread -> {"run", "exit", "sleep", "halt"}]
  /\ wake_local \in [Thread -> 0 .. MaxSleep]

\* The history is a ring of uint8_t samples written through its index, and the
\* average is one of them too.
UsageTypeOK == usage \in [Thread -> UsageFields]

\* Each ready list is a proper doubly linked list (it ends at its tail, prev
\* undoes next) of threads that wait at that priority and at no other place;
\* enqueue_ready, dequeue_ready and remove_from_ready keep this only as long as
\* no thread is queued twice.
ReadyListsSound ==
  \A p \in Priorities :
    LET h == m.heads[p] IN
    /\ Terminates(h)
    /\ h = NULL <=> m.tails[p] = NULL
    /\ h # NULL => m.prev[h] = NULL /\ m.tails[p] \in Members(h)
    /\ \A t \in Members(h) :
         /\ m.next[t] = NULL <=> t = m.tails[p]
         /\ m.next[t] # NULL => m.prev[m.next[t]] = t
         /\ tcb[t].priority = p
         /\ t \notin Sleeping \cup {current_thread, Idle}

\* The scheduler finds every thread that waits: a READY thread that is neither
\* running nor the idle thread is on a ready list, a SLEEPING one on the sleep
\* list, and nobody else is on either.  "Current thread goes back to ready
\* queue" (scheduler.h) would mean nothing for a thread no list leads to.
NoThreadLost ==
  \A t \in Threads \ {current_thread} :
    /\ m.state[t] = "READY" <=> t \in Queued
    /\ m.state[t] = "SLEEPING" <=> t \in Sleeping

\* threads_ready, threads_sleeping and threads_blocked count what their
\* comments in scheduler.h say: the threads that are ready, sleeping, blocked.
StatisticsExact ==
  /\ m.threads_ready = Cardinality(Queued)
  /\ m.threads_sleeping = Cardinality(Sleeping)
  /\ m.threads_blocked = Cardinality({t \in Threads : m.state[t] = "BLOCKED"})

\* The lists are sound and the counters count what is on them.
QueuesSound == ReadyListsSound /\ StatisticsExact

\* wake_expired_sleepers stops at the first thread that is not due, so it wakes
\* everyone only if enqueue_sleep keeps the list sorted: when the timer handler
\* ends, no thread is still asleep whose time has come.
NoOversleep ==
  [][ mode = "wake" /\ mode' = "open" =>
        \A t \in Threads : m'.state[t] = "SLEEPING" => tcb'[t].wake_in > 0 ]_vars

\* The loops of wake_expired_sleepers and enqueue_sleep, which run with
\* interrupts disabled, always end: they would not on a cyclic list.
LoopsEnd == mode # "open" ~> mode = "open"

\* t waits, and nobody who waits or runs has a better priority.
WaitsFirst(t) ==
  /\ m.state[t] = "READY"
  /\ current_thread \in Threads \ {t}
  /\ \A u \in Threads : m.state[u] = "READY" \/ u = current_thread
                        => tcb[t].priority <= tcb[u].priority

\* The thread that has the processor goes on to a scheduler call, as the shell
\* and the workers do: weak fairness of ThreadStep, whose guard is this one.
ThreadsCall ==
  \/ []<>~(mode = "open" /\ current_thread \in Threads)
  \/ []<><<\E t \in Threads : ThreadStep(t)>>_vars

\* If threads go on making calls, then none waits for ever at the best priority
\* there is: others that yield, wake up or are demoted and boosted again do not
\* overtake it time after time (enqueue_ready, pick_next_thread).
ReadyRuns == ThreadsCall => \A t \in Threads : []<>(~WaitsFirst(t))

WithinBounds(r) ==
  /\ r.base_priority <= r.priority
  /\ r.priority # r.base_priority => r.priority <= PRIORITY_LOW
  /\ r.base_priority \in {PRIORITY_REALTIME, PRIORITY_IDLE} => r.priority = r.base_priority

\* adjust_priority never promotes a thread above the priority it was created
\* with, never demotes it below PRIORITY_LOW, and leaves realtime and idle
\* threads alone.
PriorityBounds == \A t \in Thread : WithinBounds(tcb[t])

SliceFits(r) ==
  /\ r.time_slice_length = calculate_time_slice(r.priority)
  /\ r.time_slice <= calculate_time_slice(PRIORITY_REALTIME)

\* However often adjust_priority and thread_set_priority change a priority, the
\* slice length is the one of the current priority, and no thread is ever
\* granted more than a realtime slice.
SliceMatchesPriority == \A t \in Thread : SliceFits(tcb[t])

-----------------------------------------------------------------------------
(* The pointer structure implements the queues of RunQueues. *)

AsSequence(h) ==
  IF h = NULL THEN << >>
  ELSE LET chain == Chain(h)
           length == Cardinality({n \in DOMAIN chain : chain[n] # NULL})
       IN  [i \in 1 .. length |-> chain[i-1]]

Abstract ==
  INSTANCE RunQueues WITH
    rq <- [p \in Priorities |-> AsSequence(m.heads[p])],
    sleepers <- Sleeping,
    cur <- current_thread

\* As long as no slice runs out, the linked lists behave as FIFO queues with
\* strict priority: every call and every interrupt is a step of RunQueues.
ImplementsRunQueues == Abstract!AbsSpec

-----------------------------------------------------------------------------
(* What comments of the code claim *)

\* "Should never get here" (thread.c, of the code behind the last yield of
\* thread_exit): a thread that has exited never gets the processor again.  A tick
\* that ends its slice after the mark and before that yield queues it as READY.
ExitIsFinal == \A t \in Threads : pc[t] = "halt" => t # current_thread

\* "Handles preemption" (scheduler.h, of scheduler_tick): a ready thread whose
\* priority is at least as good as the running thread's gets the processor in
\* the end, whatever the running thread does.
Preemption ==
  \A t \in Threads :
    (/\ t \in Queued \ {current_thread}
     /\ current_thread \in Threads
     /\ tcb[t].priority <= tcb[current_thread].priority)
      ~> (t = current_thread \/ t \notin Queued)

\* "Idle thread - runs when no other thread is ready" (scheduler.c).
IdleGivesWay ==
  (current_thread = Idle /\ Queued # {}) ~> (current_thread # Idle)

\* cpu_usage_history: "Recent CPU usage percentages" (thread.h).
UsageIsPercentage ==
  \A t \in Thread : usage[t].avg_cpu_usage <= 100

\* THREAD_STATE_RUNNING: "Currently executing" (thread.h).
RunningIsCurrent ==
  current_thread # NULL => m.state[current_thread] \in {"RUNNING", "TERMINATED"}

\* "Priority 0 (realtime): 25ms, Priority 3 (normal): 15ms, Priority 6 (idle):
\* 5ms" (thread.c, of calculate_time_slice).
DocumentedSlices ==
  \A t \in Thread :
    m.state[t] # "NONE" /\ tcb[t].priority \in {0, 3, 6} =>
      tcb[t].time_slice_length = 25 - (tcb[t].priority * 10) \div 3

=============================================================================
