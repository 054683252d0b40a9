-------------------------- MODULE SchedulerProofs --------------------------
(***************************************************************************)
(* Theorems about Scheduler, for every number of threads and priorities,   *)
(* every slice length and every workload: the pointer structure keeps its  *)
(* types (no call ever follows a null or dangling pointer), priorities     *)
(* stay inside their bounds and slice lengths match priorities.            *)
(*                                                                         *)
(* Further, as long as no time slice runs out and no thread is removed or  *)
(* given a priority: the linked lists hold exactly the threads that wait,  *)
(* no thread is lost or oversleeps, and the lists behave as the queues of  *)
(* RunQueues.  The argument describes the pointers by sequences rq (one    *)
(* per priority) and sl (the sleepers), shows what each queue operation    *)
(* does to those, and lifts this through schedule() to every step.         *)
(***************************************************************************)
EXTENDS Scheduler, FiniteSetTheorems, TLAPS

-----------------------------------------------------------------------------
(* The queue operations map queue memories to queue memories. *)

\* A statistics counter stays in its width, whichever way it is stepped.
LEMMA CounterType ==
  ASSUME NEW n \in 0 .. COUNTER_WIDTH - 1
  PROVE  Incr(n) \in 0 .. COUNTER_WIDTH - 1 /\ Decr(n) \in 0 .. COUNTER_WIDTH - 1
BY WidthAssumption DEF Incr, Decr

\* enqueue_ready links existing threads only.
LEMMA EnqueueReadyType ==
  ASSUME NEW q \in QueueMemory, NEW t \in Thread, NEW p \in Priorities
  PROVE  enqueue_ready(q, t, p) \in QueueMemory
<1>1. q.tails[p] \in Pointer
  BY DEF QueueMemory
<1>2. CASE q.tails[p] = NULL
  <2> DEFINE linked == [q EXCEPT !.next[t] = NULL, !.prev[t] = NULL, !.heads[p] = t]
  <2>1. linked \in QueueMemory
    BY DEF QueueMemory, Pointer
  <2>2. enqueue_ready(q, t, p) =
          [linked EXCEPT !.tails[p] = t, !.state[t] = "READY", !.threads_ready = Incr(@)]
    BY <1>2 DEF enqueue_ready
  <2> HIDE DEF linked
  <2>3. [linked EXCEPT !.tails[p] = t, !.state[t] = "READY", !.threads_ready = Incr(@)]
          \in QueueMemory
    BY <2>1, CounterType DEF QueueMemory, Pointer, States
  <2>4. QED
    BY <2>2, <2>3
<1>3. CASE q.tails[p] # NULL
  <2>1. q.tails[p] \in Thread
    BY <1>1, <1>3 DEF Pointer
  <2>2. QED
    BY <1>3, <2>1, CounterType DEF QueueMemory, enqueue_ready, Pointer, States
<1>4. QED
  BY <1>2, <1>3

\* dequeue_ready, called on a queue that is not empty.
LEMMA DequeueReadyType ==
  ASSUME NEW q \in QueueMemory, NEW p \in Priorities, q.heads[p] # NULL
  PROVE  q.heads[p] \in Thread /\ dequeue_ready(q, p) \in QueueMemory
<1>1. q.heads[p] \in Thread
  BY DEF QueueMemory, Pointer
<1>2. q.next[q.heads[p]] \in Pointer
  BY <1>1 DEF QueueMemory
<1>3. CASE q.next[q.heads[p]] = NULL
  <2> DEFINE advanced == [q EXCEPT !.heads[p] = NULL, !.tails[p] = NULL]
  <2>1. advanced \in QueueMemory
    BY DEF QueueMemory, Pointer
  <2>2. dequeue_ready(q, p) =
          [advanced EXCEPT !.next[q.heads[p]] = NULL, !.prev[q.heads[p]] = NULL,
                           !.threads_ready = Decr(@)]
    BY <1>3 DEF dequeue_ready
  <2> HIDE DEF advanced
  <2>3. [advanced EXCEPT !.next[q.heads[p]] = NULL, !.prev[q.heads[p]] = NULL,
                         !.threads_ready = Decr(@)] \in QueueMemory
    BY <1>1, <2>1, CounterType DEF QueueMemory, Pointer
  <2>4. QED
    BY <1>1, <2>2, <2>3
<1>4. CASE q.next[q.heads[p]] # NULL
  <2>1. q.next[q.heads[p]] \in Thread
    BY <1>2, <1>4 DEF Pointer
  <2>2. QED
    BY <1>1, <1>4, <2>1, CounterType DEF QueueMemory, dequeue_ready, Pointer
<1>5. QED
  BY <1>1, <1>3, <1>4

\* remove_from_ready, whatever list the thread is on.
LEMMA RemoveFromReadyType ==
  ASSUME NEW q \in QueueMemory, NEW t \in Thread, NEW p \in Priorities
  PROVE  remove_from_ready(q, t, p) \in QueueMemory
<1> DEFINE before == IF q.prev[t] = NULL
                     THEN [q EXCEPT !.heads[p] = q.next[t]]
                     ELSE [q EXCEPT !.next[q.prev[t]] = q.next[t]]
           after  == IF before.next[t] = NULL
                     THEN [before EXCEPT !.tails[p] = before.prev[t]]
                     ELSE [before EXCEPT !.prev[before.next[t]] = before.prev[t]]
<1>1. q.prev[t] \in Pointer /\ q.next[t] \in Pointer
  BY DEF QueueMemory
<1>2. before \in QueueMemory
  <2>1. CASE q.prev[t] = NULL
    BY <1>1, <2>1 DEF QueueMemory
  <2>2. CASE q.prev[t] # NULL
    <3>1. q.prev[t] \in Thread
      BY <1>1, <2>2 DEF Pointer
    <3>2. QED
      BY <1>1, <2>2, <3>1 DEF QueueMemory
  <2>3. QED
    BY <2>1, <2>2
<1> HIDE DEF before
<1>3. before.next[t] \in Pointer /\ before.prev[t] \in Pointer
  BY <1>2 DEF QueueMemory
<1>4. after \in QueueMemory
  <2>1. CASE before.next[t] = NULL
    BY <1>2, <1>3, <2>1 DEF QueueMemory
  <2>2. CASE before.next[t] # NULL
    <3>1. before.next[t] \in Thread
      BY <1>3, <2>2 DEF Pointer
    <3>2. QED
      BY <1>2, <1>3, <2>2, <3>1 DEF QueueMemory
  <2>3. QED
    BY <2>1, <2>2
<1> HIDE DEF after
<1>5. [after EXCEPT !.next[t] = NULL, !.prev[t] = NULL, !.threads_ready = Decr(@)] \in QueueMemory
  BY <1>4, CounterType DEF QueueMemory, Pointer
<1>6. QED
  BY <1>5 DEF remove_from_ready, after, before

-----------------------------------------------------------------------------
(* Control blocks *)

\* A slice length is a positive number of ticks, longest for realtime threads.
LEMMA SliceLength ==
  ASSUME NEW p \in Priorities
  PROVE  /\ calculate_time_slice(p) \in Nat
         /\ calculate_time_slice(p) <= calculate_time_slice(PRIORITY_REALTIME)
<1>1. PRIORITY_LEVELS - p \in Nat /\ PRIORITY_LEVELS \in Nat /\ PRIORITY_LEVELS - p <= PRIORITY_LEVELS
  BY PriorityAssumption DEF Priorities
<1>2. SLICE_STEP \in Nat /\ TIME_SLICE_BASE_MS \in Nat
  BY SliceAssumption
<1>3. \A k, n, s \in Nat : k <= n => k * s \in Nat /\ n * s \in Nat /\ k * s <= n * s
  OBVIOUS
<1>4. /\ (PRIORITY_LEVELS - p) * SLICE_STEP \in Nat
      /\ PRIORITY_LEVELS * SLICE_STEP \in Nat
      /\ (PRIORITY_LEVELS - p) * SLICE_STEP <= PRIORITY_LEVELS * SLICE_STEP
  BY <1>1, <1>2, <1>3
<1>5. PRIORITY_LEVELS - PRIORITY_REALTIME = PRIORITY_LEVELS
  BY <1>1 DEF PRIORITY_REALTIME
<1>6. QED
  BY <1>2, <1>4, <1>5 DEF calculate_time_slice

\* A new thread: thread_create_priority.
LEMMA NewThreadFields ==
  ASSUME NEW p \in Priorities
  PROVE  NewThread(p) \in ThreadFields /\ WithinBounds(NewThread(p)) /\ SliceFits(NewThread(p))
BY SliceLength, WidthAssumption
DEF NewThread, ThreadFields, WithinBounds, SliceFits, Priorities

\* Setting any legal priority keeps the slice length in step with it.
LEMMA SetPriorityFields ==
  ASSUME NEW r \in ThreadFields, NEW p \in Priorities
  PROVE  /\ SetPriority(r, p) \in ThreadFields
         /\ SliceFits(r) => SliceFits(SetPriority(r, p))
BY SliceLength DEF SetPriority, ThreadFields, SliceFits

\* adjust_priority, whatever the measured average is.
LEMMA AdjustPriorityFields ==
  ASSUME NEW r \in ThreadFields, NEW avg, NEW t
  PROVE  /\ adjust_priority(r, avg, t) \in ThreadFields
         /\ SliceFits(r) => SliceFits(adjust_priority(r, avg, t))
         /\ WithinBounds(r) => WithinBounds(adjust_priority(r, avg, t))
<1>1. r.priority \in Priorities /\ r.base_priority \in Priorities
  BY DEF ThreadFields
<1>2. CASE adjust_priority(r, avg, t) = r
  BY <1>2
<1>3. CASE /\ adjust_priority(r, avg, t) = SetPriority(r, r.priority + 1)
           /\ r.base_priority # PRIORITY_REALTIME
           /\ r.priority < PRIORITY_LOW
  <2>1. r.priority + 1 \in Priorities
    BY <1>1, <1>3, PriorityAssumption DEF Priorities, PRIORITY_IDLE
  <2>2. WithinBounds(r) => WithinBounds(SetPriority(r, r.priority + 1))
    BY <1>1, <1>3, PriorityAssumption
    DEF WithinBounds, SetPriority, ThreadFields, Priorities, PRIORITY_IDLE, PRIORITY_REALTIME
  <2>3. QED
    BY <1>3, <2>1, <2>2, SetPriorityFields
<1>4. CASE /\ adjust_priority(r, avg, t) = SetPriority(r, r.priority - 1)
           /\ r.priority > r.base_priority
  <2>1. r.priority - 1 \in Priorities
    BY <1>1, <1>4, PriorityAssumption DEF Priorities
  <2>2. WithinBounds(r) => WithinBounds(SetPriority(r, r.priority - 1))
    BY <1>1, <1>4, PriorityAssumption
    DEF WithinBounds, SetPriority, ThreadFields, Priorities, PRIORITY_IDLE, PRIORITY_REALTIME
  <2>3. QED
    BY <1>4, <2>1, <2>2, SetPriorityFields
<1>5. QED
  BY <1>2, <1>3, <1>4 DEF adjust_priority

\* The three writes to a control block that leave its priority alone: a tick,
\* a new wake time, and the fresh slice of switch_to.
LEMMA ChargeTickFields ==
  ASSUME NEW r \in ThreadFields
  PROVE  /\ ChargeTick(r) \in ThreadFields
         /\ SliceFits(r) => SliceFits(ChargeTick(r))
         /\ WithinBounds(r) => WithinBounds(ChargeTick(r))
<1>1. ChargeTick(r) \in ThreadFields
  <2>1. (r.ticks_used + 1) % TICK_WIDTH \in 0 .. TICK_WIDTH - 1
    BY WidthAssumption DEF ThreadFields
  <2>2. (IF r.time_slice > 0 THEN r.time_slice - 1 ELSE 0) \in Nat
    BY DEF ThreadFields
  <2>3. QED
    BY <2>1, <2>2 DEF ChargeTick, ThreadFields
<1>2. r.time_slice \in Nat /\ ChargeTick(r).time_slice <= r.time_slice
  BY DEF ChargeTick, ThreadFields
<1>3. /\ ChargeTick(r).priority = r.priority
      /\ ChargeTick(r).base_priority = r.base_priority
      /\ ChargeTick(r).time_slice_length = r.time_slice_length
  BY DEF ChargeTick, ThreadFields
<1>4. calculate_time_slice(PRIORITY_REALTIME) \in Nat
  BY SliceLength, PriorityAssumption DEF Priorities, PRIORITY_REALTIME
<1>5. ChargeTick(r).time_slice \in Nat
  BY <1>1 DEF ThreadFields
<1>6. QED
  BY <1>1, <1>2, <1>3, <1>4, <1>5 DEF SliceFits, WithinBounds

\* Setting a wake-up time leaves slice and priority bounds alone.
LEMMA WakeInFields ==
  ASSUME NEW r \in ThreadFields, NEW w \in 0 .. MaxSleep
  PROVE  LET n == [r EXCEPT !.wake_in = w] IN
         /\ n \in ThreadFields
         /\ SliceFits(r) => SliceFits(n)
         /\ WithinBounds(r) => WithinBounds(n)
BY DEF ThreadFields, SliceFits, WithinBounds

\* The fresh slice of switch_to.
LEMMA NewSliceFields ==
  ASSUME NEW r \in ThreadFields
  PROVE  LET n == [r EXCEPT !.time_slice = r.time_slice_length, !.ticks_used = 0] IN
         /\ n \in ThreadFields
         /\ SliceFits(r) => SliceFits(n)
         /\ WithinBounds(r) => WithinBounds(n)
<1> DEFINE n == [r EXCEPT !.time_slice = r.time_slice_length, !.ticks_used = 0]
<1>1. n \in ThreadFields
  <2>1. 0 \in 0 .. TICK_WIDTH - 1
    BY WidthAssumption
  <2>2. QED
    BY <2>1 DEF ThreadFields
<1>2. /\ n.priority = r.priority /\ n.base_priority = r.base_priority
      /\ n.time_slice_length = r.time_slice_length /\ n.time_slice = r.time_slice_length
  BY DEF ThreadFields
<1>3. r.priority \in Priorities
  BY DEF ThreadFields
<1>4. QED
  BY <1>1, <1>2, <1>3, SliceLength DEF SliceFits, WithinBounds

-----------------------------------------------------------------------------
(* What schedule() leaves *)

\* All control blocks c that are well formed, within their bounds and have
\* fitting slices stay so.
Blocks == [Thread -> ThreadFields]

\* switch_to: types, slices and priority bounds after a context switch.
LEMMA SwitchToFields ==
  ASSUME NEW q \in QueueMemory, NEW c \in Blocks, NEW next \in Thread,
         current_thread \in Thread, switch_to(next, q, c)
  PROVE  /\ m' \in QueueMemory /\ tcb' \in Blocks /\ current_thread' \in Thread
         /\ (\A t \in Thread : SliceFits(c[t])) => SliceMatchesPriority'
         /\ (\A t \in Thread : WithinBounds(c[t])) => PriorityBounds'
<1>1. CASE next = current_thread
  BY <1>1 DEF switch_to, SliceMatchesPriority, PriorityBounds
<1>2. CASE next # current_thread
  <2> DEFINE n == [c[next] EXCEPT !.time_slice = c[next].time_slice_length, !.ticks_used = 0]
  <2>1. c[next] \in ThreadFields
    BY DEF Blocks
  <2>2. /\ n \in ThreadFields
        /\ SliceFits(c[next]) => SliceFits(n)
        /\ WithinBounds(c[next]) => WithinBounds(n)
    BY <2>1, NewSliceFields
  <2>3. tcb' = [c EXCEPT ![next] = n]
    BY <1>2, <2>1 DEF switch_to, Blocks, ThreadFields
  <2>4. m' \in QueueMemory
    BY <1>2 DEF switch_to, QueueMemory, States
  <2>5. current_thread' \in Thread
    BY <1>2 DEF switch_to
  <2> HIDE DEF n
  <2>6. tcb' \in Blocks
    BY <2>2, <2>3 DEF Blocks
  <2>7. \A t \in Thread : tcb'[t] = IF t = next THEN n ELSE c[t]
    BY <2>3 DEF Blocks
  <2>8. (\A t \in Thread : SliceFits(c[t])) => \A t \in Thread : SliceFits(tcb'[t])
    BY <2>2, <2>7
  <2>9. (\A t \in Thread : WithinBounds(c[t])) => \A t \in Thread : WithinBounds(tcb'[t])
    BY <2>2, <2>7
  <2>10. QED
    BY <2>4, <2>5, <2>6, <2>8, <2>9 DEF SliceMatchesPriority, PriorityBounds
<1>3. QED
  BY <1>1, <1>2

\* scheduler_schedule: the same, whichever thread is chosen.
LEMMA ScheduleFields ==
  ASSUME NEW q \in QueueMemory, NEW c \in Blocks,
         current_thread \in Thread, schedule(q, c)
  PROVE  /\ m' \in QueueMemory /\ tcb' \in Blocks /\ current_thread' \in Thread
         /\ (\A t \in Thread : SliceFits(c[t])) => SliceMatchesPriority'
         /\ (\A t \in Thread : WithinBounds(c[t])) => PriorityBounds'
<1>1. CASE switch_to(Idle, q, c)
  BY <1>1, SwitchToFields DEF Thread
<1>2. CASE \E p \in Priorities :
             q.heads[p] # NULL /\ switch_to(q.heads[p], dequeue_ready(q, p), c)
  <2>1. PICK p \in Priorities :
          q.heads[p] # NULL /\ switch_to(q.heads[p], dequeue_ready(q, p), c)
    BY <1>2
  <2>2. q.heads[p] \in Thread /\ dequeue_ready(q, p) \in QueueMemory
    BY <2>1, DequeueReadyType
  <2>3. QED
    BY <2>1, <2>2, SwitchToFields
<1>3. QED
  BY <1>1, <1>2 DEF schedule, pick_next_thread

-----------------------------------------------------------------------------
(* Steps *)

\* What one step does to control blocks whose fields fit.
Kept ==
  /\ SliceMatchesPriority => SliceMatchesPriority'
  /\ PriorityBounds => PriorityBounds'

\* The part of the type invariant a step changes, given the rest.
LEMMA InitTypeOK == Init => TypeOK /\ SliceMatchesPriority /\ PriorityBounds
<1> SUFFICES ASSUME Init PROVE TypeOK /\ SliceMatchesPriority /\ PriorityBounds
  OBVIOUS
<1>1. PRIORITY_IDLE \in Priorities /\ PRIORITY_NORMAL \in Priorities
  BY PriorityAssumption DEF Priorities, PRIORITY_IDLE
<1>2. \A t \in Thread : /\ tcb[t] \in ThreadFields /\ SliceFits(tcb[t]) /\ WithinBounds(tcb[t])
  BY <1>1, NewThreadFields DEF Init
<1>3. tcb \in Blocks
  BY <1>2 DEF Init, Blocks
<1>4. 0 \in 0 .. COUNTER_WIDTH - 1 /\ 0 \in 0 .. MaxSleep
  BY WidthAssumption
<1>5. m \in QueueMemory
  BY <1>4 DEF Init, QueueMemory, Pointer, States
<1>6. QED
  BY <1>2, <1>3, <1>4, <1>5
  DEF Init, TypeOK, SliceMatchesPriority, PriorityBounds, Blocks, Pointer

\* thread_create clamps the priority and gives the slice that belongs to it.
LEMMA CreateStep ==
  ASSUME TypeOK, NEW t \in Threads, NEW p \in BasePriorities, Create(t, p)
  PROVE  TypeOK' /\ Kept
<1> DEFINE b == IF p >= PRIORITY_LEVELS THEN PRIORITY_NORMAL ELSE p
<1>1. b \in Priorities
  BY PriorityAssumption DEF Priorities, PRIORITY_IDLE
<1>2. t \in Thread
  BY DEF Thread
<1>3. tcb' = [tcb EXCEPT ![t] = NewThread(b)]
  BY DEF Create
<1> HIDE DEF b
<1>4. tcb' \in [Thread -> ThreadFields] /\ Kept
  BY <1>1, <1>2, <1>3, NewThreadFields DEF TypeOK, Kept, SliceMatchesPriority, PriorityBounds
<1>5. m' \in QueueMemory
  BY <1>2 DEF TypeOK, Create, QueueMemory, States
<1>6. QED
  BY <1>4, <1>5 DEF TypeOK, Create

\* scheduler_add only touches the queues.
LEMMA AddStep ==
  ASSUME TypeOK, NEW t \in Threads, scheduler_add(t)
  PROVE  TypeOK' /\ Kept
<1>1. t \in Thread /\ tcb[t].priority \in Priorities
  BY DEF Thread, TypeOK, ThreadFields
<1>2. m' \in QueueMemory
  BY <1>1, EnqueueReadyType DEF TypeOK, scheduler_add
<1>3. QED
  BY <1>2 DEF TypeOK, scheduler_add, Kept, SliceMatchesPriority, PriorityBounds

\* scheduler_start picks the first thread.
LEMMA StartStep ==
  ASSUME TypeOK, scheduler_start
  PROVE  TypeOK' /\ Kept
<1>1. /\ m' \in QueueMemory /\ current_thread' \in Thread
  <2>1. CASE /\ current_thread' = Idle
             /\ m' = [m EXCEPT !.state[Idle] = "RUNNING"]
    BY <2>1 DEF TypeOK, QueueMemory, States, Thread
  <2>2. ASSUME NEW p \in Priorities, m.heads[p] # NULL,
               current_thread' = m.heads[p],
               m' = [dequeue_ready(m, p) EXCEPT !.state[m.heads[p]] = "RUNNING"]
        PROVE  m' \in QueueMemory /\ current_thread' \in Thread
    <3>1. m.heads[p] \in Thread /\ dequeue_ready(m, p) \in QueueMemory
      BY <2>2, DequeueReadyType DEF TypeOK
    <3>2. QED
      BY <2>2, <3>1 DEF QueueMemory, States
  <2>3. QED
    BY <2>1, <2>2 DEF scheduler_start, pick_next_thread
<1>2. current_thread' # NULL
  BY <1>1, ThreadAssumption
<1>3. QED
  BY <1>1, <1>2 DEF TypeOK, scheduler_start, Kept, SliceMatchesPriority, PriorityBounds, Pointer

\* timer_irq_handler counts the sleepers down.
LEMMA InterruptStep ==
  ASSUME TypeOK, timer_irq_handler
  PROVE  TypeOK' /\ Kept
<1>1. \A w \in 0 .. MaxSleep : Closer(w) \in 0 .. MaxSleep
  BY WidthAssumption DEF Closer
<1>2. \A t \in Thread : tcb[t] \in ThreadFields /\ tcb[t].wake_in \in 0 .. MaxSleep
  BY DEF TypeOK, ThreadFields
<1>3. \A t \in Thread : tcb'[t] = [tcb[t] EXCEPT !.wake_in = Closer(tcb[t].wake_in)]
  BY DEF timer_irq_handler
<1>4. \A t \in Thread :
        /\ tcb'[t] \in ThreadFields
        /\ SliceFits(tcb[t]) => SliceFits(tcb'[t])
        /\ WithinBounds(tcb[t]) => WithinBounds(tcb'[t])
  <2> SUFFICES ASSUME NEW t \in Thread
               PROVE  /\ tcb'[t] \in ThreadFields
                      /\ SliceFits(tcb[t]) => SliceFits(tcb'[t])
                      /\ WithinBounds(tcb[t]) => WithinBounds(tcb'[t])
    OBVIOUS
  <2> DEFINE w == Closer(tcb[t].wake_in)
             n == [tcb[t] EXCEPT !.wake_in = w]
  <2>1. tcb[t] \in ThreadFields /\ w \in 0 .. MaxSleep
    BY <1>1, <1>2
  <2> HIDE DEF w
  <2>2. n \in ThreadFields
    BY <2>1, WakeInFields
  <2>3. SliceFits(tcb[t]) => SliceFits(n)
    BY <2>1, WakeInFields
  <2>4. WithinBounds(tcb[t]) => WithinBounds(n)
    BY <2>1, WakeInFields
  <2>5. tcb'[t] = n
    BY <1>3 DEF w
  <2>6. QED
    BY <2>2, <2>3, <2>4, <2>5
<1>5. tcb' \in [Thread -> ThreadFields]
  BY <1>4 DEF timer_irq_handler
<1>6. wake_local' \in [Thread -> 0 .. MaxSleep]
  BY <1>1 DEF timer_irq_handler, TypeOK
<1>7. QED
  BY <1>4, <1>5, <1>6 DEF TypeOK, timer_irq_handler, Kept, SliceMatchesPriority, PriorityBounds

\* Waking the head of the sleep queue.
LEMMA WakeStep ==
  ASSUME TypeOK, wake_expired_sleepers
  PROVE  TypeOK' /\ Kept
<1> DEFINE t == m.sleep_queue
           q == [m EXCEPT !.sleep_queue = m.next[t], !.next[t] = NULL,
                          !.threads_sleeping = Decr(@)]
<1>1. t \in Thread
  BY DEF TypeOK, wake_expired_sleepers, SleeperDue, QueueMemory, Pointer
<1>2. q \in QueueMemory
  BY <1>1, CounterType DEF TypeOK, QueueMemory, Pointer
<1>3. tcb[t].priority \in Priorities
  BY <1>1 DEF TypeOK, ThreadFields
<1>4. m' = enqueue_ready(q, t, tcb[t].priority)
  BY DEF wake_expired_sleepers, wake_first_sleeper
<1>5. m' \in QueueMemory
  BY <1>1, <1>2, <1>3, <1>4, EnqueueReadyType
<1>6. QED
  BY <1>5 DEF TypeOK, wake_expired_sleepers, Kept, SliceMatchesPriority, PriorityBounds

\* The tick itself, with and without the end of a slice.
LEMMA TickStep ==
  ASSUME TypeOK, scheduler_tick
  PROVE  TypeOK' /\ Kept
<1> DEFINE t == current_thread
           r == ChargeTick(tcb[t])
           h == update_cpu_usage(usage[t], IF UsageOfSlice(r) > 100 THEN 100 ELSE UsageOfSlice(r))
           a == adjust_priority(r, h.avg_cpu_usage, t)
<1>1. t \in Thread
  BY DEF TypeOK, scheduler_tick, Pointer
<1>2. tcb[t] \in ThreadFields
  BY <1>1 DEF TypeOK
<1>3. /\ r \in ThreadFields
      /\ SliceFits(tcb[t]) => SliceFits(r)
      /\ WithinBounds(tcb[t]) => WithinBounds(r)
  BY <1>2, ChargeTickFields
<1> HIDE DEF r
<1>4. /\ a \in ThreadFields
      /\ SliceFits(r) => SliceFits(a)
      /\ WithinBounds(r) => WithinBounds(a)
  BY <1>3, AdjustPriorityFields
<1>5. \/ /\ tcb' = [tcb EXCEPT ![t] = a]
         /\ m' = enqueue_ready(m, t, a.priority)
         /\ need_reschedule' = TRUE
      \/ /\ tcb' = [tcb EXCEPT ![t] = r]
         /\ UNCHANGED <<m, need_reschedule>>
  BY DEF scheduler_tick, r
<1> HIDE DEF a
<1>6. a.priority \in Priorities
  BY <1>4 DEF ThreadFields
<1>7. m' \in QueueMemory /\ need_reschedule' \in BOOLEAN
  BY <1>1, <1>5, <1>6, EnqueueReadyType DEF TypeOK
<1>8. tcb' \in [Thread -> ThreadFields] /\ Kept
  BY <1>1, <1>3, <1>4, <1>5 DEF TypeOK, Kept, SliceMatchesPriority, PriorityBounds
<1>9. QED
  BY <1>7, <1>8 DEF TypeOK, scheduler_tick

\* scheduler_yield, with the priority lowered or restored by the feedback rule.
LEMMA YieldStep ==
  ASSUME TypeOK, NEW t \in Threads, scheduler_yield(t)
  PROVE  TypeOK' /\ Kept
<1> DEFINE h == update_cpu_usage(usage[t], UsageOfSlice(tcb[t]))
           r == adjust_priority(tcb[t], h.avg_cpu_usage, t)
           c == [tcb EXCEPT ![t] = r]
           q == IF m.state[t] = "TERMINATED" THEN m ELSE enqueue_ready(m, t, r.priority)
<1>1. t \in Thread /\ tcb[t] \in ThreadFields /\ current_thread \in Thread
  BY DEF Thread, TypeOK, scheduler_yield, OnCPU
<1>2. /\ r \in ThreadFields
      /\ SliceFits(tcb[t]) => SliceFits(r)
      /\ WithinBounds(tcb[t]) => WithinBounds(r)
  BY <1>1, AdjustPriorityFields
<1>3. schedule(q, c)
  BY DEF scheduler_yield
<1> HIDE DEF r
<1>4. r.priority \in Priorities
  BY <1>2 DEF ThreadFields
<1>5. q \in QueueMemory
  BY <1>1, <1>4, EnqueueReadyType DEF TypeOK
<1>6. /\ c \in Blocks
      /\ SliceMatchesPriority => \A x \in Thread : SliceFits(c[x])
      /\ PriorityBounds => \A x \in Thread : WithinBounds(c[x])
  BY <1>1, <1>2 DEF TypeOK, Blocks, SliceMatchesPriority, PriorityBounds
<1> HIDE DEF c, q
<1>7. m' \in QueueMemory /\ tcb' \in Blocks /\ current_thread' \in Thread /\ Kept
  BY <1>1, <1>3, <1>5, <1>6, ScheduleFields DEF Kept
<1>8. pc' \in [Thread -> {"run", "exit", "sleep", "halt"}]
  BY DEF TypeOK, scheduler_yield
<1>9. current_thread' # NULL /\ scheduler_running
  BY <1>1, <1>7, ThreadAssumption DEF TypeOK
<1>10. QED
  BY <1>7, <1>8, <1>9 DEF TypeOK, scheduler_yield, Blocks, Pointer

\* thread_exit.
LEMMA ExitStep ==
  ASSUME TypeOK, NEW t \in Threads, thread_exit(t)
  PROVE  TypeOK' /\ Kept
<1>1. m' \in QueueMemory
  BY DEF TypeOK, thread_exit, QueueMemory, States
<1>2. pc' \in [Thread -> {"run", "exit", "sleep", "halt"}]
  BY DEF TypeOK, thread_exit
<1>3. QED
  BY <1>1, <1>2 DEF TypeOK, thread_exit, Kept, SliceMatchesPriority, PriorityBounds

\* thread_sleep_ms, the part before the insertion.
LEMMA SleepMsStep ==
  ASSUME TypeOK, NEW t \in Threads, NEW ms \in 0 .. MaxSleep, thread_sleep_ms(t, ms)
  PROVE  TypeOK' /\ Kept
<1>1. pc' \in [Thread -> {"run", "exit", "sleep", "halt"}]
  BY DEF TypeOK, thread_sleep_ms
<1>2. wake_local' \in [Thread -> 0 .. MaxSleep]
  BY DEF TypeOK, thread_sleep_ms
<1>3. QED
  BY <1>1, <1>2 DEF TypeOK, thread_sleep_ms, Kept, SliceMatchesPriority, PriorityBounds

\* scheduler_sleep, both where the thread is linked first and where the
\* search for its place begins.
LEMMA SleepStep ==
  ASSUME TypeOK, NEW t \in Threads, scheduler_sleep(t)
  PROVE  TypeOK' /\ Kept
<1> DEFINE w == wake_local[t]
           n == [tcb[t] EXCEPT !.wake_in = w]
           c == [tcb EXCEPT ![t] = n]
           q == asleep(m, t)
<1>1. /\ t \in Thread /\ tcb[t] \in ThreadFields /\ current_thread \in Thread
      /\ w \in 0 .. MaxSleep
  BY DEF Thread, TypeOK, scheduler_sleep, OnCPU
<1>2. /\ n \in ThreadFields
      /\ SliceFits(tcb[t]) => SliceFits(n)
      /\ WithinBounds(tcb[t]) => WithinBounds(n)
  BY <1>1, WakeInFields
<1>3. c = [tcb EXCEPT ![t].wake_in = w]
  BY <1>1 DEF TypeOK
<1>4. q \in QueueMemory
  BY <1>1 DEF TypeOK, asleep, QueueMemory, Pointer, States
<1>5. \/ /\ schedule(link_first(q, t), c)
         /\ pc' = [pc EXCEPT ![t] = "run"]
         /\ UNCHANGED <<mode, cursor>>
      \/ /\ q.sleep_queue # NULL
         /\ m' = q
         /\ tcb' = c
         /\ mode' = "insert"
         /\ cursor' = q.sleep_queue
         /\ UNCHANGED <<current_thread, pc>>
  BY <1>3 DEF scheduler_sleep
<1> HIDE DEF n
<1>6. /\ c \in Blocks
      /\ SliceMatchesPriority => \A x \in Thread : SliceFits(c[x])
      /\ PriorityBounds => \A x \in Thread : WithinBounds(c[x])
  BY <1>1, <1>2 DEF TypeOK, Blocks, SliceMatchesPriority, PriorityBounds
<1> HIDE DEF c, q
<1>7. link_first(q, t) \in QueueMemory
  <2>1. q.sleep_queue \in Pointer /\ Incr(q.threads_sleeping) \in 0 .. COUNTER_WIDTH - 1
    BY <1>4, CounterType DEF QueueMemory
  <2>2. QED
    BY <1>1, <1>4, <2>1 DEF link_first, QueueMemory, Pointer
<1>8. wake_local' \in [Thread -> 0 .. MaxSleep]
  <2>1. 0 \in 0 .. MaxSleep
    BY WidthAssumption
  <2>2. QED
    BY <2>1 DEF TypeOK, scheduler_sleep
<1>9. current_thread \in Threads /\ scheduler_running /\ mode = "open"
  BY ThreadAssumption DEF TypeOK, scheduler_sleep, OnCPU, Thread
<1>10. CASE schedule(link_first(q, t), c) /\ pc' = [pc EXCEPT ![t] = "run"] /\ UNCHANGED <<mode, cursor>>
  <2>1. m' \in QueueMemory /\ tcb' \in Blocks /\ current_thread' \in Thread /\ Kept
    BY <1>1, <1>6, <1>7, <1>10, ScheduleFields DEF Kept
  <2>2. current_thread' # NULL
    BY <2>1, ThreadAssumption
  <2>3. pc' \in [Thread -> {"run", "exit", "sleep", "halt"}]
    BY <1>10 DEF TypeOK
  <2>4. QED
    BY <1>8, <1>9, <1>10, <2>1, <2>2, <2>3 DEF TypeOK, scheduler_sleep, Blocks, Pointer
<1>11. CASE /\ q.sleep_queue # NULL /\ m' = q /\ tcb' = c /\ mode' = "insert"
            /\ cursor' = q.sleep_queue /\ UNCHANGED <<current_thread, pc>>
  <2>1. cursor' \in Pointer /\ cursor' # NULL
    BY <1>4, <1>11 DEF QueueMemory
  <2>2. Kept
    BY <1>6, <1>11 DEF Kept, SliceMatchesPriority, PriorityBounds
  <2>3. QED
    BY <1>4, <1>6, <1>8, <1>9, <1>11, <2>1, <2>2 DEF TypeOK, scheduler_sleep, Blocks
<1>12. QED
  BY <1>5, <1>10, <1>11

\* One step along the sleep queue.
LEMMA WalkStep ==
  ASSUME TypeOK, sleep_walk
  PROVE  TypeOK' /\ Kept
<1>1. cursor \in Thread
  BY DEF TypeOK, sleep_walk, Pointer
<1>2. cursor' \in Pointer /\ cursor' # NULL
  BY <1>1 DEF TypeOK, sleep_walk, WalkOn, QueueMemory
<1>3. QED
  BY <1>2 DEF TypeOK, sleep_walk, Kept, SliceMatchesPriority, PriorityBounds

\* The insertion into the sleep queue.
LEMMA InsertStep ==
  ASSUME TypeOK, sleep_insert
  PROVE  TypeOK' /\ Kept
<1> DEFINE q == link_after(m, cursor, current_thread)
<1>1. cursor \in Thread /\ current_thread \in Thread
  BY DEF TypeOK, sleep_insert, Pointer
<1>2. q \in QueueMemory
  <2>1. m.next[cursor] \in Pointer /\ Incr(m.threads_sleeping) \in 0 .. COUNTER_WIDTH - 1
    BY <1>1, CounterType DEF TypeOK, QueueMemory
  <2>2. QED
    BY <1>1, <2>1 DEF TypeOK, link_after, QueueMemory, Pointer
<1>3. schedule(q, tcb)
  BY DEF sleep_insert
<1> HIDE DEF q
<1>4. tcb \in Blocks
  BY DEF TypeOK, Blocks
<1>5. m' \in QueueMemory /\ tcb' \in Blocks /\ current_thread' \in Thread /\ Kept
  BY <1>1, <1>2, <1>3, <1>4, ScheduleFields DEF Kept, SliceMatchesPriority, PriorityBounds
<1>6. current_thread' # NULL /\ scheduler_running
  BY <1>1, <1>5, ThreadAssumption DEF TypeOK
<1>7. pc' \in [Thread -> {"run", "exit", "sleep", "halt"}]
  BY DEF TypeOK, sleep_insert
<1>8. QED
  BY <1>5, <1>6, <1>7 DEF TypeOK, sleep_insert, Blocks, Pointer

\* scheduler_block, of the caller or of another thread.
LEMMA BlockStep ==
  ASSUME TypeOK, NEW caller \in Threads, NEW t \in Threads, scheduler_block(caller, t)
  PROVE  TypeOK' /\ Kept
<1> DEFINE q == [m EXCEPT !.state[t] = "BLOCKED", !.threads_blocked = Incr(@)]
<1>1. t \in Thread /\ current_thread \in Thread
  BY DEF Thread, scheduler_block, Runs, OnCPU
<1>2. q \in QueueMemory
  BY <1>1, CounterType DEF TypeOK, QueueMemory, States
<1>3. schedule(q, tcb) \/ (m' = q /\ UNCHANGED <<tcb, current_thread>>)
  BY DEF scheduler_block
<1> HIDE DEF q
<1>4. tcb \in Blocks
  BY DEF TypeOK, Blocks
<1>5. m' \in QueueMemory /\ tcb' \in Blocks /\ current_thread' \in Thread /\ Kept
  BY <1>1, <1>2, <1>3, <1>4, ScheduleFields DEF Kept, SliceMatchesPriority, PriorityBounds
<1>6. current_thread' # NULL /\ scheduler_running
  BY <1>1, <1>5, ThreadAssumption DEF TypeOK
<1>7. QED
  BY <1>5, <1>6 DEF TypeOK, scheduler_block, Blocks, Pointer

\* thread_unblock.
LEMMA UnblockStep ==
  ASSUME TypeOK, NEW t \in Threads, scheduler_unblock(t)
  PROVE  TypeOK' /\ Kept
<1> DEFINE q == [m EXCEPT !.threads_blocked = Decr(@)]
<1>1. t \in Thread /\ tcb[t].priority \in Priorities
  BY DEF Thread, TypeOK, ThreadFields
<1>2. q \in QueueMemory
  BY CounterType DEF TypeOK, QueueMemory
<1>3. m' = enqueue_ready(q, t, tcb[t].priority)
  BY DEF scheduler_unblock
<1> HIDE DEF q
<1>4. m' \in QueueMemory
  BY <1>1, <1>2, <1>3, EnqueueReadyType
<1>5. QED
  BY <1>4 DEF TypeOK, scheduler_unblock, Kept, SliceMatchesPriority, PriorityBounds

\* scheduler_remove.
LEMMA RemoveStep ==
  ASSUME TypeOK, NEW t \in Threads, scheduler_remove(t)
  PROVE  TypeOK' /\ Kept
<1>1. t \in Thread /\ tcb[t].priority \in Priorities
  BY DEF Thread, TypeOK, ThreadFields
<1>2. m' \in QueueMemory
  BY <1>1, RemoveFromReadyType DEF TypeOK, scheduler_remove
<1>3. QED
  BY <1>2 DEF TypeOK, scheduler_remove, Kept, SliceMatchesPriority, PriorityBounds

\* thread_set_priority is the one call that can leave the bounds of a priority.
LEMMA SetPriorityStep ==
  ASSUME TypeOK, NEW t \in Threads, NEW p \in NewPriorities, thread_set_priority(t, p)
  PROVE  TypeOK' /\ (SliceMatchesPriority => SliceMatchesPriority') /\ "set_priority" \in Calls
<1>1. t \in Thread /\ tcb[t] \in ThreadFields /\ p \in Priorities
  BY PriorityAssumption DEF Thread, TypeOK, Priorities, thread_set_priority
<1>2. tcb' = [tcb EXCEPT ![t] = SetPriority(tcb[t], p)]
  BY DEF thread_set_priority
<1>3. tcb' \in [Thread -> ThreadFields] /\ (SliceMatchesPriority => SliceMatchesPriority')
  BY <1>1, <1>2, SetPriorityFields DEF TypeOK, SliceMatchesPriority
<1>4. QED
  BY <1>3 DEF TypeOK, thread_set_priority

\* Every step of the scheduler.
LEMMA NextStep ==
  ASSUME TypeOK, [Next]_vars
  PROVE  /\ TypeOK'
         /\ SliceMatchesPriority => SliceMatchesPriority'
         /\ "set_priority" \notin Calls /\ PriorityBounds => PriorityBounds'
<1>1. CASE UNCHANGED vars
  BY <1>1 DEF vars, TypeOK, SliceMatchesPriority, PriorityBounds
<1>2. CASE \E t \in Threads, p \in BasePriorities : Create(t, p)
  BY <1>2, CreateStep DEF Kept
<1>3. CASE \E t \in Threads : scheduler_add(t)
  BY <1>3, AddStep DEF Kept
<1>4. CASE scheduler_start
  BY <1>4, StartStep DEF Kept
<1>5. CASE Interrupt
  BY <1>5, InterruptStep, WakeStep, TickStep DEF Kept, Interrupt, Tick
<1>6. CASE Insertion
  BY <1>6, WalkStep, InsertStep DEF Kept, Insertion
<1>7. CASE \E t \in Threads : ThreadStep(t)
  BY <1>7, YieldStep, ExitStep, SleepMsStep, SleepStep, BlockStep DEF Kept, ThreadStep
<1>8. CASE \E t \in Threads : scheduler_unblock(t)
  BY <1>8, UnblockStep DEF Kept
<1>9. CASE \E t \in Threads : scheduler_remove(t)
  BY <1>9, RemoveStep DEF Kept
<1>10. CASE \E t \in Threads, p \in NewPriorities : thread_set_priority(t, p)
  BY <1>10, SetPriorityStep
<1>11. QED
  BY <1>1, <1>2, <1>3, <1>4, <1>5, <1>6, <1>7, <1>8, <1>9, <1>10 DEF Next

\* Every non-empty set of naturals has a least element: induction over the
\* naturals, in the form the provers can use.
LEMMA LeastNatural ==
  ASSUME NEW T, T \subseteq Nat, T # {}
  PROVE  \E n \in T : \A k \in T : n <= k
<1>1. PICK n \in T : \A k \in T : <<k, n>> \notin OpToRel(<, Nat)
  BY WFMin, NatLessThanWellFounded
<1>2. \A k \in T : ~(k < n)
  BY <1>1 DEF OpToRel
<1>3. QED
  BY <1>2

\* s lists, in order and without repetition, the threads that the pointers n
\* lead to from h.
IsList(h, n, s) ==
  /\ s \in Seq(Threads)
  /\ \A i, j \in 1 .. Len(s) : s[i] = s[j] => i = j
  /\ h = IF Len(s) = 0 THEN NULL ELSE s[1]
  /\ \A i \in 1 .. Len(s) : n[s[i]] = IF i = Len(s) THEN NULL ELSE s[i+1]

\* A list is no longer than there are threads, since no thread is on it twice.
LEMMA ListLength ==
  ASSUME NEW h, NEW n, NEW s, IsList(h, n, s)
  PROVE  Cardinality(Thread) \in Nat /\ Len(s) <= Cardinality(Thread) /\ Len(s) <= Cardinality(Threads)
<1>1. IsFiniteSet(Threads) /\ IsFiniteSet(Thread)
  BY ThreadAssumption, FS_AddElement DEF Thread
<1>2. Cardinality(Thread) \in Nat /\ Cardinality(Threads) \in Nat
  BY <1>1, FS_CardinalityType
<1>2b. Cardinality(Threads) <= Cardinality(Thread)
  BY <1>1, <1>2, ThreadAssumption, FS_AddElement DEF Thread
<1>3. s \in [1 .. Len(s) -> Threads] /\ Len(s) \in Nat
  BY DEF IsList
<1>4. s \in Injection(1 .. Len(s), Threads)
  BY <1>3 DEF Injection, IsInjective, IsList
<1>5. Cardinality(1 .. Len(s)) <= Cardinality(Threads)
  BY <1>1, <1>4, FS_Injection
<1>6. Cardinality(1 .. Len(s)) = Len(s)
  <2>1. 1 \in Int /\ Len(s) \in Int
    BY <1>3
  <2>2. Cardinality(1 .. Len(s)) = IF 1 > Len(s) THEN 0 ELSE Len(s) - 1 + 1
    BY <2>1, FS_Interval, Zenon
  <2>3. QED
    BY <1>3, <2>2
<1>7. QED
  BY <1>2, <1>2b, <1>3, <1>5, <1>6

\* Following the pointers of a list visits it once, in order, and ends in NULL.
LEMMA ChainOfList ==
  ASSUME NEW h, NEW n, NEW s, IsList(h, n, s)
  PROVE  ChainOf(n, h) = [k \in 0 .. Cardinality(Thread) |->
                            IF k < Len(s) THEN s[k+1] ELSE NULL]
<1> DEFINE N == Cardinality(Thread)
           F(f) == [k \in 0 .. N |-> IF k = 0 THEN h
                                     ELSE LET t == f[k-1] IN IF t = NULL THEN NULL ELSE n[t]]
           g == [k \in 0 .. N |-> IF k < Len(s) THEN s[k+1] ELSE NULL]
           ch == CHOOSE f : f = F(f)
<1>1. N \in Nat /\ Len(s) <= N /\ Len(s) \in Nat
  BY ListLength DEF IsList
<1> HIDE DEF N
<1>2. \A i \in 1 .. Len(s) : s[i] \in Threads /\ s[i] # NULL
  BY ThreadAssumption DEF IsList, Thread
<1>3. g = F(g)
  <2>1. \A k \in 0 .. N : g[k] = F(g)[k]
    <3> SUFFICES ASSUME NEW k \in 0 .. N PROVE g[k] = F(g)[k]
      OBVIOUS
    <3>1. CASE k = 0
      BY <1>1, <3>1 DEF IsList
    <3>2. CASE k > 0 /\ k - 1 < Len(s)
      <4>1. g[k-1] = s[k] /\ k \in 1 .. Len(s)
        BY <1>1, <3>2
      <4>2. n[s[k]] = IF k = Len(s) THEN NULL ELSE s[k+1]
        BY <4>1 DEF IsList
      <4>3. F(g)[k] = n[s[k]]
        BY <1>2, <3>2, <4>1
      <4>4. g[k] = IF k = Len(s) THEN NULL ELSE s[k+1]
        BY <1>1, <3>2
      <4>5. QED
        BY <4>2, <4>3, <4>4
    <3>3. CASE k > 0 /\ k - 1 >= Len(s)
      BY <1>1, <3>3
    <3>4. QED
      BY <1>1, <3>1, <3>2, <3>3
  <2>2. QED
    BY <2>1
<1>4. ch = F(ch)
  <2>1. \E f : f = F(f)
    BY <1>3
  <2> HIDE DEF F
  <2>2. QED
    BY <2>1
<1>5. ChainOf(n, h) = ch
  BY DEF ChainOf, N
<1>6. \A k \in 0 .. N : ch[k] = g[k]
  <2> DEFINE Bad == {k \in 0 .. N : ch[k] # g[k]}
  <2> SUFFICES ASSUME Bad # {} PROVE FALSE
    OBVIOUS
  <2> HIDE DEF ch, g
  <2>0. Bad \subseteq Nat
    BY <1>1
  <2>1. PICK k \in Bad : \A j \in Bad : k <= j
    <3> HIDE DEF Bad
    <3> QED
      BY <2>0, LeastNatural
  <2>2. k \in 0 .. N /\ ch[k] = F(ch)[k] /\ g[k] = F(g)[k] /\ ch[k] # g[k]
    BY <1>3, <1>4
  <2>3. k # 0
    BY <2>2
  <2>4. k - 1 \in 0 .. N /\ k - 1 \notin Bad
    BY <1>1, <2>1, <2>2, <2>3
  <2>5. QED
    BY <2>2, <2>3, <2>4
<1>7. ch = g
  <2>1. ch = [k \in 0 .. N |-> ch[k]] 
    BY <1>4
  <2>2. g = [k \in 0 .. N |-> g[k]]
    OBVIOUS
  <2> HIDE DEF ch, g
  <2>3. QED
    BY <1>6, <2>1, <2>2
<1>8. QED
  BY <1>5, <1>7 DEF N

-----------------------------------------------------------------------------
(* Lists *)

In(t, s) == \E i \in 1 .. Len(s) : s[i] = t

\* A ready list: linked in both directions, with a pointer to its last thread.
IsDeque(h, last, n, b, s) ==
  /\ IsList(h, n, s)
  /\ last = IF Len(s) = 0 THEN NULL ELSE s[Len(s)]
  /\ \A i \in 1 .. Len(s) : b[s[i]] = IF i = 1 THEN NULL ELSE s[i-1]

\* A list depends only on the links of its own threads.
LEMMA ListFrame ==
  ASSUME NEW h, NEW n, NEW s, IsList(h, n, s),
         NEW n2, \A i \in 1 .. Len(s) : n2[s[i]] = n[s[i]]
  PROVE  IsList(h, n2, s)
BY DEF IsList

\* The same for a ready list and both its links.
LEMMA DequeFrame ==
  ASSUME NEW h, NEW last, NEW n, NEW b, NEW s, IsDeque(h, last, n, b, s),
         NEW n2, NEW b2, \A i \in 1 .. Len(s) : n2[s[i]] = n[s[i]] /\ b2[s[i]] = b[s[i]]
  PROVE  IsDeque(h, last, n2, b2, s)
BY ListFrame DEF IsDeque

\* Linking a new thread behind the last one of a ready list, as enqueue_ready does.
LEMMA DequeAppend ==
  ASSUME NEW h, NEW last, NEW n, NEW b, NEW s, IsDeque(h, last, n, b, s),
         NEW t \in Threads, ~In(t, s), NEW n2, NEW b2,
         n2[t] = NULL, b2[t] = last, Len(s) > 0 => n2[last] = t,
         \A i \in 1 .. Len(s) : i < Len(s) => n2[s[i]] = n[s[i]],
         \A i \in 1 .. Len(s) : b2[s[i]] = b[s[i]]
  PROVE  /\ IsDeque(IF last = NULL THEN t ELSE h, t, n2, b2, Append(s, t))
         /\ \A u : In(u, Append(s, t)) <=> In(u, s) \/ u = t
<1> DEFINE z == Append(s, t)
<1>1. s \in Seq(Threads) /\ Len(s) \in Nat
  BY DEF IsDeque, IsList
<1>2. /\ z \in Seq(Threads) /\ Len(z) = Len(s) + 1
      /\ z[Len(s) + 1] = t
      /\ \A i \in 1 .. Len(s) : z[i] = s[i]
  BY <1>1
<1> HIDE DEF z
<1>3. \A i \in 1 .. Len(s) : s[i] # t /\ s[i] \in Threads /\ s[i] # NULL
  BY <1>1, ThreadAssumption DEF In, Thread
<1>4. \A i, j \in 1 .. Len(z) : z[i] = z[j] => i = j
  BY <1>1, <1>2, <1>3 DEF IsDeque, IsList
<1>5. last = NULL <=> Len(s) = 0
  BY <1>1, <1>3 DEF IsDeque
<1>6. (IF last = NULL THEN t ELSE h) = z[1]
  BY <1>1, <1>2, <1>5 DEF IsDeque, IsList
<1>7. \A i \in 1 .. Len(z) : n2[z[i]] = IF i = Len(z) THEN NULL ELSE z[i+1]
  <2> SUFFICES ASSUME NEW i \in 1 .. Len(z)
               PROVE  n2[z[i]] = IF i = Len(z) THEN NULL ELSE z[i+1]
    OBVIOUS
  <2>1. CASE i = Len(z)
    BY <1>1, <1>2, <2>1
  <2>2. CASE i = Len(s)
    BY <1>1, <1>2, <2>2 DEF IsDeque
  <2>3. CASE i < Len(s)
    <3>1. z[i] = s[i] /\ z[i+1] = s[i+1] /\ i \in 1 .. Len(s) /\ i # Len(s) /\ i # Len(z)
      BY <1>1, <1>2, <2>3
    <3>2. n[s[i]] = s[i+1]
      BY <3>1 DEF IsDeque, IsList
    <3>3. QED
      BY <2>3, <3>1, <3>2
  <2>4. QED
    BY <1>1, <1>2, <2>1, <2>2, <2>3
<1>8. \A i \in 1 .. Len(z) : b2[z[i]] = IF i = 1 THEN NULL ELSE z[i-1]
  <2> SUFFICES ASSUME NEW i \in 1 .. Len(z)
               PROVE  b2[z[i]] = IF i = 1 THEN NULL ELSE z[i-1]
    OBVIOUS
  <2>1. CASE i = Len(z)
    BY <1>1, <1>2, <2>1 DEF IsDeque
  <2>2. CASE i <= Len(s)
    <3>1. z[i] = s[i] /\ (i # 1 => z[i-1] = s[i-1]) /\ i \in 1 .. Len(s)
      BY <1>1, <1>2, <2>2
    <3>2. b[s[i]] = IF i = 1 THEN NULL ELSE s[i-1]
      BY <3>1 DEF IsDeque
    <3>3. QED
      BY <3>1, <3>2
  <2>3. QED
    BY <1>1, <1>2, <2>1, <2>2
<1>9. IsDeque(IF last = NULL THEN t ELSE h, t, n2, b2, z)
  BY <1>1, <1>2, <1>4, <1>6, <1>7, <1>8 DEF IsDeque, IsList
<1>10. \A u : In(u, z) <=> In(u, s) \/ u = t
  BY <1>1, <1>2 DEF In
<1>11. QED
  BY <1>9, <1>10 DEF z

\* z is s without its first thread.
IsTail(z, s) ==
  /\ z \in Seq(Threads)
  /\ Len(z) = Len(s) - 1
  /\ \A i \in 1 .. Len(z) : z[i] = s[i+1]

\* Tail(s) is s without its first thread.
LEMMA TailIsTail ==
  ASSUME NEW s \in Seq(Threads), Len(s) > 0
  PROVE  IsTail(Tail(s), s)
BY DEF IsTail

\* A list whose head is not NULL begins with that thread.
LEMMA ListFirst ==
  ASSUME NEW h, NEW n, NEW s, IsList(h, n, s), h # NULL
  PROVE  /\ s \in Seq(Threads) /\ Len(s) \in Nat /\ Len(s) > 0
         /\ h \in Threads /\ h = s[1] /\ In(h, s)
         /\ n[h] = IF Len(s) = 1 THEN NULL ELSE s[2]
         /\ n[h] = NULL <=> Len(s) = 1
<1>1. s \in Seq(Threads) /\ Len(s) \in Nat /\ Len(s) > 0
  BY DEF IsList
<1>2. h = s[1] /\ h \in Threads /\ In(h, s)
  BY <1>1 DEF IsList, In
<1>3. n[h] = IF Len(s) = 1 THEN NULL ELSE s[2]
  <2>1. 1 \in 1 .. Len(s) /\ 1 + 1 = 2
    BY <1>1
  <2>2. n[s[1]] = IF 1 = Len(s) THEN NULL ELSE s[1+1]
    BY <2>1 DEF IsList
  <2>3. QED
    BY <1>2, <2>1, <2>2
<1>4. \A i \in 1 .. Len(s) : s[i] \in Threads /\ s[i] # NULL
  BY <1>1, ThreadAssumption DEF Thread
<1>5. Len(s) # 1 => s[2] # NULL
  BY <1>1, <1>4
<1>6. n[h] = NULL <=> Len(s) = 1
  BY <1>3, <1>5
<1>7. QED
  BY <1>1, <1>2, <1>3, <1>6

\* Following the link of the first thread leads to the rest of the list.
LEMMA ListTail ==
  ASSUME NEW h, NEW n, NEW s, IsList(h, n, s), h # NULL, NEW n2, NEW z, IsTail(z, s),
         \A i \in 2 .. Len(s) : n2[s[i]] = n[s[i]]
  PROVE  /\ IsList(n[h], n2, z)
         /\ \A u : In(u, z) <=> In(u, s) /\ u # h
<1>1. s \in Seq(Threads) /\ Len(s) \in Nat /\ Len(s) > 0
  BY DEF IsList
<1>2. /\ z \in Seq(Threads) /\ Len(z) = Len(s) - 1
      /\ \A i \in 1 .. Len(z) : z[i] = s[i+1]
  BY <1>1 DEF IsTail
<1>3. h = s[1] /\ n[h] = IF Len(s) = 1 THEN NULL ELSE s[2]
  BY ListFirst
<1>6. \A i, j \in 1 .. Len(z) : z[i] = z[j] => i = j
  BY <1>1, <1>2 DEF IsList
<1>7. \A i \in 1 .. Len(z) : n2[z[i]] = IF i = Len(z) THEN NULL ELSE z[i+1]
  <2> SUFFICES ASSUME NEW i \in 1 .. Len(z)
               PROVE  n2[z[i]] = IF i = Len(z) THEN NULL ELSE z[i+1]
    OBVIOUS
  <2>1. i + 1 \in 2 .. Len(s) /\ i + 1 \in 1 .. Len(s) /\ z[i] = s[i+1]
    BY <1>1, <1>2
  <2>2. n2[z[i]] = IF i + 1 = Len(s) THEN NULL ELSE s[i + 1 + 1]
    BY <2>1 DEF IsList
  <2>3. i # Len(z) => z[i+1] = s[i + 1 + 1]
    BY <1>1, <1>2
  <2>4. QED
    BY <1>1, <1>2, <2>2, <2>3
<1>8. IsList(n[h], n2, z)
  BY <1>1, <1>2, <1>3, <1>6, <1>7 DEF IsList
<1>9. \A u : In(u, z) <=> In(u, s) /\ u # h
  <2>1. \A u : In(u, z) => In(u, s) /\ u # h
    BY <1>1, <1>2, <1>3 DEF In, IsList
  <2>2. ASSUME NEW u, In(u, s), u # h PROVE In(u, z)
    <3>1. PICK i \in 1 .. Len(s) : s[i] = u
      BY <2>2 DEF In
    <3>2. i # 1
      BY <2>2, <3>1, <1>3
    <3>3. i - 1 \in 1 .. Len(z) /\ z[i-1] = s[i]
      BY <1>1, <1>2, <3>1, <3>2
    <3>4. QED
      BY <3>1, <3>3 DEF In
  <2>3. QED
    BY <2>1, <2>2
<1>10. QED
  BY <1>8, <1>9

\* The links n2 and b2 are those of the list s with its first thread unlinked.
FirstUnlinked(n, b, n2, b2, s) ==
  /\ \A i \in 2 .. Len(s) : n2[s[i]] = n[s[i]]
  /\ Len(s) > 1 => b2[s[2]] = NULL
  /\ \A i \in 3 .. Len(s) : b2[s[i]] = b[s[i]]

\* The rest of a ready list, once dequeue_ready has cleared the new head's prev link.
LEMMA DequeTail ==
  ASSUME NEW h, NEW last, NEW n, NEW b, NEW s, IsDeque(h, last, n, b, s), h # NULL,
         NEW n2, NEW b2, FirstUnlinked(n, b, n2, b2, s), NEW z, IsTail(z, s),
         NEW h2, h2 = n[h], NEW last2, last2 = IF h2 = NULL THEN NULL ELSE last
  PROVE  IsDeque(h2, last2, n2, b2, z)
<1>1. s \in Seq(Threads) /\ Len(s) \in Nat /\ IsList(h, n, s)
  BY DEF IsDeque, IsList
<1>2. /\ Len(s) > 0 /\ h \in Threads /\ h = s[1]
      /\ IsList(n[h], n2, z)
      /\ Len(z) = Len(s) - 1
      /\ \A i \in 1 .. Len(s) - 1 : z[i] = s[i+1]
      /\ n[h] = NULL <=> Len(s) = 1
  <2>1. IsList(n[h], n2, z)
    <3>1. \A i \in 2 .. Len(s) : n2[s[i]] = n[s[i]]
      BY DEF FirstUnlinked
    <3>2. QED
      BY <1>1, <3>1, ListTail
  <2>2. /\ Len(s) > 0 /\ h \in Threads /\ h = s[1]
        /\ n[h] = NULL <=> Len(s) = 1
    BY <1>1, ListFirst
  <2>3. Len(z) = Len(s) - 1 /\ \A i \in 1 .. Len(s) - 1 : z[i] = s[i+1]
    BY <1>1, <2>2 DEF IsTail
  <2>4. QED
    BY <2>1, <2>2, <2>3
<1>3. last2 = IF Len(z) = 0 THEN NULL ELSE z[Len(z)]
  BY <1>1, <1>2 DEF IsDeque
<1>4. \A i \in 1 .. Len(z) : b2[z[i]] = IF i = 1 THEN NULL ELSE z[i-1]
  <2> SUFFICES ASSUME NEW i \in 1 .. Len(z)
               PROVE  b2[z[i]] = IF i = 1 THEN NULL ELSE z[i-1]
    OBVIOUS
  <2>1. z[i] = s[i+1] /\ i + 1 \in 2 .. Len(s)
    BY <1>1, <1>2
  <2>2. CASE i = 1
    BY <1>1, <1>2, <2>1, <2>2 DEF FirstUnlinked
  <2>3. CASE i > 1
    <3>1. i + 1 \in 3 .. Len(s) /\ i + 1 \in 1 .. Len(s) /\ i + 1 # 1 /\ z[i-1] = s[i + 1 - 1]
      <4>1. i + 1 \in 3 .. Len(s) /\ i + 1 \in 1 .. Len(s) /\ i + 1 # 1
        BY <1>1, <1>2, <2>3
      <4>2. i - 1 \in 1 .. Len(s) - 1 /\ i - 1 + 1 = i + 1 - 1
        BY <1>1, <1>2, <2>3
      <4>3. QED
        BY <1>2, <4>1, <4>2
    <3>2. b2[s[i+1]] = s[i + 1 - 1]
      BY <3>1 DEF IsDeque, FirstUnlinked
    <3>3. QED
      BY <2>1, <2>3, <3>1, <3>2
  <2>4. QED
    BY <1>1, <1>2, <2>2, <2>3
<1>5. QED
  BY <1>2, <1>3, <1>4 DEF IsDeque

\* The list s with t put behind its first k threads.
Inserted(s, k, t) ==
  [i \in 1 .. Len(s) + 1 |-> IF i <= k THEN s[i] ELSE IF i = k + 1 THEN t ELSE s[i-1]]

\* Linking a thread in behind the first k of a list, as enqueue_sleep does.
LEMMA ListInsert ==
  ASSUME NEW h, NEW n, NEW s, IsList(h, n, s), NEW k \in 0 .. Len(s),
         NEW t \in Threads, ~In(t, s), NEW n2,
         n2[t] = IF k = 0 THEN h ELSE n[s[k]],
         k > 0 => n2[s[k]] = t,
         \A i \in 1 .. Len(s) : i # k => n2[s[i]] = n[s[i]]
  PROVE  /\ IsList(IF k = 0 THEN t ELSE h, n2, Inserted(s, k, t))
         /\ Len(Inserted(s, k, t)) = Len(s) + 1
         /\ \A u : In(u, Inserted(s, k, t)) <=> In(u, s) \/ u = t
<1> DEFINE z == Inserted(s, k, t)
<1>1. s \in Seq(Threads) /\ Len(s) \in Nat /\ k \in Nat /\ k <= Len(s)
  BY DEF IsList
<1>2. /\ z \in Seq(Threads) /\ Len(z) = Len(s) + 1
      /\ \A i \in 1 .. Len(z) : z[i] = IF i <= k THEN s[i] ELSE IF i = k + 1 THEN t ELSE s[i-1]
  <2>1. Len(s) + 1 \in Nat
    BY <1>1
  <2>2. z \in [1 .. Len(s) + 1 -> Threads]
    BY <1>1 DEF Inserted
  <2>3. QED
    BY <2>1, <2>2 DEF Inserted
<1> HIDE DEF z
<1>3. \A i \in 1 .. Len(s) : s[i] # t /\ s[i] \in Threads /\ s[i] # NULL
  BY <1>1, ThreadAssumption DEF In, Thread
<1>4. \A i, j \in 1 .. Len(z) : z[i] = z[j] => i = j
  <2> SUFFICES ASSUME NEW i \in 1 .. Len(z), NEW j \in 1 .. Len(z), z[i] = z[j]
               PROVE  i = j
    OBVIOUS
  <2> DEFINE at(x) == IF x <= k THEN x ELSE x - 1
  <2>1. \A x \in 1 .. Len(z) : x # k + 1 => at(x) \in 1 .. Len(s) /\ z[x] = s[at(x)]
    BY <1>1, <1>2
  <2>2. CASE i = k + 1 \/ j = k + 1
    <3>1. \A x \in 1 .. Len(z) : z[x] = t <=> x = k + 1
      BY <1>1, <1>2, <1>3, <2>1
    <3>2. QED
      BY <2>2, <3>1
  <2>3. CASE i # k + 1 /\ j # k + 1
    <3>0. at(i) \in 1 .. Len(s) /\ at(j) \in 1 .. Len(s) /\ s[at(i)] = s[at(j)]
      BY <2>1, <2>3
    <3>1. at(i) = at(j)
      <4> HIDE DEF at
      <4> QED
        BY <3>0 DEF IsList
    <3>2. QED
      BY <1>1, <2>3, <3>1
  <2>4. QED
    BY <2>2, <2>3
<1>5. (IF k = 0 THEN t ELSE h) = z[1]
  BY <1>1, <1>2 DEF IsList
<1>6. \A i \in 1 .. Len(z) : n2[z[i]] = IF i = Len(z) THEN NULL ELSE z[i+1]
  <2> SUFFICES ASSUME NEW i \in 1 .. Len(z)
               PROVE  n2[z[i]] = IF i = Len(z) THEN NULL ELSE z[i+1]
    OBVIOUS
  <2>1. CASE i < k
    <3>1. i \in 1 .. Len(s) /\ i # Len(s) /\ z[i] = s[i] /\ z[i+1] = s[i+1] /\ i # Len(z)
      BY <1>1, <1>2, <2>1
    <3>2. n[s[i]] = s[i+1]
      BY <3>1 DEF IsList
    <3>3. QED
      BY <2>1, <3>1, <3>2
  <2>2. CASE i = k
    <3>1. k > 0 /\ z[k] = s[k] /\ k + 1 \in 1 .. Len(z) /\ k # Len(z)
      BY <1>1, <1>2, <2>2
    <3>2. z[k+1] = t
      BY <1>1, <1>2, <3>1
    <3>3. QED
      BY <2>2, <3>1, <3>2
  <2>3. CASE i = k + 1
    <3>1. z[i] = t
      BY <1>1, <1>2, <2>3
    <3>2. CASE k = 0
      <4>1. Len(s) # 0 => z[2] = s[1]
        BY <1>1, <1>2, <3>2
      <4>2. QED
        BY <1>1, <1>2, <2>3, <3>1, <3>2, <4>1 DEF IsList
    <3>3. CASE k > 0
      <4>1. k # Len(s) => z[i+1] = s[k+1]
        BY <1>1, <1>2, <2>3
      <4>2. n[s[k]] = IF k = Len(s) THEN NULL ELSE s[k+1]
        BY <1>1, <3>3 DEF IsList
      <4>3. QED
        BY <1>1, <1>2, <2>3, <3>1, <3>3, <4>1, <4>2
    <3>4. QED
      BY <1>1, <3>2, <3>3
  <2>4. CASE i > k + 1
    <3>1. i - 1 \in 1 .. Len(s) /\ i - 1 # k /\ z[i] = s[i-1]
      BY <1>1, <1>2, <2>4
    <3>2. i # Len(z) => z[i+1] = s[i - 1 + 1]
      <4>1. i + 1 - 1 = i - 1 + 1 /\ ~(i + 1 <= k) /\ i + 1 # k + 1
        BY <1>1, <2>4
      <4>2. i # Len(z) => i + 1 \in 1 .. Len(z)
        BY <1>1, <1>2
      <4>3. QED
        BY <1>2, <4>1, <4>2
    <3>3. n[s[i-1]] = IF i - 1 = Len(s) THEN NULL ELSE s[i - 1 + 1]
      BY <3>1 DEF IsList
    <3>4. QED
      BY <1>1, <1>2, <3>1, <3>2, <3>3
  <2>5. QED
    BY <1>1, <1>2, <2>1, <2>2, <2>3, <2>4
<1>7. IsList(IF k = 0 THEN t ELSE h, n2, z)
  BY <1>1, <1>2, <1>4, <1>5, <1>6 DEF IsList
<1>8. \A u : In(u, z) <=> In(u, s) \/ u = t
  <2>1. ASSUME NEW u, In(u, z) PROVE In(u, s) \/ u = t
    <3>1. PICK i \in 1 .. Len(z) : z[i] = u
      BY <2>1 DEF In
    <3>2. CASE i <= k
      <4>1. i \in 1 .. Len(s) /\ s[i] = u
        BY <1>1, <1>2, <3>1, <3>2
      <4>2. QED
        BY <4>1 DEF In
    <3>3. CASE i > k + 1
      <4>1. i - 1 \in 1 .. Len(s) /\ s[i-1] = u
        BY <1>1, <1>2, <3>1, <3>3
      <4>2. QED
        BY <4>1 DEF In
    <3>4. QED
      BY <1>1, <1>2, <3>1, <3>2, <3>3
  <2>2. In(t, z)
    <3>1. k + 1 \in 1 .. Len(z) /\ z[k+1] = t
      BY <1>1, <1>2
    <3>2. QED
      BY <3>1 DEF In
  <2>3. ASSUME NEW u, In(u, s) PROVE In(u, z)
    <3>1. PICK i \in 1 .. Len(s) : s[i] = u
      BY <2>3 DEF In
    <3>2. CASE i <= k
      <4>1. i \in 1 .. Len(z) /\ z[i] = u
        BY <1>1, <1>2, <3>1, <3>2
      <4>2. QED
        BY <4>1 DEF In
    <3>3. CASE i > k
      <4>1. i + 1 \in 1 .. Len(z) /\ z[i+1] = s[i]
        BY <1>1, <1>2, <3>1, <3>3
      <4>2. QED
        BY <3>1, <4>1 DEF In
    <3>4. QED
      BY <1>1, <3>2, <3>3
  <2>4. QED
    BY <2>1, <2>2, <2>3
<1>9. QED
  BY <1>2, <1>7, <1>8 DEF z

-----------------------------------------------------------------------------
(* The lists of the scheduler *)

\* rq and sl are what the pointers of q say: rq[p] lists the READY threads of
\* priority p, sl the SLEEPING ones, sorted by the time they are due, except
\* for the threads X, which are on no list (the running thread, or a thread on
\* its way from one list to another).
Lists(q, c, X, rq, sl) ==
  /\ rq \in [Priorities -> Seq(Threads)]
  /\ \A p \in Priorities : IsDeque(q.heads[p], q.tails[p], q.next, q.prev, rq[p])
  /\ \A p \in Priorities, t \in Threads :
       In(t, rq[p]) <=> t \notin X /\ q.state[t] = "READY" /\ c[t].priority = p
  /\ IsList(q.sleep_queue, q.next, sl)
  /\ \A t \in Threads : In(t, sl) <=> t \notin X /\ q.state[t] = "SLEEPING"
  /\ \A i, j \in 1 .. Len(sl) : i < j => c[sl[i]].wake_in <= c[sl[j]].wake_in

\* The ready lists with t added behind, and without the first of, list p.
Behind(rq, p, t) == [rq EXCEPT ![p] = Append(rq[p], t)]

Rest(s) == Tail(s)

Ahead(rq, p) == [rq EXCEPT ![p] = Rest(rq[p])]

\* What enqueue_ready writes, field by field.
Enqueued(q, t, p, e) ==
  /\ e \in QueueMemory
  /\ e.heads = IF q.tails[p] = NULL THEN [q.heads EXCEPT ![p] = t] ELSE q.heads
  /\ e.tails = [q.tails EXCEPT ![p] = t]
  /\ e.next = IF q.tails[p] = NULL THEN [q.next EXCEPT ![t] = NULL]
              ELSE [q.next EXCEPT ![t] = NULL, ![q.tails[p]] = t]
  /\ e.prev = [q.prev EXCEPT ![t] = q.tails[p]]
  /\ e.state = [q.state EXCEPT ![t] = "READY"]
  /\ e.sleep_queue = q.sleep_queue
  /\ e.threads_ready = Incr(q.threads_ready)
  /\ e.threads_sleeping = q.threads_sleeping
  /\ e.threads_blocked = q.threads_blocked

\* enqueue_ready writes exactly these fields.
LEMMA EnqueueReadyFields ==
  ASSUME NEW q \in QueueMemory, NEW t \in Thread, NEW p \in Priorities
  PROVE  Enqueued(q, t, p, enqueue_ready(q, t, p))
<1> DEFINE e == enqueue_ready(q, t, p)
<1>1. e \in QueueMemory
  BY EnqueueReadyType
<1>2. CASE q.tails[p] = NULL
  BY <1>1, <1>2 DEF enqueue_ready, QueueMemory, Enqueued
<1>3. CASE q.tails[p] # NULL
  BY <1>1, <1>3 DEF enqueue_ready, QueueMemory, Enqueued
<1>4. QED
  BY <1>2, <1>3

\* enqueue_ready puts a thread that is on no list at the end of its ready list.
LEMMA EnqueueReadyLists ==
  ASSUME NEW q \in QueueMemory, NEW c \in Blocks, NEW X, NEW rq, NEW sl, Lists(q, c, X, rq, sl),
         NEW t \in Threads, t \in X \/ q.state[t] \notin {"READY", "SLEEPING"},
         NEW p, p = c[t].priority, NEW e, e = enqueue_ready(q, t, p), NEW Y, Y = X \ {t}
  PROVE  Lists(e, c, Y, Behind(rq, p, t), sl)
<1> DEFINE z == Append(rq[p], t)
           rq2 == [rq EXCEPT ![p] = z]
<1>1. t \in Thread /\ p \in Priorities
  BY DEF Thread, Blocks, ThreadFields
<1>2. /\ e \in QueueMemory
      /\ e.heads = IF q.tails[p] = NULL THEN [q.heads EXCEPT ![p] = t] ELSE q.heads
      /\ e.tails = [q.tails EXCEPT ![p] = t]
      /\ e.next = IF q.tails[p] = NULL THEN [q.next EXCEPT ![t] = NULL]
                  ELSE [q.next EXCEPT ![t] = NULL, ![q.tails[p]] = t]
      /\ e.prev = [q.prev EXCEPT ![t] = q.tails[p]]
      /\ e.state = [q.state EXCEPT ![t] = "READY"]
      /\ e.sleep_queue = q.sleep_queue
  <2>1. Enqueued(q, t, p, e)
    BY <1>1, EnqueueReadyFields
  <2>2. QED
    BY <2>1 DEF Enqueued
<1>3. /\ q.heads \in [Priorities -> Pointer] /\ q.tails \in [Priorities -> Pointer]
      /\ q.next \in [Thread -> Pointer] /\ q.prev \in [Thread -> Pointer]
      /\ q.state \in [Thread -> States]
  BY DEF QueueMemory
<1>4. (\A r \in Priorities : ~In(t, rq[r])) /\ ~In(t, sl)
  BY DEF Lists
<1>5. \A r \in Priorities, u \in Threads :
        In(u, rq[r]) => q.state[u] = "READY" /\ c[u].priority = r
  BY DEF Lists
<1>6. IsDeque(q.heads[p], q.tails[p], q.next, q.prev, rq[p]) /\ IsList(q.heads[p], q.next, rq[p])
  BY <1>1 DEF Lists, IsDeque
<1>7. rq[p] \in Seq(Threads) /\ Len(rq[p]) \in Nat
  BY <1>6 DEF IsList
<1>8. \A r \in Priorities : \A i \in 1 .. Len(rq[r]) : rq[r][i] \in Threads /\ rq[r][i] \in Thread /\ In(rq[r][i], rq[r])
  BY DEF Lists, IsDeque, IsList, In, Thread
<1>9. \A i \in 1 .. Len(sl) : sl[i] \in Threads /\ sl[i] \in Thread /\ In(sl[i], sl)
  BY DEF Lists, IsList, In, Thread
<1>10. q.tails[p] # NULL => In(q.tails[p], rq[p]) /\ q.tails[p] = rq[p][Len(rq[p])] /\ Len(rq[p]) > 0
  <2>1. q.tails[p] = IF Len(rq[p]) = 0 THEN NULL ELSE rq[p][Len(rq[p])]
    BY <1>6 DEF IsDeque
  <2>2. QED
    BY <1>1, <1>7, <1>8, <2>1
<1>10b. q.tails[p] # NULL => q.tails[p] \in Threads /\ q.tails[p] \in Thread
  BY <1>1, <1>7, <1>8, <1>10
<1>11. \A u \in Thread : u # t /\ u # q.tails[p] => e.next[u] = q.next[u]
  BY <1>1, <1>2, <1>3
<1>12. e.next[t] = NULL /\ (q.tails[p] # NULL => e.next[q.tails[p]] = t)
  <2>1. q.tails[p] # NULL => q.tails[p] # t
    BY <1>1, <1>4, <1>10
  <2>2. QED
    BY <1>1, <1>2, <1>3, <1>10b, <2>1
<1>13. e.prev[t] = q.tails[p] /\ \A u \in Thread : u # t => e.prev[u] = q.prev[u]
  BY <1>1, <1>2, <1>3
<1>14. /\ IsDeque(IF q.tails[p] = NULL THEN t ELSE q.heads[p], t, e.next, e.prev, z)
       /\ \A u : In(u, z) <=> In(u, rq[p]) \/ u = t
  <2>1. Len(rq[p]) > 0 => e.next[q.tails[p]] = t
    <3>1. Len(rq[p]) > 0 => q.tails[p] # NULL
      BY <1>1, <1>6, <1>7, <1>8, ThreadAssumption DEF IsDeque
    <3>2. QED
      BY <3>1, <1>12
  <2>2. \A i \in 1 .. Len(rq[p]) : i < Len(rq[p]) => e.next[rq[p][i]] = q.next[rq[p][i]]
    <3> SUFFICES ASSUME NEW i \in 1 .. Len(rq[p]), i < Len(rq[p])
                 PROVE  e.next[rq[p][i]] = q.next[rq[p][i]]
      OBVIOUS
    <3>1. rq[p][i] # t
      BY <1>1, <1>4, <1>8
    <3>2. rq[p][i] # rq[p][Len(rq[p])]
      BY <1>6, <1>7 DEF IsList
    <3>3. rq[p][i] # q.tails[p]
      BY <1>1, <1>8, <1>10, <3>2, ThreadAssumption
    <3>4. QED
      BY <1>1, <1>8, <1>11, <3>1, <3>3
  <2>3. \A i \in 1 .. Len(rq[p]) : e.prev[rq[p][i]] = q.prev[rq[p][i]]
    BY <1>1, <1>4, <1>8, <1>13
  <2>4. ~In(t, rq[p])
    BY <1>1, <1>4
  <2>5. QED
    BY <1>6, <1>12, <1>13, <2>1, <2>2, <2>3, <2>4, DequeAppend
<1>15. IsDeque(e.heads[p], e.tails[p], e.next, e.prev, z)
  BY <1>1, <1>2, <1>3, <1>14
<1>16. z \in Seq(Threads)
  BY <1>7
<1> HIDE DEF z
<1>17. rq2 \in [Priorities -> Seq(Threads)] /\ rq2[p] = z /\ \A r \in Priorities : r # p => rq2[r] = rq[r]
  BY <1>1, <1>16 DEF Lists
<1> HIDE DEF rq2
<1>18. ASSUME NEW r \in Priorities, r # p
       PROVE  IsDeque(e.heads[r], e.tails[r], e.next, e.prev, rq[r])
  <2>1. e.heads[r] = q.heads[r] /\ e.tails[r] = q.tails[r]
    BY <1>1, <1>2, <1>3, <1>18
  <2>2. \A i \in 1 .. Len(rq[r]) : rq[r][i] # t /\ rq[r][i] # q.tails[p]
    BY <1>1, <1>4, <1>5, <1>8, <1>10, <1>18, ThreadAssumption
  <2>3. \A i \in 1 .. Len(rq[r]) : /\ e.next[rq[r][i]] = q.next[rq[r][i]]
                                   /\ e.prev[rq[r][i]] = q.prev[rq[r][i]]
    BY <1>8, <1>11, <1>13, <2>2
  <2>4. IsDeque(q.heads[r], q.tails[r], q.next, q.prev, rq[r])
    BY DEF Lists
  <2>5. QED
    BY <2>1, <2>3, <2>4, DequeFrame
<1>19. \A r \in Priorities : IsDeque(e.heads[r], e.tails[r], e.next, e.prev, rq2[r])
  BY <1>15, <1>17, <1>18
<1>20. \A u \in Threads : e.state[u] = IF u = t THEN "READY" ELSE q.state[u]
  BY <1>2, <1>3 DEF Thread
<1>21. ASSUME NEW r \in Priorities, NEW u \in Threads
       PROVE  In(u, rq2[r]) <=> u \notin X \ {t} /\ e.state[u] = "READY" /\ c[u].priority = r
  <2>1. In(u, rq[r]) <=> u \notin X /\ q.state[u] = "READY" /\ c[u].priority = r
    BY DEF Lists
  <2>2. CASE r = p
    BY <1>1, <1>14, <1>17, <1>20, <2>1, <2>2
  <2>3. CASE r # p
    BY <1>1, <1>4, <1>17, <1>20, <2>1, <2>3
  <2>4. QED
    BY <2>2, <2>3
<1>22. IsList(e.sleep_queue, e.next, sl)
  <2>1. \A i \in 1 .. Len(sl) : sl[i] # t /\ sl[i] # q.tails[p]
    <3>1. \A i \in 1 .. Len(sl) : q.state[sl[i]] = "SLEEPING"
      BY <1>9 DEF Lists
    <3>2. q.tails[p] # NULL => q.state[q.tails[p]] = "READY"
      BY <1>1, <1>5, <1>10, <1>10b
    <3>3. \A i \in 1 .. Len(sl) : sl[i] # NULL
      BY <1>9, ThreadAssumption
    <3>4. QED
      BY <1>4, <1>9, <3>1, <3>2, <3>3
  <2>2. \A i \in 1 .. Len(sl) : e.next[sl[i]] = q.next[sl[i]]
    BY <1>9, <1>11, <2>1
  <2>3. IsList(q.sleep_queue, q.next, sl)
    BY DEF Lists
  <2>4. QED
    <3>1. IsList(q.sleep_queue, e.next, sl)
      BY <2>2, <2>3, ListFrame
    <3>2. QED
      BY <1>2, <3>1
<1>23. \A u \in Threads : In(u, sl) <=> u \notin X \ {t} /\ e.state[u] = "SLEEPING"
  BY <1>4, <1>20 DEF Lists
<1>24. \A i, j \in 1 .. Len(sl) : i < j => c[sl[i]].wake_in <= c[sl[j]].wake_in
  BY DEF Lists
<1>25. Lists(e, c, X \ {t}, rq2, sl)
  BY <1>17, <1>19, <1>21, <1>22, <1>23, <1>24 DEF Lists
<1>26. QED
  BY <1>25 DEF rq2, z, Behind

\* What dequeue_ready writes, field by field.
Dequeued(q, p, e) ==
  LET t == q.heads[p]
      h == q.next[t]
  IN
  /\ e \in QueueMemory
  /\ e.heads = [q.heads EXCEPT ![p] = h]
  /\ e.tails = IF h = NULL THEN [q.tails EXCEPT ![p] = NULL] ELSE q.tails
  /\ e.next = [q.next EXCEPT ![t] = NULL]
  /\ e.prev = IF h = NULL THEN [q.prev EXCEPT ![t] = NULL]
              ELSE [q.prev EXCEPT ![h] = NULL, ![t] = NULL]
  /\ e.state = q.state
  /\ e.sleep_queue = q.sleep_queue
  /\ e.threads_ready = Decr(q.threads_ready)
  /\ e.threads_sleeping = q.threads_sleeping
  /\ e.threads_blocked = q.threads_blocked

\* dequeue_ready writes exactly these fields.
LEMMA DequeueReadyFields ==
  ASSUME NEW q \in QueueMemory, NEW p \in Priorities, q.heads[p] # NULL
  PROVE  Dequeued(q, p, dequeue_ready(q, p))
<1> DEFINE e == dequeue_ready(q, p)
<1>1. e \in QueueMemory /\ q.heads[p] \in Thread
  BY DequeueReadyType
<1>2. CASE q.next[q.heads[p]] = NULL
  BY <1>1, <1>2 DEF dequeue_ready, QueueMemory, Dequeued
<1>3. CASE q.next[q.heads[p]] # NULL
  BY <1>1, <1>3 DEF dequeue_ready, QueueMemory, Dequeued
<1>4. QED
  BY <1>2, <1>3

\* dequeue_ready takes the first thread off its list and leaves it on none.
LEMMA DequeueReadyLists ==
  ASSUME NEW q \in QueueMemory, NEW c \in Blocks, NEW X, NEW rq, NEW sl, Lists(q, c, X, rq, sl),
         NEW p \in Priorities, q.heads[p] # NULL,
         NEW t, t = q.heads[p], NEW e, e = dequeue_ready(q, p), NEW Y, Y = X \cup {t}
  PROVE  /\ Lists(e, c, Y, Ahead(rq, p), sl)
         /\ t \in Threads /\ t \notin X /\ q.state[t] = "READY"
         /\ Len(rq[p]) > 0 /\ rq[p][1] = t
<1> DEFINE z == Tail(rq[p])
           rq2 == [rq EXCEPT ![p] = z]
           h == q.next[t]
<1>1. IsDeque(q.heads[p], q.tails[p], q.next, q.prev, rq[p]) /\ IsList(q.heads[p], q.next, rq[p])
  BY DEF Lists, IsDeque
<1>2. /\ rq[p] \in Seq(Threads) /\ Len(rq[p]) \in Nat /\ Len(rq[p]) > 0
      /\ t \in Threads /\ t = rq[p][1] /\ In(t, rq[p])
      /\ h = IF Len(rq[p]) = 1 THEN NULL ELSE rq[p][2]
      /\ h = NULL <=> Len(rq[p]) = 1
  BY <1>1, ListFirst
<1>3. t \notin X /\ q.state[t] = "READY" /\ c[t].priority = p /\ t \in Thread
  BY <1>2 DEF Lists, Thread
<1>4. /\ e \in QueueMemory
      /\ e.heads = [q.heads EXCEPT ![p] = h]
      /\ e.tails = IF h = NULL THEN [q.tails EXCEPT ![p] = NULL] ELSE q.tails
      /\ e.next = [q.next EXCEPT ![t] = NULL]
      /\ e.prev = IF h = NULL THEN [q.prev EXCEPT ![t] = NULL]
                  ELSE [q.prev EXCEPT ![h] = NULL, ![t] = NULL]
      /\ e.state = q.state
      /\ e.sleep_queue = q.sleep_queue
  <2>1. Dequeued(q, p, e)
    BY DequeueReadyFields
  <2>2. QED
    BY <2>1 DEF Dequeued
<1>5. /\ q.heads \in [Priorities -> Pointer] /\ q.tails \in [Priorities -> Pointer]
      /\ q.next \in [Thread -> Pointer] /\ q.prev \in [Thread -> Pointer]
      /\ q.state \in [Thread -> States]
  BY DEF QueueMemory
<1>6. \A r \in Priorities, u \in Threads :
        In(u, rq[r]) => q.state[u] = "READY" /\ c[u].priority = r
  BY DEF Lists
<1>7. \A r \in Priorities : \A i \in 1 .. Len(rq[r]) : rq[r][i] \in Threads /\ rq[r][i] \in Thread /\ In(rq[r][i], rq[r])
  BY DEF Lists, IsDeque, IsList, In, Thread
<1>8. \A i \in 1 .. Len(sl) : sl[i] \in Threads /\ sl[i] \in Thread /\ q.state[sl[i]] = "SLEEPING"
  <2>1. \A i \in 1 .. Len(sl) : sl[i] \in Threads /\ sl[i] \in Thread /\ In(sl[i], sl)
    BY DEF Lists, IsList, In, Thread
  <2>2. QED
    BY <2>1 DEF Lists
<1>9. h # NULL => h \in Threads /\ h \in Thread /\ h # t /\ In(h, rq[p]) /\ h = rq[p][2] /\ Len(rq[p]) > 1
  <2>1. h # NULL => 2 \in 1 .. Len(rq[p]) /\ 1 \in 1 .. Len(rq[p]) /\ h = rq[p][2]
    <3>1. \A k \in Nat : k > 0 /\ k # 1 => 2 \in 1 .. k /\ 1 \in 1 .. k
      OBVIOUS
    <3>2. QED
      BY <1>2, <3>1
  <2>2. h # NULL => h # t
    BY <1>1, <1>2, <2>1 DEF IsList
  <2>3. QED
    BY <1>2, <1>7, <2>1, <2>2
<1>10. \A u \in Thread : u # t => e.next[u] = q.next[u]
  BY <1>3, <1>4, <1>5
<1>11. (h # NULL => e.prev[h] = NULL) /\ \A u \in Thread : u # t /\ u # h => e.prev[u] = q.prev[u]
  BY <1>3, <1>4, <1>5, <1>9
<1>12. IsTail(z, rq[p])
  BY <1>2, TailIsTail
<1> HIDE DEF z
<1>13. IsDeque(h, IF h = NULL THEN NULL ELSE q.tails[p], e.next, e.prev, z)
  <2>1. \A i \in 2 .. Len(rq[p]) : i \in 1 .. Len(rq[p]) /\ rq[p][i] # t
    BY <1>1, <1>2 DEF IsList
  <2>2. \A i \in 2 .. Len(rq[p]) : e.next[rq[p][i]] = q.next[rq[p][i]]
    BY <1>7, <1>10, <2>1
  <2>3. Len(rq[p]) > 1 => e.prev[rq[p][2]] = NULL
    BY <1>2, <1>9, <1>11
  <2>4. \A i \in 3 .. Len(rq[p]) : e.prev[rq[p][i]] = q.prev[rq[p][i]]
    <3> SUFFICES ASSUME NEW i \in 3 .. Len(rq[p]) PROVE e.prev[rq[p][i]] = q.prev[rq[p][i]]
      OBVIOUS
    <3>1. i \in 1 .. Len(rq[p]) /\ i \in 2 .. Len(rq[p]) /\ 2 \in 1 .. Len(rq[p]) /\ i # 2
      BY <1>2
    <3>2. rq[p][i] # rq[p][2]
      BY <1>1, <3>1 DEF IsList
    <3>3. rq[p][i] # h
      BY <1>7, <1>9, <3>1, <3>2, ThreadAssumption
    <3>4. QED
      BY <1>7, <1>11, <2>1, <3>1, <3>3
  <2>5. QED
    <3> DEFINE last == q.tails[p]  n == q.next  b == q.prev  s == rq[p]  n2 == e.next  b2 == e.prev
    <3>1. IsDeque(t, last, n, b, s) /\ t # NULL /\ IsTail(z, s)
      BY <1>1, <1>12
    <3>2. FirstUnlinked(n, b, n2, b2, s)
      BY <2>2, <2>3, <2>4 DEF FirstUnlinked
    <3>3. h = n[t]
      OBVIOUS
    <3> HIDE DEF last, n, b, s, n2, b2, h
    <3> DEFINE last2 == IF h = NULL THEN NULL ELSE last
    <3>4. last2 = IF h = NULL THEN NULL ELSE last
      OBVIOUS
    <3> HIDE DEF last2
    <3>5. IsDeque(h, last2, n2, b2, z)
      BY <3>1, <3>2, <3>3, <3>4, DequeTail
    <3>6. QED
      BY <3>5 DEF last2, last, n2, b2
<1>14. \A u : In(u, z) <=> In(u, rq[p]) /\ u # t
  <2>1. \A i \in 2 .. Len(rq[p]) : i \in 1 .. Len(rq[p]) /\ rq[p][i] # t
    BY <1>1, <1>2 DEF IsList
  <2>2. \A i \in 2 .. Len(rq[p]) : e.next[rq[p][i]] = q.next[rq[p][i]]
    BY <1>7, <1>10, <2>1
  <2>3. QED
    BY <1>1, <1>12, <2>2, ListTail
<1>15. IsDeque(e.heads[p], e.tails[p], e.next, e.prev, z)
  <2>1. e.heads[p] = h /\ e.tails[p] = IF h = NULL THEN NULL ELSE q.tails[p]
    BY <1>4, <1>5
  <2>2. QED
    BY <1>13, <2>1
<1>17. rq2 \in [Priorities -> Seq(Threads)] /\ rq2[p] = z /\ \A r \in Priorities : r # p => rq2[r] = rq[r]
  BY <1>12 DEF Lists, IsTail
<1> HIDE DEF rq2, h
<1>18. ASSUME NEW r \in Priorities, r # p
       PROVE  IsDeque(e.heads[r], e.tails[r], e.next, e.prev, rq[r])
  <2>1. e.heads[r] = q.heads[r] /\ e.tails[r] = q.tails[r]
    BY <1>4, <1>5, <1>18
  <2>2. \A i \in 1 .. Len(rq[r]) : rq[r][i] # t /\ rq[r][i] # h
    BY <1>3, <1>6, <1>7, <1>9, <1>18, ThreadAssumption
  <2>3. \A i \in 1 .. Len(rq[r]) : /\ e.next[rq[r][i]] = q.next[rq[r][i]]
                                   /\ e.prev[rq[r][i]] = q.prev[rq[r][i]]
    BY <1>7, <1>10, <1>11, <2>2
  <2>4. IsDeque(q.heads[r], q.tails[r], q.next, q.prev, rq[r])
    BY DEF Lists
  <2>5. QED
    BY <2>1, <2>3, <2>4, DequeFrame
<1>19. \A r \in Priorities : IsDeque(e.heads[r], e.tails[r], e.next, e.prev, rq2[r])
  BY <1>15, <1>17, <1>18
<1>20. ASSUME NEW r \in Priorities, NEW u \in Threads
       PROVE  In(u, rq2[r]) <=> u \notin X \cup {t} /\ e.state[u] = "READY" /\ c[u].priority = r
  <2>1. In(u, rq[r]) <=> u \notin X /\ q.state[u] = "READY" /\ c[u].priority = r
    BY DEF Lists
  <2>2. CASE r = p
    BY <1>4, <1>14, <1>17, <2>1, <2>2
  <2>3. CASE r # p
    BY <1>3, <1>4, <1>17, <2>1, <2>3
  <2>4. QED
    BY <2>2, <2>3
<1>21. IsList(e.sleep_queue, e.next, sl)
  <2>1. \A i \in 1 .. Len(sl) : e.next[sl[i]] = q.next[sl[i]]
    BY <1>3, <1>8, <1>10
  <2>2. IsList(q.sleep_queue, q.next, sl)
    BY DEF Lists
  <2>3. IsList(q.sleep_queue, e.next, sl)
    BY <2>1, <2>2, ListFrame
  <2>4. QED
    BY <1>4, <2>3
<1>22. \A u \in Threads : In(u, sl) <=> u \notin X \cup {t} /\ e.state[u] = "SLEEPING"
  BY <1>3, <1>4 DEF Lists
<1>23. \A i, j \in 1 .. Len(sl) : i < j => c[sl[i]].wake_in <= c[sl[j]].wake_in
  BY DEF Lists
<1>24. Lists(e, c, X \cup {t}, rq2, sl)
  BY <1>17, <1>19, <1>20, <1>21, <1>22, <1>23 DEF Lists
<1>25. QED
  BY <1>2, <1>3, <1>24 DEF rq2, z, Ahead, Rest

SameFor(q, c, X, e, d) ==
  /\ e.heads = q.heads /\ e.tails = q.tails /\ e.sleep_queue = q.sleep_queue
  /\ \A u \in Threads : u \notin X =>
       /\ e.next[u] = q.next[u] /\ e.prev[u] = q.prev[u] /\ e.state[u] = q.state[u]
       /\ d[u].priority = c[u].priority /\ d[u].wake_in = c[u].wake_in

\* The lists say nothing about the threads X, and see of a control block only
\* the priority and the wake-up time.
LEMMA ListsFrame ==
  ASSUME NEW q \in QueueMemory, NEW c, NEW X, NEW rq, NEW sl, Lists(q, c, X, rq, sl),
         NEW e, NEW d, SameFor(q, c, X, e, d)
  PROVE  Lists(e, d, X, rq, sl)
<1> USE DEF SameFor
<1>1. \A p \in Priorities : \A i \in 1 .. Len(rq[p]) : rq[p][i] \in Threads /\ rq[p][i] \notin X
  <2>1. \A p \in Priorities : \A i \in 1 .. Len(rq[p]) : rq[p][i] \in Threads /\ In(rq[p][i], rq[p])
    BY DEF Lists, IsDeque, IsList, In
  <2>2. QED
    BY <2>1 DEF Lists
<1>2. \A i \in 1 .. Len(sl) : sl[i] \in Threads /\ sl[i] \notin X
  <2>1. \A i \in 1 .. Len(sl) : sl[i] \in Threads /\ In(sl[i], sl)
    BY DEF Lists, IsList, In
  <2>2. QED
    BY <2>1 DEF Lists
<1>3. ASSUME NEW p \in Priorities
      PROVE  IsDeque(e.heads[p], e.tails[p], e.next, e.prev, rq[p])
  <2>1. IsDeque(q.heads[p], q.tails[p], q.next, q.prev, rq[p])
    BY DEF Lists
  <2>2. \A i \in 1 .. Len(rq[p]) : /\ e.next[rq[p][i]] = q.next[rq[p][i]]
                                   /\ e.prev[rq[p][i]] = q.prev[rq[p][i]]
    BY <1>1
  <2>3. QED
    BY <2>1, <2>2, DequeFrame
<1>4. IsList(e.sleep_queue, e.next, sl)
  <2>1. IsList(q.sleep_queue, q.next, sl)
    BY DEF Lists
  <2>2. \A i \in 1 .. Len(sl) : e.next[sl[i]] = q.next[sl[i]]
    BY <1>2
  <2>3. IsList(q.sleep_queue, e.next, sl)
    BY <2>1, <2>2, ListFrame
  <2>4. QED
    BY <2>3
<1>5. \A p \in Priorities, t \in Threads :
        In(t, rq[p]) <=> t \notin X /\ e.state[t] = "READY" /\ d[t].priority = p
  BY DEF Lists
<1>6. \A t \in Threads : In(t, sl) <=> t \notin X /\ e.state[t] = "SLEEPING"
  BY DEF Lists
<1>7. \A i, j \in 1 .. Len(sl) : i < j => d[sl[i]].wake_in <= d[sl[j]].wake_in
  BY <1>2 DEF Lists
<1>8. rq \in [Priorities -> Seq(Threads)]
  BY DEF Lists
<1>9. QED
  BY <1>3, <1>4, <1>5, <1>6, <1>7, <1>8 DEF Lists

Popped(q, e) ==
  e = [q EXCEPT !.sleep_queue = q.next[q.sleep_queue], !.next[q.sleep_queue] = NULL,
                !.threads_sleeping = Decr(@)]

\* The first sleeper is unlinked, as wake_expired_sleepers begins.
LEMMA PopSleeperLists ==
  ASSUME NEW q \in QueueMemory, NEW c, NEW X, NEW rq, NEW sl, Lists(q, c, X, rq, sl),
         q.sleep_queue # NULL, NEW t, t = q.sleep_queue, NEW e, Popped(q, e),
         NEW Y, Y = X \cup {t}
  PROVE  /\ e \in QueueMemory
         /\ Lists(e, c, Y, rq, Rest(sl))
         /\ t \in Threads /\ t \notin X /\ q.state[t] = "SLEEPING"
         /\ Len(sl) > 0 /\ sl[1] = t
<1> DEFINE z == Tail(sl)
<1>1. IsList(q.sleep_queue, q.next, sl)
  BY DEF Lists
<1>2. /\ sl \in Seq(Threads) /\ Len(sl) \in Nat /\ Len(sl) > 0
      /\ t \in Threads /\ t = sl[1] /\ In(t, sl)
  BY <1>1, ListFirst
<1>3. t \notin X /\ q.state[t] = "SLEEPING" /\ t \in Thread
  BY <1>2 DEF Lists, Thread
<1>4. /\ e.heads = q.heads /\ e.tails = q.tails /\ e.prev = q.prev /\ e.state = q.state
      /\ e.sleep_queue = q.next[t] /\ e.next = [q.next EXCEPT ![t] = NULL]
      /\ e \in QueueMemory
  BY <1>3, CounterType DEF Popped, QueueMemory, Pointer
<1>5. \A u \in Thread : u # t => e.next[u] = q.next[u]
  BY <1>3, <1>4 DEF QueueMemory
<1>6. IsTail(z, sl)
  BY <1>2, TailIsTail
<1> HIDE DEF z
<1>7. \A i \in 2 .. Len(sl) : e.next[sl[i]] = q.next[sl[i]]
  <2>1. \A i \in 2 .. Len(sl) : i \in 1 .. Len(sl) /\ sl[i] # t
    BY <1>1, <1>2 DEF IsList
  <2>2. \A i \in 1 .. Len(sl) : sl[i] \in Thread
    BY <1>2 DEF Thread
  <2>3. QED
    BY <1>5, <2>1, <2>2
<1>8. IsList(q.next[t], e.next, z) /\ \A u : In(u, z) <=> In(u, sl) /\ u # t
  BY <1>1, <1>6, <1>7, ListTail
<1>9. IsList(e.sleep_queue, e.next, z)
  BY <1>4, <1>8
<1>10. \A u \in Threads : In(u, z) <=> u \notin X \cup {t} /\ e.state[u] = "SLEEPING"
  BY <1>4, <1>8 DEF Lists
<1>11. ASSUME NEW p \in Priorities
       PROVE  IsDeque(e.heads[p], e.tails[p], e.next, e.prev, rq[p])
  <2>1. IsDeque(q.heads[p], q.tails[p], q.next, q.prev, rq[p])
    BY DEF Lists
  <2>2. \A i \in 1 .. Len(rq[p]) : rq[p][i] \in Threads /\ rq[p][i] \in Thread /\ In(rq[p][i], rq[p])
    BY DEF Lists, IsDeque, IsList, In, Thread
  <2>3. \A i \in 1 .. Len(rq[p]) : q.state[rq[p][i]] = "READY"
    BY <2>2 DEF Lists
  <2>4. \A i \in 1 .. Len(rq[p]) : /\ e.next[rq[p][i]] = q.next[rq[p][i]]
                                   /\ e.prev[rq[p][i]] = q.prev[rq[p][i]]
    BY <1>3, <1>4, <1>5, <2>2, <2>3
  <2>5. IsDeque(q.heads[p], q.tails[p], e.next, e.prev, rq[p])
    BY <2>1, <2>4, DequeFrame
  <2>6. QED
    BY <1>4, <2>5
<1>12. \A p \in Priorities, u \in Threads :
         In(u, rq[p]) <=> u \notin X \cup {t} /\ e.state[u] = "READY" /\ c[u].priority = p
  BY <1>3, <1>4 DEF Lists
<1>13. \A i, j \in 1 .. Len(z) : i < j => c[z[i]].wake_in <= c[z[j]].wake_in
  <2> SUFFICES ASSUME NEW i \in 1 .. Len(z), NEW j \in 1 .. Len(z), i < j
               PROVE  c[z[i]].wake_in <= c[z[j]].wake_in
    OBVIOUS
  <2>1. /\ i + 1 \in 1 .. Len(sl) /\ j + 1 \in 1 .. Len(sl) /\ i + 1 < j + 1
        /\ z[i] = sl[i+1] /\ z[j] = sl[j+1]
    BY <1>2, <1>6 DEF IsTail
  <2>2. c[sl[i+1]].wake_in <= c[sl[j+1]].wake_in
    BY <2>1 DEF Lists
  <2>3. QED
    BY <2>1, <2>2
<1>14. rq \in [Priorities -> Seq(Threads)]
  BY DEF Lists
<1>15. Lists(e, c, X \cup {t}, rq, z)
  BY <1>9, <1>10, <1>11, <1>12, <1>13, <1>14 DEF Lists
<1>16. QED
  BY <1>2, <1>3, <1>4, <1>15 DEF z, Rest

\* t is linked into the sleep list behind its first k threads.
LinkedBehind(q, sl, k, t, e) ==
  /\ e.heads = q.heads /\ e.tails = q.tails /\ e.prev = q.prev /\ e.state = q.state
  /\ e.sleep_queue = IF k = 0 THEN t ELSE q.sleep_queue
  /\ e.next[t] = IF k = 0 THEN q.sleep_queue ELSE q.next[sl[k]]
  /\ k > 0 => e.next[sl[k]] = t
  /\ \A u \in Threads : u # t /\ (k > 0 => u # sl[k]) => e.next[u] = q.next[u]

\* The insertion of enqueue_sleep: behind threads due no later and before
\* threads due no earlier.
LEMMA InsertSleeperLists ==
  ASSUME NEW q \in QueueMemory, NEW c \in Blocks, NEW X, NEW rq, NEW sl, Lists(q, c, X, rq, sl),
         NEW t \in Threads, t \in X, q.state[t] = "SLEEPING",
         NEW k \in 0 .. Len(sl),
         k > 0 => c[sl[k]].wake_in <= c[t].wake_in,
         k < Len(sl) => c[t].wake_in <= c[sl[k+1]].wake_in,
         NEW e, LinkedBehind(q, sl, k, t, e), NEW Y, Y = X \ {t}
  PROVE  Lists(e, c, Y, rq, Inserted(sl, k, t))
<1> DEFINE z == Inserted(sl, k, t)
<1>1. IsList(q.sleep_queue, q.next, sl) /\ ~In(t, sl)
  BY DEF Lists
<1>2. sl \in Seq(Threads) /\ Len(sl) \in Nat /\ k \in Nat /\ k <= Len(sl)
  BY <1>1 DEF IsList
<1>3. \A i \in 1 .. Len(sl) : sl[i] \in Threads /\ sl[i] # t /\ In(sl[i], sl)
  BY <1>1, <1>2 DEF In
<1>4. \A i \in 1 .. Len(sl) : i # k => e.next[sl[i]] = q.next[sl[i]]
  <2> SUFFICES ASSUME NEW i \in 1 .. Len(sl), i # k PROVE e.next[sl[i]] = q.next[sl[i]]
    OBVIOUS
  <2>1. k > 0 => sl[i] # sl[k]
    BY <1>1, <1>2 DEF IsList
  <2>2. QED
    BY <1>3, <2>1 DEF LinkedBehind
<1>5. /\ e.next[t] = IF k = 0 THEN q.sleep_queue ELSE q.next[sl[k]]
      /\ k > 0 => e.next[sl[k]] = t
  BY DEF LinkedBehind
<1>6. /\ IsList(IF k = 0 THEN t ELSE q.sleep_queue, e.next, z)
      /\ Len(z) = Len(sl) + 1
      /\ \A u : In(u, z) <=> In(u, sl) \/ u = t
  BY <1>1, <1>4, <1>5, ListInsert
<1>7. IsList(e.sleep_queue, e.next, z)
  BY <1>6 DEF LinkedBehind
<1>8. \A i \in 1 .. Len(z) : z[i] = IF i <= k THEN sl[i] ELSE IF i = k + 1 THEN t ELSE sl[i-1]
  BY <1>2 DEF Inserted
<1> HIDE DEF z
<1>9. \A u \in Threads : In(u, z) <=> u \notin X \ {t} /\ e.state[u] = "SLEEPING"
  BY <1>6 DEF Lists, LinkedBehind
<1>10. ASSUME NEW p \in Priorities
       PROVE  IsDeque(e.heads[p], e.tails[p], e.next, e.prev, rq[p])
  <2>1. IsDeque(q.heads[p], q.tails[p], q.next, q.prev, rq[p])
    BY DEF Lists
  <2>2. \A i \in 1 .. Len(rq[p]) : rq[p][i] \in Threads /\ In(rq[p][i], rq[p])
    BY DEF Lists, IsDeque, IsList, In
  <2>3. \A i \in 1 .. Len(rq[p]) : q.state[rq[p][i]] = "READY"
    BY <2>2 DEF Lists
  <2>4. \A i \in 1 .. Len(sl) : q.state[sl[i]] = "SLEEPING"
    BY <1>3 DEF Lists
  <2>5. \A i \in 1 .. Len(rq[p]) : /\ e.next[rq[p][i]] = q.next[rq[p][i]]
                                   /\ e.prev[rq[p][i]] = q.prev[rq[p][i]]
    <3> SUFFICES ASSUME NEW i \in 1 .. Len(rq[p])
                 PROVE  /\ e.next[rq[p][i]] = q.next[rq[p][i]]
                        /\ e.prev[rq[p][i]] = q.prev[rq[p][i]]
      OBVIOUS
    <3>1. rq[p][i] # t /\ (k > 0 => rq[p][i] # sl[k])
      BY <1>2, <2>2, <2>3, <2>4
    <3>2. QED
      BY <2>2, <3>1 DEF LinkedBehind
  <2>6. IsDeque(q.heads[p], q.tails[p], e.next, e.prev, rq[p])
    BY <2>1, <2>5, DequeFrame
  <2>7. QED
    BY <2>6 DEF LinkedBehind
<1>11. \A p \in Priorities, u \in Threads :
         In(u, rq[p]) <=> u \notin X \ {t} /\ e.state[u] = "READY" /\ c[u].priority = p
  BY DEF Lists, LinkedBehind
<1>12. \A i, j \in 1 .. Len(z) : i < j => c[z[i]].wake_in <= c[z[j]].wake_in
  <2> DEFINE w(u) == c[u].wake_in
  <2>1. \A u \in Threads : w(u) \in Int
    BY DEF Blocks, ThreadFields, Thread
  <2>2. \A i, j \in 1 .. Len(sl) : i <= j => w(sl[i]) <= w(sl[j])
    <3> SUFFICES ASSUME NEW i \in 1 .. Len(sl), NEW j \in 1 .. Len(sl), i <= j
                 PROVE  w(sl[i]) <= w(sl[j])
      OBVIOUS
    <3>1. CASE i = j
      BY <1>3, <2>1, <3>1
    <3>2. CASE i < j
      BY <3>2 DEF Lists
    <3>3. QED
      BY <3>1, <3>2
  <2>3. (k > 0 => w(sl[k]) <= w(t)) /\ (k < Len(sl) => w(t) <= w(sl[k+1]))
    OBVIOUS
  <2> HIDE DEF w
  <2>4. \A i \in 1 .. k : w(sl[i]) <= w(t)
    <3> SUFFICES ASSUME NEW i \in 1 .. k PROVE w(sl[i]) <= w(t)
      OBVIOUS
    <3>1. i \in 1 .. Len(sl) /\ k \in 1 .. Len(sl) /\ i <= k /\ k > 0
      BY <1>2
    <3>2. w(sl[i]) \in Int /\ w(sl[k]) \in Int /\ w(t) \in Int
      BY <1>3, <2>1, <3>1
    <3>3. w(sl[i]) <= w(sl[k]) /\ w(sl[k]) <= w(t)
      BY <2>2, <2>3, <3>1
    <3>4. QED
      BY <3>2, <3>3
  <2>5. \A i \in k + 1 .. Len(sl) : w(t) <= w(sl[i])
    <3> SUFFICES ASSUME NEW i \in k + 1 .. Len(sl) PROVE w(t) <= w(sl[i])
      OBVIOUS
    <3>1. i \in 1 .. Len(sl) /\ k + 1 \in 1 .. Len(sl) /\ k + 1 <= i /\ k < Len(sl)
      BY <1>2
    <3>2. w(sl[i]) \in Int /\ w(sl[k+1]) \in Int /\ w(t) \in Int
      BY <1>3, <2>1, <3>1
    <3>3. w(t) <= w(sl[k+1]) /\ w(sl[k+1]) <= w(sl[i])
      BY <2>2, <2>3, <3>1
    <3>4. QED
      BY <3>2, <3>3
  <2>6. \A i, j \in 1 .. Len(z) : i < j => w(z[i]) <= w(z[j])
    <3> SUFFICES ASSUME NEW i \in 1 .. Len(z), NEW j \in 1 .. Len(z), i < j
                 PROVE  w(z[i]) <= w(z[j])
      OBVIOUS
    <3>1. CASE j <= k
      <4>1. z[i] = sl[i] /\ z[j] = sl[j] /\ i \in 1 .. Len(sl) /\ j \in 1 .. Len(sl) /\ i <= j
        BY <1>2, <1>6, <1>8, <3>1
      <4>2. QED
        BY <2>2, <4>1
    <3>2. CASE j = k + 1
      <4>1. z[i] = sl[i] /\ z[j] = t /\ i \in 1 .. k
        BY <1>2, <1>6, <1>8, <3>2
      <4>2. QED
        BY <2>4, <4>1
    <3>3. CASE j > k + 1 /\ i <= k
      <4>1. z[i] = sl[i] /\ z[j] = sl[j-1] /\ i \in 1 .. Len(sl) /\ j - 1 \in 1 .. Len(sl) /\ i <= j - 1
        BY <1>2, <1>6, <1>8, <3>3
      <4>2. QED
        BY <2>2, <4>1
    <3>4. CASE j > k + 1 /\ i = k + 1
      <4>1. z[i] = t /\ z[j] = sl[j-1] /\ j - 1 \in k + 1 .. Len(sl)
        BY <1>2, <1>6, <1>8, <3>4
      <4>2. QED
        BY <2>5, <4>1
    <3>5. CASE i > k + 1
      <4>1. z[i] = sl[i-1] /\ z[j] = sl[j-1] /\ i - 1 \in 1 .. Len(sl) /\ j - 1 \in 1 .. Len(sl) /\ i - 1 <= j - 1
        BY <1>2, <1>6, <1>8, <3>5
      <4>2. QED
        BY <2>2, <4>1
    <3>6. QED
      BY <1>2, <1>6, <3>1, <3>2, <3>3, <3>4, <3>5
  <2>7. QED
    BY <2>6 DEF w
<1>13. rq \in [Priorities -> Seq(Threads)]
  BY DEF Lists
<1>14. Lists(e, c, X \ {t}, rq, z)
  BY <1>7, <1>9, <1>10, <1>11, <1>12, <1>13 DEF Lists
<1>15. QED
  BY <1>14 DEF z

-----------------------------------------------------------------------------
(* The counters *)

InState(q, X, st) == {t \in Threads : t \notin X /\ q.state[t] = st}

\* As long as there are fewer threads than a counter has values, the counters
\* hold the numbers of ready and sleeping threads outside X, and of blocked ones.
Counted(q, X) ==
  Cardinality(Threads) < COUNTER_WIDTH =>
    /\ q.threads_ready = Cardinality(InState(q, X, "READY"))
    /\ q.threads_sleeping = Cardinality(InState(q, X, "SLEEPING"))

CountedBlocked(q) ==
  Cardinality(Threads) < COUNTER_WIDTH =>
    q.threads_blocked = Cardinality(InState(q, {}, "BLOCKED"))

\* Counting one thread more, or one less.
LEMMA CountUp ==
  ASSUME Cardinality(Threads) < COUNTER_WIDTH, NEW S, S \subseteq Threads, NEW t \in Threads, t \notin S
  PROVE  Incr(Cardinality(S)) = Cardinality(S \cup {t})
<1>1. IsFiniteSet(S) /\ S \cup {t} \subseteq Threads
  BY ThreadAssumption, FS_Subset
<1>2. Cardinality(S \cup {t}) = Cardinality(S) + 1 /\ Cardinality(S) \in Nat
  BY <1>1, FS_AddElement, FS_CardinalityType
<1>3. Cardinality(S \cup {t}) <= Cardinality(Threads) /\ Cardinality(Threads) \in Nat
  BY <1>1, ThreadAssumption, FS_Subset, FS_CardinalityType
<1>4. Cardinality(S) + 1 \in 0 .. COUNTER_WIDTH - 1
  BY <1>2, <1>3, WidthAssumption
<1>5. \A k \in 0 .. COUNTER_WIDTH - 1 : k % COUNTER_WIDTH = k
  BY WidthAssumption
<1>6. QED
  BY <1>2, <1>4, <1>5 DEF Incr

\* The statistics counters, stepped back, count one thread less.
LEMMA CountDown ==
  ASSUME Cardinality(Threads) < COUNTER_WIDTH, NEW S, S \subseteq Threads, NEW t \in S
  PROVE  Decr(Cardinality(S)) = Cardinality(S \ {t})
<1>1. IsFiniteSet(S) /\ S \ {t} \subseteq Threads
  BY ThreadAssumption, FS_Subset
<1>2. Cardinality(S \ {t}) = Cardinality(S) - 1 /\ Cardinality(S \ {t}) \in Nat /\ Cardinality(S) \in Nat
  <2>1. IsFiniteSet(S \ {t})
    BY <1>1, ThreadAssumption, FS_Subset
  <2>2. QED
    BY <1>1, <2>1, FS_RemoveElement, FS_CardinalityType
<1>3. Cardinality(S) <= Cardinality(Threads) /\ Cardinality(Threads) \in Nat
  BY <1>1, ThreadAssumption, FS_Subset, FS_CardinalityType
<1>4. Cardinality(S) - 1 \in 0 .. COUNTER_WIDTH - 1
  BY <1>2, <1>3, WidthAssumption
<1>5. \A k \in 0 .. COUNTER_WIDTH - 1 : k % COUNTER_WIDTH = k
  BY WidthAssumption
<1>6. QED
  BY <1>2, <1>4, <1>5 DEF Decr

\* enqueue_ready counts the thread it queues.
LEMMA EnqueueReadyCounted ==
  ASSUME NEW q \in QueueMemory, NEW X, Counted(q, X), NEW t \in Threads,
         t \in X \/ q.state[t] \notin {"READY", "SLEEPING"},
         NEW p \in Priorities, NEW e, e = enqueue_ready(q, t, p),
         NEW Y, Y = X \ {t}
  PROVE  Counted(e, Y)
<1> SUFFICES ASSUME Cardinality(Threads) < COUNTER_WIDTH
             PROVE  /\ e.threads_ready = Cardinality(InState(e, X \ {t}, "READY"))
                    /\ e.threads_sleeping = Cardinality(InState(e, X \ {t}, "SLEEPING"))
  BY DEF Counted
<1>1. t \in Thread
  BY DEF Thread
<1>2. Enqueued(q, t, p, e)
  BY <1>1, EnqueueReadyFields
<1>3. \A u \in Threads : e.state[u] = IF u = t THEN "READY" ELSE q.state[u]
  BY <1>2 DEF Enqueued, QueueMemory, Thread
<1>4. InState(e, X \ {t}, "READY") = InState(q, X, "READY") \cup {t} /\ t \notin InState(q, X, "READY")
  BY <1>3 DEF InState
<1>5. InState(e, X \ {t}, "SLEEPING") = InState(q, X, "SLEEPING")
  BY <1>3 DEF InState
<1>6. Incr(Cardinality(InState(q, X, "READY"))) = Cardinality(InState(q, X, "READY") \cup {t})
  <2>1. InState(q, X, "READY") \subseteq Threads
    BY DEF InState
  <2>2. QED
    BY <1>4, <2>1, CountUp
<1>7. e.threads_ready = Incr(q.threads_ready) /\ e.threads_sleeping = q.threads_sleeping
  BY <1>2 DEF Enqueued
<1>8. QED
  BY <1>4, <1>5, <1>6, <1>7 DEF Counted

\* dequeue_ready no longer counts the thread it takes off.
LEMMA DequeueReadyCounted ==
  ASSUME NEW q \in QueueMemory, NEW X, Counted(q, X), NEW p \in Priorities, q.heads[p] # NULL,
         NEW t \in Threads, t = q.heads[p], t \notin X, q.state[t] = "READY",
         NEW e, e = dequeue_ready(q, p), NEW Y, Y = X \cup {t}
  PROVE  Counted(e, Y)
<1> SUFFICES ASSUME Cardinality(Threads) < COUNTER_WIDTH
             PROVE  /\ e.threads_ready = Cardinality(InState(e, X \cup {t}, "READY"))
                    /\ e.threads_sleeping = Cardinality(InState(e, X \cup {t}, "SLEEPING"))
  BY DEF Counted
<1>2. Dequeued(q, p, e)
  BY DequeueReadyFields
<1>3. e.state = q.state /\ e.threads_ready = Decr(q.threads_ready) /\ e.threads_sleeping = q.threads_sleeping
  BY <1>2 DEF Dequeued
<1>4. InState(e, X \cup {t}, "READY") = InState(q, X, "READY") \ {t} /\ t \in InState(q, X, "READY")
  BY <1>3 DEF InState
<1>5. InState(e, X \cup {t}, "SLEEPING") = InState(q, X, "SLEEPING")
  BY <1>3 DEF InState
<1>6. Decr(Cardinality(InState(q, X, "READY"))) = Cardinality(InState(q, X, "READY") \ {t})
  <2>1. InState(q, X, "READY") \subseteq Threads
    BY DEF InState
  <2>2. QED
    BY <1>4, <2>1, CountDown
<1>8. QED
  BY <1>3, <1>4, <1>5, <1>6 DEF Counted

\* wake_expired_sleepers no longer counts the sleeper it unlinks.
LEMMA PopSleeperCounted ==
  ASSUME NEW q \in QueueMemory, NEW X, Counted(q, X),
         NEW t \in Threads, t = q.sleep_queue, t \notin X, q.state[t] = "SLEEPING",
         NEW e, Popped(q, e), NEW Y, Y = X \cup {t}
  PROVE  Counted(e, Y)
<1> SUFFICES ASSUME Cardinality(Threads) < COUNTER_WIDTH
             PROVE  /\ e.threads_ready = Cardinality(InState(e, X \cup {t}, "READY"))
                    /\ e.threads_sleeping = Cardinality(InState(e, X \cup {t}, "SLEEPING"))
  BY DEF Counted
<1>3. e.state = q.state /\ e.threads_ready = q.threads_ready /\ e.threads_sleeping = Decr(q.threads_sleeping)
  BY DEF Popped, QueueMemory
<1>4. InState(e, X \cup {t}, "SLEEPING") = InState(q, X, "SLEEPING") \ {t} /\ t \in InState(q, X, "SLEEPING")
  BY <1>3 DEF InState
<1>5. InState(e, X \cup {t}, "READY") = InState(q, X, "READY")
  BY <1>3 DEF InState
<1>6. Decr(Cardinality(InState(q, X, "SLEEPING"))) = Cardinality(InState(q, X, "SLEEPING") \ {t})
  <2>1. InState(q, X, "SLEEPING") \subseteq Threads
    BY DEF InState
  <2>2. QED
    BY <1>4, <2>1, CountDown
<1>8. QED
  BY <1>3, <1>4, <1>5, <1>6 DEF Counted

\* enqueue_sleep counts the thread it links in.
LEMMA InsertSleeperCounted ==
  ASSUME NEW q, NEW X, Counted(q, X), NEW t \in Threads, t \in X, q.state[t] = "SLEEPING",
         NEW e, e.state = q.state, e.threads_ready = q.threads_ready,
         e.threads_sleeping = Incr(q.threads_sleeping), NEW Y, Y = X \ {t}
  PROVE  Counted(e, Y)
<1> SUFFICES ASSUME Cardinality(Threads) < COUNTER_WIDTH
             PROVE  /\ e.threads_ready = Cardinality(InState(e, X \ {t}, "READY"))
                    /\ e.threads_sleeping = Cardinality(InState(e, X \ {t}, "SLEEPING"))
  BY DEF Counted
<1>4. InState(e, X \ {t}, "SLEEPING") = InState(q, X, "SLEEPING") \cup {t} /\ t \notin InState(q, X, "SLEEPING")
  BY DEF InState
<1>5. InState(e, X \ {t}, "READY") = InState(q, X, "READY")
  BY DEF InState
<1>6. Incr(Cardinality(InState(q, X, "SLEEPING"))) = Cardinality(InState(q, X, "SLEEPING") \cup {t})
  <2>1. InState(q, X, "SLEEPING") \subseteq Threads
    BY DEF InState
  <2>2. QED
    BY <1>4, <2>1, CountUp
<1>8. QED
  BY <1>4, <1>5, <1>6 DEF Counted

\* The counters do not see the threads X.
LEMMA CountedFrame ==
  ASSUME NEW q, NEW X, Counted(q, X), NEW e,
         e.threads_ready = q.threads_ready, e.threads_sleeping = q.threads_sleeping,
         \A u \in Threads : u \notin X => e.state[u] = q.state[u]
  PROVE  Counted(e, X)
<1>1. InState(e, X, "READY") = InState(q, X, "READY") /\ InState(e, X, "SLEEPING") = InState(q, X, "SLEEPING")
  BY DEF InState
<1>2. QED
  BY <1>1 DEF Counted

\* The number of blocked threads depends on who is BLOCKED only.
LEMMA BlockedFrame ==
  ASSUME NEW q, CountedBlocked(q), NEW e, e.threads_blocked = q.threads_blocked,
         \A u \in Threads : e.state[u] = "BLOCKED" <=> q.state[u] = "BLOCKED"
  PROVE  CountedBlocked(e)
<1>1. InState(e, {}, "BLOCKED") = InState(q, {}, "BLOCKED")
  BY DEF InState
<1>2. QED
  BY <1>1 DEF CountedBlocked

-----------------------------------------------------------------------------
(* What schedule() does to the lists *)

Sound(q, c, X, rq, sl) == Lists(q, c, X, rq, sl) /\ Counted(q, X)

\* The choice of pick_next_thread, in terms of the lists it finds and leaves.
PickedBy(rq, next, rest) ==
  \/ /\ next = Idle
     /\ \A p \in Priorities : Len(rq[p]) = 0
     /\ rest = rq
  \/ \E p \in Priorities :
       /\ Len(rq[p]) > 0
       /\ \A r \in Priorities : r < p => Len(rq[r]) = 0
       /\ next = rq[p][1]
       /\ rest = Ahead(rq, p)

\* What a call of schedule on q and c leaves in qq, cc and makes the thread next run.
Switched(q, c, rq, sl, next, qq, cc) ==
  /\ \E rest : Sound(qq, cc, {next}, rest, sl) /\ PickedBy(rq, next, rest)
  /\ next \in Thread
  /\ next \in Threads => q.state[next] = "READY" /\ qq.state[next] \in {"READY", "RUNNING"}
  /\ \A u \in Threads : u # next => qq.state[u] = q.state[u]
  /\ qq.threads_blocked = q.threads_blocked

\* An empty ready list is one whose head is NULL.
LEMMA EmptyList ==
  ASSUME NEW q, NEW c, NEW X, NEW rq, NEW sl, Lists(q, c, X, rq, sl), NEW p \in Priorities
  PROVE  q.heads[p] = NULL <=> Len(rq[p]) = 0
<1>1. IsList(q.heads[p], q.next, rq[p])
  BY DEF Lists, IsDeque
<1>2. \A i \in 1 .. Len(rq[p]) : rq[p][i] # NULL
  BY <1>1, ThreadAssumption DEF IsList, Thread
<1>3. Len(rq[p]) \in Nat
  BY <1>1 DEF IsList
<1>4. QED
  BY <1>1, <1>2, <1>3 DEF IsList

\* switch_to(next, q, c), where next is on no list of q.
LEMMA SwitchLists ==
  ASSUME NEW q \in QueueMemory, NEW c \in Blocks, NEW rq, NEW sl, NEW next \in Thread,
         Sound(q, c, {next}, rq, sl), switch_to(next, q, c)
  PROVE  /\ Sound(m', tcb', {next}, rq, sl)
         /\ current_thread' = next
         /\ m'.state[next] \in {q.state[next], "RUNNING"}
         /\ \A u \in Threads : u # next => m'.state[u] = q.state[u]
         /\ m'.threads_blocked = q.threads_blocked
<1>1. CASE next = current_thread
  BY <1>1 DEF switch_to
<1>2. CASE next # current_thread
  <2>1. /\ m' = [q EXCEPT !.state[next] = "RUNNING"]
        /\ tcb' = [c EXCEPT ![next].time_slice = c[next].time_slice_length, ![next].ticks_used = 0]
        /\ current_thread' = next
    BY <1>2 DEF switch_to
  <2>2. /\ m'.heads = q.heads /\ m'.tails = q.tails /\ m'.sleep_queue = q.sleep_queue
        /\ m'.next = q.next /\ m'.prev = q.prev
        /\ m'.threads_ready = q.threads_ready /\ m'.threads_sleeping = q.threads_sleeping
        /\ m'.threads_blocked = q.threads_blocked
        /\ m'.state = [q.state EXCEPT ![next] = "RUNNING"]
    BY <2>1 DEF QueueMemory
  <2>3. m'.state[next] = "RUNNING" /\ \A u \in Threads : u # next => m'.state[u] = q.state[u]
    BY <2>2 DEF QueueMemory, Thread
  <2>4. \A u \in Threads : u # next => tcb'[u] = c[u]
    BY <2>1 DEF Blocks, Thread
  <2>5. \A u \in Threads : u \notin {next} =>
           /\ m'.next[u] = q.next[u] /\ m'.prev[u] = q.prev[u] /\ m'.state[u] = q.state[u]
           /\ tcb'[u].priority = c[u].priority /\ tcb'[u].wake_in = c[u].wake_in
    BY <2>2, <2>3, <2>4
  <2>6. Lists(m', tcb', {next}, rq, sl)
    <3>1. SameFor(q, c, {next}, m', tcb')
      BY <2>2, <2>5 DEF SameFor
    <3>2. QED
      BY <3>1, ListsFrame DEF Sound
  <2>7. Counted(m', {next})
    <3>1. Counted(q, {next})
      BY DEF Sound
    <3>2. \A u \in Threads : u \notin {next} => m'.state[u] = q.state[u]
      BY <2>3
    <3>3. m'.threads_ready = q.threads_ready /\ m'.threads_sleeping = q.threads_sleeping
      BY <2>2
    <3>4. QED
      BY <3>1, <3>2, <3>3, CountedFrame
  <2>8. QED
    BY <2>1, <2>2, <2>3, <2>6, <2>7 DEF Sound
<1>3. QED
  BY <1>1, <1>2

\* schedule() gives the processor to the first thread of the best list that is
\* not empty, or to the idle thread, and keeps the lists sound.
LEMMA ScheduleLists ==
  ASSUME NEW q \in QueueMemory, NEW c \in Blocks, NEW rq, NEW sl,
         Sound(q, c, {}, rq, sl), schedule(q, c)
  PROVE  Switched(q, c, rq, sl, current_thread', m', tcb')
<1>1. CASE (\A p \in Priorities : q.heads[p] = NULL) /\ switch_to(Idle, q, c)
  <2>1. Lists(q, c, {Idle}, rq, sl) /\ Counted(q, {Idle})
    <3>1. \A u \in Threads : u \notin {Idle}
      BY ThreadAssumption
    <3>2. Lists(q, c, {Idle}, rq, sl)
      BY <3>1 DEF Sound, Lists
    <3>3. InState(q, {Idle}, "READY") = InState(q, {}, "READY") /\ InState(q, {Idle}, "SLEEPING") = InState(q, {}, "SLEEPING")
      BY <3>1 DEF InState
    <3>4. QED
      BY <3>2, <3>3 DEF Sound, Counted
  <2>2. Idle \in Thread /\ Idle \notin Threads
    BY ThreadAssumption DEF Thread
  <2>3. /\ Sound(m', tcb', {Idle}, rq, sl)
        /\ current_thread' = Idle
        /\ \A u \in Threads : u # Idle => m'.state[u] = q.state[u]
        /\ m'.threads_blocked = q.threads_blocked
    BY <1>1, <2>1, <2>2, SwitchLists DEF Sound
  <2>4. \A p \in Priorities : Len(rq[p]) = 0
    BY <1>1, EmptyList DEF Sound
  <2>5. QED
    BY <2>2, <2>3, <2>4 DEF Switched, PickedBy
<1>2. CASE \E p \in Priorities :
             /\ q.heads[p] # NULL
             /\ \A r \in Priorities : r < p => q.heads[r] = NULL
             /\ switch_to(q.heads[p], dequeue_ready(q, p), c)
  <2>1. PICK p \in Priorities :
             /\ q.heads[p] # NULL
             /\ \A r \in Priorities : r < p => q.heads[r] = NULL
             /\ switch_to(q.heads[p], dequeue_ready(q, p), c)
    BY <1>2
  <2> DEFINE t == q.heads[p]
             e == dequeue_ready(q, p)
             rest == Ahead(rq, p)
  <2>2. /\ Lists(e, c, {t}, rest, sl)
        /\ t \in Threads /\ q.state[t] = "READY"
        /\ Len(rq[p]) > 0 /\ rq[p][1] = t
    <3>1. t = q.heads[p] /\ e = dequeue_ready(q, p) /\ Lists(q, c, {}, rq, sl) /\ q.heads[p] # NULL
      BY <2>1 DEF Sound
    <3>2. {t} = {} \cup {t}
      OBVIOUS
    <3> HIDE DEF t, e
    <3>3. QED
      BY <3>1, <3>2, DequeueReadyLists
  <2>3. Counted(e, {t})
    BY <2>1, <2>2, DequeueReadyCounted DEF Sound
  <2>5. Sound(e, c, {t}, rest, sl)
    BY <2>2, <2>3 DEF Sound
  <2>6. e \in QueueMemory /\ t \in Thread
    BY <2>1, DequeueReadyType
  <2>7. e.state = q.state /\ e.threads_blocked = q.threads_blocked
    <3>1. Dequeued(q, p, e)
      BY <2>1, DequeueReadyFields
    <3>2. QED
      BY <3>1 DEF Dequeued
  <2>8. switch_to(t, e, c)
    BY <2>1
  <2>9. \A r \in Priorities : r < p => Len(rq[r]) = 0
    BY <2>1, EmptyList DEF Sound
  <2> HIDE DEF t, e
  <2>10. /\ Sound(m', tcb', {t}, rest, sl)
         /\ current_thread' = t
         /\ m'.state[t] \in {e.state[t], "RUNNING"}
         /\ \A u \in Threads : u # t => m'.state[u] = e.state[u]
         /\ m'.threads_blocked = e.threads_blocked
    BY <2>5, <2>6, <2>8, SwitchLists
  <2>11. PickedBy(rq, t, rest)
    BY <2>2, <2>9 DEF PickedBy
  <2> HIDE DEF rest
  <2>12. m'.state[t] \in {"READY", "RUNNING"}
    BY <2>2, <2>7, <2>10
  <2>13. QED
    BY <2>2, <2>6, <2>7, <2>10, <2>11, <2>12 DEF Switched
<1>3. QED
  BY <1>1, <1>2 DEF schedule, pick_next_thread

-----------------------------------------------------------------------------
(* The inductive invariant *)

\* Where the threads can be in their code, and what the loops with interrupts
\* disabled rely on.
Control ==
  /\ \A t \in Threads : /\ pc[t] \in {"exit", "halt"} => m.state[t] = "TERMINATED"
                        /\ pc[t] = "halt" => t # current_thread
  /\ current_thread \in Threads /\ mode # "insert" /\ pc[current_thread] \in {"run", "sleep"}
       => m.state[current_thread] \in {"READY", "RUNNING"}
  /\ mode = "insert" =>
       /\ current_thread \in Threads
       /\ m.state[current_thread] = "SLEEPING"
       /\ pc[current_thread] = "sleep"
       /\ cursor \in Threads /\ cursor # current_thread /\ m.state[cursor] = "SLEEPING"
       /\ tcb[cursor].wake_in <= tcb[current_thread].wake_in
  /\ mode = "wake" => ~SliceEnds
  /\ CountedBlocked(m)

Inv(rq, sl) == TypeOK /\ Sound(m, tcb, {current_thread}, rq, sl) /\ Control

\* A step of RunQueues, or none, on the lists rq and sl.
QueueStep(rq, sl, cur, rq2, sl2, cur2) ==
  \/ rq2 = rq /\ sl2 = sl /\ cur2 = cur
  \/ \E t \in Threads, p \in Priorities :
       /\ t # cur /\ ~In(t, sl) /\ \A r \in Priorities : ~In(t, rq[r])
       /\ rq2 = Behind(rq, p, t) /\ sl2 = sl /\ cur2 = cur
  \/ \E t \in Threads, p \in Priorities :
       /\ In(t, sl) /\ \A u : In(u, sl2) <=> In(u, sl) /\ u # t
       /\ rq2 = Behind(rq, p, t) /\ cur2 = cur
  \/ /\ cur \in Threads /\ sl2 = sl
     /\ \E p \in Priorities : PickedBy(Behind(rq, p, cur), cur2, rq2)
  \/ cur \in Threads \cup {NULL} /\ sl2 = sl /\ PickedBy(rq, cur2, rq2)
  \/ /\ cur \in Threads /\ \A u : In(u, sl2) <=> In(u, sl) \/ u = cur
     /\ PickedBy(rq, cur2, rq2)

StepsTo(rq, sl) ==
  \E rq2, sl2 : /\ Sound(m', tcb', {current_thread'}, rq2, sl2)
                /\ QueueStep(rq, sl, current_thread, rq2, sl2, current_thread')
                /\ Control'

\* A step that leaves the lists alone.
LEMMA StutterSteps ==
  ASSUME NEW rq, NEW sl, Inv(rq, sl), SameFor(m, tcb, {current_thread}, m', tcb'),
         m'.threads_ready = m.threads_ready, m'.threads_sleeping = m.threads_sleeping,
         current_thread' = current_thread, Control'
  PROVE  StepsTo(rq, sl)
<1>1. m \in QueueMemory
  BY DEF Inv, TypeOK
<1>2. Lists(m', tcb', {current_thread}, rq, sl)
  BY <1>1, ListsFrame DEF Inv, Sound
<1>3. Counted(m', {current_thread})
  BY CountedFrame DEF Inv, Sound, SameFor
<1>4. QED
  BY <1>2, <1>3 DEF StepsTo, Sound, QueueStep

\* Initially every list is empty.
LEMMA InitInv == Init => Inv([p \in Priorities |-> << >>], << >>)
<1> SUFFICES ASSUME Init PROVE Inv([p \in Priorities |-> << >>], << >>)
  OBVIOUS
<1> DEFINE rq == [p \in Priorities |-> << >>]
           sl == << >>
<1>1. TypeOK
  BY InitTypeOK
<1>2. \A t \in Threads : m.state[t] = "NONE"
  BY ThreadAssumption DEF Init, Thread
<1>3. IsList(NULL, m.next, sl) /\ IsDeque(NULL, NULL, m.next, m.prev, sl) /\ \A u : ~In(u, sl)
  BY DEF IsList, IsDeque, In
<1>4. Lists(m, tcb, {current_thread}, rq, sl)
  <2>1. \A p \in Priorities : m.heads[p] = NULL /\ m.tails[p] = NULL /\ rq[p] = sl
    BY DEF Init
  <2>2. m.sleep_queue = NULL
    BY DEF Init
  <2>3. rq \in [Priorities -> Seq(Threads)]
    OBVIOUS
  <2>4. Len(sl) = 0
    OBVIOUS
  <2> HIDE DEF rq, sl
  <2>5. QED
    BY <1>2, <1>3, <2>1, <2>2, <2>3, <2>4 DEF Lists
<1>5. \A X : \A st \in {"READY", "SLEEPING", "BLOCKED"} : InState(m, X, st) = {}
  BY <1>2 DEF InState
<1>6. Counted(m, {current_thread}) /\ CountedBlocked(m)
  <2>1. m.threads_ready = 0 /\ m.threads_sleeping = 0 /\ m.threads_blocked = 0
    BY DEF Init
  <2>2. QED
    BY <1>5, <2>1, FS_EmptySet DEF Counted, CountedBlocked
<1>7. Control
  BY <1>6, ThreadAssumption DEF Control, Init, Thread
<1>8. QED
  BY <1>1, <1>4, <1>6, <1>7 DEF Inv, Sound

-----------------------------------------------------------------------------
(* Steps that leave the lists alone *)

\* The running thread is never BLOCKED, nor new.
LEMMA CurrentState ==
  ASSUME NEW rq, NEW sl, Inv(rq, sl), NEW t \in Threads, m.state[t] \in {"NONE", "CREATED", "BLOCKED"}
  PROVE  t # current_thread
<1>1. pc[t] \in {"run", "exit", "sleep", "halt"}
  BY DEF Inv, TypeOK, Thread
<1>2. QED
  BY <1>1 DEF Inv, Control

\* A thread that thread_create_priority has made is on no list yet.
LEMMA CreateLists ==
  ASSUME NEW rq, NEW sl, Inv(rq, sl), NEW t \in Threads, NEW b \in BasePriorities, Create(t, b)
  PROVE  StepsTo(rq, sl)
<1> DEFINE n == NewThread(IF b >= PRIORITY_LEVELS THEN PRIORITY_NORMAL ELSE b)
<1>1. t # current_thread /\ t \in Thread /\ m.state[t] = "NONE"
  BY CurrentState DEF Create, Thread
<1>2. m' = [m EXCEPT !.state[t] = "CREATED"] /\ tcb' = [tcb EXCEPT ![t] = n]
  BY DEF Create
<1>3. /\ m'.heads = m.heads /\ m'.tails = m.tails /\ m'.sleep_queue = m.sleep_queue
      /\ m'.next = m.next /\ m'.prev = m.prev
      /\ m'.threads_ready = m.threads_ready /\ m'.threads_sleeping = m.threads_sleeping
      /\ m'.threads_blocked = m.threads_blocked
      /\ m'.state = [m.state EXCEPT ![t] = "CREATED"]
  BY <1>2 DEF Inv, TypeOK, QueueMemory
<1>4. m'.state[t] = "CREATED" /\ \A u \in Threads : u # t => m'.state[u] = m.state[u] /\ tcb'[u] = tcb[u]
  BY <1>1, <1>2, <1>3 DEF Inv, TypeOK, QueueMemory, Thread
<1>5. Lists(m', tcb', {current_thread}, rq, sl)
  <2> DEFINE X == {current_thread, t}
  <2>1. Lists(m, tcb, {current_thread}, rq, sl)
    BY DEF Inv, Sound
  <2>2. Lists(m, tcb, X, rq, sl)
    BY <1>1, <2>1 DEF Lists
  <2>3. SameFor(m, tcb, X, m', tcb')
    BY <1>3, <1>4 DEF SameFor
  <2>4. Lists(m', tcb', X, rq, sl)
    BY <2>2, <2>3, ListsFrame DEF Inv, TypeOK
  <2>5. QED
    BY <1>4, <2>4 DEF Lists
<1>6. Counted(m', {current_thread})
  <2>1. \A X : \A st \in {"READY", "SLEEPING"} : InState(m', X, st) = InState(m, X, st)
    BY <1>1, <1>4 DEF InState
  <2>2. QED
    BY <1>3, <2>1 DEF Inv, Sound, Counted
<1>7. CountedBlocked(m')
  <2>1. CountedBlocked(m) /\ \A u \in Threads : m'.state[u] = "BLOCKED" <=> m.state[u] = "BLOCKED"
    BY <1>1, <1>4 DEF Inv, Control
  <2>2. QED
    BY <1>3, <2>1, BlockedFrame
<1>8. UNCHANGED <<current_thread, mode, cursor, pc>>
  BY DEF Create
<1>9. Control'
  <2>1. mode = "insert" => cursor # t
    BY <1>1 DEF Inv, Control
  <2>2. current_thread # NULL => current_thread \in Thread /\ (SliceEnds' <=> SliceEnds)
    <3>1. current_thread # NULL => current_thread \in Thread
      BY DEF Inv, TypeOK, Pointer
    <3>2. current_thread \in Thread => tcb'[current_thread] = tcb[current_thread]
      BY <1>1, <1>2 DEF Inv, TypeOK
    <3>3. QED
      BY <1>8, <3>1, <3>2 DEF SliceEnds
  <2>3. mode = "wake" => current_thread # NULL
    BY DEF Inv, TypeOK
  <2>4. \A u \in Threads : pc[u] \in {"exit", "halt"} => u # t
    BY <1>1 DEF Inv, Control
  <2>5. QED
    BY <1>1, <1>4, <1>7, <1>8, <2>1, <2>2, <2>3, <2>4 DEF Inv, Control
<1>10. QED
  BY <1>5, <1>6, <1>8, <1>9 DEF StepsTo, Sound, QueueStep

\* thread_exit marks the running thread, which is on no list.
LEMMA ExitLists ==
  ASSUME NEW rq, NEW sl, Inv(rq, sl), NEW t \in Threads, thread_exit(t)
  PROVE  StepsTo(rq, sl)
<1>1. t = current_thread /\ t \in Thread /\ mode = "open" /\ pc[t] = "run" /\ m.state[t] \in {"READY", "RUNNING"}
  BY DEF thread_exit, Runs, OnCPU, Thread, Inv, Control
<1>2. m' = [m EXCEPT !.state[t] = "TERMINATED"] /\ pc' = [pc EXCEPT ![t] = "exit"]
  BY DEF thread_exit
<1>3. /\ m'.heads = m.heads /\ m'.tails = m.tails /\ m'.sleep_queue = m.sleep_queue
      /\ m'.next = m.next /\ m'.prev = m.prev
      /\ m'.threads_ready = m.threads_ready /\ m'.threads_sleeping = m.threads_sleeping
      /\ m'.threads_blocked = m.threads_blocked
      /\ m'.state = [m.state EXCEPT ![t] = "TERMINATED"]
  BY <1>2 DEF Inv, TypeOK, QueueMemory
<1>4. m'.state[t] = "TERMINATED" /\ \A u \in Threads : u # t => m'.state[u] = m.state[u]
  BY <1>1, <1>3 DEF Inv, TypeOK, QueueMemory, Thread
<1>5. pc'[t] = "exit" /\ \A u \in Threads : u # t => pc'[u] = pc[u]
  BY <1>1, <1>2 DEF Inv, TypeOK, Thread
<1>6. UNCHANGED <<tcb, current_thread, mode, cursor>>
  BY DEF thread_exit
<1>7. SameFor(m, tcb, {current_thread}, m', tcb')
  BY <1>1, <1>3, <1>4, <1>6 DEF SameFor
<1>8. CountedBlocked(m')
  <2>1. CountedBlocked(m) /\ \A u \in Threads : m'.state[u] = "BLOCKED" <=> m.state[u] = "BLOCKED"
    BY <1>1, <1>4 DEF Inv, Control
  <2>2. QED
    BY <1>3, <2>1, BlockedFrame
<1>9. Control'
  BY <1>1, <1>4, <1>5, <1>6, <1>8 DEF Inv, Control
<1>10. QED
  BY <1>3, <1>6, <1>7, <1>9, StutterSteps

\* thread_sleep_ms only computes the wake-up time.
LEMMA SleepMsLists ==
  ASSUME NEW rq, NEW sl, Inv(rq, sl), NEW t \in Threads, NEW ms \in 0 .. MaxSleep, thread_sleep_ms(t, ms)
  PROVE  StepsTo(rq, sl)
<1>1. t = current_thread /\ t \in Thread /\ mode = "open" /\ pc[t] = "run"
  BY DEF thread_sleep_ms, Runs, OnCPU, Thread
<1>2. pc'[t] = "sleep" /\ \A u \in Threads : u # t => pc'[u] = pc[u]
  BY <1>1 DEF thread_sleep_ms, Inv, TypeOK, Thread
<1>3. UNCHANGED <<m, tcb, current_thread, mode, cursor>>
  BY DEF thread_sleep_ms
<1>4. SameFor(m, tcb, {current_thread}, m', tcb')
  BY <1>3 DEF SameFor
<1>5. Control'
  BY <1>1, <1>2, <1>3 DEF Inv, Control, CountedBlocked, InState
<1>6. QED
  BY <1>3, <1>4, <1>5, StutterSteps

\* The loop of enqueue_sleep goes on to the next thread of the sleep list.
LEMMA WalkLists ==
  ASSUME NEW rq, NEW sl, Inv(rq, sl), sleep_walk
  PROVE  StepsTo(rq, sl)
<1> DEFINE y == m.next[cursor]
<1>1. /\ mode = "insert" /\ current_thread \in Threads /\ cursor \in Threads /\ cursor # current_thread
      /\ m.state[cursor] = "SLEEPING"
      /\ y # NULL /\ tcb[y].wake_in <= tcb[current_thread].wake_in /\ cursor' = y
  BY DEF Inv, Control, sleep_walk, WalkOn
<1>2. UNCHANGED <<m, tcb, current_thread, mode, pc>>
  BY DEF sleep_walk
<1>3. y \in Threads /\ y # current_thread /\ m.state[y] = "SLEEPING"
  <2>1. In(cursor, sl)
    BY <1>1 DEF Inv, Sound, Lists
  <2>2. PICK i \in 1 .. Len(sl) : sl[i] = cursor
    BY <2>1 DEF In
  <2>3. sl \in Seq(Threads) /\ y = IF i = Len(sl) THEN NULL ELSE sl[i+1]
    BY <2>2 DEF Inv, Sound, Lists, IsList
  <2>4. i + 1 \in 1 .. Len(sl) /\ y = sl[i+1]
    BY <1>1, <2>2, <2>3
  <2>5. In(y, sl) /\ y \in Threads
    BY <2>3, <2>4 DEF In
  <2>6. QED
    BY <2>5 DEF Inv, Sound, Lists
<1>4. SameFor(m, tcb, {current_thread}, m', tcb')
  BY <1>2 DEF SameFor
<1>5. Control'
  BY <1>1, <1>2, <1>3 DEF Inv, Control, CountedBlocked, InState
<1>6. QED
  BY <1>2, <1>4, <1>5, StutterSteps

\* One tick: all wake-up times come nearer together, so the list stays sorted.
LEMMA InterruptLists ==
  ASSUME NEW rq, NEW sl, Inv(rq, sl), Cooperative, Tick
  PROVE  StepsTo(rq, sl)
<1>1. /\ mode = "open" /\ mode' = "wake" /\ ~SliceEnds
      /\ UNCHANGED <<m, current_thread, cursor, pc>>
  BY DEF Tick, InTime, timer_irq_handler
<1>2. \A u \in Thread : /\ tcb'[u] = [tcb[u] EXCEPT !.wake_in = Closer(tcb[u].wake_in)]
                        /\ tcb[u] \in ThreadFields
  BY DEF Tick, timer_irq_handler, Inv, TypeOK
<1>3. \A u \in Thread : /\ tcb'[u].wake_in = Closer(tcb[u].wake_in)
                        /\ tcb'[u].priority = tcb[u].priority
                        /\ tcb'[u].time_slice = tcb[u].time_slice
                        /\ tcb[u].wake_in \in Nat
  <2> SUFFICES ASSUME NEW u \in Thread
               PROVE  /\ tcb'[u].wake_in = Closer(tcb[u].wake_in)
                      /\ tcb'[u].priority = tcb[u].priority
                      /\ tcb'[u].time_slice = tcb[u].time_slice
                      /\ tcb[u].wake_in \in Nat
    OBVIOUS
  <2> DEFINE n == tcb[u]
             w == Closer(n.wake_in)
             k == [n EXCEPT !.wake_in = w]
  <2>1. n \in ThreadFields /\ tcb'[u] = k
    BY <1>2
  <2> HIDE DEF n, w
  <2>2. k.wake_in = w /\ k.priority = n.priority /\ k.time_slice = n.time_slice /\ n.wake_in \in Nat
    BY <2>1 DEF ThreadFields
  <2> HIDE DEF k
  <2>3. QED
    BY <2>1, <2>2 DEF n, w
<1>4. \A i \in 1 .. Len(sl) : sl[i] \in Thread
  BY DEF Inv, Sound, Lists, IsList, Thread
<1>5. \A i, j \in 1 .. Len(sl) : i < j => tcb'[sl[i]].wake_in <= tcb'[sl[j]].wake_in
  <2> SUFFICES ASSUME NEW i \in 1 .. Len(sl), NEW j \in 1 .. Len(sl), i < j
               PROVE  tcb'[sl[i]].wake_in <= tcb'[sl[j]].wake_in
    OBVIOUS
  <2>1. tcb[sl[i]].wake_in <= tcb[sl[j]].wake_in
    BY DEF Inv, Sound, Lists
  <2>2. \A v, w \in Nat : v <= w => Closer(v) <= Closer(w)
    BY DEF Closer
  <2>3. QED
    BY <1>3, <1>4, <2>1, <2>2
<1>6. Lists(m', tcb', {current_thread'}, rq, sl)
  <2>1. \A u \in Threads : tcb'[u].priority = tcb[u].priority
    BY <1>3 DEF Thread
  <2>2. QED
    BY <1>1, <1>5, <2>1 DEF Inv, Sound, Lists
<1>7. Counted(m', {current_thread'})
  BY <1>1 DEF Inv, Sound
<1>8. Control'
  <2>1. ~SliceEnds'
    <3>1. current_thread # NULL /\ current_thread \in Thread
      BY DEF Tick, timer_irq_handler, Inv, TypeOK, Pointer
    <3>2. QED
      BY <1>1, <1>3, <3>1 DEF SliceEnds
  <2>2. QED
    BY <1>1, <2>1 DEF Inv, Control, CountedBlocked, InState
<1>9. QED
  BY <1>1, <1>6, <1>7, <1>8 DEF StepsTo, Sound, QueueStep

\* The end of the timer interrupt when no slice has ended: the tick is charged
\* to the running thread.
LEMMA TickCharges ==
  ASSUME NEW rq, NEW sl, Inv(rq, sl), scheduler_tick
  PROVE  /\ m' = m
         /\ \A u \in Threads : u # current_thread => tcb'[u] = tcb[u]
<1> DEFINE t == current_thread
           r == ChargeTick(tcb[t])
<1>1. ~SliceEnds /\ t \in Thread
  BY DEF scheduler_tick, Inv, Control, TypeOK, Pointer
<1>2. r.time_slice # 0 \/ t = Idle
  <2>1. t # Idle => tcb[t].time_slice > 1
    BY <1>1 DEF SliceEnds, Inv, TypeOK, ThreadFields
  <2>2. tcb[t].time_slice \in Nat /\ r.time_slice = IF tcb[t].time_slice > 0 THEN tcb[t].time_slice - 1 ELSE 0
    BY <1>1 DEF ChargeTick, Inv, TypeOK, ThreadFields
  <2>3. QED
    BY <2>1, <2>2
<1>3. tcb' = [tcb EXCEPT ![t] = r] /\ m' = m
  BY <1>2 DEF scheduler_tick
<1>4. QED
  BY <1>3 DEF Inv, TypeOK, Thread

\* scheduler_tick leaves the lists alone.
LEMMA TickLists ==
  ASSUME NEW rq, NEW sl, Inv(rq, sl), scheduler_tick
  PROVE  StepsTo(rq, sl)
<1>1. mode = "wake" /\ mode' = "open" /\ UNCHANGED <<current_thread, cursor, pc>>
  BY DEF scheduler_tick
<1>2. m' = m /\ \A u \in Threads : u # current_thread => tcb'[u] = tcb[u]
  BY TickCharges
<1>3. SameFor(m, tcb, {current_thread}, m', tcb')
  BY <1>2 DEF SameFor
<1>4. Control'
  BY <1>1, <1>2 DEF Inv, Control, CountedBlocked, InState
<1>5. QED
  BY <1>1, <1>2, <1>3, <1>4, StutterSteps

-----------------------------------------------------------------------------
(* Steps that make a thread ready *)

\* The calls that leave the lists in step with the states: scheduler_remove
\* unlinks a thread that stays READY, scheduler_block leaves another thread than
\* the caller where it is, scheduler_add links a READY one a second time, and
\* thread_set_priority changes the priority of a thread without moving it.
OrdinaryCalls == Calls \cap {"block_other", "add_ready", "remove", "set_priority"} = {}

\* scheduler_add makes a created thread ready.
LEMMA AddLists ==
  ASSUME OrdinaryCalls, NEW rq, NEW sl, Inv(rq, sl), NEW t \in Threads, scheduler_add(t)
  PROVE  StepsTo(rq, sl)
<1> DEFINE p == tcb[t].priority
<1>1. t # current_thread /\ t \in Thread /\ m.state[t] = "CREATED" /\ m' = enqueue_ready(m, t, p)
  BY CurrentState DEF scheduler_add, Thread, OrdinaryCalls
<1>2. UNCHANGED <<tcb, current_thread, mode, cursor, pc>>
  BY DEF scheduler_add
<1>3. p \in Priorities /\ m \in QueueMemory /\ tcb \in Blocks
  BY <1>1 DEF Inv, TypeOK, ThreadFields, Blocks
<1>4. {current_thread} = {current_thread} \ {t}
  BY <1>1
<1>5. p = tcb[t].priority
  OBVIOUS
<1> HIDE DEF p
<1>6. Lists(m', tcb, {current_thread}, Behind(rq, p, t), sl)
  <2>1. Lists(m, tcb, {current_thread}, rq, sl)
    BY DEF Inv, Sound
  <2>2. QED
    BY <1>1, <1>3, <1>4, <1>5, <2>1, EnqueueReadyLists
<1>7. Counted(m', {current_thread})
  <2>1. Counted(m, {current_thread})
    BY DEF Inv, Sound
  <2>2. QED
    BY <1>1, <1>3, <1>4, <2>1, EnqueueReadyCounted
<1>8. Enqueued(m, t, p, m')
  BY <1>1, <1>3, EnqueueReadyFields
<1>9. m'.state[t] = "READY" /\ \A u \in Threads : u # t => m'.state[u] = m.state[u]
  BY <1>1, <1>3, <1>8 DEF Enqueued, QueueMemory, Thread
<1>10. CountedBlocked(m')
  <2>1. CountedBlocked(m) /\ \A u \in Threads : m'.state[u] = "BLOCKED" <=> m.state[u] = "BLOCKED"
    BY <1>1, <1>9 DEF Inv, Control
  <2>2. m'.threads_blocked = m.threads_blocked
    BY <1>8 DEF Enqueued
  <2>3. QED
    BY <2>1, <2>2, BlockedFrame
<1>11. Control'
  <2>1. \A u \in Threads : pc[u] \in {"exit", "halt"} => u # t
    BY <1>1 DEF Inv, Control
  <2>2. mode = "insert" => cursor # t
    BY <1>1 DEF Inv, Control
  <2>3. SliceEnds' <=> SliceEnds
    BY <1>2 DEF SliceEnds
  <2>4. QED
    BY <1>1, <1>2, <1>9, <1>10, <2>1, <2>2, <2>3 DEF Inv, Control
<1>12. ~In(t, sl) /\ \A r \in Priorities : ~In(t, rq[r])
  BY <1>1 DEF Inv, Sound, Lists
<1>13. QueueStep(rq, sl, current_thread, Behind(rq, p, t), sl, current_thread)
  BY <1>1, <1>3, <1>12 DEF QueueStep
<1>14. QED
  BY <1>2, <1>6, <1>7, <1>11, <1>13 DEF StepsTo, Sound

\* scheduler_unblock makes a blocked thread ready.
LEMMA UnblockLists ==
  ASSUME NEW rq, NEW sl, Inv(rq, sl), NEW t \in Threads, scheduler_unblock(t)
  PROVE  StepsTo(rq, sl)
<1> DEFINE p == tcb[t].priority
           q == [m EXCEPT !.threads_blocked = Decr(@)]
<1>1. t # current_thread /\ t \in Thread /\ m.state[t] = "BLOCKED" /\ m' = enqueue_ready(q, t, p)
  BY CurrentState DEF scheduler_unblock, Thread
<1>2. UNCHANGED <<tcb, current_thread, mode, cursor, pc>> /\ mode = "open"
  BY DEF scheduler_unblock
<1>3. p \in Priorities /\ m \in QueueMemory /\ tcb \in Blocks
  BY <1>1 DEF Inv, TypeOK, ThreadFields, Blocks
<1>3b. /\ q \in QueueMemory
       /\ q.heads = m.heads /\ q.tails = m.tails /\ q.sleep_queue = m.sleep_queue
       /\ q.next = m.next /\ q.prev = m.prev /\ q.state = m.state
       /\ q.threads_ready = m.threads_ready /\ q.threads_sleeping = m.threads_sleeping
       /\ q.threads_blocked = Decr(m.threads_blocked)
  BY <1>3, CounterType DEF QueueMemory
<1>4. {current_thread} = {current_thread} \ {t}
  BY <1>1
<1>5. p = tcb[t].priority
  OBVIOUS
<1> HIDE DEF p, q
<1>6. Lists(m', tcb, {current_thread}, Behind(rq, p, t), sl)
  <2>1. SameFor(m, tcb, {current_thread}, q, tcb)
    BY <1>3b DEF SameFor
  <2>2. Lists(q, tcb, {current_thread}, rq, sl)
    BY <1>3, <2>1, ListsFrame DEF Inv, Sound
  <2>3. QED
    BY <1>1, <1>3, <1>3b, <1>4, <1>5, <2>2, EnqueueReadyLists
<1>7. Counted(m', {current_thread})
  <2>1. Counted(q, {current_thread})
    BY <1>3b, CountedFrame DEF Inv, Sound
  <2>2. QED
    BY <1>1, <1>3, <1>3b, <1>4, <2>1, EnqueueReadyCounted
<1>8. Enqueued(q, t, p, m')
  BY <1>1, <1>3, <1>3b, EnqueueReadyFields
<1>9. m'.state[t] = "READY" /\ \A u \in Threads : u # t => m'.state[u] = m.state[u]
  BY <1>1, <1>3, <1>3b, <1>8 DEF Enqueued, QueueMemory, Thread
<1>10. CountedBlocked(m')
  <2> SUFFICES ASSUME Cardinality(Threads) < COUNTER_WIDTH
               PROVE  m'.threads_blocked = Cardinality(InState(m', {}, "BLOCKED"))
    BY DEF CountedBlocked
  <2>1. InState(m', {}, "BLOCKED") = InState(m, {}, "BLOCKED") \ {t}
    BY <1>9 DEF InState
  <2>2. t \in InState(m, {}, "BLOCKED") /\ InState(m, {}, "BLOCKED") \subseteq Threads
    BY <1>1 DEF InState
  <2>3. m'.threads_blocked = Decr(m.threads_blocked)
    BY <1>3b, <1>8 DEF Enqueued
  <2>4. m.threads_blocked = Cardinality(InState(m, {}, "BLOCKED"))
    BY DEF Inv, Control, CountedBlocked
  <2>5. QED
    BY <2>1, <2>2, <2>3, <2>4, CountDown
<1>11. Control'
  <2>1. \A u \in Threads : pc[u] \in {"exit", "halt"} => u # t
    BY <1>1 DEF Inv, Control
  <2>2. QED
    BY <1>1, <1>2, <1>9, <1>10, <2>1 DEF Inv, Control
<1>12. ~In(t, sl) /\ \A r \in Priorities : ~In(t, rq[r])
  BY <1>1 DEF Inv, Sound, Lists
<1>13. QueueStep(rq, sl, current_thread, Behind(rq, p, t), sl, current_thread)
  BY <1>1, <1>3, <1>12 DEF QueueStep
<1>14. QED
  BY <1>2, <1>6, <1>7, <1>11, <1>13 DEF StepsTo, Sound

\* One sleeper goes from the front of the sleep list to the end of its ready list.
LEMMA WakeLists ==
  ASSUME NEW rq, NEW sl, Inv(rq, sl), wake_expired_sleepers
  PROVE  StepsTo(rq, sl)
<1> DEFINE t == m.sleep_queue
           p == tcb[t].priority
           q == [m EXCEPT !.sleep_queue = m.next[t], !.next[t] = NULL, !.threads_sleeping = Decr(@)]
<1>1. mode = "wake" /\ t # NULL /\ m' = enqueue_ready(q, t, p)
  BY DEF wake_expired_sleepers, SleeperDue, wake_first_sleeper
<1>2. UNCHANGED <<tcb, current_thread, mode, cursor, pc>>
  BY DEF wake_expired_sleepers
<1>3. m \in QueueMemory /\ tcb \in Blocks
  BY DEF Inv, TypeOK, Blocks
<1>4. Popped(m, q) /\ t = m.sleep_queue
  BY DEF Popped
<1> HIDE DEF t, q
<1> DEFINE Y == {current_thread} \cup {t}
<1>5. Y = {current_thread} \cup {t}
  OBVIOUS
<1> HIDE DEF Y
<1>6. /\ q \in QueueMemory
      /\ Lists(q, tcb, Y, rq, Rest(sl))
      /\ t \in Threads /\ t \notin {current_thread} /\ m.state[t] = "SLEEPING"
      /\ Len(sl) > 0 /\ sl[1] = t
  <2> DEFINE X == {current_thread}
  <2>1. Lists(m, tcb, X, rq, sl) /\ m.sleep_queue # NULL /\ Y = X \cup {t}
    BY <1>1, <1>4, <1>5 DEF Inv, Sound
  <2> HIDE DEF X
  <2>2. Lists(q, tcb, Y, rq, Rest(sl)) /\ q \in QueueMemory
    BY <1>3, <1>4, <2>1, PopSleeperLists
  <2>3. t \in Threads /\ t \notin X /\ m.state[t] = "SLEEPING"
    BY <1>3, <1>4, <2>1, <2>2, PopSleeperLists
  <2>4. Len(sl) > 0 /\ sl[1] = t
    BY <1>3, <1>4, <2>1, <2>2, PopSleeperLists
  <2>5. QED
    BY <2>2, <2>3, <2>4 DEF X
<1>7. Counted(q, Y)
  <2>1. Counted(m, {current_thread})
    BY DEF Inv, Sound
  <2>2. QED
    BY <1>3, <1>4, <1>5, <1>6, <2>1, PopSleeperCounted
<1>8. t \in Thread /\ p \in Priorities /\ p = tcb[t].priority
  BY <1>3, <1>6 DEF Thread, Blocks, ThreadFields
<1> HIDE DEF p
<1>9. {current_thread} = Y \ {t} /\ t \in Y
  BY <1>5, <1>6
<1>10. Lists(m', tcb, {current_thread}, Behind(rq, p, t), Rest(sl))
  BY <1>1, <1>3, <1>6, <1>8, <1>9, EnqueueReadyLists
<1>11. Counted(m', {current_thread})
  BY <1>1, <1>6, <1>7, <1>8, <1>9, EnqueueReadyCounted
<1>12. Enqueued(q, t, p, m')
  BY <1>1, <1>6, <1>8, EnqueueReadyFields
<1>13. q.state = m.state /\ q.threads_blocked = m.threads_blocked
  BY <1>3, <1>4 DEF Popped, QueueMemory
<1>14. m'.state[t] = "READY" /\ \A u \in Threads : u # t => m'.state[u] = m.state[u]
  BY <1>3, <1>6, <1>8, <1>12, <1>13 DEF Enqueued, QueueMemory, Thread
<1>15. CountedBlocked(m')
  <2>1. CountedBlocked(m) /\ \A u \in Threads : m'.state[u] = "BLOCKED" <=> m.state[u] = "BLOCKED"
    BY <1>6, <1>14 DEF Inv, Control
  <2>2. m'.threads_blocked = m.threads_blocked
    BY <1>12, <1>13 DEF Enqueued
  <2>3. QED
    BY <2>1, <2>2, BlockedFrame
<1>16. Control'
  <2>1. \A u \in Threads : pc[u] \in {"exit", "halt"} => u # t
    BY <1>6 DEF Inv, Control
  <2>2. SliceEnds' <=> SliceEnds
    BY <1>2 DEF SliceEnds
  <2>3. QED
    BY <1>1, <1>2, <1>6, <1>14, <1>15, <2>1, <2>2 DEF Inv, Control
<1>17. In(t, sl) /\ \A u : In(u, Rest(sl)) <=> In(u, sl) /\ u # t
  <2>1. IsList(t, m.next, sl) /\ t # NULL
    BY <1>1, <1>4 DEF Inv, Sound, Lists
  <2>2. sl \in Seq(Threads) /\ In(t, sl)
    BY <2>1, ListFirst
  <2>3. IsTail(Rest(sl), sl)
    BY <1>6, <2>2, TailIsTail DEF Rest
  <2>4. \A i \in 2 .. Len(sl) : m.next[sl[i]] = m.next[sl[i]]
    OBVIOUS
  <2>5. QED
    BY <2>1, <2>2, <2>3, <2>4, ListTail
<1>18. QueueStep(rq, sl, current_thread, Behind(rq, p, t), Rest(sl), current_thread)
  BY <1>6, <1>8, <1>17 DEF QueueStep
<1>19. QED
  BY <1>2, <1>10, <1>11, <1>16, <1>18 DEF StepsTo, Sound

-----------------------------------------------------------------------------
(* Steps that give the processor away *)

\* What is common to them: the thread that is picked was READY, and a thread
\* that has exited stays TERMINATED.
LEMMA SwitchedControl ==
  ASSUME NEW q, NEW c, NEW rq, NEW sl, Switched(q, c, rq, sl, current_thread', m', tcb'),
         mode' = "open", CountedBlocked(q),
         \A t \in Threads : pc'[t] \in {"exit", "halt"} => q.state[t] = "TERMINATED"
  PROVE  Control'
<1>1. /\ current_thread' \in Threads => /\ q.state[current_thread'] = "READY"
                                        /\ m'.state[current_thread'] \in {"READY", "RUNNING"}
      /\ \A u \in Threads : u # current_thread' => m'.state[u] = q.state[u]
      /\ m'.threads_blocked = q.threads_blocked
  BY DEF Switched
<1>2. \A u \in Threads : m'.state[u] = "BLOCKED" <=> q.state[u] = "BLOCKED"
  BY <1>1
<1>3. CountedBlocked(m')
  BY <1>1, <1>2, BlockedFrame
<1>4. QED
  BY <1>1, <1>3 DEF Control

\* A call that ends in schedule() is a step on the lists if the choice it makes is.
LEMMA SwitchedSteps ==
  ASSUME NEW q, NEW c, NEW rq, NEW sl, NEW rq1, NEW sl1,
         Switched(q, c, rq1, sl1, current_thread', m', tcb'), Control',
         \A rest : PickedBy(rq1, current_thread', rest) =>
                     QueueStep(rq, sl, current_thread, rest, sl1, current_thread')
  PROVE  StepsTo(rq, sl)
BY DEF Switched, StepsTo

\* A thread that waits on no list any more needs no exception.
LEMMA ForgetException ==
  ASSUME NEW q, NEW c, NEW x, NEW rq, NEW sl, Sound(q, c, {x}, rq, sl),
         x \in Threads => q.state[x] \notin {"READY", "SLEEPING"}
  PROVE  Sound(q, c, {}, rq, sl)
<1>1. Lists(q, c, {}, rq, sl)
  BY DEF Sound, Lists
<1>2. \A st \in {"READY", "SLEEPING"} : InState(q, {}, st) = InState(q, {x}, st)
  BY DEF InState
<1>3. Counted(q, {})
  BY <1>2 DEF Sound, Counted
<1>4. QED
  BY <1>1, <1>3 DEF Sound

\* scheduler_start picks the first thread.
LEMMA StartLists ==
  ASSUME NEW rq, NEW sl, Inv(rq, sl), scheduler_start
  PROVE  StepsTo(rq, sl)
<1>1. current_thread = NULL /\ m \in QueueMemory /\ tcb \in Blocks /\ mode = "open"
  BY DEF scheduler_start, Inv, TypeOK, Blocks
<1>2. UNCHANGED <<tcb, mode, cursor, pc>>
  BY DEF scheduler_start
<1>3. Sound(m, tcb, {}, rq, sl)
  <2>1. NULL \notin Threads
    BY ThreadAssumption DEF Thread
  <2>2. QED
    BY <1>1, <2>1, ForgetException DEF Inv
<1>4. \A u \in Threads : pc'[u] \in {"exit", "halt"} => m.state[u] = "TERMINATED"
  BY <1>2 DEF Inv, Control
<1>5. CountedBlocked(m)
  BY DEF Inv, Control
<1>6. ASSUME NEW q \in QueueMemory, NEW t \in Thread, NEW rest, Sound(q, tcb, {t}, rest, sl),
             current_thread' = t, m' = [q EXCEPT !.state[t] = "RUNNING"],
             q.state = m.state, q.threads_blocked = m.threads_blocked,
             t \in Threads => m.state[t] = "READY", PickedBy(rq, t, rest)
      PROVE  Switched(m, tcb, rq, sl, current_thread', m', tcb')
  <2>1. /\ m'.heads = q.heads /\ m'.tails = q.tails /\ m'.sleep_queue = q.sleep_queue
        /\ m'.next = q.next /\ m'.prev = q.prev
        /\ m'.threads_ready = q.threads_ready /\ m'.threads_sleeping = q.threads_sleeping
        /\ m'.threads_blocked = q.threads_blocked
        /\ m'.state = [q.state EXCEPT ![t] = "RUNNING"]
    BY <1>6 DEF QueueMemory
  <2>2. m'.state[t] = "RUNNING" /\ \A u \in Threads : u # t => m'.state[u] = q.state[u]
    BY <1>6, <2>1 DEF QueueMemory, Thread
  <2>3. SameFor(q, tcb, {t}, m', tcb')
    BY <1>2, <2>1, <2>2 DEF SameFor
  <2>4. Lists(m', tcb', {t}, rest, sl)
    BY <1>6, <2>3, ListsFrame DEF Sound
  <2>5. \A u \in Threads : u \notin {t} => m'.state[u] = q.state[u]
    BY <2>2
  <2>6. Counted(m', {t})
    <3>1. Counted(q, {t})
      BY <1>6 DEF Sound
    <3>2. QED
      BY <2>1, <2>5, <3>1, CountedFrame
  <2>7. QED
    BY <1>6, <2>1, <2>2, <2>4, <2>6 DEF Switched, Sound
<1>7. Switched(m, tcb, rq, sl, current_thread', m', tcb')
  <2>1. CASE /\ \A p \in Priorities : m.heads[p] = NULL
             /\ current_thread' = Idle
             /\ m' = [m EXCEPT !.state[Idle] = "RUNNING"]
    <3>1. Idle \in Thread /\ Idle \notin Threads
      BY ThreadAssumption DEF Thread
    <3>2. Lists(m, tcb, {Idle}, rq, sl)
      BY <1>3, <3>1 DEF Sound, Lists
    <3>3. \A st \in {"READY", "SLEEPING"} : InState(m, {}, st) = InState(m, {Idle}, st)
      BY <3>1 DEF InState
    <3>4. Counted(m, {Idle})
      BY <1>3, <3>3 DEF Sound, Counted
    <3>5. \A p \in Priorities : Len(rq[p]) = 0
      BY <1>3, <2>1, EmptyList DEF Sound
    <3>6. PickedBy(rq, Idle, rq)
      BY <3>5 DEF PickedBy
    <3>7. QED
      BY <1>1, <1>6, <2>1, <3>1, <3>2, <3>4, <3>6 DEF Sound
  <2>2. ASSUME NEW p \in Priorities, m.heads[p] # NULL,
               \A r \in Priorities : r < p => m.heads[r] = NULL,
               current_thread' = m.heads[p],
               m' = [dequeue_ready(m, p) EXCEPT !.state[m.heads[p]] = "RUNNING"]
        PROVE  Switched(m, tcb, rq, sl, current_thread', m', tcb')
    <3> DEFINE t == m.heads[p]
               q == dequeue_ready(m, p)
               Y == {t}
    <3>1. t = m.heads[p] /\ q = dequeue_ready(m, p) /\ Y = {} \cup {t}
      OBVIOUS
    <3>2. q \in QueueMemory /\ t \in Thread /\ Dequeued(m, p, q)
      BY <1>1, <2>2, DequeueReadyType, DequeueReadyFields
    <3>3. current_thread' = t /\ m' = [q EXCEPT !.state[t] = "RUNNING"] /\ Y = {t}
      BY <2>2
    <3> HIDE DEF t, q, Y
    <3>4. Lists(m, tcb, {}, rq, sl) /\ Counted(m, {})
      BY <1>3 DEF Sound
    <3>5. Lists(q, tcb, Y, Ahead(rq, p), sl)
      BY <1>1, <2>2, <3>1, <3>4, DequeueReadyLists
    <3>6. t \in Threads /\ m.state[t] = "READY" /\ Len(rq[p]) > 0 /\ rq[p][1] = t
      BY <1>1, <2>2, <3>1, <3>4, <3>5, DequeueReadyLists
    <3>7. Counted(q, Y)
      BY <1>1, <2>2, <3>1, <3>4, <3>6, DequeueReadyCounted
    <3>8. Sound(q, tcb, {t}, Ahead(rq, p), sl)
      BY <3>3, <3>5, <3>7 DEF Sound
    <3>9. \A r \in Priorities : r < p => Len(rq[r]) = 0
      BY <1>3, <2>2, EmptyList DEF Sound
    <3>10. PickedBy(rq, t, Ahead(rq, p))
      BY <3>6, <3>9 DEF PickedBy
    <3>11. q.state = m.state /\ q.threads_blocked = m.threads_blocked
      BY <3>2 DEF Dequeued
    <3>12. QED
      BY <1>6, <3>2, <3>3, <3>6, <3>8, <3>10, <3>11
  <2>3. QED
    BY <2>1, <2>2 DEF scheduler_start, pick_next_thread
<1>8. Control'
  BY <1>1, <1>2, <1>4, <1>5, <1>7, SwitchedControl
<1>9. \A rest : PickedBy(rq, current_thread', rest) =>
                  QueueStep(rq, sl, current_thread, rest, sl, current_thread')
  BY <1>1 DEF QueueStep
<1>10. QED
  BY <1>7, <1>8, <1>9, SwitchedSteps

\* scheduler_block takes the running thread off the processor and puts it on no list.
LEMMA BlockLists ==
  ASSUME OrdinaryCalls, NEW rq, NEW sl, Inv(rq, sl), NEW caller \in Threads, NEW t \in Threads,
         scheduler_block(caller, t)
  PROVE  StepsTo(rq, sl)
<1> DEFINE q == [m EXCEPT !.state[t] = "BLOCKED", !.threads_blocked = Incr(@)]
<1>1. /\ t = current_thread /\ t \in Thread /\ mode = "open" /\ pc[t] = "run"
      /\ m.state[t] \in {"READY", "RUNNING"} /\ schedule(q, tcb) /\ mode' = mode /\ pc' = pc
  BY DEF scheduler_block, Runs, OnCPU, Thread, Inv, Control, OrdinaryCalls
<1>2. m \in QueueMemory /\ tcb \in Blocks
  BY DEF Inv, TypeOK, Blocks
<1>3. /\ q \in QueueMemory
      /\ q.heads = m.heads /\ q.tails = m.tails /\ q.sleep_queue = m.sleep_queue
      /\ q.next = m.next /\ q.prev = m.prev
      /\ q.threads_ready = m.threads_ready /\ q.threads_sleeping = m.threads_sleeping
      /\ q.threads_blocked = Incr(m.threads_blocked)
      /\ q.state = [m.state EXCEPT ![t] = "BLOCKED"]
  BY <1>1, <1>2, CounterType DEF QueueMemory, States
<1> HIDE DEF q
<1>4. q.state[t] = "BLOCKED" /\ \A u \in Threads : u # t => q.state[u] = m.state[u]
  BY <1>1, <1>2, <1>3 DEF QueueMemory, Thread
<1>5. Sound(q, tcb, {}, rq, sl)
  <2>1. SameFor(m, tcb, {current_thread}, q, tcb)
    BY <1>1, <1>3, <1>4 DEF SameFor
  <2>2. Lists(q, tcb, {current_thread}, rq, sl)
    BY <1>2, <2>1, ListsFrame DEF Inv, Sound
  <2>3. \A u \in Threads : u \notin {current_thread} => q.state[u] = m.state[u]
    BY <1>1, <1>4
  <2>4. Counted(q, {current_thread})
    BY <1>3, <2>3, CountedFrame DEF Inv, Sound
  <2>5. QED
    BY <1>1, <1>4, <2>2, <2>4, ForgetException DEF Sound
<1>6. Switched(q, tcb, rq, sl, current_thread', m', tcb')
  BY <1>1, <1>2, <1>3, <1>5, ScheduleLists
<1>7. CountedBlocked(q)
  <2> SUFFICES ASSUME Cardinality(Threads) < COUNTER_WIDTH
               PROVE  q.threads_blocked = Cardinality(InState(q, {}, "BLOCKED"))
    BY DEF CountedBlocked
  <2>1. InState(q, {}, "BLOCKED") = InState(m, {}, "BLOCKED") \cup {t}
    BY <1>4 DEF InState
  <2>2. t \notin InState(m, {}, "BLOCKED") /\ InState(m, {}, "BLOCKED") \subseteq Threads
    BY <1>1 DEF InState
  <2>3. m.threads_blocked = Cardinality(InState(m, {}, "BLOCKED"))
    BY DEF Inv, Control, CountedBlocked
  <2>4. QED
    BY <1>3, <2>1, <2>2, <2>3, CountUp
<1>8. \A u \in Threads : pc'[u] \in {"exit", "halt"} => q.state[u] = "TERMINATED"
  BY <1>1, <1>4 DEF Inv, Control
<1>9. Control'
  BY <1>1, <1>6, <1>7, <1>8, SwitchedControl
<1>10. \A rest : PickedBy(rq, current_thread', rest) =>
                   QueueStep(rq, sl, current_thread, rest, sl, current_thread')
  BY <1>1 DEF QueueStep
<1>11. QED
  BY <1>6, <1>9, <1>10, SwitchedSteps

\* scheduler_yield puts the thread behind the others of its priority, unless
\* it has exited.
LEMMA YieldLists ==
  ASSUME NEW rq, NEW sl, Inv(rq, sl), NEW t \in Threads, scheduler_yield(t)
  PROVE  StepsTo(rq, sl)
<1> DEFINE h == update_cpu_usage(usage[t], UsageOfSlice(tcb[t]))
           r == adjust_priority(tcb[t], h.avg_cpu_usage, t)
           c == [tcb EXCEPT ![t] = r]
           q == IF m.state[t] = "TERMINATED" THEN m ELSE enqueue_ready(m, t, r.priority)
<1>1. /\ t = current_thread /\ t \in Thread /\ mode = "open" /\ pc[t] \in {"run", "exit"}
      /\ mode' = mode /\ schedule(q, c)
      /\ pc' = [pc EXCEPT ![t] = IF @ = "exit" THEN "halt" ELSE "run"]
  BY DEF scheduler_yield, OnCPU, Thread
<1>2. m \in QueueMemory /\ tcb \in Blocks /\ tcb[t] \in ThreadFields
  BY <1>1 DEF Inv, TypeOK, Blocks
<1>3. r \in ThreadFields
  BY <1>2, AdjustPriorityFields
<1> HIDE DEF r
<1>4. /\ c \in Blocks /\ c[t].priority = r.priority /\ r.priority \in Priorities
      /\ \A u \in Threads : u # t => c[u] = tcb[u]
  BY <1>1, <1>2, <1>3 DEF Blocks, ThreadFields, Thread
<1>5. m.state[t] \in {"READY", "RUNNING", "TERMINATED"} /\ (pc[t] = "exit" => m.state[t] = "TERMINATED")
  BY <1>1 DEF Inv, Control
<1>6. \A u \in Threads : pc'[u] \in {"exit", "halt"} => m.state[u] = "TERMINATED"
  <2>1. \A u \in Threads : pc'[u] = IF u = t THEN (IF pc[t] = "exit" THEN "halt" ELSE "run") ELSE pc[u]
    BY <1>1 DEF Inv, TypeOK, Thread
  <2>2. QED
    BY <1>5, <2>1 DEF Inv, Control
<1> HIDE DEF c
<1>7. Lists(m, c, {t}, rq, sl) /\ Counted(m, {t}) /\ CountedBlocked(m)
  <2>1. SameFor(m, tcb, {t}, m, c)
    BY <1>4 DEF SameFor
  <2>2. Lists(m, tcb, {t}, rq, sl) /\ Counted(m, {t}) /\ CountedBlocked(m)
    BY <1>1 DEF Inv, Sound, Control
  <2>3. QED
    BY <1>2, <2>1, <2>2, ListsFrame
<1>8. CASE m.state[t] = "TERMINATED"
  <2>1. q = m
    BY <1>8
  <2>2. Sound(m, c, {t}, rq, sl)
    BY <1>7 DEF Sound
  <2>3. Sound(m, c, {}, rq, sl)
    BY <1>8, <2>2, ForgetException
  <2>4. schedule(m, c)
    BY <1>1, <2>1
  <2>5. Switched(m, c, rq, sl, current_thread', m', tcb')
    BY <1>2, <1>4, <2>3, <2>4, ScheduleLists
  <2>6. Control'
    BY <1>1, <1>6, <1>7, <2>5, SwitchedControl
  <2>7. \A rest : PickedBy(rq, current_thread', rest) =>
                    QueueStep(rq, sl, current_thread, rest, sl, current_thread')
    BY <1>1 DEF QueueStep
  <2>8. QED
    BY <2>5, <2>6, <2>7, SwitchedSteps
<1>9. CASE m.state[t] # "TERMINATED"
  <2> DEFINE p == r.priority
             e == enqueue_ready(m, t, p)
             X == {t}
             Y == {}
  <2>1. p = c[t].priority /\ p = r.priority /\ e = enqueue_ready(m, t, p) /\ q = e
        /\ Y = X \ {t} /\ X = {t} /\ t \in X /\ Y = {}
    BY <1>4, <1>9
  <2>2. p \in Priorities /\ Lists(m, c, X, rq, sl) /\ Counted(m, X)
    BY <1>4, <1>7
  <2>3. Enqueued(m, t, p, e)
    BY <1>1, <1>2, <2>2, EnqueueReadyFields
  <2> HIDE DEF p, e, X, Y
  <2>4. Lists(e, c, Y, Behind(rq, p, t), sl)
    BY <1>2, <1>4, <2>1, <2>2, EnqueueReadyLists
  <2>5. Counted(e, Y)
    BY <1>2, <2>1, <2>2, EnqueueReadyCounted
  <2>6. Sound(e, c, {}, Behind(rq, p, t), sl)
    BY <2>1, <2>4, <2>5 DEF Sound
  <2>7. e \in QueueMemory /\ e.threads_blocked = m.threads_blocked /\ e.state = [m.state EXCEPT ![t] = "READY"]
    BY <2>3 DEF Enqueued
  <2>8. \A u \in Threads : e.state[u] = IF u = t THEN "READY" ELSE m.state[u]
    BY <1>2, <2>7 DEF QueueMemory, Thread
  <2>9. schedule(e, c)
    BY <1>1, <2>1
  <2>10. Switched(e, c, Behind(rq, p, t), sl, current_thread', m', tcb')
    BY <1>4, <2>6, <2>7, <2>9, ScheduleLists
  <2>11. CountedBlocked(e)
    <3>1. \A u \in Threads : e.state[u] = "BLOCKED" <=> m.state[u] = "BLOCKED"
      BY <1>5, <2>8
    <3>2. QED
      BY <1>7, <2>7, <3>1, BlockedFrame
  <2>12. \A u \in Threads : pc'[u] \in {"exit", "halt"} => e.state[u] = "TERMINATED"
    BY <1>6, <1>9, <2>8
  <2>13. Control'
    BY <1>1, <2>10, <2>11, <2>12, SwitchedControl
  <2>14. \A rest : PickedBy(Behind(rq, p, t), current_thread', rest) =>
                     QueueStep(rq, sl, current_thread, rest, sl, current_thread')
    BY <1>1, <2>2 DEF QueueStep
  <2>15. QED
    BY <2>10, <2>13, <2>14, SwitchedSteps
<1>10. QED
  BY <1>8, <1>9

\* The end of enqueue_sleep: the running thread is linked in, at its place, and
\* another one is picked.
LEMMA FallAsleep ==
  ASSUME NEW q \in QueueMemory, NEW c \in Blocks, NEW rq, NEW sl, NEW t \in Threads,
         NEW X, X = {t}, t = current_thread,
         Lists(q, c, X, rq, sl), Counted(q, X), CountedBlocked(q), q.state[t] = "SLEEPING",
         NEW k \in 0 .. Len(sl),
         k > 0 => c[sl[k]].wake_in <= c[t].wake_in,
         k < Len(sl) => c[t].wake_in <= c[sl[k+1]].wake_in,
         NEW e \in QueueMemory, LinkedBehind(q, sl, k, t, e),
         e.threads_ready = q.threads_ready, e.threads_blocked = q.threads_blocked,
         e.threads_sleeping = Incr(q.threads_sleeping),
         schedule(e, c), mode' = "open",
         \A u \in Threads : pc'[u] \in {"exit", "halt"} => q.state[u] = "TERMINATED"
  PROVE  StepsTo(rq, sl)
<1> DEFINE Y == {}
           z == Inserted(sl, k, t)
<1>1. Y = X \ {t} /\ t \in X /\ Y = {} /\ z = Inserted(sl, k, t)
  OBVIOUS
<1> HIDE DEF Y, z
<1>2. Lists(e, c, Y, rq, z)
  BY <1>1, InsertSleeperLists
<1>3. e.state = q.state
  BY DEF LinkedBehind
<1>4. Counted(e, Y)
  BY <1>1, <1>3, InsertSleeperCounted
<1>5. Sound(e, c, {}, rq, z)
  BY <1>1, <1>2, <1>4 DEF Sound
<1>6. Switched(e, c, rq, z, current_thread', m', tcb')
  BY <1>5, ScheduleLists
<1>7. CountedBlocked(e)
  BY <1>3, BlockedFrame
<1>8. \A u \in Threads : pc'[u] \in {"exit", "halt"} => e.state[u] = "TERMINATED"
  BY <1>3
<1>9. Control'
  BY <1>6, <1>7, <1>8, SwitchedControl
<1>10. \A u : In(u, z) <=> In(u, sl) \/ u = t
  <2> SUFFICES ASSUME NEW u PROVE In(u, z) <=> In(u, sl) \/ u = t
    OBVIOUS
  <2>1. sl \in Seq(Threads) /\ z \in Seq(Threads)
    BY <1>2 DEF Lists, IsList
  <2>2. In(u, sl) \/ In(u, z) => u \in Threads
    BY <2>1 DEF In
  <2>3. u \in Threads => (In(u, z) <=> In(u, sl) \/ u = t)
    BY <1>1, <1>2, <1>3 DEF Lists
  <2>4. QED
    BY <2>2, <2>3
<1>11. \A rest : PickedBy(rq, current_thread', rest) =>
                   QueueStep(rq, sl, current_thread, rest, z, current_thread')
  BY <1>10 DEF QueueStep
<1>12. QED
  BY <1>6, <1>9, <1>11, SwitchedSteps

\* scheduler_sleep: the thread becomes the first sleeper, or goes on to look for
\* its place behind the first one.
LEMMA SleepLists ==
  ASSUME NEW rq, NEW sl, Inv(rq, sl), NEW t \in Threads, scheduler_sleep(t)
  PROVE  StepsTo(rq, sl)
<1> DEFINE w == wake_local[t]
           c == [tcb EXCEPT ![t].wake_in = w]
           q == asleep(m, t)
           X == {t}
<1>1. /\ t = current_thread /\ t \in Thread /\ mode = "open" /\ pc[t] = "sleep"
      /\ m.state[t] \in {"READY", "RUNNING"} /\ X = {t} /\ X = {current_thread}
  BY DEF scheduler_sleep, OnCPU, Thread, Inv, Control
<1>2. m \in QueueMemory /\ tcb \in Blocks /\ tcb[t] \in ThreadFields /\ w \in 0 .. MaxSleep
  BY <1>1 DEF Inv, TypeOK, Blocks
<1>3. /\ c \in Blocks /\ c[t].wake_in = w
      /\ \A u \in Threads : u # t => c[u] = tcb[u]
  BY <1>1, <1>2 DEF Blocks, ThreadFields, Thread
<1>4. /\ q \in QueueMemory
      /\ q.heads = m.heads /\ q.tails = m.tails /\ q.sleep_queue = m.sleep_queue /\ q.prev = m.prev
      /\ q.threads_ready = m.threads_ready /\ q.threads_sleeping = m.threads_sleeping
      /\ q.threads_blocked = m.threads_blocked
      /\ q.next = [m.next EXCEPT ![t] = NULL] /\ q.state = [m.state EXCEPT ![t] = "SLEEPING"]
  BY <1>1, <1>2 DEF asleep, QueueMemory, States, Pointer
<1>5. /\ q.state[t] = "SLEEPING"
      /\ \A u \in Threads : u # t => q.state[u] = m.state[u] /\ q.next[u] = m.next[u]
  BY <1>1, <1>2, <1>4 DEF QueueMemory, Thread
<1>6. IF q.sleep_queue = NULL \/ w < c[q.sleep_queue].wake_in
      THEN /\ schedule(link_first(q, t), c)
           /\ pc' = [pc EXCEPT ![t] = "run"] /\ mode' = mode
      ELSE /\ m' = q /\ tcb' = c /\ mode' = "insert" /\ cursor' = q.sleep_queue
           /\ UNCHANGED <<current_thread, pc>>
  BY DEF scheduler_sleep
<1> HIDE DEF c, q, w, X
<1>7. SameFor(m, tcb, X, q, c)
  BY <1>1, <1>3, <1>4, <1>5 DEF SameFor
<1>8. Lists(q, c, X, rq, sl) /\ Counted(q, X) /\ CountedBlocked(q)
  <2>1. Lists(m, tcb, X, rq, sl) /\ Counted(m, X) /\ CountedBlocked(m)
    BY <1>1 DEF Inv, Sound, Control
  <2>2. Lists(q, c, X, rq, sl)
    BY <1>2, <1>7, <2>1, ListsFrame
  <2>3. \A u \in Threads : u \notin X => q.state[u] = m.state[u]
    BY <1>1, <1>5
  <2>4. Counted(q, X)
    <3>1. q.threads_ready = m.threads_ready /\ q.threads_sleeping = m.threads_sleeping
      BY <1>4
    <3>2. QED
      BY <2>1, <2>3, <3>1, CountedFrame
  <2>5. \A u \in Threads : q.state[u] = "BLOCKED" <=> m.state[u] = "BLOCKED"
    BY <1>1, <1>5
  <2>6. CountedBlocked(q)
    BY <1>4, <2>1, <2>5, BlockedFrame
  <2>7. QED
    BY <2>2, <2>4, <2>6
<1>9. \A u \in Threads : u # t /\ pc[u] \in {"exit", "halt"} => q.state[u] = "TERMINATED"
  BY <1>5 DEF Inv, Control
<1>10. IsList(q.sleep_queue, q.next, sl) /\ ~In(t, sl)
  BY <1>1, <1>8 DEF Lists
<1>11. CASE q.sleep_queue = NULL \/ w < c[q.sleep_queue].wake_in
  <2> DEFINE e == link_first(q, t)
  <2>1. /\ e \in QueueMemory
        /\ e.heads = q.heads /\ e.tails = q.tails /\ e.prev = q.prev /\ e.state = q.state
        /\ e.sleep_queue = t /\ e.next = [q.next EXCEPT ![t] = q.sleep_queue]
        /\ e.threads_ready = q.threads_ready /\ e.threads_blocked = q.threads_blocked
        /\ e.threads_sleeping = Incr(q.threads_sleeping)
    BY <1>1, <1>4, CounterType DEF link_first, QueueMemory, Pointer
  <2>2. schedule(e, c) /\ pc' = [pc EXCEPT ![t] = "run"] /\ mode' = "open"
    BY <1>1, <1>6, <1>11
  <2> HIDE DEF e
  <2>3. e.next[t] = q.sleep_queue /\ \A u \in Threads : u # t => e.next[u] = q.next[u]
    BY <1>1, <1>4, <2>1 DEF QueueMemory, Thread
  <2>4. LinkedBehind(q, sl, 0, t, e)
    BY <2>1, <2>3 DEF LinkedBehind
  <2>5. \A u \in Threads : pc'[u] \in {"exit", "halt"} => q.state[u] = "TERMINATED"
    <3>1. \A u \in Threads : pc'[u] = IF u = t THEN "run" ELSE pc[u]
      BY <2>2 DEF Inv, TypeOK, Thread
    <3>2. QED
      BY <1>9, <3>1
  <2>6. 0 < Len(sl) => c[t].wake_in <= c[sl[0+1]].wake_in
    <3> SUFFICES ASSUME 0 < Len(sl) PROVE c[t].wake_in <= c[sl[1]].wake_in
      OBVIOUS
    <3>1. sl[1] = q.sleep_queue /\ sl[1] \in Threads
      BY <1>10 DEF IsList
    <3>2. w < c[sl[1]].wake_in
      BY <1>11, <3>1, ThreadAssumption DEF Thread
    <3>3. w \in Int /\ c[sl[1]].wake_in \in Int
      BY <1>2, <1>3, <3>1 DEF Blocks, ThreadFields, Thread
    <3>4. QED
      BY <1>3, <3>2, <3>3
  <2>7. 0 \in 0 .. Len(sl)
    BY <1>10 DEF IsList
  <2>8. \A k : k = 0 => StepsTo(rq, sl)
    <3> SUFFICES ASSUME NEW k, k = 0 PROVE StepsTo(rq, sl)
      OBVIOUS
    <3>1. /\ k \in 0 .. Len(sl) /\ LinkedBehind(q, sl, k, t, e)
          /\ k > 0 => c[sl[k]].wake_in <= c[t].wake_in
          /\ k < Len(sl) => c[t].wake_in <= c[sl[k+1]].wake_in
      BY <2>4, <2>6, <2>7
    <3>2. /\ q \in QueueMemory /\ c \in Blocks /\ e \in QueueMemory /\ t = current_thread /\ X = {t}
          /\ e.threads_ready = q.threads_ready /\ e.threads_blocked = q.threads_blocked
          /\ e.threads_sleeping = Incr(q.threads_sleeping)
      BY <1>1, <1>3, <1>4, <2>1
    <3>3. QED
      BY <1>5, <1>8, <2>2, <2>5, <3>1, <3>2, FallAsleep
  <2>9. QED
    BY <2>8
<1>12. CASE ~(q.sleep_queue = NULL \/ w < c[q.sleep_queue].wake_in)
  <2>1. /\ m' = q /\ tcb' = c /\ mode' = "insert" /\ cursor' = q.sleep_queue
        /\ UNCHANGED <<current_thread, pc>>
    BY <1>6, <1>12
  <2> DEFINE y == q.sleep_queue
  <2>2. y \in Threads /\ In(y, sl)
    <3>1. q.sleep_queue # NULL
      BY <1>12
    <3>2. QED
      BY <1>10, <3>1, ListFirst
  <2>3. y # t /\ m'.state[y] = "SLEEPING"
    <3>1. y # t
      BY <1>10, <2>2
    <3>2. q.state[y] = "SLEEPING"
      BY <1>8, <2>2 DEF Lists
    <3>3. QED
      BY <2>1, <3>1, <3>2
  <2>4. c[y].wake_in <= c[t].wake_in
    <3>1. w \in Int /\ c[y].wake_in \in Int
      BY <1>2, <1>3, <2>2 DEF Blocks, ThreadFields, Thread
    <3>2. QED
      BY <1>3, <1>12, <3>1
  <2>5. \A u \in Threads : pc[u] \in {"exit", "halt"} => q.state[u] = "TERMINATED"
    BY <1>1, <1>9
  <2>6. \A u \in Threads : pc[u] = "halt" => u # t
    BY <1>1
  <2>7. CountedBlocked(m')
    BY <1>8, <2>1
  <2>8. Control'
    BY <1>1, <1>5, <2>1, <2>2, <2>3, <2>4, <2>5, <2>6, <2>7 DEF Control
  <2>9. SameFor(m, tcb, {current_thread}, m', tcb')
    BY <1>1, <1>7, <2>1
  <2>10. QED
    BY <1>4, <2>1, <2>8, <2>9, StutterSteps
<1>13. QED
  BY <1>11, <1>12

\* The loop of enqueue_sleep ends behind the last sleeper that is due no later.
LEMMA InsertLists ==
  ASSUME NEW rq, NEW sl, Inv(rq, sl), sleep_insert
  PROVE  StepsTo(rq, sl)
<1> DEFINE t == current_thread
           e == link_after(m, cursor, t)
           X == {t}
<1>1. /\ t \in Threads /\ t \in Thread /\ m.state[t] = "SLEEPING" /\ pc[t] = "sleep"
      /\ cursor \in Threads /\ cursor \in Thread /\ cursor # t /\ m.state[cursor] = "SLEEPING"
      /\ tcb[cursor].wake_in <= tcb[t].wake_in /\ X = {t} /\ t = current_thread
  BY DEF sleep_insert, Inv, Control, Thread
<1>2. m \in QueueMemory /\ tcb \in Blocks
  BY DEF Inv, TypeOK, Blocks
<1>3. schedule(e, tcb) /\ mode' = "open" /\ pc' = [pc EXCEPT ![t] = "run"] /\ ~WalkOn
  BY DEF sleep_insert
<1>4. Lists(m, tcb, X, rq, sl) /\ Counted(m, X) /\ CountedBlocked(m)
  BY DEF Inv, Sound, Control
<1>5. /\ e \in QueueMemory
      /\ e.heads = m.heads /\ e.tails = m.tails /\ e.prev = m.prev /\ e.state = m.state
      /\ e.sleep_queue = m.sleep_queue
      /\ e.next = [m.next EXCEPT ![t] = m.next[cursor], ![cursor] = t]
      /\ e.threads_ready = m.threads_ready /\ e.threads_blocked = m.threads_blocked
      /\ e.threads_sleeping = Incr(m.threads_sleeping)
  BY <1>1, <1>2, CounterType DEF link_after, QueueMemory, Pointer
<1> HIDE DEF e, X
<1>6. /\ e.next[t] = m.next[cursor] /\ e.next[cursor] = t
      /\ \A u \in Threads : u # t /\ u # cursor => e.next[u] = m.next[u]
  BY <1>1, <1>2, <1>5 DEF QueueMemory, Thread
<1>7. In(cursor, sl)
  BY <1>1, <1>4 DEF Lists
<1>8. PICK k \in 1 .. Len(sl) : sl[k] = cursor
  BY <1>7 DEF In
<1>9. /\ sl \in Seq(Threads) /\ Len(sl) \in Nat
      /\ m.next[cursor] = IF k = Len(sl) THEN NULL ELSE sl[k+1]
  BY <1>4, <1>8 DEF Lists, IsList
<1>10. k \in 0 .. Len(sl) /\ k > 0
  BY <1>9
<1>11. LinkedBehind(m, sl, k, t, e)
  BY <1>5, <1>6, <1>8, <1>10 DEF LinkedBehind
<1>12. k < Len(sl) => tcb[t].wake_in <= tcb[sl[k+1]].wake_in
  <2> SUFFICES ASSUME k < Len(sl) PROVE tcb[t].wake_in <= tcb[sl[k+1]].wake_in
    OBVIOUS
  <2>1. k + 1 \in 1 .. Len(sl) /\ m.next[cursor] = sl[k+1]
    BY <1>8, <1>9
  <2>2. sl[k+1] \in Threads
    BY <1>9, <2>1
  <2>3. m.next[cursor] # NULL
    BY <2>1, <2>2, ThreadAssumption DEF Thread
  <2>4. ~(tcb[sl[k+1]].wake_in <= tcb[t].wake_in)
    BY <1>3, <2>1, <2>3 DEF WalkOn
  <2>5. tcb[t].wake_in \in Int /\ tcb[sl[k+1]].wake_in \in Int
    BY <1>1, <1>2, <2>2 DEF Blocks, ThreadFields, Thread
  <2>6. QED
    BY <2>4, <2>5
<1>13. k > 0 => tcb[sl[k]].wake_in <= tcb[t].wake_in
  BY <1>1, <1>8
<1>14. \A u \in Threads : pc'[u] \in {"exit", "halt"} => m.state[u] = "TERMINATED"
  <2>1. \A u \in Threads : pc'[u] = IF u = t THEN "run" ELSE pc[u]
    BY <1>3 DEF Inv, TypeOK, Thread
  <2>2. QED
    BY <2>1 DEF Inv, Control
<1> HIDE DEF t
<1>15. QED
  BY <1>1, <1>2, <1>3, <1>4, <1>5, <1>10, <1>11, <1>12, <1>13, <1>14, FallAsleep

\* Every step keeps the lists and is a step on the queues they stand for.
LEMMA NextLists ==
  ASSUME Cooperative, OrdinaryCalls, NEW rq, NEW sl, Inv(rq, sl), [Next]_vars
  PROVE  StepsTo(rq, sl)
<1>1. CASE UNCHANGED vars
  <2>1. SameFor(m, tcb, {current_thread}, m', tcb') /\ UNCHANGED <<m, tcb, current_thread, mode, cursor, pc>>
    BY <1>1 DEF vars, SameFor
  <2>2. Control'
    BY <2>1 DEF Inv, Control, CountedBlocked, InState, SliceEnds
  <2>3. QED
    BY <2>1, <2>2, StutterSteps
<1>2. CASE \E t \in Threads, p \in BasePriorities : Create(t, p)
  BY <1>2, CreateLists
<1>3. CASE \E t \in Threads : scheduler_add(t)
  BY <1>3, AddLists
<1>4. CASE scheduler_start
  BY <1>4, StartLists
<1>5. CASE Interrupt
  BY <1>5, InterruptLists, WakeLists, TickLists DEF Interrupt
<1>6. CASE Insertion
  BY <1>6, WalkLists, InsertLists DEF Insertion
<1>7. CASE \E t \in Threads : ThreadStep(t)
  BY <1>7, YieldLists, ExitLists, SleepMsLists, SleepLists, BlockLists DEF ThreadStep
<1>8. CASE \E t \in Threads : scheduler_unblock(t)
  BY <1>8, UnblockLists
<1>9. CASE \E t \in Threads : scheduler_remove(t)
  BY <1>9 DEF scheduler_remove, OrdinaryCalls
<1>10. CASE \E t \in Threads, p \in NewPriorities : thread_set_priority(t, p)
  BY <1>10 DEF thread_set_priority, OrdinaryCalls
<1>11. QED
  BY <1>1, <1>2, <1>3, <1>4, <1>5, <1>6, <1>7, <1>8, <1>9, <1>10 DEF Next

\* The inductive invariant, with the lists hidden.
ListsKept == \E rq, sl : Inv(rq, sl)

\* It is inductive.
LEMMA ListsKeptInductive ==
  ASSUME Cooperative, OrdinaryCalls
  PROVE  /\ Init => ListsKept
         /\ ListsKept /\ [Next]_vars => ListsKept'
<1>1. Init => ListsKept
  BY InitInv DEF ListsKept
<1>2. ASSUME ListsKept, [Next]_vars PROVE ListsKept'
  <2>1. PICK rq, sl : Inv(rq, sl)
    BY <1>2 DEF ListsKept
  <2>2. TypeOK'
    BY <1>2, <2>1, NextStep DEF Inv
  <2>3. StepsTo(rq, sl)
    BY <1>2, <2>1, NextLists
  <2>4. PICK rq2, sl2 : Sound(m', tcb', {current_thread'}, rq2, sl2) /\ Control'
    BY <2>3 DEF StepsTo
  <2>5. QED
    BY <2>2, <2>4 DEF ListsKept, Inv
<1>3. QED
  BY <1>1, <1>2

\* What following the links n from h finds: Members and AsSequence for any links.
Found(n, h) == IF h = NULL THEN {} ELSE Range(ChainOf(n, h)) \ {NULL}

FoundInOrder(n, h) ==
  IF h = NULL THEN << >>
  ELSE [i \in 1 .. Cardinality({k \in DOMAIN ChainOf(n, h) : ChainOf(n, h)[k] # NULL}) |->
          ChainOf(n, h)[i-1]]

\* When the links connect the threads of s, that is s, and it comes to an end.
LEMMA ListView ==
  ASSUME NEW h, NEW n, NEW s, IsList(h, n, s)
  PROVE  /\ Found(n, h) = {t \in Threads : In(t, s)}
         /\ ChainOf(n, h)[Cardinality(Thread)] = NULL
         /\ FoundInOrder(n, h) = s
<1> DEFINE N == Cardinality(Thread)
           ch == ChainOf(n, h)
           g == [k \in 0 .. N |-> IF k < Len(s) THEN s[k+1] ELSE NULL]
<1>1. N \in Nat /\ Len(s) <= N /\ Len(s) \in Nat /\ s \in Seq(Threads)
  BY ListLength DEF IsList
<1>2. ch = g
  BY ChainOfList
<1> HIDE DEF ch, N
<1>3. \A i \in 1 .. Len(s) : s[i] \in Threads /\ s[i] # NULL
  BY <1>1, ThreadAssumption DEF Thread
<1>4. h = NULL <=> Len(s) = 0
  BY <1>1, <1>3 DEF IsList
<1>5. \A k \in 0 .. N : ch[k] = IF k < Len(s) THEN s[k+1] ELSE NULL
  BY <1>2
<1>6. DOMAIN ch = 0 .. N
  BY <1>2
<1> HIDE DEF g
<1>7. \A k \in 0 .. N : ch[k] # NULL <=> k < Len(s)
  <2> SUFFICES ASSUME NEW k \in 0 .. N PROVE ch[k] # NULL <=> k < Len(s)
    OBVIOUS
  <2>1. CASE k < Len(s)
    <3>1. k + 1 \in 1 .. Len(s)
      BY <1>1, <2>1
    <3>2. QED
      BY <1>3, <1>5, <2>1, <3>1
  <2>2. QED
    BY <1>5, <2>1
<1>8. ChainOf(n, h)[Cardinality(Thread)] = NULL
  <2>1. N \in 0 .. N /\ ~(N < Len(s))
    BY <1>1
  <2>2. ch[N] = NULL
    BY <1>5, <2>1
  <2>3. QED
    BY <2>2 DEF ch, N
<1>9. Range(ch) \ {NULL} = {t \in Threads : In(t, s)}
  <2>1. ASSUME NEW t, t \in Range(ch), t # NULL PROVE t \in Threads /\ In(t, s)
    <3>1. PICK k \in 0 .. N : t = ch[k]
      BY <1>6, <2>1 DEF Range
    <3>2. k < Len(s) /\ k + 1 \in 1 .. Len(s) /\ t = s[k+1]
      BY <1>1, <1>5, <1>7, <2>1, <3>1
    <3>3. QED
      BY <1>3, <3>2 DEF In
  <2>2. ASSUME NEW t \in Threads, In(t, s) PROVE t \in Range(ch) /\ t # NULL
    <3>1. PICK i \in 1 .. Len(s) : s[i] = t
      BY <2>2 DEF In
    <3>2. i - 1 \in 0 .. N /\ i - 1 < Len(s) /\ (i - 1) + 1 = i
      BY <1>1, <3>1
    <3>3. ch[i-1] = t
      BY <1>5, <3>1, <3>2
    <3>4. QED
      BY <1>3, <1>6, <3>1, <3>2, <3>3 DEF Range
  <2>3. QED
    BY <2>1, <2>2
<1>10. Found(n, h) = {t \in Threads : In(t, s)}
  <2>1. CASE h = NULL
    <3>1. Len(s) = 0
      BY <1>4, <2>1
    <3>2. \A t : ~In(t, s)
      BY <3>1 DEF In
    <3>3. QED
      BY <2>1, <3>2 DEF Found
  <2>2. CASE h # NULL
    BY <1>9, <2>2 DEF Found, ch
  <2>3. QED
    BY <2>1, <2>2
<1>11. FoundInOrder(n, h) = s
  <2>1. CASE h = NULL
    <3>1. Len(s) = 0
      BY <1>4, <2>1
    <3>2. QED
      BY <1>1, <2>1, <3>1 DEF FoundInOrder
  <2>2. CASE h # NULL
    <3> DEFINE D == {k \in DOMAIN ch : ch[k] # NULL}
               L == Len(s)
    <3>1. D = 0 .. (L - 1)
      BY <1>1, <1>6, <1>7
    <3>2. L \in Nat /\ L > 0
      BY <1>1, <1>4, <2>2
    <3> HIDE DEF L
    <3>3. Cardinality(D) = L
      <4>1. 0 \in Int /\ L - 1 \in Int
        BY <3>2
      <4>2. Cardinality(0 .. (L - 1)) = IF 0 > L - 1 THEN 0 ELSE (L - 1) - 0 + 1
        BY <4>1, FS_Interval, Zenon
      <4>3. Cardinality(0 .. (L - 1)) = L
        BY <3>2, <4>2
      <4> HIDE DEF D
      <4>4. QED
        BY <3>1, <4>3
    <3>4. FoundInOrder(n, h) = [i \in 1 .. L |-> ch[i-1]]
      BY <2>2, <3>3 DEF FoundInOrder, ch
    <3>5. \A i \in 1 .. L : ch[i-1] = s[i]
      <4> SUFFICES ASSUME NEW i \in 1 .. L PROVE ch[i-1] = s[i]
        OBVIOUS
      <4>1. i - 1 \in 0 .. N /\ i - 1 < Len(s) /\ (i - 1) + 1 = i
        BY <1>1, <3>2 DEF L
      <4>2. QED
        BY <1>5, <4>1
    <3>6. s = [i \in 1 .. L |-> s[i]]
      BY <1>1 DEF L
    <3>7. QED
      BY <3>4, <3>5, <3>6
  <2>3. QED
    BY <2>1, <2>2
<1>12. QED
  BY <1>8, <1>10, <1>11

\* The lists of the invariant are the ones the pointers lead through.
LEMMA ViewOfLists ==
  ASSUME NEW rq, NEW sl, Inv(rq, sl)
  PROVE  /\ \A p \in Priorities : /\ Members(m.heads[p]) = {t \in Threads : In(t, rq[p])}
                                  /\ Terminates(m.heads[p])
                                  /\ AsSequence(m.heads[p]) = rq[p]
         /\ Sleeping = {t \in Threads : In(t, sl)}
         /\ Queued = InState(m, {current_thread}, "READY")
         /\ Sleeping = InState(m, {current_thread}, "SLEEPING")
<1>1. Lists(m, tcb, {current_thread}, rq, sl)
  BY DEF Inv, Sound
<1>2. \A p \in Priorities : /\ Members(m.heads[p]) = {t \in Threads : In(t, rq[p])}
                            /\ Terminates(m.heads[p])
                            /\ AsSequence(m.heads[p]) = rq[p]
  <2> SUFFICES ASSUME NEW p \in Priorities
               PROVE  /\ Found(m.next, m.heads[p]) = {t \in Threads : In(t, rq[p])}
                      /\ ChainOf(m.next, m.heads[p])[Cardinality(Thread)] = NULL
                      /\ FoundInOrder(m.next, m.heads[p]) = rq[p]
    BY DEF Members, Terminates, AsSequence, Chain, Found, FoundInOrder
  <2>1. IsList(m.heads[p], m.next, rq[p])
    BY <1>1 DEF Lists, IsDeque
  <2>2. QED
    BY <2>1, ListView
<1>3. Sleeping = {t \in Threads : In(t, sl)}
  BY <1>1, ListView DEF Lists, Sleeping, Members, Chain, Found
<1>4. Sleeping = InState(m, {current_thread}, "SLEEPING")
  BY <1>1, <1>3 DEF Lists, InState
<1>5. Queued = InState(m, {current_thread}, "READY")
  <2>1. ASSUME NEW t, t \in Queued PROVE t \in InState(m, {current_thread}, "READY")
    <3>1. PICK p \in Priorities : t \in Members(m.heads[p])
      BY <2>1 DEF Queued
    <3>2. t \in Threads /\ In(t, rq[p])
      BY <1>2, <3>1
    <3>3. QED
      BY <1>1, <3>2 DEF Lists, InState
  <2>2. ASSUME NEW t \in InState(m, {current_thread}, "READY") PROVE t \in Queued
    <3>1. t \in Threads /\ t # current_thread /\ m.state[t] = "READY" /\ tcb[t].priority \in Priorities
      BY <2>2 DEF InState, Inv, TypeOK, ThreadFields, Thread
    <3>2. In(t, rq[tcb[t].priority])
      BY <1>1, <3>1 DEF Lists
    <3>3. t \in Members(m.heads[tcb[t].priority])
      BY <1>2, <3>1, <3>2
    <3>4. QED
      BY <3>1, <3>3 DEF Queued
  <2>3. QED
    BY <2>1, <2>2
<1>6. QED
  BY <1>2, <1>3, <1>4, <1>5

-----------------------------------------------------------------------------
(* What the invariant says of the scheduler *)

\* A waiting thread is on the list its state names.
LEMMA KeptNoThreadLost == ASSUME ListsKept PROVE NoThreadLost
<1>1. PICK rq, sl : Inv(rq, sl)
  BY DEF ListsKept
<1>2. Queued = InState(m, {current_thread}, "READY") /\ Sleeping = InState(m, {current_thread}, "SLEEPING")
  BY <1>1, ViewOfLists
<1>3. QED
  BY <1>2 DEF NoThreadLost, InState

\* Each ready list is linked in both directions and holds threads of its priority.
LEMMA KeptReadyListsSound == ASSUME ListsKept PROVE ReadyListsSound
<1>1. PICK rq, sl : Inv(rq, sl)
  BY DEF ListsKept
<1>2. Lists(m, tcb, {current_thread}, rq, sl)
  BY <1>1 DEF Inv, Sound
<1> SUFFICES ASSUME NEW p \in Priorities
             PROVE  LET h == m.heads[p] IN
                    /\ Terminates(h)
                    /\ h = NULL <=> m.tails[p] = NULL
                    /\ h # NULL => m.prev[h] = NULL /\ m.tails[p] \in Members(h)
                    /\ \A t \in Members(h) :
                         /\ m.next[t] = NULL <=> t = m.tails[p]
                         /\ m.next[t] # NULL => m.prev[m.next[t]] = t
                         /\ tcb[t].priority = p
                         /\ t \notin Sleeping \cup {current_thread, Idle}
  BY DEF ReadyListsSound
<1> DEFINE h == m.heads[p]
           s == rq[p]
<1>3. Members(h) = {t \in Threads : In(t, s)} /\ Terminates(h) /\ Sleeping = {t \in Threads : In(t, sl)}
  BY <1>1, ViewOfLists
<1>4. IsDeque(h, m.tails[p], m.next, m.prev, s)
  BY <1>2 DEF Lists
<1> HIDE DEF h, s
<1>5. /\ s \in Seq(Threads) /\ Len(s) \in Nat
      /\ \A i, j \in 1 .. Len(s) : s[i] = s[j] => i = j
      /\ h = IF Len(s) = 0 THEN NULL ELSE s[1]
      /\ \A i \in 1 .. Len(s) : m.next[s[i]] = IF i = Len(s) THEN NULL ELSE s[i+1]
      /\ m.tails[p] = IF Len(s) = 0 THEN NULL ELSE s[Len(s)]
      /\ \A i \in 1 .. Len(s) : m.prev[s[i]] = IF i = 1 THEN NULL ELSE s[i-1]
  BY <1>4 DEF IsDeque, IsList
<1>6. \A i \in 1 .. Len(s) : s[i] \in Threads /\ s[i] # NULL /\ s[i] # Idle /\ In(s[i], s)
  BY <1>5, ThreadAssumption DEF In, Thread
<1>7. h = NULL <=> m.tails[p] = NULL
  BY <1>5, <1>6
<1>8. h # NULL => m.prev[h] = NULL /\ m.tails[p] \in Members(h)
  <2> SUFFICES ASSUME h # NULL PROVE m.prev[h] = NULL /\ m.tails[p] \in Members(h)
    OBVIOUS
  <2>1. 1 \in 1 .. Len(s) /\ Len(s) \in 1 .. Len(s) /\ h = s[1] /\ m.tails[p] = s[Len(s)]
    BY <1>5
  <2>2. QED
    BY <1>3, <1>5, <1>6, <2>1
<1>9. ASSUME NEW t \in Members(h)
      PROVE  /\ m.next[t] = NULL <=> t = m.tails[p]
             /\ m.next[t] # NULL => m.prev[m.next[t]] = t
             /\ tcb[t].priority = p
             /\ t \notin Sleeping \cup {current_thread, Idle}
  <2>1. t \in Threads /\ In(t, s)
    BY <1>3
  <2>2. PICK i \in 1 .. Len(s) : s[i] = t
    BY <2>1 DEF In
  <2>3. /\ m.next[t] = NULL <=> t = m.tails[p]
        /\ m.next[t] # NULL => m.prev[m.next[t]] = t
    <3>1. CASE i = Len(s)
      BY <1>5, <2>2, <3>1
    <3>2. CASE i # Len(s)
      <4>1. i + 1 \in 1 .. Len(s) /\ (i + 1) - 1 = i /\ i + 1 # 1 /\ Len(s) \in 1 .. Len(s) /\ Len(s) # 0
        BY <1>5, <2>2, <3>2
      <4>2. m.next[t] = s[i+1] /\ m.next[t] # NULL
        BY <1>5, <1>6, <2>2, <3>2, <4>1
      <4>3. m.prev[s[i+1]] = t
        BY <1>5, <2>2, <4>1
      <4>4. t # m.tails[p]
        BY <1>5, <2>2, <3>2, <4>1
      <4>5. QED
        BY <4>2, <4>3, <4>4
    <3>3. QED
      BY <3>1, <3>2
  <2>5. tcb[t].priority = p /\ t \notin {current_thread} /\ m.state[t] = "READY"
    BY <1>2, <2>1 DEF Lists, s
  <2>6. t \notin Sleeping
    BY <1>2, <1>3, <2>1, <2>5 DEF Lists
  <2>7. QED
    BY <1>6, <2>2, <2>3, <2>5, <2>6
<1>10. QED
  BY <1>3, <1>7, <1>8, <1>9 DEF h

\* The counters count what is on the lists, as long as they can.
LEMMA KeptStatistics ==
  ASSUME ListsKept, Cardinality(Threads) < COUNTER_WIDTH PROVE StatisticsExact
<1>1. PICK rq, sl : Inv(rq, sl)
  BY DEF ListsKept
<1>2. Queued = InState(m, {current_thread}, "READY") /\ Sleeping = InState(m, {current_thread}, "SLEEPING")
  BY <1>1, ViewOfLists
<1>3. {t \in Threads : m.state[t] = "BLOCKED"} = InState(m, {}, "BLOCKED")
  BY DEF InState
<1>4. QED
  BY <1>1, <1>2, <1>3 DEF Inv, Sound, Control, Counted, CountedBlocked, StatisticsExact

\* No thread that is still asleep when the timer handler ends is due.
LEMMA KeptNoOversleep ==
  ASSUME ListsKept, Cooperative, [Next]_vars, mode = "wake", mode' = "open", NEW t \in Threads, m'.state[t] = "SLEEPING"
  PROVE  tcb'[t].wake_in > 0
<1>1. PICK rq, sl : Inv(rq, sl)
  BY DEF ListsKept
<1>2. scheduler_tick
  BY DEF Next, vars, Create, scheduler_add, scheduler_start, Interrupt, Tick, timer_irq_handler,
         wake_expired_sleepers, Insertion, sleep_walk, sleep_insert, ThreadStep, scheduler_yield,
         thread_exit, thread_sleep_ms, scheduler_sleep, scheduler_block, Runs, OnCPU,
         scheduler_unblock, scheduler_remove, thread_set_priority, KernelCodeRuns
<1>3. /\ m' = m /\ ~SleeperDue
      /\ \A u \in Threads : u # current_thread => tcb'[u] = tcb[u]
  BY <1>1, <1>2, TickCharges DEF scheduler_tick
<1>4. t # current_thread
  <2>1. pc[t] \in {"run", "exit", "sleep", "halt"}
    BY <1>1 DEF Inv, TypeOK, Thread
  <2>2. QED
    BY <1>1, <1>3, <2>1 DEF Inv, Control
<1>5. Lists(m, tcb, {current_thread}, rq, sl)
  BY <1>1 DEF Inv, Sound
<1>6. In(t, sl)
  BY <1>3, <1>4, <1>5 DEF Lists
<1>7. PICK i \in 1 .. Len(sl) : sl[i] = t
  BY <1>6 DEF In
<1>8. sl \in Seq(Threads) /\ m.sleep_queue = sl[1] /\ 1 \in 1 .. Len(sl)
  BY <1>5, <1>7 DEF Lists, IsList
<1>9. sl[1] \in Threads /\ sl[1] # NULL /\ tcb[sl[1]].wake_in \in Nat /\ tcb[t].wake_in \in Nat
  <2>1. sl[1] \in Threads
    BY <1>8
  <2>2. tcb \in [Thread -> ThreadFields] /\ sl[1] \in Thread /\ t \in Thread
    BY <1>1, <2>1 DEF Inv, TypeOK, Thread
  <2>3. tcb[sl[1]] \in ThreadFields /\ tcb[t] \in ThreadFields
    BY <2>2
  <2>4. \A r \in ThreadFields : r.wake_in \in Nat
    BY DEF ThreadFields
  <2>5. QED
    BY <2>1, <2>3, <2>4, ThreadAssumption DEF Thread
<1>10. tcb[sl[1]].wake_in > 0
  BY <1>3, <1>8, <1>9 DEF SleeperDue
<1>11. i = 1 \/ tcb[sl[1]].wake_in <= tcb[t].wake_in
  BY <1>5, <1>7, <1>8 DEF Lists
<1>12. QED
  BY <1>3, <1>4, <1>7, <1>9, <1>10, <1>11

-----------------------------------------------------------------------------
(* The lists implement the queues of RunQueues *)

RQ == [p \in Priorities |-> AsSequence(m.heads[p])]

\* The refinement mapping, in this state and in the next one.
LEMMA MappedQueues ==
  ASSUME NEW rq, NEW sl, NEW c
  PROVE  /\ Lists(m, c, {current_thread}, rq, sl) => RQ = rq /\ Sleeping = {t \in Threads : In(t, sl)}
         /\ Lists(m', c, {current_thread'}, rq, sl) => RQ' = rq /\ Sleeping' = {t \in Threads : In(t, sl)}
<1>1. ASSUME NEW q, NEW X, Lists(q, c, X, rq, sl)
      PROVE  /\ \A p \in Priorities : FoundInOrder(q.next, q.heads[p]) = rq[p]
             /\ Found(q.next, q.sleep_queue) = {t \in Threads : In(t, sl)}
             /\ rq = [p \in Priorities |-> rq[p]]
  <2>1. \A p \in Priorities : IsList(q.heads[p], q.next, rq[p])
    BY <1>1 DEF Lists, IsDeque
  <2>2. IsList(q.sleep_queue, q.next, sl) /\ rq = [p \in Priorities |-> rq[p]]
    BY <1>1 DEF Lists
  <2>3. QED
    BY <2>1, <2>2, ListView
<1>2. /\ RQ = [p \in Priorities |-> FoundInOrder(m.next, m.heads[p])]
      /\ Sleeping = Found(m.next, m.sleep_queue)
      /\ RQ' = [p \in Priorities |-> FoundInOrder(m'.next, m'.heads[p])]
      /\ Sleeping' = Found(m'.next, m'.sleep_queue)
  BY DEF RQ, AsSequence, Chain, Sleeping, Members, Found, FoundInOrder
<1>3. ASSUME Lists(m, c, {current_thread}, rq, sl)
      PROVE  RQ = rq /\ Sleeping = {t \in Threads : In(t, sl)}
  <2>1. /\ \A p \in Priorities : FoundInOrder(m.next, m.heads[p]) = rq[p]
        /\ Found(m.next, m.sleep_queue) = {t \in Threads : In(t, sl)}
        /\ rq = [p \in Priorities |-> rq[p]]
    BY <1>1, <1>3
  <2>2. QED
    BY <1>2, <2>1
<1>4. ASSUME Lists(m', c, {current_thread'}, rq, sl)
      PROVE  RQ' = rq /\ Sleeping' = {t \in Threads : In(t, sl)}
  <2>1. /\ \A p \in Priorities : FoundInOrder(m'.next, m'.heads[p]) = rq[p]
        /\ Found(m'.next, m'.sleep_queue) = {t \in Threads : In(t, sl)}
        /\ rq = [p \in Priorities |-> rq[p]]
    BY <1>1, <1>4
  <2>2. QED
    BY <1>2, <2>1
<1>5. QED
  BY <1>3, <1>4

\* The choice of pick_next_thread is the choice Pick of RunQueues.
LEMMA PickRefines ==
  ASSUME NEW q, q \in [Priorities -> Seq(Threads)], PickedBy(q, current_thread', RQ')
  PROVE  Abstract!Pick(q)
<1>1. Abstract!Levels = Priorities
  BY DEF Abstract!Levels, Priorities
<1>2. \A p \in Priorities : q[p] = << >> <=> Len(q[p]) = 0
  OBVIOUS
<1>3. \A p \in Priorities : Len(q[p]) > 0 => Head(q[p]) = q[p][1]
  OBVIOUS
<1>4. \A p \in Priorities : Ahead(q, p) = Abstract!WithoutHead(q, p)
  BY <1>1 DEF Ahead, Rest, Abstract!WithoutHead
<1>5. QED
  BY <1>1, <1>2, <1>3, <1>4 DEF PickedBy, Abstract!Pick, RQ

\* A step on the lists is a step of RunQueues on what the pointers show.
LEMMA StepRefines ==
  ASSUME NEW rq, NEW sl, NEW rq2, NEW sl2, rq \in [Priorities -> Seq(Threads)],
         RQ = rq, Sleeping = {t \in Threads : In(t, sl)},
         RQ' = rq2, Sleeping' = {t \in Threads : In(t, sl2)},
         QueueStep(rq, sl, current_thread, rq2, sl2, current_thread')
  PROVE  [Abstract!AbsNext]_(Abstract!absVars)
<1>1. Abstract!Levels = Priorities
  BY DEF Abstract!Levels, Priorities
<1>2. \A p \in Priorities, t \in Threads :
        /\ Behind(rq, p, t) = Abstract!Joined(rq, p, t)
        /\ Behind(rq, p, t) \in [Priorities -> Seq(Threads)]
  <2> SUFFICES ASSUME NEW p \in Priorities, NEW t \in Threads
               PROVE  /\ Behind(rq, p, t) = Abstract!Joined(rq, p, t)
                      /\ Behind(rq, p, t) \in [Priorities -> Seq(Threads)]
    OBVIOUS
  <2>1. Append(rq[p], t) \in Seq(Threads)
    OBVIOUS
  <2>2. Behind(rq, p, t) \in [Priorities -> Seq(Threads)]
    BY <2>1 DEF Behind
  <2>3. Behind(rq, p, t) = [r \in Priorities |-> IF r = p THEN Append(rq[r], t) ELSE rq[r]]
    BY DEF Behind
  <2>4. QED
    BY <1>1, <2>2, <2>3 DEF Abstract!Joined
<1>3. \A p \in Priorities : \A t : Abstract!InQueue(t, rq[p]) <=> In(t, rq[p])
  BY DEF Abstract!InQueue, In
<1>4. CASE rq2 = rq /\ sl2 = sl /\ current_thread' = current_thread
  BY <1>4 DEF Abstract!absVars, RQ
<1>5. ASSUME NEW t \in Threads, NEW p \in Priorities,
             t # current_thread, ~In(t, sl), \A r \in Priorities : ~In(t, rq[r]),
             rq2 = Behind(rq, p, t), sl2 = sl, current_thread' = current_thread
      PROVE  Abstract!AbsNext
  <2>1. Abstract!Nowhere(t)
    BY <1>1, <1>3, <1>5 DEF Abstract!Nowhere, RQ
  <2>2. Abstract!MakeReady(t, p)
    BY <1>2, <1>5, <2>1 DEF Abstract!MakeReady, RQ
  <2>3. QED
    BY <1>1, <2>2 DEF Abstract!AbsNext
<1>6. ASSUME NEW t \in Threads, NEW p \in Priorities,
             In(t, sl), \A u : In(u, sl2) <=> In(u, sl) /\ u # t,
             rq2 = Behind(rq, p, t), current_thread' = current_thread
      PROVE  Abstract!AbsNext
  <2>1. Abstract!Wake(t, p)
    BY <1>2, <1>6 DEF Abstract!Wake, RQ
  <2>2. QED
    BY <1>1, <2>1 DEF Abstract!AbsNext
<1>7. ASSUME NEW p \in Priorities, current_thread \in Threads, sl2 = sl,
             PickedBy(Behind(rq, p, current_thread), current_thread', rq2)
      PROVE  Abstract!AbsNext
  <2>1. Abstract!Pick(Behind(rq, p, current_thread))
    BY <1>2, <1>7, PickRefines
  <2>2. Abstract!Yield(p)
    BY <1>2, <1>7, <2>1 DEF Abstract!Yield, RQ
  <2>3. QED
    BY <1>1, <2>2 DEF Abstract!AbsNext
<1>8. ASSUME PickedBy(rq, current_thread', rq2)
      PROVE  Abstract!Pick(rq)
  BY <1>8, PickRefines
<1>9. CASE current_thread \in Threads \cup {NULL} /\ sl2 = sl /\ PickedBy(rq, current_thread', rq2)
  <2>1. Abstract!Pick(RQ)
    BY <1>8, <1>9
  <2>2. Abstract!Leave \/ Abstract!Start
    BY <1>9, <2>1 DEF Abstract!Leave, Abstract!Start, RQ
  <2>3. QED
    BY <2>2 DEF Abstract!AbsNext
<1>10. CASE /\ current_thread \in Threads /\ \A u : In(u, sl2) <=> In(u, sl) \/ u = current_thread
            /\ PickedBy(rq, current_thread', rq2)
  <2>1. Abstract!Pick(RQ)
    BY <1>8, <1>10
  <2>2. Sleeping' = Sleeping \cup {current_thread}
    BY <1>10
  <2>3. Abstract!Sleep
    BY <1>10, <2>1, <2>2 DEF Abstract!Sleep, RQ
  <2>4. QED
    BY <2>3 DEF Abstract!AbsNext
<1>11. QED
  BY <1>4, <1>5, <1>6, <1>7, <1>9, <1>10 DEF QueueStep


-----------------------------------------------------------------------------
(* Theorems *)

\* Whatever the threads do, also when a thread is queued twice, the queues hold
\* pointers to existing threads and the counters stay in their width; the
\* handler and the insertion loop never follow a null pointer.
THEOREM TypeCorrect == Spec => []TypeOK
<1>1. Init => TypeOK
  BY InitTypeOK
<1>2. TypeOK /\ [Next]_vars => TypeOK'
  BY NextStep
<1>3. QED
  BY <1>1, <1>2, PTL DEF Spec

\* Under every workload the slice length of a thread is the one of its priority.
THEOREM SliceCorrect == Spec => []SliceMatchesPriority
<1>1. Init => SliceMatchesPriority
  BY InitTypeOK
<1>2. TypeOK /\ SliceMatchesPriority /\ [Next]_vars => SliceMatchesPriority'
  BY NextStep
<1>3. QED
  BY <1>1, <1>2, TypeCorrect, PTL DEF Spec

\* As long as nobody calls thread_set_priority, adaptive priorities stay between
\* the base priority and PRIORITY_LOW, and realtime and idle threads keep theirs.
THEOREM PriorityCorrect ==
  ASSUME "set_priority" \notin Calls
  PROVE  Spec => []PriorityBounds
<1>1. Init => PriorityBounds
  BY InitTypeOK
<1>2. TypeOK /\ PriorityBounds /\ [Next]_vars => PriorityBounds'
  BY NextStep
<1>3. QED
  BY <1>1, <1>2, TypeCorrect, PTL DEF Spec

-----------------------------------------------------------------------------
(* Theorems about the lists, under the hypotheses of the run sched_queues: *)
(* no time slice runs out (sched_lost shows what happens otherwise), and   *)
(* the calls are ordinary ones.                                            *)

\* The linked lists always hold what the states of the threads say.
THEOREM ListsCorrect ==
  ASSUME Cooperative, OrdinaryCalls
  PROVE  Spec => []ListsKept
<1>1. Init => ListsKept
  BY ListsKeptInductive
<1>2. ListsKept /\ [Next]_vars => ListsKept'
  BY ListsKeptInductive
<1>3. QED
  BY <1>1, <1>2, PTL DEF Spec

\* No thread that waits is ever lost.
THEOREM NoThreadLostCorrect ==
  ASSUME Cooperative, OrdinaryCalls
  PROVE  Spec => []NoThreadLost
<1>1. ListsKept => NoThreadLost
  BY KeptNoThreadLost
<1>2. QED
  BY <1>1, ListsCorrect, PTL

\* The ready lists are sound and the counters exact, if a counter can count all threads.
THEOREM QueuesSoundCorrect ==
  ASSUME Cooperative, OrdinaryCalls, Cardinality(Threads) < COUNTER_WIDTH
  PROVE  Spec => []QueuesSound
<1>1. ListsKept => QueuesSound
  BY KeptReadyListsSound, KeptStatistics DEF QueuesSound
<1>2. QED
  BY <1>1, ListsCorrect, PTL

\* No thread oversleeps.
THEOREM NoOversleepCorrect ==
  ASSUME Cooperative, OrdinaryCalls
  PROVE  Spec => NoOversleep
<1>1. ListsKept /\ [Next]_vars =>
        [mode = "wake" /\ mode' = "open" =>
           \A t \in Threads : m'.state[t] = "SLEEPING" => tcb'[t].wake_in > 0]_vars
  BY KeptNoOversleep
<1>2. QED
  BY <1>1, ListsCorrect, PTL DEF Spec, NoOversleep

\* Every behaviour is one of RunQueues.
THEOREM ImplementsRunQueuesCorrect ==
  ASSUME Cooperative, OrdinaryCalls
  PROVE  Spec => ImplementsRunQueues
<1>1. Init => Abstract!AbsInit
  <2> SUFFICES ASSUME Init PROVE Abstract!AbsInit
    OBVIOUS
  <2>1. Lists(m, tcb, {current_thread}, [p \in Priorities |-> << >>], << >>)
    BY InitInv DEF Inv, Sound
  <2>2. RQ = [p \in Priorities |-> << >>] /\ Sleeping = {t \in Threads : In(t, << >>)}
    BY <2>1, MappedQueues
  <2>3. \A t : ~In(t, << >>)
    BY DEF In
  <2>4. Abstract!Levels = Priorities
    BY DEF Abstract!Levels, Priorities
  <2>5. QED
    BY <2>2, <2>3, <2>4 DEF Abstract!AbsInit, RQ, Init
<1>2. ListsKept /\ [Next]_vars => [Abstract!AbsNext]_(Abstract!absVars)
  <2> SUFFICES ASSUME ListsKept, [Next]_vars PROVE [Abstract!AbsNext]_(Abstract!absVars)
    OBVIOUS
  <2>1. PICK rq, sl : Inv(rq, sl)
    BY DEF ListsKept
  <2>2. StepsTo(rq, sl)
    BY <2>1, NextLists
  <2>3. PICK rq2, sl2 : /\ Sound(m', tcb', {current_thread'}, rq2, sl2)
                        /\ QueueStep(rq, sl, current_thread, rq2, sl2, current_thread')
    BY <2>2 DEF StepsTo
  <2>4. Lists(m, tcb, {current_thread}, rq, sl) /\ Lists(m', tcb', {current_thread'}, rq2, sl2)
    BY <2>1, <2>3 DEF Inv, Sound
  <2>5. rq \in [Priorities -> Seq(Threads)]
    BY <2>4 DEF Lists
  <2>6. RQ = rq /\ Sleeping = {t \in Threads : In(t, sl)}
    BY <2>4, MappedQueues
  <2>7. RQ' = rq2 /\ Sleeping' = {t \in Threads : In(t, sl2)}
    BY <2>4, MappedQueues
  <2>8. QED
    BY <2>3, <2>5, <2>6, <2>7, StepRefines
<1>3. QED
  BY <1>1, <1>2, ListsCorrect, PTL DEF Spec, ImplementsRunQueues, Abstract!AbsSpec

=============================================================================
