----------------------------- MODULE RunQueues -----------------------------
(***************************************************************************)
(* What the scheduler promises, without its pointers: one FIFO queue of    *)
(* ready threads per priority, a set of sleeping threads and the thread    *)
(* that runs.  A thread is in at most one of these places, the processor   *)
(* goes to the longest waiting thread of the best non-empty priority, and  *)
(* to the idle thread when every queue is empty.                           *)
(***************************************************************************)
EXTENDS Integers, Sequences

CONSTANTS Threads, Idle, NULL, PRIORITY_LEVELS

Levels == 0 .. PRIORITY_LEVELS - 1

VARIABLES
  rq,       \* ready threads per priority, in the order they will run
  sleepers,   \* threads that sleep
  cur       \* the running thread, NULL before the first one is picked

absVars == <<rq, sleepers, cur>>

InQueue(t, s) == \E i \in DOMAIN s : s[i] = t

Nowhere(t) ==
  /\ t # cur
  /\ t \notin sleepers
  /\ \A p \in Levels : ~InQueue(t, rq[p])

Joined(q, p, t) == [r \in Levels |-> IF r = p THEN Append(q[r], t) ELSE q[r]]

WithoutHead(q, p) == [r \in Levels |-> IF r = p THEN Tail(q[r]) ELSE q[r]]

AbsInit ==
  /\ rq = [p \in Levels |-> <<>>]
  /\ sleepers = {}
  /\ cur = NULL

\* The processor is given away: q are the ready queues at that moment.
Pick(q) ==
  \/ /\ \A p \in Levels : q[p] = <<>>
     /\ cur' = Idle
     /\ rq' = q
  \/ \E p \in Levels :
       /\ q[p] # <<>>
       /\ \A r \in Levels : r < p => q[r] = <<>>
       /\ cur' = Head(q[p])
       /\ rq' = WithoutHead(q, p)

\* A thread that is nowhere (new, or blocked until now) becomes ready.
MakeReady(t, p) ==
  /\ UNCHANGED <<sleepers, cur>>
  /\ Nowhere(t)
  /\ rq' = Joined(rq, p, t)

Start == cur = NULL /\ UNCHANGED sleepers /\ Pick(rq)

Wake(t, p) ==
  /\ t \in sleepers
  /\ sleepers' = sleepers \ {t}
  /\ rq' = Joined(rq, p, t)
  /\ UNCHANGED cur

\* The running thread gives up the processor and waits for its next turn.
Yield(p) ==
  /\ cur \in Threads
  /\ UNCHANGED sleepers
  /\ Pick(Joined(rq, p, cur))

Sleep ==
  /\ cur \in Threads
  /\ sleepers' = sleepers \cup {cur}
  /\ Pick(rq)

\* The running thread blocks or terminates.
Leave ==
  /\ cur \in Threads
  /\ UNCHANGED sleepers
  /\ Pick(rq)

AbsNext ==
  \/ \E t \in Threads, p \in Levels : MakeReady(t, p) \/ Wake(t, p)
  \/ \E p \in Levels : Yield(p)
  \/ Start
  \/ Sleep
  \/ Leave

AbsSpec == AbsInit /\ [][AbsNext]_absVars

=============================================================================
