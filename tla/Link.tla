------------------------------- MODULE Link --------------------------------
(***************************************************************************)
(* What the loopback interface promises the protocols above it: frames are *)
(* delivered one at a time, in the order they were sent and each once; a   *)
(* frame is lost only when Capacity frames already wait.                   *)
(***************************************************************************)
EXTENDS Naturals, Sequences

CONSTANTS Frames, Capacity, NoFrame

VARIABLES
    sent,       \* the last frame sent, and a bit that turns with each one
    queue,      \* sent and not yet received
    frame       \* received and being processed

LinkInit ==
    /\ sent = [frame |-> NoFrame, turn |-> 0]
    /\ queue = << >> /\ frame = NoFrame

Put(f) == Len(queue) < Capacity /\ queue' = Append(queue, f)

Lose == Len(queue) = Capacity /\ UNCHANGED queue

Send ==
    /\ sent'.frame \in Frames /\ sent'.turn = 1 - sent.turn
    /\ Put(sent'.frame) \/ Lose

Receive ==
    /\ frame = NoFrame /\ queue # << >>
    /\ frame' = Head(queue)
    /\ queue' = Tail(queue)
    /\ UNCHANGED sent

\* Processing a frame may send one: the answer.
Done ==
    /\ frame # NoFrame /\ frame' = NoFrame
    /\ Send \/ UNCHANGED << sent, queue >>

LinkNext == (Send /\ UNCHANGED frame) \/ Receive \/ Done

LinkSpec == LinkInit /\ [][LinkNext]_<< sent, queue, frame >>
=============================================================================
