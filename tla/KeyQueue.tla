----------------------------- MODULE KeyQueue -----------------------------
(***************************************************************************)
(* What the keyboard driver promises the shell: the characters typed, in   *)
(* the order they were typed, none twice; a character is lost only when    *)
(* the queue is full.                                                      *)
(***************************************************************************)
EXTENDS Naturals, Sequences

CONSTANTS Chars, Capacity, NoChar

VARIABLES
  typed,               \* the last character typed, and a bit that turns with each one
  queue,               \* typed and not yet read
  got                  \* what the last read returned

QueueInit ==
  /\ typed = [char |-> NoChar, turn |-> 0]
  /\ queue = <<>> /\ got = NoChar

Type == typed'.char \in Chars /\ typed'.turn = 1 - typed.turn

Put ==
  /\ Len(queue) < Capacity
  /\ Type
  /\ queue' = Append(queue, typed'.char)
  /\ UNCHANGED got

Lose ==
  /\ Len(queue) = Capacity
  /\ Type
  /\ UNCHANGED <<queue, got>>

Get ==
  /\ queue # <<>>
  /\ got' = Head(queue)
  /\ queue' = Tail(queue)
  /\ UNCHANGED typed

QueueNext == Put \/ Lose \/ Get

QueueSpec == QueueInit /\ [][QueueNext]_<<typed, queue, got>>
=============================================================================
