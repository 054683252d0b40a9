---------------------------- MODULE LineEditor -----------------------------
(***************************************************************************)
(* What the shell's command line promises the user: the keys edit a line   *)
(* of text, Enter runs exactly that line, and the last Size lines that     *)
(* were not empty can be called back, newest first.                        *)
(***************************************************************************)
EXTENDS Naturals, Sequences

CONSTANTS Chars, Size, Limit

VARIABLES
    line,       \* the text being edited
    past,       \* the lines remembered, oldest first
    at,         \* how many of them are older than the one called back
    ran         \* the line Enter ran last

LineInit == line = << >> /\ past = << >> /\ at = 0 /\ ran = << >>

Type ==
    /\ Len(line) < Limit
    /\ \E c \in Chars : line' = Append(line, c)
    /\ UNCHANGED << past, at, ran >>

Erase ==
    /\ line # << >>
    /\ line' = SubSeq(line, 1, Len(line) - 1)
    /\ UNCHANGED << past, at, ran >>

Clear == line' = << >> /\ UNCHANGED << past, at, ran >>

Older ==
    /\ at > 0
    /\ at' = at - 1 /\ line' = past[at]
    /\ UNCHANGED << past, ran >>

Newer ==
    /\ at < Len(past)
    /\ at' = at + 1
    /\ line' = IF at + 1 < Len(past) THEN past[at + 2] ELSE << >>
    /\ UNCHANGED << past, ran >>

Remembered ==
    IF line = << >> THEN past
    ELSE IF Len(past) < Size THEN Append(past, line)
    ELSE Append(Tail(past), line)

Run ==
    /\ ran' = line /\ line' = << >>
    /\ past' = Remembered /\ at' = Len(Remembered)

LineNext == Type \/ Erase \/ Clear \/ Older \/ Newer \/ Run

LineSpec == LineInit /\ [][LineNext]_<< line, past, at, ran >>
=============================================================================
