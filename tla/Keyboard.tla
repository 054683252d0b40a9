----------------------------- MODULE Keyboard -----------------------------
(***************************************************************************)
(* The PS/2 keyboard driver, drivers/keyboard.c: the interrupt handler     *)
(* translates scancodes under the modifier keys and puts characters in a   *)
(* ring buffer; the shell thread takes them out, one memory access at a    *)
(* time, and can be interrupted between any two of them.                   *)
(*                                                                         *)
(* A character is the key that produced it and whether it comes from the   *)
(* shifted table; the keys that have the same character in both tables are *)
(* recorded as unshifted.                                                  *)
(***************************************************************************)
EXTENDS Integers, Sequences

CONSTANTS
  KEY_BUFFER_SIZE,
  Scancodes,           \* the bytes the keyboard sends
  NoChar

ASSUME SizeAssumption == KEY_BUFFER_SIZE \in Nat \ {0, 1}

ASSUME ScancodesAssumption == Scancodes \subseteq 0 .. 255

N == KEY_BUFFER_SIZE

Slots == 0 .. N - 1

\* Scancode set 1, and the keys missing from or equal in the two tables.
EXTENDED_PREFIX == 224

KEY_LCTRL == 29

KEY_LSHIFT == 42

KEY_RSHIFT == 54

KEY_LALT == 56

KEY_CAPSLOCK == 58

TableSize == 58

Arrows == {72, 80, 75, 77}

NoAscii == {0, KEY_LCTRL, KEY_LSHIFT, KEY_RSHIFT, KEY_LALT}

SameInBothTables == {1, 14, 15, 28, 55, 57}

\* q..p, a..l and z..m.
Letters == (16 .. 25) \cup (30 .. 38) \cup (44 .. 50)

Chars == [key : 0 .. 127, shifted : BOOLEAN]

Modifiers == {"SHIFT", "CTRL", "ALT", "CAPS"}

ASSUME NoCharAssumption == NoChar \notin Chars

VARIABLES
  key_buffer, buffer_head, buffer_tail,
  modifier_state,
  extended_key,
  pc, c,               \* the reader, and its local variable in buffer_get
  got,                 \* what keyboard_get_char returned last
  typed                \* history: the last character given to buffer_put, see KeyQueue

vars == <<key_buffer, buffer_head, buffer_tail, modifier_state, extended_key, pc, c, got, typed>>

Init ==
  /\ key_buffer = [s \in Slots |-> NoChar]
  /\ buffer_head = 0 /\ buffer_tail = 0
  /\ modifier_state = {} /\ extended_key = FALSE
  /\ pc = "poll" /\ c = NoChar /\ got = NoChar
  /\ typed = [char |-> NoChar, turn |-> 0]

-----------------------------------------------------------------------------
(* keyboard_irq_handler *)

Typed(ch) == typed' = [char |-> ch, turn |-> 1 - typed.turn]

\* Fault: the test for a full buffer leaves two slots unused.
buffer_put_early(ch) ==
  /\ Typed(ch)
  /\ IF {(buffer_head + 1) % N, (buffer_head + 2) % N} \cap {buffer_tail} = {}
     THEN /\ key_buffer' = [key_buffer EXCEPT ![buffer_head] = ch]
          /\ buffer_head' = (buffer_head + 1) % N
     ELSE UNCHANGED <<key_buffer, buffer_head>>

buffer_put(ch) ==
  /\ Typed(ch)
  /\ LET next == (buffer_head + 1) % N
     IN IF next # buffer_tail
        THEN /\ key_buffer' = [key_buffer EXCEPT ![buffer_head] = ch]
             /\ buffer_head' = next
        ELSE UNCHANGED <<key_buffer, buffer_head>>

NothingTyped == UNCHANGED <<key_buffer, buffer_head, typed>>

\* Which of the two tables a key is looked up in.
Shift(key) ==
  LET shift == "SHIFT" \in modifier_state
      caps  == "CAPS" \in modifier_state
  IN IF caps /\ key \in 16 .. 50 THEN ~shift ELSE shift

HasAscii(key) == key < TableSize /\ key \notin NoAscii

Ascii(key) == [key |-> key, shifted |-> Shift(key) /\ key \notin SameInBothTables]

Set(mod, released) ==
  modifier_state' = IF released THEN modifier_state \ {mod} ELSE modifier_state \cup {mod}

ModifierKeys == {KEY_LSHIFT, KEY_RSHIFT, KEY_LCTRL, KEY_LALT, KEY_CAPSLOCK}

modifier_key(key, released) ==
  \/ key \in {KEY_LSHIFT, KEY_RSHIFT} /\ Set("SHIFT", released)
  \/ key = KEY_LCTRL /\ Set("CTRL", released)
  \/ key = KEY_LALT /\ Set("ALT", released)
  \/ key = KEY_CAPSLOCK /\ ~released /\ Set("CAPS", "CAPS" \in modifier_state)
  \/ key = KEY_CAPSLOCK /\ released /\ UNCHANGED modifier_state

extended_code(key, released) ==
  /\ extended_key' = FALSE
  /\ IF ~released /\ key \in Arrows
     THEN buffer_put([key |-> key, shifted |-> FALSE])
     ELSE NothingTyped
  /\ UNCHANGED modifier_state

plain_code(key, released) ==
  /\ IF key \in ModifierKeys
     THEN modifier_key(key, released) /\ NothingTyped
     ELSE /\ UNCHANGED modifier_state
          /\ IF ~released /\ HasAscii(key)
             THEN buffer_put(Ascii(key))
             ELSE NothingTyped
  /\ UNCHANGED extended_key

keyboard_irq_handler(scancode) ==
  LET released == scancode >= 128
      key      == scancode % 128
  IN /\ CASE scancode = EXTENDED_PREFIX ->
               extended_key' = TRUE /\ NothingTyped /\ UNCHANGED modifier_state
          [] scancode # EXTENDED_PREFIX /\ extended_key  -> extended_code(key, released)
          [] scancode # EXTENDED_PREFIX /\ ~extended_key -> plain_code(key, released)
     /\ UNCHANGED <<buffer_tail, pc, c, got>>

-----------------------------------------------------------------------------
(* keyboard_get_char, called by the shell's main loop *)

\* Fault: the test forgets that the head wraps around.
keyboard_has_key_no_wrap == buffer_head > buffer_tail

keyboard_has_key == buffer_head # buffer_tail

poll ==
  /\ pc = "poll" /\ keyboard_has_key
  /\ pc' = "read"
  /\ UNCHANGED <<key_buffer, buffer_head, buffer_tail, modifier_state, extended_key, c, got, typed>>

read ==
  /\ pc = "read"
  /\ c' = key_buffer[buffer_tail]
  /\ pc' = "advance"
  /\ UNCHANGED <<key_buffer, buffer_head, buffer_tail, modifier_state, extended_key, got, typed>>

advance ==
  /\ pc = "advance"
  /\ buffer_tail' = (buffer_tail + 1) % N
  /\ got' = c
  /\ pc' = "poll"
  /\ UNCHANGED <<key_buffer, buffer_head, modifier_state, extended_key, c, typed>>

Reader == poll \/ read \/ advance

Next == (\E s \in Scancodes : keyboard_irq_handler(s)) \/ Reader

Spec == Init /\ [][Next]_vars

-----------------------------------------------------------------------------
\* The ring buffer, its two indices and the modifier flags have their types.
TypeOK ==
  /\ key_buffer \in [Slots -> Chars \cup {NoChar}]
  /\ buffer_head \in Slots /\ buffer_tail \in Slots
  /\ modifier_state \subseteq Modifiers
  /\ extended_key \in BOOLEAN
  /\ pc \in {"poll", "read", "advance"}
  /\ c \in Chars \cup {NoChar} /\ got \in Chars \cup {NoChar}
  /\ typed \in [char : Chars \cup {NoChar}, turn : {0, 1}]

\* The number of characters from tail to head, and the characters.
Distance(h, t) == (h - t) % N

Ring(buf, h, t) == [k \in 1 .. Distance(h, t) |-> buf[(t + k - 1) % N]]

Contents == Ring(key_buffer, buffer_head, buffer_tail)

Queue == INSTANCE KeyQueue WITH queue <- Contents, got <- got,
                                Capacity <- KEY_BUFFER_SIZE - 1

\* With interrupts between any two accesses of the reader, the ring buffer is a
\* FIFO queue of KEY_BUFFER_SIZE - 1 characters, and buffer_put drops a character
\* only when that many wait.
ImplementsKeyQueue == Queue!QueueSpec

\* The slot the reader has read but not yet released is not reused: what it will
\* return is still in the buffer.
ReadIsStable ==
  /\ pc # "poll" => buffer_head # buffer_tail
  /\ pc = "advance" => c = key_buffer[buffer_tail]

Occupied(s) == Distance(s, buffer_tail) < Distance(buffer_head, buffer_tail)

\* The thread that polls goes on doing so.  Nothing in the driver makes it: whether
\* the shell gets the processor is up to the scheduler, which does not preempt.
ReaderPolls ==
  \/ []<>(pc = "poll" /\ ~keyboard_has_key)
  \/ []<><<Reader>>_vars

\* If the reader goes on polling, every character in the buffer is read in the
\* end, however fast keys arrive and wherever the indices wrap.
BufferDrains == ReaderPolls => \A s \in Slots : Occupied(s) ~> ~Occupied(s)

\* keyboard.c: "Caps lock only affects letters".
CapsOnlyLetters ==
  [][\A s \in Slots : key_buffer'[s] # key_buffer[s]
       => LET ch == key_buffer'[s]
          IN ch.key \notin Letters \cup Arrows /\ ch.shifted => "SHIFT" \in modifier_state]_vars
=============================================================================
