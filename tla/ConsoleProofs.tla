---------------------------- MODULE ConsoleProofs ----------------------------
(***************************************************************************)
(* Theorems about the console.                                             *)
(*                                                                         *)
(* Keyboard, for every buffer size and every sequence of scancodes: the    *)
(* ring buffer shared by the interrupt handler and the shell is a bounded  *)
(* FIFO queue, although neither takes a lock.                              *)
(*                                                                         *)
(* Shell, for lines, histories and screens of every size: the arrays that  *)
(* the keys edit are a line editor, and the screen shows its line.         *)
(***************************************************************************)
EXTENDS Keyboard, Shell, SequenceTheorems, WellFoundedInduction, TLAPS

-----------------------------------------------------------------------------
(* Arithmetic modulo the buffer size. *)

\* Indices wrap around at most once.
LEMMA Wrap ==
  /\ \A x \in 0 .. N - 1 : x % N = x
  /\ \A x \in N .. 2 * N - 1 : x % N = x - N
  /\ \A x \in -N .. -1 : x % N = x + N
<1> USE SizeAssumption DEF N
<1>1. ASSUME NEW x \in 0 .. N - 1 PROVE x % N = x
  OBVIOUS
<1>2. ASSUME NEW x \in N .. 2 * N - 1 PROVE x % N = x - N
  OBVIOUS
<1>3. ASSUME NEW x \in -N .. -1 PROVE x % N = x + N
  OBVIOUS
<1>4. QED
  BY <1>1, <1>2, <1>3

\* The next index, and the distance between two indices, without the modulus.
LEMMA NextIndex ==
  ASSUME NEW h \in Slots
  PROVE  /\ (h + 1) % N = IF h = N - 1 THEN 0 ELSE h + 1
         /\ (h + 1) % N \in Slots
<1>0. N \in Nat /\ N > 1
  BY SizeAssumption DEF N
<1>1. CASE h = N - 1
  <2>1. h + 1 \in N .. 2 * N - 1 /\ h + 1 - N = 0
    BY <1>0, <1>1 DEF Slots
  <2> DEFINE x == h + 1
  <2> HIDE DEF x
  <2>a. x \in N .. 2 * N - 1
    BY <2>1 DEF x
  <2>b. x % N = x - N
    BY <2>a, Wrap
  <2>2. (h + 1) % N = h + 1 - N
    BY <1>0, <2>b DEF x, Slots
  <2>3. (h + 1) % N = 0
    BY <2>1, <2>2
  <2>4. 0 \in Slots
    BY <1>0 DEF Slots
  <2>5. QED
    BY <1>1, <2>3, <2>4
<1>2. CASE h # N - 1
  <2>1. h + 1 \in 0 .. N - 1
    BY <1>0, <1>2 DEF Slots
  <2>2. (h + 1) % N = h + 1
    BY <2>1, Wrap
  <2>3. QED
    BY <1>0, <1>2, <2>1, <2>2 DEF Slots
<1>3. QED
  BY <1>1, <1>2

\* The number of buffered characters without the modulo.
LEMMA DistanceCases ==
  ASSUME NEW h \in Slots, NEW t \in Slots
  PROVE  /\ Distance(h, t) = IF h >= t THEN h - t ELSE h - t + N
         /\ Distance(h, t) \in 0 .. N - 1
<1>0. N \in Nat /\ N > 1 /\ h \in Int /\ t \in Int
  BY SizeAssumption DEF N, Slots
<1>1. CASE h >= t
  <2>1. h - t \in 0 .. N - 1
    BY <1>0, <1>1 DEF Slots
  <2>2. QED
    BY <1>0, <1>1, <2>1, Wrap DEF Distance
<1>2. CASE h < t
  <2>1. h - t \in -N .. -1
    BY <1>0, <1>2 DEF Slots
  <2>2. (h - t) % N = h - t + N
    BY <2>1, Wrap
  <2>3. QED
    BY <1>0, <1>2, <2>1, <2>2 DEF Distance, Slots
<1>3. QED
  BY <1>0, <1>1, <1>2

\* The slot of the k-th buffered character without the modulo.
LEMMA SlotIndex ==
  ASSUME NEW t \in Slots, NEW k \in 1 .. N
  PROVE  /\ (t + k - 1) % N = IF t + k - 1 < N THEN t + k - 1 ELSE t + k - 1 - N
         /\ (t + k - 1) % N \in Slots
<1>0. N \in Nat /\ N > 1
  BY SizeAssumption DEF N
<1>1. CASE t + k - 1 < N
  <2>1. t + k - 1 \in 0 .. N - 1
    BY <1>0, <1>1 DEF Slots
  <2>2. (t + k - 1) % N = t + k - 1
    BY <2>1, Wrap
  <2>3. QED
    BY <1>1, <2>1, <2>2 DEF Slots
<1>2. CASE ~(t + k - 1 < N)
  <2>1. t + k - 1 \in N .. 2 * N - 1
    BY <1>0, <1>2 DEF Slots
  <2> DEFINE x == t + k - 1
  <2> HIDE DEF x
  <2>a. x \in N .. 2 * N - 1
    BY <2>1 DEF x
  <2>b. x % N = x - N
    BY <2>a, Wrap
  <2>2. (t + k - 1) % N = t + k - 1 - N
    BY <1>0, <2>b DEF x, Slots
  <2>3. t + k - 1 - N \in Slots
    BY <1>0, <2>1 DEF Slots
  <2>4. QED
    BY <1>2, <2>2, <2>3
<1>3. QED
  BY <1>1, <1>2

-----------------------------------------------------------------------------
(* The ring as a sequence. *)

\* A slot written at the head of a ring that is not full becomes the last element.
LEMMA RingPut ==
  ASSUME NEW buf, buf \in [Slots -> Chars \cup {NoChar}], NEW h \in Slots, NEW t \in Slots,
         NEW ch, (h + 1) % N # t
  PROVE  /\ Ring([buf EXCEPT ![h] = ch], (h + 1) % N, t) = Append(Ring(buf, h, t), ch)
         /\ Len(Ring(buf, h, t)) < N - 1
<1>0. N \in Nat /\ N > 1 /\ h \in Int /\ t \in Int
  BY SizeAssumption DEF N, Slots
<1> DEFINE d == Distance(h, t)
<1>1. d \in 0 .. N - 1 /\ d = IF h >= t THEN h - t ELSE h - t + N
  BY DistanceCases
<1> HIDE DEF d
<1>2. d + 1 <= N - 1 /\ Distance((h + 1) % N, t) = d + 1
  <2> DEFINE h1 == (h + 1) % N
  <2>1. h1 \in Slots /\ h1 = IF h = N - 1 THEN 0 ELSE h + 1
    BY NextIndex
  <2>2. h1 # t
    OBVIOUS
  <2> HIDE DEF h1
  <2>3. Distance(h1, t) = IF h1 >= t THEN h1 - t ELSE h1 - t + N
    BY <2>1, DistanceCases
  <2>4. d + 1 <= N - 1 /\ Distance(h1, t) = d + 1
    BY <1>0, <1>1, <2>1, <2>2, <2>3 DEF Slots
  <2>5. QED
    BY <2>4 DEF h1
<1>3. ASSUME NEW k \in 1 .. d + 1
      PROVE  [buf EXCEPT ![h] = ch][(t + k - 1) % N]
               = IF k = d + 1 THEN ch ELSE buf[(t + k - 1) % N]
  <2>0. k \in 1 .. N
    BY <1>0, <1>1, <1>2
  <2>1. /\ (t + k - 1) % N \in Slots
        /\ (t + k - 1) % N = IF t + k - 1 < N THEN t + k - 1 ELSE t + k - 1 - N
    BY <2>0, SlotIndex
  <2> DEFINE j == (t + k - 1) % N
  <2> HIDE DEF j
  <2>2. j \in Slots /\ j = IF t + k - 1 < N THEN t + k - 1 ELSE t + k - 1 - N
    BY <2>1 DEF j
  <2>3. j = h <=> k = d + 1
    BY <1>0, <1>1, <1>2, <2>2 DEF Slots
  <2>4. [buf EXCEPT ![h] = ch][j] = IF k = d + 1 THEN ch ELSE buf[j]
    BY <2>2, <2>3
  <2>5. QED
    BY <2>4 DEF j
<1>4. Ring(buf, h, t) = [k \in 1 .. d |-> buf[(t + k - 1) % N]]
  BY DEF Ring, d
<1>5. Len(Ring(buf, h, t)) = d
  BY <1>1, <1>4
<1>6. Append(Ring(buf, h, t), ch) =
        [k \in 1 .. d + 1 |-> IF k = d + 1 THEN ch ELSE buf[(t + k - 1) % N]]
  <2> DEFINE g(k) == buf[(t + k - 1) % N]
  <2>1. Ring(buf, h, t) = [k \in 1 .. d |-> g(k)]
    BY <1>4
  <2> HIDE DEF g
  <2>2. Append(Ring(buf, h, t), ch) = [k \in 1 .. d + 1 |-> IF k = d + 1 THEN ch ELSE g(k)]
    BY <1>1, <1>5, <2>1
  <2>3. QED
    BY <2>2 DEF g
<1>7. Ring([buf EXCEPT ![h] = ch], (h + 1) % N, t) =
        [k \in 1 .. d + 1 |-> [buf EXCEPT ![h] = ch][(t + k - 1) % N]]
  BY <1>2 DEF Ring
<1>8. [k \in 1 .. d + 1 |-> [buf EXCEPT ![h] = ch][(t + k - 1) % N]]
        = [k \in 1 .. d + 1 |-> IF k = d + 1 THEN ch ELSE buf[(t + k - 1) % N]]
  BY <1>3, Zenon
<1>9. Len(Ring(buf, h, t)) < N - 1
  BY <1>0, <1>1, <1>2, <1>5
<1>10. QED
  BY <1>6, <1>7, <1>8, <1>9

\* The ring in which the next index of the head is the tail holds N - 1 characters.
LEMMA RingFull ==
  ASSUME NEW buf, NEW h \in Slots, NEW t \in Slots, (h + 1) % N = t
  PROVE  Len(Ring(buf, h, t)) = N - 1
<1>0. N \in Nat /\ N > 1 /\ h \in Int /\ t \in Int
  BY SizeAssumption DEF N, Slots
<1> DEFINE d == Distance(h, t)
<1>1. d \in 0 .. N - 1 /\ d = IF h >= t THEN h - t ELSE h - t + N
  BY DistanceCases
<1> HIDE DEF d
<1>2. t = IF h = N - 1 THEN 0 ELSE h + 1
  BY NextIndex
<1>3. d = N - 1
  BY <1>0, <1>1, <1>2
<1>4. Ring(buf, h, t) = [k \in 1 .. d |-> buf[(t + k - 1) % N]]
  BY DEF Ring, d
<1>5. QED
  BY <1>1, <1>3, <1>4

\* Advancing the tail of a ring that is not empty removes the first element.
LEMMA RingGet ==
  ASSUME NEW buf, NEW h \in Slots, NEW t \in Slots, h # t
  PROVE  /\ Ring(buf, h, t) # <<>>
         /\ Head(Ring(buf, h, t)) = buf[t]
         /\ Ring(buf, h, (t + 1) % N) = Tail(Ring(buf, h, t))
<1>0. N \in Nat /\ N > 1 /\ h \in Int /\ t \in Int
  BY SizeAssumption DEF N, Slots
<1> DEFINE d == Distance(h, t)
<1>1. d \in 1 .. N - 1 /\ d = IF h >= t THEN h - t ELSE h - t + N
  <2>1. d \in 0 .. N - 1 /\ d = IF h >= t THEN h - t ELSE h - t + N
    BY DistanceCases
  <2> HIDE DEF d
  <2>2. QED
    BY <1>0, <2>1 DEF Slots
<1> HIDE DEF d
<1>2. Distance(h, (t + 1) % N) = d - 1
  <2> DEFINE t1 == (t + 1) % N
  <2>1. t1 \in Slots /\ t1 = IF t = N - 1 THEN 0 ELSE t + 1
    BY NextIndex
  <2> HIDE DEF t1
  <2>2. Distance(h, t1) = IF h >= t1 THEN h - t1 ELSE h - t1 + N
    BY <2>1, DistanceCases
  <2>3. Distance(h, t1) = d - 1
    BY <1>0, <1>1, <2>1, <2>2 DEF Slots
  <2>4. QED
    BY <2>3 DEF t1
<1>3. Ring(buf, h, t) = [k \in 1 .. d |-> buf[(t + k - 1) % N]]
  BY DEF Ring, d
<1>4. Len(Ring(buf, h, t)) = d
  BY <1>1, <1>3
<1>5. Head(Ring(buf, h, t)) = buf[t]
  <2>1. (t + 1 - 1) % N = t
    BY <1>0, SlotIndex DEF Slots
  <2>2. QED
    BY <1>1, <1>3, <1>4, <2>1
<1>6. ASSUME NEW k \in 1 .. d - 1
      PROVE  (((t + 1) % N) + k - 1) % N = (t + (k + 1) - 1) % N
  <2>1. k \in 1 .. N /\ k + 1 \in 1 .. N
    BY <1>0, <1>1
  <2> DEFINE t1 == (t + 1) % N
  <2>2. t1 \in Slots /\ t1 = IF t = N - 1 THEN 0 ELSE t + 1
    BY NextIndex
  <2> HIDE DEF t1
  <2>3. (t1 + k - 1) % N = IF t1 + k - 1 < N THEN t1 + k - 1 ELSE t1 + k - 1 - N
    BY <2>1, <2>2, SlotIndex
  <2>4. (t + (k + 1) - 1) % N
          = IF t + (k + 1) - 1 < N THEN t + (k + 1) - 1 ELSE t + (k + 1) - 1 - N
    BY <2>1, SlotIndex
  <2>5. (t1 + k - 1) % N = (t + (k + 1) - 1) % N
    BY <1>0, <1>1, <2>2, <2>3, <2>4 DEF Slots
  <2>6. QED
    BY <2>5 DEF t1
<1>7. Tail(Ring(buf, h, t)) = [k \in 1 .. d - 1 |-> buf[(t + (k + 1) - 1) % N]]
  BY <1>1, <1>3, <1>4
<1>8. Ring(buf, h, (t + 1) % N) = [k \in 1 .. d - 1 |-> buf[(((t + 1) % N) + k - 1) % N]]
  BY <1>2 DEF Ring
<1>9. Ring(buf, h, t) # <<>>
  BY <1>1, <1>4
<1>10. QED
  BY <1>5, <1>6, <1>7, <1>8, <1>9

-----------------------------------------------------------------------------
(* The invariant. *)

Inv == TypeOK /\ ReadIsStable

\* What buffer_put does to the ring, for a character that may be buffered.
LEMMA PutStep ==
  ASSUME Inv, NEW ch \in Chars, buffer_put(ch),
         UNCHANGED <<buffer_tail, pc, c, got>>
  PROVE  /\ key_buffer' \in [Slots -> Chars \cup {NoChar}]
         /\ buffer_head' \in Slots
         /\ typed' \in [char : Chars \cup {NoChar}, turn : {0, 1}]
         /\ ReadIsStable'
         /\ Queue!Put \/ Queue!Lose
<1>a. /\ Queue!Type /\ typed'.char = ch
      /\ typed' \in [char : Chars \cup {NoChar}, turn : {0, 1}]
  BY DEF Inv, TypeOK, buffer_put, Typed, Queue!Type
<1>0. key_buffer \in [Slots -> Chars \cup {NoChar}] /\ buffer_head \in Slots /\ buffer_tail \in Slots
  BY DEF Inv, TypeOK
<1>1. CASE (buffer_head + 1) % N = buffer_tail
  <2>1. UNCHANGED <<key_buffer, buffer_head>>
    BY <1>1 DEF buffer_put
  <2>2. ReadIsStable'
    BY <2>1 DEF Inv, ReadIsStable
  <2>3. UNCHANGED <<Contents, got>>
    BY <2>1 DEF Contents
  <2>4. Len(Contents) = N - 1
    BY <1>0, <1>1, RingFull DEF Contents
  <2>5. Queue!Lose
    BY <1>a, <2>3, <2>4 DEF Queue!Lose, N
  <2>6. QED
    BY <1>0, <1>a, <2>1, <2>2, <2>5
<1>2. CASE (buffer_head + 1) % N # buffer_tail
  <2>1. key_buffer' = [key_buffer EXCEPT ![buffer_head] = ch] /\ buffer_head' = (buffer_head + 1) % N
    BY <1>2 DEF buffer_put
  <2>2. buffer_head' \in Slots
    BY <1>0, <2>1, NextIndex
  <2>3. key_buffer' \in [Slots -> Chars \cup {NoChar}]
    BY <1>0, <2>1
  <2>4. ReadIsStable'
    <3>1. buffer_head' # buffer_tail'
      BY <1>2, <2>1
    <3>2. pc # "poll" => buffer_head # buffer_tail
      BY DEF Inv, ReadIsStable
    <3>3. pc' = "advance" => c' = key_buffer'[buffer_tail']
      BY <1>0, <2>1, <3>2 DEF Inv, ReadIsStable
    <3>4. QED
      BY <3>1, <3>3 DEF ReadIsStable
  <2>5. Contents' = Append(Contents, ch) /\ Len(Contents) < N - 1
    <3>1. Contents' = Ring([key_buffer EXCEPT ![buffer_head] = ch], (buffer_head + 1) % N, buffer_tail)
      BY <2>1 DEF Contents
    <3>2. QED
      BY <1>0, <1>2, <3>1, RingPut DEF Contents
  <2>6. Queue!Put
    BY <1>a, <2>5 DEF Queue!Put, N
  <2>7. QED
    BY <1>a, <2>2, <2>3, <2>4, <2>6
<1>3. QED
  BY <1>1, <1>2

\* The interrupt handler stores at most one character, and it is a character.
LEMMA IrqStep ==
  ASSUME Inv, NEW s \in Scancodes, keyboard_irq_handler(s)
  PROVE  Inv' /\ [Queue!Put \/ Queue!Lose]_<<typed, Contents, got>>
<1> DEFINE released == s >= 128
           key == s % 128
<1>1. s \in 0 .. 255 /\ key \in 0 .. 127
  BY ScancodesAssumption
<1> HIDE DEF key, released
<1>2. UNCHANGED <<buffer_tail, pc, c, got>>
  BY DEF keyboard_irq_handler
<1>3. /\ modifier_state' \subseteq Modifiers /\ extended_key' \in BOOLEAN
      /\ \/ UNCHANGED <<key_buffer, buffer_head, typed>>
         \/ \E ch \in Chars : buffer_put(ch)
  <2>0. modifier_state \subseteq Modifiers /\ extended_key \in BOOLEAN
    BY DEF Inv, TypeOK
  <2>1. CASE s = EXTENDED_PREFIX
    BY <2>0, <2>1 DEF keyboard_irq_handler, NothingTyped
  <2>2. CASE s # EXTENDED_PREFIX /\ extended_key
    <3>1. extended_code(key, released)
      BY <2>2 DEF keyboard_irq_handler, key, released
    <3>2. [key |-> key, shifted |-> FALSE] \in Chars
      BY <1>1 DEF Chars
    <3>3. QED
      BY <2>0, <3>1, <3>2 DEF extended_code, NothingTyped
  <2>3. CASE s # EXTENDED_PREFIX /\ ~extended_key
    <3>1. plain_code(key, released)
      BY <2>3 DEF keyboard_irq_handler, key, released
    <3>2. Ascii(key) \in Chars
      BY <1>1 DEF Chars, Ascii
    <3>3. ASSUME modifier_key(key, released) PROVE modifier_state' \subseteq Modifiers
      BY <2>0, <3>3 DEF modifier_key, Set, Modifiers
    <3>4. QED
      BY <2>0, <3>1, <3>2, <3>3 DEF plain_code, NothingTyped
  <2>4. QED
    BY <2>0, <2>1, <2>2, <2>3
<1>4. CASE UNCHANGED <<key_buffer, buffer_head, typed>>
  <2>1. Inv'
    BY <1>2, <1>3, <1>4 DEF Inv, TypeOK, ReadIsStable
  <2>2. UNCHANGED <<typed, Contents, got>>
    BY <1>2, <1>4 DEF Contents
  <2>3. QED
    BY <2>1, <2>2
<1>5. ASSUME NEW ch \in Chars, buffer_put(ch)
      PROVE  Inv' /\ (Queue!Put \/ Queue!Lose)
  <2>1. /\ key_buffer' \in [Slots -> Chars \cup {NoChar}]
        /\ buffer_head' \in Slots
        /\ typed' \in [char : Chars \cup {NoChar}, turn : {0, 1}]
        /\ ReadIsStable'
        /\ Queue!Put \/ Queue!Lose
    BY <1>2, <1>5, PutStep
  <2>2. TypeOK'
    BY <1>2, <1>3, <2>1 DEF Inv, TypeOK
  <2>3. QED
    BY <2>1, <2>2 DEF Inv
<1>6. QED
  BY <1>3, <1>4, <1>5

\* The reader takes the first character out, in its last step.
LEMMA ReaderStep ==
  ASSUME Inv, Reader
  PROVE  Inv' /\ (Queue!Get \/ UNCHANGED <<typed, Contents, got>>)
<1>1. CASE poll
  BY <1>1 DEF Inv, TypeOK, ReadIsStable, keyboard_has_key, poll, Contents
<1>2. CASE read
  <2>1. key_buffer[buffer_tail] \in Chars \cup {NoChar}
    BY DEF Inv, TypeOK
  <2>2. QED
    BY <1>2, <2>1 DEF Inv, TypeOK, ReadIsStable, read, Contents
<1>3. CASE advance
  <2>0. buffer_head \in Slots /\ buffer_tail \in Slots /\ buffer_head # buffer_tail
        /\ c = key_buffer[buffer_tail]
    BY <1>3 DEF Inv, TypeOK, ReadIsStable, advance
  <2>1. (buffer_tail + 1) % N \in Slots
    BY <2>0, NextIndex
  <2>2. Inv'
    BY <1>3, <2>1 DEF Inv, TypeOK, ReadIsStable, advance
  <2>3. /\ Contents # <<>> /\ Head(Contents) = key_buffer[buffer_tail]
        /\ Ring(key_buffer, buffer_head, (buffer_tail + 1) % N) = Tail(Contents)
    BY <2>0, RingGet DEF Contents
  <2>4. Contents' = Tail(Contents)
    BY <1>3, <2>3 DEF advance, Contents
  <2>5. Queue!Get
    BY <1>3, <2>0, <2>3, <2>4 DEF Queue!Get, advance
  <2>6. QED
    BY <2>2, <2>5
<1>4. QED
  BY <1>1, <1>2, <1>3 DEF Reader

\* keyboard_init establishes the inductive invariant.
LEMMA InvInit == Init => Inv
<1> SUFFICES ASSUME Init PROVE Inv
  OBVIOUS
<1>1. 0 \in Slots
  BY SizeAssumption DEF Slots, N
<1>2. [s \in Slots |-> NoChar] \in [Slots -> Chars \cup {NoChar}]
  OBVIOUS
<1>3. QED
  BY <1>1, <1>2 DEF Init, Inv, TypeOK, ReadIsStable

\* Every step of the interrupt handler and of the reader preserves it.
LEMMA InvStep == Inv /\ [Next]_vars => Inv'
<1> SUFFICES ASSUME Inv, [Next]_vars PROVE Inv'
  OBVIOUS
<1>1. CASE UNCHANGED vars
  BY <1>1 DEF vars, Inv, TypeOK, ReadIsStable
<1>2. QED
  BY <1>1, IrqStep, ReaderStep DEF Next

\* The invariant holds in every reachable state.
LEMMA Invariance == Spec => []Inv
BY InvInit, InvStep, PTL DEF Spec

-----------------------------------------------------------------------------
(* The theorems. *)

\* However the interrupt falls between the accesses of keyboard_get_char, the
\* character it has read stays in its slot until it is released.
THEOREM ReadIsStableCorrect == Spec => []ReadIsStable
<1>1. Inv => ReadIsStable
  BY DEF Inv
<1>2. QED
  BY <1>1, Invariance, PTL

\* The ring buffer of the keyboard driver implements the FIFO queue, for every
\* size: buffer_put drops a character only when KEY_BUFFER_SIZE - 1 wait.
THEOREM ImplementsKeyQueueCorrect == Spec => ImplementsKeyQueue
<1>1. Init => Queue!QueueInit
  <2> SUFFICES ASSUME Init PROVE Queue!QueueInit
    OBVIOUS
  <2>1. 0 \in Slots /\ N \in Nat
    BY SizeAssumption DEF Slots, N
  <2>2. Distance(0, 0) = 0
    BY <2>1, DistanceCases
  <2>3. Contents = <<>>
    BY <2>2 DEF Init, Contents, Ring
  <2>4. QED
    BY <2>3 DEF Queue!QueueInit, Init
<1>2. Inv /\ [Next]_vars => [Queue!QueueNext]_<<typed, Contents, got>>
  <2> SUFFICES ASSUME Inv, [Next]_vars PROVE [Queue!QueueNext]_<<typed, Contents, got>>
    OBVIOUS
  <2>1. CASE UNCHANGED vars
    BY <2>1 DEF vars, Contents
  <2>2. ASSUME NEW s \in Scancodes, keyboard_irq_handler(s)
        PROVE  [Queue!QueueNext]_<<typed, Contents, got>>
    BY <2>2, IrqStep DEF Queue!QueueNext
  <2>3. QED
    BY <2>1, <2>2, ReaderStep DEF Next, Queue!QueueNext
<1>3. QED
  BY <1>1, <1>2, Invariance, PTL DEF Spec, ImplementsKeyQueue, Queue!QueueSpec

-----------------------------------------------------------------------------
(* The command line: C strings. *)

\* A nonempty set of naturals has a least element.
LEMMA LeastNatural ==
  ASSUME NEW T, T \subseteq Nat, T # {}
  PROVE  \E n \in T : \A k \in T : n <= k
<1>1. PICK n \in T : \A k \in T : <<k, n>> \notin OpToRel(<, Nat)
  BY WFMin, NatLessThanWellFounded
<1>2. \A k \in T : ~(k < n)
  BY <1>1 DEF OpToRel
<1>3. QED
  BY <1>2

\* n is where the text of s ends.
EndsAt(s, n) == n \in Bytes /\ s[n] = NUL /\ \A k \in 0 .. n - 1 : s[k] # NUL

\* s is a string: it has a terminator.
Ended(s) == \E n \in Bytes : s[n] = NUL

\* shell_strlen finds the first terminator.
LEMMA StrLen ==
  ASSUME NEW s, Ended(s)
  PROVE  EndsAt(s, shell_strlen(s))
<1> DEFINE T == {n \in Bytes : s[n] = NUL}
<1>1. T \subseteq Nat /\ T # {}
  BY DEF Ended, Bytes
<1>2. PICK n \in T : \A k \in T : n <= k
  BY <1>1, LeastNatural
<1>3. n \in Bytes /\ s[n] = NUL /\ \A k \in 0 .. n - 1 : s[k] # NUL
  BY <1>2, ShellAssumption DEF Bytes
<1>4. QED
  BY <1>3 DEF shell_strlen, EndsAt

\* A string ends at one place.
LEMMA StrLenIs ==
  ASSUME NEW s, NEW n, EndsAt(s, n)
  PROVE  shell_strlen(s) = n
<1> DEFINE m == shell_strlen(s)
<1>1. EndsAt(s, m)
  BY StrLen DEF EndsAt, Ended
<1> HIDE DEF m
<1>2. m \in Nat /\ n \in Nat
  BY <1>1, ShellAssumption DEF EndsAt, Bytes
<1>3. ~(m < n) /\ ~(n < m)
  BY <1>1, <1>2 DEF EndsAt
<1>4. QED
  BY <1>2, <1>3 DEF m

\* The text of a string depends on the bytes up to its end only.
LEMMA StringIs ==
  ASSUME NEW s, NEW n, EndsAt(s, n)
  PROVE  String(s) = Text(s, n)
BY StrLenIs DEF String

\* shell_strcpy copies the text, whatever the destination held.
LEMMA StrCpy ==
  ASSUME NEW d \in Buffer, NEW s \in Buffer, Ended(s)
  PROVE  /\ shell_strcpy(d, s) \in Buffer
         /\ EndsAt(shell_strcpy(d, s), shell_strlen(s))
         /\ String(shell_strcpy(d, s)) = String(s)
         /\ Ended(shell_strcpy(d, s))
<1> DEFINE n == shell_strlen(s)
           r == shell_strcpy(d, s)
<1>1. EndsAt(s, n)
  BY StrLen
<1>2. r = [k \in Bytes |-> IF k <= n THEN s[k] ELSE d[k]]
  BY DEF shell_strcpy
<1> HIDE DEF n, r
<1>3. r \in Buffer
  BY <1>2 DEF Buffer
<1>4. n \in Bytes /\ n \in Nat /\ Bytes \subseteq Nat
  BY <1>1, ShellAssumption DEF EndsAt, Bytes
<1>5. \A k \in 0 .. n : k \in Bytes /\ r[k] = s[k]
  <2> TAKE k \in 0 .. n
  <2>1. k \in Bytes /\ k <= n
    BY <1>4, ShellAssumption DEF Bytes
  <2>2. QED
    BY <1>2, <2>1
<1>6. EndsAt(r, n)
  BY <1>1, <1>4, <1>5 DEF EndsAt
<1>7. Text(r, n) = Text(s, n)
  BY <1>4, <1>5 DEF Text
<1>8. String(r) = String(s)
  BY <1>1, <1>6, <1>7, StringIs
<1>9. Ended(r)
  BY <1>6 DEF Ended, EndsAt
<1>10. QED
  BY <1>3, <1>6, <1>8, <1>9 DEF n, r

-----------------------------------------------------------------------------
(* The command line: the screen. *)

\* A cell after a character has been drawn on it.
Over(cell, ch) == IF cell = Blank THEN ch ELSE Smudge

\* Drawing n characters one by one draws each in its own column, when all
\* of them are within the framebuffer.
LEMMA DrawnIs ==
  ASSUME NEW r, r = [col \in Columns |-> r[col]], NEW b, NEW n \in Columns, n <= FB_COLUMNS
  PROVE  Drawn(r, b, n) = [col \in Columns |-> IF col < n THEN Over(r[col], b[col]) ELSE r[col]]
<1> DEFINE after[k \in 0 .. n] ==
             IF k = 0 THEN r ELSE draw_char(after[k - 1], k - 1, b[k - 1])
           F(f) == [k \in 0 .. n |-> IF k = 0 THEN r ELSE draw_char(f[k - 1], k - 1, b[k - 1])]
           upto(k) == [col \in Columns |-> IF col < k THEN Over(r[col], b[col]) ELSE r[col]]
           g == [k \in 0 .. n |-> upto(k)]
<1>1. n \in Nat /\ Columns \subseteq Nat /\ 0 .. n \subseteq Columns /\ FB_COLUMNS \in Nat
  BY ShellAssumption DEF Columns
<1>2. upto(0) = r
  BY <1>1
<1>3. ASSUME NEW k \in 1 .. n PROVE draw_char(upto(k - 1), k - 1, b[k - 1]) = upto(k)
  <2> DEFINE j == k - 1
             p == upto(j)
  <2>1. j \in Columns /\ j \in Nat /\ k = j + 1 /\ j < FB_COLUMNS
    BY <1>1
  <2>2. Lands(j) = {j}
    BY <2>1 DEF Lands
  <2>3. p[j] = r[j]
    BY <2>1
  <2>4. draw_char(p, j, b[j]) = [col \in Columns |-> IF col = j THEN Over(p[j], b[j]) ELSE p[col]]
    <3> HIDE DEF p, j
    <3>1. QED
      BY <2>2 DEF draw_char, Over
  <2>5. [col \in Columns |-> IF col = j THEN Over(p[j], b[j]) ELSE p[col]] =
          [col \in Columns |-> IF col = j THEN Over(r[j], b[j]) ELSE p[col]]
    BY <2>3
  <2>6. [col \in Columns |-> IF col = j THEN Over(r[j], b[j]) ELSE p[col]] = upto(k)
    BY <1>1, <2>1
  <2>7. QED
    BY <2>4, <2>5, <2>6
<1> HIDE DEF upto
<1>4. g = F(g)
  <2>1. ASSUME NEW k \in 0 .. n
        PROVE  upto(k) = IF k = 0 THEN r ELSE draw_char(g[k - 1], k - 1, b[k - 1])
    <3>1. CASE k = 0
      BY <1>2, <3>1
    <3>2. CASE k # 0
      <4>1. k \in 1 .. n /\ k - 1 \in 0 .. n
        BY <1>1, <3>2
      <4>2. g[k - 1] = upto(k - 1)
        BY <4>1
      <4>3. QED
        BY <1>3, <3>2, <4>1, <4>2
    <3>3. QED
      BY <3>1, <3>2
  <2>2. QED
    BY <2>1
<1>5. after = F(after)
  <2>1. after = CHOOSE f : f = F(f)
    BY DEF after
  <2>2. QED
    BY <1>4, <2>1
<1> HIDE DEF after, g
<1>6. \A k \in 0 .. n : after[k] = upto(k)
  <2> SUFFICES ASSUME NEW m \in 0 .. n, after[m] # upto(m) PROVE FALSE
    OBVIOUS
  <2> DEFINE T == {k \in 0 .. n : after[k] # upto(k)}
  <2>1. T \subseteq Nat /\ T # {}
    BY <1>1
  <2>2. PICK k \in T : \A j \in T : k <= j
    BY <2>1, LeastNatural
  <2>3. after[k] = IF k = 0 THEN r ELSE draw_char(after[k - 1], k - 1, b[k - 1])
    BY <1>5
  <2>4. k \in 1 .. n
    BY <1>1, <1>2, <2>2, <2>3
  <2>5. k - 1 \in 0 .. n /\ ~(k <= k - 1)
    BY <1>1, <2>4
  <2>6. after[k - 1] = upto(k - 1)
    BY <2>2, <2>5
  <2>7. QED
    BY <1>3, <2>2, <2>3, <2>4, <2>6
<1>7. Drawn(r, b, n) = after[n]
  BY DEF Drawn, after
<1>8. QED
  BY <1>1, <1>6, <1>7 DEF upto

\* The line has no terminator inside it, and the history is made of strings.
LineInv ==
  /\ cmd_buffer \in Buffer /\ cmd_pos \in Bytes
  /\ \A k \in 0 .. cmd_pos - 1 : cmd_buffer[k] # NUL
  /\ history \in [0 .. HISTORY_SIZE - 1 -> Buffer]
  /\ history_count \in 0 .. HISTORY_SIZE /\ history_pos \in 0 .. history_count
  /\ \A h \in 0 .. history_count - 1 : Ended(history[h])

\* A line of which nothing was drawn past the edge ends before it.
ScreenInv == ScreenShowsCommand /\ (fits => cmd_pos <= FB_COLUMNS)

\* What the row shows of a line of n characters.
Shows(r, b, n) ==
  \A col \in 0 .. REDRAW_COLUMNS - 1 : r[col] = IF col < n THEN b[col] ELSE Blank

\* The property in terms of the row.
LEMMA ShowsIs == ScreenShowsCommand <=> column = cmd_pos /\ (clean /\ fits => Shows(cells, cmd_buffer, cmd_pos))
BY DEF ScreenShowsCommand, Shows

\* shell_redraw_cmd shows the first n characters, whatever was on the row, if they
\* end before the edge.
LEMMA Redraw ==
  ASSUME NEW b, NEW n \in Bytes, shell_redraw_cmd(b, n)
  PROVE  column' = n /\ fits' = (n <= FB_COLUMNS) /\ (fits' => Shows(cells', b, n))
<1> SUFFICES ASSUME n <= FB_COLUMNS PROVE Shows(cells', b, n)
  BY DEF shell_redraw_cmd
<1> DEFINE r == Cleared(cells, REDRAW_COLUMNS)
<1>1. r = [col \in Columns |-> IF col < REDRAW_COLUMNS THEN Blank ELSE cells[col]]
  BY DEF Cleared
<1> HIDE DEF r
<1>2. n \in Columns /\ n <= FB_COLUMNS /\ Columns \subseteq Nat
  BY ShellAssumption DEF Bytes, Columns
<1>3. cells' = [col \in Columns |-> IF col < n THEN Over(r[col], b[col]) ELSE r[col]]
  <2>1. r = [col \in Columns |-> r[col]]
    BY <1>1
  <2>2. cells' = Drawn(r, b, n)
    BY DEF shell_redraw_cmd, r
  <2>3. QED
    BY <1>2, <2>1, <2>2, DrawnIs
<1>4. \A col \in 0 .. REDRAW_COLUMNS - 1 : col \in Columns /\ r[col] = Blank
  BY <1>1, ShellAssumption DEF Columns
<1>5. QED
  BY <1>3, <1>4 DEF Shows, Over

\* A prompt on a row that was empty shows an empty line.
LEMMA Prompt ==
  ASSUME NEW text, NEW b, shell_execute(text)
  PROVE  /\ column' = 0 /\ fits' = TRUE /\ executed' = text
         /\ clean' => Shows(cells', b, 0)
<1> USE ShellAssumption
<1>0. \A col \in 0 .. REDRAW_COLUMNS - 1 : col \in Columns /\ col < LINE_COLUMNS /\ ~(col < 0)
  BY DEF Columns
<1>1. CASE prompt_after_nothing
  <2>1. cells' = [col \in Columns |->
                    IF col < LINE_COLUMNS THEN Blank ELSE Found(NextRow(row), drawn)[col]]
    BY <1>1 DEF prompt_after_nothing, Cleared
  <2>2. QED
    BY <1>0, <2>1 DEF Shows, shell_execute
<1>2. CASE \E n \in 1 .. MaxLines : prompt_after_output(n)
  <2>1. PICK n \in 1 .. MaxLines : prompt_after_output(n)
    BY <1>2
  <2> DEFINE rows == {(NextRow(row) + k) % ROWS : k \in 0 .. n - 1}
             last == (NextRow(row) + n) % ROWS
             on == drawn \cup {row} \cup rows
             wide == IF last = 0 THEN LINE_COLUMNS ELSE 0
  <2>2. cells' = [col \in Columns |-> IF col < wide THEN Blank ELSE Found(last, on)[col]]
        /\ clean' = (last = 0 \/ last \notin on)
    BY <2>1 DEF prompt_after_output, Cleared
  <2> HIDE DEF last, on
  <2>3. CASE last = 0
    BY <1>0, <2>2, <2>3 DEF Shows, shell_execute
  <2>4. CASE last \notin on
    <3>1. \A col \in Columns : Found(last, on)[col] = Blank
      BY <2>4 DEF Found
    <3>2. QED
      BY <1>0, <2>2, <3>1 DEF Shows, shell_execute
  <2>5. CASE ~clean'
    BY <2>2, <2>5 DEF shell_execute
  <2>6. QED
    BY <2>2, <2>3, <2>4, <2>5
<1>3. CASE prompt_after_clear
  <2>1. cells' = [col \in Columns |-> IF col < LINE_COLUMNS THEN Blank ELSE Found(0, drawn)[col]]
    BY <1>3 DEF prompt_after_clear, Cleared
  <2>2. QED
    BY <1>0, <2>1 DEF Shows, shell_execute
<1>4. QED
  BY <1>1, <1>2, <1>3 DEF shell_execute

-----------------------------------------------------------------------------
(* The command line: what each key does to the line and to the screen. *)

\* The line as a text, and the remembered ones.
Line == Text(cmd_buffer, cmd_pos)
Past == [h \in 1 .. history_count |-> String(history[h - 1])]

Kept == LineInv' /\ (ScreenInv => ScreenInv')

\* Texts are sequences.
LEMMA TextSeq ==
  ASSUME NEW s \in Buffer, NEW n \in Bytes
  PROVE  /\ Text(s, n) \in Seq(Printable \cup {NUL}) /\ Len(Text(s, n)) = n
         /\ \A k \in 1 .. n : Text(s, n)[k] = s[k - 1]
<1>1. n \in Nat
  BY ShellAssumption DEF Bytes
<1>2. \A k \in 1 .. n : k - 1 \in Bytes /\ s[k - 1] \in Printable \cup {NUL}
  BY <1>1, ShellAssumption DEF Bytes, Buffer
<1>3. QED
  BY <1>1, <1>2 DEF Text

\* A printable character is appended to the line and drawn behind it.
LEMMA PrintableStep ==
  ASSUME LineInv, NEW ch \in Printable, printable(ch)
  PROVE  Kept /\ Editor!Type
<1>1. /\ cmd_pos \in Bytes /\ cmd_pos \in Nat /\ cmd_pos < SHELL_BUFFER_SIZE - 1
      /\ cmd_pos' = cmd_pos + 1 /\ cmd_pos + 1 \in Bytes
      /\ cmd_buffer \in Buffer /\ SHELL_BUFFER_SIZE \in Nat
      /\ cmd_buffer' = [cmd_buffer EXCEPT ![cmd_pos] = ch]
  BY ShellAssumption DEF LineInv, printable, Bytes
<1>2. cmd_buffer' \in Buffer /\ cmd_buffer'[cmd_pos] = ch
      /\ \A k \in Bytes : k # cmd_pos => cmd_buffer'[k] = cmd_buffer[k]
  BY <1>1 DEF Buffer
<1>3. LineInv'
  <2>1. \A k \in 0 .. cmd_pos' - 1 : cmd_buffer'[k] # NUL
    <3> TAKE k \in 0 .. cmd_pos' - 1
    <3>1. k \in Bytes /\ (k = cmd_pos \/ k \in 0 .. cmd_pos - 1)
      BY <1>1 DEF Bytes
    <3>2. QED
      BY <1>1, <1>2, <3>1, NulAssumption DEF LineInv
  <2>2. QED
    BY <1>1, <1>2, <2>1 DEF LineInv, printable, historyVars
<1>4. ASSUME ScreenInv PROVE ScreenInv'
  <2>1. column = cmd_pos /\ fits' = (fits /\ cmd_pos < FB_COLUMNS)
    BY <1>4 DEF ScreenInv, ScreenShowsCommand, printable
  <2>2. fits' => Lands(cmd_pos) = {cmd_pos} /\ cmd_pos \in Columns
    BY <1>1, <2>1 DEF Lands, Columns, Bytes
  <2>3. fits' => /\ cells'[cmd_pos] = Over(cells[cmd_pos], ch)
                 /\ \A col \in Columns : col # cmd_pos => cells'[col] = cells[col]
    BY <2>1, <2>2 DEF printable, draw_char, Over
  <2>4. ASSUME clean, fits', NEW col \in 0 .. REDRAW_COLUMNS - 1
        PROVE  cells'[col] = IF col < cmd_pos + 1 THEN cmd_buffer'[col] ELSE Blank
    <3>1. cells[col] = IF col < cmd_pos THEN cmd_buffer[col] ELSE Blank
      BY <1>4, <2>1, <2>4 DEF ScreenInv, ScreenShowsCommand
    <3>2. col \in Columns /\ col \in Bytes /\ col \in Nat
      BY ShellAssumption DEF Columns, Bytes
    <3>3. CASE col = cmd_pos
      BY <1>1, <1>2, <2>3, <2>4, <3>1, <3>3 DEF Over
    <3>4. CASE col # cmd_pos
      BY <1>1, <1>2, <2>3, <2>4, <3>1, <3>2, <3>4
    <3>5. QED
      BY <3>3, <3>4
  <2>5. fits' => cmd_pos' <= FB_COLUMNS
    <3>1. cmd_pos < FB_COLUMNS => cmd_pos' <= FB_COLUMNS
      <4>1. FB_COLUMNS \in Nat
        BY ShellAssumption
      <4>2. QED
        BY <1>1, <4>1
    <3>2. QED
      BY <2>1, <3>1, Zenon
  <2>6. QED
    BY <1>1, <2>1, <2>4, <2>5 DEF ScreenInv, ScreenShowsCommand, printable
<1>5. Editor!Type
  <2>1. /\ Line \in Seq(Printable \cup {NUL}) /\ Len(Line) = cmd_pos
        /\ \A k \in 1 .. cmd_pos : Line[k] = cmd_buffer[k - 1]
    BY <1>1, TextSeq DEF Line
  <2>2. /\ Line' \in Seq(Printable \cup {NUL}) /\ Len(Line') = cmd_pos + 1
        /\ \A k \in 1 .. cmd_pos + 1 : Line'[k] = cmd_buffer'[k - 1]
    BY <1>1, <1>2, TextSeq DEF Line
  <2>3. \A k \in 1 .. cmd_pos : k - 1 \in Bytes /\ k - 1 # cmd_pos
    BY <1>1 DEF Bytes
  <2>4. ASSUME NEW k \in 1 .. cmd_pos + 1
        PROVE  Line'[k] = IF k = cmd_pos + 1 THEN ch ELSE Line[k]
    <3>1. CASE k = cmd_pos + 1
      <4>1. k - 1 = cmd_pos
        BY <1>1, <3>1
      <4>2. QED
        BY <1>2, <2>2, <3>1, <4>1
    <3>2. CASE k # cmd_pos + 1
      <4>1. k \in 1 .. cmd_pos
        BY <1>1, <3>2
      <4>2. QED
        BY <1>2, <2>1, <2>2, <2>3, <3>2, <4>1
    <3>3. QED
      BY <3>1, <3>2
  <2>5. Line' = Append(Line, ch)
    BY <1>1, <2>1, <2>2, <2>4
  <2>6. QED
    BY <1>1, <2>1, <2>5 DEF Editor!Type, Line, printable, historyVars
<1>6. QED
  BY <1>3, <1>4, <1>5 DEF Kept

\* Backspace takes the last character away.
LEMMA BackspaceStep ==
  ASSUME LineInv, backspace
  PROVE  Kept /\ Editor!Erase
<1> DEFINE n == cmd_pos - 1
<1>1. /\ cmd_pos \in Bytes /\ cmd_pos \in Nat /\ cmd_pos > 0 /\ cmd_pos' = n
      /\ n \in Bytes /\ n \in Nat /\ cmd_pos = n + 1
      /\ cmd_buffer \in Buffer /\ cmd_buffer' = cmd_buffer /\ SHELL_BUFFER_SIZE \in Nat
  BY ShellAssumption DEF LineInv, backspace, Bytes
<1> HIDE DEF n
<1>2. LineInv'
  BY <1>1 DEF LineInv, backspace, historyVars
<1>3. ASSUME ScreenInv PROVE ScreenInv'
  <2>1. column = cmd_pos /\ column' = n /\ fits' = fits /\ column - 1 = n
    BY <1>1, <1>3 DEF ScreenInv, ScreenShowsCommand, backspace
  <2>2. fits => cmd_pos <= FB_COLUMNS /\ n < FB_COLUMNS /\ n <= FB_COLUMNS /\ n \in Columns
    BY <1>1, <1>3, ShellAssumption DEF ScreenInv, Columns, Bytes
  <2>3. fits => cells'[n] = Blank /\ \A col \in Columns : col # n => cells'[col] = cells[col]
    BY <2>1, <2>2 DEF backspace
  <2>4. ASSUME clean, fits', NEW col \in 0 .. REDRAW_COLUMNS - 1
        PROVE  cells'[col] = IF col < n THEN cmd_buffer[col] ELSE Blank
    <3>1. cells[col] = IF col < cmd_pos THEN cmd_buffer[col] ELSE Blank
      BY <1>3, <2>1, <2>4 DEF ScreenInv, ScreenShowsCommand
    <3>2. col \in Columns /\ col \in Nat
      BY ShellAssumption DEF Columns
    <3>3. QED
      BY <1>1, <2>1, <2>3, <2>4, <3>1, <3>2
  <2>5. QED
    BY <1>1, <2>1, <2>2, <2>4 DEF ScreenInv, ScreenShowsCommand, backspace
<1>4. Editor!Erase
  <2>1. /\ Line \in Seq(Printable \cup {NUL}) /\ Len(Line) = cmd_pos
        /\ \A k \in 1 .. cmd_pos : Line[k] = cmd_buffer[k - 1]
    BY <1>1, TextSeq DEF Line
  <2>2. /\ Line' \in Seq(Printable \cup {NUL}) /\ Len(Line') = n
        /\ \A k \in 1 .. n : Line'[k] = cmd_buffer[k - 1]
    BY <1>1, TextSeq DEF Line
  <2> DEFINE s == SubSeq(Line, 1, Len(Line) - 1)
  <2>3. s \in Seq(Printable \cup {NUL}) /\ Len(s) = n /\ \A k \in 1 .. n : s[k] = Line[k]
    BY <1>1, <2>1, SubSeqProperties
  <2> HIDE DEF s
  <2>4. \A k \in 1 .. n : Line'[k] = s[k]
    <3>1. \A k \in 1 .. n : k \in 1 .. cmd_pos
      BY <1>1
    <3>2. QED
      BY <2>1, <2>2, <2>3, <3>1
  <2>5. Line' = s
    BY <2>2, <2>3, <2>4
  <2>6. Line # << >>
    BY <1>1, <2>1
  <2>7. QED
    BY <2>5, <2>6 DEF s, Editor!Erase, Line, backspace, historyVars
<1>5. QED
  BY <1>2, <1>3, <1>4 DEF Kept

\* The line is emptied and redrawn.
LEMMA EmptyLine ==
  ASSUME LineInv, cmd_pos' = 0, cmd_buffer' = [cmd_buffer EXCEPT ![0] = NUL],
         shell_redraw_cmd(cmd_buffer, 0), UNCHANGED << history, history_count >>,
         history_pos' \in 0 .. history_count
  PROVE  Kept /\ Line' = << >>
<1>1. 0 \in Bytes
  BY ShellAssumption DEF Bytes
<1>2. cmd_buffer' \in Buffer
  BY <1>1 DEF LineInv, Buffer
<1>3. LineInv'
  BY <1>1, <1>2 DEF LineInv
<1>4. ASSUME ScreenInv PROVE ScreenInv'
  <2>1. column' = 0 /\ fits' = (0 <= FB_COLUMNS) /\ (fits' => Shows(cells', cmd_buffer, 0))
    BY <1>1, Redraw
  <2>2. \A col \in 0 .. REDRAW_COLUMNS - 1 : ~(col < 0)
    BY ShellAssumption
  <2>3. QED
    BY <2>1, <2>2 DEF ScreenInv, ScreenShowsCommand, Shows
<1>5. Line' = << >>
  BY DEF Line, Text
<1>6. QED
  BY <1>3, <1>4, <1>5 DEF Kept

\* Escape empties the line.
LEMMA EscapeStep ==
  ASSUME LineInv, escape
  PROVE  Kept /\ Editor!Clear
<1>1. history_pos' \in 0 .. history_count
  BY DEF LineInv, escape, historyVars
<1>2. Kept /\ Line' = << >>
  BY <1>1, EmptyLine DEF escape, historyVars
<1>3. QED
  BY <1>2 DEF Editor!Clear, Line, escape, historyVars

\* A remembered command takes the place of the line.
LEMMA CallBack ==
  ASSUME LineInv, NEW h \in 0 .. history_count - 1, call_back(h)
  PROVE  Kept /\ Line' = String(history[h]) /\ history_pos' = h
         /\ UNCHANGED << history, history_count, executed >>
<1> DEFINE b == shell_strcpy(cmd_buffer, history[h])
           n == shell_strlen(history[h])
<1>0. h \in 0 .. HISTORY_SIZE - 1 /\ history[h] \in Buffer /\ cmd_buffer \in Buffer
      /\ Ended(history[h]) /\ h \in 0 .. history_count
  BY ShellAssumption DEF LineInv
<1>1. b \in Buffer /\ EndsAt(b, n) /\ String(b) = String(history[h])
  BY <1>0, StrCpy
<1>2. shell_strlen(b) = n /\ n \in Bytes
  BY <1>1, StrLenIs DEF EndsAt
<1>3. /\ history_pos' = h /\ cmd_buffer' = b /\ cmd_pos' = n /\ shell_redraw_cmd(b, n)
      /\ UNCHANGED << history, history_count, executed >>
  BY <1>2 DEF call_back
<1> HIDE DEF b, n
<1>4. LineInv'
  BY <1>0, <1>1, <1>2, <1>3 DEF LineInv, EndsAt
<1>5. ASSUME ScreenInv PROVE ScreenInv'
  <2>1. column' = n /\ fits' = (n <= FB_COLUMNS) /\ (fits' => Shows(cells', b, n))
    BY <1>2, <1>3, Redraw
  <2>2. QED
    BY <1>3, <2>1 DEF ScreenInv, ScreenShowsCommand, Shows
<1>6. Line' = String(history[h])
  BY <1>1, <1>3, StringIs DEF Line
<1>7. QED
  BY <1>3, <1>4, <1>5, <1>6 DEF Kept

\* The remembered commands, by their number.
LEMMA PastIs ==
  ASSUME LineInv
  PROVE  /\ Len(Past) = history_count
         /\ \A h \in 0 .. history_count - 1 : Past[h + 1] = String(history[h])
<1>1. history_count \in Nat
  BY ShellAssumption DEF LineInv
<1>2. \A h \in 0 .. history_count - 1 : h + 1 \in 1 .. history_count /\ (h + 1) - 1 = h
  BY <1>1
<1>3. QED
  BY <1>1, <1>2 DEF Past

\* The arrows go through the remembered commands.
LEMMA ArrowStep ==
  ASSUME LineInv, up \/ down
  PROVE  Kept /\ (Editor!Older \/ Editor!Newer)
<1>0. history_count \in Nat /\ history_pos \in 0 .. history_count
  BY ShellAssumption DEF LineInv
<1>1. CASE up
  <2> DEFINE h == history_pos - 1
  <2>1. h \in 0 .. history_count - 1 /\ call_back(h) /\ history_pos > 0 /\ h + 1 = history_pos
    BY <1>0, <1>1 DEF up
  <2> HIDE DEF h
  <2>2. /\ Kept /\ Line' = String(history[h]) /\ history_pos' = h
        /\ UNCHANGED << history, history_count, executed >>
    BY <2>1, CallBack
  <2>3. Past[history_pos] = String(history[h])
    BY <2>1, PastIs
  <2>4. history_pos - 1 = h
    BY DEF h
  <2>5. Editor!Older
    BY <2>1, <2>2, <2>3, <2>4 DEF Editor!Older, Line, Past
  <2>6. QED
    BY <2>2, <2>5
<1>2. CASE history_pos < history_count - 1 /\ call_back(history_pos + 1)
  <2> DEFINE h == history_pos + 1
  <2>1. h \in 0 .. history_count - 1 /\ call_back(h) /\ h < history_count
        /\ history_pos < history_count /\ h + 1 = history_pos + 2
    BY <1>0, <1>2
  <2> HIDE DEF h
  <2>2. /\ Kept /\ Line' = String(history[h]) /\ history_pos' = h
        /\ UNCHANGED << history, history_count, executed >>
    BY <2>1, CallBack
  <2>3. Past[history_pos + 2] = String(history[h]) /\ Len(Past) = history_count
    BY <2>1, PastIs
  <2>4. history_pos + 1 = h
    BY DEF h
  <2>5. Editor!Newer
    BY <2>1, <2>2, <2>3, <2>4 DEF Editor!Newer, Line, Past
  <2>6. QED
    BY <2>2, <2>5
<1>3. CASE /\ history_pos = history_count - 1
           /\ history_pos' = history_count
           /\ cmd_pos' = 0 /\ cmd_buffer' = [cmd_buffer EXCEPT ![0] = NUL]
           /\ shell_redraw_cmd(cmd_buffer, 0)
           /\ UNCHANGED << history, history_count, executed >>
  <2>1. history_pos' \in 0 .. history_count
    BY <1>0, <1>3
  <2>2. Kept /\ Line' = << >>
    BY <1>3, <2>1, EmptyLine
  <2>3. Len(Past) = history_count /\ history_pos < history_count
        /\ history_pos + 1 = history_count /\ ~(history_pos + 1 < history_count)
    BY <1>0, <1>3, PastIs
  <2>4. Editor!Newer
    BY <1>3, <2>2, <2>3 DEF Editor!Newer, Line, Past
  <2>5. QED
    BY <2>2, <2>4
<1>4. QED
  BY <1>1, <1>2, <1>3 DEF down

\* The history after Enter: its texts are the old ones and the line, without the
\* oldest if there is no room.
LEMMA Saved ==
  ASSUME LineInv, cmd_pos # 0, NEW b \in Buffer, Ended(b)
  PROVE  LET n == IF history_count < HISTORY_SIZE THEN history_count + 1 ELSE history_count
             hs == SavedHistory(b)
         IN  /\ hs \in [0 .. HISTORY_SIZE - 1 -> Buffer]
             /\ \A h \in 0 .. n - 1 :
                  /\ Ended(hs[h])
                  /\ String(hs[h]) = IF h = n - 1 THEN String(b)
                                     ELSE IF history_count < HISTORY_SIZE THEN String(history[h])
                                     ELSE String(history[h + 1])
<1> DEFINE n == IF history_count < HISTORY_SIZE THEN history_count + 1 ELSE history_count
           hs == SavedHistory(b)
<1>0. /\ history_count \in Nat /\ HISTORY_SIZE \in Nat \ {0} /\ history_count <= HISTORY_SIZE
      /\ history \in [0 .. HISTORY_SIZE - 1 -> Buffer]
      /\ \A h \in 0 .. history_count - 1 : Ended(history[h])
  BY ShellAssumption DEF LineInv
<1>1. ASSUME NEW d \in Buffer
      PROVE  shell_strcpy(d, b) \in Buffer /\ Ended(shell_strcpy(d, b))
             /\ String(shell_strcpy(d, b)) = String(b)
  BY StrCpy
<1>2. CASE history_count < HISTORY_SIZE
  <2> DEFINE w == shell_strcpy(history[history_count], b)
  <2>1. history_count \in 0 .. HISTORY_SIZE - 1 /\ n = history_count + 1
    BY <1>0, <1>2
  <2>2. w \in Buffer /\ Ended(w) /\ String(w) = String(b)
    BY <1>0, <1>1, <2>1
  <2>3. hs = [history EXCEPT ![history_count] = w]
    BY <1>2 DEF SavedHistory
  <2> HIDE DEF w, hs
  <2>4. hs \in [0 .. HISTORY_SIZE - 1 -> Buffer] /\ hs[history_count] = w
        /\ \A h \in 0 .. HISTORY_SIZE - 1 : h # history_count => hs[h] = history[h]
    BY <1>0, <2>1, <2>2, <2>3
  <2>5. ASSUME NEW h \in 0 .. n - 1
        PROVE  /\ Ended(hs[h])
               /\ String(hs[h]) = IF h = n - 1 THEN String(b)
                                  ELSE IF history_count < HISTORY_SIZE THEN String(history[h])
                                  ELSE String(history[h + 1])
    <3>1. CASE h = history_count
      BY <1>0, <2>1, <2>2, <2>4, <3>1
    <3>2. CASE h # history_count
      <4>1. h \in 0 .. history_count - 1 /\ h \in 0 .. HISTORY_SIZE - 1 /\ h # n - 1
        BY <1>0, <2>1, <3>2
      <4>2. QED
        BY <1>0, <1>2, <2>4, <3>2, <4>1
    <3>3. QED
      BY <3>1, <3>2
  <2>6. QED
    BY <2>4, <2>5 DEF hs
<1>3. CASE ~(history_count < HISTORY_SIZE)
  <2> DEFINE last == HISTORY_SIZE - 1
  <2>1. /\ history_count = HISTORY_SIZE /\ n = HISTORY_SIZE /\ last \in 0 .. HISTORY_SIZE - 1
        /\ last \in Nat
    BY <1>0, <1>3
  <2>2. hs = [h \in 0 .. last |-> IF h < last THEN shell_strcpy(history[h], history[h + 1])
                                  ELSE shell_strcpy(history[h], b)]
    BY <1>3 DEF SavedHistory
  <2> HIDE DEF hs, last
  <2>3. ASSUME NEW h \in 0 .. last
        PROVE  /\ hs[h] \in Buffer /\ Ended(hs[h])
               /\ String(hs[h]) = IF h = last THEN String(b) ELSE String(history[h + 1])
    <3>0. history[h] \in Buffer
      BY <1>0 DEF last
    <3>1. CASE h < last
      <4>1. h + 1 \in 0 .. HISTORY_SIZE - 1 /\ h + 1 \in 0 .. history_count - 1 /\ h # last
        BY <1>0, <2>1, <3>1 DEF last
      <4>2. history[h + 1] \in Buffer /\ Ended(history[h + 1])
        BY <1>0, <4>1
      <4>3. hs[h] = shell_strcpy(history[h], history[h + 1])
        BY <2>2, <3>1
      <4>4. QED
        BY <3>0, <4>1, <4>2, <4>3, StrCpy
    <3>2. CASE ~(h < last)
      <4>1. h = last
        BY <2>1, <3>2
      <4>2. hs[h] = shell_strcpy(history[h], b)
        BY <2>2, <3>2
      <4>3. QED
        BY <1>1, <3>0, <4>1, <4>2
    <3>3. QED
      BY <3>1, <3>2
  <2>4. 0 .. last = 0 .. HISTORY_SIZE - 1 /\ n - 1 = last
    BY <2>1 DEF last
  <2>5. hs \in [0 .. HISTORY_SIZE - 1 -> Buffer]
    BY <2>2, <2>3, <2>4
  <2>6. QED
    BY <1>3, <2>3, <2>4, <2>5 DEF hs
<1>4. QED
  BY <1>2, <1>3

\* The remembered commands are a sequence of texts.
LEMMA PastSeq ==
  ASSUME LineInv
  PROVE  Past \in Seq(Seq(Printable \cup {NUL})) /\ Len(Past) = history_count
<1>1. history_count \in Nat /\ history_count <= HISTORY_SIZE
  BY ShellAssumption DEF LineInv
<1>2. ASSUME NEW h \in 1 .. history_count PROVE String(history[h - 1]) \in Seq(Printable \cup {NUL})
  <2> DEFINE g == h - 1
  <2>1. g \in 0 .. history_count - 1 /\ g \in 0 .. HISTORY_SIZE - 1
    BY <1>1, ShellAssumption
  <2> HIDE DEF g
  <2>2. history[g] \in Buffer /\ Ended(history[g])
    BY <2>1 DEF LineInv
  <2>3. shell_strlen(history[g]) \in Bytes
    BY <2>2, StrLen DEF EndsAt
  <2>4. String(history[g]) \in Seq(Printable \cup {NUL})
    BY <2>2, <2>3, TextSeq DEF String
  <2>5. QED
    BY <2>4 DEF g
<1>3. QED
  BY <1>1, <1>2 DEF Past

\* A sequence and one element more.
LEMMA AppendIs ==
  ASSUME NEW S, NEW s \in Seq(S), NEW x \in S, NEW t,
         t = [h \in 1 .. Len(s) + 1 |-> IF h = Len(s) + 1 THEN x ELSE s[h]]
  PROVE  t = Append(s, x)
<1> DEFINE n == Len(s)
<1>1. n \in Nat /\ \A h \in 1 .. n : s[h] \in S
  BY ElementOfSeq
<1>2. t \in Seq(S) /\ Len(t) = n + 1
  <2>1. \A h \in 1 .. n + 1 : h # n + 1 => h \in 1 .. n
    BY <1>1
  <2>2. t \in [1 .. n + 1 -> S]
    BY <1>1, <2>1
  <2>3. QED
    BY <1>1, <2>2
<1> DEFINE u == Append(s, x)
<1>3. u \in Seq(S) /\ Len(u) = n + 1 /\ u[n + 1] = x /\ \A h \in 1 .. n : u[h] = s[h]
  BY <1>1
<1> HIDE DEF u, n
<1>4. \A h \in 1 .. n + 1 : t[h] = u[h]
  <2>1. \A h \in 1 .. n + 1 : t[h] = IF h = n + 1 THEN x ELSE s[h]
    BY DEF n
  <2>2. \A h \in 1 .. n + 1 : h # n + 1 => h \in 1 .. n
    BY <1>1
  <2>3. QED
    BY <1>3, <2>1, <2>2
<1>5. QED
  BY <1>2, <1>3, <1>4, SeqEqual DEF u

\* Enter runs the line, remembers it and starts an empty one.
LEMMA EnterStep ==
  ASSUME LineInv, enter
  PROVE  Kept /\ Editor!Run
<1> DEFINE b == Terminated(cmd_buffer)
           count == IF cmd_pos > 0 /\ history_count < HISTORY_SIZE
                    THEN history_count + 1 ELSE history_count
<1>0. /\ cmd_buffer \in Buffer /\ cmd_pos \in Bytes /\ cmd_pos \in Nat /\ 0 \in Bytes
      /\ history_count \in Nat /\ history_count <= HISTORY_SIZE /\ HISTORY_SIZE \in Nat \ {0}
  BY ShellAssumption DEF LineInv, Bytes
<1>1. /\ cmd_buffer' = b /\ cmd_pos' = 0 /\ history' = SavedHistory(b)
      /\ history_count' = count /\ history_pos' = count /\ shell_execute(String(b))
  BY DEF enter
<1>2. b = [cmd_buffer EXCEPT ![cmd_pos] = NUL]
  BY DEF Terminated
<1> HIDE DEF b
<1>3. b \in Buffer /\ b[cmd_pos] = NUL /\ \A k \in 0 .. cmd_pos - 1 : b[k] = cmd_buffer[k]
  BY <1>0, <1>2 DEF Buffer, Bytes
<1>4. EndsAt(b, cmd_pos) /\ Ended(b)
  BY <1>0, <1>3 DEF EndsAt, Ended, LineInv
<1>5. String(b) = Line
  <2>1. \A k \in 1 .. cmd_pos : k - 1 \in 0 .. cmd_pos - 1
    BY <1>0
  <2>2. Text(b, cmd_pos) = Line
    BY <1>3, <2>1 DEF Text, Line
  <2>3. QED
    BY <1>4, <2>2, StringIs
<1>6. count \in 0 .. HISTORY_SIZE /\ count \in Nat
  BY <1>0
\* What is remembered.
<1>7. /\ history' \in [0 .. HISTORY_SIZE - 1 -> Buffer]
      /\ \A h \in 0 .. count - 1 : Ended(history'[h])
      /\ Past' = Editor!Remembered
  <2>0. Line \in Seq(Printable \cup {NUL}) /\ Len(Line) = cmd_pos
    BY <1>0, TextSeq DEF Line
  <2>1. CASE cmd_pos = 0
    <3>1. history' = history /\ count = history_count /\ Line = << >>
      BY <1>0, <1>1, <2>0, <2>1 DEF SavedHistory
    <3>2. Past' = Past
      BY <1>1, <3>1 DEF Past
    <3>3. QED
      BY <3>1, <3>2 DEF LineInv, Editor!Remembered, Line, Past
  <2>2. CASE cmd_pos # 0
    <3>1. Line # << >>
      BY <1>0, <2>0, <2>2
    <3>2. count = IF history_count < HISTORY_SIZE THEN history_count + 1 ELSE history_count
      BY <1>0, <2>2
    <3>3. /\ history' \in [0 .. HISTORY_SIZE - 1 -> Buffer]
          /\ \A h \in 0 .. count - 1 :
               /\ Ended(history'[h])
               /\ String(history'[h]) = IF h = count - 1 THEN Line
                                        ELSE IF history_count < HISTORY_SIZE THEN String(history[h])
                                        ELSE String(history[h + 1])
      BY <1>1, <1>3, <1>4, <1>5, <2>2, <3>2, Saved
    <3>4. Past \in Seq(Seq(Printable \cup {NUL})) /\ Len(Past) = history_count
      BY PastSeq
    <3>5. \A h \in 0 .. history_count - 1 : Past[h + 1] = String(history[h])
      BY PastIs
    <3>6. Past' = [h \in 1 .. count |-> String(history'[h - 1])]
      BY <1>1 DEF Past
    <3> HIDE DEF count
    <3>7. CASE history_count < HISTORY_SIZE
      <4>1. count = history_count + 1
        BY <3>2, <3>7
      <4>2. ASSUME NEW h \in 1 .. count
            PROVE  String(history'[h - 1]) = IF h = count THEN Line ELSE Past[h]
        <5> DEFINE g == h - 1
        <5>1. g \in 0 .. count - 1 /\ (h = count <=> g = count - 1) /\ h = g + 1
              /\ (h # count => g \in 0 .. history_count - 1)
          BY <1>0, <4>1
        <5> HIDE DEF g
        <5>2. String(history'[g]) = IF h = count THEN Line ELSE String(history[g])
          BY <3>3, <3>7, <5>1
        <5>3. QED
          BY <3>5, <5>1, <5>2 DEF g
      <4>3. Past' = [h \in 1 .. count |-> IF h = count THEN Line ELSE Past[h]]
        BY <3>6, <4>2
      <4>4. Past' = Append(Past, Line)
        BY <2>0, <3>4, <4>1, <4>3, AppendIs
      <4>5. QED
        BY <3>1, <3>3, <3>4, <3>7, <4>4 DEF Editor!Remembered, Line, Past
    <3>8. CASE ~(history_count < HISTORY_SIZE)
      <4>1. count = history_count /\ count > 0
        BY <1>0, <3>2, <3>8
      <4> DEFINE T == Tail(Past)
      <4>2. T \in Seq(Seq(Printable \cup {NUL})) /\ Len(T) = count - 1
            /\ \A h \in 1 .. count - 1 : T[h] = Past[h + 1]
        BY <1>0, <3>4, <4>1
      <4> HIDE DEF T
      <4>3. ASSUME NEW h \in 1 .. count
            PROVE  String(history'[h - 1]) = IF h = count THEN Line ELSE T[h]
        <5> DEFINE g == h - 1
        <5>1. g \in 0 .. count - 1 /\ (h = count <=> g = count - 1) /\ h = g + 1
              /\ (h # count => h \in 0 .. history_count - 1 /\ h \in 1 .. count - 1)
          BY <1>0, <4>1
        <5> HIDE DEF g
        <5>2. String(history'[g]) = IF h = count THEN Line ELSE String(history[h])
          BY <3>3, <3>8, <5>1
        <5>3. h # count => Past[h + 1] = String(history[h]) /\ T[h] = Past[h + 1]
          BY <3>5, <4>2, <5>1
        <5>4. QED
          BY <5>2, <5>3 DEF g
      <4>4. Past' = [h \in 1 .. count |-> IF h = count THEN Line ELSE T[h]]
        BY <3>6, <4>3
      <4>5. Past' = Append(T, Line)
        <5>1. Len(T) + 1 = count
          BY <1>6, <4>2
        <5>2. QED
          BY <2>0, <4>2, <4>4, <5>1, AppendIs
      <4>6. QED
        BY <3>1, <3>3, <3>4, <3>8, <4>5 DEF T, Editor!Remembered, Line, Past
    <3>9. QED
      BY <3>7, <3>8
  <2>3. QED
    BY <2>1, <2>2
<1>8. LineInv'
  BY <1>0, <1>1, <1>3, <1>6, <1>7 DEF LineInv
<1>9. Len(Past') = count
  BY <1>1, <1>6 DEF Past
<1>10. column' = 0 /\ (clean' => Shows(cells', b, 0)) /\ executed' = Line
  BY <1>1, <1>5, Prompt
<1>11. ScreenInv'
  BY <1>1, <1>10, ShellAssumption DEF ScreenInv, ScreenShowsCommand, Shows
<1>12. Line' = << >>
  BY <1>1 DEF Line, Text
<1>13. Editor!Run
  BY <1>1, <1>7, <1>9, <1>10, <1>12 DEF Editor!Run, Line, Past
<1>14. QED
  BY <1>8, <1>11, <1>13 DEF Kept

\* Every step of the shell.
LEMMA ShellStep ==
  ASSUME LineInv, [ShellNext]_shellVars
  PROVE  Kept /\ [Editor!LineNext]_<< Line, Past, history_pos, executed >>
<1>1. CASE UNCHANGED shellVars
  <2>1. LineInv'
    BY <1>1 DEF LineInv, shellVars, lineVars, historyVars
  <2>2. ScreenInv => ScreenInv'
    BY <1>1 DEF ScreenInv, ScreenShowsCommand, shellVars, lineVars, screenVars
  <2>3. UNCHANGED << Line, Past, history_pos, executed >>
    BY <1>1 DEF Line, Past, shellVars, lineVars, historyVars
  <2>4. QED
    BY <2>1, <2>2, <2>3 DEF Kept
<1>2. CASE shell_process_char
  BY <1>2, EnterStep, BackspaceStep, EscapeStep, ArrowStep, PrintableStep
  DEF shell_process_char, Editor!LineNext
<1>3. QED
  BY <1>1, <1>2 DEF ShellNext, shell_run

\* shell_init.
LEMMA ShellStart == ShellInit => LineInv /\ ScreenInv
<1> SUFFICES ASSUME ShellInit PROVE LineInv /\ ScreenInv
  OBVIOUS
<1>1. 0 \in Bytes /\ HISTORY_SIZE \in Nat
  BY ShellAssumption DEF Bytes
<1>2. [n \in Bytes |-> NUL] \in Buffer
  BY DEF Buffer
<1>3. LineInv
  BY <1>1, <1>2 DEF ShellInit, LineInv
<1>4. \A col \in 0 .. REDRAW_COLUMNS - 1 : col \in Columns /\ ~(col < 0)
  BY ShellAssumption DEF Columns
<1>5. ScreenInv
  BY <1>4, ShellAssumption DEF ShellInit, ScreenInv, ScreenShowsCommand
<1>6. QED
  BY <1>3, <1>5

\* ScreenShowsCommand, for lines, histories and screens of every size: the line
\* stands after the prompt, as far as shell_redraw_cmd clears, if the row was empty
\* when the prompt came and nothing was drawn past the edge of the screen since
\* then or since the last redraw.
THEOREM ScreenShowsCommandCorrect == ShellSpec => []ScreenShowsCommand
<1>1. ShellInit => LineInv /\ ScreenInv
  BY ShellStart
<1>2. LineInv /\ ScreenInv /\ [ShellNext]_shellVars => LineInv' /\ ScreenInv'
  BY ShellStep DEF Kept
<1>3. LineInv /\ ScreenInv => ScreenShowsCommand
  BY DEF ScreenInv
<1>4. QED
  BY <1>1, <1>2, <1>3, PTL DEF ShellSpec

\* ImplementsLineEditor, for buffers and histories of every size: the arrays of
\* shell_process_char, with the ends of earlier texts in them, are a line editor.
THEOREM ImplementsLineEditorCorrect == ShellSpec => ImplementsLineEditor
<1>1. ShellInit => LineInv
  BY ShellStart
<1>2. ShellInit => Editor!LineInit
  BY DEF ShellInit, Editor!LineInit, Text
<1>3. LineInv /\ [ShellNext]_shellVars => LineInv'
  BY ShellStep DEF Kept
<1>4. LineInv /\ [ShellNext]_shellVars
        => [Editor!LineNext]_<< Text(cmd_buffer, cmd_pos),
                                [h \in 1 .. history_count |-> String(history[h - 1])],
                                history_pos, executed >>
  BY ShellStep DEF Line, Past
<1>5. QED
  BY <1>1, <1>2, <1>3, <1>4, PTL DEF ShellSpec, ImplementsLineEditor, Editor!LineSpec
=============================================================================
